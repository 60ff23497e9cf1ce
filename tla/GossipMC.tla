------------------------------ MODULE GossipMC ------------------------------
(***************************************************************************)
(* Instances of Gossip: channels in a triangle and in a line.              *)
(***************************************************************************)
EXTENDS Gossip

CONSTANTS a, b, c

Both(pairs) == pairs \cup {<<p[2], p[1]>> : p \in pairs}

Triangle == Both({<<a, b>>, <<b, c>>, <<c, a>>})
Line == Both({<<a, b>>, <<b, c>>})
=============================================================================
