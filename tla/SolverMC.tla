------------------------------ MODULE SolverMC ------------------------------
(***************************************************************************)
(* Small instances of Solver: one truth name and its wildcard form, two    *)
(* clients working for two users, this signpost and another.               *)
(***************************************************************************)
EXTENDS Solver, TLC

CONSTANTS c1, c2, u1, u2, me, peer, p1, p2, v1, v2

MCResources == {"ip"}
MCDomains == {"host"}
MCUserOf == [c \in Clients |-> IF c = c1 THEN u1 ELSE u2]

Host == <<"ip", "host">>
Wild == <<"ip", ANY>>

Wants(c, sp) == [observe |-> FALSE, sub |-> [what |-> Host, who |-> c, sp |-> sp, user |-> MCUserOf[c]]]
Watches(c, w, sp) == [observe |-> TRUE, sub |-> [what |-> w, who |-> c, sp |-> sp, user |-> MCUserOf[c]]]
Gives(p, u, sp, v, ttl) ==
    [what |-> Host, provider |-> p, user |-> u, sp |-> sp, val |-> v, ttl |-> ttl]

-----------------------------------------------------------------------------
\* Two users need the same truth, one of any signpost and one of the peer.
NeedRequests == {Wants(c1, ANY), Wants(c2, peer)}
NeedOffers == {Gives(p1, u1, me, v1, 1), Gives(p1, u2, peer, v2, 1), Gives(p1, GLOBAL, me, v1, 0)}

\* A client needs a truth of any signpost, a daemon watches the resource in
\* every domain; both may leave.
LifeRequests == {Wants(c1, ANY), Watches(c2, Wild, peer)}
LifeOffers == {Gives(p1, GLOBAL, me, v1, 0), Gives(p1, GLOBAL, me, v2, 1)}

\* A client that wants a truth of this signpost only.
HereRequests == {Watches(c1, Host, me), Watches(c2, Wild, peer)}
HereOffers == {Gives(p1, u1, peer, v1, 1), Gives(p1, GLOBAL, me, v2, 1)}

NoTruths == {}
OldTruths == {[what |-> Host, provider |-> p2, user |-> u1, sp |-> me, val |-> v1, exp |-> 1]}
=============================================================================
