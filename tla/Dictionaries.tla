---------------------------- MODULE Dictionaries ----------------------------
(***************************************************************************)
(* Functions used as tables: the hash tables and database tables of the    *)
(* models that theorems are about.  The operators :> and @@ of TLC would   *)
(* do, but a prover knows nothing of them.                                 *)
(***************************************************************************)

\* The table f with v entered under k, in the place of what it had there.
Put(f, k, v) == [j \in DOMAIN f \cup {k} |-> IF j = k THEN v ELSE f[j]]
=============================================================================
