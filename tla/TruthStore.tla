----------------------------- MODULE TruthStore -----------------------------
(***************************************************************************)
(* What the tactic solver's table of truths promises those who ask for     *)
(* them (psp/lib/tactic_solver/solver.rb): a cache with lifetimes that     *)
(* holds one entry to a key and forgets none that is alive, except for a   *)
(* newer one.                                                              *)
(***************************************************************************)
EXTENDS Naturals

VARIABLES
    time,
    store      \* entries, each with a key, a value and an expiry

Alive(e) == e.exp > time

Keyed == \A e, f \in store : e.key = f.key => e = f

Init == time = 0 /\ Keyed

Tick == time' = time + 1 /\ UNCHANGED store

\* What goes has expired or makes way for what comes, and what comes is alive.
Change ==
    /\ \A e \in store \ store' :
           ~Alive(e) \/ \E f \in store' \ store : f.key = e.key
    /\ \A e \in store' \ store : Alive(e)
    /\ Keyed'
    /\ UNCHANGED time

Next == Tick \/ Change

Spec == Init /\ [][Next]_<<time, store>>
=============================================================================
