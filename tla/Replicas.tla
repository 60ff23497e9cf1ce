------------------------------ MODULE Replicas ------------------------------
(***************************************************************************)
(* What spreading truths among signposts promises, whatever carries it:    *)
(* each signpost writes values one after the other, and every other one    *)
(* has a copy, which takes values that were written and no others.  Until  *)
(* something breaks, a copy takes them one by one in the order they were   *)
(* written in: it skips none and never goes back.                          *)
(***************************************************************************)
EXTENDS Naturals, Sequences

CONSTANTS
    Nodes,      \* the signposts
    Values,     \* what they write
    Nothing,    \* the copy of one that wrote nothing yet
    Fresh       \* TRUE: none writes a value twice

VARIABLES
    written,    \* the values each has written, in order
    copy,       \* copy[n][s]: the value n has of s
    broken      \* whether something broke

replicavars == <<written, copy, broken>>

Init ==
    /\ written = [s \in Nodes |-> <<>>]
    /\ copy = [n \in Nodes |-> [s \in Nodes \ {n} |-> Nothing]]
    /\ broken = FALSE

Write(s, v) ==
    /\ Fresh => \A i \in DOMAIN written[s] : written[s][i] # v
    /\ written' = [written EXCEPT ![s] = Append(@, v)]
    /\ UNCHANGED <<copy, broken>>

\* new was written right after old, or first.
Follows(s, old, new) ==
    \E i \in DOMAIN written[s] :
        /\ new = written[s][i]
        /\ old = IF i = 1 THEN Nothing ELSE written[s][i - 1]

WasWritten(s, new) == \E i \in DOMAIN written[s] : new = written[s][i]

\* n hears of others. Where a value may come twice, or something broke, the order
\* is not known.
Hear(n) ==
    /\ \E heard \in [Nodes \ {n} -> Values \cup {Nothing}] :
           copy' = [copy EXCEPT ![n] = heard]
    /\ \A s \in Nodes \ {n} : copy'[n][s] # copy[n][s] =>
           /\ WasWritten(s, copy'[n][s])
           /\ Fresh /\ ~broken => Follows(s, copy[n][s], copy'[n][s])
    /\ UNCHANGED <<written, broken>>

Break ==
    /\ broken' = TRUE
    /\ UNCHANGED <<written, copy>>

Next ==
    \/ \E s \in Nodes, v \in Values : Write(s, v)
    \/ \E n \in Nodes : Hear(n)
    \/ Break

Spec == Init /\ [][Next]_replicavars
=============================================================================
