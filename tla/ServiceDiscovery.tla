-------------------------- MODULE ServiceDiscovery --------------------------
(***************************************************************************)
(* How the Python signpost keeps the list of services of its host          *)
(* (psp_python/server_discovery.py, called from the main loop of psp.py):  *)
(* a list of the sockets found last time is updated in place every 30      *)
(* seconds while processes come and go.                                    *)
(***************************************************************************)
EXTENDS Naturals, Sequences, FiniteSets, SequencesExt

CONSTANTS
    Services,      \* name, address, port and type of a socket
    MaxChanges     \* bound on the sockets opened and closed

VARIABLES
    listening,        \* the sockets that are open
    service_cache,    \* self._service_cache
    timer,            \* "unset", "set" by gobject.timeout_add, or "gone"
    changes           \* sockets opened and closed so far

vars == <<listening, service_cache, timer, changes>>

TypeOK ==
    /\ listening \subseteq Services
    /\ service_cache \in Seq(Services)
    /\ timer \in {"unset", "set", "gone"}
    /\ changes \in 0 .. MaxChanges

Init ==
    /\ listening \in SUBSET Services
    /\ service_cache = <<>>
    /\ timer = "unset"
    /\ changes = 0

-----------------------------------------------------------------------------
(* CompareKeeps is a faulty variant that breaks the property below.        *)

CompareKeeps(lists, i) ==
    LET entry == lists.cache[i]
    IN IF i > Len(lists.cache) \/ entry \notin ToSet(lists.found) THEN lists
       ELSE [lists EXCEPT !.found = RemoveFirst(@, entry)]

\* One turn of the loop over the list it removes from: the entry behind a
\* removed one moves to its place and is skipped.
Compare(lists, i) ==
    LET entry == lists.cache[i]
    IN IF i > Len(lists.cache) THEN lists
       ELSE IF entry \notin ToSet(lists.found)
            THEN [lists EXCEPT !.cache = RemoveFirst(@, entry)]
            ELSE [lists EXCEPT !.found = RemoveFirst(@, entry)]

\* The lists that the loop can leave. Sockets are found in the order of their
\* processes.
Compared(cache) ==
    LET after[i \in 0 .. Len(cache)] ==
            IF i = 0
            THEN {[cache |-> cache, found |-> found] : found \in SetToSeqs(listening)}
            ELSE {Compare(lists, i) : lists \in after[i - 1]}
    IN after[Len(cache)]

\* service_update, which psp.py calls once and then from the timer. What is left
\* of the sockets found, those that were skipped included, is appended.
service_update ==
    /\ timer # "gone"
    /\ \E lists \in Compared(service_cache) : service_cache' = lists.cache \o lists.found
    /\ timer' = "set"
    /\ UNCHANGED <<listening, changes>>

\* A process that ended since its pid was listed raises NoSuchProcess: the
\* first call ends the program, and a later one its own timer.
UpdateRaises ==
    /\ timer # "gone"
    /\ timer' = "gone"
    /\ UNCHANGED <<listening, service_cache, changes>>

Change(s) ==
    /\ changes < MaxChanges /\ changes' = changes + 1
    /\ listening' = IF s \in listening THEN listening \ {s} ELSE listening \cup {s}
    /\ UNCHANGED <<service_cache, timer>>

Next ==
    \/ service_update \/ UpdateRaises
    \/ \E s \in Services : Change(s)

Spec == Init /\ [][Next]_vars

\* The timer fires while it is set.
Fairness == WF_vars(service_update)

FairSpec == Spec /\ Fairness

-----------------------------------------------------------------------------
(* Properties.                                                             *)

Exact == Len(service_cache) = Cardinality(listening) /\ ToSet(service_cache) = listening

\* The sockets listed twice and the closed ones still listed are gone after a
\* few more updates: once no sockets are opened or closed the list comes to
\* hold each open socket once, unless an update raised.
Converges == <>[](Exact \/ timer = "gone")
=============================================================================
