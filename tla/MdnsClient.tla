----------------------------- MODULE MdnsClient -----------------------------
(***************************************************************************)
(* How the Python signpost keeps the signposts of its local networks       *)
(* (psp_python/mdns.py): Avahi tells which appear and vanish, and each one *)
(* that appears is resolved by a call whose answer comes later.  Avahi is  *)
(* external; a name on two interfaces is two instances.                    *)
(***************************************************************************)
EXTENDS Naturals

CONSTANTS
    Instances,     \* a name on an interface
    MaxResolves    \* bound on the resolutions asked for

VARIABLES
    present,       \* the instances Avahi announced and has not revoked
    resolving,     \* the answers each instance still waits for
    local_psp,     \* self._local_psp
    unresolved,    \* failed since the instance last appeared
    late,          \* resolved since the instance last vanished
    resolves       \* resolutions asked for so far

vars == <<present, resolving, local_psp, unresolved, late, resolves>>

TypeOK ==
    /\ present \subseteq Instances /\ local_psp \subseteq Instances
    /\ unresolved \subseteq Instances /\ late \subseteq Instances
    /\ resolving \in [Instances -> 0 .. MaxResolves]
    /\ resolves \in 0 .. MaxResolves

Init ==
    /\ present = {} /\ local_psp = {} /\ unresolved = {} /\ late = {}
    /\ resolving = [i \in Instances |-> 0]
    /\ resolves = 0

-----------------------------------------------------------------------------
(* RemoveNamed is a faulty variant: it breaks the property checked below.  *)

\* ItemNew.
add_signpost(i) ==
    /\ i \notin present /\ resolves < MaxResolves
    /\ present' = present \cup {i}
    /\ resolving' = [resolving EXCEPT ![i] = @ + 1]
    /\ resolves' = resolves + 1
    /\ unresolved' = unresolved \ {i} /\ late' = late \ {i}
    /\ UNCHANGED local_psp

\* The test for an instance that is known looks its interface up among the
\* names, so that every answer enters it, one that comes after the instance was
\* revoked too.
service_resolved(i) ==
    /\ resolving[i] > 0
    /\ resolving' = [resolving EXCEPT ![i] = @ - 1]
    /\ local_psp' = local_psp \cup {i}
    /\ late' = IF i \in present THEN late ELSE late \cup {i}
    /\ UNCHANGED <<present, unresolved, resolves>>

\* The handler of errors raises one of its own, in a callback of D-Bus.
print_error(i) ==
    /\ resolving[i] > 0
    /\ resolving' = [resolving EXCEPT ![i] = @ - 1]
    /\ unresolved' = unresolved \cup {i}
    /\ UNCHANGED <<present, local_psp, late, resolves>>

RemoveNamed(i) ==
    /\ i \in present
    /\ present' = present \ {i}
    /\ UNCHANGED <<resolving, local_psp, unresolved, late, resolves>>

\* ItemRemove. The callbacks of both signals keep no state and are left out.
remove_signpost(i) ==
    /\ i \in present
    /\ present' = present \ {i}
    /\ local_psp' = local_psp \ {i}
    /\ UNCHANGED <<resolving, unresolved, late, resolves>>

Next ==
    \E i \in Instances :
        add_signpost(i) \/ service_resolved(i) \/ print_error(i) \/ remove_signpost(i)

Spec == Init /\ [][Next]_vars

-----------------------------------------------------------------------------
(* Properties.                                                             *)

\* A signpost that is there and waits for no answer is in the table unless it
\* did not resolve; one in the table that is not there was entered by an answer
\* that came after it left, and stays until it comes back and leaves again.
TableFollows ==
    \A i \in Instances :
        /\ i \in present \ unresolved /\ resolving[i] = 0 => i \in local_psp
        /\ i \in local_psp \ present => i \in late
=============================================================================
