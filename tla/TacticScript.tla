----------------------------- MODULE TacticScript ----------------------------
(***************************************************************************)
(* A tactic's script as its library tactic_helper.rb runs it. The script   *)
(* registers blocks, each with the truths it requires. Truths arrive in    *)
(* any order, those of an earlier request among them, and get a version    *)
(* number each. After every message the helper goes through the blocks     *)
(* once and calls those that have all they require and something new; a    *)
(* block may recycle the script while the helper is half way through.      *)
(***************************************************************************)
EXTENDS Naturals, Sequences

CONSTANTS
    Names,       \* resources that blocks require
    Programs,    \* the scripts: [daemon, blocks]
    MaxArrivals  \* bound on the messages a script is sent

\* The parameters a Tactic sends a script to start it. "what" stands for
\* those a tactic gets and a daemon does not.
Parameters(daemon) == {"is_daemon", "node_name"} \cup {p \in {"what"} : ~daemon}

Data == Names \cup Parameters(FALSE)

Block == [needs : SUBSET Names, recycles : {"never", "may", "always"}]

ASSUME ScriptAssumption ==
    /\ Names \cap Parameters(FALSE) = {}
    /\ \A p \in Programs : p.daemon \in BOOLEAN /\ p.blocks \in Seq(Block) \ {<<>>}
    /\ MaxArrivals \in Nat

VARIABLES
    program,     \* the script, which never changes
    data,        \* @_data: the version of each truth it holds, 0 if none
    pending,     \* @_pending: the parameters it waits for
    versions,    \* each block's :req_versions
    at,          \* the block the helper has come to, 0 between messages
    raised,      \* the helper has raised an exception, which ends the script
    requests,    \* how many requests the script was started for
    recycled,    \* how many times it has said that it may be used again
    arrivals,    \* how many messages have arrived
    latest,      \* for each truth, the arrival that last brought it
    seen         \* for each block, the arrivals it last ran with

helper == <<data, pending, versions>>
history == <<requests, recycled, arrivals, latest, seen>>
vars == <<program, helper, at, raised, history>>

Blocks == DOMAIN program.blocks

\* What a block's run depends on: the truths it requires, and the node's name,
\* which only the start of a request brings.
Inputs(b) == program.blocks[b].needs \cup {"node_name"}

Never == [n \in {} |-> 0]

TypeOK ==
    /\ program \in Programs
    /\ data \in [Data -> Nat]
    /\ pending \subseteq Parameters(FALSE)
    /\ DOMAIN versions = Blocks
    /\ \A b \in Blocks : versions[b] \in [Inputs(b) -> Nat \ {0}] \cup {Never}
    /\ at \in 0..Len(program.blocks)
    /\ raised \in BOOLEAN
    /\ requests \in Nat /\ recycled \in Nat /\ arrivals \in 0..MaxArrivals
    /\ latest \in [Data -> 0..MaxArrivals]
    /\ DOMAIN seen = Blocks
    /\ \A b \in Blocks : seen[b] \in [Inputs(b) -> 0..MaxArrivals]

Init ==
    /\ program \in Programs
    /\ data = [n \in Data |-> 0]
    /\ pending = Parameters(program.daemon)
    /\ versions = [b \in Blocks |-> Never]
    /\ at = 0 /\ raised = FALSE
    /\ requests = 0 /\ recycled = 0 /\ arrivals = 0
    /\ latest = [n \in Data |-> 0]
    /\ seen = [b \in Blocks |-> [n \in Inputs(b) |-> 0]]

-----------------------------------------------------------------------------
(* Messages. HearEager, RunUnrecorded, RecycleKeepingData and              *)
(* RecycleKeepingVersions are faulty variants: each breaks a property.     *)

\* handle_input: the truths are stored under new versions, and the blocks are
\* gone through once no parameter is pending. is_daemon says what to wait for.
HearEager(names) ==
    /\ at = 0 /\ ~raised /\ arrivals < MaxArrivals
    /\ data' = [n \in Data |-> IF n \in names THEN data[n] + 1 ELSE data[n]]
    /\ pending' =
           (IF "is_daemon" \in names
            THEN {p \in Parameters(program.daemon) : data[p] = 0} ELSE pending) \ names
    /\ at' = 1
    /\ arrivals' = arrivals + 1
    /\ latest' = [n \in Data |-> IF n \in names THEN arrivals + 1 ELSE latest[n]]
    /\ UNCHANGED <<program, versions, raised, recycled, seen>>

Hear(names) ==
    /\ at = 0 /\ ~raised /\ arrivals < MaxArrivals
    /\ data' = [n \in Data |-> IF n \in names THEN data[n] + 1 ELSE data[n]]
    /\ pending' =
           (IF "is_daemon" \in names
            THEN {p \in Parameters(program.daemon) : data[p] = 0} ELSE pending) \ names
    /\ at' = IF pending' = {} THEN 1 ELSE 0
    /\ arrivals' = arrivals + 1
    /\ latest' = [n \in Data |-> IF n \in names THEN arrivals + 1 ELSE latest[n]]
    /\ UNCHANGED <<program, versions, raised, recycled, seen>>

\* The pool has an idle script serve a request: its parameters, in one message.
Start ==
    /\ recycled = requests
    /\ Hear(Parameters(program.daemon))
    /\ requests' = requests + 1

\* A truth some Tactic of this script has asked for or observes, the last one
\* until it stops.
Truth(n) ==
    /\ requests > 0
    /\ Hear({n})
    /\ UNCHANGED requests

-----------------------------------------------------------------------------
(* execute_user_blocks, block by block.                                    *)

Satisfied(b) == \A n \in program.blocks[b].needs : data[n] # 0

News(b) ==
    \/ versions[b] = Never
    \/ \E n \in DOMAIN versions[b] : data[n] > versions[b][n]

Go == at' = IF at = Len(program.blocks) THEN 0 ELSE at + 1

Skip(b) ==
    /\ at = b /\ ~raised
    /\ ~(Satisfied(b) /\ News(b))
    /\ Go
    /\ UNCHANGED <<program, helper, raised, history>>

\* The versions of a block that runs for the first time include the node's
\* name, without which there is no version to read.
Raise(b) ==
    /\ at = b /\ ~raised
    /\ Satisfied(b) /\ versions[b] = Never /\ data["node_name"] = 0
    /\ raised' = TRUE
    /\ UNCHANGED <<program, helper, at, history>>

Called(b) ==
    /\ at = b /\ ~raised
    /\ Satisfied(b) /\ News(b)
    /\ versions[b] = Never => data["node_name"] # 0
    /\ Go
    /\ seen' = [seen EXCEPT ![b] = [n \in Inputs(b) |-> latest[n]]]
    /\ UNCHANGED <<program, raised, requests, arrivals, latest>>

RunUnrecorded(b) ==
    /\ program.blocks[b].recycles # "always"
    /\ Called(b)
    /\ versions' = [versions EXCEPT ![b] =
           IF @ = Never THEN [n \in Inputs(b) |-> data[n]] ELSE @]
    /\ UNCHANGED <<data, pending, recycled>>

\* The block is called and does not recycle the script.
Run(b) ==
    /\ program.blocks[b].recycles # "always"
    /\ Called(b)
    /\ versions' = [versions EXCEPT ![b] = [n \in Inputs(b) |-> data[n]]]
    /\ UNCHANGED <<data, pending, recycled>>

RecycleKeepingData(b) ==
    /\ program.blocks[b].recycles # "never"
    /\ Called(b)
    /\ pending' = {p \in Parameters(FALSE) : data[p] = 0}
    /\ versions' = [c \in Blocks |-> Never]
    /\ recycled' = recycled + 1
    /\ UNCHANGED data

RecycleKeepingVersions(b) ==
    /\ program.blocks[b].recycles # "never"
    /\ Called(b)
    /\ data' = [n \in Data |-> 0]
    /\ pending' = Parameters(FALSE)
    /\ versions' = [versions EXCEPT ![b] = [n \in Inputs(b) |-> data[n]]]
    /\ recycled' = recycled + 1

\* The block is called and recycles the script: recycle_tactic.
Recycle(b) ==
    /\ program.blocks[b].recycles # "never"
    /\ Called(b)
    /\ data' = [n \in Data |-> 0]
    /\ pending' = Parameters(FALSE)
    /\ versions' = [c \in Blocks |-> Never]
    /\ recycled' = recycled + 1

Next ==
    \/ Start
    \/ \E n \in Names : Truth(n)
    \/ \E b \in Blocks : Skip(b) \/ Raise(b) \/ Run(b) \/ Recycle(b)

Spec == Init /\ [][Next]_vars

-----------------------------------------------------------------------------
(* Properties.                                                             *)

\* Between messages, once its parameters are there, every block whose
\* requirements are all held has run with the last of each, whatever order they
\* came in and however often the script was recycled ("so that we do get
\* execution happening, even for old data").
UpToDate ==
    at = 0 /\ ~raised /\ pending = {} =>
        \A b \in Blocks :
            Satisfied(b) => seen[b] = [n \in Inputs(b) |-> latest[n]]

\* A block runs once for a request, and again only if one of the truths it
\* requires has arrived since: no truth makes a block repeat its side effects.
RunsOnlyForNews ==
    [][\A b \in Blocks : Run(b) \/ Recycle(b) =>
           \E n \in Inputs(b) : latest[n] # seen[b][n]]_vars

\* A script recycles at most once for a request, although later blocks and
\* later truths are still to come when it does. The pool relies on it: a second
\* message would stop the next request's Tactic, or find none.
RecycledOnce == recycled <= requests

\* Registered in an order in which no block that requires nothing follows one
\* that may recycle.
Orderly ==
    \A b, c \in Blocks :
        b < c /\ program.blocks[b].recycles # "never" => program.blocks[c].needs # {}

\* A script registered in that order is never ended by its helper, whenever in
\* a request it recycles and whatever reaches it before the next one. The
\* library lets a script be written in another order; psp/tactics has none.
OrderlySurvives == Orderly => ~raised
=============================================================================
