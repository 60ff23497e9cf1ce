-------------------------- MODULE TacticScriptProofs --------------------------
(***************************************************************************)
(* Proofs about tactic_helper.rb for every script and every sequence of    *)
(* messages.                                                               *)
(***************************************************************************)
EXTENDS TacticScript, TLAPS

-----------------------------------------------------------------------------
(* The inductive invariant.                                                *)

\* Block b last ran with the versions that are held.
Current(b) == versions[b] = [n \in Inputs(b) |-> data[n]]

\* Nothing was seen before it arrived.
Clocked ==
    /\ \A n \in Data : latest[n] <= arrivals
    /\ \A b \in Blocks : \A n \in Inputs(b) : seen[b][n] <= latest[n]

\* The versions of a block tell which of its inputs have arrived since it ran.
VersionsTell ==
    \A b \in Blocks : \A n \in Inputs(b) :
        /\ versions[b] # Never =>
               /\ versions[b][n] <= data[n]
               /\ versions[b][n] = data[n] => seen[b][n] = latest[n]
               /\ versions[b][n] < data[n] => seen[b][n] < latest[n]
        /\ versions[b] = Never /\ data["node_name"] # 0 =>
               seen[b]["node_name"] < latest["node_name"]

\* The node's name is held from the start of a request until it is recycled.
NameHeld ==
    /\ "node_name" \notin pending => data["node_name"] # 0
    /\ data["node_name"] # 0 => recycled < requests
    /\ recycled <= requests

\* The helper goes through the blocks with all parameters at hand, until one
\* of them recycles.
Looping ==
    at > 0 =>
        \/ pending = {}
        \/ /\ pending # {}
           /\ \A n \in Data : data[n] = 0
           /\ \E c \in Blocks : c < at /\ program.blocks[c].recycles # "never"

\* The blocks the helper has gone through are up to date.
GoneThrough ==
    pending = {} => \A b \in Blocks : (at = 0 \/ b < at) /\ Satisfied(b) => Current(b)

IInv == TypeOK /\ Clocked /\ VersionsTell /\ NameHeld /\ Looping /\ GoneThrough /\ OrderlySurvives

-----------------------------------------------------------------------------
\* What the assumption says of the blocks of a script.
LEMMA Scripts ==
    ASSUME program \in Programs
    PROVE  /\ program.daemon \in BOOLEAN
           /\ Len(program.blocks) \in Nat \ {0}
           /\ Blocks = 1..Len(program.blocks)
           /\ \A b \in Blocks : /\ program.blocks[b].needs \subseteq Names
                                /\ Inputs(b) \subseteq Data
                                /\ "node_name" \in Inputs(b)
  <1>1. program.blocks \in Seq(Block) \ {<<>>} /\ program.daemon \in BOOLEAN
    BY ScriptAssumption
  <1>2. Len(program.blocks) \in Nat \ {0} /\ Blocks = 1..Len(program.blocks)
    BY <1>1 DEF Blocks
  <1>3. \A b \in Blocks : program.blocks[b].needs \subseteq Names
    <2>1. \A b \in Blocks : program.blocks[b] \in Block
      BY <1>1, <1>2
    <2>. QED BY <2>1 DEF Block
  <1>4. "node_name" \in Parameters(FALSE)
    BY DEF Parameters
  <1>. QED BY <1>1, <1>2, <1>3, <1>4 DEF Inputs, Data

\* The parameters of a daemon are among those of a tactic.
LEMMA ParametersKnown ==
    \A d \in BOOLEAN : Parameters(d) \subseteq Parameters(FALSE)
                       /\ "node_name" \in Parameters(d) /\ "is_daemon" \in Parameters(d)
  BY DEF Parameters

\* A block that has run is told from one that has not by what its versions are
\* versions of.
LEMMA NeverDiffers ==
    \A b : \A f : f \in [Inputs(b) -> Nat] => f # Never
  <1>. SUFFICES ASSUME NEW b, NEW f, f \in [Inputs(b) -> Nat] PROVE f # Never
    OBVIOUS
  <1>1. "node_name" \in DOMAIN f
    BY DEF Inputs
  <1>2. DOMAIN Never = {}
    BY DEF Never
  <1>. QED BY <1>1, <1>2

-----------------------------------------------------------------------------
(* Type correctness.                                                       *)

\* A message keeps the types.
LEMMA HearTyped ==
    ASSUME TypeOK, NEW names \in SUBSET Data, Hear(names)
    PROVE  /\ data' \in [Data -> Nat]
           /\ pending' \subseteq Parameters(FALSE)
           /\ at' \in 0..Len(program.blocks)
           /\ arrivals' = arrivals + 1 /\ arrivals' \in 0..MaxArrivals
           /\ latest' \in [Data -> 0..MaxArrivals]
           /\ UNCHANGED <<program, versions, raised, recycled, seen>>
  <1>1. arrivals' = arrivals + 1 /\ arrivals' \in 0..MaxArrivals
    BY ScriptAssumption DEF TypeOK, Hear
  <1>2. data' \in [Data -> Nat]
    BY DEF TypeOK, Hear
  <1>3. latest' \in [Data -> 0..MaxArrivals]
    BY <1>1 DEF TypeOK, Hear
  <1>4. pending' \subseteq Parameters(FALSE)
    BY Scripts, ParametersKnown DEF TypeOK, Hear
  <1>5. at' \in 0..Len(program.blocks)
    BY Scripts DEF TypeOK, Hear
  <1>. QED BY <1>1, <1>2, <1>3, <1>4, <1>5 DEF Hear

\* So does the call of a block, whatever the block does.
LEMMA CalledTyped ==
    ASSUME TypeOK, NEW b \in Blocks, Called(b)
    PROVE  /\ at' \in 0..Len(program.blocks)
           /\ DOMAIN seen' = Blocks
           /\ \A c \in Blocks : seen'[c] \in [Inputs(c) -> 0..MaxArrivals]
           /\ UNCHANGED <<program, raised, requests, arrivals, latest>>
  <1>1. at' \in 0..Len(program.blocks)
    BY Scripts DEF TypeOK, Called, Go
  <1>2. \A c \in Blocks : seen'[c] \in [Inputs(c) -> 0..MaxArrivals]
    BY Scripts DEF TypeOK, Called
  <1>. QED BY <1>1, <1>2 DEF TypeOK, Called

-----------------------------------------------------------------------------
(* Each action keeps the invariant.                                        *)

\* A message: what it brings is newer than what any block has seen, and has a
\* higher version than any block has run with.
LEMMA HearKeeps ==
    ASSUME IInv, NEW names \in SUBSET Data, Hear(names),
           requests' \in Nat, requests <= requests',
           "node_name" \in names => recycled < requests'
    PROVE  IInv'
  <1>. USE DEF IInv
  <1>1. TypeOK'
    BY HearTyped, Scripts DEF TypeOK, Blocks, Inputs
  <1>2. /\ \A n \in Data : data'[n] = IF n \in names THEN data[n] + 1 ELSE data[n]
        /\ \A n \in Data : latest'[n] = IF n \in names THEN arrivals + 1 ELSE latest[n]
        /\ arrivals' = arrivals + 1 /\ arrivals \in Nat
        /\ UNCHANGED <<program, versions, raised, recycled, seen>>
    BY ScriptAssumption DEF Hear, TypeOK
  <1>3. /\ Blocks' = Blocks
        /\ \A b \in Blocks : Inputs(b)' = Inputs(b) /\ Inputs(b) \subseteq Data
        /\ \A n \in Data : data[n] \in Nat /\ latest[n] \in Nat
        /\ \A b \in Blocks : \A n \in Inputs(b) : seen[b][n] \in Nat
    <2>1. Blocks' = Blocks /\ \A b \in Blocks : Inputs(b)' = Inputs(b)
      BY <1>2 DEF Blocks, Inputs
    <2>2. \A b \in Blocks : Inputs(b) \subseteq Data
      BY Scripts DEF TypeOK
    <2>3. \A n \in Data : data[n] \in Nat /\ latest[n] \in Nat
      BY ScriptAssumption DEF TypeOK
    <2>4. \A b \in Blocks : \A n \in Inputs(b) : seen[b][n] \in Nat
      BY ScriptAssumption DEF TypeOK
    <2>. QED BY <2>1, <2>2, <2>3, <2>4
  <1>4. Clocked'
    BY <1>2, <1>3 DEF Clocked
  <1>5. VersionsTell'
    <2>. SUFFICES ASSUME NEW b \in Blocks, NEW n \in Inputs(b)
                  PROVE  /\ versions[b] # Never =>
                                /\ versions[b][n] <= data'[n]
                                /\ versions[b][n] = data'[n] => seen[b][n] = latest'[n]
                                /\ versions[b][n] < data'[n] => seen[b][n] < latest'[n]
                         /\ versions[b] = Never /\ data'["node_name"] # 0 =>
                                seen[b]["node_name"] < latest'["node_name"]
      BY <1>2, <1>3 DEF VersionsTell
    <2>1. versions[b] # Never => versions[b][n] \in Nat
      BY DEF TypeOK
    <2>2. seen[b][n] <= arrivals /\ n \in Data
      BY <1>2, <1>3 DEF Clocked
    <2>3. "node_name" \in Inputs(b) /\ "node_name" \in Data
      BY <1>3, Scripts DEF TypeOK
    <2>4. seen[b]["node_name"] <= arrivals
      BY <1>2, <1>3, <2>3 DEF Clocked
    <2>. QED BY <1>2, <1>3, <2>1, <2>2, <2>3, <2>4 DEF VersionsTell
  <1>6. NameHeld'
    <2>1. "node_name" \in Data /\ "node_name" \in Parameters(program.daemon)
      BY ParametersKnown, Scripts DEF TypeOK, Data
    <2>2. "node_name" \notin pending' => data'["node_name"] # 0
      BY <1>2, <1>3, <2>1 DEF NameHeld, Hear
    <2>3. recycled \in Nat /\ requests \in Nat
      BY DEF TypeOK
    <2>. QED BY <1>2, <1>3, <2>1, <2>2, <2>3 DEF NameHeld
  <1>7. Looping'
    BY <1>2 DEF Looping, Hear
  <1>8. GoneThrough'
    <2>. SUFFICES ASSUME pending' = {}, NEW b \in Blocks, at' = 0 \/ b < at'
                  PROVE FALSE
      BY <1>3 DEF GoneThrough
    <2>1. at' = 1
      BY DEF Hear
    <2>. QED BY <2>1, Scripts DEF TypeOK
  <1>9. OrderlySurvives'
    BY <1>2, <1>3 DEF OrderlySurvives, Orderly, Hear
  <1>. QED BY <1>1, <1>4, <1>5, <1>6, <1>7, <1>8, <1>9

\* A block that is passed over is up to date, or lacks something.
LEMMA SkipKeeps ==
    ASSUME IInv, NEW b \in Blocks, Skip(b)
    PROVE  IInv'
  <1>. USE DEF IInv
  <1>1. /\ at = b /\ at' = IF at = Len(program.blocks) THEN 0 ELSE at + 1
        /\ UNCHANGED <<program, data, pending, versions, raised, history>>
        /\ Len(program.blocks) \in Nat \ {0} /\ Blocks = 1..Len(program.blocks)
    BY Scripts DEF Skip, Go, helper, TypeOK
  <1>2. /\ Blocks' = Blocks /\ \A c \in Blocks : Inputs(c)' = Inputs(c)
        /\ UNCHANGED <<requests, recycled, arrivals, latest, seen>>
    BY <1>1 DEF Blocks, Inputs, history
  <1>3. TypeOK'
    <2>1. at' \in 0..Len(program.blocks)
      BY <1>1 DEF TypeOK
    <2>2. /\ DOMAIN versions' = Blocks'
          /\ \A c \in Blocks' : versions'[c] \in [Inputs(c)' -> Nat \ {0}] \cup {Never}
      BY <1>1, <1>2 DEF TypeOK
    <2>3. /\ DOMAIN seen' = Blocks'
          /\ \A c \in Blocks' : seen'[c] \in [Inputs(c)' -> 0..MaxArrivals]
      BY <1>1, <1>2 DEF TypeOK
    <2>. QED BY <1>1, <1>2, <2>1, <2>2, <2>3 DEF TypeOK
  <1>4. Clocked' /\ NameHeld' /\ OrderlySurvives'
    BY <1>1, <1>2 DEF Clocked, NameHeld, OrderlySurvives, Orderly
  <1>5. VersionsTell'
    BY <1>1, <1>2 DEF VersionsTell
  <1>6. Looping'
    BY <1>1, <1>2 DEF Looping
  <1>7. Satisfied(b) => Current(b)
    <2>. SUFFICES ASSUME Satisfied(b) PROVE Current(b)
      OBVIOUS
    <2>1. versions[b] # Never /\ \A n \in DOMAIN versions[b] : ~(data[n] > versions[b][n])
      BY DEF Skip, News
    <2>2. versions[b] \in [Inputs(b) -> Nat \ {0}]
      BY <2>1 DEF TypeOK
    <2>3. \A n \in Inputs(b) : versions[b][n] <= data[n] /\ data[n] \in Nat
      BY <2>1, Scripts DEF VersionsTell, TypeOK
    <2>4. \A n \in Inputs(b) : versions[b][n] = data[n]
      BY <2>1, <2>2, <2>3
    <2>. QED BY <2>2, <2>4 DEF Current
  <1>8. GoneThrough'
    <2>. SUFFICES ASSUME pending = {}, NEW c \in Blocks, at' = 0 \/ c < at', Satisfied(c)
                  PROVE Current(c)
      BY <1>1, <1>2 DEF GoneThrough, Satisfied, Current
    <2>1. c < b \/ c = b
      BY <1>1
    <2>. QED BY <1>1, <1>7, <2>1 DEF GoneThrough
  <1>. QED BY <1>3, <1>4, <1>5, <1>6, <1>8

\* An exception can only come after a block that recycled in the same round.
LEMMA RaiseKeeps ==
    ASSUME IInv, NEW b \in Blocks, Raise(b)
    PROVE  IInv'
  <1>. USE DEF IInv
  <1>1. /\ at = b /\ raised' = TRUE
        /\ UNCHANGED <<program, data, pending, versions, at, requests, recycled,
                       arrivals, latest, seen>>
        /\ Len(program.blocks) \in Nat \ {0} /\ Blocks = 1..Len(program.blocks)
    BY Scripts DEF Raise, helper, history, TypeOK
  <1>2. Blocks' = Blocks /\ \A c \in Blocks : Inputs(c)' = Inputs(c)
    BY <1>1 DEF Blocks, Inputs
  <1>3. TypeOK'
    BY <1>1, <1>2 DEF TypeOK
  <1>4. Clocked' /\ NameHeld' /\ VersionsTell' /\ Looping'
    BY <1>1, <1>2 DEF Clocked, NameHeld, VersionsTell, Looping
  <1>5. GoneThrough'
    BY <1>1, <1>2 DEF GoneThrough, Satisfied, Current
  <1>6. ~Orderly
    <2>1. at > 0 /\ "node_name" \notin pending => FALSE
      BY <1>1 DEF NameHeld, Raise
    <2>2. pending # {}
      BY <1>1, <2>1
    <2>3. PICK c \in Blocks : c < b /\ program.blocks[c].recycles # "never"
      BY <1>1, <2>2 DEF Looping
    <2>4. \A n \in Data : data[n] = 0
      BY <1>1, <2>2 DEF Looping
    <2>5. program.blocks[b].needs = {}
      BY <2>4, Scripts DEF Raise, Satisfied, Data, TypeOK
    <2>. QED BY <2>3, <2>5 DEF Orderly
  <1>7. OrderlySurvives'
    BY <1>1, <1>2, <1>6 DEF OrderlySurvives, Orderly
  <1>. QED BY <1>3, <1>4, <1>5, <1>7

\* A block is called only while the name of the node is held.
LEMMA CalledNamed ==
    ASSUME IInv, NEW b \in Blocks, Called(b)
    PROVE  data["node_name"] # 0 /\ \A n \in Inputs(b) : data[n] \in Nat \ {0}
  <1>. USE DEF IInv
  <1>1. \A n \in Inputs(b) : data[n] \in Nat
    BY Scripts DEF TypeOK
  <1>2. versions[b] # Never => data["node_name"] # 0
    <2>. SUFFICES ASSUME versions[b] # Never PROVE data["node_name"] # 0
      OBVIOUS
    <2>1. versions[b] \in [Inputs(b) -> Nat \ {0}] /\ "node_name" \in Inputs(b)
      BY Scripts DEF TypeOK
    <2>2. versions[b]["node_name"] <= data["node_name"]
      BY <2>1 DEF VersionsTell
    <2>. QED BY <1>1, <2>1, <2>2
  <1>. QED BY <1>1, <1>2 DEF Called, Satisfied, Inputs

\* A block that runs is up to date afterwards.
LEMMA RunKeeps ==
    ASSUME IInv, NEW b \in Blocks, Run(b)
    PROVE  IInv'
  <1>. USE DEF IInv
  <1>1. /\ at = b /\ at' = IF at = Len(program.blocks) THEN 0 ELSE at + 1
        /\ UNCHANGED <<program, data, pending, raised, requests, recycled, arrivals, latest>>
        /\ Len(program.blocks) \in Nat \ {0} /\ Blocks = 1..Len(program.blocks)
        /\ versions' = [versions EXCEPT ![b] = [n \in Inputs(b) |-> data[n]]]
        /\ seen' = [seen EXCEPT ![b] = [n \in Inputs(b) |-> latest[n]]]
    BY Scripts DEF Run, Called, Go, TypeOK
  <1>2. /\ Blocks' = Blocks /\ \A c \in Blocks : Inputs(c)' = Inputs(c)
        /\ UNCHANGED <<data, latest>>
    BY <1>1 DEF Blocks, Inputs
  <1>3. /\ DOMAIN versions' = Blocks /\ DOMAIN seen' = Blocks
        /\ \A c \in Blocks : c # b => versions'[c] = versions[c] /\ seen'[c] = seen[c]
        /\ versions'[b] = [n \in Inputs(b) |-> data[n]]
        /\ seen'[b] = [n \in Inputs(b) |-> latest[n]]
    BY <1>1 DEF TypeOK
  <1>4. Called(b) /\ \A n \in Inputs(b) : data[n] \in Nat \ {0}
    BY CalledNamed DEF Run
  <1>5. versions'[b] \in [Inputs(b) -> Nat \ {0}] /\ versions'[b] # Never
    <2>1. versions'[b] \in [Inputs(b) -> Nat \ {0}]
      BY <1>3, <1>4
    <2>. QED BY <2>1, NeverDiffers
  <1>6. TypeOK'
    <2>1. at' \in 0..Len(program.blocks) /\ \A c \in Blocks : seen'[c] \in [Inputs(c) -> 0..MaxArrivals]
      BY <1>4, CalledTyped
    <2>2. \A c \in Blocks : versions'[c] \in [Inputs(c) -> Nat \ {0}] \cup {Never}
      BY <1>3, <1>5 DEF TypeOK
    <2>. QED BY <1>1, <1>2, <1>3, <2>1, <2>2 DEF TypeOK
  <1>7. Clocked'
    <2>1. \A n \in Inputs(b) : seen'[b][n] <= latest[n]
      <3>1. \A n \in Inputs(b) : seen'[b][n] = latest[n] /\ latest[n] \in Nat
        BY <1>3, Scripts, ScriptAssumption DEF TypeOK
      <3>. QED BY <3>1
    <2>2. \A c \in Blocks : \A n \in Inputs(c) : seen'[c][n] <= latest[n]
      BY <1>3, <2>1 DEF Clocked
    <2>. QED BY <1>1, <1>2, <2>2 DEF Clocked
  <1>8. VersionsTell'
    <2>. SUFFICES ASSUME NEW c \in Blocks, NEW n \in Inputs(c)
                  PROVE  /\ versions'[c] # Never =>
                                /\ versions'[c][n] <= data[n]
                                /\ versions'[c][n] = data[n] => seen'[c][n] = latest[n]
                                /\ versions'[c][n] < data[n] => seen'[c][n] < latest[n]
                         /\ versions'[c] = Never /\ data["node_name"] # 0 =>
                                seen'[c]["node_name"] < latest["node_name"]
      BY <1>2 DEF VersionsTell
    <2>1. CASE c = b
      BY <1>3, <1>4, <1>5, <2>1
    <2>2. CASE c # b
      BY <1>3, <2>2 DEF VersionsTell
    <2>. QED BY <2>1, <2>2
  <1>9. NameHeld' /\ Looping' /\ OrderlySurvives'
    BY <1>1, <1>2 DEF NameHeld, Looping, OrderlySurvives, Orderly
  <1>10. GoneThrough'
    <2>. SUFFICES ASSUME pending = {}, NEW c \in Blocks, at' = 0 \/ c < at', Satisfied(c)
                  PROVE versions'[c] = [n \in Inputs(c) |-> data[n]]
      BY <1>1, <1>2 DEF GoneThrough, Satisfied, Current
    <2>1. c < b \/ c = b
      BY <1>1
    <2>. QED BY <1>1, <1>3, <2>1 DEF GoneThrough, Current
  <1>. QED BY <1>6, <1>7, <1>8, <1>9, <1>10

\* A block that recycles leaves nothing held, so that the round ends with no
\* other block called.
LEMMA RecycleKeeps ==
    ASSUME IInv, NEW b \in Blocks, Recycle(b)
    PROVE  IInv'
  <1>. USE DEF IInv
  <1>1. /\ at = b /\ at' = IF at = Len(program.blocks) THEN 0 ELSE at + 1
        /\ UNCHANGED <<program, raised, requests, arrivals, latest>>
        /\ Len(program.blocks) \in Nat \ {0} /\ Blocks = 1..Len(program.blocks)
        /\ recycled' = recycled + 1
        /\ program.blocks[b].recycles # "never"
    BY Scripts DEF Recycle, Called, Go, TypeOK
  <1>2. /\ Blocks' = Blocks /\ \A c \in Blocks : Inputs(c)' = Inputs(c)
    BY <1>1 DEF Blocks, Inputs
  <1>3. /\ data' = [n \in Data |-> 0] /\ pending' = Parameters(FALSE)
        /\ versions' = [c \in Blocks |-> Never]
        /\ seen' = [seen EXCEPT ![b] = [n \in Inputs(b) |-> latest[n]]]
    BY DEF Recycle, Called
  <1>4. Called(b) /\ data["node_name"] # 0
    BY CalledNamed DEF Recycle
  <1>5. "node_name" \in Data /\ "node_name" \in Parameters(FALSE)
    BY ParametersKnown DEF Data
  <1>6. TypeOK'
    <2>1. at' \in 0..Len(program.blocks) /\ \A c \in Blocks : seen'[c] \in [Inputs(c) -> 0..MaxArrivals]
      BY <1>4, CalledTyped
    <2>2. DOMAIN seen' = Blocks
      BY <1>4, CalledTyped
    <2>3. data' \in [Data -> Nat] /\ recycled' \in Nat
      BY <1>1, <1>3 DEF TypeOK
    <2>. QED BY <1>1, <1>2, <1>3, <2>1, <2>2, <2>3 DEF TypeOK
  <1>7. Clocked'
    <2>1. \A n \in Inputs(b) : seen'[b][n] = latest[n] /\ latest[n] \in Nat
      BY <1>3, Scripts, ScriptAssumption DEF TypeOK
    <2>2. \A c \in Blocks : c # b => seen'[c] = seen[c]
      BY <1>3 DEF TypeOK
    <2>3. \A c \in Blocks : \A n \in Inputs(c) : seen'[c][n] <= latest[n]
      BY <2>1, <2>2 DEF Clocked
    <2>. QED BY <1>1, <1>2, <2>3 DEF Clocked
  <1>8. VersionsTell'
    <2>1. \A c \in Blocks : versions'[c] = Never
      BY <1>3
    <2>2. data'["node_name"] = 0
      BY <1>3, <1>5
    <2>. QED BY <1>2, <2>1, <2>2 DEF VersionsTell
  <1>9. NameHeld'
    <2>1. data'["node_name"] = 0
      BY <1>3, <1>5
    <2>2. recycled < requests /\ recycled \in Nat /\ requests \in Nat
      BY <1>4 DEF NameHeld, TypeOK
    <2>3. "node_name" \in pending'
      BY <1>3, <1>5
    <2>4. recycled' = recycled + 1 /\ requests' = requests
      BY <1>1
    <2>. QED BY <2>1, <2>2, <2>3, <2>4 DEF NameHeld
  <1>10. Looping'
    <2>. SUFFICES ASSUME at' > 0
                  PROVE  /\ pending' # {}
                         /\ \A n \in Data : data'[n] = 0
                         /\ b \in Blocks /\ b < at'
      BY <1>1, <1>2 DEF Looping
    <2>1. b < at'
      BY <1>1
    <2>. QED BY <1>3, <1>5, <2>1
  <1>11. GoneThrough'
    BY <1>3, <1>5 DEF GoneThrough
  <1>12. OrderlySurvives'
    BY <1>1, <1>2 DEF OrderlySurvives, Orderly
  <1>. QED BY <1>6, <1>7, <1>8, <1>9, <1>10, <1>11, <1>12

-----------------------------------------------------------------------------
(* The theorems.                                                           *)

LEMMA Initially == Init => IInv
  <1>. SUFFICES ASSUME Init PROVE IInv
    OBVIOUS
  <1>1. program \in Programs
    BY DEF Init
  <1>2. TypeOK
    <2>1. /\ program.daemon \in BOOLEAN /\ pending = Parameters(program.daemon)
          /\ at = 0 /\ Len(program.blocks) \in Nat
      BY <1>1, Scripts DEF Init, TypeOK
    <2>2. 0 \in 0..MaxArrivals
      BY ScriptAssumption
    <2>3. data \in [Data -> Nat] /\ latest \in [Data -> 0..MaxArrivals]
      BY <2>2 DEF Init
    <2>4. DOMAIN versions = Blocks /\ \A b \in Blocks : versions[b] = Never
      BY DEF Init
    <2>5. DOMAIN seen = Blocks /\ \A b \in Blocks : seen[b] \in [Inputs(b) -> 0..MaxArrivals]
      BY <2>2 DEF Init
    <2>6. pending \subseteq Parameters(FALSE) /\ at \in 0..Len(program.blocks)
      <3>1. Parameters(program.daemon) \subseteq Parameters(FALSE)
        BY <2>1, ParametersKnown
      <3>2. pending \subseteq Parameters(FALSE)
        BY <2>1, <3>1, Zenon
      <3>3. at \in 0..Len(program.blocks)
        BY <2>1
      <3>. QED BY <3>2, <3>3
    <2>7. /\ raised \in BOOLEAN /\ requests \in Nat /\ recycled \in Nat
          /\ arrivals \in 0..MaxArrivals
      BY <2>2 DEF Init
    <2>8. \A b \in Blocks : versions[b] \in [Inputs(b) -> Nat \ {0}] \cup {Never}
      BY <2>4
    <2>. QED BY <1>1, <2>3, <2>4, <2>5, <2>6, <2>7, <2>8 DEF TypeOK
  <1>3. "node_name" \in Data /\ "node_name" \in pending
    BY <1>1, Scripts, ParametersKnown DEF Init, Data
  <1>4. Clocked
    BY <1>1, Scripts DEF Init, Clocked
  <1>5. VersionsTell
    BY <1>3 DEF Init, VersionsTell
  <1>6. NameHeld /\ Looping /\ GoneThrough /\ OrderlySurvives
    BY <1>3 DEF Init, NameHeld, Looping, GoneThrough, OrderlySurvives
  <1>. QED BY <1>2, <1>4, <1>5, <1>6 DEF IInv

LEMMA Step == IInv /\ [Next]_vars => IInv'
  <1>. SUFFICES ASSUME IInv, [Next]_vars PROVE IInv'
    OBVIOUS
  <1>1. CASE Start
    <2>1. Parameters(program.daemon) \subseteq Data
      BY Scripts, ParametersKnown DEF Data, IInv, TypeOK
    <2>2. requests' = requests + 1 /\ requests \in Nat /\ recycled = requests
      BY <1>1 DEF Start, IInv, TypeOK
    <2>. QED BY <1>1, <2>1, <2>2, HearKeeps DEF Start
  <1>2. ASSUME NEW n \in Names, Truth(n) PROVE IInv'
    <2>1. {n} \in SUBSET Data /\ n # "node_name"
      BY ScriptAssumption, ParametersKnown DEF Data
    <2>2. requests' = requests /\ requests \in Nat
      BY <1>2 DEF Truth, IInv, TypeOK
    <2>. QED BY <1>2, <2>1, <2>2, HearKeeps DEF Truth
  <1>3. ASSUME NEW b \in Blocks, Skip(b) \/ Raise(b) \/ Run(b) \/ Recycle(b) PROVE IInv'
    BY <1>3, SkipKeeps, RaiseKeeps, RunKeeps, RecycleKeeps
  <1>4. CASE UNCHANGED vars
    <2>1. UNCHANGED <<program, data, pending, versions, at, raised, requests,
                      recycled, arrivals, latest, seen>>
      BY <1>4 DEF vars, helper, history
    <2>2. Blocks' = Blocks /\ \A c \in Blocks : Inputs(c)' = Inputs(c)
      BY <2>1 DEF Blocks, Inputs
    <2>3. TypeOK'
      BY <2>1, <2>2 DEF IInv, TypeOK
    <2>4. Clocked' /\ NameHeld' /\ Looping'
      BY <2>1, <2>2 DEF IInv, Clocked, NameHeld, Looping
    <2>5. VersionsTell'
      BY <2>1, <2>2 DEF IInv, VersionsTell
    <2>6. GoneThrough' /\ OrderlySurvives'
      BY <2>1, <2>2 DEF IInv, GoneThrough, Satisfied, Current, OrderlySurvives, Orderly
    <2>. QED BY <2>3, <2>4, <2>5, <2>6 DEF IInv
  <1>. QED BY <1>1, <1>2, <1>3, <1>4 DEF Next

LEMMA Invariant == Spec => []IInv
  BY Initially, Step, PTL DEF Spec

\* The variables of the helper keep their types, whatever the script.
THEOREM ScriptTypeCorrect == Spec => []TypeOK
  <1>1. IInv => TypeOK
    BY DEF IInv
  <1>. QED BY <1>1, Invariant, PTL

\* The pool is told at most once for each request that a script may be reused
\* (recycle_tactic).
THEOREM RecycledOnceHolds == Spec => []RecycledOnce
  <1>1. IInv => RecycledOnce
    BY DEF IInv, NameHeld, RecycledOnce
  <1>. QED BY <1>1, Invariant, PTL

\* No script that registers the blocks that require nothing before those that
\* recycle is ended by its helper (execute_user_blocks).
THEOREM OrderlyScriptsSurvive == Spec => []OrderlySurvives
  <1>1. IInv => OrderlySurvives
    BY DEF IInv
  <1>. QED BY <1>1, Invariant, PTL

\* Between messages every block whose requirements are held has run with the
\* last of each (execute_user_blocks).
THEOREM AlwaysUpToDate == Spec => []UpToDate
  <1>1. IInv => UpToDate
    <2>. SUFFICES ASSUME IInv, at = 0, pending = {}, NEW b \in Blocks, Satisfied(b)
                  PROVE seen[b] = [n \in Inputs(b) |-> latest[n]]
      BY DEF UpToDate
    <2>1. Current(b)
      BY DEF IInv, GoneThrough
    <2>2. versions[b] # Never
      <3>1. [n \in Inputs(b) |-> data[n]] \in [Inputs(b) -> Nat]
        BY Scripts DEF IInv, TypeOK
      <3>. QED BY <2>1, <3>1, NeverDiffers DEF Current
    <2>3. \A n \in Inputs(b) : versions[b][n] = data[n]
      BY <2>1 DEF Current
    <2>4. \A n \in Inputs(b) : seen[b][n] = latest[n]
      BY <2>2, <2>3 DEF IInv, VersionsTell
    <2>5. seen[b] \in [Inputs(b) -> 0..MaxArrivals]
      BY DEF IInv, TypeOK
    <2>. QED BY <2>4, <2>5
  <1>. QED BY <1>1, Invariant, PTL

\* No block is called twice for the same truths (req_versions).
THEOREM NewsOnly == Spec => RunsOnlyForNews
  <1>1. IInv /\ [Next]_vars =>
            [\A b \in Blocks : Run(b) \/ Recycle(b) =>
                   \E n \in Inputs(b) : latest[n] # seen[b][n]]_vars
    <2>. SUFFICES ASSUME IInv, NEW b \in Blocks, Run(b) \/ Recycle(b)
                  PROVE \E n \in Inputs(b) : latest[n] # seen[b][n]
      OBVIOUS
    <2>1. Called(b)
      BY DEF Run, Recycle
    <2>2. \A n \in Inputs(b) : latest[n] \in Nat /\ seen[b][n] \in Nat /\ data[n] \in Nat
      BY Scripts, ScriptAssumption DEF IInv, TypeOK
    <2>3. "node_name" \in Inputs(b)
      BY DEF Inputs
    <2>4. CASE versions[b] = Never
      <3>1. seen[b]["node_name"] < latest["node_name"]
        BY <2>1, <2>3, <2>4 DEF IInv, VersionsTell, Called
      <3>. QED BY <2>2, <2>3, <3>1
    <2>5. CASE versions[b] # Never
      <3>1. versions[b] \in [Inputs(b) -> Nat \ {0}]
        BY <2>5 DEF IInv, TypeOK
      <3>2. PICK n \in Inputs(b) : data[n] > versions[b][n]
        BY <2>1, <2>5, <3>1 DEF Called, News
      <3>3. seen[b][n] < latest[n]
        BY <2>2, <2>5, <3>1, <3>2 DEF IInv, VersionsTell
      <3>. QED BY <2>2, <3>3
    <2>. QED BY <2>4, <2>5
  <1>. QED BY <1>1, Invariant, PTL DEF Spec, RunsOnlyForNews
===============================================================================
