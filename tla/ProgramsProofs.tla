--------------------------- MODULE ProgramsProofs ---------------------------
(***************************************************************************)
(* Proofs about the programs of Programs, for all their constants.         *)
(***************************************************************************)
EXTENDS Programs, TLAPS

-----------------------------------------------------------------------------
(* The mDNS client.                                                        *)

MdnsInv ==
    /\ TableFollows
    /\ resolving \in [Instances -> Nat]

LEMMA MdnsStep == MdnsInv /\ [Mdns!Next]_Mdns!vars => MdnsInv'
  <1>. SUFFICES ASSUME MdnsInv, [Mdns!Next]_Mdns!vars PROVE MdnsInv'
    OBVIOUS
  <1>. USE DEF MdnsInv, TableFollows, Mdns!TableFollows
  <1>1. ASSUME NEW i \in Instances, Mdns!add_signpost(i) PROVE MdnsInv'
    BY <1>1 DEF Mdns!add_signpost
  <1>2. ASSUME NEW i \in Instances, Mdns!service_resolved(i) PROVE MdnsInv'
    BY <1>2 DEF Mdns!service_resolved
  <1>3. ASSUME NEW i \in Instances, Mdns!print_error(i) PROVE MdnsInv'
    BY <1>3 DEF Mdns!print_error
  <1>4. ASSUME NEW i \in Instances, Mdns!remove_signpost(i) PROVE MdnsInv'
    BY <1>4 DEF Mdns!remove_signpost
  <1>5. CASE UNCHANGED Mdns!vars
    BY <1>5 DEF Mdns!vars
  <1>. QED BY <1>1, <1>2, <1>3, <1>4, <1>5 DEF Mdns!Next

\* Whatever order announcements, answers and revocations come in, a signpost
\* that is there and resolved is in the table, and one that is not there is in
\* it only by an answer that came late (mdns.py).
THEOREM TableFollowsAvahi == Mdns!Spec => []TableFollows
  <1>1. Mdns!Init => MdnsInv
    BY DEF Mdns!Init, MdnsInv, TableFollows, Mdns!TableFollows
  <1>2. MdnsInv => TableFollows
    BY DEF MdnsInv
  <1>. QED BY <1>1, <1>2, MdnsStep, PTL DEF Mdns!Spec

-----------------------------------------------------------------------------
(* The links of the routing information.                                   *)

LinksInv ==
    /\ NeverAbandoned
    /\ evaluating \in [Own -> Nat] /\ tried \subseteq Own

LEMMA LinksStep == LinksInv /\ [Links!Next]_Links!linkvars => LinksInv'
  <1>. SUFFICES ASSUME LinksInv, [Links!Next]_Links!linkvars PROVE LinksInv'
    OBVIOUS
  <1>. USE DEF LinksInv, NeverAbandoned, Links!NeverAbandoned
  <1>1. ASSUME NEW k \in Own, Links!NewDevice(k) PROVE LinksInv'
    BY <1>1 DEF Links!NewDevice
  <1>2. ASSUME NEW k \in Own, NEW ttl \in TTLs, NEW duration \in Durations,
               Links!Evaluated(k, ttl, duration)
        PROVE  LinksInv'
    BY <1>2 DEF Links!Evaluated, Links!Enter, Links!Put
  <1>3. ASSUME NEW k \in Own, Links!Failed(k) PROVE LinksInv'
    BY <1>3 DEF Links!Failed, Links!Put
  <1>4. ASSUME NEW k \in Own, Links!Silent(k) PROVE LinksInv'
    BY <1>4 DEF Links!Silent
  <1>5. ASSUME NEW k \in Others, NEW ttl \in TTLs, Links!Pushed(k, ttl) PROVE LinksInv'
    BY <1>5 DEF Links!Pushed, Links!Enter, Links!Put
  <1>6. ASSUME NEW S \in SUBSET Others, Links!NodeDead(S) PROVE LinksInv'
    BY <1>6 DEF Links!NodeDead
  <1>7. ASSUME Links!Check PROVE LinksInv'
    BY <1>7 DEF Links!Check, Links!CheckFor, Links!Over, Links!Restrict
  <1>8. ASSUME Links!Second PROVE LinksInv'
    BY <1>8 DEF Links!Second
  <1>9. CASE UNCHANGED Links!linkvars
    BY <1>9 DEF Links!linkvars
  <1>. QED BY <1>1, <1>2, <1>3, <1>4, <1>5, <1>6, <1>7, <1>8, <1>9 DEF Links!Next

\* An own link that was ever evaluated is evaluated again, whatever its
\* lifetimes, failures and the deaths of nodes, unless an evaluation ends
\* without a word (info_collector.rb, ttl_checker).
THEOREM LinksNotAbandoned == Links!Spec => []NeverAbandoned
  <1>1. Links!Init => LinksInv
    BY DEF Links!Init, LinksInv, NeverAbandoned, Links!NeverAbandoned
  <1>2. LinksInv => NeverAbandoned
    BY DEF LinksInv
  <1>. QED BY <1>1, <1>2, LinksStep, PTL DEF Links!Spec

-----------------------------------------------------------------------------
(* The contact book.                                                       *)

\* What RowsPaired rests on: the contact that is being added is not one that
\* was left halfway before, and only the program that is adding it has one.
BookInv ==
    /\ RowsPaired
    /\ DOMAIN users \subseteq Accounts
    /\ halfway \subseteq DOMAIN users
    /\ phase = "adding" =>
           /\ adding \in Accounts \X Screens
           /\ adding[1] \in DOMAIN users \ halfway
    /\ keyFile \in {"absent", "empty", "token"}

LEMMA BookPut ==
    ASSUME NEW f, NEW k, NEW v
    PROVE  Book!Put(f, k, v) = [j \in DOMAIN f \cup {k} |-> IF j = k THEN v ELSE f[j]]
  BY DEF Book!Put

LEMMA BookPutRange ==
    ASSUME NEW f, NEW k, k \notin DOMAIN f, NEW v
    PROVE  Book!Range(Book!Put(f, k, v)) = Book!Range(f) \cup {v}
  BY DEF Book!Put, Book!Range

LEMMA BookStep == BookInv /\ [Book!Next]_Book!vars => BookInv'
  <1>. SUFFICES ASSUME BookInv, [Book!Next]_Book!vars PROVE BookInv'
    OBVIOUS
  <1>. USE DEF BookInv, RowsPaired, Book!RowsPaired, Book!book
  <1>1. CASE Book!Start
    BY <1>1 DEF Book!Start
  <1>2. CASE Book!OpenKeyFile
    BY <1>2 DEF Book!OpenKeyFile
  <1>3. CASE Book!WriteKeyFile
    BY <1>3 DEF Book!WriteKeyFile
  <1>4. CASE Book!OpenDb
    BY <1>4 DEF Book!OpenDb
  <1>5. CASE Book!CreateNext
    BY <1>5 DEF Book!CreateNext, Book!CreateUpTo
  <1>6. CASE Book!insertUserId
    <2>. SUFFICES ASSUME NEW a, a = adding[1], NEW screen, screen = adding[2]
                  PROVE  BookInv'
      OBVIOUS
    <2>1. a \in DOMAIN users \ halfway /\ a \notin Book!Range(userIds) /\ phase' # "adding"
      BY <1>6 DEF Book!insertUserId
    <2>2. CASE screen \in DOMAIN userIds
      BY <1>6, <2>1, <2>2 DEF Book!insertUserId
    <2>3. CASE screen \notin DOMAIN userIds
      <3>1. userIds' = Book!Put(userIds, screen, a) /\ UNCHANGED <<users, halfway, keyFile>>
        BY <1>6, <2>3 DEF Book!insertUserId
      <3>2. Book!Range(userIds') = Book!Range(userIds) \cup {a}
        BY ONLY <3>1, <2>3, BookPutRange
      <3>3. \A s \in DOMAIN userIds : userIds[s] # a
        BY <2>1 DEF Book!Range
      <3>4. /\ DOMAIN userIds' = DOMAIN userIds \cup {screen}
            /\ \A s \in DOMAIN userIds' :
                   userIds'[s] = IF s = screen THEN a ELSE userIds[s]
        BY ONLY <3>1, BookPut
      <3>5. \A s, t \in DOMAIN userIds' : userIds'[s] = userIds'[t] => s = t
        BY <3>3, <3>4
      <3>. QED BY <2>1, <3>1, <3>2, <3>5
    <2>. QED BY <2>2, <2>3
  <1>7. CASE Book!UpdateRaises
    BY <1>7 DEF Book!UpdateRaises
  <1>8. CASE Book!Kill
    BY <1>8 DEF Book!Kill
  <1>9. CASE Book!DeleteDb
    BY <1>9 DEF Book!DeleteDb, Book!Range
  <1>10. ASSUME NEW a \in Accounts, NEW name \in Names, NEW screen \in Screens,
                Book!createUser(a, name, screen)
         PROVE  BookInv'
    <2>1. /\ users' = Book!Put(users, a, name) /\ a \notin DOMAIN users
          /\ adding' = <<a, screen>> /\ phase' = "adding" /\ phase # "adding"
          /\ UNCHANGED <<userIds, halfway, keyFile>>
      BY <1>10 DEF Book!createUser
    <2>2. DOMAIN users' = DOMAIN users \cup {a}
      BY <2>1, BookPut
    <2>3. a \notin Book!Range(userIds) /\ Book!Range(userIds)' = Book!Range(userIds)
      BY <2>1
    <2>4. adding'[1] = a /\ adding' \in Accounts \X Screens
      BY <2>1
    <2>. QED BY <2>1, <2>2, <2>3, <2>4
  <1>11. CASE UNCHANGED Book!vars
    BY <1>11 DEF Book!vars
  <1>. QED
    BY <1>1, <1>2, <1>3, <1>4, <1>5, <1>6, <1>7, <1>8, <1>9, <1>10, <1>11
    DEF Book!Next, Book!Run

\* Over crashes at any statement and the deletion of the database, a screen name
\* leads to an account that is a user, each to one of its own, and the users
\* without one are those that were left halfway and the one being added
\* (sqliteController.py, createUser).
THEOREM BookPaired == Book!Spec => []RowsPaired
  <1>1. Book!Init => BookInv
    BY DEF Book!Init, BookInv, RowsPaired, Book!RowsPaired, Book!Range
  <1>2. BookInv => RowsPaired
    BY DEF BookInv
  <1>. QED BY <1>1, <1>2, BookStep, PTL DEF Book!Spec

DamageInv ==
    /\ Book!HalfMade <=> damaged
    /\ tables \in 0 .. Book!AllTables
    /\ phase = "creating" => dbFile
    /\ ~dbFile => tables = 0
    /\ damaged \in BOOLEAN /\ dbFile \in BOOLEAN
    /\ keyFile \in {"absent", "empty", "token"}

\* The database is without some of its tables exactly since a start was killed
\* while it made them, or an update ran after the database was deleted under the
\* program, and until it is deleted: no start and no update repairs it
\* (sqliteController.py, createDb; personalSignpost.py, updateSocialNetTweepy).
THEOREM DamageLasts == Book!Spec => [](Book!HalfMade <=> damaged)
  <1>1. Book!Init => DamageInv
    <2>. SUFFICES ASSUME Book!Init PROVE DamageInv
      OBVIOUS
    <2>1. ~dbFile /\ ~damaged /\ dbFile \in BOOLEAN /\ damaged \in BOOLEAN
      BY Zenon DEF Book!Init
    <2>2. tables = 0 /\ phase = "down" /\ keyFile = "absent"
      BY DEF Book!Init
    <2>. QED BY <2>1, <2>2 DEF DamageInv, Book!HalfMade, Book!AllTables
  <1>2. DamageInv /\ [Book!Next]_Book!vars => DamageInv'
    <2>. SUFFICES ASSUME DamageInv, [Book!Next]_Book!vars PROVE DamageInv'
      OBVIOUS
    <2>. USE DEF DamageInv, Book!HalfMade, Book!AllTables, Book!book
    <2>1. CASE Book!Start
      BY <2>1 DEF Book!Start
    <2>2. CASE Book!OpenKeyFile
      BY <2>2 DEF Book!OpenKeyFile
    <2>3. CASE Book!WriteKeyFile
      BY <2>3 DEF Book!WriteKeyFile
    <2>4. CASE Book!OpenDb
      BY <2>4 DEF Book!OpenDb
    <2>5. CASE Book!CreateNext
      BY <2>5 DEF Book!CreateNext, Book!CreateUpTo
    <2>6. CASE Book!insertUserId
      BY <2>6 DEF Book!insertUserId
    <2>7. CASE Book!UpdateRaises
      BY <2>7 DEF Book!UpdateRaises
    <2>8. CASE Book!Kill
      BY <2>8 DEF Book!Kill
    <2>9. CASE Book!DeleteDb
      <3>1. ~dbFile' /\ ~damaged' /\ dbFile' \in BOOLEAN /\ damaged' \in BOOLEAN
        BY <2>9, Zenon DEF Book!DeleteDb
      <3>2. tables' = 0 /\ phase' # "creating" /\ keyFile' = keyFile
        BY <2>9 DEF Book!DeleteDb
      <3>. QED BY <3>1, <3>2
    <2>10. ASSUME NEW a \in Accounts, NEW name \in Names, NEW screen \in Screens,
                  Book!createUser(a, name, screen)
           PROVE  DamageInv'
      BY <2>10 DEF Book!createUser
    <2>11. CASE UNCHANGED Book!vars
      BY <2>11 DEF Book!vars
    <2>. QED
      BY <2>1, <2>2, <2>3, <2>4, <2>5, <2>6, <2>7, <2>8, <2>9, <2>10, <2>11
      DEF Book!Next, Book!Run
  <1>3. DamageInv => (Book!HalfMade <=> damaged)
    BY DEF DamageInv
  <1>. QED BY <1>1, <1>2, <1>3, PTL DEF Book!Spec

-----------------------------------------------------------------------------
(* The measurement of the resolvers.                                       *)

RunOf(p) == Measurement!RunOf(p)
Busy == {"opening", "loop", "reading"}

MeasurementTypes ==
    /\ run \in 0 .. Runs
    /\ main \in {"between", "testing", "ending"}
    /\ test \in 0 .. Tests
    /\ sent \subseteq Measurement!Packets
    /\ raised \subseteq Measurement!Packets
    /\ capture \in [1 .. Runs -> {"off", "opening", "loop", "reading", "ended", "failed"}]
    /\ buffered \in [1 .. Runs -> SUBSET Measurement!Packets]
    /\ trace \in [1 .. Runs -> SUBSET Measurement!Packets]

\* The captures follow each other: the one at work is that of the name server
\* being measured, since the next is not started before it has ended, and it
\* does not end while the tests go on.
OneCapture ==
    /\ load # "off" => main = "testing" /\ test > 0
    /\ main = "testing" => run > 0 /\ running = TRUE
    /\ \A r \in 1 .. Runs :
          /\ capture[r] \in Busy => r = run /\ main # "between"
          /\ r > run => capture[r] = "off"
          /\ r = run /\ main = "testing" => capture[r] # "ended"

\* What a capture sees or has seen is of its own run, or of a test that raised
\* in it or before.
Origin(r, p) == RunOf(p) = r \/ (RunOf(p) < r /\ p \in raised)

Origins ==
    /\ \A p \in raised : RunOf(p) <= run
    /\ \A r \in 1 .. Runs : \A p \in buffered[r] \cup trace[r] : Origin(r, p)

\* By the time a capture can see that the tests are over it has read what they
\* sent, but for the one that raised.
ReadInTime ==
    \A r \in 1 .. Runs : \A p \in buffered[r] \ raised :
        \/ capture[r] = "failed"
        \/ /\ capture[r] \in {"loop", "reading"}
           /\ load \in {"test", "sleep"} /\ p = Measurement!Current

\* Every packet sent is accounted for.
Accounted ==
    \A p \in sent :
        \/ p \in trace[RunOf(p)] \/ p \in early \/ p \in raised
        \/ capture[RunOf(p)] = "failed" \/ p \in buffered[RunOf(p)]

MeasurementInv == MeasurementTypes /\ OneCapture /\ Origins /\ ReadInTime /\ Accounted

LEMMA MeasurementImplies == MeasurementInv => TraceExact
  <1>. SUFFICES ASSUME MeasurementInv PROVE TraceExact
    OBVIOUS
  <1>. USE DEF MeasurementInv, RunOf
  <1>1. \A r \in 1 .. Runs : \A p \in trace[r] :
            Measurement!RunOf(p) = r \/ (Measurement!RunOf(p) < r /\ p \in raised)
    BY DEF Origins, Origin
  <1>2. ASSUME NEW p \in sent, Measurement!RunOf(p) < run \/ main = "between"
        PROVE  \/ p \in trace[Measurement!RunOf(p)] \/ p \in early \/ p \in raised
               \/ capture[Measurement!RunOf(p)] = "failed"
    <2>. DEFINE r == Measurement!RunOf(p)
    <2>1. r \in 1 .. Runs
      BY DEF MeasurementTypes, Measurement!Packets, Measurement!RunOf
    <2>2. capture[r] \notin Busy
      BY <1>2, <2>1, ProgramsAssumption DEF OneCapture, MeasurementTypes
    <2>3. buffered[r] \ raised # {} => capture[r] = "failed"
      BY <2>1, <2>2 DEF ReadInTime, Busy
    <2>. QED BY <2>3 DEF Accounted
  <1>. QED BY <1>1, <1>2 DEF TraceExact, Measurement!TraceExact

\* The test that is at work is one of the name server being measured.
LEMMA CurrentTest ==
    ASSUME MeasurementTypes, OneCapture, load # "off"
    PROVE  /\ Measurement!Current \in Measurement!Packets
           /\ RunOf(Measurement!Current) = run /\ run \in 1 .. Runs /\ main = "testing"
  BY ProgramsAssumption
  DEF MeasurementTypes, OneCapture, Measurement!Current, Measurement!Packets, RunOf,
      Measurement!RunOf

\* A packet is seen by captures of which it may be: that of its own run, or one
\* of a later run if its test raised.
LEMMA SentSeen ==
    ASSUME MeasurementInv, NEW p \in Measurement!Packets, Measurement!Send(p),
           RunOf(p) = run \/ p \in raised,
           UNCHANGED <<run, main, running, load, test, raised, capture, trace>>
    PROVE  MeasurementTypes' /\ OneCapture' /\ Origins'
  <1>. USE DEF MeasurementInv, MeasurementTypes, OneCapture, Origins, Origin, RunOf,
               Measurement!Send, Measurement!Open
  <1>1. MeasurementTypes' /\ OneCapture'
    OBVIOUS
  <1>2. ASSUME NEW r \in 1 .. Runs, NEW q \in buffered'[r] \cup trace'[r]
        PROVE  Origin(r, q)
    <2>1. CASE q \in buffered[r] \cup trace[r]
      BY <2>1
    <2>2. CASE q \notin buffered[r] \cup trace[r]
      <3>1. q = p /\ r = run
        BY <1>2, <2>2 DEF Busy
      <3>2. RunOf(p) \in 1 .. Runs
        BY DEF Measurement!Packets, Measurement!RunOf
      <3>. QED BY <3>1, <3>2
    <2>. QED BY <2>1, <2>2
  <1>. QED BY <1>1, <1>2

LEMMA MeasurementStep ==
    MeasurementInv /\ [Measurement!Next]_Measurement!vars => MeasurementInv'
  <1>. SUFFICES ASSUME MeasurementInv, [Measurement!Next]_Measurement!vars
                PROVE  MeasurementInv'
    OBVIOUS
  <1>. USE ProgramsAssumption
       DEF MeasurementInv, MeasurementTypes, OneCapture, Origins, Origin, ReadInTime,
           Accounted, Busy, RunOf
  <1>1. CASE Measurement!run_test
    <2>. USE <1>1 DEF Measurement!run_test
    <2>1. MeasurementTypes' /\ OneCapture'
      OBVIOUS
    <2>0. \A q \in Measurement!Packets : RunOf(q) \in 1 .. Runs
      BY DEF Measurement!Packets, Measurement!RunOf
    <2>2. Origins'
      BY <2>0
    <2>3. ReadInTime'
      OBVIOUS
    <2>4. Accounted'
      BY <2>0
    <2>. QED BY <2>1, <2>2, <2>3, <2>4
  <1>2. CASE Measurement!Test
    <2>. DEFINE p == Measurement!Current
    <2>0. /\ p \in Measurement!Packets /\ Measurement!RunOf(p) = run
          /\ run \in 1 .. Runs /\ load = "test"
      BY <1>2, CurrentTest DEF Measurement!Test
    <2>1. Measurement!Send(p) /\ UNCHANGED <<run, main, running, load, test, raised, capture, trace>>
      BY <1>2 DEF Measurement!Test
    <2>2. MeasurementTypes' /\ OneCapture' /\ Origins'
      BY <2>0, <2>1, SentSeen
    <2>3. ReadInTime'
      <3>1. p' = p
        BY <2>1 DEF Measurement!Current
      <3>. QED BY <2>0, <2>1, <3>1 DEF Measurement!Send, Measurement!Open
    <2>4. Accounted'
      <3>1. p \in early' \/ p \in buffered'[run]
        BY <1>2, <2>0, <2>1 DEF Measurement!Test, Measurement!Send
      <3>2. ASSUME NEW q \in sent
            PROVE  \/ q \in trace'[RunOf(q)] \/ q \in early' \/ q \in raised'
                   \/ capture'[RunOf(q)] = "failed" \/ q \in buffered'[RunOf(q)]
        <4>1. RunOf(q) \in 1 .. Runs
          BY DEF Measurement!Packets, Measurement!RunOf
        <4>2. early \subseteq early' /\ buffered[RunOf(q)] \subseteq buffered'[RunOf(q)]
          BY <1>2, <2>1, <4>1 DEF Measurement!Test, Measurement!Send
        <4>. QED BY <2>1, <4>1, <4>2
      <3>. QED BY <2>0, <2>1, <3>1, <3>2 DEF Measurement!Send
    <2>. QED BY <2>2, <2>3, <2>4
  <1>3. CASE Measurement!TestReturns
    BY <1>3 DEF Measurement!TestReturns, Measurement!Current
  <1>4. CASE Measurement!Slept
    <2>. USE <1>4 DEF Measurement!Slept, Measurement!Open
    <2>0. run \in 1 .. Runs /\ main = "testing" /\ test > 0
      BY CurrentTest
    <2>1. MeasurementTypes' /\ OneCapture' /\ Origins' /\ Accounted'
      OBVIOUS
    <2>2. ReadInTime'
      BY <2>0
    <2>. QED BY <2>1, <2>2
  <1>5. CASE Measurement!TestRaises
    <2>. USE <1>5 DEF Measurement!TestRaises
    <2>1. Measurement!Current \in Measurement!Packets /\ Measurement!RunOf(Measurement!Current) = run
      BY CurrentTest
    <2>2. MeasurementTypes' /\ OneCapture' /\ Origins' /\ ReadInTime' /\ Accounted'
      BY <2>1
    <2>. QED BY <2>2
  <1>6. ASSUME NEW p \in Measurement!Packets, Measurement!Straggle(p) PROVE MeasurementInv'
    <2>1. /\ p \in raised \cap sent /\ Measurement!Send(p)
          /\ UNCHANGED <<run, main, running, load, test, raised, capture, trace, early>>
      BY <1>6 DEF Measurement!Straggle
    <2>2. MeasurementTypes' /\ OneCapture' /\ Origins'
      BY <2>1, SentSeen
    <2>3. ReadInTime'
      BY <2>1 DEF Measurement!Send, Measurement!Current
    <2>4. Accounted'
      <3>1. \A q \in sent : buffered[RunOf(q)] \subseteq buffered'[RunOf(q)]
        BY <2>1 DEF Measurement!Send, Measurement!Packets, Measurement!RunOf
      <3>. QED BY <2>1, <3>1 DEF Measurement!Send
    <2>. QED BY <2>2, <2>3, <2>4
  <1>7. CASE Measurement!TestsEnd
    BY <1>7 DEF Measurement!TestsEnd, Measurement!Current
  <1>8. CASE Measurement!CaptureJoined
    BY <1>8 DEF Measurement!CaptureJoined, Measurement!Current
  <1>9. ASSUME NEW r \in 1 .. Runs, Measurement!OpenCapture(r) PROVE MeasurementInv'
    BY <1>9 DEF Measurement!OpenCapture, Measurement!Current
  <1>10. ASSUME NEW r \in 1 .. Runs, Measurement!CheckRunning(r) PROVE MeasurementInv'
    BY <1>10 DEF Measurement!CheckRunning, Measurement!Current
  <1>11. ASSUME NEW r \in 1 .. Runs, Measurement!Read(r) PROVE MeasurementInv'
    <2>. USE <1>11 DEF Measurement!Read, Measurement!Current
    <2>0. CASE buffered[r] = {}
      BY <2>0
    <2>. SUFFICES ASSUME NEW p \in buffered[r],
                         buffered' = [buffered EXCEPT ![r] = @ \ {p}],
                         trace' = [trace EXCEPT ![r] = @ \cup {p}]
                  PROVE  MeasurementInv'
      BY <2>0
    <2>1. MeasurementTypes' /\ OneCapture'
      OBVIOUS
    <2>2. Origins'
      OBVIOUS
    <2>3. ReadInTime'
      OBVIOUS
    <2>4. Accounted'
      <3>1. ASSUME NEW q \in sent
            PROVE  \/ q \in trace'[RunOf(q)] \/ q \in early' \/ q \in raised'
                   \/ capture'[RunOf(q)] = "failed" \/ q \in buffered'[RunOf(q)]
        <4>1. RunOf(q) \in 1 .. Runs
          BY DEF Measurement!Packets, Measurement!RunOf
        <4>2. q \in buffered[RunOf(q)] =>
                  q \in buffered'[RunOf(q)] \/ q \in trace'[RunOf(q)]
          BY <4>1
        <4>3. trace[RunOf(q)] \subseteq trace'[RunOf(q)]
          BY <4>1
        <4>. QED BY <4>1, <4>2, <4>3
      <3>. QED BY <3>1
    <2>. QED BY <2>1, <2>2, <2>3, <2>4
  <1>12. ASSUME NEW r \in 1 .. Runs, Measurement!CaptureFails(r) PROVE MeasurementInv'
    BY <1>12 DEF Measurement!CaptureFails, Measurement!Current
  <1>13. CASE UNCHANGED Measurement!vars
    BY <1>13 DEF Measurement!vars, Measurement!Current
  <1>. QED
    BY <1>1, <1>2, <1>3, <1>4, <1>5, <1>6, <1>7, <1>8, <1>9, <1>10, <1>11, <1>12, <1>13
    DEF Measurement!Next, Measurement!Main, Measurement!Capture

\* The trace of a name server has the packets its tests sent with its capture
\* open, unless the capture failed, but for those of a test that raised, at any
\* point of it; and none of another name server but what a test that raised
\* earlier left sending; however the two threads interleave and whichever of
\* them dies (dns_test.py, load_test, run_test and capture_packets).
THEOREM TracesExact == Measurement!Spec => []TraceExact
  <1>1. Measurement!Init => MeasurementInv
    BY ProgramsAssumption
    DEF Measurement!Init, MeasurementInv, MeasurementTypes, OneCapture, Origins, Origin,
        ReadInTime, Accounted, Busy
  <1>. QED BY <1>1, MeasurementImplies, MeasurementStep, PTL DEF Measurement!Spec

-----------------------------------------------------------------------------
(* The controller of Frost.                                                *)

\* What is known of a host that did not move since it was last seen is where it
\* is.
ControllerInv ==
    /\ place \in [Hosts -> Ports] /\ Controller!IsInjective(place)
    /\ DOMAIN mac_cache \subseteq Hosts
    /\ \A d \in DOMAIN mac_cache \ unseen : mac_cache[d] = place[d]

LEMMA ControllerPut ==
    ASSUME NEW f, NEW k, NEW v
    PROVE  Controller!Put(f, k, v) = [j \in DOMAIN f \cup {k} |-> IF j = k THEN v ELSE f[j]]
  BY DEF Controller!Put

LEMMA ControllerStep ==
    ControllerInv /\ [Controller!Next]_Controller!controllervars => ControllerInv'
  <1>. SUFFICES ASSUME ControllerInv, [Controller!Next]_Controller!controllervars
                PROVE  ControllerInv'
    OBVIOUS
  <1>. USE DEF ControllerInv, Controller!IsInjective
  <1>1. ASSUME NEW h \in Hosts, NEW dst \in Hosts \ {h}, Controller!packet_in_cb(h, dst)
        PROVE  ControllerInv'
    <2>1. /\ mac_cache' = [j \in DOMAIN mac_cache \cup {h} |->
                              IF j = h THEN place[h] ELSE mac_cache[j]]
          /\ unseen' = unseen \ {h} /\ place' = place
      BY <1>1, ControllerPut DEF Controller!packet_in_cb, Controller!add_entry_in_hashtbl
    <2>. QED BY <2>1
  <1>2. ASSUME NEW f \in flows, Controller!Expire(f) PROVE ControllerInv'
    BY <1>2 DEF Controller!Expire
  <1>3. ASSUME NEW h \in Hosts, NEW to \in Ports, Controller!Move(h, to) PROVE ControllerInv'
    BY <1>3 DEF Controller!Move, Controller!Range
  <1>4. CASE UNCHANGED Controller!controllervars
    BY <1>4 DEF Controller!controllervars
  <1>. QED BY <1>1, <1>2, <1>3, <1>4 DEF Controller!Next

\* What the controller does with a packet.
SentOn ==
    \A h, dst \in Hosts : h # dst /\ dst \notin unseen =>
        place[dst] \in Controller!Output(Controller!add_entry_in_hashtbl(h), h, dst)

\* What a step may install.
InstallsRight == \A f \in flows' \ flows : f.dst \notin unseen => f.out = place[f.dst]

LEMMA ControllerSendsOn == ControllerInv => SentOn
  <1>. SUFFICES ASSUME ControllerInv, NEW h \in Hosts, NEW dst \in Hosts,
                       h # dst, dst \notin unseen
                PROVE  place[dst] \in Controller!Output(Controller!add_entry_in_hashtbl(h), h, dst)
    BY DEF SentOn
  <1>. DEFINE known == Controller!add_entry_in_hashtbl(h)
  <1>1. known = [j \in DOMAIN mac_cache \cup {h} |-> IF j = h THEN place[h] ELSE mac_cache[j]]
    BY ControllerPut DEF Controller!add_entry_in_hashtbl
  <1>2. dst \in DOMAIN known => known[dst] = place[dst]
    BY <1>1 DEF ControllerInv
  <1>3. place[dst] \in Ports \ {place[h]}
    BY DEF ControllerInv, Controller!IsInjective
  <1>. QED BY <1>2, <1>3 DEF Controller!Output

LEMMA ControllerInstalls ==
    ControllerInv /\ [Controller!Next]_Controller!controllervars => InstallsRight
  <1>. SUFFICES ASSUME ControllerInv, [Controller!Next]_Controller!controllervars,
                       NEW f \in flows' \ flows, f.dst \notin unseen
                PROVE  f.out = place[f.dst]
    BY DEF InstallsRight
  <1>1. PICK h \in Hosts : \E dst \in Hosts \ {h} : Controller!packet_in_cb(h, dst)
    BY DEF Controller!Next, Controller!Expire, Controller!Move, Controller!controllervars
  <1>2. PICK dst \in Hosts \ {h} : Controller!packet_in_cb(h, dst)
    BY <1>1
  <1>. DEFINE known == Controller!add_entry_in_hashtbl(h)
  <1>3. known = [j \in DOMAIN mac_cache \cup {h} |-> IF j = h THEN place[h] ELSE mac_cache[j]]
    BY ControllerPut DEF Controller!add_entry_in_hashtbl
  <1>4. /\ dst \in DOMAIN known
        /\ \E out \in Controller!Output(known, h, dst) :
               f = [in_port |-> place[h], src |-> h, dst |-> dst, out |-> out]
    BY <1>2 DEF Controller!packet_in_cb
  <1>5. f.dst = dst /\ f.out = known[dst]
    BY <1>4 DEF Controller!Output
  <1>. QED BY <1>3, <1>4, <1>5 DEF ControllerInv

\* A packet that the controller handles, and those that follow it by the flow it
\* installs, reach the host they are for unless that host moved and was not seen
\* since, however packets, expiries and moves follow each other
\* (sp_controller.ml, packet_in_cb).
THEOREM ControllerDelivers == Controller!Spec => Delivers
  <1>1. Controller!Init => ControllerInv
    BY DEF Controller!Init, ControllerInv
  <1>2. Controller!Spec => []SentOn /\ [][InstallsRight]_Controller!controllervars
    BY <1>1, ControllerStep, ControllerSendsOn, ControllerInstalls, PTL DEF Controller!Spec
  <1>. QED BY <1>2 DEF Delivers, Controller!Delivers, SentOn, InstallsRight
=============================================================================
