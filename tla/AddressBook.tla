---------------------------- MODULE AddressBook ----------------------------
(***************************************************************************)
(* The personal signpost of the social network connectors                  *)
(* (socialnet/personalSignpost.py) with the file that keeps its Twitter    *)
(* token and the SQLite database of its contacts                           *)
(* (socialnet/sqliteController.py), over crashes and restarts: each        *)
(* statement that commits is a step.  Twitter and SQLite are external.     *)
(***************************************************************************)
EXTENDS Naturals, Functions, Dictionaries

CONSTANTS
    Accounts,      \* of Twitter, all of them friends of the user
    Names,         \* display names an account may have
    Screens,       \* screen names an account may have
    MaxFaults      \* bound on the crashes and the deletions of the database

VARIABLES
    phase,         \* what the program is doing, or "down"
    keyFile,       \* KEY_PATH on disk: "absent", "empty" or "token"
    dbFile,        \* DBPATH is on disk
    tables,        \* how many of the four tables are in it
    users,         \* rows of users: the name under each account
    userIds,       \* rows of userIds: the account under each screen name
    adding,        \* the contact createUser is at, or <<>>
    halfway,       \* the accounts whose second row was not written
    faults,        \* crashes and deletions so far
    damaged        \* history: a fault has left a database without its tables

book == <<users, userIds, adding, halfway>>
vars == <<phase, keyFile, dbFile, tables, faults, damaged, book>>

AllTables == 4
Phases == {"down", "authorising", "writing", "opening", "creating", "ready", "adding"}

TypeOK ==
    /\ phase \in Phases
    /\ keyFile \in {"absent", "empty", "token"}
    /\ dbFile \in BOOLEAN
    /\ tables \in 0 .. AllTables
    /\ DOMAIN users \subseteq Accounts /\ Range(users) \subseteq Names
    /\ DOMAIN userIds \subseteq Screens /\ Range(userIds) \subseteq Accounts
    /\ adding \in {<<>>} \cup (Accounts \X Screens)
    /\ halfway \subseteq Accounts
    /\ faults \in 0 .. MaxFaults
    /\ damaged \in BOOLEAN

Init ==
    /\ phase = "down" /\ keyFile = "absent" /\ dbFile = FALSE /\ tables = 0
    /\ users = <<>> /\ userIds = <<>> /\ halfway = {} /\ adding = <<>>
    /\ faults = 0 /\ damaged = FALSE

-----------------------------------------------------------------------------
(* OpenDbAnyway, CreateOneMore, CreateOneLess and createUserIdsFirst are   *)
(* faulty variants: each breaks a property checked below or the type       *)
(* invariant.                                                              *)

\* __init__ up to the token: a file that is there must hold two words, so that
\* the empty one ends every start.
Start ==
    /\ phase = "down"
    /\ phase' = CASE keyFile = "absent" -> "authorising"
                  [] keyFile = "empty"  -> "down"
                  [] keyFile = "token"  -> "opening"
    /\ UNCHANGED <<keyFile, dbFile, tables, faults, damaged, book>>

\* authenticateTwitter, which has the PIN, opens the file to write it.
OpenKeyFile ==
    /\ phase = "authorising"
    /\ keyFile' = "empty" /\ phase' = "writing"
    /\ UNCHANGED <<dbFile, tables, faults, damaged, book>>

\* That Twitter refused the PIN is only reported: the token there is not is
\* written all the same, which raises.
WriteKeyFile ==
    /\ phase = "writing"
    /\ \/ keyFile' = "token" /\ phase' = "opening"
       \/ phase' = "down" /\ UNCHANGED keyFile
    /\ UNCHANGED <<dbFile, tables, faults, damaged, book>>

OpenDbAnyway ==
    /\ phase = "opening"
    /\ phase' = "creating" /\ dbFile' = TRUE
    /\ UNCHANGED <<keyFile, tables, faults, damaged, book>>

\* createDb makes the tables where it finds no file; connecting makes the file.
OpenDb ==
    /\ phase = "opening"
    /\ phase' = IF dbFile THEN "ready" ELSE "creating"
    /\ dbFile' = TRUE
    /\ UNCHANGED <<keyFile, tables, faults, damaged, book>>

CreateUpTo(last) ==
    /\ phase = "creating"
    /\ IF tables < last THEN tables' = tables + 1 /\ UNCHANGED phase
       ELSE phase' = "down" /\ UNCHANGED tables
    /\ UNCHANGED <<keyFile, dbFile, faults, damaged, book>>

CreateOneMore == CreateUpTo(AllTables + 1)

CreateOneLess == CreateUpTo(AllTables - 1)

\* Every table is committed when it is made. The triggers that come last are
\* not SQL: the start that makes the database fails, and leaves the tables.
CreateNext == CreateUpTo(AllTables)

\* updateSocialNetTweepy prints the contacts before it looks for the file: it
\* raises when the table is not there, and connecting made an empty file. So it
\* does at every later start, which finds that file.
UpdateRaises ==
    /\ phase = "ready" /\ tables < 2
    /\ phase' = "down" /\ dbFile' = TRUE
    /\ damaged' = TRUE
    /\ UNCHANGED <<keyFile, tables, faults, book>>

createUserIdsFirst(a, name, screen) ==
    /\ phase = "ready" /\ tables >= 2
    /\ a \notin DOMAIN users /\ screen \notin DOMAIN userIds
    /\ userIds' = Put(userIds, screen, a)
    /\ adding' = <<a, screen>> /\ phase' = "adding"
    /\ UNCHANGED <<keyFile, dbFile, tables, users, halfway, faults, damaged>>

\* createUser for a friend that checkIfUserExists does not find, with the names
\* the account has now. A name that is taken raises and is passed over.
createUser(a, name, screen) ==
    /\ phase = "ready" /\ tables >= 2
    /\ a \notin DOMAIN users /\ name \notin Range(users)
    /\ users' = Put(users, a, name)
    /\ adding' = <<a, screen>> /\ phase' = "adding"
    /\ UNCHANGED <<keyFile, dbFile, tables, userIds, halfway, faults, damaged>>

\* Its second row, committed by itself. A screen name another account had when
\* it was entered raises, and the first row stays.
insertUserId ==
    LET a == adding[1]  screen == adding[2] IN
    /\ phase = "adding" /\ phase' = "ready" /\ adding' = <<>>
    /\ IF screen \in DOMAIN userIds
       THEN halfway' = halfway \cup {a} /\ UNCHANGED userIds
       ELSE userIds' = Put(userIds, screen, a) /\ UNCHANGED halfway
    /\ UNCHANGED <<keyFile, dbFile, tables, users, faults, damaged>>

Kill ==
    /\ phase # "down" /\ faults < MaxFaults
    /\ faults' = faults + 1 /\ phase' = "down"
    /\ halfway' = IF phase = "adding" THEN halfway \cup {adding[1]} ELSE halfway
    /\ adding' = <<>>
    /\ damaged' = (damaged \/ (phase = "creating" /\ tables < AllTables))
    /\ UNCHANGED <<keyFile, dbFile, tables, users, userIds>>

\* The case updateSocialNetTweepy looks for.
DeleteDb ==
    /\ phase \in {"down", "ready"} /\ dbFile /\ faults < MaxFaults
    /\ faults' = faults + 1
    /\ dbFile' = FALSE /\ tables' = 0 /\ damaged' = FALSE
    /\ users' = <<>> /\ userIds' = <<>> /\ halfway' = {}
    /\ UNCHANGED <<phase, keyFile, adding>>

Run == Start \/ OpenKeyFile \/ WriteKeyFile \/ OpenDb \/ CreateNext \/ insertUserId

Next ==
    \/ Run \/ UpdateRaises \/ Kill \/ DeleteDb
    \/ \E a \in Accounts, name \in Names, screen \in Screens : createUser(a, name, screen)

Spec == Init /\ [][Next]_vars

\* Each statement is followed by the next one, and who wants the program starts
\* it again when it ended.
Fairness == WF_vars(Run)

FairSpec == Spec /\ Fairness

-----------------------------------------------------------------------------
(* Properties.                                                             *)

\* A screen name leads to an account that is a user, each to one of its own; a
\* user without one is being added or was left halfway by a crash or by a
\* screen name that had another owner. createUser never comes back to those.
RowsPaired ==
    /\ Range(userIds) \subseteq DOMAIN users
    /\ \A s, t \in DOMAIN userIds : userIds[s] = userIds[t] => s = t
    /\ DOMAIN users \ Range(userIds)
           = halfway \cup (IF phase = "adding" THEN {adding[1]} ELSE {})

\* A database that a start has left without some of its tables.
HalfMade == dbFile /\ tables < AllTables /\ phase # "creating"

\* The database is left without tables by two faults only, a kill while they are
\* made and an update after it was deleted under the program, and then for good: no
\* start and no update repairs it, until it is deleted. But for such a database, a
\* program with a token becomes ready, with all tables in the database or, when it
\* was deleted under the program, without a database.
Recovers ==
    /\ [](HalfMade <=> damaged)
    /\ keyFile = "token" ~>
           damaged \/ (phase = "ready" /\ (dbFile => tables = AllTables))
=============================================================================
