------------------------------ MODULE KeyStores -------------------------------
(***************************************************************************)
(* Where a client keeps its encryption keys: LocalGroupKeyStore.ts on      *)
(* PersistenceManager.ts and ServerPersistence.ts, a database file that    *)
(* several processes and restarts share.                                   *)
(*                                                                         *)
(* One key is studied.  Its value is a number that grows with every write; *)
(* 0 is none, 1 that of a legacy key.                                      *)
(***************************************************************************)
EXTENDS Integers, FiniteSets

CONSTANTS
  KeyCall,      \* calls of LocalGroupKeyStore: any of them may get or set
  MaxWrites,    \* bound of the writes
  MaxRestarts   \* bound of the restarts

ASSUME KeyStoresAssumption == IsFiniteSet(KeyCall) /\ MaxWrites \in Nat /\ MaxRestarts \in Nat

Instances == 1 .. Cardinality(KeyCall)  \* the ServerPersistence that may be created

VARIABLES
  keyCall,     \* how far each call is
  persistence, \* the manager's instance, or 0
  created,     \* how many there are
  db,          \* each of them: "uninitialized", "opening", "migrating", "ready", "failed",
               \* "closed"
  file, tables,\* there is a database file, and its tables
  row, legacy, \* the value of the key, and whether there is one under LEGACY
  other,       \* another process migrates the database
  committed,   \* history: the value of the last set that resolved
  restarts     \* how many there were

keyVars == <<keyCall, persistence, created, db, file, tables, row, legacy, other, committed,
             restarts>>

NoCall == [step |-> "idle", kind |-> "get", db |-> 0, legacy |-> FALSE, value |-> 0,
           floor |-> 0, excuse |-> FALSE]

\* A database may be there from earlier runs of the client, with the key or a legacy key
\* in it, or be about to be made by another process.
KeysInit ==
  /\ keyCall = [c \in KeyCall |-> NoCall]
  /\ persistence = 0 /\ created = 0 /\ db = [i \in Instances |-> "uninitialized"]
  /\ tables \in BOOLEAN /\ other \in BOOLEAN
  /\ other => ~tables
  /\ file \in BOOLEAN /\ (tables \/ other => file)
  /\ legacy \in BOOLEAN /\ (legacy => tables)
  /\ row = 0 /\ committed = 0 /\ restarts = 0

At(c, step) == keyCall[c].step = step
To(c, step) == keyCall' = [keyCall EXCEPT ![c].step = step]

-----------------------------------------------------------------------------
(* PersistenceManager and LocalGroupKeyStore.                              *)

\* A call starts: ensureInitialized creates an instance unless there is one.
BeginCall(c, kind) ==
  /\ At(c, "idle")
  /\ kind = "set" => row + Cardinality({d \in KeyCall : keyCall[d].kind = "set"}) <= MaxWrites
  /\ keyCall' = [keyCall EXCEPT ![c] =
       [NoCall EXCEPT !.kind = kind,
                      !.step = IF persistence = 0 THEN "creating" ELSE "using",
                      !.floor = IF committed > 0 THEN committed ELSE IF legacy THEN 1 ELSE 0]]
  /\ UNCHANGED <<persistence, created, db, file, tables, row, legacy, other, committed, restarts>>

\* Each call that found none creates one when it knows the client's address; the last
\* one stays.
Created(c) ==
  /\ At(c, "creating")
  /\ created' = created + 1 /\ persistence' = created'
  /\ To(c, "using")
  /\ UNCHANGED <<db, file, tables, row, legacy, other, committed, restarts>>

\* init is run once.
InitOnce(i) == db' = [db EXCEPT ![i] = IF @ = "uninitialized" THEN "opening" ELSE @]

\* get and set of the manager's instance.  A get does not make a database: as long as
\* that is not opened it looks for the file first.
Use(c) ==
  /\ At(c, "using")
  /\ IF keyCall[c].kind = "get" /\ db[persistence] = "uninitialized"
     THEN keyCall' = [keyCall EXCEPT ![c].step = "checking", ![c].db = persistence] /\ UNCHANGED db
     ELSE /\ keyCall' = [keyCall EXCEPT ![c].step = "waiting", ![c].db = persistence]
          /\ InitOnce(persistence)
  /\ UNCHANGED <<persistence, created, file, tables, row, legacy, other, committed, restarts>>

\* getLegacyKey, when there is nothing under the publisher's id.
Missing(c) ==
  IF keyCall[c].legacy THEN [keyCall EXCEPT ![c].step = "resolved"]
  ELSE [keyCall EXCEPT ![c].step = "using", ![c].legacy = TRUE]

\* exists()
Checked(c) ==
  /\ At(c, "checking")
  /\ IF file THEN To(c, "waiting") /\ InitOnce(keyCall[c].db)
     ELSE keyCall' = Missing(c) /\ UNCHANGED db
  /\ UNCHANGED <<persistence, created, file, tables, row, legacy, other, committed, restarts>>

-----------------------------------------------------------------------------
(* ServerPersistence.                                                      *)

\* The database is opened, unless that fails or it stays busy for too long.
Opened(i) ==
  /\ db[i] = "opening"
  /\ \/ db' = [db EXCEPT ![i] = "migrating"] /\ file' = TRUE
     \/ db' = [db EXCEPT ![i] = "failed"] /\ UNCHANGED file
  /\ UNCHANGED <<keyCall, persistence, created, tables, row, legacy, other, committed, restarts>>

\* The tables are made, unless that fails; an error of the database is ignored, because
\* another process may be doing the same.
Migrated(i) ==
  /\ db[i] = "migrating"
  /\ \/ db' = [db EXCEPT ![i] = "ready"] /\ tables' = TRUE
     \/ other /\ db' = [db EXCEPT ![i] = "ready"] /\ UNCHANGED tables
     \/ db' = [db EXCEPT ![i] = "failed"] /\ UNCHANGED tables
  /\ UNCHANGED <<keyCall, persistence, created, file, row, legacy, other, committed, restarts>>

\* The statement is run; it fails as long as another process has not made the tables.
Run(c) ==
  LET i == keyCall[c].db
      value == IF keyCall[c].legacy THEN (IF legacy THEN 1 ELSE 0) ELSE row
  IN  /\ At(c, "waiting") /\ db[i] \in {"ready", "failed", "closed"}
      /\ \/ /\ db[i] # "ready" \/ ~tables
            /\ keyCall' = [keyCall EXCEPT ![c].step = "rejected",
                                          ![c].excuse = db[i] # "ready" \/ other]
            /\ UNCHANGED <<row, committed>>
         \/ /\ db[i] = "ready" /\ tables /\ keyCall[c].kind = "get"
            /\ keyCall' = IF value = 0 THEN Missing(c)
                          ELSE [keyCall EXCEPT ![c].step = "resolved", ![c].value = value]
            /\ UNCHANGED <<row, committed>>
         \/ /\ db[i] = "ready" /\ tables /\ keyCall[c].kind = "set"
            /\ row' = (IF row = 0 THEN 2 ELSE row + 1)
            /\ committed' = row'
            /\ To(c, "resolved")
      /\ UNCHANGED <<persistence, created, db, file, tables, legacy, other, restarts>>

\* The result is used and the caller goes on to another call.
Settle(c) ==
  /\ keyCall[c].step \in {"resolved", "rejected"}
  /\ keyCall' = [keyCall EXCEPT ![c] = NoCall]
  /\ UNCHANGED <<persistence, created, db, file, tables, row, legacy, other, committed, restarts>>

\* The other process is done.
OtherMigrates ==
  /\ other
  /\ other' = FALSE /\ tables' = TRUE
  /\ UNCHANGED <<keyCall, persistence, created, db, file, row, legacy, committed, restarts>>

\* destroy(): the manager's instance is closed, once it is initialized.
CloseStore ==
  /\ persistence # 0 /\ db[persistence] = "ready"
  /\ db' = [db EXCEPT ![persistence] = "closed"]
  /\ UNCHANGED <<keyCall, persistence, created, file, tables, row, legacy, other, committed,
                 restarts>>

\* The process is restarted, whatever it was doing; the file stays.
KeysRestart ==
  /\ restarts < MaxRestarts
  /\ restarts' = restarts + 1
  /\ keyCall' = [c \in KeyCall |-> NoCall]
  /\ persistence' = 0 /\ created' = 0 /\ db' = [i \in Instances |-> "uninitialized"]
  /\ UNCHANGED <<file, tables, row, legacy, other, committed>>

KeysNext ==
  \/ \E c \in KeyCall : \/ BeginCall(c, "get") \/ BeginCall(c, "set") \/ Created(c) \/ Use(c)
                        \/ Checked(c) \/ Run(c) \/ Settle(c)
  \/ \E i \in Instances : Opened(i) \/ Migrated(i)
  \/ OtherMigrates \/ CloseStore \/ KeysRestart

KeysSpec == KeysInit /\ [][KeysNext]_keyVars

KeyCallEnds(c) == Created(c) \/ Use(c) \/ Checked(c) \/ Run(c)
KeysFairness ==
  /\ \A c \in KeyCall : WF_keyVars(KeyCallEnds(c))
  /\ \A i \in Instances : WF_keyVars(Opened(i) \/ Migrated(i))

-----------------------------------------------------------------------------
(* Properties.                                                             *)

\* A get that begins after a set has resolved, maybe before a restart, finds that value
\* or a later one, and a legacy key is found as long as there is nothing else.
GetFindsStored ==
  \A c \in KeyCall : At(c, "resolved") /\ keyCall[c].kind = "get" =>
    keyCall[c].value >= keyCall[c].floor

\* A call is rejected only if the database could not be opened, is closed, or is being
\* migrated by another process.
RejectedForAReason == \A c \in KeyCall : At(c, "rejected") => keyCall[c].excuse

KeyStoresInv == GetFindsStored /\ RejectedForAReason

\* Every call ends.
KeyCallsSettle ==
  \A c \in KeyCall : []<>(keyCall[c].step \in {"idle", "resolved", "rejected"})
=============================================================================
