-------------------------- MODULE AccountSyncProofs --------------------------
(***************************************************************************)
(* Proofs about AccountSync for every number of handlers, accounts and     *)
(* tokens.                                                                 *)
(*                                                                         *)
(* SyncInv, in AccountSync, is inductive.  Its core: the lists under way   *)
(* are ordered by when they were read, those that should not be applied    *)
(* are the older ones, and the last one has every write, unless an         *)
(* operation is still on its way to a list of its own.  So when the last   *)
(* list that should be applied is applied, the pools have every write.     *)
(***************************************************************************)
EXTENDS AccountSync, TLAPS

USE DEF Rows, Statuses, Lists, PCs

\* The list of the accounts in service is a list.
LEMMA DesiredType == ASSUME TypeOK PROVE Desired \in Lists
BY DEF TypeOK, Desired, Exists

\* An update applied to a row is a row, and so is a new one.
LEMMA EditType ==
  ASSUME NEW row \in Rows, NEW k \in Tokens \cup {NoToken}, NEW switch PROVE Edit(row, k, switch) \in Rows
BY DEF Edit

LEMMA NewRowType == ASSUME NEW k \in Tokens, NEW on \in BOOLEAN PROVE NewRow(k, on) \in Rows
BY ConstantsAssumption DEF NewRow

\* A write keeps the types of what it moves.
LEMMA WriteTypes ==
  ASSUME TypeOK, NEW t \in Threads, NEW a \in Accounts, NEW row \in Rows \cup {NoRow},
         NEW label \in PCs, Write(t, a, row, label)
  PROVE  /\ rows' \in [Accounts -> Rows \cup {NoRow}]
         /\ pc' \in [Threads -> PCs]
         /\ unlisted' \in SUBSET Threads
         /\ before' \in [Threads -> SUBSET Threads]
         /\ behind' \in SUBSET Threads
         /\ stale' \in {"no", "skipped", "overtaken"}
         /\ \A u \in Threads : pc'[u] = IF u = t THEN label ELSE pc[u]
         /\ \A b \in Accounts : rows'[b] = IF b = a THEN row ELSE rows[b]
BY DEF TypeOK, Write

\* An operation that stops keeps the types.
LEMMA StopTypes ==
  ASSUME TypeOK, NEW t \in Threads, Stop(t), UNCHANGED <<table, start, pools>> PROVE TypeOK'
<1>1. Syncing \subseteq Threads
  BY DEF Syncing
<1> QED
  BY <1>1 DEF TypeOK, Stop, table, start, pools

\* The system is born with its types.
LEMMA InitTypeOK == Init => TypeOK
BY DEF Init, TypeOK, NoPools

\* Every step keeps the types.
LEMMA NextTypeOK == ASSUME TypeOK, [Next]_vars PROVE TypeOK'
<1> USE DEF table, start, pools, locals, history
<1>1. CASE Boot
  BY <1>1 DEF Boot, TypeOK
<1>2. ASSUME NEW k \in Tokens, NEW a \in Accounts, Import(k, a) PROVE TypeOK'
  <2>1. rows' \in [Accounts -> Rows \cup {NoRow}]
    BY <1>2, NewRowType DEF Import, TypeOK
  <2> QED
    BY <1>2, <2>1 DEF Import, TypeOK
<1>3. CASE Serve
  BY <1>3, DesiredType DEF Serve, TypeOK
<1>4. CASE Exit
  BY <1>4 DEF Exit, TypeOK, NoPools
<1>5. ASSUME NEW t \in Threads, NEW a \in Accounts, NEW k \in Tokens, NEW on \in BOOLEAN,
             Create(t, a, k, on)
      PROVE  TypeOK'
  <2>1. NewRow(k, on) \in Rows /\ Write(t, a, NewRow(k, on), "get")
    BY <1>5, NewRowType DEF Create
  <2>2. /\ rows' \in [Accounts -> Rows \cup {NoRow}]
        /\ pc' \in [Threads -> PCs]
        /\ unlisted' \in SUBSET Threads
        /\ before' \in [Threads -> SUBSET Threads]
        /\ behind' \in SUBSET Threads
        /\ stale' \in {"no", "skipped", "overtaken"}
        /\ \A u \in Threads : pc'[u] = IF u = t THEN "get" ELSE pc[u]
        /\ \A b \in Accounts : rows'[b] = IF b = a THEN NewRow(k, on) ELSE rows[b]
    BY <2>1, WriteTypes
  <2> QED
    BY <1>5, <2>2 DEF Create, TypeOK
<1>6. ASSUME NEW t \in Threads, NEW a \in Accounts, NEW k \in Tokens \cup {NoToken},
             NEW switch \in {"keep", "on", "off"}, UpdateGet(t, a, k, switch)
      PROVE  TypeOK'
  <2>1. rows[a] \in Rows /\ a \in ids /\ Edit(rows[a], k, switch) \in Rows
    BY <1>6, EditType DEF UpdateGet, TypeOK, Exists
  <2> QED
    BY <1>6, <2>1 DEF UpdateGet, TypeOK
<1>7. ASSUME NEW t \in Threads, UpdateWrite(t) PROVE TypeOK'
  <2>1. acct[t] \in Accounts /\ edited[t] \in Rows /\ acct[t] \in ids
    BY <1>7 DEF UpdateWrite, TypeOK
  <2>2. CASE Exists(acct[t])
    <3>1. PICK next \in {"listing", "get"} : Write(t, acct[t], edited[t], next)
      BY <1>7, <2>2 DEF UpdateWrite
    <3>2. /\ rows' \in [Accounts -> Rows \cup {NoRow}]
          /\ pc' \in [Threads -> PCs]
          /\ unlisted' \in SUBSET Threads
          /\ before' \in [Threads -> SUBSET Threads]
          /\ behind' \in SUBSET Threads
          /\ stale' \in {"no", "skipped", "overtaken"}
          /\ \A u \in Threads : pc'[u] = IF u = t THEN next ELSE pc[u]
          /\ \A b \in Accounts : rows'[b] = IF b = acct[t] THEN edited[t] ELSE rows[b]
      BY <2>1, <3>1, WriteTypes
    <3> QED
      BY <1>7, <2>1, <3>2 DEF UpdateWrite, TypeOK
  <2>3. CASE ~Exists(acct[t])
    BY <1>7, <2>1, <2>3 DEF UpdateWrite, TypeOK
  <2> QED
    BY <2>2, <2>3
<1>8. ASSUME NEW t \in Threads, NEW a \in Accounts, ValidateGet(t, a) PROVE TypeOK'
  <2>1. CASE Exists(a)
    BY <1>8, <2>1 DEF ValidateGet, TypeOK, Exists
  <2>2. CASE ~Exists(a)
    BY <1>8, <2>2, StopTypes DEF ValidateGet
  <2> QED
    BY <2>1, <2>2
<1>9. ASSUME NEW t \in Threads, NEW status \in Statuses, UpdateValidation(t, status) PROVE TypeOK'
  <2>1. CASE Exists(acct[t])
    <3>1. acct[t] \in Accounts /\ rows[acct[t]] \in Rows /\ acct[t] \in ids
      BY <1>9, <2>1 DEF UpdateValidation, TypeOK, Exists
    <3>2. [rows[acct[t]] EXCEPT !.status = status] \in Rows
      BY <3>1
    <3>3. Write(t, acct[t], [rows[acct[t]] EXCEPT !.status = status], "listing")
      BY <1>9, <2>1 DEF UpdateValidation
    <3>4. /\ rows' \in [Accounts -> Rows \cup {NoRow}]
          /\ pc' \in [Threads -> PCs]
          /\ unlisted' \in SUBSET Threads
          /\ before' \in [Threads -> SUBSET Threads]
          /\ behind' \in SUBSET Threads
          /\ stale' \in {"no", "skipped", "overtaken"}
          /\ \A u \in Threads : pc'[u] = IF u = t THEN "listing" ELSE pc[u]
          /\ \A b \in Accounts \ {acct[t]} : rows'[b] = rows[b]
      BY <3>1, <3>2, <3>3, WriteTypes
    <3> QED
      BY <1>9, <2>1, <3>1, <3>4 DEF UpdateValidation, TypeOK
  <2>2. CASE ~Exists(acct[t])
    BY <1>9, <2>2, StopTypes DEF UpdateValidation
  <2> QED
    BY <2>1, <2>2
<1>10. ASSUME NEW t \in Threads, NEW a \in Accounts, MarkInvalid(t, a) PROVE TypeOK'
  <2>1. rows[a] \in Rows /\ a \in ids
    BY <1>10 DEF MarkInvalid, TypeOK, Exists
  <2>2. [rows[a] EXCEPT !.status = "invalid"] \in Rows
    BY <2>1
  <2>3. Write(t, a, [rows[a] EXCEPT !.status = "invalid"], "listing")
    BY <1>10 DEF MarkInvalid
  <2>4. /\ rows' \in [Accounts -> Rows \cup {NoRow}]
        /\ pc' \in [Threads -> PCs]
        /\ unlisted' \in SUBSET Threads
        /\ before' \in [Threads -> SUBSET Threads]
        /\ behind' \in SUBSET Threads
        /\ stale' \in {"no", "skipped", "overtaken"}
        /\ \A u \in Threads : pc'[u] = IF u = t THEN "listing" ELSE pc[u]
        /\ \A b \in Accounts \ {a} : rows'[b] = rows[b]
    BY <2>2, <2>3, WriteTypes
  <2> QED
    BY <1>10, <2>1, <2>4 DEF MarkInvalid, TypeOK
<1>11. ASSUME NEW t \in Threads, NEW a \in Accounts, Delete(t, a) PROVE TypeOK'
  <2>1. Write(t, a, NoRow, "listing")
    BY <1>11 DEF Delete
  <2>2. /\ rows' \in [Accounts -> Rows \cup {NoRow}]
        /\ pc' \in [Threads -> PCs]
        /\ unlisted' \in SUBSET Threads
        /\ before' \in [Threads -> SUBSET Threads]
        /\ behind' \in SUBSET Threads
        /\ stale' \in {"no", "skipped", "overtaken"}
        /\ \A u \in Threads : pc'[u] = IF u = t THEN "listing" ELSE pc[u]
        /\ \A b \in Accounts : rows'[b] = IF b = a THEN NoRow ELSE rows[b]
    BY <2>1, WriteTypes
  <2> QED
    BY <1>11, <2>2 DEF Delete, TypeOK
<1>12. ASSUME NEW t \in Threads, List(t) PROVE TypeOK'
  <2>1. Syncing \subseteq Threads
    BY DEF Syncing
  <2> QED
    BY <1>12, <2>1, DesiredType DEF List, TypeOK
<1>13. ASSUME NEW t \in Threads, Sync(t) PROVE TypeOK'
  BY <1>13 DEF Sync, TypeOK, NoPools
<1>14. ASSUME NEW t \in Threads, Fail(t) PROVE TypeOK'
  BY <1>14, StopTypes DEF Fail
<1>15. ASSUME NEW a \in Accounts, Count(a) PROVE TypeOK'
  <2>1. rows[a] \in Rows /\ a \in ids /\ rows[a].total + 1 \in 0..MaxTotal
    BY <1>15, ConstantsAssumption DEF Count, TypeOK, Exists
  <2>2. [rows[a] EXCEPT !.total = @ + 1] \in Rows
    BY <2>1
  <2>3. rows' = [rows EXCEPT ![a] = [rows[a] EXCEPT !.total = @ + 1]]
    BY <1>15 DEF Count
  <2> QED
    BY <1>15, <2>1, <2>2, <2>3 DEF Count, TypeOK
<1>16. CASE UNCHANGED vars
  BY <1>16 DEF vars, TypeOK
<1> QED
  BY <1>1, <1>2, <1>3, <1>4, <1>5, <1>6, <1>7, <1>8, <1>9, <1>10, <1>11, <1>12, <1>13, <1>14,
     <1>15, <1>16 DEF Next, Operation

\* Every variable always has its type.
THEOREM TypeCorrect == Spec => []TypeOK
<1>1. TypeOK /\ [Next]_vars => TypeOK'
  BY NextTypeOK
<1> QED
  BY InitTypeOK, <1>1, PTL DEF Spec

\* A deleted account does not come back, whoever still works on its row.
THEOREM DeletedForGood == Spec => DeletedStaysDeleted
<1>1. ASSUME TypeOK, [Next]_vars, NEW a \in ids, rows[a] = NoRow PROVE rows'[a] = NoRow
  <2> USE DEF TypeOK, table, Exists, Write
  <2>1. CASE Boot \/ Serve \/ Exit \/ UNCHANGED vars
    BY <1>1, <2>1 DEF Boot, Serve, Exit, vars
  <2>2. ASSUME NEW k \in Tokens, NEW b \in Accounts, Import(k, b) PROVE rows'[a] = NoRow
    BY <1>1, <2>2 DEF Import
  <2>3. ASSUME NEW b \in Accounts, Count(b) PROVE rows'[a] = NoRow
    BY <1>1, <2>3 DEF Count
  <2>4. ASSUME NEW t \in Threads, Operation(t) PROVE rows'[a] = NoRow
    <3>1. ASSUME NEW b \in Accounts, NEW k \in Tokens, NEW on \in BOOLEAN, Create(t, b, k, on)
          PROVE  rows'[a] = NoRow
      BY <1>1, <3>1 DEF Create
    <3>2. ASSUME NEW b \in Accounts, NEW k \in Tokens \cup {NoToken},
                 NEW switch \in {"keep", "on", "off"}, UpdateGet(t, b, k, switch)
          PROVE  rows'[a] = NoRow
      BY <1>1, <3>2 DEF UpdateGet
    <3>3. CASE UpdateWrite(t)
      BY <1>1, <3>3 DEF UpdateWrite
    <3>4. ASSUME NEW b \in Accounts, ValidateGet(t, b) \/ MarkInvalid(t, b) \/ Delete(t, b)
          PROVE  rows'[a] = NoRow
      BY <1>1, <3>4 DEF ValidateGet, MarkInvalid, Delete
    <3>5. ASSUME NEW status \in Statuses, UpdateValidation(t, status) PROVE rows'[a] = NoRow
      BY <1>1, <3>5 DEF UpdateValidation
    <3>6. CASE List(t) \/ Sync(t) \/ Fail(t)
      BY <1>1, <3>6 DEF List, Sync, Fail
    <3> QED
      BY <2>4, <3>1, <3>2, <3>3, <3>4, <3>5, <3>6 DEF Operation
  <2> QED
    BY <1>1, <2>1, <2>2, <2>3, <2>4 DEF Next
<1>2. TypeOK /\ [Next]_vars => [\A a \in ids : rows[a] = NoRow => rows'[a] = NoRow]_vars
  BY <1>1
<1> QED
  BY TypeCorrect, <1>2, PTL DEF Spec, DeletedStaysDeleted

-----------------------------------------------------------------------------
(* The pools follow the rows.                                              *)

\* What SyncInv says beyond the types.
SyncParts ==
    /\ process # "up" => \A t \in Threads : pc[t] = "idle"
    /\ WritersGoOn
    /\ ListsOrdered
    /\ BehindIsOld
    /\ LastListComplete
    /\ PoolsComplete

\* A thread that moves outside "syncing" leaves the lists under way.
LEMMA SameSyncing ==
  ASSUME NEW t \in Threads, pc[t] # "syncing", pc'[t] # "syncing",
         \A u \in Threads \ {t} : pc'[u] = pc[u]
  PROVE  Syncing' = Syncing
BY DEF Syncing

\* A write makes its thread one that is on its way to its list, and so excuses
\* what the lists and the pools do not have.
LEMMA WriteKeeps ==
  ASSUME SyncInv, NEW t \in Threads, NEW a \in Accounts, NEW row, NEW label \in {"get", "listing"},
         Write(t, a, row, label), pc[t] # "syncing", process = "up", UNCHANGED process
  PROVE  SyncParts'
<1> USE DEF SyncInv
<1>1. /\ \A u \in Threads : pc'[u] = IF u = t THEN label ELSE pc[u]
      /\ unlisted' = unlisted \cup {t}
      /\ UNCHANGED <<before, behind, stale>>
  BY DEF Write, TypeOK
<1>2. Syncing' = Syncing
  BY <1>1, SameSyncing
<1>3. WritersGoOn'
  BY <1>1 DEF WritersGoOn, TypeOK
<1>4. ListsOrdered' /\ BehindIsOld'
  BY <1>1, <1>2 DEF ListsOrdered, BehindIsOld
<1>5. LastListComplete' /\ PoolsComplete'
  BY <1>1 DEF LastListComplete, PoolsComplete
<1> QED
  BY <1>3, <1>4, <1>5 DEF SyncParts

\* An operation that stops with an unlisted write disowns the lists under way.
LEMMA StopKeeps ==
  ASSUME SyncInv, NEW t \in Threads, Stop(t), pc[t] # "syncing", process = "up",
         UNCHANGED <<table, start, pools>>
  PROVE  SyncParts'
<1> USE DEF SyncInv, table, start, pools
<1>1. /\ \A u \in Threads : pc'[u] = IF u = t THEN "idle" ELSE pc[u]
      /\ UNCHANGED <<list, before>>
  BY DEF Stop, TypeOK
<1>2. Syncing' = Syncing
  BY <1>1, SameSyncing
<1>3. WritersGoOn'
  BY <1>1 DEF WritersGoOn, Stop
<1>4. ListsOrdered'
  BY <1>1, <1>2 DEF ListsOrdered
<1>5. Desired' = Desired
  BY DEF Desired, Exists
<1>6. CASE t \in unlisted
  <2>1. behind' = Syncing /\ stale' = "skipped"
    BY <1>6 DEF Stop
  <2>2. BehindIsOld'
    BY <1>1, <1>2, <2>1 DEF BehindIsOld, ListsOrdered, Syncing
  <2>3. LastListComplete' /\ PoolsComplete'
    BY <1>2, <2>1 DEF LastListComplete, PoolsComplete
  <2> QED
    BY <1>3, <1>4, <2>2, <2>3 DEF SyncParts
<1>7. CASE t \notin unlisted
  <2>1. UNCHANGED <<unlisted, behind, stale>>
    BY <1>7 DEF Stop
  <2>2. BehindIsOld'
    BY <1>1, <1>2, <2>1 DEF BehindIsOld
  <2>3. LastListComplete' /\ PoolsComplete'
    BY <1>1, <1>2, <1>5, <2>1 DEF LastListComplete, PoolsComplete
  <2> QED
    BY <1>3, <1>4, <2>2, <2>3 DEF SyncParts
<1> QED
  BY <1>6, <1>7

\* Steps that move neither the rows as the pools see them nor a list.
LEMMA QuietKeeps ==
  ASSUME SyncInv, NEW t \in Threads, pc[t] # "syncing", pc'[t] # "syncing",
         \A u \in Threads \ {t} : pc'[u] = pc[u],
         t \in unlisted => pc'[t] \in {"get", "checking", "listing"},
         process = "up", Desired' = Desired,
         UNCHANGED <<process, active, list, unlisted, before, behind, stale>>
  PROVE  SyncParts'
<1> USE DEF SyncInv
<1>1. Syncing' = Syncing
  BY SameSyncing
<1>2. WritersGoOn'
  BY DEF WritersGoOn, TypeOK
<1>3. ListsOrdered' /\ BehindIsOld'
  BY <1>1 DEF ListsOrdered, BehindIsOld
<1>4. LastListComplete' /\ PoolsComplete'
  BY <1>1 DEF LastListComplete, PoolsComplete
<1> QED
  BY <1>2, <1>3, <1>4 DEF SyncParts

\* A list that is read is the last one, and has every write.
LEMMA ListKeeps ==
  ASSUME SyncInv, NEW t \in Threads, List(t), process = "up" PROVE SyncParts'
<1> USE DEF SyncInv
<1>1. /\ pc[t] = "listing"
      /\ \A u \in Threads : pc'[u] = IF u = t THEN "syncing" ELSE pc[u]
      /\ \A u \in Threads : before'[u] = IF u = t THEN Syncing ELSE before[u]
      /\ \A u \in Threads : list'[u] = IF u = t THEN Desired ELSE list[u]
      /\ unlisted' = {}
      /\ UNCHANGED <<behind, stale, rows, process, active>>
  BY DEF List, TypeOK, table, start, pools
<1>2. Syncing' = Syncing \cup {t} /\ t \notin Syncing
  BY <1>1 DEF Syncing
<1>3. Desired' = Desired
  BY <1>1 DEF Desired, Exists
<1>4. WritersGoOn'
  BY <1>1 DEF WritersGoOn
<1>5. ListsOrdered'
  <2>1. \A u \in Threads : before[u] \subseteq Syncing /\ t \notin before[u]
    BY <1>2 DEF ListsOrdered
  <2>2. Syncing \subseteq Threads
    BY DEF Syncing
  <2> QED
    BY <1>1, <1>2, <2>1, <2>2 DEF ListsOrdered
<1>6. BehindIsOld'
  <2>1. t \notin behind /\ behind \subseteq Threads
    BY <1>2 DEF BehindIsOld, Syncing
  <2> QED
    BY <1>1, <1>2, <2>1 DEF BehindIsOld
<1>7. LastListComplete'
  BY <1>1, <1>2, <1>3 DEF LastListComplete, Syncing
<1>8. PoolsComplete'
  BY <1>1, <1>2 DEF PoolsComplete, BehindIsOld
<1> QED
  BY <1>1, <1>4, <1>5, <1>6, <1>7, <1>8 DEF SyncParts

\* A list that is applied leaves those that were read before it behind.
LEMMA SyncKeeps ==
  ASSUME SyncInv, NEW t \in Threads, Sync(t), process = "up" PROVE SyncParts'
<1> USE DEF SyncInv
<1>1. /\ pc[t] = "syncing"
      /\ \A u \in Threads : pc'[u] = IF u = t THEN "idle" ELSE pc[u]
      /\ \A u \in Threads : before'[u] = IF u = t THEN {} ELSE before[u] \ {t}
      /\ \A u \in Threads \ {t} : list'[u] = list[u]
      /\ behind' = (behind \cup before[t]) \ {t}
      /\ stale' = "no" => t \notin behind
      /\ active' = list[t]
      /\ UNCHANGED <<rows, process, unlisted>>
  BY DEF Sync, TypeOK, table, start
<1>2. Syncing' = Syncing \ {t} /\ t \in Syncing /\ Syncing \subseteq Threads
  BY <1>1 DEF Syncing
<1>3. Desired' = Desired
  BY <1>1 DEF Desired, Exists
<1>4. WritersGoOn'
  BY <1>1 DEF WritersGoOn, TypeOK
<1>5. ListsOrdered'
  <2>1. ASSUME NEW u \in Threads
        PROVE  /\ before'[u] \subseteq Syncing'
               /\ u \notin Syncing' => before'[u] = {}
               /\ u \notin before'[u]
    BY <1>1, <1>2 DEF ListsOrdered
  <2>2. ASSUME NEW u \in Threads, NEW w \in before'[u]
        PROVE  u \notin before'[w] /\ before'[w] \subseteq before'[u]
    <3>1. u # t /\ w # t /\ w \in before[u] /\ w \in Threads
      BY <1>1, <1>2, <2>2 DEF ListsOrdered
    <3>2. u \notin before[w] /\ before[w] \subseteq before[u]
      BY <3>1 DEF ListsOrdered
    <3> QED
      BY <1>1, <3>1, <3>2
  <2> QED
    BY <2>1, <2>2 DEF ListsOrdered
<1>6. BehindIsOld'
  <2>1. behind' \subseteq Syncing'
    BY <1>1, <1>2 DEF BehindIsOld, ListsOrdered
  <2>2. ASSUME NEW u \in behind' PROVE before'[u] \subseteq behind'
    <3>1. u # t /\ u \in Threads /\ (u \in behind \/ u \in before[t])
      BY <1>1, <1>2, <2>1, <2>2
    <3>2. before[u] \subseteq behind \cup before[t]
      BY <3>1 DEF BehindIsOld, ListsOrdered
    <3> QED
      BY <1>1, <3>1, <3>2
  <2> QED
    BY <2>1, <2>2 DEF BehindIsOld
<1>7. LastListComplete'
  <2>1. SUFFICES ASSUME unlisted = {}, NEW u \in Syncing' \ behind',
                        \A w \in Syncing' : u \notin before'[w]
                 PROVE  list'[u] = Desired
    BY <1>1, <1>3 DEF LastListComplete
  <2>2. u \in Syncing \ behind /\ u # t /\ u \notin before[t]
    BY <1>1, <1>2
  <2>3. \A w \in Syncing : u \notin before[w]
    BY <1>1, <1>2, <2>1, <2>2
  <2> QED
    BY <1>1, <1>2, <2>1, <2>2, <2>3 DEF LastListComplete
<1>8. PoolsComplete'
  <2>1. SUFFICES ASSUME stale' = "no", unlisted = {}, Syncing' \subseteq behind'
                 PROVE  list[t] = Desired
    BY <1>1, <1>3 DEF PoolsComplete
  <2>2. t \in Syncing \ behind
    BY <1>1, <1>2, <2>1
  <2>3. ASSUME NEW u \in Syncing PROVE t \notin before[u]
    <3>1. CASE u = t
      BY <1>2, <3>1 DEF ListsOrdered
    <3>2. CASE u # t
      <4>1. u \in behind \/ u \in before[t]
        BY <1>1, <1>2, <2>1, <3>2
      <4>2. u \in behind => t \notin before[u]
        BY <2>2 DEF BehindIsOld
      <4>3. u \in before[t] => t \notin before[u]
        BY DEF ListsOrdered
      <4> QED
        BY <4>1, <4>2, <4>3
    <3> QED
      BY <3>1, <3>2
  <2> QED
    BY <2>1, <2>2, <2>3 DEF LastListComplete
<1> QED
  BY <1>1, <1>4, <1>5, <1>6, <1>7, <1>8 DEF SyncParts

\* With no operation under way there is no list and no write to wait for.
LEMMA AtRest ==
  ASSUME SyncInv, process # "up" PROVE unlisted = {} /\ Syncing = {} /\ behind = {}
<1>1. Syncing = {} /\ unlisted = {}
  BY DEF SyncInv, TypeOK, WritersGoOn, Syncing
<1> QED
  BY <1>1 DEF SyncInv, BehindIsOld

\* Start and end of the process.
LEMMA ProcessKeeps ==
  ASSUME SyncInv, Boot \/ Serve \/ Exit \/ (\E k \in Tokens, a \in Accounts : Import(k, a))
  PROVE  SyncParts'
<1>1. CASE Boot \/ (\E k \in Tokens, a \in Accounts : Import(k, a))
  <2>1. /\ process # "up" /\ process' # "up"
        /\ UNCHANGED <<pc, unlisted, before, behind, stale, list>>
    BY <1>1 DEF Boot, Import, history, locals
  <2>2. Syncing' = {} /\ Syncing = {} /\ unlisted' = {}
    BY <2>1, AtRest DEF Syncing
  <2>3. LastListComplete' /\ PoolsComplete'
    BY <2>1, <2>2 DEF LastListComplete, PoolsComplete
  <2>4. WritersGoOn' /\ ListsOrdered' /\ BehindIsOld'
    BY <2>1, <2>2 DEF SyncInv, WritersGoOn, ListsOrdered, BehindIsOld
  <2> QED
    BY <2>1, <2>3, <2>4 DEF SyncInv, SyncParts
<1>2. CASE Serve
  <2>1. /\ process # "up" /\ process' = "up" /\ active' = Desired
        /\ UNCHANGED <<pc, unlisted, before, behind, stale, list, rows>>
    BY <1>2 DEF Serve, history, locals, table
  <2>2. Syncing' = {} /\ Syncing = {} /\ unlisted' = {} /\ Desired' = Desired
    BY <2>1, AtRest DEF Syncing, Desired, Exists
  <2>3. LastListComplete' /\ PoolsComplete'
    BY <2>1, <2>2 DEF LastListComplete, PoolsComplete
  <2>4. WritersGoOn' /\ ListsOrdered' /\ BehindIsOld'
    BY <2>1, <2>2 DEF SyncInv, WritersGoOn, ListsOrdered, BehindIsOld
  <2> QED
    BY <2>1, <2>3, <2>4 DEF SyncParts
<1>3. CASE Exit
  <2>1. Syncing' = {}
    BY <1>3 DEF Exit, Syncing
  <2> QED
    BY <1>3, <2>1
    DEF Exit, SyncParts, WritersGoOn, ListsOrdered, BehindIsOld, LastListComplete, PoolsComplete
<1> QED
  BY <1>1, <1>2, <1>3

\* A count changes nothing SyncAccounts reads.
LEMMA CountKeeps == ASSUME SyncInv, NEW a \in Accounts, Count(a) PROVE SyncParts'
<1>1. /\ UNCHANGED <<process, active, pc, list, unlisted, before, behind, stale>>
      /\ rows[a] \in Rows
      /\ rows' = [rows EXCEPT ![a] = [rows[a] EXCEPT !.total = @ + 1]]
  BY DEF Count, SyncInv, TypeOK, Exists, start, pools, locals, history
<1>2. rows'[a] \in [token : Tokens, enabled : BOOLEAN, status : Statuses, total : 0..MaxTotal]
  <2>1. rows[a].total \in 0..MaxTotal /\ rows[a].total < MaxTotal
    BY <1>1 DEF Count
  <2>2. rows[a].total + 1 \in 0..MaxTotal
    BY <2>1, ConstantsAssumption
  <2>3. rows'[a] = [rows[a] EXCEPT !.total = @ + 1]
    BY <1>1 DEF SyncInv, TypeOK
  <2> QED
    BY <1>1, <2>2, <2>3
<1>3. rows'[a] # NoRow /\ rows[a] # NoRow
  BY <1>2, ConstantsAssumption DEF Count, Exists
<1>4. \A b \in Accounts : \/ rows'[b] = rows[b]
                          \/ /\ rows'[b] # NoRow /\ rows[b] # NoRow
                             /\ rows'[b].token = rows[b].token
                             /\ rows'[b].enabled = rows[b].enabled
                             /\ rows'[b].status = rows[b].status
  BY <1>1, <1>3 DEF SyncInv, TypeOK
<1>5. Desired' = Desired
  BY <1>4 DEF Desired, Exists
<1>6. Syncing' = Syncing
  BY <1>1 DEF Syncing
<1> QED
  BY <1>1, <1>5, <1>6
  DEF SyncInv, SyncParts, WritersGoOn, ListsOrdered, BehindIsOld, LastListComplete, PoolsComplete

\* An operation runs only while the process is up.
LEMMA OperationUp == ASSUME SyncInv, NEW t \in Threads, Operation(t) PROVE process = "up"
BY DEF SyncInv, TypeOK, Operation, Create, UpdateGet, UpdateWrite, ValidateGet, MarkInvalid, Delete,
   UpdateValidation, List, Sync, Fail, Begins

\* Every step of an operation keeps the parts.
LEMMA OperationKeeps == ASSUME SyncInv, NEW t \in Threads, Operation(t) PROVE SyncParts'
<1> USE DEF table, start, pools, locals, history
<1>1. process = "up"
  BY OperationUp
<1>2. ASSUME NEW a \in Accounts, NEW k \in Tokens, NEW on \in BOOLEAN, Create(t, a, k, on)
      PROVE  SyncParts'
  BY <1>1, <1>2, WriteKeeps DEF Create, Begins
<1>3. ASSUME NEW a \in Accounts, NEW k \in Tokens \cup {NoToken}, NEW switch \in {"keep", "on", "off"},
             UpdateGet(t, a, k, switch)
      PROVE  SyncParts'
  <2>1. t \notin unlisted /\ pc[t] = "idle" /\ pc'[t] # "syncing"
    BY <1>3 DEF UpdateGet, Begins, SyncInv, WritersGoOn, TypeOK
  <2>2. Desired' = Desired
    BY <1>3 DEF UpdateGet, Desired, Exists
  <2> QED
    BY <1>1, <1>3, <2>1, <2>2, QuietKeeps DEF UpdateGet, SyncInv, TypeOK
<1>4. CASE UpdateWrite(t)
  <2>1. acct[t] \in Accounts /\ pc[t] # "syncing" /\ t \notin unlisted
    BY <1>4 DEF UpdateWrite, SyncInv, TypeOK, WritersGoOn
  <2>2. CASE Exists(acct[t])
    <3>1. PICK next \in {"listing", "get"} : Write(t, acct[t], edited[t], next)
      BY <1>4, <2>2 DEF UpdateWrite
    <3> QED
      BY <1>1, <1>4, <2>1, <3>1, WriteKeeps DEF UpdateWrite
  <2>3. CASE ~Exists(acct[t])
    <3>1. Desired' = Desired
      BY <1>4, <2>3 DEF UpdateWrite, Desired, Exists
    <3> QED
      BY <1>1, <1>4, <2>1, <2>3, <3>1, QuietKeeps DEF UpdateWrite, SyncInv, TypeOK
  <2> QED
    BY <2>2, <2>3
<1>5. ASSUME NEW a \in Accounts, ValidateGet(t, a) PROVE SyncParts'
  <2>1. pc[t] # "syncing"
    BY <1>5 DEF ValidateGet, Begins
  <2>2. CASE Exists(a)
    <3>1. Desired' = Desired
      BY <1>5, <2>2 DEF ValidateGet, Desired, Exists
    <3> QED
      BY <1>1, <1>5, <2>1, <2>2, <3>1, QuietKeeps DEF ValidateGet, SyncInv, TypeOK
  <2>3. CASE ~Exists(a)
    BY <1>1, <1>5, <2>1, <2>3, StopKeeps DEF ValidateGet
  <2> QED
    BY <2>2, <2>3
<1>6. ASSUME NEW a \in Accounts, MarkInvalid(t, a) \/ Delete(t, a) PROVE SyncParts'
  <2>1. PICK row : Write(t, a, row, "listing")
    BY <1>6 DEF MarkInvalid, Delete
  <2> QED
    BY <1>1, <1>6, <2>1, WriteKeeps DEF MarkInvalid, Delete, Begins
<1>7. ASSUME NEW status \in Statuses, UpdateValidation(t, status) PROVE SyncParts'
  <2>1. pc[t] = "checking" /\ acct[t] \in Accounts
    BY <1>7 DEF UpdateValidation, SyncInv, TypeOK
  <2>2. CASE Exists(acct[t])
    BY <1>1, <1>7, <2>1, <2>2, WriteKeeps DEF UpdateValidation
  <2>3. CASE ~Exists(acct[t])
    BY <1>1, <1>7, <2>1, <2>3, StopKeeps DEF UpdateValidation
  <2> QED
    BY <2>2, <2>3
<1>8. CASE List(t)
  BY <1>1, <1>8, ListKeeps
<1>9. CASE Sync(t)
  BY <1>1, <1>9, SyncKeeps
<1>10. CASE Fail(t)
  <2>1. pc[t] # "syncing" /\ Stop(t)
    BY <1>10 DEF Fail
  <2> QED
    BY <1>1, <1>10, <2>1, StopKeeps DEF Fail
<1> QED
  BY <1>2, <1>3, <1>4, <1>5, <1>6, <1>7, <1>8, <1>9, <1>10 DEF Operation

\* At first the process is down.
LEMMA InitParts == Init => SyncParts
BY DEF Init, SyncParts, WritersGoOn, ListsOrdered, BehindIsOld, LastListComplete, PoolsComplete,
   Syncing

\* The inductive invariant of the accounts.
THEOREM Inductive == Spec => []SyncInv
<1>1. Init => SyncInv
  BY InitTypeOK, InitParts DEF SyncInv, SyncParts
<1>2. ASSUME SyncInv, [Next]_vars PROVE SyncInv'
  <2>1. TypeOK'
    BY <1>2, NextTypeOK DEF SyncInv
  <2>2. CASE UNCHANGED vars
    <3>1. SyncParts'
      BY <1>2, <2>2 DEF vars, table, start, pools, locals, history, SyncInv, SyncParts, WritersGoOn,
         ListsOrdered, BehindIsOld, LastListComplete, PoolsComplete, Syncing, Desired, Exists
    <3> QED
      BY <2>1, <3>1 DEF SyncInv, SyncParts
  <2>3. CASE Next
    <3>1. SyncParts'
      BY <1>2, <2>3, ProcessKeeps, OperationKeeps, CountKeeps DEF Next
    <3> QED
      BY <2>1, <3>1 DEF SyncInv, SyncParts
  <2> QED
    BY <1>2, <2>2, <2>3
<1> QED
  BY <1>1, <1>2, PTL DEF Spec

\* With nothing under way, nothing skipped and nothing overtaken, the pools are
\* those of the accounts in service.
THEOREM PoolsAreRight == Spec => []PoolsFollowRows
<1>1. ASSUME SyncInv PROVE PoolsFollowRows
  <2>1. SUFFICES ASSUME process = "up", stale = "no", Syncing = {},
                        \A t \in unlisted : pc[t] = "idle",
                        NEW a \in Accounts
                 PROVE  IF Exists(a) /\ rows[a].enabled /\ rows[a].status = "usable"
                        THEN active[a] = rows[a].token
                        ELSE active[a] = NoToken
    BY DEF PoolsFollowRows
  <2>2. unlisted = {}
    BY <1>1, <2>1 DEF SyncInv, WritersGoOn
  <2>3. active = Desired
    BY <1>1, <2>1, <2>2 DEF SyncInv, PoolsComplete
  <2>4. Exists(a) => rows[a].status \in {"usable", "invalid"}
    BY <1>1 DEF SyncInv, TypeOK, Exists
  <2> QED
    BY <2>3, <2>4 DEF Desired
<1> QED
  BY Inductive, <1>1, PTL

=============================================================================
