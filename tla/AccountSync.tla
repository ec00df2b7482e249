----------------------------- MODULE AccountSync -----------------------------
(***************************************************************************)
(* The accounts: their rows in SQLite (account_store.go), the operations   *)
(* of the console and of rejected chat requests on them (accounts.go), and *)
(* the pools SyncAccounts keeps in step with the rows (run_manager.go).    *)
(*                                                                         *)
(* A step is one SQL statement, one check of a token, or one SyncAccounts. *)
(* The operations run concurrently, each in the handler of its request,    *)
(* and no transaction spans two statements.  An operation may stop between *)
(* any two of them: its client goes away, or the statement fails.  The     *)
(* process may exit at any time; the rows stay.                            *)
(*                                                                         *)
(* A row is abstracted to its token, whether it is enabled, whether its    *)
(* last status is invalid (unknown, healthy and error are all "usable"),   *)
(* and one counter.  A pool is abstracted to the token it was made for.    *)
(***************************************************************************)
EXTENDS Integers, FiniteSets

CONSTANTS
    Threads,       \* handlers
    Accounts,      \* ids newAccountID makes; none is made twice
    Tokens,
    ConfigTokens,  \* AUTH_TOKENS
    MaxTotal,      \* bound of the counter of a row
    NoToken,       \* no pool; no token in the input of an update
    NoRow          \* no row

ASSUME ConstantsAssumption ==
    /\ ConfigTokens \subseteq Tokens
    /\ NoToken \notin Tokens
    /\ MaxTotal \in Nat
    /\ NoRow \notin [token : Tokens, enabled : BOOLEAN, status : {"usable", "invalid"},
                     total : 0..MaxTotal]

VARIABLES
    rows,      \* the table accounts
    ids,       \* the ids made so far
    process,   \* down, importing (Bootstrap), or up
    toImport,  \* tokens Bootstrap has still to import
    active,    \* m.activePools: the token of the pool of each account
    pooled,    \* accounts that have had a pool: requests may use it still
    pc,        \* where each operation stands
    acct,      \* the account an operation is about
    edited,    \* the record store.Update is about to write
    list,      \* the list RefreshRuntime is about to hand to SyncAccounts
    unlisted,  \* history: operations whose write no list has seen yet
    before,    \* history: lists under way that were read before a thread's
    behind,    \* history: threads whose list an operation should not apply:
               \* a later one is applied already, or a write was left unlisted
    stale      \* history: why the pools may differ from the rows

table    == <<rows, ids>>
start    == <<process, toImport>>
pools    == <<active, pooled>>
locals   == <<acct, edited, list>>
history  == <<unlisted, before, behind, stale>>
vars     == <<table, start, pools, pc, locals, history>>

Statuses == {"usable", "invalid"}
Rows     == [token : Tokens, enabled : BOOLEAN, status : Statuses, total : 0..MaxTotal]
Lists    == [Accounts -> Tokens \cup {NoToken}]
PCs      == {"idle", "write", "writeToCheck", "get", "checking", "listing", "syncing"}

\* Every variable has its type, and a thread that works on a record has one.
TypeOK ==
    /\ rows \in [Accounts -> Rows \cup {NoRow}]
    /\ ids \in SUBSET Accounts
    /\ process \in {"down", "importing", "up"}
    /\ toImport \in SUBSET ConfigTokens
    /\ active \in Lists
    /\ pooled \in SUBSET Accounts
    /\ pc \in [Threads -> PCs]
    /\ acct \in [Threads -> Accounts \cup {NoRow}]
    /\ edited \in [Threads -> Rows \cup {NoRow}]
    /\ list \in [Threads -> Lists]
    /\ unlisted \in SUBSET Threads
    /\ before \in [Threads -> SUBSET Threads]
    /\ behind \in SUBSET Threads
    /\ stale \in {"no", "skipped", "overtaken"}
    /\ \A a \in Accounts : rows[a] # NoRow => a \in ids
    /\ \A t \in Threads :
         /\ pc[t] \notin {"idle", "listing", "syncing"} => acct[t] \in ids
         /\ pc[t] \in {"write", "writeToCheck"} => edited[t] \in Rows

NoPools == [a \in Accounts |-> NoToken]

Init ==
    /\ rows = [a \in Accounts |-> NoRow]
    /\ ids = {}
    /\ process = "down"
    /\ toImport = {}
    /\ active = NoPools
    /\ pooled = {}
    /\ pc = [t \in Threads |-> "idle"]
    /\ acct = [t \in Threads |-> NoRow]
    /\ edited = [t \in Threads |-> NoRow]
    /\ list = [t \in Threads |-> NoPools]
    /\ unlisted = {}
    /\ before = [t \in Threads |-> {}]
    /\ behind = {}
    /\ stale = "no"

-----------------------------------------------------------------------------
(* Helpers.                                                                *)

Exists(a) == rows[a] # NoRow

\* runtimeAccountsFromRecords of store.List: what the pools should be.
Desired ==
    [a \in Accounts |->
       IF Exists(a) /\ rows[a].enabled /\ rows[a].status # "invalid" THEN rows[a].token ELSE NoToken]

NewRow(k, on) == [token |-> k, enabled |-> on, status |-> "usable", total |-> 0]

\* store.Update applies its input to the record it has read.
Edit(row, k, switch) ==
    [row EXCEPT !.token   = IF k = NoToken THEN @ ELSE k,
                !.status  = IF k = NoToken THEN @ ELSE "usable",
                !.enabled = IF switch = "keep" THEN @ ELSE switch = "on"]

\* manager.Update checks the token that is new or switched on.
NeedsValidation(k, switch) == k # NoToken \/ switch = "on"

Syncing == {t \in Threads : pc[t] = "syncing"}

\* A thread leaves its operation before its list: with a write of its own that
\* no list has seen, the pools go without it until another list is read.
Stop(t) ==
    /\ pc' = [pc EXCEPT ![t] = "idle"]
    /\ acct' = [acct EXCEPT ![t] = NoRow]
    /\ edited' = [edited EXCEPT ![t] = NoRow]
    /\ IF t \in unlisted
       THEN /\ unlisted' = unlisted \ {t}
            /\ behind' = Syncing
            /\ stale' = "skipped"
       ELSE UNCHANGED <<unlisted, behind, stale>>
    /\ UNCHANGED <<list, before>>

\* A statement has changed the row of an account, and the thread goes on.
Write(t, a, row, label) ==
    /\ rows' = [rows EXCEPT ![a] = row]
    /\ pc' = [pc EXCEPT ![t] = label]
    /\ unlisted' = unlisted \cup {t}
    /\ UNCHANGED <<before, behind, stale>>

-----------------------------------------------------------------------------
(* Start and end of the process.                                           *)

\* main starts, and Bootstrap counts the rows: none means AUTH_TOKENS are to be
\* imported.
Boot ==
    /\ process = "down"
    /\ process' = "importing"
    /\ toImport' = IF \E a \in Accounts : Exists(a) THEN {} ELSE ConfigTokens
    /\ UNCHANGED <<table, pools, pc, locals, history>>

\* Bootstrap imports one more token.
Import(k, a) ==
    /\ process = "importing"
    /\ k \in toImport
    /\ a \notin ids
    /\ rows' = [rows EXCEPT ![a] = NewRow(k, TRUE)]
    /\ ids' = ids \cup {a}
    /\ toImport' = toImport \ {k}
    /\ UNCHANGED <<process, pools, pc, locals, history>>

\* The RefreshRuntime of Bootstrap: nobody else is there yet.
Serve ==
    /\ process = "importing"
    /\ toImport = {}
    /\ process' = "up"
    /\ active' = Desired
    /\ pooled' = {a \in Accounts : Desired[a] # NoToken}
    /\ UNCHANGED <<table, toImport, pc, locals, history>>

\* The process exits: told to, crashed, or because Bootstrap has failed.
Exit ==
    /\ process # "down"
    /\ process' = "down"
    /\ toImport' = {}
    /\ active' = NoPools
    /\ pooled' = {}
    /\ pc' = [t \in Threads |-> "idle"]
    /\ acct' = [t \in Threads |-> NoRow]
    /\ edited' = [t \in Threads |-> NoRow]
    /\ list' = [t \in Threads |-> NoPools]
    /\ unlisted' = {}
    /\ before' = [t \in Threads |-> {}]
    /\ behind' = {}
    /\ stale' = "no"
    /\ UNCHANGED table

-----------------------------------------------------------------------------
(* Operations of the console, and of a chat request that was rejected.     *)

Begins(t) == process = "up" /\ pc[t] = "idle"

\* Create: the INSERT; Validate is next.
Create(t, a, k, on) ==
    /\ Begins(t)
    /\ a \notin ids
    /\ Write(t, a, NewRow(k, on), "get")
    /\ ids' = ids \cup {a}
    /\ acct' = [acct EXCEPT ![t] = a]
    /\ UNCHANGED <<start, pools, edited, list>>

\* Update: the row is read and the input applied to what was read.
UpdateGet(t, a, k, switch) ==
    /\ Begins(t)
    /\ Exists(a)
    /\ pc' = [pc EXCEPT ![t] = IF NeedsValidation(k, switch) THEN "writeToCheck" ELSE "write"]
    /\ acct' = [acct EXCEPT ![t] = a]
    /\ edited' = [edited EXCEPT ![t] = Edit(rows[a], k, switch)]
    /\ UNCHANGED <<table, start, pools, list, history>>

\* Mutant: the record is written whether or not the row is there.
UpdateWriteUpsert(t) ==
    /\ pc[t] \in {"write", "writeToCheck"}
    /\ Write(t, acct[t], edited[t], IF pc[t] = "write" THEN "listing" ELSE "get")
    /\ edited' = [edited EXCEPT ![t] = NoRow]
    /\ UNCHANGED <<ids, start, pools, acct, list>>

\* Mutant: only an update that is validated refreshes the pools.
UpdateWriteUnlisted(t) ==
    /\ pc[t] \in {"write", "writeToCheck"}
    /\ LET next == IF pc[t] = "write" THEN "idle" ELSE "get"
       IN  IF Exists(acct[t])
           THEN Write(t, acct[t], edited[t], next)
           ELSE /\ pc' = [pc EXCEPT ![t] = next]
                /\ UNCHANGED <<rows, history>>
    /\ edited' = [edited EXCEPT ![t] = NoRow]
    /\ UNCHANGED <<ids, start, pools, acct, list>>

\* Update: the whole record is written back, if the row is still there.
UpdateWrite(t) ==
    /\ pc[t] \in {"write", "writeToCheck"}
    /\ LET next == IF pc[t] = "write" THEN "listing" ELSE "get"
       IN  IF Exists(acct[t])
           THEN Write(t, acct[t], edited[t], next)
           ELSE /\ pc' = [pc EXCEPT ![t] = next]
                /\ UNCHANGED <<rows, history>>
    /\ edited' = [edited EXCEPT ![t] = NoRow]
    /\ UNCHANGED <<ids, start, pools, acct, list>>

\* Validate: the row is read, for the token to be checked.
ValidateGet(t, a) ==
    /\ Begins(t) \/ (pc[t] = "get" /\ acct[t] = a)
    /\ IF Exists(a)
       THEN /\ pc' = [pc EXCEPT ![t] = "checking"]
            /\ acct' = [acct EXCEPT ![t] = a]
            /\ UNCHANGED <<edited, list, history>>
       ELSE Stop(t)
    /\ UNCHANGED <<table, start, pools>>

\* Validate: the upstream has taken or refused a run, and the result is
\* recorded for the account, whatever its token is by now.
UpdateValidation(t, status) ==
    /\ pc[t] = "checking"
    /\ IF Exists(acct[t])
       THEN /\ Write(t, acct[t], [rows[acct[t]] EXCEPT !.status = status], "listing")
            /\ UNCHANGED locals
       ELSE Stop(t) /\ UNCHANGED rows
    /\ UNCHANGED <<ids, start, pools>>

\* MarkInvalid of a chat request whose token was rejected.
MarkInvalid(t, a) ==
    /\ Begins(t)
    /\ a \in pooled
    /\ Exists(a)
    /\ Write(t, a, [rows[a] EXCEPT !.status = "invalid"], "listing")
    /\ UNCHANGED <<ids, start, pools, locals>>

\* Delete: the DELETE; RefreshRuntime is next.
Delete(t, a) ==
    /\ Begins(t)
    /\ Exists(a)
    /\ Write(t, a, NoRow, "listing")
    /\ UNCHANGED <<ids, start, pools, locals>>

\* RefreshRuntime reads the list, which has every write made so far.
List(t) ==
    /\ pc[t] = "listing"
    /\ pc' = [pc EXCEPT ![t] = "syncing"]
    /\ acct' = [acct EXCEPT ![t] = NoRow]
    /\ list' = [list EXCEPT ![t] = Desired]
    /\ unlisted' = {}
    /\ before' = [before EXCEPT ![t] = Syncing]
    /\ UNCHANGED <<table, start, pools, edited, behind, stale>>

\* RefreshRuntime hands the list to SyncAccounts, which makes, keeps or retires
\* pools in one critical section.
Sync(t) ==
    /\ pc[t] = "syncing"
    /\ pc' = [pc EXCEPT ![t] = "idle"]
    /\ active' = list[t]
    /\ pooled' = pooled \cup {a \in Accounts : list[t][a] # NoToken}
    /\ list' = [list EXCEPT ![t] = NoPools]
    /\ stale' = IF t \notin behind THEN "no"
                ELSE IF stale = "skipped" THEN "skipped" ELSE "overtaken"
    /\ behind' = (behind \cup before[t]) \ {t}
    /\ before' = [u \in Threads |-> IF u = t THEN {} ELSE before[u] \ {t}]
    /\ UNCHANGED <<table, start, acct, edited, unlisted>>

\* A statement fails, or the client has gone and with it the context.
Fail(t) ==
    /\ pc[t] \in {"write", "writeToCheck", "get", "checking", "listing"}
    /\ Stop(t)
    /\ UNCHANGED <<table, start, pools>>

\* RecordAccountAttempt and its like: one UPDATE that increments.
Count(a) ==
    /\ process = "up"
    /\ a \in pooled
    /\ Exists(a)
    /\ rows[a].total < MaxTotal
    /\ rows' = [rows EXCEPT ![a].total = @ + 1]
    /\ UNCHANGED <<ids, start, pools, pc, locals, history>>

-----------------------------------------------------------------------------
Operation(t) ==
    \/ \E a \in Accounts, k \in Tokens, on \in BOOLEAN : Create(t, a, k, on)
    \/ \E a \in Accounts, k \in Tokens \cup {NoToken}, switch \in {"keep", "on", "off"} :
         UpdateGet(t, a, k, switch)
    \/ UpdateWrite(t)
    \/ \E a \in Accounts : ValidateGet(t, a) \/ MarkInvalid(t, a) \/ Delete(t, a)
    \/ \E status \in Statuses : UpdateValidation(t, status)
    \/ List(t)
    \/ Sync(t)
    \/ Fail(t)

Next ==
    \/ Boot \/ Serve \/ Exit
    \/ \E k \in Tokens, a \in Accounts : Import(k, a)
    \/ \E t \in Threads : Operation(t)
    \/ \E a \in Accounts : Count(a)

Spec == Init /\ [][Next]_vars

-----------------------------------------------------------------------------
(* Properties.                                                             *)

\* While no write waits for its list and no list for its SyncAccounts, the pools
\* are those of the accounts that are enabled and not invalid: after a start
\* whatever the process died of, and else unless an operation left its write
\* unlisted or a list was overtaken, until the next list is applied.
PoolsFollowRows ==
    process = "up" /\ stale = "no" /\ Syncing = {} /\ (\A t \in unlisted : pc[t] = "idle") =>
      \A a \in Accounts :
        IF Exists(a) /\ rows[a].enabled /\ rows[a].status = "usable"
        THEN active[a] = rows[a].token
        ELSE active[a] = NoToken

\* A deleted account does not come back, not even by an update that read its
\* row before and writes it after, nor by a check that ends after.
DeletedStaysDeleted ==
    [][\A a \in ids : rows[a] = NoRow => rows'[a] = NoRow]_vars

\* A write no list has seen is that of an operation on its way to its list.
WritersGoOn == \A t \in unlisted : pc[t] \in {"get", "checking", "listing"}

\* The lists under way are ordered by when they were read.
ListsOrdered ==
    \A t \in Threads :
      /\ before[t] \subseteq Syncing
      /\ t \notin Syncing => before[t] = {}
      /\ t \notin before[t]
      /\ \A u \in before[t] : t \notin before[u] /\ before[u] \subseteq before[t]

\* When a list should not be applied, no older one should.
BehindIsOld == behind \subseteq Syncing /\ \A t \in behind : before[t] \subseteq behind

\* The last list that was read has every write.
LastListComplete ==
    unlisted = {} =>
      \A t \in Syncing \ behind : (\A u \in Syncing : t \notin before[u]) => list[t] = Desired

\* When no list that should be applied is left, the pools have every write.
PoolsComplete ==
    process = "up" /\ stale = "no" /\ unlisted = {} /\ Syncing \subseteq behind => active = Desired

\* The inductive invariant of the proofs in AccountSyncProofs.
SyncInv ==
    /\ TypeOK
    /\ process # "up" => \A t \in Threads : pc[t] = "idle"
    /\ WritersGoOn
    /\ ListsOrdered
    /\ BehindIsOld
    /\ LastListComplete
    /\ PoolsComplete

\* What the console says of an account that was switched off: it is out of
\* service, once every operation has come to its end.  It does not hold.
DisabledIsOut ==
    process = "up" /\ stale # "skipped" /\ (\A t \in Threads : pc[t] = "idle") =>
      \A a \in Accounts : Exists(a) /\ ~rows[a].enabled => active[a] = NoToken

\* What the console calls the counters of an account: cumulative.  It does not
\* hold: an update writes back the counters it has read.
CountersGrow ==
    [][\A a \in Accounts : rows[a] # NoRow /\ rows'[a] # NoRow =>
         rows'[a].total >= rows[a].total]_vars

=============================================================================
