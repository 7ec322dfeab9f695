------------------------------ MODULE Project ------------------------------
(***************************************************************************)
(* The lifecycle of a team project (crates/awr-team-pg/src/import.rs,      *)
(* ImportStore) on top of the lease and execution stores: freeze, staged   *)
(* import, activation, backup and restore, each of which holds the project *)
(* row like every other operation.                                         *)
(*                                                                         *)
(* A physical backup is the operator's business: here it is a copy of the  *)
(* project's tables taken when the backup is registered, and a restore     *)
(* finds either those tables or the present ones.  What was done after the *)
(* backup is then forgotten by the database, not by the world, which is    *)
(* what the coordinator epoch is for.                                      *)
(***************************************************************************)
EXTENDS Execution

CONSTANTS
  Jobs,          \* import jobs, one for each import key and manifest
  CompleteJobs,  \* those whose manifest misses neither evidence nor contracts
  Backups,       \* identifiers of backups
  MaxEpoch,      \* bound on the epochs minted
  NoJob          \* no active snapshot

ASSUME ProjectAssumption ==
  /\ CompleteJobs \subseteq Jobs
  /\ MaxEpoch \in Nat
  /\ NoJob \notin Jobs

VARIABLES
  status,        \* projects.status
  jobs,          \* import_jobs.state
  snapshot,      \* projects.active_snapshot_id, by the job that staged it
  saved,         \* the registered backups, with the operator's physical copies
  minted,        \* how many epochs new_id() has made, here or in a forgotten past
  granted        \* the fencing tokens handed out, likewise (not part of the code)

lifecycleVars == <<status, jobs, snapshot, saved, minted, granted>>
projectVars == <<vars, lifecycleVars>>

----------------------------------------------------------------------------
(* Backups. *)

Inventory == [staged |-> {j \in Jobs : jobs[j] # "none"}, active |-> snapshot]

\* The tables once the registration of a backup has emitted its event.
Tables(rev) ==
  [revision |-> rev, sessions |-> sessions, claims |-> claims, runtime |-> runtime,
   waits |-> waits, operations |-> operations, feed |-> feed, executions |-> executions,
   outbox |-> outbox, queue |-> queue, receipts |-> receipts, reservations |-> reservations,
   jobs |-> jobs, snapshot |-> snapshot, inventory |-> Inventory]

NoBackup == [inventory |-> "none"]

----------------------------------------------------------------------------
(* Lifecycle operations. *)

Freeze ==
  /\ status = "active"
  /\ status' = "frozen"
  /\ EmitFrom(revision)
  /\ UNCHANGED <<now, sessions, claims, runtime, waits, operations, feed, execVars,
                 jobs, snapshot, saved, minted, granted>>

\* load stages a manifest; a repeated one is a replay.
Load(j) ==
  /\ jobs[j] = "none"
  /\ status = "frozen"
  /\ jobs' = [jobs EXCEPT ![j] = "loaded"]
  /\ status' = "importing"
  /\ EmitFrom(revision)
  /\ UNCHANGED <<now, sessions, claims, runtime, waits, operations, feed, execVars,
                 snapshot, saved, minted, granted>>

\* What forbids an activation.
Unresolved ==
  \/ \E e \in ExecutionIds : executions[e].state \in Dispatchable \cup {"unknown"}
  \/ \E t \in Task : runtime[t].recoveryBlocked
  \/ \E c \in ClaimIds : claims[c].state = "active"

\* Mutant: the project goes on under the epoch of the backup.
MutKeepEpoch == epoch' = epoch /\ minted' = minted

\* A new coordinator epoch, unlike any before.
MintEpoch ==
  /\ minted < MaxEpoch
  /\ minted' = minted + 1
  /\ epoch' = minted + 1

\* activate: the staged import becomes the project, under a new epoch.
Activate(j) ==
  /\ jobs[j] = "loaded"
  /\ status = "importing"
  /\ j \in CompleteJobs
  /\ ~ Unresolved
  /\ MintEpoch
  /\ status' = "active"
  /\ snapshot' = j
  /\ jobs' = [jobs EXCEPT ![j] = "activated"]
  /\ EmitFrom(revision)
  /\ UNCHANGED <<now, sessions, claims, runtime, waits, operations, feed,
                 executions, outbox, queue, receipts, reservations, saved, granted>>

\* backup registers an inventory, in whatever status the project is.
Backup(b) ==
  /\ saved[b] = NoBackup
  /\ EmitFrom(revision)
  /\ saved' = [saved EXCEPT ![b] = Tables(revision')]
  /\ UNCHANGED <<now, sessions, claims, runtime, waits, operations, feed, execVars,
                 status, jobs, snapshot, minted, granted>>

\* Mutant: dispatches not yet accepted are thought to be without effect.
MutRestoredExecution(row) ==
  IF row.state \in {"accepted", "running"}
  THEN [row EXCEPT !.state = "unknown", !.cancelRequested = TRUE] ELSE row

\* Delivered or not, the effects of a live attempt are uncertain.
RestoredExecution(row) ==
  IF row.state \in Dispatchable
  THEN [row EXCEPT !.state = "unknown", !.cancelRequested = TRUE] ELSE row

RestoredClaim(row) ==
  IF row.state = "active" THEN [row EXCEPT !.state = "revoked", !.version = @ + 1] ELSE row

RestoredSession(row) ==
  IF row.state = "active" THEN [row EXCEPT !.state = "interrupted"] ELSE row

RestoredRuntime(row) == [lastFence |-> row.lastFence + 1, recoveryBlocked |-> TRUE]

RestoredReservation(row) ==
  IF row.state = "reserved" THEN [row EXCEPT !.state = "unknown"] ELSE row

\* Tasks with a work_runtime row; a task nobody has touched may have none.
HasRow(row) == row.lastFence > 0 \/ row.recoveryBlocked

\* restore, on the tables the operator has put in place: everything granted
\* before is revoked, and an inventory that differs from the backup's leaves
\* the project degraded.
Restore(b, tables, present) ==
  /\ saved[b] # NoBackup
  /\ MintEpoch
  /\ EmitFrom(tables.revision)
  /\ executions' = [e \in ExecutionIds |-> RestoredExecution(tables.executions[e])]
  /\ claims' = [c \in ClaimIds |-> RestoredClaim(tables.claims[c])]
  /\ sessions' = [s \in SessionIds |-> RestoredSession(tables.sessions[s])]
  /\ \E rows \in SUBSET Task :
       /\ \A t \in Task : HasRow(tables.runtime[t]) => t \in rows
       /\ runtime' = [t \in Task |-> IF t \in rows THEN RestoredRuntime(tables.runtime[t])
                                                   ELSE tables.runtime[t]]
  /\ reservations' = [x \in Resources |-> RestoredReservation(tables.reservations[x])]
  /\ outbox' = [e \in ExecutionIds |->
                  [tables.outbox[e] EXCEPT !.state = ClosedDispatch(@)]]
  /\ status' = IF present /\ tables.inventory = saved[b].inventory
               THEN "active" ELSE "degraded"
  /\ jobs' = tables.jobs
  /\ snapshot' = tables.snapshot
  /\ waits' = tables.waits
  /\ operations' = tables.operations
  /\ feed' = tables.feed
  /\ queue' = tables.queue
  /\ receipts' = tables.receipts
  /\ UNCHANGED <<now, saved, granted>>

\* An ordinary write needs an active project; a new claim is a new token.
OrdinaryWrite ==
  /\ status = "active"
  /\ ExecNext
  /\ granted' = granted \cup
       {<<epoch, claims'[c].task, claims'[c].fence>> :
          c \in {d \in ClaimIds : Free(claims, d) /\ ~ Free(claims', d)}}
  /\ UNCHANGED <<status, jobs, snapshot, saved, minted>>

----------------------------------------------------------------------------

ProjectInit ==
  /\ ExecInit
  /\ status = "active"
  /\ jobs = [j \in Jobs |-> "none"]
  /\ snapshot = NoJob
  /\ saved = [b \in Backups |-> NoBackup]
  /\ minted = 0
  /\ granted = {}

Lifecycle ==
  \/ Freeze
  \/ \E j \in Jobs : Load(j) \/ Activate(j)
  \/ \E b \in Backups : Backup(b)
  \/ \E b \in Backups, present \in BOOLEAN :
       \/ Restore(b, Tables(revision), present)
       \/ Restore(b, saved[b], present)

ProjectNext ==
  \/ OrdinaryWrite
  \/ Lifecycle
  \/ Tick /\ UNCHANGED <<execVars, lifecycleVars>>

ProjectSpec == ProjectInit /\ [][ProjectNext]_projectVars
----------------------------------------------------------------------------
(* Properties. *)

ProjectTypeOK ==
  /\ status \in {"active", "frozen", "importing", "degraded"}
  /\ jobs \in [Jobs -> {"none", "loaded", "activated"}]
  /\ snapshot \in Jobs \cup {NoJob}
  /\ minted \in Nat /\ epoch \in 0 .. minted
  /\ granted \subseteq (0 .. minted) \X Task \X Nat
  /\ \A s \in SessionIds : sessions[s].state \in {"none", "active", "ended", "interrupted"}
  /\ claims \in [ClaimIds -> ClaimRow \cup {NoClaim}]
  /\ executions \in [ExecutionIds -> ExecutionRow \cup {NoExecution}]

\* No authority survives a change of epoch: every active lease was granted
\* under the present epoch, and an attempt of an earlier one has settled or is
\* known to be uncertain, whether the epoch ended by activation or by restore.
AuthorityIsCurrent ==
  /\ \A c \in ClaimIds : claims[c].state = "active" =>
       <<epoch, claims[c].task, claims[c].fence>> \in granted
  /\ \A e \in ExecutionIds : ~ Free(executions, e) /\ executions[e].epoch # epoch =>
       executions[e].state \in Terminal \cup {"unknown"}

\* A new lease has a token that nobody was ever given.
TokenIsNew ==
  \A c \in ClaimIds :
    Free(claims, c) /\ claims'[c].state = "active" =>
      <<epoch', claims'[c].task, claims'[c].fence>> \notin granted

\* A fencing token, the pair of an epoch and a fence on a task, is granted at
\* most once in the life of the project, the leases that a restore made the
\* database forget included: fences alone repeat after a restore.
TokensNeverReissued == [][TokenIsNew]_projectVars

=============================================================================
