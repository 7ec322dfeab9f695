----------------------------- MODULE Execution -----------------------------
(***************************************************************************)
(* The team execution store (crates/awr-team-pg/src/execution.rs) on top   *)
(* of the lease store: attempts at a task, their dispatch through the      *)
(* outbox, reports, cancellation and reconciliation, and the resource      *)
(* reservations they protect (graph.rs).                                   *)
(*                                                                         *)
(* The operations share the lease store's project lock, so each is one     *)
(* action.  Delivery of a dispatch happens outside the transaction; how    *)
(* the executor treats it is the business of module Runner.                *)
(***************************************************************************)
EXTENDS Lease, Sequences

CONSTANTS
  ExecutionIds,   \* identifiers of executions (and of their effect keys)
  SystemActors,   \* the actors whose kind is 'system'
  ReportKinds,    \* receipt kinds callers use
  PathReports,    \* what a report may say it touched
  Digests,        \* output digests a report may carry
  Resources,      \* normalised resource bounds
  Conflicts,      \* the pairs resources_conflict answers true for
  MaxAttempts     \* bound on the delivery attempts of a dispatch

ASSUME ExecutionAssumption ==
  /\ SystemActors \subseteq Actors
  /\ ReportKinds \subseteq {"caller_asserted", "trusted_executor", "reconcile"}
  /\ PathReports \subseteq {"inside", "outside"}
  /\ "null" \notin Digests
  /\ Conflicts \subseteq Resources \X Resources
  /\ \A x \in Resources : <<x, x>> \in Conflicts
  /\ \A x, y \in Resources : <<x, y>> \in Conflicts => <<y, x>> \in Conflicts
  /\ MaxAttempts \in Nat

VARIABLES
  epoch,          \* projects.coordinator_epoch
  executions,     \* table executions
  outbox,         \* table outbox: the one dispatch of each execution
  queue,          \* executions in the order of their outbox rows' available_at
  receipts,       \* table execution_receipts: who reported what kind
  reservations    \* table resource_reservations: the live row of each bound

execVars == <<epoch, executions, outbox, queue, receipts, reservations>>
vars == <<leaseVars, execVars>>

----------------------------------------------------------------------------
(* Rows. *)

Terminal == {"succeeded", "failed", "cancelled"}
Dispatchable == {"prepared", "queued", "accepted", "running"}
ExecutionState == Dispatchable \cup Terminal \cup {"unknown"}

\* paths and digest are the nullable observed_paths_json and result_digest.
ExecutionRow ==
  [state : ExecutionState, task : Task, claim : ClaimIds,
   fence : Nat, executor : Actors, epoch : Nat, cancelRequested : BOOLEAN,
   paths : {"null", "inside", "outside"}, digest : {"null"} \cup Digests]
NoExecution == [state |-> "none"]

OutboxRow == [state : {"none", "pending", "sending", "delivered", "failed"}, attempts : Nat]
OpenDispatch == {"pending", "sending"}

\* A bound that was never reserved has no row, and so no work.
ReservationRow == [state : {"free", "reserved", "unknown"}, work : Works \cup {"null"}]

PrepareHash == [op : {"execution.prepare"}, claim : ClaimIds, executor : Actors]
CancelHash == [op : {"execution.cancel"}, execution : ExecutionIds]
ExecutionResult == [execution : ExecutionIds, state : ExecutionState]
ExecutionReceipt ==
  [hash : PrepareHash \cup CancelHash, result : ExecutionResult, revision : Nat]

----------------------------------------------------------------------------
(* Reads. *)



\* The unresolved attempts at a work item, in whatever scope.
Unknowns(w) ==
  {e \in ExecutionIds : executions[e].state = "unknown" /\ WorkOf(executions[e].task) = w}

\* The dispatch of e is open, and e is alive.
Deliverable(e) ==
  outbox[e].state \in OpenDispatch /\ executions[e].state \in Dispatchable

\* Mutant: the fence is compared with the execution's own, not with the task's.
MutAdmitOwnFence(e, fence) == fence = executions[e].fence

\* admit_live_fence with the reads transition makes for it.
AdmitLiveFence(e, fence) ==
  /\ fence > 0
  /\ fence = executions[e].fence
  /\ fence = runtime[executions[e].task].lastFence
  /\ Unexpired(executions[e].claim)

----------------------------------------------------------------------------
(* Operations. *)

\* execution.prepare: the holder of an unexpired claim plans one attempt.
Prepare(a, k, r, c, executor) ==
  LET t == claims[c].task IN
  /\ NewRequest(<<a, k, r>>)
  /\ Unexpired(c)
  /\ claims[c].actor = a
  /\ ~ runtime[t].recoveryBlocked
  /\ Unknowns(WorkOf(t)) = {}
  /\ EmitFrom(revision)
  /\ \E e \in ExecutionIds :
       /\ Free(executions, e)
       /\ executions' = [executions EXCEPT ![e] =
            [state |-> "prepared", task |-> t, claim |-> c, fence |-> claims[c].fence,
             executor |-> executor, epoch |-> epoch, cancelRequested |-> FALSE,
             paths |-> "null", digest |-> "null"]]
       /\ outbox' = [outbox EXCEPT ![e] = [state |-> "pending", attempts |-> 0]]
       /\ queue' = Append(queue, e)
       /\ StoreOperation(<<a, k, r>>,
            [op |-> "execution.prepare", claim |-> c, executor |-> executor],
            [execution |-> e, state |-> "prepared"], revision')
  /\ UNCHANGED <<now, sessions, claims, runtime, waits, feed, epoch, receipts, reservations>>

\* claim_dispatch: take the oldest open dispatch, a sending one included, so an
\* unacknowledged delivery is made again before any newer one.
ClaimDispatch ==
  /\ \E i \in DOMAIN queue :
     LET e == queue[i] IN
     /\ Deliverable(e) /\ \A j \in 1 .. i - 1 : ~ Deliverable(queue[j])
     /\ outbox[e].attempts < MaxAttempts
     /\ outbox' = [outbox EXCEPT ![e] = [state |-> "sending", attempts |-> @.attempts + 1]]
     /\ executions' = [executions EXCEPT ![e].state = IF @ = "prepared" THEN "queued" ELSE @]
  /\ UNCHANGED <<leaseVars, epoch, queue, receipts, reservations>>

AckDispatch(e) ==
  /\ outbox[e].state = "sending"
  /\ outbox' = [outbox EXCEPT ![e].state = "delivered"]
  /\ UNCHANGED <<leaseVars, epoch, executions, queue, receipts, reservations>>

\* transition, the common part of accept and start; a call that finds the
\* execution already in its target state changes nothing.
Transition(e, fence, allowed, next) ==
  /\ executions[e].state \in allowed
  /\ ~ runtime[executions[e].task].recoveryBlocked
  /\ executions[e].epoch = epoch
  /\ AdmitLiveFence(e, fence)
  /\ executions[e].state # next
  /\ EmitFrom(revision)
  /\ executions' = [executions EXCEPT ![e].state = next]
  /\ UNCHANGED <<now, sessions, claims, runtime, waits, operations, feed,
                 epoch, outbox, queue, receipts, reservations>>

Accept(e, fence) == Transition(e, fence, {"prepared", "queued", "accepted"}, "accepted")
Start(e, fence) == Transition(e, fence, {"accepted", "running"}, "running")

\* Mutant: a dispatch under way is left to whoever took it.
MutClosedDispatch(state) == IF state = "pending" THEN "failed" ELSE state

\* The dispatch of an execution that must not be delivered any more.
ClosedDispatch(state) == IF state \in OpenDispatch THEN "failed" ELSE state

\* execution.cancel: an attempt nobody has accepted is cancelled, any other one
\* is only asked to stop; either way its dispatch is closed.
Cancel(a, k, r, e) ==
  LET early == executions[e].state \in {"prepared", "queued"}
      next == IF early THEN "cancelled" ELSE executions[e].state
  IN
  /\ NewRequest(<<a, k, r>>)
  /\ ~ Free(executions, e)
  /\ EmitFrom(revision)
  /\ executions' = [executions EXCEPT
       ![e].state = next, ![e].cancelRequested = @ \/ ~ early]
  /\ outbox' = [outbox EXCEPT ![e].state = ClosedDispatch(@)]
  /\ StoreOperation(<<a, k, r>>, [op |-> "execution.cancel", execution |-> e],
       [execution |-> e, state |-> next], revision')
  /\ UNCHANGED <<now, sessions, claims, runtime, waits, feed, epoch, queue, receipts, reservations>>

InsertReceipt(e, a, kind) ==
  receipts' = [receipts EXCEPT ![e] = @ \cup {[reporter |-> a, kind |-> kind]}]

\* Who may report: trusted_executor is the delegated system actor's alone.
MayReport(a, kind, e) ==
  /\ kind = "trusted_executor" => a \in SystemActors /\ a = executions[e].executor
  /\ kind = "reconcile" => a \in SystemActors

\* report on a terminal execution: its facts stand.  A late cancellation sets
\* the flag, a report with the same facts is a replay, and any other one is
\* kept as an audit receipt.
ReportLate(a, kind, e, outcome, paths, digest) ==
  /\ executions[e].state \in Terminal
  /\ MayReport(a, kind, e)
  /\ \/ /\ outcome = "cancelled"
        /\ InsertReceipt(e, a, kind)
        /\ executions' = [executions EXCEPT ![e].cancelRequested = TRUE]
        /\ IF executions[e].cancelRequested THEN UNCHANGED revision ELSE EmitFrom(revision)
     \/ /\ outcome # "cancelled"
        /\ ~ /\ outcome = executions[e].state
             /\ executions[e].paths # "null"
             /\ executions[e].paths = paths
             /\ executions[e].digest = digest
        /\ InsertReceipt(e, a, kind)
        /\ UNCHANGED <<revision, executions>>
  /\ UNCHANGED <<now, sessions, claims, runtime, waits, operations, feed,
                 epoch, outbox, queue, reservations>>

\* The state an ordinary report leads to: only an attempt not yet accepted, or
\* one whose executor was running, can be reported as stopped.
ReportedState(current, outcome) ==
  IF outcome = "cancelled" /\ current \notin {"prepared", "queued", "running"}
  THEN current ELSE outcome

\* Mutant: a late report overwrites a settled execution.
MutReportAny(e) == ~ Free(executions, e)

\* report takes this branch for every execution that has not settled.
Unsettled(e) == ~ Free(executions, e) /\ executions[e].state \notin Terminal

\* Unknown effects block the task and taint the work's reservations.
BlockTask(t) == runtime' = [runtime EXCEPT ![t].recoveryBlocked = TRUE]
TaintReservations(w) ==
  reservations' = [x \in Resources |->
    IF reservations[x].state = "reserved" /\ reservations[x].work = w
    THEN [reservations[x] EXCEPT !.state = "unknown"] ELSE reservations[x]]

\* report on a live or unknown execution.
Report(a, kind, e, outcome, paths, digest) ==
  LET row == executions[e]
      exceeded == outcome = "succeeded" /\ paths = "outside"
      next == ReportedState(row.state, outcome)
  IN
  /\ Unsettled(e)
  /\ MayReport(a, kind, e)
  /\ InsertReceipt(e, a, kind)
  /\ EmitFrom(revision)
  /\ \/ /\ exceeded
        /\ executions' = [executions EXCEPT ![e] =
             [row EXCEPT !.state = "failed", !.paths = paths]]
        /\ UNCHANGED <<runtime, reservations>>
     \/ /\ ~ exceeded
        /\ executions' = [executions EXCEPT ![e] =
             [row EXCEPT !.state = next, !.paths = paths, !.digest = digest,
                         !.cancelRequested = @ \/ outcome = "cancelled"]]
        /\ IF next = "unknown"
           THEN BlockTask(row.task) /\ TaintReservations(WorkOf(row.task))
           ELSE UNCHANGED <<runtime, reservations>>
  /\ UNCHANGED <<now, sessions, claims, waits, operations, feed, epoch, outbox, queue>>

\* Mutant: the other unresolved attempts are not counted.
MutClearAlways(e) == TRUE

\* A reconcile may lift the block only if no other attempt is unresolved.
MayClear(e) == Unknowns(WorkOf(executions[e].task)) \subseteq {e}

\* reconcile: a system actor settles an execution in any state.  Clearing the
\* block while another execution of the work is unknown rolls everything back.
Reconcile(a, e, terminal, clear) ==
  LET t == executions[e].task
      lift == clear /\ terminal # "unknown"
  IN
  /\ ~ Free(executions, e)
  /\ a \in SystemActors
  /\ lift => MayClear(e)
  /\ EmitFrom(revision)
  /\ InsertReceipt(e, a, "reconcile")
  /\ executions' = [executions EXCEPT ![e].state = terminal]
  /\ runtime' = IF lift THEN [runtime EXCEPT ![t].recoveryBlocked = FALSE] ELSE runtime
  /\ reservations' = IF lift
       THEN [x \in Resources |->
               IF reservations[x].state = "unknown" /\ reservations[x].work = WorkOf(t)
               THEN [reservations[x] EXCEPT !.state = "free"] ELSE reservations[x]]
       ELSE reservations
  /\ UNCHANGED <<now, sessions, claims, waits, operations, feed, epoch, outbox, queue>>

\* Mutant: the conflict scan forgets reservations whose effects are unknown.
MutReservedOnly == {y \in Resources : reservations[y].state = "reserved"}

\* The rows the conflict scan of reserve_bound reads.
LiveReservations == {y \in Resources : reservations[y].state \in {"reserved", "unknown"}}

\* reserve_bound: no live reservation may conflict, of the same work either.
Reserve(w, x) ==
  /\ \A y \in LiveReservations : <<x, y>> \notin Conflicts
  /\ reservations' = [reservations EXCEPT ![x] = [state |-> "reserved", work |-> w]]
  /\ UNCHANGED <<leaseVars, epoch, executions, outbox, queue, receipts>>

----------------------------------------------------------------------------

ExecInit ==
  /\ LeaseInit
  /\ epoch = 0
  /\ executions = [e \in ExecutionIds |-> NoExecution]
  /\ outbox = [e \in ExecutionIds |-> [state |-> "none", attempts |-> 0]]
  /\ queue = <<>>
  /\ receipts = [e \in ExecutionIds |-> {}]
  /\ reservations = [x \in Resources |-> [state |-> "free", work |-> "null"]]

Outcomes == {"succeeded", "failed", "unknown", "cancelled"}

ExecOperations ==
  \/ \E a \in Actors, k \in Clients, r \in RequestIds, c \in ClaimIds, x \in Actors :
       Prepare(a, k, r, c, x)
  \/ ClaimDispatch
  \/ \E e \in ExecutionIds : AckDispatch(e)
  \/ \E e \in ExecutionIds, fence \in 1 .. MaxRevision :
       Accept(e, fence) \/ Start(e, fence)
  \/ \E a \in Actors, k \in Clients, r \in RequestIds, e \in ExecutionIds : Cancel(a, k, r, e)
  \/ \E a \in Actors, kind \in ReportKinds, e \in ExecutionIds, outcome \in Outcomes,
        paths \in PathReports, digest \in {"null"} \cup Digests :
       \/ Report(a, kind, e, outcome, paths, digest)
       \/ ReportLate(a, kind, e, outcome, paths, digest)
  \/ \E a \in Actors, e \in ExecutionIds, terminal \in Outcomes, clear \in BOOLEAN :
       Reconcile(a, e, terminal, clear)
  \/ \E w \in Works, x \in Resources : Reserve(w, x)

ExecNext ==
  \/ ExecOperations
  \/ LeaseNext /\ UNCHANGED execVars

ExecSpec == ExecInit /\ [][ExecNext]_vars
----------------------------------------------------------------------------
(* Properties. *)

ExecTypeOK ==
  /\ now \in Nat /\ revision \in Nat /\ epoch \in Nat
  /\ claims \in [ClaimIds -> ClaimRow \cup {NoClaim}]
  /\ runtime \in [Task -> [lastFence : Nat, recoveryBlocked : BOOLEAN]]
  /\ operations \in [RequestKey -> Receipt \cup ExecutionReceipt \cup {NoReceipt}]
  /\ executions \in [ExecutionIds -> ExecutionRow \cup {NoExecution}]
  /\ outbox \in [ExecutionIds -> OutboxRow]
  /\ queue \in Seq(ExecutionIds)
  /\ receipts \in [ExecutionIds -> SUBSET [reporter : Actors,
        kind : {"caller_asserted", "trusted_executor", "reconcile"}]]
  /\ reservations \in [Resources -> ReservationRow]

\* Live reservations never conflict, those with unknown effects included.
ReservationsExclusive ==
  \A x, y \in Resources :
    x # y /\ reservations[x].state # "free" /\ reservations[y].state # "free"
      => <<x, y>> \notin Conflicts

\* An executor is admitted only under the newest lease of its task.
AdmissionInOrder ==
  \A e \in ExecutionIds :
     /\ executions[e].state # executions'[e].state
     /\ executions'[e].state \in {"accepted", "running"}
     => /\ claims[executions[e].claim].state = "active"
        /\ \A d \in ExecutionIds :
             ~ Free(executions, d) /\ executions[d].task = executions[e].task =>
               executions[d].fence <= executions[e].fence

\* Admission follows the fences: when an executor is admitted, no attempt at
\* the task was planned under a newer lease, and its own lease is still held.
AdmissionsFollowFences == [][AdmissionInOrder]_vars

\* A caller was told that execution e is cancelled, or asked to stop.
Cancelled(e) ==
  \E key \in RequestKey :
     /\ operations[key] # NoReceipt
     /\ operations[key].hash = [op |-> "execution.cancel", execution |-> e]

\* A cancelled execution is not delivered again, and lives on only with an
\* executor that had taken it up before and finds the request in its row.
CancelKept ==
  \A e \in ExecutionIds : Cancelled(e) =>
     /\ outbox'[e].attempts = outbox[e].attempts
     /\ executions'[e].state \in Dispatchable =>
          executions[e].state \in {"accepted", "running"} /\ executions'[e].cancelRequested

\* An answered cancel is final, whatever follows: a delivery whose
\* acknowledgement was lost, an executor that accepts late, a report, a
\* reconcile ("must not be dispatched again", execution.rs).
CancelsAreFinal == [][CancelKept]_vars

\* A tainted reservation is freed only when its work is resolved.
ReleaseWhenResolved ==
  \A x \in Resources :
     reservations[x].state = "unknown" /\ reservations'[x].state # "unknown" =>
       \A e \in ExecutionIds :
         ~ Free(executions', e) /\ WorkOf(executions'[e].task) = reservations[x].work =>
           executions'[e].state # "unknown"

\* A reservation with unknown effects is released only by a step that leaves no
\* attempt at its work unresolved.
UnknownKeepsResources == [][ReleaseWhenResolved]_vars

\* The facts of a settled execution outlive the step.
SettledFactsKept ==
  \A e \in ExecutionIds :
     executions[e].state \in Terminal =>
       /\ executions'[e].paths = executions[e].paths
       /\ executions'[e].digest = executions[e].digest
       /\ executions'[e].state # executions[e].state =>
            \E a \in SystemActors :
              [reporter |-> a, kind |-> "reconcile"] \in receipts'[e]

\* A settled execution keeps its facts, and changes its state only if a system
\* actor has filed a reconcile receipt for it: ordinary late reports alone are
\* kept as evidence only.
SettledFactsStand == [][SettledFactsKept]_vars

=============================================================================
