--------------------------- MODULE ProjectProofs ---------------------------
(* Proofs about the execution store on top of the lease store, and about    *)
(* the lifecycle of a project: what import, backup and restore leave of the *)
(* promises of the two stores, and that no authority survives a change of   *)
(* epoch.                                                                   *)
EXTENDS Project, LeaseProofs

----------------------------------------------------------------------------
(* What an operation of the lease store leaves to the execution store. *)

\* No operation of the lease store deletes a claim row or changes its task or
\* its fence.
LEMMA ClaimRowsStay ==
  ASSUME LeaseCore, [LeaseNext]_leaseVars, NEW d \in ClaimIds, ~ Free(claims, d)
  PROVE  /\ ~ Free(claims', d)
         /\ claims'[d].task = claims[d].task /\ claims'[d].fence = claims[d].fence
<1> DEFINE Kept == /\ ~ Free(claims', d)
                   /\ claims'[d].task = claims[d].task /\ claims'[d].fence = claims[d].fence
<1>1. claims[d] \in ClaimRow /\ claims \in [ClaimIds -> ClaimRow \cup {NoClaim}] /\ TablesOK
  BY DEF LeaseCore, TablesOK, Free, NoClaim
<1>2. ASSUME NEW t \in Task
      PROVE  /\ Swept(t) \in [ClaimIds -> ClaimRow \cup {NoClaim}] /\ ~ Free(Swept(t), d)
             /\ Swept(t)[d].task = claims[d].task /\ Swept(t)[d].fence = claims[d].fence
             /\ Swept(t)[d] \in ClaimRow
  <2>1. Swept(t) \in [ClaimIds -> ClaimRow \cup {NoClaim}]
    BY <1>1, SweptType
  <2>2. \/ Swept(t)[d] = claims[d]
        \/ SameLease(Swept(t)[d], claims[d]) /\ Swept(t)[d].state = "expired"
    BY <1>1, SweptClaim
  <2> QED
    BY <1>1, <2>1, <2>2 DEF SameLease, Free
<1>3. CASE UNCHANGED claims
  BY <1>3 DEF Free
<1>4. ASSUME NEW s \in SessionIds, NEW a \in Actors, NEW k \in Clients, NEW r \in RequestIds,
             NEW ttl \in TTLs, Claim(s, a, k, r, ttl)
      PROVE  Kept
  <2> DEFINE t == sessions[s].task
  <2>1. sessions[s] \in SessionRow
    BY <1>4 DEF LeaseCore, TablesOK, Claim, NoSession
  <2>2. t \in Task
    BY <2>1 DEF SessionRow
  <2>3. PICK c \in ClaimIds :
          /\ Free(claims, c)
          /\ claims' = [Swept(t) EXCEPT ![c] =
                          [state |-> "active", task |-> t, session |-> s, actor |-> a,
                           fence |-> NextFence(t), version |-> 1, expires |-> now + ttl]]
    BY <1>4 DEF Claim
  <2>4. claims'[d] = Swept(t)[d]
    BY <1>2, <2>2, <2>3
  <2> QED
    BY <1>2, <2>2, <2>4 DEF Free
<1>5. ASSUME NEW c \in ClaimIds, NEW a \in Actors, NEW k \in Clients, NEW r \in RequestIds,
             NEW ttl \in TTLs, Renew(c, a, k, r, ttl)
      PROVE  Kept
  <2> DEFINE t == claims[c].task
             version == claims[c].version + 1
  <2>1. /\ claims' = [Swept(t) EXCEPT ![c].version = version, ![c].expires = now + ttl]
        /\ ~ Free(claims, c)
    BY <1>5 DEF Renew
  <2>2. t \in Task /\ version \in Nat /\ now + ttl \in Nat
    BY <1>1, <2>1, LeaseAssumption DEF Free, NoClaim, ClaimRow, TablesOK
  <2>3. CASE c # d
    BY <1>2, <2>1, <2>2, <2>3 DEF Free
  <2>4. CASE c = d
    <3>1. claims'[d] = [[Swept(t)[d] EXCEPT !.version = version] EXCEPT !.expires = now + ttl]
      BY <1>2, <2>1, <2>2, <2>4
    <3> DEFINE new == [[Swept(t)[d] EXCEPT !.version = version] EXCEPT !.expires = now + ttl]
    <3>2. SameLease(new, Swept(t)[d]) /\ new.state = Swept(t)[d].state
      BY <1>2, <2>2, ExtendedLease
    <3>3. claims'[d] = new
      BY <3>1
    <3> HIDE DEF new, t
    <3> QED
      BY <1>2, <2>2, <3>2, <3>3 DEF SameLease, Free
  <2> QED
    BY <2>3, <2>4
<1>6. ASSUME NEW c \in ClaimIds, NEW a \in Actors, Release(c, a) PROVE Kept
  BY <1>1, <1>6 DEF Release, ClaimRow, Free
<1>7. ASSUME NEW t \in Task, ExpireDue(t) PROVE Kept
  BY <1>2, <1>7 DEF ExpireDue, Free
<1>8. ASSUME NEW c \in ClaimIds, NEW a \in Actors, NEW successor \in Actors, NEW k \in Clients,
             Handoff(c, a, successor, k)
      PROVE  Kept
  <2> DEFINE t == claims[c].task
  <2>1. PICK s2 \in SessionIds, c2 \in ClaimIds :
          /\ Free(claims, c2)
          /\ claims' = [Swept(t) EXCEPT
               ![c].state = "handed_off",
               ![c2] = [state |-> "active", task |-> t, session |-> s2, actor |-> successor,
                        fence |-> NextFence(t), version |-> 1, expires |-> now + HandoffTTL]]
    BY <1>8 DEF Handoff
  <2>2. ~ Free(claims, c) /\ d # c2
    BY <1>8, <2>1 DEF Handoff
  <2>3. t \in Task
    BY <1>1, <2>2 DEF Free, NoClaim, ClaimRow
  <2>4. CASE c # d
    BY <1>2, <2>1, <2>2, <2>3, <2>4 DEF Free
  <2>5. CASE c = d
    <3>1. claims'[d] = [Swept(t)[d] EXCEPT !.state = "handed_off"]
      BY <1>2, <2>1, <2>2, <2>3, <2>5
    <3>2. SameLease(claims'[d], Swept(t)[d]) /\ claims'[d].state = "handed_off"
      BY <1>2, <2>3, <3>1, HandedOffLease
    <3> QED
      BY <1>2, <2>3, <3>2 DEF SameLease, Free
  <2> QED
    BY <2>4, <2>5
<1> QED
  BY <1>3, <1>4, <1>5, <1>6, <1>7, <1>8
     DEF LeaseNext, leaseVars, StartSession, OpenWait, Reply, SetRecoveryBlocked, Tick

\* An operation of the lease store stores at most one receipt, of its own kind.
LEMMA LeaseStoresReceipt ==
  ASSUME LeaseCore, TablesOK', [LeaseNext]_leaseVars
  PROVE  \/ UNCHANGED operations
         \/ \E key \in RequestKey, row \in Receipt :
              operations' = [operations EXCEPT ![key] = row]
<1> DEFINE Stored == \E key \in RequestKey, row \in Receipt :
                       operations' = [operations EXCEPT ![key] = row]
<1>1. ASSUME NEW s \in SessionIds, NEW a \in Actors, NEW k \in Clients, NEW r \in RequestIds,
             NEW ttl \in TTLs, Claim(s, a, k, r, ttl)
      PROVE  Stored
  <2> DEFINE t == sessions[s].task
             hash == [op |-> "claim.acquire", session |-> s, ttl |-> ttl]
             result(c) == [claim |-> c, fence |-> NextFence(t), version |-> 1, expires |-> now + ttl]
  <2>1. PICK c \in ClaimIds : StoreOperation(<<a, k, r>>, hash, result(c), revision')
    BY <1>1 DEF Claim
  <2>2. sessions[s] \in SessionRow
    BY <1>1 DEF LeaseCore, TablesOK, Claim, NoSession
  <2>3. NextFence(t) \in Nat /\ now + ttl \in Nat /\ revision' \in Nat
    BY <2>2, LeaseAssumption DEF LeaseCore, TablesOK, NextFence, SessionRow
  <2>4. hash \in AcquireHash /\ result(c) \in ClaimResult
    BY <2>3 DEF AcquireHash, ClaimResult
  <2> HIDE DEF hash, result
  <2>5. [hash |-> hash, result |-> result(c), revision |-> revision'] \in Receipt
    BY <2>3, <2>4 DEF Receipt
  <2> QED
    BY <2>1, <2>5 DEF StoreOperation, RequestKey
<1>2. ASSUME NEW c \in ClaimIds, NEW a \in Actors, NEW k \in Clients, NEW r \in RequestIds,
             NEW ttl \in TTLs, Renew(c, a, k, r, ttl)
      PROVE  Stored
  <2> DEFINE hash == [op |-> "claim.renew", claim |-> c, ttl |-> ttl]
             result == [claim |-> c, fence |-> claims[c].fence,
                        version |-> claims[c].version + 1, expires |-> now + ttl]
  <2>1. StoreOperation(<<a, k, r>>, hash, result, revision') /\ ~ Free(claims, c)
    BY <1>2 DEF Renew
  <2>2. claims[c] \in ClaimRow /\ now + ttl \in Nat /\ revision' \in Nat
    BY <2>1, LeaseAssumption DEF LeaseCore, TablesOK, Free, NoClaim
  <2>3. hash \in RenewHash /\ result \in ClaimResult
    BY <2>2 DEF RenewHash, ClaimResult, ClaimRow
  <2> HIDE DEF hash, result
  <2>4. [hash |-> hash, result |-> result, revision |-> revision'] \in Receipt
    BY <2>2, <2>3 DEF Receipt
  <2> QED
    BY <2>1, <2>4 DEF StoreOperation, RequestKey
<1> QED
  BY <1>1, <1>2 DEF LeaseNext, leaseVars, StartSession, Release, ExpireDue, Handoff, OpenWait,
                    Reply, SetRecoveryBlocked, Tick

----------------------------------------------------------------------------
(* The inductive invariant.  Admission compares fences that were copied when *)
(* the attempt was planned, so the copies must agree with the claim rows.    *)

ExecTablesOK ==
  /\ epoch \in Nat
  /\ operations \in [RequestKey -> Receipt \cup ExecutionReceipt \cup {NoReceipt}]
  /\ executions \in [ExecutionIds -> ExecutionRow \cup {NoExecution}]
  /\ outbox \in [ExecutionIds -> OutboxRow]
  /\ queue \in Seq(ExecutionIds)
  /\ receipts \in [ExecutionIds -> SUBSET [reporter : Actors,
        kind : {"caller_asserted", "trusted_executor", "reconcile"}]]
  /\ reservations \in [Resources -> ReservationRow]

AttemptsFollowClaims ==
  \A e \in ExecutionIds : ~ Free(executions, e) =>
    LET c == executions[e].claim IN
    /\ ~ Free(claims, c)
    /\ executions[e].task = claims[c].task /\ executions[e].fence = claims[c].fence

ExecInv ==
  /\ LeaseCore
  /\ ExecTablesOK
  /\ AttemptsFollowClaims
  /\ ReservationsExclusive

\* An attempt keeps what it was planned with.
SamePlan(new, old) ==
  /\ new \in ExecutionRow /\ old \in ExecutionRow
  /\ new.task = old.task /\ new.claim = old.claim /\ new.fence = old.fence

\* Setting the state of an execution keeps everything else.
LEMMA StateSet ==
  ASSUME NEW row \in ExecutionRow, NEW st \in ExecutionState
  PROVE  LET new == [row EXCEPT !.state = st] IN
         /\ SamePlan(new, row) /\ new.state = st
         /\ new.paths = row.paths /\ new.digest = row.digest
  BY DEF ExecutionRow, SamePlan

\* Setting the cancellation flag keeps everything else.
LEMMA CancelSet ==
  ASSUME NEW row \in ExecutionRow, NEW flag \in BOOLEAN
  PROVE  LET new == [row EXCEPT !.cancelRequested = flag] IN
         /\ SamePlan(new, row) /\ new.state = row.state
         /\ new.paths = row.paths /\ new.digest = row.digest
  BY DEF ExecutionRow, SamePlan

\* Recording what a report observed keeps the plan.
LEMMA FactsSet ==
  ASSUME NEW row \in ExecutionRow, NEW p \in {"null", "inside", "outside"},
         NEW g \in {"null"} \cup Digests
  PROVE  /\ SamePlan([row EXCEPT !.paths = p], row)
         /\ [row EXCEPT !.paths = p].state = row.state
         /\ SamePlan([row EXCEPT !.digest = g], row)
         /\ [row EXCEPT !.digest = g].state = row.state
  BY DEF ExecutionRow, SamePlan

LEMMA PlanRow ==
  ASSUME ExecInv, NEW e \in ExecutionIds, ~ Free(executions, e)
  PROVE  executions[e] \in ExecutionRow
  BY DEF ExecInv, ExecTablesOK, Free, NoExecution

\* Steps that keep claims, plan nothing and keep the plan of every attempt.
LEMMA AttemptsEvolve ==
  ASSUME ExecInv, UNCHANGED claims,
         \A d \in ExecutionIds :
           executions'[d] = executions[d] \/ SamePlan(executions'[d], executions[d])
  PROVE  AttemptsFollowClaims'
<1>1. \A d \in ExecutionIds : SamePlan(executions'[d], executions[d]) => ~ Free(executions, d)
  BY DEF SamePlan, ExecutionRow, ExecutionState, Free, Dispatchable, Terminal
<1> QED
  BY <1>1 DEF ExecInv, AttemptsFollowClaims, SamePlan, Free

\* Operations of the execution store touch no claim, no session and no fence.
LEMMA LeaseTablesKept ==
  ASSUME LeaseCore, UNCHANGED <<now, claims, sessions, waits, feed>>, revision' \in Nat,
         \/ UNCHANGED runtime
         \/ \E t \in Task, b \in BOOLEAN : runtime' = [runtime EXCEPT ![t].recoveryBlocked = b]
  PROVE  LeaseCore'
<1>1. runtime' \in [Task -> [lastFence : Nat, recoveryBlocked : BOOLEAN]]
  BY DEF LeaseCore, TablesOK
<1>2. \A t \in Task : runtime'[t].lastFence = runtime[t].lastFence
  BY DEF LeaseCore, TablesOK
<1>3. TablesOK'
  BY <1>1 DEF LeaseCore, TablesOK
<1> QED
  BY <1>2, <1>3, ClaimsUntouched DEF LeaseKept

LEMMA EmitType ==
  ASSUME LeaseCore, EmitFrom(revision)
  PROVE  revision' \in Nat
  BY DEF LeaseCore, TablesOK, EmitFrom

LEMMA PrepareInv ==
  ASSUME ExecInv, NEW a \in Actors, NEW k \in Clients, NEW r \in RequestIds,
         NEW c \in ClaimIds, NEW executor \in Actors, Prepare(a, k, r, c, executor)
  PROVE  ExecInv'
<1> DEFINE t == claims[c].task
           row == [state |-> "prepared", task |-> t, claim |-> c, fence |-> claims[c].fence,
                   executor |-> executor, epoch |-> epoch, cancelRequested |-> FALSE,
                   paths |-> "null", digest |-> "null"]
           hash == [op |-> "execution.prepare", claim |-> c, executor |-> executor]
           result(e) == [execution |-> e, state |-> "prepared"]
<1>1. PICK e \in ExecutionIds :
        /\ Free(executions, e)
        /\ executions' = [executions EXCEPT ![e] = row]
        /\ outbox' = [outbox EXCEPT ![e] = [state |-> "pending", attempts |-> 0]]
        /\ queue' = Append(queue, e)
        /\ StoreOperation(<<a, k, r>>, hash, result(e), revision')
  BY DEF Prepare
<1>2. claims[c] \in ClaimRow /\ ~ Free(claims, c)
  BY DEF Prepare, Unexpired, ExecInv, LeaseCore, TablesOK, NoClaim, Free
<1>3. row \in ExecutionRow
  BY <1>2 DEF ExecutionRow, ExecutionState, ClaimRow, ExecInv, ExecTablesOK, Dispatchable
<1>4. /\ UNCHANGED <<now, sessions, claims, runtime, waits, feed, epoch, receipts, reservations>>
      /\ EmitFrom(revision)
  BY DEF Prepare
<1>5. revision' \in Nat /\ LeaseCore'
  BY <1>4, EmitType, LeaseTablesKept DEF ExecInv
<1>6. ExecTablesOK'
  <2>1. hash \in PrepareHash /\ result(e) \in ExecutionResult
    BY DEF PrepareHash, ExecutionResult, ExecutionState, Dispatchable
  <2>2. <<a, k, r>> \in RequestKey
    BY DEF RequestKey
  <2> HIDE DEF hash, result
  <2>3. [hash |-> hash, result |-> result(e), revision |-> revision'] \in ExecutionReceipt
    BY <1>5, <2>1 DEF ExecutionReceipt
  <2>4. operations' \in [RequestKey -> Receipt \cup ExecutionReceipt \cup {NoReceipt}]
    BY <1>1, <2>2, <2>3 DEF StoreOperation, ExecInv, ExecTablesOK
  <2>5. executions' \in [ExecutionIds -> ExecutionRow \cup {NoExecution}]
    BY <1>1, <1>3 DEF ExecInv, ExecTablesOK
  <2>6. outbox' \in [ExecutionIds -> OutboxRow] /\ queue' \in Seq(ExecutionIds)
    BY <1>1 DEF ExecInv, ExecTablesOK, OutboxRow
  <2> QED
    BY <1>4, <2>4, <2>5, <2>6 DEF ExecInv, ExecTablesOK
<1>7. AttemptsFollowClaims'
  <2>1. /\ executions'[e].claim = c /\ executions'[e].task = claims[c].task
        /\ executions'[e].fence = claims[c].fence
        /\ \A d \in ExecutionIds \ {e} : executions'[d] = executions[d]
    BY <1>1 DEF ExecInv, ExecTablesOK
  <2> QED
    BY <1>2, <1>4, <2>1 DEF ExecInv, AttemptsFollowClaims, Free
<1>8. ReservationsExclusive'
  BY <1>4 DEF ExecInv, ReservationsExclusive
<1> QED
  BY <1>5, <1>6, <1>7, <1>8 DEF ExecInv

\* A step that plans nothing, admits nobody, settles only what was live and
\* frees no tainted reservation.
LEMMA PlainStep ==
  ASSUME ExecInv,
         \A d \in ExecutionIds :
           \/ executions'[d] = executions[d]
           \/ /\ SamePlan(executions'[d], executions[d])
              /\ \/ executions'[d].state = executions[d].state
                 \/ executions'[d].state \notin {"accepted", "running"}
              /\ executions[d].state \in Terminal =>
                   /\ executions'[d].state = executions[d].state
                   /\ executions'[d].paths = executions[d].paths
                   /\ executions'[d].digest = executions[d].digest,
         \A x \in Resources : reservations[x].state = "unknown" => reservations'[x].state = "unknown"
  PROVE  AdmissionInOrder /\ ReleaseWhenResolved /\ SettledFactsKept
<1>1. \A d \in ExecutionIds : SamePlan(executions'[d], executions[d]) => ~ Free(executions, d)
  BY DEF SamePlan, ExecutionRow, ExecutionState, Free, Dispatchable, Terminal
<1>2. AdmissionInOrder
  BY DEF AdmissionInOrder
<1>3. ReleaseWhenResolved
  BY <1>1 DEF ReleaseWhenResolved
<1>4. SettledFactsKept
  BY DEF SettledFactsKept
<1> QED
  BY <1>2, <1>3, <1>4

\* Steps that keep the lease tables, the reservations and the plans.
LEMMA PlansKept ==
  ASSUME ExecInv, LeaseCore', ExecTablesOK', UNCHANGED <<claims, reservations>>,
         \A d \in ExecutionIds :
           executions'[d] = executions[d] \/ SamePlan(executions'[d], executions[d])
  PROVE  ExecInv'
<1>1. AttemptsFollowClaims'
  BY AttemptsEvolve
<1>2. ReservationsExclusive'
  BY DEF ExecInv, ReservationsExclusive
<1> QED
  BY <1>1, <1>2 DEF ExecInv

StepKept == AdmissionInOrder /\ ReleaseWhenResolved /\ SettledFactsKept

LEMMA PrepareStep ==
  ASSUME ExecInv, NEW a \in Actors, NEW k \in Clients, NEW r \in RequestIds,
         NEW c \in ClaimIds, NEW executor \in Actors, Prepare(a, k, r, c, executor)
  PROVE  StepKept
<1>1. PICK e \in ExecutionIds :
        /\ Free(executions, e)
        /\ executions' = [executions EXCEPT ![e] =
             [state |-> "prepared", task |-> claims[c].task, claim |-> c,
              fence |-> claims[c].fence, executor |-> executor, epoch |-> epoch,
              cancelRequested |-> FALSE, paths |-> "null", digest |-> "null"]]
  BY DEF Prepare
<1>2. /\ executions'[e].state = "prepared" /\ executions'[e].task = claims[c].task
      /\ \A d \in ExecutionIds \ {e} : executions'[d] = executions[d]
  BY <1>1 DEF ExecInv, ExecTablesOK
<1>3. UNCHANGED reservations
  BY DEF Prepare
<1> QED
  BY <1>1, <1>2, <1>3
     DEF StepKept, AdmissionInOrder, ReleaseWhenResolved, SettledFactsKept, Free, Terminal

\* The dispatch of e is taken.
DispatchTaken(e) ==
  /\ e \in ExecutionIds /\ Deliverable(e)
  /\ outbox' = [outbox EXCEPT ![e] = [state |-> "sending", attempts |-> @.attempts + 1]]
  /\ executions' = [executions EXCEPT ![e].state = IF @ = "prepared" THEN "queued" ELSE @]
  /\ UNCHANGED <<leaseVars, epoch, queue, receipts, reservations>>

LEMMA ClaimedDispatch ==
  ASSUME ExecInv, ClaimDispatch
  PROVE  \E e : DispatchTaken(e)
<1>1. PICK i \in DOMAIN queue :
        LET e == queue[i] IN
        /\ Deliverable(e)
        /\ outbox' = [outbox EXCEPT ![e] = [state |-> "sending", attempts |-> @.attempts + 1]]
        /\ executions' = [executions EXCEPT ![e].state = IF @ = "prepared" THEN "queued" ELSE @]
  BY DEF ClaimDispatch
<1>2. queue[i] \in ExecutionIds
  BY DEF ExecInv, ExecTablesOK
<1>3. UNCHANGED <<leaseVars, epoch, queue, receipts, reservations>>
  BY DEF ClaimDispatch
<1> QED
  BY <1>1, <1>2, <1>3 DEF DispatchTaken

LEMMA ClaimDispatchStep ==
  ASSUME ExecInv, ClaimDispatch
  PROVE  ExecInv' /\ StepKept
<1>0. PICK e : DispatchTaken(e)
  BY ClaimedDispatch
<1> DEFINE st == IF executions[e].state = "prepared" THEN "queued" ELSE executions[e].state
<1>1. /\ outbox' = [outbox EXCEPT ![e] = [state |-> "sending", attempts |-> @.attempts + 1]]
      /\ executions' = [executions EXCEPT ![e].state = st]
      /\ UNCHANGED <<leaseVars, epoch, queue, receipts, reservations>>
  BY <1>0 DEF DispatchTaken
<1>2. /\ executions \in [ExecutionIds -> ExecutionRow \cup {NoExecution}]
      /\ outbox \in [ExecutionIds -> OutboxRow]
  BY DEF ExecInv, ExecTablesOK
<1>3. ASSUME NEW d \in ExecutionIds
      PROVE  \/ executions'[d] = executions[d]
             \/ /\ SamePlan(executions'[d], executions[d])
                /\ executions'[d].state \in {executions[d].state, "queued"}
                /\ executions'[d].paths = executions[d].paths
                /\ executions'[d].digest = executions[d].digest
                /\ executions[d].state \in Terminal => executions'[d].state = executions[d].state
  <2>1. CASE d # e
    BY <1>1, <1>2, <2>1
  <2>2. CASE d = e /\ executions[d] \in ExecutionRow
    <3>1. executions'[d] = [executions[d] EXCEPT !.state = st]
      BY <1>1, <1>2, <2>2
    <3>2. st \in ExecutionState /\ st \in {executions[d].state, "queued"}
          /\ (executions[d].state \in Terminal => st = executions[d].state)
      BY <2>2 DEF ExecutionRow, ExecutionState, Dispatchable, Terminal
    <3> HIDE DEF st
    <3> QED
      BY <2>2, <3>1, <3>2, StateSet
  <2>3. CASE d = e /\ executions[d] = NoExecution
    <3>1. executions'[d] = [NoExecution EXCEPT !.state = "none"]
      BY <1>1, <1>2, <2>3 DEF NoExecution
    <3> QED
      BY <2>3, <3>1 DEF NoExecution
  <2> QED
    BY <1>2, <2>1, <2>2, <2>3
<1>4. executions' \in [ExecutionIds -> ExecutionRow \cup {NoExecution}]
  BY <1>1, <1>2, <1>3 DEF SamePlan
<1>5. outbox' \in [ExecutionIds -> OutboxRow]
  <2>1. ASSUME e \in ExecutionIds
        PROVE  [state |-> "sending", attempts |-> outbox[e].attempts + 1] \in OutboxRow
    BY <1>2, <2>1 DEF OutboxRow
  <2> QED
    BY <1>1, <1>2, <2>1
<1>6. LeaseCore'
  BY <1>1, LeaseTablesKept DEF leaseVars, ExecInv, LeaseCore, TablesOK
<1>7. ExecTablesOK'
  BY <1>1, <1>4, <1>5 DEF ExecInv, ExecTablesOK, leaseVars
<1>8. ExecInv'
  BY <1>1, <1>3, <1>6, <1>7, PlansKept DEF leaseVars
<1>9. StepKept
  BY <1>1, <1>3, PlainStep DEF StepKept
<1> QED
  BY <1>8, <1>9

LEMMA AckDispatchStep ==
  ASSUME ExecInv, NEW e \in ExecutionIds, AckDispatch(e)
  PROVE  ExecInv' /\ StepKept
<1>1. /\ outbox' = [outbox EXCEPT ![e].state = "delivered"]
      /\ UNCHANGED <<leaseVars, epoch, executions, queue, receipts, reservations>>
  BY DEF AckDispatch
<1>2. outbox' \in [ExecutionIds -> OutboxRow]
  BY <1>1 DEF ExecInv, ExecTablesOK, OutboxRow
<1>3. LeaseCore'
  BY <1>1, LeaseTablesKept DEF leaseVars, ExecInv, LeaseCore, TablesOK
<1>4. ExecTablesOK'
  BY <1>1, <1>2 DEF ExecInv, ExecTablesOK, leaseVars
<1> QED
  BY <1>1, <1>3, <1>4, PlansKept, PlainStep DEF StepKept, leaseVars

\* The fence compared with the task's counter bounds every attempt's fence.
LEMMA FencesBounded ==
  ASSUME ExecInv, NEW d \in ExecutionIds, ~ Free(executions, d)
  PROVE  executions[d].fence <= runtime[executions[d].task].lastFence
<1>1. executions[d] \in ExecutionRow
  BY PlanRow
<1>2. /\ executions[d].claim \in ClaimIds /\ ~ Free(claims, executions[d].claim)
      /\ executions[d].task = claims[executions[d].claim].task
      /\ executions[d].fence = claims[executions[d].claim].fence
  BY <1>1 DEF ExecInv, AttemptsFollowClaims, ExecutionRow
<1>3. /\ claims[executions[d].claim].fence \in 1 .. runtime[executions[d].task].lastFence
      /\ runtime[executions[d].task].lastFence \in Nat
  BY <1>1, <1>2 DEF ExecInv, LeaseCore, FencesOrdered, TablesOK, ExecutionRow
<1> QED
  BY <1>2, <1>3

LEMMA TransitionStep ==
  ASSUME ExecInv, NEW e \in ExecutionIds, NEW fence,
         NEW allowed \in SUBSET Dispatchable, NEW next \in {"accepted", "running"},
         Transition(e, fence, allowed, next)
  PROVE  ExecInv' /\ StepKept
<1>1. /\ executions[e].state \in Dispatchable
      /\ executions' = [executions EXCEPT ![e].state = next]
      /\ EmitFrom(revision) /\ AdmitLiveFence(e, fence)
      /\ UNCHANGED <<now, sessions, claims, runtime, waits, operations, feed,
                     epoch, outbox, queue, receipts, reservations>>
  BY DEF Transition
<1>2. executions[e] \in ExecutionRow
  BY <1>1, PlanRow DEF Dispatchable, Free
<1>3. /\ executions'[e] = [executions[e] EXCEPT !.state = next]
      /\ \A d \in ExecutionIds \ {e} : executions'[d] = executions[d]
  BY <1>1 DEF ExecInv, ExecTablesOK
<1>4. /\ SamePlan(executions'[e], executions[e])
      /\ executions'[e].state = next
  <2>1. next \in ExecutionState
    BY DEF ExecutionState, Dispatchable
  <2> QED
    BY <1>2, <1>3, <2>1, StateSet
<1>5. LeaseCore'
  BY <1>1, EmitType, LeaseTablesKept DEF ExecInv
<1>6. ExecTablesOK'
  <2>1. executions' \in [ExecutionIds -> ExecutionRow \cup {NoExecution}]
    BY <1>1, <1>3, <1>4 DEF ExecInv, ExecTablesOK, SamePlan
  <2> QED
    BY <1>1, <2>1 DEF ExecInv, ExecTablesOK
<1>7. ExecInv'
  BY <1>1, <1>3, <1>4, <1>5, <1>6, PlansKept
<1>8. AdmissionInOrder
  <2>1. /\ executions[e].fence = runtime[executions[e].task].lastFence
        /\ claims[executions[e].claim].state = "active"
    BY <1>1 DEF AdmitLiveFence, Unexpired
  <2>2. \A d \in ExecutionIds :
          ~ Free(executions, d) /\ executions[d].task = executions[e].task =>
            executions[d].fence <= executions[e].fence
    BY <2>1, FencesBounded
  <2> QED
    BY <1>3, <2>1, <2>2 DEF AdmissionInOrder
<1>9. ReleaseWhenResolved /\ SettledFactsKept
  BY <1>1, <1>3, <1>4
     DEF ReleaseWhenResolved, SettledFactsKept, Free, Dispatchable, Terminal
<1> QED
  BY <1>7, <1>8, <1>9 DEF StepKept

LEMMA CancelStep ==
  ASSUME ExecInv, NEW a \in Actors, NEW k \in Clients, NEW r \in RequestIds,
         NEW e \in ExecutionIds, Cancel(a, k, r, e)
  PROVE  ExecInv' /\ StepKept
<1> DEFINE early == executions[e].state \in {"prepared", "queued"}
           next == IF early THEN "cancelled" ELSE executions[e].state
           flag == executions[e].cancelRequested \/ ~ early
           mid == [executions[e] EXCEPT !.state = next]
           hash == [op |-> "execution.cancel", execution |-> e]
           result == [execution |-> e, state |-> next]
<1>1. /\ ~ Free(executions, e) /\ EmitFrom(revision)
      /\ executions' = [executions EXCEPT ![e].state = next, ![e].cancelRequested = @ \/ ~ early]
      /\ outbox' = [outbox EXCEPT ![e].state = ClosedDispatch(@)]
      /\ StoreOperation(<<a, k, r>>, hash, result, revision')
      /\ UNCHANGED <<now, sessions, claims, runtime, waits, feed, epoch, queue, receipts, reservations>>
  BY DEF Cancel
<1>2. executions[e] \in ExecutionRow /\ executions \in [ExecutionIds -> ExecutionRow \cup {NoExecution}]
  BY <1>1, PlanRow DEF ExecInv, ExecTablesOK
<1>3. next \in ExecutionState /\ next \notin {"prepared", "queued"}
      /\ (next = executions[e].state \/ next = "cancelled")
      /\ (executions[e].state \in Terminal => next = executions[e].state)
  BY <1>2 DEF ExecutionRow, ExecutionState, Terminal
<1>4. flag \in BOOLEAN
  OBVIOUS
<1>5. /\ executions'[e] = [mid EXCEPT !.cancelRequested = mid.cancelRequested \/ ~ early]
      /\ \A d \in ExecutionIds \ {e} : executions'[d] = executions[d]
  BY <1>1, <1>2
<1> HIDE DEF next, early, flag
<1>6. /\ SamePlan(mid, executions[e]) /\ mid.state = next
      /\ mid.paths = executions[e].paths /\ mid.digest = executions[e].digest
  BY <1>2, <1>3, StateSet
<1> HIDE DEF mid
<1>7. LET new == [mid EXCEPT !.cancelRequested = mid.cancelRequested \/ ~ early] IN
      /\ SamePlan(new, mid) /\ new.state = mid.state
      /\ new.paths = mid.paths /\ new.digest = mid.digest
  <2>1. mid \in ExecutionRow /\ (mid.cancelRequested \/ ~ early) \in BOOLEAN
    BY <1>6 DEF SamePlan
  <2> QED
    BY <2>1, CancelSet
<1>8. /\ SamePlan(executions'[e], executions[e]) /\ executions'[e].state = next
      /\ executions'[e].paths = executions[e].paths /\ executions'[e].digest = executions[e].digest
  BY <1>5, <1>6, <1>7 DEF SamePlan
<1>9. revision' \in Nat /\ LeaseCore'
  BY <1>1, EmitType, LeaseTablesKept DEF ExecInv
<1>10. ExecTablesOK'
  <2>1. hash \in CancelHash /\ result \in ExecutionResult /\ <<a, k, r>> \in RequestKey
    BY <1>3 DEF CancelHash, ExecutionResult, RequestKey
  <2> HIDE DEF hash, result
  <2>2. [hash |-> hash, result |-> result, revision |-> revision'] \in ExecutionReceipt
    BY <1>9, <2>1 DEF ExecutionReceipt
  <2>3. operations' \in [RequestKey -> Receipt \cup ExecutionReceipt \cup {NoReceipt}]
    BY <1>1, <2>1, <2>2 DEF StoreOperation, ExecInv, ExecTablesOK
  <2>4. executions' \in [ExecutionIds -> ExecutionRow \cup {NoExecution}]
    BY <1>1, <1>2, <1>5, <1>8 DEF SamePlan
  <2>5. outbox' \in [ExecutionIds -> OutboxRow]
    BY <1>1 DEF ExecInv, ExecTablesOK, OutboxRow, ClosedDispatch
  <2> QED
    BY <1>1, <2>3, <2>4, <2>5 DEF ExecInv, ExecTablesOK
<1>11. ExecInv'
  BY <1>1, <1>5, <1>8, <1>9, <1>10, PlansKept
<1>12. StepKept
  BY <1>1, <1>3, <1>5, <1>8, PlainStep DEF StepKept
<1> QED
  BY <1>11, <1>12

LEMMA ReceiptsType ==
  ASSUME ExecInv, NEW e \in ExecutionIds, NEW a \in Actors,
         NEW kind \in {"caller_asserted", "trusted_executor", "reconcile"},
         InsertReceipt(e, a, kind)
  PROVE  /\ receipts' \in [ExecutionIds -> SUBSET [reporter : Actors,
              kind : {"caller_asserted", "trusted_executor", "reconcile"}]]
         /\ [reporter |-> a, kind |-> kind] \in receipts'[e]
  BY DEF ExecInv, ExecTablesOK, InsertReceipt

LEMMA ReportLateStep ==
  ASSUME ExecInv, NEW a \in Actors, NEW kind \in ReportKinds, NEW e \in ExecutionIds,
         NEW outcome, NEW paths, NEW digest, ReportLate(a, kind, e, outcome, paths, digest)
  PROVE  ExecInv' /\ StepKept
<1>1. /\ executions[e].state \in Terminal /\ InsertReceipt(e, a, kind)
      /\ UNCHANGED <<now, sessions, claims, runtime, waits, operations, feed,
                     epoch, outbox, queue, reservations>>
      /\ UNCHANGED executions \/ executions' = [executions EXCEPT ![e].cancelRequested = TRUE]
      /\ UNCHANGED revision \/ EmitFrom(revision)
  BY DEF ReportLate
<1>2. executions[e] \in ExecutionRow
  BY <1>1, PlanRow DEF Terminal, Free
<1>3. \A d \in ExecutionIds :
        \/ executions'[d] = executions[d]
        \/ /\ SamePlan(executions'[d], executions[d])
           /\ executions'[d].state = executions[d].state
           /\ executions'[d].paths = executions[d].paths
           /\ executions'[d].digest = executions[d].digest
  <2>1. \A d \in ExecutionIds : executions'[d] = executions[d] \/
           (d = e /\ executions'[d] = [executions[d] EXCEPT !.cancelRequested = TRUE])
    BY <1>1 DEF ExecInv, ExecTablesOK
  <2> QED
    BY <1>2, <2>1, CancelSet
<1>4. executions' \in [ExecutionIds -> ExecutionRow \cup {NoExecution}]
  BY <1>1, <1>3 DEF ExecInv, ExecTablesOK, SamePlan
<1>5. LeaseCore'
  BY <1>1, EmitType, LeaseTablesKept DEF ExecInv, LeaseCore, TablesOK
<1>6. ExecTablesOK'
  <2>1. receipts' \in [ExecutionIds -> SUBSET [reporter : Actors,
          kind : {"caller_asserted", "trusted_executor", "reconcile"}]]
    BY <1>1, ReceiptsType, ExecutionAssumption
  <2> QED
    BY <1>1, <1>4, <2>1 DEF ExecInv, ExecTablesOK
<1> QED
  BY <1>1, <1>3, <1>5, <1>6, PlansKept, PlainStep DEF StepKept

LEMMA TaintType ==
  ASSUME reservations \in [Resources -> ReservationRow], NEW w, TaintReservations(w)
  PROVE  /\ reservations' \in [Resources -> ReservationRow]
         /\ \A x \in Resources :
              /\ reservations'[x].state = "free" <=> reservations[x].state = "free"
              /\ reservations[x].state = "unknown" => reservations'[x].state = "unknown"
  BY DEF TaintReservations, ReservationRow

LEMMA ReportStep ==
  ASSUME ExecInv, NEW a \in Actors, NEW kind \in ReportKinds, NEW e \in ExecutionIds,
         NEW outcome \in Outcomes, NEW paths \in PathReports, NEW digest \in {"null"} \cup Digests,
         Report(a, kind, e, outcome, paths, digest)
  PROVE  ExecInv' /\ StepKept
<1> DEFINE row == executions[e]
           next == ReportedState(row.state, outcome)
           failed == [row EXCEPT !.state = "failed", !.paths = paths]
           reported == [row EXCEPT !.state = next, !.paths = paths, !.digest = digest,
                                   !.cancelRequested = @ \/ outcome = "cancelled"]
<1>1. /\ Unsettled(e) /\ InsertReceipt(e, a, kind) /\ EmitFrom(revision)
      /\ \/ /\ executions' = [executions EXCEPT ![e] = failed]
            /\ UNCHANGED <<runtime, reservations>>
         \/ /\ executions' = [executions EXCEPT ![e] = reported]
            /\ \/ BlockTask(row.task) /\ TaintReservations(WorkOf(row.task))
               \/ UNCHANGED <<runtime, reservations>>
      /\ UNCHANGED <<now, sessions, claims, waits, operations, feed, epoch, outbox, queue>>
  BY DEF Report
<1>2. row \in ExecutionRow /\ row.state \notin Terminal
  BY <1>1, PlanRow DEF Unsettled
<1>3. next \in ExecutionState /\ (next = row.state \/ next \notin {"accepted", "running"})
  BY <1>2 DEF ReportedState, Outcomes, ExecutionState, ExecutionRow, Terminal
<1>4. paths \in {"null", "inside", "outside"}
  BY ExecutionAssumption
<1>5. SamePlan(failed, row) /\ failed.state = "failed"
  <2> DEFINE f1 == [row EXCEPT !.state = "failed"]
  <2>1. SamePlan(f1, row) /\ f1.state = "failed"
    BY <1>2, StateSet DEF ExecutionState, Terminal
  <2>2. failed = [f1 EXCEPT !.paths = paths]
    BY <1>2 DEF ExecutionRow
  <2> HIDE DEF f1, failed
  <2>3. SamePlan(failed, f1) /\ failed.state = f1.state
    BY <1>4, <2>1, <2>2, FactsSet DEF SamePlan
  <2> QED
    BY <2>1, <2>3 DEF SamePlan
<1>6. SamePlan(reported, row) /\ reported.state = next
  <2> HIDE DEF next
  <2> DEFINE r1 == [row EXCEPT !.state = next]
             r2 == [r1 EXCEPT !.paths = paths]
             r3 == [r2 EXCEPT !.digest = digest]
             r4 == [r3 EXCEPT !.cancelRequested = @ \/ outcome = "cancelled"]
  <2>1. reported = r4
    OBVIOUS
  <2>2. SamePlan(r1, row) /\ r1.state = next
    BY <1>2, <1>3, StateSet
  <2> HIDE DEF r1, reported, row
  <2>3. SamePlan(r2, r1) /\ r2.state = r1.state
    BY <1>4, <2>2, FactsSet DEF SamePlan
  <2> HIDE DEF r2
  <2>4. SamePlan(r3, r2) /\ r3.state = r2.state
    BY <2>3, FactsSet DEF SamePlan
  <2> HIDE DEF r3
  <2>5. SamePlan(r4, r3) /\ r4.state = r3.state
    <3>1. (r3.cancelRequested \/ outcome = "cancelled") \in BOOLEAN
      OBVIOUS
    <3> QED
      BY <2>4, <3>1, CancelSet DEF SamePlan
  <2> QED
    BY <2>1, <2>2, <2>3, <2>4, <2>5 DEF SamePlan
<1> HIDE DEF row, next, failed, reported
<1>7. /\ SamePlan(executions'[e], executions[e])
      /\ executions'[e].state = executions[e].state \/ executions'[e].state \notin {"accepted", "running"}
      /\ \A d \in ExecutionIds \ {e} : executions'[d] = executions[d]
  <2>1. /\ executions'[e] \in {failed, reported}
        /\ \A d \in ExecutionIds \ {e} : executions'[d] = executions[d]
    BY <1>1 DEF ExecInv, ExecTablesOK
  <2> QED
    BY <1>3, <1>5, <1>6, <2>1 DEF row
<1>8. LeaseCore'
  <2>1. row.task \in Task
    BY <1>2 DEF ExecutionRow
  <2>2. \/ UNCHANGED runtime
        \/ runtime' = [runtime EXCEPT ![row.task].recoveryBlocked = TRUE]
    BY <1>1 DEF BlockTask
  <2> QED
    BY <1>1, <2>1, <2>2, EmitType, LeaseTablesKept DEF ExecInv
<1>9. /\ reservations' \in [Resources -> ReservationRow]
      /\ \A x \in Resources :
           /\ reservations'[x].state = "free" <=> reservations[x].state = "free"
           /\ reservations[x].state = "unknown" => reservations'[x].state = "unknown"
  BY <1>1, TaintType DEF ExecInv, ExecTablesOK
<1>10. ExecTablesOK'
  <2>1. executions' \in [ExecutionIds -> ExecutionRow \cup {NoExecution}]
    BY <1>1, <1>7 DEF ExecInv, ExecTablesOK, SamePlan
  <2>2. receipts' \in [ExecutionIds -> SUBSET [reporter : Actors,
          kind : {"caller_asserted", "trusted_executor", "reconcile"}]]
    BY <1>1, ReceiptsType, ExecutionAssumption
  <2> QED
    BY <1>1, <1>9, <2>1, <2>2 DEF ExecInv, ExecTablesOK
<1>11. AttemptsFollowClaims'
  BY <1>1, <1>7, AttemptsEvolve
<1>12. ReservationsExclusive'
  BY <1>9 DEF ExecInv, ReservationsExclusive
<1>13. StepKept
  BY <1>2, <1>7, <1>9, PlainStep DEF StepKept, row
<1> QED
  BY <1>8, <1>10, <1>11, <1>12, <1>13 DEF ExecInv

LEMMA ReconcileStep ==
  ASSUME ExecInv, NEW a \in Actors, NEW e \in ExecutionIds, NEW terminal \in Outcomes,
         NEW clear \in BOOLEAN, Reconcile(a, e, terminal, clear)
  PROVE  ExecInv' /\ StepKept
<1> DEFINE t == executions[e].task
           lift == clear /\ terminal # "unknown"
<1>1. /\ ~ Free(executions, e) /\ a \in SystemActors /\ (lift => MayClear(e)) /\ EmitFrom(revision)
      /\ InsertReceipt(e, a, "reconcile")
      /\ executions' = [executions EXCEPT ![e].state = terminal]
      /\ runtime' = IF lift THEN [runtime EXCEPT ![t].recoveryBlocked = FALSE] ELSE runtime
      /\ reservations' = IF lift
           THEN [x \in Resources |->
                   IF reservations[x].state = "unknown" /\ reservations[x].work = WorkOf(t)
                   THEN [reservations[x] EXCEPT !.state = "free"] ELSE reservations[x]]
           ELSE reservations
      /\ UNCHANGED <<now, sessions, claims, waits, operations, feed, epoch, outbox, queue>>
  BY DEF Reconcile
<1>2. executions[e] \in ExecutionRow
  BY <1>1, PlanRow
<1>3. /\ executions'[e] = [executions[e] EXCEPT !.state = terminal]
      /\ \A d \in ExecutionIds \ {e} : executions'[d] = executions[d]
  BY <1>1 DEF ExecInv, ExecTablesOK
<1>4. /\ SamePlan(executions'[e], executions[e]) /\ executions'[e].state = terminal
      /\ executions'[e].paths = executions[e].paths /\ executions'[e].digest = executions[e].digest
  <2>1. terminal \in ExecutionState
    BY DEF Outcomes, ExecutionState, Terminal
  <2> QED
    BY <1>2, <1>3, <2>1, StateSet
<1>5. LeaseCore'
  <2>1. t \in Task
    BY <1>2 DEF ExecutionRow
  <2>2. UNCHANGED runtime \/ runtime' = [runtime EXCEPT ![t].recoveryBlocked = FALSE]
    BY <1>1
  <2> QED
    BY <1>1, <2>1, <2>2, EmitType, LeaseTablesKept DEF ExecInv
<1>6. /\ reservations' \in [Resources -> ReservationRow]
      /\ \A x \in Resources :
           \/ reservations'[x] = reservations[x]
           \/ /\ lift /\ reservations[x].work = WorkOf(t) /\ reservations'[x].state = "free"
  BY <1>1 DEF ExecInv, ExecTablesOK, ReservationRow
<1>7. /\ receipts' \in [ExecutionIds -> SUBSET [reporter : Actors,
              kind : {"caller_asserted", "trusted_executor", "reconcile"}]]
      /\ [reporter |-> a, kind |-> "reconcile"] \in receipts'[e]
  BY <1>1, ReceiptsType
<1>8. ExecTablesOK'
  <2>1. executions' \in [ExecutionIds -> ExecutionRow \cup {NoExecution}]
    BY <1>1, <1>3, <1>4 DEF ExecInv, ExecTablesOK, SamePlan
  <2> QED
    BY <1>1, <1>6, <1>7, <2>1 DEF ExecInv, ExecTablesOK
<1>9. AttemptsFollowClaims'
  BY <1>1, <1>3, <1>4, AttemptsEvolve
<1>10. ReservationsExclusive'
  BY <1>6 DEF ExecInv, ReservationsExclusive
<1>11. AdmissionInOrder
  BY <1>1, <1>3, <1>4 DEF AdmissionInOrder, Outcomes
<1>12. SettledFactsKept
  BY <1>1, <1>3, <1>4, <1>7 DEF SettledFactsKept
<1>13. ReleaseWhenResolved
  <2>1. SUFFICES ASSUME NEW x \in Resources, reservations[x].state = "unknown",
                        reservations'[x].state # "unknown",
                        NEW d \in ExecutionIds, ~ Free(executions', d),
                        WorkOf(executions'[d].task) = reservations[x].work
                 PROVE  executions'[d].state # "unknown"
    BY DEF ReleaseWhenResolved
  <2>2. lift /\ reservations[x].work = WorkOf(t) /\ MayClear(e)
    BY <1>1, <1>6, <2>1
  <2>3. CASE d = e
    BY <1>4, <2>2, <2>3
  <2>4. CASE d # e
    BY <1>3, <2>1, <2>2, <2>4 DEF MayClear, Unknowns
  <2> QED
    BY <2>3, <2>4
<1> QED
  BY <1>5, <1>8, <1>9, <1>10, <1>11, <1>12, <1>13 DEF ExecInv, StepKept

LEMMA ReserveStep ==
  ASSUME ExecInv, NEW w \in Works, NEW x \in Resources, Reserve(w, x)
  PROVE  ExecInv' /\ StepKept
<1>1. /\ \A y \in Resources : reservations[y].state \in {"reserved", "unknown"} => <<x, y>> \notin Conflicts
      /\ reservations' = [reservations EXCEPT ![x] = [state |-> "reserved", work |-> w]]
      /\ UNCHANGED <<leaseVars, epoch, executions, outbox, queue, receipts>>
  BY DEF Reserve, LiveReservations
<1>2. reservations \in [Resources -> ReservationRow]
  BY DEF ExecInv, ExecTablesOK
<1>3. \A y \in Resources : reservations[y].state # "free" => <<x, y>> \notin Conflicts
  BY <1>1, <1>2 DEF ReservationRow
<1>4. reservations[x].state = "free"
  BY <1>3, ExecutionAssumption
<1>5. \A y \in Resources \ {x} : reservations'[y] = reservations[y]
  BY <1>1, <1>2
<1>6. ReservationsExclusive'
  BY <1>3, <1>5, ExecutionAssumption DEF ExecInv, ReservationsExclusive
<1>7. LeaseCore'
  BY <1>1, LeaseTablesKept DEF leaseVars, ExecInv, LeaseCore, TablesOK
<1>8. ExecTablesOK'
  BY <1>1, <1>2 DEF ExecInv, ExecTablesOK, leaseVars, ReservationRow
<1>9. AttemptsFollowClaims'
  BY <1>1, AttemptsEvolve DEF leaseVars
<1>10. StepKept
  BY <1>1, <1>4, <1>5, PlainStep DEF StepKept
<1> QED
  BY <1>6, <1>7, <1>8, <1>9, <1>10 DEF ExecInv

LEMMA LeaseStep ==
  ASSUME ExecInv, [LeaseNext]_leaseVars, UNCHANGED execVars
  PROVE  ExecInv' /\ StepKept
<1>1. LeaseCore'
  BY NextInv DEF ExecInv, LeaseKept
<1>2. operations' \in [RequestKey -> Receipt \cup ExecutionReceipt \cup {NoReceipt}]
  BY <1>1, LeaseStoresReceipt DEF ExecInv, LeaseCore, ExecTablesOK
<1>3. ExecTablesOK'
  BY <1>2 DEF ExecInv, ExecTablesOK, execVars
<1>4. AttemptsFollowClaims'
  <2>1. \A e \in ExecutionIds : ~ Free(executions, e) => executions[e].claim \in ClaimIds
    BY PlanRow DEF ExecutionRow
  <2> QED
    BY <2>1, ClaimRowsStay DEF ExecInv, AttemptsFollowClaims, execVars, Free
<1>5. ReservationsExclusive'
  BY DEF ExecInv, ReservationsExclusive, execVars
<1>6. StepKept
  BY PlainStep DEF StepKept, execVars
<1> QED
  BY <1>1, <1>3, <1>4, <1>5, <1>6 DEF ExecInv

LEMMA ExecStep ==
  ASSUME ExecInv, [ExecNext]_vars
  PROVE  ExecInv' /\ StepKept
<1>1. CASE UNCHANGED vars
  BY <1>1, LeaseStep DEF vars
<1>2. CASE LeaseNext /\ UNCHANGED execVars
  BY <1>2, LeaseStep
<1>3. CASE ExecOperations
  <2>1. ASSUME NEW e \in ExecutionIds, NEW fence \in 1 .. MaxRevision,
               Accept(e, fence) \/ Start(e, fence)
        PROVE  ExecInv' /\ StepKept
    BY <2>1, TransitionStep DEF Accept, Start, Dispatchable
  <2> QED
    BY <1>3, <2>1, PrepareInv, PrepareStep, ClaimDispatchStep, AckDispatchStep, CancelStep,
       ReportStep, ReportLateStep, ReconcileStep, ReserveStep DEF ExecOperations
<1> QED
  BY <1>1, <1>2, <1>3 DEF ExecNext

\* Operations of the execution store touch neither claims nor their events.
LEMMA ExecOperationsKeepClaims ==
  ASSUME ExecOperations
  PROVE  UNCHANGED <<now, sessions, claims, feed, epoch>>
<1> DEFINE Kept == UNCHANGED <<now, sessions, claims, feed, epoch>>
<1>1. \A a, k, r, c, x : Prepare(a, k, r, c, x) => Kept
  BY DEF Prepare
<1>2. ClaimDispatch => Kept
  BY DEF ClaimDispatch, leaseVars
<1>3. \A e : AckDispatch(e) => Kept
  BY DEF AckDispatch, leaseVars
<1>4. \A e, fence : Accept(e, fence) \/ Start(e, fence) => Kept
  BY DEF Accept, Start, Transition
<1>5. \A a, k, r, e : Cancel(a, k, r, e) => Kept
  BY DEF Cancel
<1>6. \A a, kind, e, outcome, paths, digest :
        \/ Report(a, kind, e, outcome, paths, digest)
        \/ ReportLate(a, kind, e, outcome, paths, digest)
        => Kept
  BY DEF Report, ReportLate
<1>7. \A a, e, terminal, clear : Reconcile(a, e, terminal, clear) => Kept
  BY DEF Reconcile
<1>8. \A w, x : Reserve(w, x) => Kept
  BY DEF Reserve, leaseVars
<1> HIDE DEF Kept
<1>9. Kept
  BY <1>1, <1>2, <1>3, <1>4, <1>5, <1>6, <1>7, <1>8 DEF ExecOperations
<1> QED
  BY <1>9 DEF Kept

\* Operations of the execution store touch no fence.
LEMMA ExecOperationsKeepFences ==
  ASSUME ExecInv, ExecOperations
  PROVE  \A t \in Task : runtime'[t].lastFence = runtime[t].lastFence
<1> DEFINE SameFences == \A t \in Task : runtime'[t].lastFence = runtime[t].lastFence
<1>1. runtime \in [Task -> [lastFence : Nat, recoveryBlocked : BOOLEAN]]
  BY DEF ExecInv, LeaseCore, TablesOK
<1>2. UNCHANGED runtime => SameFences
  OBVIOUS
<1>3. ASSUME NEW t, NEW b \in BOOLEAN, runtime' = [runtime EXCEPT ![t].recoveryBlocked = b]
      PROVE  SameFences
  BY <1>1, <1>3
<1> HIDE DEF SameFences
<1>4. \A a, k, r, c, x : Prepare(a, k, r, c, x) => SameFences
  BY <1>2 DEF Prepare
<1>5. ClaimDispatch \/ (\E e : AckDispatch(e)) \/ (\E w, x : Reserve(w, x)) => SameFences
  BY <1>2 DEF ClaimDispatch, AckDispatch, Reserve, leaseVars
<1>6. \A e, fence : Accept(e, fence) \/ Start(e, fence) => SameFences
  BY <1>2 DEF Accept, Start, Transition
<1>7. \A a, k, r, e : Cancel(a, k, r, e) => SameFences
  BY <1>2 DEF Cancel
<1>8. \A a, kind, e, outcome, paths, digest : Report(a, kind, e, outcome, paths, digest) => SameFences
  <2>1. \A t : BlockTask(t) => SameFences
    BY <1>3 DEF BlockTask
  <2> QED
    BY <1>2, <2>1 DEF Report
<1>9. \A a, kind, e, outcome, paths, digest : ReportLate(a, kind, e, outcome, paths, digest) => SameFences
  BY <1>2 DEF ReportLate
<1>10. \A a, e, terminal, clear : Reconcile(a, e, terminal, clear) => SameFences
  BY <1>2, <1>3 DEF Reconcile
<1>11. SameFences
  BY <1>4, <1>5, <1>6, <1>7, <1>8, <1>9, <1>10 DEF ExecOperations
<1> QED
  BY <1>11 DEF SameFences

LEMMA NotRestoredStep ==
  ASSUME ExecInv, NotRestored, [ExecNext]_vars
  PROVE  NotRestored'
<1>1. CASE UNCHANGED <<sessions, claims, feed>>
  BY <1>1 DEF NotRestored, FeedTellsClaims
<1>2. CASE LeaseNext
  BY <1>2, NextInv DEF ExecInv, LeaseKept
<1> QED
  BY <1>1, <1>2, ExecOperationsKeepClaims DEF ExecNext, vars, leaseVars

LEMMA ExecInitInv ==
  ASSUME ExecInit
  PROVE  ExecInv /\ NotRestored
<1>1. LeaseInit /\ LeaseCore /\ NotRestored
  BY InitInv DEF ExecInit
<1>2. ExecTablesOK
  BY <1>1 DEF ExecInit, LeaseInit, ExecTablesOK, OutboxRow, ReservationRow
<1>3. AttemptsFollowClaims /\ ReservationsExclusive
  BY DEF ExecInit, AttemptsFollowClaims, ReservationsExclusive, Free, NoExecution
<1> QED
  BY <1>1, <1>2, <1>3 DEF ExecInv

----------------------------------------------------------------------------
(* Cancels.  The receipt of a cancel outlives everything, and so must what   *)
(* the cancel left: no open dispatch, and no attempt that nobody accepted.   *)

CancelStands(e) ==
  /\ ~ Free(executions, e)
  /\ outbox[e].state \notin OpenDispatch
  /\ executions[e].state \notin {"prepared", "queued"}
  /\ executions[e].state \in {"accepted", "running"} => executions[e].cancelRequested

CancelsOK == \A e \in ExecutionIds : Cancelled(e) => CancelStands(e)

\* A step after which a cancel of e still stands, if it did before.
CancelHeld(e) == CancelStands(e) =>
  /\ CancelStands(e)'
  /\ outbox'[e].attempts = outbox[e].attempts
  /\ executions'[e].state \in Dispatchable => executions[e].state \in {"accepted", "running"}

LEMMA CancelsHeld ==
  ASSUME CancelsOK,
         \A e \in ExecutionIds : Cancelled(e)' => Cancelled(e) \/ CancelStands(e)',
         \A e \in ExecutionIds : CancelHeld(e)
  PROVE  CancelsOK' /\ CancelKept
<1>1. CancelsOK'
  BY DEF CancelsOK, CancelHeld
<1>2. CancelKept
  BY DEF CancelsOK, CancelHeld, CancelStands, CancelKept, Dispatchable
<1> QED
  BY <1>1, <1>2

\* What the row and the dispatch of e keep, a cancel keeps.
LEMMA RowHeld ==
  ASSUME NEW e \in ExecutionIds,
         outbox'[e] = outbox[e],
         \/ executions'[e] = executions[e]
         \/ /\ executions'[e].state = executions[e].state
            /\ executions[e].cancelRequested => executions'[e].cancelRequested
         \/ executions'[e].state \in Terminal \cup {"unknown"}
  PROVE  CancelHeld(e)
  BY DEF CancelHeld, CancelStands, Free, NoExecution, Dispatchable, Terminal

\* A receipt of another operation cancels nothing.
LEMMA NothingCancelled ==
  ASSUME ExecInv,
         \/ UNCHANGED operations
         \/ \E key \in RequestKey, row \in Receipt \cup ExecutionReceipt :
              /\ operations' = [operations EXCEPT ![key] = row]
              /\ row.hash.op # "execution.cancel"
  PROVE  \A e \in ExecutionIds : Cancelled(e)' => Cancelled(e)
<1>1. ASSUME NEW key \in RequestKey, NEW row,
             operations' = [operations EXCEPT ![key] = row], row.hash.op # "execution.cancel",
             NEW e \in ExecutionIds, Cancelled(e)'
      PROVE  Cancelled(e)
  <2>1. PICK q \in RequestKey :
          /\ operations'[q] # NoReceipt
          /\ operations'[q].hash = [op |-> "execution.cancel", execution |-> e]
    BY <1>1 DEF Cancelled
  <2>2. operations'[key] = row /\ \A p \in RequestKey \ {key} : operations'[p] = operations[p]
    BY <1>1 DEF ExecInv, ExecTablesOK
  <2>3. q # key
    BY <1>1, <2>1, <2>2
  <2> QED
    BY <2>1, <2>2, <2>3 DEF Cancelled
<1> QED
  BY <1>1 DEF Cancelled

LEMMA PrepareCancels ==
  ASSUME ExecInv, CancelsOK, NEW a \in Actors, NEW k \in Clients, NEW r \in RequestIds,
         NEW c \in ClaimIds, NEW executor \in Actors, Prepare(a, k, r, c, executor)
  PROVE  CancelsOK' /\ CancelKept
<1> DEFINE hash == [op |-> "execution.prepare", claim |-> c, executor |-> executor]
           result(d) == [execution |-> d, state |-> "prepared"]
<1>1. PICK d \in ExecutionIds :
        /\ Free(executions, d)
        /\ \A e \in ExecutionIds \ {d} : executions'[e] = executions[e] /\ outbox'[e] = outbox[e]
        /\ StoreOperation(<<a, k, r>>, hash, result(d), revision')
  BY DEF Prepare, ExecInv, ExecTablesOK
<1>2. \A e \in ExecutionIds : CancelHeld(e)
  BY <1>1, RowHeld DEF CancelHeld, CancelStands
<1>3. revision' \in Nat
  BY EmitType DEF Prepare, ExecInv
<1>4. hash \in PrepareHash /\ result(d) \in ExecutionResult /\ hash.op # "execution.cancel"
  BY DEF PrepareHash, ExecutionResult, ExecutionState, Dispatchable
<1> HIDE DEF hash, result
<1>5. [hash |-> hash, result |-> result(d), revision |-> revision'] \in ExecutionReceipt
  BY <1>3, <1>4 DEF ExecutionReceipt
<1>6. <<a, k, r>> \in RequestKey
  BY DEF RequestKey
<1>7. \A e \in ExecutionIds : Cancelled(e)' => Cancelled(e)
  <2>1. PICK row \in ExecutionReceipt :
          row = [hash |-> hash, result |-> result(d), revision |-> revision']
    BY <1>5
  <2>2. operations' = [operations EXCEPT ![<<a, k, r>>] = row]
    BY <1>1, <2>1 DEF StoreOperation
  <2>3. row.hash.op # "execution.cancel"
    BY <1>4, <2>1
  <2> QED
    BY <1>6, <2>2, <2>3, NothingCancelled
<1> QED
  BY <1>2, <1>7, CancelsHeld

LEMMA DispatchCancels ==
  ASSUME ExecInv, CancelsOK, ClaimDispatch \/ \E e \in ExecutionIds : AckDispatch(e)
  PROVE  CancelsOK' /\ CancelKept
<1>1. UNCHANGED operations
  BY DEF ClaimDispatch, AckDispatch, leaseVars
<1>2. ASSUME ClaimDispatch, NEW e \in ExecutionIds PROVE CancelHeld(e)
  <2>1. PICK d : DispatchTaken(d)
    BY <1>2, ClaimedDispatch
  <2>2. CASE e = d
    BY <2>1, <2>2 DEF DispatchTaken, Deliverable, CancelHeld, CancelStands
  <2>3. CASE e # d
    <3>1. executions'[e] = executions[e] /\ outbox'[e] = outbox[e]
      BY <2>1, <2>3 DEF DispatchTaken, ExecInv, ExecTablesOK
    <3> QED
      BY <3>1, RowHeld
  <2> QED
    BY <2>2, <2>3
<1>3. ASSUME NEW d \in ExecutionIds, AckDispatch(d), NEW e \in ExecutionIds PROVE CancelHeld(e)
  <2>1. CASE e = d
    BY <1>3, <2>1 DEF AckDispatch, OpenDispatch, CancelHeld, CancelStands
  <2>2. CASE e # d
    <3>1. executions'[e] = executions[e] /\ outbox'[e] = outbox[e]
      BY <1>3, <2>2 DEF AckDispatch, ExecInv, ExecTablesOK
    <3> QED
      BY <3>1, RowHeld
  <2> QED
    BY <2>1, <2>2
<1> QED
  BY <1>1, <1>2, <1>3, NothingCancelled, CancelsHeld

\* An executor that moves on after a cancel had accepted before it.
LEMMA TransitionCancels ==
  ASSUME ExecInv, CancelsOK, NEW e \in ExecutionIds, NEW fence,
         NEW allowed \in SUBSET Dispatchable, NEW next \in {"accepted", "running"},
         Transition(e, fence, allowed, next)
  PROVE  CancelsOK' /\ CancelKept
<1>1. /\ executions[e].state \in Dispatchable
      /\ executions' = [executions EXCEPT ![e].state = next]
      /\ UNCHANGED <<operations, outbox>>
  BY DEF Transition
<1>2. executions[e] \in ExecutionRow
  BY <1>1, PlanRow DEF Dispatchable, Free
<1>3. /\ executions'[e].state = next
      /\ executions'[e].cancelRequested = executions[e].cancelRequested
      /\ \A d \in ExecutionIds \ {e} : executions'[d] = executions[d]
  BY <1>1, <1>2 DEF ExecInv, ExecTablesOK, ExecutionRow
<1>4. CancelHeld(e)
  BY <1>1, <1>3 DEF CancelHeld, CancelStands, Free, Dispatchable
<1>5. \A d \in ExecutionIds : CancelHeld(d)
  BY <1>1, <1>3, <1>4, RowHeld
<1> QED
  BY <1>1, <1>5, NothingCancelled, CancelsHeld

LEMMA CancelCancels ==
  ASSUME ExecInv, CancelsOK, NEW a \in Actors, NEW k \in Clients, NEW r \in RequestIds,
         NEW e \in ExecutionIds, Cancel(a, k, r, e)
  PROVE  CancelsOK' /\ CancelKept
<1> DEFINE early == executions[e].state \in {"prepared", "queued"}
           next == IF early THEN "cancelled" ELSE executions[e].state
           hash == [op |-> "execution.cancel", execution |-> e]
           row == [hash |-> hash, result |-> [execution |-> e, state |-> next],
                   revision |-> revision']
<1>1. /\ ~ Free(executions, e)
      /\ executions' = [executions EXCEPT ![e].state = next, ![e].cancelRequested = @ \/ ~ early]
      /\ outbox' = [outbox EXCEPT ![e].state = ClosedDispatch(@)]
      /\ operations' = [operations EXCEPT ![<<a, k, r>>] = row]
  BY DEF Cancel, StoreOperation
<1>2. executions[e] \in ExecutionRow
  BY <1>1, PlanRow
<1>3. /\ executions'[e].state = next
      /\ executions'[e].cancelRequested = (executions[e].cancelRequested \/ ~ early)
      /\ \A d \in ExecutionIds \ {e} : executions'[d] = executions[d]
  BY <1>1, <1>2 DEF ExecInv, ExecTablesOK, ExecutionRow
<1>4. /\ outbox'[e].state \notin OpenDispatch /\ outbox'[e].attempts = outbox[e].attempts
      /\ \A d \in ExecutionIds \ {e} : outbox'[d] = outbox[d]
  BY <1>1 DEF ExecInv, ExecTablesOK, OutboxRow, ClosedDispatch, OpenDispatch
<1>5. next \notin {"prepared", "queued", "none"} /\ (~ early => next = executions[e].state)
      /\ (early => next = "cancelled")
  BY <1>2 DEF ExecutionRow, ExecutionState, Dispatchable, Terminal
<1>6. CancelStands(e)'
  BY <1>3, <1>4, <1>5 DEF CancelStands, Free
<1>7. CancelHeld(e)
  BY <1>3, <1>4, <1>5, <1>6 DEF CancelHeld, CancelStands, Dispatchable
<1>8. \A d \in ExecutionIds : CancelHeld(d)
  BY <1>3, <1>4, <1>7, RowHeld
<1>9. ASSUME NEW d \in ExecutionIds, Cancelled(d)' PROVE Cancelled(d) \/ CancelStands(d)'
  <2>1. PICK q \in RequestKey :
          /\ operations'[q] # NoReceipt
          /\ operations'[q].hash = [op |-> "execution.cancel", execution |-> d]
    BY <1>9 DEF Cancelled
  <2>2. CASE q = <<a, k, r>>
    <3>1. operations'[q].hash = hash
      BY <1>1, <2>2 DEF ExecInv, ExecTablesOK
    <3> QED
      BY <1>6, <2>1, <3>1
  <2>3. CASE q # <<a, k, r>>
    <3>1. operations'[q] = operations[q]
      BY <1>1, <2>3 DEF ExecInv, ExecTablesOK
    <3> QED
      BY <2>1, <3>1 DEF Cancelled
  <2> QED
    BY <2>2, <2>3
<1> QED
  BY <1>8, <1>9, CancelsHeld

LEMMA ReportCancels ==
  ASSUME ExecInv, CancelsOK, NEW a, NEW kind, NEW e \in ExecutionIds,
         NEW outcome \in Outcomes, NEW paths, NEW digest,
         \/ Report(a, kind, e, outcome, paths, digest)
         \/ ReportLate(a, kind, e, outcome, paths, digest)
  PROVE  CancelsOK' /\ CancelKept
<1>1. UNCHANGED <<operations, outbox>>
  BY DEF Report, ReportLate
<1>2. CASE ReportLate(a, kind, e, outcome, paths, digest)
  <2>1. executions[e] \in ExecutionRow
    BY <1>2, PlanRow DEF ReportLate, Terminal, Free
  <2>2. UNCHANGED executions \/ executions' = [executions EXCEPT ![e].cancelRequested = TRUE]
    BY <1>2 DEF ReportLate
  <2>3. \A d \in ExecutionIds :
          \/ executions'[d] = executions[d]
          \/ executions'[d].state = executions[d].state /\ executions'[d].cancelRequested
    BY <2>1, <2>2 DEF ExecInv, ExecTablesOK, ExecutionRow
  <2> QED
    BY <1>1, <2>3, RowHeld, NothingCancelled, CancelsHeld
<1>3. CASE Report(a, kind, e, outcome, paths, digest)
  <2> DEFINE row == executions[e]
             next == ReportedState(row.state, outcome)
             failed == [row EXCEPT !.state = "failed", !.paths = paths]
             reported == [row EXCEPT !.state = next, !.paths = paths, !.digest = digest,
                                     !.cancelRequested = @ \/ outcome = "cancelled"]
  <2>1. row \in ExecutionRow
    BY <1>3, PlanRow DEF Report, Unsettled
  <2>2. executions' \in {[executions EXCEPT ![e] = failed], [executions EXCEPT ![e] = reported]}
    BY <1>3 DEF Report
  <2>3. failed.state = "failed"
    BY <2>1 DEF ExecutionRow
  <2>4. reported.state = next /\ (row.cancelRequested => reported.cancelRequested)
    BY <2>1 DEF ExecutionRow
  <2>5. next = row.state \/ next \in Terminal \cup {"unknown"}
    BY DEF ReportedState, Outcomes, Terminal
  <2> HIDE DEF row, next, failed, reported
  <2>6. /\ executions'[e] \in {failed, reported}
        /\ \A d \in ExecutionIds \ {e} : executions'[d] = executions[d]
    BY <2>2 DEF ExecInv, ExecTablesOK
  <2>7. \/ /\ executions'[e].state = executions[e].state
           /\ executions[e].cancelRequested => executions'[e].cancelRequested
        \/ executions'[e].state \in Terminal \cup {"unknown"}
    BY <2>3, <2>4, <2>5, <2>6 DEF row, Terminal
  <2> QED
    BY <1>1, <2>6, <2>7, RowHeld, NothingCancelled, CancelsHeld
<1> QED
  BY <1>2, <1>3

LEMMA ReconcileCancels ==
  ASSUME ExecInv, CancelsOK, NEW a, NEW e \in ExecutionIds, NEW terminal \in Outcomes,
         NEW clear, Reconcile(a, e, terminal, clear)
  PROVE  CancelsOK' /\ CancelKept
<1>1. /\ ~ Free(executions, e) /\ executions' = [executions EXCEPT ![e].state = terminal]
      /\ UNCHANGED <<operations, outbox>>
  BY DEF Reconcile
<1>2. executions[e] \in ExecutionRow
  BY <1>1, PlanRow
<1>3. /\ executions'[e].state = terminal /\ terminal \in Terminal \cup {"unknown"}
      /\ \A d \in ExecutionIds \ {e} : executions'[d] = executions[d]
  BY <1>1, <1>2 DEF ExecInv, ExecTablesOK, ExecutionRow, Outcomes, Terminal
<1> QED
  BY <1>1, <1>3, RowHeld, NothingCancelled, CancelsHeld

\* Steps that touch neither executions nor dispatches, nor store a cancel.
LEMMA OtherCancels ==
  ASSUME ExecInv, CancelsOK, UNCHANGED <<executions, outbox>>,
         [LeaseNext]_leaseVars
  PROVE  CancelsOK' /\ CancelKept
<1>1. \/ UNCHANGED operations
      \/ \E key \in RequestKey, row \in Receipt :
           operations' = [operations EXCEPT ![key] = row]
  <2>1. LeaseCore' /\ LeaseCore
    BY NextInv DEF ExecInv, LeaseKept
  <2> QED
    BY <2>1, LeaseStoresReceipt DEF LeaseCore
<1>2. \A row \in Receipt : row.hash.op # "execution.cancel"
  <2>1. \A hash \in AcquireHash \cup RenewHash : hash.op # "execution.cancel"
    BY DEF AcquireHash, RenewHash
  <2> QED
    BY <2>1 DEF Receipt
<1>3. \A e \in ExecutionIds : Cancelled(e)' => Cancelled(e)
  BY <1>1, <1>2, NothingCancelled
<1> QED
  BY <1>3, RowHeld, CancelsHeld

LEMMA CancelsStep ==
  ASSUME ExecInv, CancelsOK, [ExecNext]_vars
  PROVE  CancelsOK' /\ [CancelKept]_vars
<1>1. CASE UNCHANGED vars
  BY <1>1, OtherCancels DEF vars, execVars
<1>2. CASE LeaseNext /\ UNCHANGED execVars
  BY <1>2, OtherCancels DEF execVars
<1>3. CASE ExecOperations
  <2>1. ASSUME NEW e \in ExecutionIds, NEW fence \in 1 .. MaxRevision,
               Accept(e, fence) \/ Start(e, fence)
        PROVE  CancelsOK' /\ CancelKept
    BY <2>1, TransitionCancels DEF Accept, Start, Dispatchable
  <2>2. ASSUME NEW w \in Works, NEW x \in Resources, Reserve(w, x)
        PROVE  CancelsOK' /\ CancelKept
    BY <2>2, OtherCancels DEF Reserve
  <2> QED
    BY <1>3, <2>1, <2>2, PrepareCancels, DispatchCancels, CancelCancels, ReportCancels,
       ReconcileCancels DEF ExecOperations
<1> QED
  BY <1>1, <1>2, <1>3 DEF ExecNext

----------------------------------------------------------------------------
(* Theorems. *)

\* The inductive invariant holds in every reachable state of the execution
\* store, whatever the lease store does in between.
THEOREM ExecInvariant == ExecSpec => [](ExecInv /\ NotRestored)
<1>1. ASSUME ExecInit PROVE ExecInv /\ NotRestored
  BY <1>1, ExecInitInv
<1>2. ExecInv /\ NotRestored /\ [ExecNext]_vars => ExecInv' /\ NotRestored'
  BY ExecStep, NotRestoredStep
<1> QED
  BY <1>1, <1>2, PTL DEF ExecSpec

\* Every table of both stores keeps its type.
THEOREM ExecTypeCorrect == ExecSpec => []ExecTypeOK
<1>1. ExecInv => ExecTypeOK
  BY DEF ExecInv, LeaseCore, TablesOK, ExecTablesOK, ExecTypeOK
<1> QED
  BY <1>1, ExecInvariant, PTL

\* Live reservations never conflict.
THEOREM ReservationsAreExclusive == ExecSpec => []ReservationsExclusive
<1>1. ExecInv => ReservationsExclusive
  BY DEF ExecInv
<1> QED
  BY <1>1, ExecInvariant, PTL

\* The leases stay exclusive, their fences ordered, their sessions bound and the
\* event log faithful while executions run over the same tables.
THEOREM LeasesStaySound ==
  ExecSpec => [](OneActiveClaim /\ FencesOrdered /\ HolderSessionBound /\ FeedTellsClaims)
<1>1. ExecInv /\ NotRestored =>
        OneActiveClaim /\ FencesOrdered /\ HolderSessionBound /\ FeedTellsClaims
  BY FencesExclude DEF ExecInv, LeaseCore, NotRestored
<1> QED
  BY <1>1, ExecInvariant, PTL

\* An executor is admitted only under the newest lease of its task.
THEOREM AdmissionsAreFenced == ExecSpec => AdmissionsFollowFences
<1>1. ExecInv /\ [ExecNext]_vars => [AdmissionInOrder]_vars
  BY ExecStep DEF StepKept
<1> QED
  BY <1>1, ExecInvariant, PTL DEF ExecSpec, AdmissionsFollowFences

\* A cancel that was answered is final: its execution is never delivered again,
\* and nobody takes it up.
THEOREM CancelsStand == ExecSpec => CancelsAreFinal
<1>1. ASSUME ExecInit PROVE CancelsOK
  BY <1>1 DEF ExecInit, LeaseInit, CancelsOK, Cancelled
<1>2. ExecInv /\ CancelsOK /\ [ExecNext]_vars => CancelsOK' /\ [CancelKept]_vars
  BY CancelsStep
<1> QED
  BY <1>1, <1>2, ExecInvariant, PTL DEF ExecSpec, CancelsAreFinal

\* Reservations with unknown effects are freed only once the work is resolved.
THEOREM TaintedResourcesHeld == ExecSpec => UnknownKeepsResources
<1>1. ExecInv /\ [ExecNext]_vars => [ReleaseWhenResolved]_vars
  BY ExecStep DEF StepKept
<1> QED
  BY <1>1, ExecInvariant, PTL DEF ExecSpec, UnknownKeepsResources

\* The facts of a settled execution stand.
THEOREM FactsStand == ExecSpec => SettledFactsStand
<1>1. ExecInv /\ [ExecNext]_vars => [SettledFactsKept]_vars
  BY ExecStep DEF StepKept
<1> QED
  BY <1>1, ExecInvariant, PTL DEF ExecSpec, SettledFactsStand

\* Both stores together implement FencedLease: no operation of the execution
\* store, among them the reports and reconciles that block or free a task, ends
\* a lease, moves a fence back or grants one.
THEOREM LeasesKeepPromise == ExecSpec => PromiseKept
<1>1. ExecInit => Promise!FencedInit
  BY PromiseInit DEF ExecInit
<1>2. ASSUME ExecInv, [ExecNext]_vars
      PROVE  Step
  <2>1. CASE [LeaseNext]_leaseVars
    BY <1>2, <2>1, NextStep DEF ExecInv
  <2>2. CASE ExecOperations
    BY <1>2, <2>2, ExecOperationsKeepClaims, ExecOperationsKeepFences, InvisibleStep
  <2> QED
    BY <1>2, <2>1, <2>2 DEF ExecNext, vars
<1>3. ExecInv /\ [ExecNext]_vars => [Promise!FencedNext]_(Promise!fencedVars)
  BY <1>2 DEF Step
<1> QED
  BY <1>1, <1>3, ExecInvariant, PTL DEF ExecSpec, PromiseKept, Promise!FencedSpec

----------------------------------------------------------------------------
(* What the lease and execution stores do to leases and attempts. *)

\* Fence counters never fall, a row with a newly active lease was free, and its
\* task has a new fence.
LeasesAdvance ==
  /\ \A t \in Task : runtime[t].lastFence <= runtime'[t].lastFence
  /\ \A c \in ClaimIds : claims'[c].state = "active" =>
       \/ claims[c].state = "active"
       \/ Free(claims, c) /\ claims'[c].task \in Task
          /\ runtime[claims'[c].task].lastFence < runtime'[claims'[c].task].lastFence

LEMMA FenceTaken ==
  ASSUME TablesOK, NEW t \in Task, runtime' = [runtime EXCEPT ![t].lastFence = NextFence(t)]
  PROVE  /\ runtime[t].lastFence < runtime'[t].lastFence
         /\ \A x \in Task : runtime[x].lastFence <= runtime'[x].lastFence
<1>1. \A x \in Task : runtime[x].lastFence \in Nat
  BY DEF TablesOK
<1>2. /\ runtime'[t].lastFence = runtime[t].lastFence + 1
      /\ \A x \in Task \ {t} : runtime'[x] = runtime[x]
  BY DEF TablesOK, NextFence
<1> QED
  BY <1>1, <1>2

LEMMA ClaimAdvances ==
  ASSUME LeaseCore, NEW s \in SessionIds, NEW a \in Actors, NEW k \in Clients,
         NEW r \in RequestIds, NEW ttl \in TTLs, Claim(s, a, k, r, ttl)
  PROVE  LeasesAdvance
<1> DEFINE t == sessions[s].task
           row == [state |-> "active", task |-> t, session |-> s, actor |-> a,
                   fence |-> NextFence(t), version |-> 1, expires |-> now + ttl]
<1>1. sessions[s] \in SessionRow /\ TablesOK
  BY DEF LeaseCore, TablesOK, Claim, NoSession
<1>2. t \in Task
  BY <1>1 DEF SessionRow
<1>3. PICK c \in ClaimIds : Free(claims, c) /\ claims' = [Swept(t) EXCEPT ![c] = row]
  BY DEF Claim
<1>4. runtime' = [runtime EXCEPT ![t].lastFence = NextFence(t)]
  BY DEF Claim
<1>8. row.task = t
  OBVIOUS
<1> HIDE DEF row, t
<1>5. Swept(t) \in [ClaimIds -> ClaimRow \cup {NoClaim}]
  BY <1>1, <1>2, SweptType
<1>6. claims'[c].task = t /\ \A d \in ClaimIds \ {c} : claims'[d] = Swept(t)[d]
  BY <1>3, <1>5, <1>8
<1>7. \A d \in ClaimIds \ {c} : claims'[d].state = "active" => claims[d].state = "active"
  BY <1>1, <1>2, <1>6, SweptClaim
<1> QED
  BY <1>1, <1>2, <1>3, <1>4, <1>6, <1>7, FenceTaken DEF LeasesAdvance

LEMMA HandoffAdvances ==
  ASSUME LeaseCore, NEW c \in ClaimIds, NEW a \in Actors, NEW successor \in Actors,
         NEW k \in Clients, Handoff(c, a, successor, k)
  PROVE  LeasesAdvance
<1> DEFINE t == claims[c].task
           row(s2) == [state |-> "active", task |-> t, session |-> s2, actor |-> successor,
                       fence |-> NextFence(t), version |-> 1, expires |-> now + HandoffTTL]
<1>1. claims[c] \in ClaimRow /\ TablesOK
  BY DEF LeaseCore, TablesOK, Handoff, Free, NoClaim
<1>2. t \in Task
  BY <1>1 DEF ClaimRow
<1>3. PICK s2 \in SessionIds, c2 \in ClaimIds :
        /\ Free(claims, c2)
        /\ claims' = [Swept(t) EXCEPT ![c].state = "handed_off", ![c2] = row(s2)]
  BY DEF Handoff
<1>4. runtime' = [runtime EXCEPT ![t].lastFence = NextFence(t)] /\ claims[c].state = "active"
  BY DEF Handoff, StillActive
<1>8. row(s2).task = t
  OBVIOUS
<1> HIDE DEF row, t
<1>5. Swept(t) \in [ClaimIds -> ClaimRow \cup {NoClaim}]
  BY <1>1, <1>2, SweptType
<1>6. claims'[c2].task = t /\ \A d \in ClaimIds \ {c, c2} : claims'[d] = Swept(t)[d]
  BY <1>3, <1>5, <1>8
<1>7. \A d \in ClaimIds \ {c, c2} : claims'[d].state = "active" => claims[d].state = "active"
  BY <1>1, <1>2, <1>6, SweptClaim
<1> QED
  BY <1>1, <1>2, <1>3, <1>4, <1>6, <1>7, FenceTaken DEF LeasesAdvance

LEMMA LeaseAdvances ==
  ASSUME LeaseCore, LeaseNext
  PROVE  LeasesAdvance
<1>1. TablesOK /\ \A t \in Task : runtime[t].lastFence \in Nat
  BY DEF LeaseCore, TablesOK
<1>2. CASE UNCHANGED <<claims, runtime>>
  BY <1>1, <1>2 DEF LeasesAdvance
<1>3. ASSUME UNCHANGED runtime,
             \A c \in ClaimIds : claims'[c].state = "active" => claims[c].state = "active"
      PROVE  LeasesAdvance
  BY <1>1, <1>3 DEF LeasesAdvance
<1>4. ASSUME NEW c \in ClaimIds, NEW a \in Actors, Release(c, a)
      PROVE  LeasesAdvance
  <2>1. UNCHANGED runtime /\ claims' = [claims EXCEPT ![c].state = "released"] /\ claims[c].state = "active"
    BY <1>4 DEF Release
  <2>2. \A d \in ClaimIds \ {c} : claims'[d] = claims[d]
    BY <1>1, <2>1 DEF TablesOK
  <2> QED
    BY <1>3, <2>1, <2>2
<1>5. ASSUME NEW t \in Task, ExpireDue(t)
      PROVE  LeasesAdvance
  BY <1>1, <1>3, <1>5, SweptClaim DEF ExpireDue
<1>6. ASSUME NEW c \in ClaimIds, NEW a \in Actors, NEW k \in Clients, NEW r \in RequestIds,
             NEW ttl \in TTLs, Renew(c, a, k, r, ttl)
      PROVE  LeasesAdvance
  <2> DEFINE t == claims[c].task
  <2>1. /\ UNCHANGED runtime /\ claims[c].state = "active"
        /\ claims' = [Swept(t) EXCEPT ![c].version = claims[c].version + 1, ![c].expires = now + ttl]
    BY <1>6 DEF Renew, StillActive
  <2>2. t \in Task
    BY <1>1, <2>1 DEF TablesOK, NoClaim, ClaimRow
  <2> HIDE DEF t
  <2>3. \A d \in ClaimIds \ {c} : claims'[d] = Swept(t)[d]
    BY <1>1, <2>1, <2>2, SweptType
  <2>4. \A d \in ClaimIds \ {c} : claims'[d].state = "active" => claims[d].state = "active"
    BY <1>1, <2>2, <2>3, SweptClaim
  <2> QED
    BY <1>3, <2>1, <2>4
<1>7. ASSUME NEW t \in Task, NEW blocked \in BOOLEAN, SetRecoveryBlocked(t, blocked)
      PROVE  LeasesAdvance
  <2>1. \A x \in Task : runtime'[x].lastFence = runtime[x].lastFence
    BY <1>1, <1>7 DEF SetRecoveryBlocked, TablesOK
  <2> QED
    BY <1>1, <1>7, <2>1 DEF LeasesAdvance, SetRecoveryBlocked
<1> QED
  BY <1>2, <1>4, <1>5, <1>6, <1>7, ClaimAdvances, HandoffAdvances
     DEF LeaseNext, StartSession, OpenWait, Reply, Tick

LEMMA ExecAdvances ==
  ASSUME ExecInv, ExecOperations
  PROVE  LeasesAdvance
<1>1. \A t \in Task : runtime[t].lastFence \in Nat
  BY DEF ExecInv, LeaseCore, TablesOK
<1> QED
  BY <1>1, ExecOperationsKeepClaims, ExecOperationsKeepFences DEF LeasesAdvance

----------------------------------------------------------------------------
(* Attempts of earlier epochs. *)

Settled == Terminal \cup {"unknown"}

AttemptsCurrent ==
  \A e \in ExecutionIds :
    ~ Free(executions, e) /\ executions[e].epoch # epoch => executions[e].state \in Settled

\* One attempt goes on as row: settled, of this epoch, or as it was.
LEMMA OneAttempt ==
  ASSUME ExecInv, AttemptsCurrent, UNCHANGED epoch, NEW e \in ExecutionIds, NEW row,
         executions' = [executions EXCEPT ![e] = row],
         \/ row.state \in Settled
         \/ row.epoch = epoch
         \/ row.state = executions[e].state /\ (~ Free(executions, e) => row.epoch = executions[e].epoch)
  PROVE  AttemptsCurrent'
<1>1. executions'[e] = row /\ \A d \in ExecutionIds \ {e} : executions'[d] = executions[d]
  BY DEF ExecInv, ExecTablesOK
<1> QED
  BY <1>1 DEF AttemptsCurrent, Free, Settled, Terminal

LEMMA AttemptsStayCurrent ==
  ASSUME ExecInv, AttemptsCurrent, ExecOperations
  PROVE  AttemptsCurrent'
<1>1. UNCHANGED epoch
  BY ExecOperationsKeepClaims
<1>2. \A e \in ExecutionIds : ~ Free(executions, e) => executions[e] \in ExecutionRow
  BY PlanRow
<1>3. CASE UNCHANGED executions
  BY <1>1, <1>3 DEF AttemptsCurrent, Free
<1>4. ASSUME NEW a, NEW k, NEW r, NEW c, NEW x, Prepare(a, k, r, c, x)
      PROVE  AttemptsCurrent'
  <2> DEFINE row == [state |-> "prepared", task |-> claims[c].task, claim |-> c,
                     fence |-> claims[c].fence, executor |-> x, epoch |-> epoch,
                     cancelRequested |-> FALSE, paths |-> "null", digest |-> "null"]
  <2>1. PICK e \in ExecutionIds : executions' = [executions EXCEPT ![e] = row]
    BY <1>4 DEF Prepare
  <2>2. row.epoch = epoch
    OBVIOUS
  <2> HIDE DEF row
  <2> QED
    BY <1>1, <2>1, <2>2, OneAttempt
<1>5. ASSUME ClaimDispatch
      PROVE  AttemptsCurrent'
  <2>1. PICK e : DispatchTaken(e)
    BY <1>5, ClaimedDispatch
  <2> DEFINE st == IF executions[e].state = "prepared" THEN "queued" ELSE executions[e].state
             row == [executions[e] EXCEPT !.state = st]
  <2>2. /\ executions' = [executions EXCEPT ![e] = row]
        /\ e \in ExecutionIds /\ ~ Free(executions, e)
    BY <2>1 DEF DispatchTaken, Deliverable, Dispatchable, Free
  <2>3. row.epoch = executions[e].epoch /\ row.state = st
    BY <1>2, <2>2 DEF ExecutionRow
  <2>4. executions[e].state = "prepared" => executions[e].epoch = epoch
    BY <2>2 DEF AttemptsCurrent, Settled, Terminal
  <2> HIDE DEF row
  <2> QED
    BY <1>1, <2>2, <2>3, <2>4, OneAttempt
<1>6. ASSUME NEW e \in ExecutionIds, NEW fence, Accept(e, fence) \/ Start(e, fence)
      PROVE  AttemptsCurrent'
  <2>1. PICK next \in {"accepted", "running"} :
          /\ executions' = [executions EXCEPT ![e].state = next] /\ executions[e].epoch = epoch
          /\ executions[e].state \in Dispatchable
    BY <1>6 DEF Accept, Start, Transition, Dispatchable
  <2> DEFINE row == [executions[e] EXCEPT !.state = next]
  <2>2. row.epoch = epoch
    BY <1>2, <2>1 DEF ExecutionRow, Dispatchable, Free
  <2>3. executions' = [executions EXCEPT ![e] = row]
    BY <2>1
  <2> HIDE DEF row
  <2> QED
    BY <1>1, <2>2, <2>3, OneAttempt
<1>7. ASSUME NEW a, NEW k, NEW r, NEW e \in ExecutionIds, Cancel(a, k, r, e)
      PROVE  AttemptsCurrent'
  <2> DEFINE early == executions[e].state \in {"prepared", "queued"}
             next == IF early THEN "cancelled" ELSE executions[e].state
             row == [executions[e] EXCEPT !.state = next, !.cancelRequested = @ \/ ~ early]
  <2>1. executions' = [executions EXCEPT ![e] = row] /\ ~ Free(executions, e)
    BY <1>7 DEF Cancel
  <2>2. row.state = next /\ row.epoch = executions[e].epoch
    BY <1>2, <2>1 DEF ExecutionRow
  <2> HIDE DEF row
  <2> QED
    BY <1>1, <2>1, <2>2, OneAttempt DEF Settled, Terminal
<1>8. ASSUME NEW a, NEW kind, NEW e \in ExecutionIds, NEW outcome \in Outcomes, NEW paths,
             NEW digest, Report(a, kind, e, outcome, paths, digest)
      PROVE  AttemptsCurrent'
  <2> DEFINE next == ReportedState(executions[e].state, outcome)
             over == [executions[e] EXCEPT !.state = "failed", !.paths = paths]
             row == [executions[e] EXCEPT !.state = next, !.paths = paths, !.digest = digest,
                                          !.cancelRequested = @ \/ outcome = "cancelled"]
  <2>1. /\ ~ Free(executions, e)
        /\ \/ executions' = [executions EXCEPT ![e] = over]
           \/ executions' = [executions EXCEPT ![e] = row]
    BY <1>8 DEF Report, Unsettled
  <2>2. over.state = "failed" /\ row.state = next /\ row.epoch = executions[e].epoch
    BY <1>2, <2>1 DEF ExecutionRow
  <2>3. next \in Settled \/ next = executions[e].state
    BY DEF ReportedState, Outcomes, Settled, Terminal
  <2> HIDE DEF over, row, next
  <2> QED
    BY <1>1, <2>1, <2>2, <2>3, OneAttempt DEF Settled, Terminal
<1>9. ASSUME NEW a, NEW kind, NEW e \in ExecutionIds, NEW outcome, NEW paths, NEW digest,
             ReportLate(a, kind, e, outcome, paths, digest)
      PROVE  AttemptsCurrent'
  <2> DEFINE row == [executions[e] EXCEPT !.cancelRequested = TRUE]
  <2>1. /\ executions[e].state \in Terminal
        /\ UNCHANGED executions \/ executions' = [executions EXCEPT ![e] = row]
    BY <1>9 DEF ReportLate
  <2>2. row.state = executions[e].state
    BY <1>2, <2>1 DEF ExecutionRow, Terminal, Free
  <2> HIDE DEF row
  <2> QED
    BY <1>1, <1>3, <2>1, <2>2, OneAttempt DEF Settled
<1>10. ASSUME NEW a, NEW e \in ExecutionIds, NEW terminal \in Outcomes, NEW clear,
              Reconcile(a, e, terminal, clear)
       PROVE  AttemptsCurrent'
  <2> DEFINE row == [executions[e] EXCEPT !.state = terminal]
  <2>1. executions' = [executions EXCEPT ![e] = row] /\ ~ Free(executions, e)
    BY <1>10 DEF Reconcile
  <2>2. row.state \in Settled
    BY <1>2, <2>1 DEF ExecutionRow, Outcomes, Settled, Terminal
  <2> HIDE DEF row
  <2> QED
    BY <1>1, <2>1, <2>2, OneAttempt
<1> QED
  BY <1>3, <1>4, <1>5, <1>6, <1>7, <1>8, <1>9, <1>10
     DEF ExecOperations, AckDispatch, Reserve

----------------------------------------------------------------------------
(* Tables, present or saved. *)

SoundRows(T) ==
  /\ T.revision \in Nat
  /\ T.sessions \in [SessionIds -> SessionRow \cup {NoSession}]
  /\ T.claims \in [ClaimIds -> ClaimRow \cup {NoClaim}]
  /\ T.runtime \in [Task -> [lastFence : Nat, recoveryBlocked : BOOLEAN]]
  /\ T.waits \in [WaitIds -> Wait \cup {NoWait}]
  /\ T.feed \in [ClaimIds -> FeedState]
  /\ T.operations \in [RequestKey -> Receipt \cup ExecutionReceipt \cup {NoReceipt}]
  /\ T.executions \in [ExecutionIds -> ExecutionRow \cup {NoExecution}]
  /\ T.outbox \in [ExecutionIds -> OutboxRow]
  /\ T.queue \in Seq(ExecutionIds)
  /\ T.receipts \in [ExecutionIds -> SUBSET [reporter : Actors,
        kind : {"caller_asserted", "trusted_executor", "reconcile"}]]
  /\ T.reservations \in [Resources -> ReservationRow]
  /\ T.jobs \in [Jobs -> {"none", "loaded", "activated"}]
  /\ T.snapshot \in Jobs \cup {NoJob}

\* What a restore relies on: fences were counted, claims have sessions, attempts
\* agree with their claims, and reservations do not conflict.
SoundFences(T) ==
  \A c \in ClaimIds : ~ Free(T.claims, c) =>
    /\ T.claims[c].fence \in 1 .. T.runtime[T.claims[c].task].lastFence
    /\ \A d \in ClaimIds :
         /\ ~ Free(T.claims, d)
         /\ T.claims[d].task = T.claims[c].task /\ T.claims[d].fence = T.claims[c].fence
         => d = c

SoundSessions(T) ==
  \A c \in ClaimIds : ~ Free(T.claims, c) =>
    LET s == T.sessions[T.claims[c].session] IN
    /\ s.state # "none"
    /\ s.task = T.claims[c].task /\ s.actor = T.claims[c].actor
    /\ T.claims[c].state = "handed_off" => s.state = "ended"

SoundAttempts(T) ==
  \A e \in ExecutionIds : ~ Free(T.executions, e) =>
    LET c == T.executions[e].claim IN
    /\ ~ Free(T.claims, c)
    /\ T.executions[e].task = T.claims[c].task /\ T.executions[e].fence = T.claims[c].fence

SoundReservations(T) ==
  \A x, y \in Resources :
    x # y /\ T.reservations[x].state # "free" /\ T.reservations[y].state # "free"
      => <<x, y>> \notin Conflicts

Sound(T) ==
  SoundRows(T) /\ SoundFences(T) /\ SoundSessions(T) /\ SoundAttempts(T) /\ SoundReservations(T)

\* The tables of the running project are sound.
LEMMA TablesSound ==
  ASSUME ExecInv, jobs \in [Jobs -> {"none", "loaded", "activated"}],
         snapshot \in Jobs \cup {NoJob}, NEW rev \in Nat
  PROVE  Sound(Tables(rev))
<1> DEFINE T == Tables(rev)
<1>1. /\ T.revision = rev /\ T.sessions = sessions /\ T.claims = claims /\ T.runtime = runtime
      /\ T.waits = waits /\ T.operations = operations /\ T.feed = feed
      /\ T.executions = executions /\ T.outbox = outbox /\ T.queue = queue
      /\ T.receipts = receipts /\ T.reservations = reservations /\ T.jobs = jobs
      /\ T.snapshot = snapshot
  BY DEF Tables
<1> HIDE DEF T
<1>2. SoundRows(T)
  BY <1>1 DEF SoundRows, ExecInv, LeaseCore, TablesOK, ExecTablesOK
<1>3. SoundFences(T)
  BY <1>1 DEF SoundFences, ExecInv, LeaseCore, FencesOrdered
<1>4. SoundSessions(T)
  BY <1>1 DEF SoundSessions, ExecInv, LeaseCore, HolderSessionBound
<1>5. SoundAttempts(T) /\ SoundReservations(T)
  BY <1>1 DEF SoundAttempts, SoundReservations, ExecInv, AttemptsFollowClaims, ReservationsExclusive
<1> QED
  BY <1>2, <1>3, <1>4, <1>5 DEF Sound, T

LEMMA RestoredClaimRow ==
  ASSUME NEW row \in ClaimRow \cup {NoClaim}
  PROVE  LET new == RestoredClaim(row) IN
         /\ new \in ClaimRow \cup {NoClaim} /\ new.state # "active"
         /\ new.state = "none" <=> row.state = "none"
         /\ row.state # "none" => /\ new.task = row.task /\ new.session = row.session
                                  /\ new.actor = row.actor /\ new.fence = row.fence
                                  /\ new.state = "handed_off" => row.state = "handed_off"
<1>1. CASE row.state # "active"
  BY <1>1 DEF RestoredClaim, NoClaim
<1>2. CASE row.state = "active"
  <2>1. row \in ClaimRow /\ row.version + 1 \in Nat
    BY <1>2 DEF NoClaim, ClaimRow
  <2> DEFINE mid == [row EXCEPT !.state = "revoked"]
  <2>2. /\ mid \in ClaimRow /\ mid.state = "revoked" /\ mid.task = row.task
        /\ mid.session = row.session /\ mid.actor = row.actor /\ mid.fence = row.fence
        /\ mid.version = row.version
    BY <2>1 DEF ClaimRow, ClaimEnded
  <2>3. RestoredClaim(row) = [mid EXCEPT !.version = row.version + 1]
    BY <1>2, <2>1 DEF RestoredClaim, ClaimRow
  <2> HIDE DEF mid
  <2> QED
    BY <1>2, <2>1, <2>2, <2>3 DEF ClaimRow
<1> QED
  BY <1>1, <1>2

LEMMA RestoredSessionRow ==
  ASSUME NEW row \in SessionRow \cup {NoSession}
  PROVE  LET new == RestoredSession(row) IN
         /\ new \in SessionRow \cup {NoSession}
         /\ row.state # "none" => /\ new.state # "none" /\ new.task = row.task
                                  /\ new.actor = row.actor
         /\ row.state = "ended" => new.state = "ended"
<1>1. CASE row.state # "active"
  BY <1>1 DEF RestoredSession
<1>2. CASE row.state = "active"
  BY <1>2 DEF RestoredSession, NoSession, SessionRow
<1> QED
  BY <1>1, <1>2

LEMMA RestoredExecutionRow ==
  ASSUME NEW row \in ExecutionRow \cup {NoExecution}
  PROVE  LET new == RestoredExecution(row) IN
         /\ new \in ExecutionRow \cup {NoExecution}
         /\ new.state = "none" <=> row.state = "none"
         /\ row.state # "none" => /\ new.task = row.task /\ new.claim = row.claim
                                  /\ new.fence = row.fence /\ new.state \in Settled
<1>1. CASE row.state \notin Dispatchable
  BY <1>1 DEF RestoredExecution, ExecutionRow, ExecutionState, Settled, NoExecution
<1>2. CASE row.state \in Dispatchable
  <2>1. row \in ExecutionRow
    BY <1>2 DEF NoExecution, Dispatchable
  <2> DEFINE mid == [row EXCEPT !.state = "unknown"]
  <2>2. /\ mid \in ExecutionRow /\ mid.state = "unknown" /\ mid.task = row.task
        /\ mid.claim = row.claim /\ mid.fence = row.fence
    BY <2>1 DEF ExecutionRow, ExecutionState
  <2>3. RestoredExecution(row) = [mid EXCEPT !.cancelRequested = TRUE]
    BY <1>2 DEF RestoredExecution
  <2> HIDE DEF mid
  <2> QED
    BY <1>2, <2>1, <2>2, <2>3 DEF ExecutionRow, Settled, Dispatchable
<1> QED
  BY <1>1, <1>2

\* Restoring sound tables restores the invariants of both stores, revokes every
\* lease and settles every attempt.
LEMMA RestoreStep ==
  ASSUME NEW T, Sound(T), now \in Nat, minted \in Nat, NEW b, NEW present,
         Restore(b, T, present)
  PROVE  /\ ExecInv'
         /\ \A c \in ClaimIds : claims'[c].state # "active"
         /\ \A e \in ExecutionIds : ~ Free(executions', e) => executions'[e].state \in Settled
<1>1. SoundRows(T) /\ SoundFences(T) /\ SoundSessions(T) /\ SoundAttempts(T) /\ SoundReservations(T)
  BY DEF Sound
<1>2. /\ claims' = [c \in ClaimIds |-> RestoredClaim(T.claims[c])]
      /\ sessions' = [s \in SessionIds |-> RestoredSession(T.sessions[s])]
      /\ executions' = [e \in ExecutionIds |-> RestoredExecution(T.executions[e])]
      /\ reservations' = [x \in Resources |-> RestoredReservation(T.reservations[x])]
      /\ outbox' = [e \in ExecutionIds |-> [T.outbox[e] EXCEPT !.state = ClosedDispatch(@)]]
      /\ waits' = T.waits /\ operations' = T.operations /\ feed' = T.feed
      /\ queue' = T.queue /\ receipts' = T.receipts /\ now' = now
      /\ revision' = T.revision + 1 /\ epoch' = minted + 1
  BY DEF Restore, MintEpoch, EmitFrom
<1>3. \A c \in ClaimIds :
        /\ claims'[c] \in ClaimRow \cup {NoClaim} /\ claims'[c].state # "active"
        /\ Free(claims', c) <=> Free(T.claims, c)
        /\ ~ Free(T.claims, c) =>
             /\ T.claims[c] \in ClaimRow
             /\ claims'[c].task = T.claims[c].task /\ claims'[c].session = T.claims[c].session
             /\ claims'[c].actor = T.claims[c].actor /\ claims'[c].fence = T.claims[c].fence
             /\ claims'[c].state = "handed_off" => T.claims[c].state = "handed_off"
  <2> SUFFICES ASSUME NEW c \in ClaimIds
               PROVE  /\ claims'[c] \in ClaimRow \cup {NoClaim} /\ claims'[c].state # "active"
                      /\ Free(claims', c) <=> Free(T.claims, c)
                      /\ ~ Free(T.claims, c) =>
                           /\ T.claims[c] \in ClaimRow
                           /\ claims'[c].task = T.claims[c].task
                           /\ claims'[c].session = T.claims[c].session
                           /\ claims'[c].actor = T.claims[c].actor
                           /\ claims'[c].fence = T.claims[c].fence
                           /\ claims'[c].state = "handed_off" => T.claims[c].state = "handed_off"
    OBVIOUS
  <2>1. T.claims[c] \in ClaimRow \cup {NoClaim} /\ claims'[c] = RestoredClaim(T.claims[c])
    BY <1>1, <1>2 DEF SoundRows
  <2>2. ~ Free(T.claims, c) => T.claims[c] \in ClaimRow
    BY <2>1 DEF Free, NoClaim
  <2> QED
    BY <2>1, <2>2, RestoredClaimRow DEF Free
<1>4. \A s \in SessionIds :
        /\ sessions'[s] \in SessionRow \cup {NoSession}
        /\ T.sessions[s].state # "none" =>
             /\ sessions'[s].state # "none" /\ sessions'[s].task = T.sessions[s].task
             /\ sessions'[s].actor = T.sessions[s].actor
        /\ T.sessions[s].state = "ended" => sessions'[s].state = "ended"
  BY <1>1, <1>2, RestoredSessionRow DEF SoundRows
<1>5. \A e \in ExecutionIds :
        /\ executions'[e] \in ExecutionRow \cup {NoExecution}
        /\ Free(executions', e) <=> Free(T.executions, e)
        /\ ~ Free(T.executions, e) =>
             /\ T.executions[e] \in ExecutionRow
             /\ executions'[e].task = T.executions[e].task
             /\ executions'[e].claim = T.executions[e].claim
             /\ executions'[e].fence = T.executions[e].fence
             /\ executions'[e].state \in Settled
  <2> SUFFICES ASSUME NEW e \in ExecutionIds
               PROVE  /\ executions'[e] \in ExecutionRow \cup {NoExecution}
                      /\ Free(executions', e) <=> Free(T.executions, e)
                      /\ ~ Free(T.executions, e) =>
                           /\ T.executions[e] \in ExecutionRow
                           /\ executions'[e].task = T.executions[e].task
                           /\ executions'[e].claim = T.executions[e].claim
                           /\ executions'[e].fence = T.executions[e].fence
                           /\ executions'[e].state \in Settled
    OBVIOUS
  <2>1. /\ T.executions[e] \in ExecutionRow \cup {NoExecution}
        /\ executions'[e] = RestoredExecution(T.executions[e])
    BY <1>1, <1>2 DEF SoundRows
  <2>2. ~ Free(T.executions, e) => T.executions[e] \in ExecutionRow
    BY <2>1 DEF Free, NoExecution
  <2> QED
    BY <2>1, <2>2, RestoredExecutionRow DEF Free
<1>6. /\ runtime' \in [Task -> [lastFence : Nat, recoveryBlocked : BOOLEAN]]
      /\ \A t \in Task : /\ T.runtime[t].lastFence \in Nat
                          /\ T.runtime[t].lastFence <= runtime'[t].lastFence
  <2>1. PICK rows \in SUBSET Task :
          runtime' = [t \in Task |-> IF t \in rows THEN RestoredRuntime(T.runtime[t]) ELSE T.runtime[t]]
    BY DEF Restore
  <2>2. T.runtime \in [Task -> [lastFence : Nat, recoveryBlocked : BOOLEAN]]
    BY <1>1 DEF SoundRows
  <2>3. \A t \in Task :
          LET new == RestoredRuntime(T.runtime[t]) IN
          /\ new \in [lastFence : Nat, recoveryBlocked : BOOLEAN]
          /\ T.runtime[t].lastFence \in Nat /\ T.runtime[t].lastFence <= new.lastFence
    BY <2>2 DEF RestoredRuntime
  <2>4. \A t \in Task : runtime'[t] = RestoredRuntime(T.runtime[t]) \/ runtime'[t] = T.runtime[t]
    BY <2>1
  <2>5. \A t \in Task : /\ runtime'[t] \in [lastFence : Nat, recoveryBlocked : BOOLEAN]
                        /\ T.runtime[t].lastFence \in Nat
                        /\ T.runtime[t].lastFence <= runtime'[t].lastFence
    BY <2>2, <2>3, <2>4
  <2> QED
    BY <2>1, <2>5
<1>7. TablesOK'
  <2>1. sessions' \in [SessionIds -> SessionRow \cup {NoSession}]
    BY <1>2, <1>4
  <2>2. claims' \in [ClaimIds -> ClaimRow \cup {NoClaim}]
    BY <1>2, <1>3
  <2> QED
    BY <1>1, <1>2, <1>6, <2>1, <2>2 DEF TablesOK, SoundRows
<1>8. FencesOrdered'
  <2>1. \A c \in ClaimIds : ~ Free(T.claims, c) => T.claims[c].task \in Task /\ T.claims[c].fence \in Nat
    BY <1>3 DEF ClaimRow
  <2>2. \A c \in ClaimIds : ~ Free(T.claims, c) =>
          claims'[c].fence \in 1 .. runtime'[claims'[c].task].lastFence
    <3> SUFFICES ASSUME NEW c \in ClaimIds, ~ Free(T.claims, c)
                 PROVE  claims'[c].fence \in 1 .. runtime'[claims'[c].task].lastFence
      OBVIOUS
    <3> DEFINE t == T.claims[c].task
    <3>1. claims'[c].fence \in 1 .. T.runtime[t].lastFence /\ claims'[c].task = t /\ t \in Task
      BY <1>1, <1>3, <2>1 DEF SoundFences
    <3>2. /\ T.runtime[t].lastFence <= runtime'[t].lastFence /\ T.runtime[t].lastFence \in Nat
          /\ runtime'[t].lastFence \in Nat
      BY <1>6, <3>1
    <3> HIDE DEF t
    <3> QED
      BY <3>1, <3>2
  <2>3. \A c, d \in ClaimIds :
          /\ ~ Free(T.claims, c) /\ ~ Free(T.claims, d)
          /\ claims'[d].task = claims'[c].task /\ claims'[d].fence = claims'[c].fence
          => d = c
    BY <1>1, <1>3 DEF SoundFences
  <2> QED
    BY <1>3, <2>2, <2>3 DEF FencesOrdered
<1>9. HolderSessionBound'
  <2>1. \A c \in ClaimIds : ~ Free(T.claims, c) => T.claims[c].session \in SessionIds
    BY <1>3 DEF ClaimRow
  <2> QED
    BY <1>1, <1>3, <1>4, <2>1 DEF HolderSessionBound, SoundSessions
<1>10. ExecTablesOK'
  <2>1. executions' \in [ExecutionIds -> ExecutionRow \cup {NoExecution}]
    BY <1>2, <1>5
  <2>2. \A row \in OutboxRow : [row EXCEPT !.state = ClosedDispatch(row.state)] \in OutboxRow
    BY DEF OutboxRow, ClosedDispatch, OpenDispatch
  <2>3. outbox' \in [ExecutionIds -> OutboxRow]
    BY <1>1, <1>2, <2>2 DEF SoundRows
  <2>4. reservations' \in [Resources -> ReservationRow]
    BY <1>1, <1>2 DEF SoundRows, RestoredReservation, ReservationRow
  <2> QED
    BY <1>1, <1>2, <2>1, <2>3, <2>4 DEF ExecTablesOK, SoundRows
<1>11. AttemptsFollowClaims'
  <2>1. \A e \in ExecutionIds : ~ Free(T.executions, e) => T.executions[e].claim \in ClaimIds
    BY <1>5 DEF ExecutionRow
  <2> QED
    BY <1>1, <1>3, <1>5, <2>1 DEF AttemptsFollowClaims, SoundAttempts
<1>12. ReservationsExclusive'
  <2>1. \A x \in Resources : reservations'[x].state # "free" => T.reservations[x].state # "free"
    BY <1>1, <1>2 DEF SoundRows, RestoredReservation, ReservationRow
  <2> QED
    BY <1>1, <2>1 DEF ReservationsExclusive, SoundReservations
<1> QED
  BY <1>3, <1>5, <1>7, <1>8, <1>9, <1>10, <1>11, <1>12 DEF ExecInv, LeaseCore

----------------------------------------------------------------------------
(* The inductive invariant.  That a token is new needs a bound on those of    *)
(* the present epoch, which no table keeps: the leases of a forgotten past    *)
(* are in granted only.  A restore brings back whatever tables were saved, so *)
(* the invariant speaks of those too.                                         *)

LifecycleOK ==
  /\ status \in {"active", "frozen", "importing", "degraded"}
  /\ jobs \in [Jobs -> {"none", "loaded", "activated"}]
  /\ snapshot \in Jobs \cup {NoJob}
  /\ minted \in Nat /\ epoch \in 0 .. minted
  /\ granted \subseteq (0 .. minted) \X Task \X Nat

\* No token of the present epoch has a fence its task has not reached.
TokensBelow ==
  \A t \in Task, f \in Nat : <<epoch, t, f>> \in granted => f <= runtime[t].lastFence

LeasesGranted ==
  \A c \in ClaimIds : claims[c].state = "active" =>
    <<epoch, claims[c].task, claims[c].fence>> \in granted

SavedSound ==
  /\ saved = [b \in Backups |-> saved[b]]
  /\ \A b \in Backups : saved[b] # NoBackup => Sound(saved[b])

ProjectInv ==
  /\ ExecInv
  /\ LifecycleOK
  /\ TokensBelow
  /\ LeasesGranted
  /\ AttemptsCurrent
  /\ SavedSound

\* Backups are only ever added.
LEMMA SavedKept ==
  ASSUME SavedSound, UNCHANGED saved
  PROVE  SavedSound'
<1>1. /\ saved' = [b \in Backups |-> saved'[b]]
      /\ \A b \in Backups : saved'[b] # NoBackup => Sound(saved'[b])
  BY DEF SavedSound
<1> QED
  BY <1>1 DEF SavedSound, Sound, SoundRows, SoundFences, SoundSessions,
              SoundAttempts, SoundReservations, NoBackup

\* What an ordinary write does to leases and attempts.
LEMMA WriteAdvances ==
  ASSUME ProjectInv, ExecNext
  PROVE  /\ ExecInv' /\ AttemptsCurrent' /\ LeasesAdvance /\ UNCHANGED epoch
         /\ \A c \in ClaimIds : ~ Free(claims, c) =>
              /\ ~ Free(claims', c)
              /\ claims'[c].task = claims[c].task /\ claims'[c].fence = claims[c].fence
<1>1. ExecInv /\ AttemptsCurrent /\ LeaseCore
  BY DEF ProjectInv, ExecInv
<1>2. ExecInv'
  BY <1>1, ExecStep
<1>3. CASE ExecOperations
  BY <1>1, <1>2, <1>3, ExecAdvances, AttemptsStayCurrent, ExecOperationsKeepClaims DEF Free
<1>4. CASE LeaseNext /\ UNCHANGED execVars
  <2>1. AttemptsCurrent' /\ UNCHANGED epoch
    BY <1>1, <1>4 DEF AttemptsCurrent, Free, execVars
  <2> QED
    BY <1>1, <1>2, <1>4, <2>1, LeaseAdvances, ClaimRowsStay
<1> QED
  BY <1>3, <1>4 DEF ExecNext

LEMMA OrdinaryWriteStep ==
  ASSUME ProjectInv, OrdinaryWrite
  PROVE  ProjectInv' /\ TokenIsNew
<1>1. ExecNext /\ UNCHANGED <<status, jobs, snapshot, saved, minted>>
  BY DEF OrdinaryWrite
<1>2. /\ ExecInv' /\ AttemptsCurrent' /\ LeasesAdvance /\ UNCHANGED epoch
      /\ \A c \in ClaimIds : ~ Free(claims, c) =>
           /\ ~ Free(claims', c)
           /\ claims'[c].task = claims[c].task /\ claims'[c].fence = claims[c].fence
  BY <1>1, WriteAdvances
<1>3. \A k : k \in granted' <=>
        \/ k \in granted
        \/ \E c \in ClaimIds : /\ Free(claims, c) /\ ~ Free(claims', c)
                              /\ k = <<epoch, claims'[c].task, claims'[c].fence>>
  BY DEF OrdinaryWrite
<1>4. \A c \in ClaimIds : ~ Free(claims', c) =>
        /\ claims'[c].task \in Task /\ claims'[c].fence \in Nat
        /\ claims'[c].fence <= runtime'[claims'[c].task].lastFence
        /\ claims'[c].state = "active" => claims'[c].fence = runtime'[claims'[c].task].lastFence
  <2>1. FencesOrdered' /\ TablesOK'
    BY <1>2 DEF ExecInv, LeaseCore
  <2>2. \A c \in ClaimIds : ~ Free(claims', c) => claims'[c].task \in Task /\ claims'[c].fence \in Nat
    BY <2>1 DEF TablesOK, Free, NoClaim, ClaimRow
  <2>3. \A t \in Task : runtime'[t].lastFence \in Nat
    BY <2>1 DEF TablesOK
  <2> QED
    BY <2>1, <2>2, <2>3 DEF FencesOrdered
<1>5. \A t \in Task : /\ runtime[t].lastFence \in Nat /\ runtime'[t].lastFence \in Nat
                      /\ runtime[t].lastFence <= runtime'[t].lastFence
  BY <1>2 DEF ProjectInv, ExecInv, LeaseCore, TablesOK, LeasesAdvance
<1>6. LifecycleOK'
  <2>1. LifecycleOK
    BY DEF ProjectInv
  <2>2. \A k \in granted' : k \in (0 .. minted) \X Task \X Nat
    BY <1>3, <1>4, <2>1 DEF LifecycleOK
  <2> QED
    BY <1>1, <1>2, <2>1, <2>2 DEF LifecycleOK
<1>7. TokensBelow'
  <2> SUFFICES ASSUME NEW t \in Task, NEW f \in Nat, <<epoch, t, f>> \in granted'
               PROVE  f <= runtime'[t].lastFence
    BY <1>2 DEF TokensBelow
  <2>1. CASE <<epoch, t, f>> \in granted
    <3>1. f <= runtime[t].lastFence
      BY <2>1 DEF ProjectInv, TokensBelow
    <3> QED
      BY <1>5, <3>1
  <2>2. CASE \E c \in ClaimIds : /\ Free(claims, c) /\ ~ Free(claims', c)
                                /\ <<epoch, t, f>> = <<epoch, claims'[c].task, claims'[c].fence>>
    BY <1>4, <2>2
  <2> QED
    BY <1>3, <2>1, <2>2
<1>8. LeasesGranted'
  <2> SUFFICES ASSUME NEW c \in ClaimIds, claims'[c].state = "active"
               PROVE  <<epoch, claims'[c].task, claims'[c].fence>> \in granted'
    BY <1>2 DEF LeasesGranted
  <2>1. CASE claims[c].state = "active"
    BY <1>2, <1>3, <2>1 DEF ProjectInv, LeasesGranted, Free
  <2>2. CASE Free(claims, c)
    BY <1>3, <2>2 DEF Free
  <2> QED
    BY <1>2, <2>1, <2>2 DEF LeasesAdvance
<1>9. TokenIsNew
  <2> SUFFICES ASSUME NEW c \in ClaimIds, Free(claims, c), claims'[c].state = "active",
                      <<epoch, claims'[c].task, claims'[c].fence>> \in granted
               PROVE  FALSE
    BY <1>2 DEF TokenIsNew
  <2> DEFINE t == claims'[c].task
             f == claims'[c].fence
  <2>1. t \in Task /\ f \in Nat /\ f = runtime'[t].lastFence
    BY <1>4 DEF Free
  <2>2. runtime[t].lastFence < runtime'[t].lastFence
    BY <1>2 DEF LeasesAdvance, Free
  <2>3. f <= runtime[t].lastFence
    BY <2>1 DEF ProjectInv, TokensBelow
  <2> HIDE DEF t, f
  <2> QED
    BY <1>5, <2>1, <2>2, <2>3
<1>10. SavedSound'
  BY <1>1, SavedKept DEF ProjectInv
<1> QED
  BY <1>2, <1>6, <1>7, <1>8, <1>9, <1>10 DEF ProjectInv

\* A step that keeps every table but the revision and perhaps the epoch.
LEMMA TablesKept ==
  ASSUME ExecInv, revision' \in Nat, epoch' \in Nat,
         UNCHANGED <<now, sessions, claims, runtime, waits, operations, feed,
                     executions, outbox, queue, receipts, reservations>>
  PROVE  ExecInv'
<1>1. LeaseCore'
  BY LeaseTablesKept DEF ExecInv
<1>2. ExecTablesOK'
  BY DEF ExecInv, ExecTablesOK
<1>3. AttemptsFollowClaims' /\ ReservationsExclusive'
  BY DEF ExecInv, AttemptsFollowClaims, ReservationsExclusive, Free
<1> QED
  BY <1>1, <1>2, <1>3 DEF ExecInv

\* Under a new epoch there is no token yet.
LEMMA NewEpoch ==
  ASSUME LifecycleOK, MintEpoch, UNCHANGED granted
  PROVE  /\ minted' \in Nat /\ epoch' \in Nat /\ epoch' \in 0 .. minted'
         /\ granted' \subseteq (0 .. minted') \X Task \X Nat
         /\ TokensBelow'
<1>1. minted \in Nat /\ minted' = minted + 1 /\ epoch' = minted + 1
  BY DEF LifecycleOK, MintEpoch
<1>2. \A k \in granted : k \in (0 .. minted) \X Task \X Nat
  BY DEF LifecycleOK
<1>3. \A k \in granted : k[1] \in 0 .. minted /\ k[2] \in Task /\ k[3] \in Nat /\ k = <<k[1], k[2], k[3]>>
  BY <1>2
<1>4. granted' \subseteq (0 .. minted') \X Task \X Nat
  BY <1>1, <1>3
<1>5. \A t, f : <<epoch', t, f>> \notin granted
  BY <1>1, <1>3
<1> QED
  BY <1>1, <1>4, <1>5 DEF TokensBelow

LEMMA LifecycleStep ==
  ASSUME ProjectInv, NEW j, Freeze \/ (j \in Jobs /\ (Load(j) \/ Activate(j)))
  PROVE  ProjectInv' /\ TokenIsNew
<1>1. /\ ExecInv /\ LifecycleOK /\ TokensBelow /\ LeasesGranted /\ AttemptsCurrent /\ SavedSound
      /\ LeaseCore
  BY DEF ProjectInv, ExecInv
<1>2. /\ UNCHANGED <<now, sessions, claims, runtime, waits, operations, feed,
                     executions, outbox, queue, receipts, reservations, saved, granted>>
      /\ EmitFrom(revision)
  BY DEF Freeze, Load, Activate, execVars
<1>3. TokenIsNew
  BY <1>2 DEF TokenIsNew, Free
<1>4. SavedSound'
  BY <1>1, <1>2, SavedKept
<1>5. revision' \in Nat
  BY <1>1, <1>2, EmitType
<1>6. CASE Freeze \/ (j \in Jobs /\ Load(j))
  <2>1. UNCHANGED <<epoch, minted, snapshot>> /\ epoch \in Nat
    BY <1>1, <1>6 DEF Freeze, Load, execVars, LifecycleOK
  <2>2. ExecInv'
    BY <1>1, <1>2, <1>5, <2>1, TablesKept
  <2>3. LifecycleOK'
    BY <1>1, <1>2, <1>6, <2>1 DEF LifecycleOK, Freeze, Load
  <2>4. TokensBelow' /\ LeasesGranted' /\ AttemptsCurrent'
    BY <1>1, <1>2, <2>1 DEF TokensBelow, LeasesGranted, AttemptsCurrent, Free
  <2> QED
    BY <1>3, <1>4, <2>2, <2>3, <2>4 DEF ProjectInv
<1>7. CASE j \in Jobs /\ Activate(j)
  <2>1. MintEpoch /\ ~ Unresolved
    BY <1>7 DEF Activate
  <2>2. /\ minted' \in Nat /\ epoch' \in Nat /\ epoch' \in 0 .. minted'
        /\ granted' \subseteq (0 .. minted') \X Task \X Nat
        /\ TokensBelow'
    BY <1>1, <1>2, <2>1, NewEpoch
  <2>3. ExecInv'
    BY <1>1, <1>2, <1>5, <2>2, TablesKept
  <2>4. LifecycleOK'
    BY <1>1, <1>7, <2>2 DEF LifecycleOK, Activate
  <2>5. LeasesGranted'
    BY <1>2, <2>1 DEF LeasesGranted, Unresolved
  <2>6. \A e \in ExecutionIds : ~ Free(executions, e) => executions[e].state \in Settled
    BY <1>1, <2>1, PlanRow DEF Unresolved, ExecutionRow, ExecutionState, Settled
  <2>7. AttemptsCurrent'
    BY <1>2, <2>6 DEF AttemptsCurrent, Free
  <2> QED
    BY <1>3, <1>4, <2>2, <2>3, <2>4, <2>5, <2>7 DEF ProjectInv
<1> QED
  BY <1>6, <1>7

LEMMA BackupStep ==
  ASSUME ProjectInv, NEW b \in Backups, Backup(b)
  PROVE  ProjectInv' /\ TokenIsNew
<1>1. /\ ExecInv /\ LifecycleOK /\ TokensBelow /\ LeasesGranted /\ AttemptsCurrent /\ SavedSound
      /\ LeaseCore
  BY DEF ProjectInv, ExecInv
<1>2. /\ UNCHANGED <<now, sessions, claims, runtime, waits, operations, feed, epoch,
                     executions, outbox, queue, receipts, reservations,
                     status, jobs, snapshot, minted, granted>>
      /\ EmitFrom(revision) /\ saved' = [saved EXCEPT ![b] = Tables(revision')]
  BY DEF Backup, execVars
<1>3. TokenIsNew
  BY <1>2 DEF TokenIsNew, Free
<1>4. revision' \in Nat
  BY <1>1, <1>2, EmitType
<1>5. epoch \in Nat
  BY <1>1 DEF LifecycleOK
<1>6. ExecInv'
  BY <1>1, <1>2, <1>4, <1>5, TablesKept
<1>7. LifecycleOK'
  BY <1>1, <1>2 DEF LifecycleOK
<1>8. TokensBelow' /\ LeasesGranted' /\ AttemptsCurrent'
  BY <1>1, <1>2 DEF TokensBelow, LeasesGranted, AttemptsCurrent, Free
<1>9. SavedSound'
  <2> DEFINE T == Tables(revision')
  <2>1. Sound(T)
    BY <1>1, <1>4, TablesSound DEF LifecycleOK
  <2> HIDE DEF T
  <2>2. saved' = [saved EXCEPT ![b] = T]
    BY <1>2 DEF T
  <2>3. /\ saved' = [x \in Backups |-> saved'[x]]
        /\ \A x \in Backups : saved'[x] = T \/ saved'[x] = saved[x]
    BY <1>1, <2>2 DEF SavedSound
  <2>4. \A x \in Backups : saved'[x] # NoBackup => Sound(saved'[x])
    BY <1>1, <2>1, <2>3 DEF SavedSound
  <2> QED
    BY <2>3, <2>4 DEF SavedSound, Sound, SoundRows, SoundFences, SoundSessions,
                      SoundAttempts, SoundReservations, NoBackup
<1> QED
  BY <1>3, <1>6, <1>7, <1>8, <1>9 DEF ProjectInv

LEMMA ProjectRestoreStep ==
  ASSUME ProjectInv, NEW b \in Backups, NEW present \in BOOLEAN, NEW T, Sound(T),
         Restore(b, T, present)
  PROVE  ProjectInv' /\ TokenIsNew
<1>1. ExecInv /\ LifecycleOK /\ SavedSound /\ now \in Nat /\ minted \in Nat
  BY DEF ProjectInv, ExecInv, LeaseCore, TablesOK, LifecycleOK
<1>2. /\ ExecInv'
      /\ \A c \in ClaimIds : claims'[c].state # "active"
      /\ \A e \in ExecutionIds : ~ Free(executions', e) => executions'[e].state \in Settled
  BY <1>1, RestoreStep
<1>3. /\ MintEpoch /\ UNCHANGED <<saved, granted>>
      /\ jobs' = T.jobs /\ snapshot' = T.snapshot /\ status' \in {"active", "degraded"}
  BY DEF Restore
<1>4. /\ minted' \in Nat /\ epoch' \in Nat /\ epoch' \in 0 .. minted'
      /\ granted' \subseteq (0 .. minted') \X Task \X Nat
      /\ TokensBelow'
  BY <1>1, <1>3, NewEpoch
<1>5. LifecycleOK'
  BY <1>3, <1>4 DEF LifecycleOK, Sound, SoundRows
<1>6. LeasesGranted' /\ AttemptsCurrent' /\ TokenIsNew
  BY <1>2 DEF LeasesGranted, AttemptsCurrent, TokenIsNew
<1>7. SavedSound'
  BY <1>1, <1>3, SavedKept
<1> QED
  BY <1>2, <1>4, <1>5, <1>6, <1>7 DEF ProjectInv

LEMMA ProjectStep ==
  ASSUME ProjectInv, [ProjectNext]_projectVars
  PROVE  ProjectInv' /\ [TokenIsNew]_projectVars
<1>1. CASE UNCHANGED <<vars, lifecycleVars>>
  <2>1. UNCHANGED <<vars, status, jobs, snapshot, saved, minted, granted>>
    BY <1>1 DEF lifecycleVars
  <2>2. ExecInv'
    BY <2>1, ExecStep DEF ProjectInv
  <2>3. SavedSound'
    BY <2>1, SavedKept DEF ProjectInv
  <2>4. LifecycleOK' /\ TokensBelow' /\ LeasesGranted' /\ AttemptsCurrent'
    BY <2>1 DEF ProjectInv, LifecycleOK, TokensBelow, LeasesGranted, AttemptsCurrent, Free,
                vars, leaseVars, execVars
  <2> QED
    BY <1>1, <2>2, <2>3, <2>4 DEF ProjectInv, projectVars
<1>2. CASE OrdinaryWrite
  BY <1>2, OrdinaryWriteStep
<1>3. ASSUME NEW b \in Backups, NEW present \in BOOLEAN,
             \/ Restore(b, Tables(revision), present)
             \/ Restore(b, saved[b], present)
      PROVE  ProjectInv' /\ TokenIsNew
  <2>1. Sound(Tables(revision))
    BY TablesSound DEF ProjectInv, LifecycleOK, ExecInv, LeaseCore, TablesOK
  <2>2. saved[b] # NoBackup => Sound(saved[b])
    BY DEF ProjectInv, SavedSound
  <2>3. saved[b] # NoBackup
    BY <1>3 DEF Restore
  <2> QED
    BY <1>3, <2>1, <2>2, <2>3, ProjectRestoreStep
<1>4. CASE Lifecycle
  BY <1>3, <1>4, LifecycleStep, BackupStep DEF Lifecycle
<1>5. CASE Tick /\ UNCHANGED <<execVars, lifecycleVars>>
  <2>1. ExecNext /\ UNCHANGED <<revision, sessions, claims, runtime, waits, operations, feed>>
        /\ UNCHANGED <<status, jobs, snapshot, saved, minted, granted>> /\ UNCHANGED epoch
        /\ UNCHANGED executions
    BY <1>5 DEF ExecNext, LeaseNext, Tick, lifecycleVars, execVars
  <2>2. ExecInv'
    BY <2>1, ExecStep DEF ProjectInv
  <2>3. SavedSound'
    BY <2>1, SavedKept DEF ProjectInv
  <2>4. LifecycleOK' /\ TokensBelow' /\ LeasesGranted' /\ AttemptsCurrent'
    BY <2>1 DEF ProjectInv, LifecycleOK, TokensBelow, LeasesGranted, AttemptsCurrent, Free
  <2>5. TokenIsNew
    BY <2>1 DEF TokenIsNew, Free
  <2> QED
    BY <2>2, <2>3, <2>4, <2>5 DEF ProjectInv
<1> QED
  BY <1>1, <1>2, <1>4, <1>5 DEF ProjectNext, projectVars

----------------------------------------------------------------------------
(* Theorems. *)

\* The inductive invariant holds in every reachable state, whatever is
\* imported, activated, backed up or restored in between.
THEOREM ProjectInvariant == ProjectSpec => []ProjectInv
<1>1. ASSUME ProjectInit PROVE ProjectInv
  <2>1. ExecInit
    BY <1>1 DEF ProjectInit
  <2>2. ExecInv
    BY <2>1, ExecInitInv
  <2>3. /\ \A c \in ClaimIds : claims[c].state = "none"
        /\ \A e \in ExecutionIds : Free(executions, e)
        /\ epoch = 0
    BY <2>1 DEF ExecInit, LeaseInit, NoClaim, NoExecution, Free
  <2>4. LifecycleOK
    BY <1>1, <2>3 DEF ProjectInit, LifecycleOK
  <2>5. TokensBelow /\ LeasesGranted /\ AttemptsCurrent
    BY <1>1, <2>3 DEF ProjectInit, TokensBelow, LeasesGranted, AttemptsCurrent
  <2>6. SavedSound
    BY <1>1 DEF ProjectInit, SavedSound
  <2> QED
    BY <2>2, <2>4, <2>5, <2>6 DEF ProjectInv
<1>2. ProjectInv /\ [ProjectNext]_projectVars => ProjectInv'
  BY ProjectStep
<1> QED
  BY <1>1, <1>2, PTL DEF ProjectSpec

\* Every table keeps its type through imports and restores.
THEOREM ProjectTypeCorrect == ProjectSpec => []ProjectTypeOK
<1>1. ProjectInv => ProjectTypeOK
  <2> SUFFICES ASSUME ProjectInv PROVE ProjectTypeOK
    OBVIOUS
  <2>1. LifecycleOK /\ TablesOK /\ ExecTablesOK
    BY DEF ProjectInv, ExecInv, LeaseCore
  <2>2. \A s \in SessionIds : sessions[s].state \in {"none", "active", "ended", "interrupted"}
    BY <2>1 DEF TablesOK, SessionRow, NoSession
  <2> QED
    BY <2>1, <2>2 DEF ProjectTypeOK, LifecycleOK, TablesOK, ExecTablesOK
<1> QED
  BY <1>1, ProjectInvariant, PTL

\* No authority survives a change of epoch, by activation or by restore.
THEOREM AuthorityStaysCurrent == ProjectSpec => []AuthorityIsCurrent
<1>1. ProjectInv => AuthorityIsCurrent
  BY DEF ProjectInv, AuthorityIsCurrent, LeasesGranted, AttemptsCurrent, Settled
<1> QED
  BY <1>1, ProjectInvariant, PTL

\* A fencing token is granted once in the life of the project, restores included.
THEOREM TokensAreUnique == ProjectSpec => TokensNeverReissued
<1>1. ProjectInv /\ [ProjectNext]_projectVars => [TokenIsNew]_projectVars
  BY ProjectStep
<1> QED
  BY <1>1, ProjectInvariant, PTL DEF ProjectSpec, TokensNeverReissued

\* What the lease and execution stores promise of leases and reservations
\* outlives a restore, of an old backup too.  (The event log does not: a
\* restore revokes claims without an event for each.)
THEOREM RestoresStaySound ==
  ProjectSpec => [](OneActiveClaim /\ FencesOrdered /\ HolderSessionBound /\ ReservationsExclusive)
<1>1. ProjectInv => OneActiveClaim /\ FencesOrdered /\ HolderSessionBound /\ ReservationsExclusive
  BY FencesExclude DEF ProjectInv, ExecInv, LeaseCore
<1> QED
  BY <1>1, ProjectInvariant, PTL

=============================================================================
