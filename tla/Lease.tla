------------------------------- MODULE Lease -------------------------------
(***************************************************************************)
(* The team lease store (crates/awr-team-pg/src/lease.rs): sessions, task  *)
(* leases with fencing tokens, waits, recovery blocks and the idempotency  *)
(* receipts of one project.                                                *)
(*                                                                         *)
(* Every operation of the store is one PostgreSQL transaction that locks   *)
(* the project row FOR UPDATE before it reads anything else, so            *)
(* operations of one project are serialised and each is one action here.   *)
(* A transaction that returns an error is rolled back, the expiry sweep it *)
(* may already have done included: a refused call changes nothing, and is  *)
(* a stuttering step.  A call repeated with a stored request key either    *)
(* replays the stored result or is refused, and is a stuttering step too.  *)
(***************************************************************************)
EXTENDS Naturals, FiniteSets

CONSTANTS
  Scopes,       \* planning scopes
  Works,        \* work items; a task is a work item in a scope
  Actors,       \* team members and agents
  Clients,      \* client programs an actor may be connected through
  SessionIds,   \* identifiers new_id() may return for a session
  ClaimIds,     \* ... for a claim
  WaitIds,      \* ... for a wait item
  RequestIds,   \* request identifiers a client may choose
  TTLs,         \* lease durations a caller may ask for
  HandoffTTL,   \* the fixed duration of a lease obtained by handoff
  MaxTime,      \* bound on the clock
  MaxRevision   \* bound on the project revision

ASSUME LeaseAssumption ==
  /\ IsFiniteSet(ClaimIds)
  /\ TTLs \subseteq Nat
  /\ HandoffTTL \in Nat
  /\ MaxTime \in Nat
  /\ MaxRevision \in Nat

VARIABLES
  now,          \* clock_timestamp() of the database
  revision,     \* projects.project_revision
  sessions,     \* table sessions
  claims,       \* table claims
  runtime,      \* table work_runtime
  waits,        \* table wait_items
  operations,   \* table operations: idempotency receipts
  feed          \* the state of each claim as the event log tells it

leaseVars == <<now, revision, sessions, claims, runtime, waits, operations, feed>>

----------------------------------------------------------------------------
(* Rows. *)

Task == Scopes \X Works
WorkOf(t) == t[2]

Session == [state : {"active", "ended"}, task : Task, actor : Actors, client : Clients]
NoSession == [state |-> "none"]

ClaimEnded == {"released", "expired", "revoked", "handed_off"}
ClaimRow == [state : {"active"} \cup ClaimEnded, task : Task, session : SessionIds,
             actor : Actors, fence : Nat, version : Nat, expires : Nat]
NoClaim == [state |-> "none"]

Wait == [state : {"open", "replied"}, session : SessionIds, work : Works]
NoWait == [state |-> "none"]

RequestKey == Actors \X Clients \X RequestIds

\* The identity of a request: its operation and its meaningful arguments.
AcquireHash == [op : {"claim.acquire"}, session : SessionIds, ttl : TTLs]
RenewHash == [op : {"claim.renew"}, claim : ClaimIds, ttl : TTLs]
ClaimResult == [claim : ClaimIds, fence : Nat, version : Nat, expires : Nat]
Receipt == [hash : AcquireHash \cup RenewHash, result : ClaimResult, revision : Nat]
NoReceipt == [hash |-> "none"]

FeedState == {"none", "active"} \cup ClaimEnded

----------------------------------------------------------------------------
(* Reads. *)

\* The claim rows of task t whose state column says active.
ActiveClaims(cl, t) == {c \in ClaimIds : cl[c].state = "active" /\ cl[c].task = t}

\* The rows expire_due would flip: active, and past their expiry.
Due(t) == {c \in ActiveClaims(claims, t) : claims[c].expires <= now}

\* A claim that is active and has not passed its expiry.
Unexpired(c) == claims[c].state = "active" /\ claims[c].expires > now

OpenWaitOn(w) == \E i \in WaitIds : waits[i].state = "open" /\ waits[i].work = w

\* require_fence: does the database accept fence f of actor a on task t?
RequireFence(t, a, f) ==
  \E c \in ActiveClaims(claims, t) :
    Unexpired(c) /\ claims[c].actor = a /\ claims[c].fence = f

----------------------------------------------------------------------------
(* Helpers every operation shares. *)

\* Mutant: the receipt lookup is skipped.
MutReapply(key) == TRUE

\* load_operation: a stored receipt is replayed or refused, never applied again.
NewRequest(key) == operations[key] = NoReceipt

\* Mutant: the counter is read without being incremented.
MutReuseFence(t) == IF runtime[t].lastFence = 0 THEN 1 ELSE runtime[t].lastFence

\* The fence of the next claim on task t.
NextFence(t) == runtime[t].lastFence + 1

\* Mutant: the expired row is replaced instead of updated.
MutSweepReplaces(t) ==
  [c \in ClaimIds |-> IF c \in Due(t) THEN [state |-> "expired"] ELSE claims[c]]

\* expire_due inside a transaction: the claims after the sweep of task t ...
Swept(t) ==
  [c \in ClaimIds |-> IF c \in Due(t) THEN [claims[c] EXCEPT !.state = "expired"]
                                      ELSE claims[c]]

\* Mutant: the sweep flips rows without emitting claim.expired.
MutSilentSweep(t) == feed

\* ... what its claim.expired events tell ...
SweptFeed(t) == [c \in ClaimIds |-> IF c \in Due(t) THEN "expired" ELSE feed[c]]

\* ... and how many events (one revision each) it emits.
SweptRevision(t) == revision + Cardinality(Due(t))

\* Mutant: neither the query nor the index looks for a holder.
MutTakenNever(t) == FALSE

\* A holder other than the caller is refused by the query on held claims, the
\* caller's own active claim by the unique index claims_one_active.
Taken(t) == ActiveClaims(Swept(t), t) # {}

\* Mutant: the state cached before the sweep is trusted.
MutCachedState(c) == claims[c].state = "active"

\* renew and handoff read the state before the sweep and again after it.
StillActive(c) ==
  /\ claims[c].state = "active"
  /\ Swept(claims[c].task)[c].state = "active"

\* Mutant: the predecessor's session is left active.
MutKeepSession(s, s2, t, a, k) ==
  [sessions EXCEPT ![s2] = [state |-> "active", task |-> t, actor |-> a, client |-> k]]

\* The sessions once s has handed its claim to the new session s2.
SessionsAfterHandoff(s, s2, t, a, k) ==
  [sessions EXCEPT
     ![s].state = "ended",
     ![s2] = [state |-> "active", task |-> t, actor |-> a, client |-> k]]

\* emit_event: one more revision, below the bound of the model.
EmitFrom(r) == /\ r < MaxRevision
               /\ revision' = r + 1

Free(table, id) == table[id].state = "none"

StoreOperation(key, hash, result, rev) ==
  operations' = [operations EXCEPT ![key] =
                   [hash |-> hash, result |-> result, revision |-> rev]]

----------------------------------------------------------------------------
(* Operations. *)

StartSession(a, k, t) ==
  /\ \E s \in SessionIds :
       /\ Free(sessions, s)
       /\ sessions' = [sessions EXCEPT ![s] =
                         [state |-> "active", task |-> t, actor |-> a, client |-> k]]
  /\ UNCHANGED <<now, revision, claims, runtime, waits, operations, feed>>

\* claim: acquire the lease of the session's task under request key <<a, k, r>>.
Claim(s, a, k, r, ttl) ==
  LET t == sessions[s].task
      fence == NextFence(t)
  IN
  /\ NewRequest(<<a, k, r>>)
  /\ sessions[s].state = "active"
  /\ sessions[s].actor = a
  /\ sessions[s].client = k
  /\ ~ runtime[t].recoveryBlocked
  /\ ~ OpenWaitOn(WorkOf(t))
  /\ ~ Taken(t)
  /\ EmitFrom(SweptRevision(t))
  /\ runtime' = [runtime EXCEPT ![t].lastFence = fence]
  /\ \E c \in ClaimIds :
       /\ Free(claims, c)
       /\ claims' = [Swept(t) EXCEPT ![c] =
                       [state |-> "active", task |-> t, session |-> s, actor |-> a,
                        fence |-> fence, version |-> 1, expires |-> now + ttl]]
       /\ feed' = [SweptFeed(t) EXCEPT ![c] = "active"]
       /\ StoreOperation(<<a, k, r>>,
            [op |-> "claim.acquire", session |-> s, ttl |-> ttl],
            [claim |-> c, fence |-> fence, version |-> 1, expires |-> now + ttl],
            revision')
  /\ UNCHANGED <<now, sessions, waits>>

\* renew: extend the lease; the session binding of the acquire must still hold,
\* and the claim must be active after the expiry sweep.  It emits no event of
\* its own.
Renew(c, a, k, r, ttl) ==
  LET t == claims[c].task
      s == claims[c].session
      version == claims[c].version + 1
  IN
  /\ NewRequest(<<a, k, r>>)
  /\ ~ Free(claims, c)
  /\ claims[c].actor = a
  /\ sessions[s].actor = a
  /\ sessions[s].client = k
  /\ sessions[s].state = "active"
  /\ StillActive(c)
  /\ claims' = [Swept(t) EXCEPT ![c].version = version, ![c].expires = now + ttl]
  /\ feed' = SweptFeed(t)
  /\ revision' = SweptRevision(t)
  /\ StoreOperation(<<a, k, r>>,
       [op |-> "claim.renew", claim |-> c, ttl |-> ttl],
       [claim |-> c, fence |-> claims[c].fence, version |-> version, expires |-> now + ttl],
       revision')
  /\ UNCHANGED <<now, sessions, runtime, waits>>

\* release: by the holder, while the row says active.  Neither the expiry nor
\* the session is looked at, and nothing is swept.
Release(c, a) ==
  /\ ~ Free(claims, c)
  /\ claims[c].actor = a
  /\ claims[c].state = "active"
  /\ claims' = [claims EXCEPT ![c].state = "released"]
  /\ feed' = [feed EXCEPT ![c] = "released"]
  /\ EmitFrom(revision)
  /\ UNCHANGED <<now, sessions, runtime, waits, operations>>

ExpireDue(t) ==
  /\ claims' = Swept(t)
  /\ feed' = SweptFeed(t)
  /\ revision' = SweptRevision(t)
  /\ UNCHANGED <<now, sessions, runtime, waits, operations>>

\* handoff: the holder passes its unexpired lease to a successor, which gets a
\* session, a claim and a fence of its own; the predecessor's session ends.
Handoff(c, a, successor, k) ==
  LET t == claims[c].task
      s == claims[c].session
      fence == NextFence(t)
  IN
  /\ ~ Free(claims, c)
  /\ claims[c].actor = a
  /\ StillActive(c)
  /\ EmitFrom(SweptRevision(t))
  /\ runtime' = [runtime EXCEPT ![t].lastFence = fence]
  /\ \E s2 \in SessionIds, c2 \in ClaimIds :
       /\ Free(sessions, s2)
       /\ Free(claims, c2)
       /\ sessions' = SessionsAfterHandoff(s, s2, t, successor, k)
       /\ claims' = [Swept(t) EXCEPT
            ![c].state = "handed_off",
            ![c2] = [state |-> "active", task |-> t, session |-> s2, actor |-> successor,
                     fence |-> fence, version |-> 1, expires |-> now + HandoffTTL]]
       /\ feed' = [SweptFeed(t) EXCEPT ![c] = "handed_off", ![c2] = "active"]
  /\ UNCHANGED <<now, waits, operations>>

\* wait: the holder of an unexpired claim asks a question.  The unique index
\* wait_items_one_open allows one open wait per work item, whatever the scope.
OpenWait(s, a) ==
  /\ \E c \in ClaimIds : Unexpired(c) /\ claims[c].session = s /\ claims[c].actor = a
  /\ ~ OpenWaitOn(WorkOf(sessions[s].task))
  /\ EmitFrom(revision)
  /\ \E i \in WaitIds :
       /\ Free(waits, i)
       /\ waits' = [waits EXCEPT ![i] =
                      [state |-> "open", session |-> s, work |-> WorkOf(sessions[s].task)]]
  /\ UNCHANGED <<now, sessions, claims, runtime, operations, feed>>

Reply(i) ==
  /\ waits[i].state = "open"
  /\ EmitFrom(revision)
  /\ waits' = [waits EXCEPT ![i].state = "replied"]
  /\ UNCHANGED <<now, sessions, claims, runtime, operations, feed>>

SetRecoveryBlocked(t, blocked) ==
  /\ EmitFrom(revision)
  /\ runtime' = [runtime EXCEPT ![t].recoveryBlocked = blocked]
  /\ UNCHANGED <<now, sessions, claims, waits, operations, feed>>

\* The database clock advances.
Tick ==
  /\ now < MaxTime
  /\ now' = now + 1
  /\ UNCHANGED <<revision, sessions, claims, runtime, waits, operations, feed>>

----------------------------------------------------------------------------

LeaseInit ==
  /\ now = 0
  /\ revision = 0
  /\ sessions = [s \in SessionIds |-> NoSession]
  /\ claims = [c \in ClaimIds |-> NoClaim]
  /\ runtime = [t \in Task |-> [lastFence |-> 0, recoveryBlocked |-> FALSE]]
  /\ waits = [i \in WaitIds |-> NoWait]
  /\ operations = [key \in RequestKey |-> NoReceipt]
  /\ feed = [c \in ClaimIds |-> "none"]

LeaseNext ==
  \/ \E a \in Actors, k \in Clients, t \in Task : StartSession(a, k, t)
  \/ \E s \in SessionIds, a \in Actors, k \in Clients, r \in RequestIds, ttl \in TTLs :
       Claim(s, a, k, r, ttl)
  \/ \E c \in ClaimIds, a \in Actors, k \in Clients, r \in RequestIds, ttl \in TTLs :
       Renew(c, a, k, r, ttl)
  \/ \E c \in ClaimIds, a \in Actors : Release(c, a)
  \/ \E t \in Task : ExpireDue(t)
  \/ \E c \in ClaimIds, a \in Actors, successor \in Actors, k \in Clients :
       Handoff(c, a, successor, k)
  \/ \E s \in SessionIds, a \in Actors : OpenWait(s, a)
  \/ \E i \in WaitIds : Reply(i)
  \/ \E t \in Task, blocked \in BOOLEAN : SetRecoveryBlocked(t, blocked)
  \/ Tick

LeaseSpec == LeaseInit /\ [][LeaseNext]_leaseVars
----------------------------------------------------------------------------
(* Properties. *)

LeaseTypeOK ==
  /\ now \in Nat
  /\ revision \in Nat
  /\ sessions \in [SessionIds -> Session \cup {NoSession}]
  /\ claims \in [ClaimIds -> ClaimRow \cup {NoClaim}]
  /\ runtime \in [Task -> [lastFence : Nat, recoveryBlocked : BOOLEAN]]
  /\ waits \in [WaitIds -> Wait \cup {NoWait}]
  /\ operations \in [RequestKey -> Receipt \cup {NoReceipt}]
  /\ feed \in [ClaimIds -> FeedState]

\* At most one claim of a task is active, so require_fence accepts at most one
\* (actor, fence) pair: "Claims are unique per work item while state='active'".
OneActiveClaim ==
  \A t \in Task : \A c1, c2 \in ActiveClaims(claims, t) : c1 = c2

\* No fence is ever issued twice on a task, none exceeds the task's counter,
\* and the active claim holds the newest: after a handoff, an expiry followed
\* by another claim, or a release, the previous holder's fence is stale for ever.
FencesOrdered ==
  \A c \in ClaimIds : ~ Free(claims, c) =>
    LET t == claims[c].task IN
    /\ claims[c].fence \in 1 .. runtime[t].lastFence
    /\ claims[c].state = "active" => claims[c].fence = runtime[t].lastFence
    /\ \A d \in ClaimIds :
         /\ ~ Free(claims, d)
         /\ claims[d].task = t
         /\ claims[d].fence = claims[c].fence
         => d = c

\* The session of an active claim is active and bound to the same actor and
\* task, and the session of a handed-off claim has ended: the predecessor of a
\* handoff cannot claim, renew or wait through the session it gave away.
HolderSessionBound ==
  \A c \in ClaimIds : ~ Free(claims, c) =>
    LET s == sessions[claims[c].session] IN
    /\ s.state # "none"
    /\ s.task = claims[c].task /\ s.actor = claims[c].actor
    /\ claims[c].state = "active" => s.state = "active"
    /\ claims[c].state = "handed_off" => s.state = "ended"

ReceiptsFor(op, c) ==
  {key \in RequestKey : /\ operations[key] # NoReceipt
                        /\ operations[key].hash.op = op
                        /\ operations[key].result.claim = c}

\* Each request is applied at most once, however often it is retried: a claim
\* comes from at most one acquire receipt, and its lease version counts its
\* renew receipts.
ReceiptsAccountForLeases ==
  \A c \in ClaimIds : ~ Free(claims, c) =>
    /\ Cardinality(ReceiptsFor("claim.acquire", c)) <= 1
    /\ claims[c].version = 1 + Cardinality(ReceiptsFor("claim.renew", c))

\* Whoever follows the event log knows the state of every claim: no operation
\* changes a claim's state without an event in the same transaction.
FeedTellsClaims == \A c \in ClaimIds : feed[c] = claims[c].state

----------------------------------------------------------------------------
(* The lease store implements FencedLease: the lease of a task is its        *)
(* active claim, whether or not a sweep has noticed that it ran out.         *)

LeaseOf(c) ==
  [holder |-> claims[c].actor, fence |-> claims[c].fence, until |-> claims[c].expires]

leaseBar == [t \in Task |-> {LeaseOf(c) : c \in ActiveClaims(claims, t)}]
topBar == [t \in Task |-> runtime[t].lastFence]
Yielded(t) ==
  {c \in ClaimIds : claims[c].state \in {"released", "handed_off"} /\ claims[c].task = t}
yieldedBar == [t \in Task |-> {claims[c].fence : c \in Yielded(t)}]

Promise == INSTANCE FencedLease
  WITH Tasks <- Task, Holders <- Actors, clock <- now,
       lease <- leaseBar, top <- topBar, yielded <- yieldedBar

\* Every step of every operation is a grant of a lapsed task under a fresh
\* fence, an extension of a running lease, a transfer its holder asked for, the
\* end of a lease that ran out or was given up, or invisible to the callers: no
\* sweep and no claim takes a running lease away.
PromiseKept == Promise!FencedSpec
=============================================================================
