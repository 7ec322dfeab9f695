---------------------------- MODULE LeaseProofs ----------------------------
(* Proofs about the lease store, for every value of its constants: its      *)
(* invariants, and that it implements FencedLease.                          *)
EXTENDS Lease, FiniteSetTheorems, TLAPS

----------------------------------------------------------------------------
(* The type of every table but the receipts, which the execution store       *)
(* shares: what follows holds in both specifications.                        *)

\* Restoring a backup interrupts sessions; no operation of this store does.
SessionRow == [state : {"active", "ended", "interrupted"}, task : Task, actor : Actors,
               client : Clients]

TablesOK ==
  /\ now \in Nat
  /\ revision \in Nat
  /\ sessions \in [SessionIds -> SessionRow \cup {NoSession}]
  /\ claims \in [ClaimIds -> ClaimRow \cup {NoClaim}]
  /\ runtime \in [Task -> [lastFence : Nat, recoveryBlocked : BOOLEAN]]
  /\ waits \in [WaitIds -> Wait \cup {NoWait}]
  /\ feed \in [ClaimIds -> FeedState]

----------------------------------------------------------------------------
(* What the expiry sweep preserves. *)

\* Two rows of the same lease: only state, version and expiry may differ.
SameLease(new, old) ==
  /\ new \in ClaimRow /\ old \in ClaimRow
  /\ new.task = old.task /\ new.session = old.session
  /\ new.actor = old.actor /\ new.fence = old.fence

\* A sweep emits finitely many events.
LEMMA SweptRevisionType ==
  ASSUME TablesOK, NEW t \in Task
  PROVE  SweptRevision(t) \in Nat
<1>1. Due(t) \subseteq ClaimIds
  BY DEF Due, ActiveClaims
<1>2. IsFiniteSet(Due(t))
  BY <1>1, FS_Subset, LeaseAssumption
<1>3. Cardinality(Due(t)) \in Nat
  BY <1>2, FS_CardinalityType
<1> QED
  BY <1>3 DEF SweptRevision, TablesOK

\* Setting version and expiry keeps the lease.
LEMMA ExtendedLease ==
  ASSUME NEW row \in ClaimRow, NEW v \in Nat, NEW e \in Nat
  PROVE  LET new == [[row EXCEPT !.version = v] EXCEPT !.expires = e] IN
         SameLease(new, row) /\ new.state = row.state
<1> DEFINE mid == [row EXCEPT !.version = v]
<1>1. SameLease(mid, row) /\ mid.state = row.state
  BY DEF ClaimRow, SameLease
<1> HIDE DEF mid
<1>2. SameLease([mid EXCEPT !.expires = e], mid) /\ [mid EXCEPT !.expires = e].state = mid.state
  BY <1>1 DEF ClaimRow, SameLease
<1>3. SameLease([mid EXCEPT !.expires = e], row)
  BY <1>1, <1>2 DEF SameLease
<1> QED
  BY <1>1, <1>2, <1>3 DEF mid

\* A row due to expire is an active claim of the task.
LEMMA DueClaim ==
  ASSUME TablesOK, NEW t \in Task, NEW d \in Due(t)
  PROVE  LET new == [claims[d] EXCEPT !.state = "expired"] IN
         /\ claims[d].state = "active" /\ claims[d].task = t /\ claims[d].expires <= now
         /\ SameLease(new, claims[d]) /\ new.state = "expired"
<1>1. /\ claims[d] \in ClaimRow /\ claims[d].state = "active"
      /\ claims[d].task = t /\ claims[d].expires <= now
  BY DEF Due, ActiveClaims, TablesOK, NoClaim
<1> QED
  BY <1>1 DEF ClaimRow, ClaimEnded, SameLease

LEMMA SweptType ==
  ASSUME TablesOK, NEW t \in Task
  PROVE  /\ Swept(t) \in [ClaimIds -> ClaimRow \cup {NoClaim}]
         /\ SweptFeed(t) \in [ClaimIds -> FeedState]
<1>1. Swept(t) \in [ClaimIds -> ClaimRow \cup {NoClaim}]
  BY DueClaim DEF Swept, TablesOK, SameLease
<1>2. SweptFeed(t) \in [ClaimIds -> FeedState]
  BY DEF SweptFeed, TablesOK, FeedState, ClaimEnded
<1> QED
  BY <1>1, <1>2

\* A sweep changes no column of a claim but its state, and that only from
\* active to expired.
LEMMA SweptClaim ==
  ASSUME TablesOK, NEW t \in Task, NEW c \in ClaimIds
  PROVE  \/ Swept(t)[c] = claims[c] /\ SweptFeed(t)[c] = feed[c]
         \/ /\ claims[c].state = "active" /\ claims[c].task = t
            /\ claims[c].expires <= now
            /\ SameLease(Swept(t)[c], claims[c]) /\ Swept(t)[c].state = "expired"
            /\ SweptFeed(t)[c] = "expired"
  BY DueClaim DEF Swept, SweptFeed

----------------------------------------------------------------------------
(* The inductive invariant.  Type correctness is not inductive alone: a     *)
(* handoff ends the session its claim names, which must therefore exist.    *)

LeaseCore ==
  /\ TablesOK
  /\ FencesOrdered
  /\ HolderSessionBound

\* What a restore would not leave: it revokes claims without an event for each.
NotRestored ==
  /\ FeedTellsClaims
  /\ \A s \in SessionIds : sessions[s].state # "interrupted"

LeaseKept == LeaseCore' /\ (NotRestored => NotRestored')

\* Two active claims of a task would both hold the task's newest fence.
LEMMA FencesExclude ==
  ASSUME FencesOrdered
  PROVE  OneActiveClaim
<1> SUFFICES ASSUME NEW t \in Task,
                    NEW c1 \in ActiveClaims(claims, t), NEW c2 \in ActiveClaims(claims, t)
             PROVE  c1 = c2
  BY DEF OneActiveClaim
<1>1. /\ c1 \in ClaimIds /\ ~ Free(claims, c1) /\ claims[c1].task = t
      /\ c2 \in ClaimIds /\ ~ Free(claims, c2) /\ claims[c2].task = t
      /\ claims[c1].state = "active" /\ claims[c2].state = "active"
  BY DEF ActiveClaims, Free
<1> QED
  BY <1>1 DEF FencesOrdered

LEMMA InitInv == LeaseInit => LeaseCore /\ NotRestored
<1> SUFFICES ASSUME LeaseInit PROVE LeaseCore /\ NotRestored
  OBVIOUS
<1>1. TablesOK
  BY DEF LeaseInit, TablesOK, FeedState
<1>2. FencesOrdered /\ HolderSessionBound /\ NotRestored
  BY DEF LeaseInit, FencesOrdered, HolderSessionBound, NotRestored, FeedTellsClaims, Free, NoClaim,
         NoSession
<1> QED
  BY <1>1, <1>2 DEF LeaseCore

\* Steps that leave claims, sessions, fences and the feed alone.
LEMMA ClaimsUntouched ==
  ASSUME LeaseCore, TablesOK',
         UNCHANGED <<claims, sessions, feed>>,
         \A t \in Task : runtime'[t].lastFence = runtime[t].lastFence
  PROVE  LeaseKept
<1>1. FencesOrdered'
  BY DEF LeaseCore, TablesOK, FencesOrdered, Free, ClaimRow, NoClaim
<1>2. HolderSessionBound' /\ (NotRestored => NotRestored')
  BY DEF LeaseCore, HolderSessionBound, NotRestored, FeedTellsClaims, Free
<1> QED
  BY <1>1, <1>2 DEF LeaseCore, LeaseKept

LEMMA StartSessionInv ==
  ASSUME LeaseCore, NEW a \in Actors, NEW k \in Clients, NEW t \in Task, StartSession(a, k, t)
  PROVE  LeaseKept
<1> USE DEF StartSession
<1>0. PICK s \in SessionIds :
        /\ Free(sessions, s)
        /\ sessions' = [sessions EXCEPT ![s] =
                          [state |-> "active", task |-> t, actor |-> a, client |-> k]]
  OBVIOUS
<1>1. TablesOK'
  BY <1>0 DEF LeaseCore, TablesOK, SessionRow
<1>2. FencesOrdered' /\ (NotRestored => NotRestored')
  BY <1>0 DEF LeaseCore, TablesOK, FencesOrdered, NotRestored, FeedTellsClaims, Free
<1>3. HolderSessionBound'
  BY <1>0 DEF LeaseCore, TablesOK, HolderSessionBound, Free, ClaimRow, NoClaim
<1> QED
  BY <1>1, <1>2, <1>3 DEF LeaseCore, LeaseKept

LEMMA ClaimInv ==
  ASSUME LeaseCore, NEW s \in SessionIds, NEW a \in Actors, NEW k \in Clients,
         NEW r \in RequestIds, NEW ttl \in TTLs, Claim(s, a, k, r, ttl)
  PROVE  LeaseKept
<1> DEFINE t == sessions[s].task
           fence == NextFence(t)
           row == [state |-> "active", task |-> t, session |-> s, actor |-> a,
                   fence |-> fence, version |-> 1, expires |-> now + ttl]
<1>1. sessions[s] \in SessionRow /\ sessions[s].state = "active" /\ sessions[s].actor = a
  BY DEF LeaseCore, TablesOK, Claim, NoSession
<1>2. t \in Task
  BY <1>1 DEF SessionRow
<1>3. runtime[t].lastFence \in Nat /\ fence = runtime[t].lastFence + 1
  BY <1>2 DEF LeaseCore, TablesOK, NextFence
<1>4. now + ttl \in Nat
  BY LeaseAssumption DEF LeaseCore, TablesOK
<1>5. row \in ClaimRow
  BY <1>2, <1>3, <1>4 DEF ClaimRow
<1>6. PICK c \in ClaimIds :
        /\ Free(claims, c)
        /\ claims' = [Swept(t) EXCEPT ![c] = row]
        /\ feed' = [SweptFeed(t) EXCEPT ![c] = "active"]
        /\ StoreOperation(<<a, k, r>>,
             [op |-> "claim.acquire", session |-> s, ttl |-> ttl],
             [claim |-> c, fence |-> fence, version |-> 1, expires |-> now + ttl],
             revision')
  BY DEF Claim
<1>7. /\ runtime' = [runtime EXCEPT ![t].lastFence = fence]
      /\ UNCHANGED <<now, sessions, waits>>
      /\ ~ Taken(t)
      /\ EmitFrom(SweptRevision(t))
  BY DEF Claim
<1>8. TablesOK'
  <2>1. revision' \in Nat
    BY <1>2, <1>7, SweptRevisionType DEF LeaseCore, EmitFrom
  <2>2. claims' \in [ClaimIds -> ClaimRow \cup {NoClaim}] /\ feed' \in [ClaimIds -> FeedState]
    BY <1>2, <1>5, <1>6, SweptType DEF LeaseCore, FeedState
  <2>3. runtime' \in [Task -> [lastFence : Nat, recoveryBlocked : BOOLEAN]]
    BY <1>2, <1>3, <1>7 DEF LeaseCore, TablesOK
  <2> QED
    BY <1>7, <2>1, <2>2, <2>3 DEF LeaseCore, TablesOK
<1>9. \A d \in ClaimIds : Swept(t)[d].state = "active" => Swept(t)[d].task # t
  BY <1>7 DEF Taken, ActiveClaims
<1>10. claims'[c] = row /\ feed'[c] = "active"
  BY <1>2, <1>6, SweptType DEF LeaseCore
<1>11. \A d \in ClaimIds \ {c} :
         /\ claims'[d] = Swept(t)[d] /\ feed'[d] = SweptFeed(t)[d]
         /\ \/ claims'[d] = claims[d] /\ feed'[d] = feed[d]
            \/ /\ claims[d].state = "active" /\ claims[d].task = t
               /\ SameLease(claims'[d], claims[d]) /\ claims'[d].state = "expired"
               /\ feed'[d] = "expired"
  BY <1>2, <1>6, SweptType, SweptClaim DEF LeaseCore
<1>12. FencesOrdered'
  BY <1>2, <1>3, <1>5, <1>7, <1>9, <1>10, <1>11
     DEF LeaseCore, TablesOK, FencesOrdered, Free, ClaimRow, NoClaim, SameLease
<1>13. HolderSessionBound'
  BY <1>1, <1>7, <1>10, <1>11 DEF LeaseCore, HolderSessionBound, Free, SameLease
<1>14. NotRestored => NotRestored'
  BY <1>7, <1>10, <1>11 DEF NotRestored, FeedTellsClaims
<1> QED
  BY <1>8, <1>12, <1>13, <1>14 DEF LeaseCore, LeaseKept

\* Steps that end or extend existing claims and touch no session and no fence.
LEMMA ClaimsEvolve ==
  ASSUME LeaseCore, TablesOK', UNCHANGED <<sessions, runtime>>,
         \A d \in ClaimIds :
           \/ claims'[d] = claims[d] /\ feed'[d] = feed[d]
           \/ /\ claims[d].state = "active" /\ SameLease(claims'[d], claims[d])
              /\ claims'[d].state # "handed_off"
              /\ FeedTellsClaims => feed'[d] = claims'[d].state
  PROVE  LeaseKept
<1>1. FencesOrdered'
  BY DEF LeaseCore, FencesOrdered, Free, SameLease
<1>2. HolderSessionBound'
  BY DEF LeaseCore, HolderSessionBound, Free, SameLease
<1>3. NotRestored => NotRestored'
  BY DEF NotRestored, FeedTellsClaims
<1> QED
  BY <1>1, <1>2, <1>3 DEF LeaseCore, LeaseKept

LEMMA RenewInv ==
  ASSUME LeaseCore, NEW c \in ClaimIds, NEW a \in Actors, NEW k \in Clients,
         NEW r \in RequestIds, NEW ttl \in TTLs, Renew(c, a, k, r, ttl)
  PROVE  LeaseKept
<1> DEFINE t == claims[c].task
           version == claims[c].version + 1
<1>1. /\ ~ Free(claims, c) /\ StillActive(c)
      /\ claims' = [Swept(t) EXCEPT ![c].version = version, ![c].expires = now + ttl]
      /\ feed' = SweptFeed(t)
      /\ revision' = SweptRevision(t)
      /\ StoreOperation(<<a, k, r>>,
           [op |-> "claim.renew", claim |-> c, ttl |-> ttl],
           [claim |-> c, fence |-> claims[c].fence, version |-> version,
            expires |-> now + ttl], revision')
      /\ UNCHANGED <<now, sessions, runtime, waits>>
  BY DEF Renew
<1>2. claims[c] \in ClaimRow /\ claims[c].state = "active" /\ t \in Task /\ now + ttl \in Nat
  BY <1>1, LeaseAssumption DEF LeaseCore, TablesOK, Free, NoClaim, ClaimRow, StillActive
<1>3. Swept(t)[c] = claims[c] /\ SweptFeed(t)[c] = feed[c]
  BY <1>1, <1>2, SweptClaim DEF LeaseCore, StillActive
<1>4. SameLease(claims'[c], claims[c]) /\ claims'[c].state = "active"
  <2>1. Swept(t) \in [ClaimIds -> ClaimRow \cup {NoClaim}]
    BY <1>2, SweptType DEF LeaseCore
  <2>2. claims'[c] = [[claims[c] EXCEPT !.version = version] EXCEPT !.expires = now + ttl]
    BY <1>1, <1>3, <2>1
  <2>3. version \in Nat
    BY <1>2 DEF ClaimRow
  <2> DEFINE new == [[claims[c] EXCEPT !.version = version] EXCEPT !.expires = now + ttl]
  <2>4. SameLease(new, claims[c]) /\ new.state = claims[c].state
    BY <1>2, <2>3, ExtendedLease
  <2>5. claims'[c] = new
    BY <2>2
  <2> HIDE DEF new
  <2> QED
    BY <1>2, <2>4, <2>5
<1>5. \A d \in ClaimIds \ {c} : claims'[d] = Swept(t)[d]
  BY <1>1, <1>2, SweptType DEF LeaseCore
<1>6. TablesOK'
  <2>1. revision' \in Nat
    BY <1>1, <1>2, SweptRevisionType DEF LeaseCore
  <2>2. Swept(t) \in [ClaimIds -> ClaimRow \cup {NoClaim}] /\ SweptFeed(t) \in [ClaimIds -> FeedState]
    BY <1>2, SweptType DEF LeaseCore
  <2>3. claims' \in [ClaimIds -> ClaimRow \cup {NoClaim}]
    BY <1>1, <1>4, <1>5, <2>2 DEF SameLease
  <2> QED
    BY <1>1, <2>1, <2>2, <2>3 DEF LeaseCore, TablesOK
<1>7. \A d \in ClaimIds :
        \/ claims'[d] = claims[d] /\ feed'[d] = feed[d]
        \/ /\ claims[d].state = "active" /\ SameLease(claims'[d], claims[d])
           /\ claims'[d].state # "handed_off"
           /\ FeedTellsClaims => feed'[d] = claims'[d].state
  <2>1. FeedTellsClaims => feed'[c] = claims'[c].state
    BY <1>1, <1>2, <1>3, <1>4 DEF LeaseCore, FeedTellsClaims
  <2>2. \A d \in ClaimIds \ {c} : claims'[d] = Swept(t)[d] /\ feed'[d] = SweptFeed(t)[d]
    BY <1>1, <1>5
  <2>3. \A d \in ClaimIds \ {c} :
          \/ claims'[d] = claims[d] /\ feed'[d] = feed[d]
          \/ /\ claims[d].state = "active" /\ SameLease(claims'[d], claims[d])
             /\ claims'[d].state = "expired" /\ feed'[d] = "expired"
    BY <1>2, <2>2, SweptClaim DEF LeaseCore
  <2> QED
    BY <1>2, <1>4, <2>1, <2>3
<1> QED
  BY <1>1, <1>6, <1>7, ClaimsEvolve

LEMMA ReleaseInv ==
  ASSUME LeaseCore, NEW c \in ClaimIds, NEW a \in Actors, Release(c, a)
  PROVE  LeaseKept
<1>1. /\ claims[c].state = "active"
      /\ claims' = [claims EXCEPT ![c].state = "released"]
      /\ feed' = [feed EXCEPT ![c] = "released"]
      /\ EmitFrom(revision)
      /\ UNCHANGED <<now, sessions, runtime, waits, operations>>
  BY DEF Release
<1>2. claims[c] \in ClaimRow
  BY <1>1 DEF LeaseCore, TablesOK, NoClaim
<1>3. SameLease(claims'[c], claims[c]) /\ claims'[c].state = "released"
  BY <1>1, <1>2 DEF LeaseCore, TablesOK, SameLease, ClaimRow, ClaimEnded
<1>4. TablesOK'
  BY <1>1, <1>3 DEF LeaseCore, TablesOK, EmitFrom, SameLease, FeedState, ClaimEnded
<1> QED
  BY <1>1, <1>3, <1>4, ClaimsEvolve DEF LeaseCore, TablesOK

LEMMA ExpireDueInv ==
  ASSUME LeaseCore, NEW t \in Task, ExpireDue(t)
  PROVE  LeaseKept
<1>1. TablesOK'
  <2>1. /\ SweptRevision(t) \in Nat
        /\ Swept(t) \in [ClaimIds -> ClaimRow \cup {NoClaim}]
        /\ SweptFeed(t) \in [ClaimIds -> FeedState]
    BY SweptRevisionType, SweptType DEF LeaseCore
  <2> QED
    BY <2>1 DEF LeaseCore, TablesOK, ExpireDue
<1>2. \A d \in ClaimIds :
        \/ claims'[d] = claims[d] /\ feed'[d] = feed[d]
        \/ /\ claims[d].state = "active" /\ SameLease(claims'[d], claims[d])
           /\ claims'[d].state # "handed_off" /\ feed'[d] = claims'[d].state
  BY SweptClaim DEF LeaseCore, ExpireDue
<1> QED
  BY <1>1, <1>2, ClaimsEvolve DEF ExpireDue
\* Ending a session keeps its binding.
LEMMA EndedSession ==
  ASSUME NEW row \in SessionRow
  PROVE  LET new == [row EXCEPT !.state = "ended"] IN
         /\ new \in SessionRow /\ new.state = "ended"
         /\ new.task = row.task /\ new.actor = row.actor
  BY DEF SessionRow

\* Handing a claim off keeps the lease.
LEMMA HandedOffLease ==
  ASSUME NEW row \in ClaimRow
  PROVE  LET new == [row EXCEPT !.state = "handed_off"] IN
         SameLease(new, row) /\ new.state = "handed_off"
  BY DEF ClaimRow, ClaimEnded, SameLease

LEMMA HandoffInv ==
  ASSUME LeaseCore, NEW c \in ClaimIds, NEW a \in Actors, NEW successor \in Actors,
         NEW k \in Clients, Handoff(c, a, successor, k)
  PROVE  LeaseKept
<1> DEFINE t == claims[c].task
           s == claims[c].session
           fence == NextFence(t)
           row(s2) == [state |-> "active", task |-> t, session |-> s2, actor |-> successor,
                       fence |-> fence, version |-> 1, expires |-> now + HandoffTTL]
<1>1. /\ ~ Free(claims, c) /\ StillActive(c)
      /\ EmitFrom(SweptRevision(t))
      /\ runtime' = [runtime EXCEPT ![t].lastFence = fence]
      /\ UNCHANGED <<now, waits, operations>>
  BY DEF Handoff
<1>2. PICK s2 \in SessionIds, c2 \in ClaimIds :
        /\ Free(sessions, s2)
        /\ Free(claims, c2)
        /\ sessions' = SessionsAfterHandoff(s, s2, t, successor, k)
        /\ claims' = [Swept(t) EXCEPT ![c].state = "handed_off", ![c2] = row(s2)]
        /\ feed' = [SweptFeed(t) EXCEPT ![c] = "handed_off", ![c2] = "active"]
  BY DEF Handoff
<1>3. claims[c] \in ClaimRow /\ claims[c].state = "active" /\ t \in Task /\ s \in SessionIds
  BY <1>1 DEF LeaseCore, TablesOK, Free, NoClaim, ClaimRow, StillActive
<1>4. sessions[s] \in SessionRow /\ sessions[s].task = t /\ sessions[s].actor = claims[c].actor
  BY <1>1, <1>3 DEF LeaseCore, TablesOK, HolderSessionBound, Free, NoSession
<1>5. s # s2 /\ c # c2
  BY <1>1, <1>2, <1>4 DEF Free, SessionRow
<1>6. runtime[t].lastFence \in Nat /\ fence = runtime[t].lastFence + 1
  BY <1>3 DEF LeaseCore, TablesOK, NextFence
<1>7. row(s2) \in ClaimRow
  BY <1>3, <1>6, LeaseAssumption DEF LeaseCore, TablesOK, ClaimRow
<1>8. Swept(t) \in [ClaimIds -> ClaimRow \cup {NoClaim}] /\ SweptFeed(t) \in [ClaimIds -> FeedState]
  BY <1>3, SweptType DEF LeaseCore
<1>9. Swept(t)[c] = claims[c] /\ SweptFeed(t)[c] = feed[c]
  BY <1>1, <1>3, SweptClaim DEF LeaseCore, StillActive
<1>10. /\ SameLease(claims'[c], claims[c]) /\ claims'[c].state = "handed_off"
       /\ feed'[c] = "handed_off"
  <2>1. claims'[c] = [claims[c] EXCEPT !.state = "handed_off"] /\ feed'[c] = "handed_off"
    BY <1>2, <1>5, <1>8, <1>9
  <2> QED
    BY <1>3, <2>1, HandedOffLease
<1>11. claims'[c2] = row(s2) /\ feed'[c2] = "active"
  BY <1>2, <1>8
<1>12. \A d \in ClaimIds \ {c, c2} :
         \/ claims'[d] = claims[d] /\ feed'[d] = feed[d]
         \/ /\ claims[d].state = "active" /\ claims[d].task = t
            /\ SameLease(claims'[d], claims[d]) /\ claims'[d].state = "expired"
            /\ feed'[d] = "expired"
  <2>1. \A d \in ClaimIds \ {c, c2} : claims'[d] = Swept(t)[d] /\ feed'[d] = SweptFeed(t)[d]
    BY <1>2, <1>8
  <2> QED
    BY <1>3, <2>1, SweptClaim DEF LeaseCore
<1>13. /\ sessions'[s] \in SessionRow /\ sessions'[s].state = "ended"
       /\ sessions'[s].task = t /\ sessions'[s].actor = claims[c].actor
       /\ sessions'[s2] \in SessionRow /\ sessions'[s2].state = "active"
       /\ sessions'[s2].task = t /\ sessions'[s2].actor = successor
       /\ \A x \in SessionIds \ {s, s2} : sessions'[x] = sessions[x]
       /\ sessions' \in [SessionIds -> SessionRow \cup {NoSession}]
  <2>1. sessions \in [SessionIds -> SessionRow \cup {NoSession}]
    BY DEF LeaseCore, TablesOK
  <2>2. sessions'[s] = [sessions[s] EXCEPT !.state = "ended"]
    BY <1>2, <1>3, <1>5, <2>1 DEF SessionsAfterHandoff
  <2>3. sessions'[s2] = [state |-> "active", task |-> t, actor |-> successor, client |-> k]
    BY <1>2, <2>1 DEF SessionsAfterHandoff
  <2>4. sessions'[s2] \in SessionRow
    BY <1>3, <2>3 DEF SessionRow
  <2>5. /\ sessions'[s] \in SessionRow /\ sessions'[s].state = "ended"
        /\ sessions'[s].task = t /\ sessions'[s].actor = claims[c].actor
    BY <1>4, <2>2, EndedSession
  <2>6. \A x \in SessionIds \ {s, s2} : sessions'[x] = sessions[x]
    BY <1>2, <1>3, <2>1 DEF SessionsAfterHandoff
  <2>7. sessions' \in [SessionIds -> SessionRow \cup {NoSession}]
    BY <1>2, <2>1, <2>4, <2>5, <2>6 DEF SessionsAfterHandoff
  <2> QED
    BY <2>3, <2>4, <2>5, <2>6, <2>7
<1>14. TablesOK'
  <2>1. revision' \in Nat
    BY <1>1, <1>3, SweptRevisionType DEF LeaseCore, EmitFrom
  <2>2. claims' \in [ClaimIds -> ClaimRow \cup {NoClaim}]
    <3>1. \A d \in ClaimIds : claims'[d] \in ClaimRow \cup {NoClaim}
      BY <1>7, <1>10, <1>11, <1>12 DEF SameLease, LeaseCore, TablesOK
    <3> QED
      BY <1>2, <1>8, <3>1
  <2>3. feed' \in [ClaimIds -> FeedState]
    BY <1>2, <1>8 DEF FeedState, ClaimEnded
  <2>4. runtime' \in [Task -> [lastFence : Nat, recoveryBlocked : BOOLEAN]]
    BY <1>1, <1>3, <1>6 DEF LeaseCore, TablesOK
  <2> QED
    BY <1>1, <1>13, <2>1, <2>2, <2>3, <2>4 DEF LeaseCore, TablesOK
<1>15. /\ runtime'[t].lastFence = runtime[t].lastFence + 1
       /\ \A x \in Task \ {t} : runtime'[x] = runtime[x]
  BY <1>1, <1>3, <1>6 DEF LeaseCore, TablesOK
<1>16. \A d \in ClaimIds \ {c, c2} : claims'[d].state = "active" => claims[d].task # t
  BY <1>3, <1>12, FencesExclude DEF LeaseCore, OneActiveClaim, ActiveClaims
<1>17. FencesOrdered'
  <2>1. \A d \in ClaimIds : ~ Free(claims, d) => claims[d] \in ClaimRow
    BY DEF LeaseCore, TablesOK, Free, NoClaim
  <2>2. \A d \in ClaimIds \ {c2} : Free(claims', d) <=> Free(claims, d)
    BY <1>3, <1>10, <1>12 DEF Free
  <2>3. \A d \in ClaimIds \ {c2} : ~ Free(claims, d) =>
          claims'[d].task = claims[d].task /\ claims'[d].fence = claims[d].fence
    BY <1>10, <1>12 DEF SameLease
  <2>4. \A d \in ClaimIds \ {c2} : ~ Free(claims, d) =>
          /\ claims[d].fence \in Nat /\ claims[d].task \in Task
          /\ claims[d].fence \in 1 .. runtime[claims[d].task].lastFence
    BY <2>1 DEF LeaseCore, FencesOrdered, ClaimRow
  <2>5. claims'[c2].task = t /\ claims'[c2].fence = runtime[t].lastFence + 1
    BY <1>6, <1>11
  <2>6. \A d \in ClaimIds \ {c2} : ~ Free(claims, d) /\ claims[d].task = t =>
          claims[d].fence # runtime[t].lastFence + 1
    BY <1>6, <2>4
  <2>7. \A d \in ClaimIds \ {c2} : ~ Free(claims, d) =>
          claims[d].fence \in 1 .. runtime'[claims[d].task].lastFence
    BY <1>6, <1>15, <2>4
  <2>8. \A d \in ClaimIds \ {c2} : claims'[d].state = "active" =>
          claims[d].state = "active" /\ claims[d].task # t
    BY <1>10, <1>12, <1>16
  <2>9. \A d \in ClaimIds \ {c2} : ~ Free(claims, d) /\ claims'[d].state = "active" =>
          claims[d].fence = runtime'[claims[d].task].lastFence
    BY <1>15, <2>4, <2>8 DEF LeaseCore, FencesOrdered
  <2>10. \A d, e \in ClaimIds \ {c2} :
           /\ ~ Free(claims, d) /\ ~ Free(claims, e)
           /\ claims[e].task = claims[d].task /\ claims[e].fence = claims[d].fence
           => e = d
    BY DEF LeaseCore, FencesOrdered
  <2> HIDE DEF row
  <2>11. \A d \in ClaimIds : ~ Free(claims', d) =>
           /\ claims'[d].fence \in 1 .. runtime'[claims'[d].task].lastFence
           /\ claims'[d].state = "active" =>
                claims'[d].fence = runtime'[claims'[d].task].lastFence
    BY <1>6, <1>15, <2>2, <2>3, <2>5, <2>7, <2>9
  <2>12. \A d, e \in ClaimIds :
           /\ ~ Free(claims', d) /\ ~ Free(claims', e)
           /\ claims'[e].task = claims'[d].task /\ claims'[e].fence = claims'[d].fence
           => e = d
    BY <2>2, <2>3, <2>5, <2>6, <2>10
  <2> QED
    BY <2>11, <2>12 DEF FencesOrdered, Free
<1>18. HolderSessionBound'
  <2>1. \A d \in ClaimIds \ {c, c2} : ~ Free(claims, d) =>
          claims[d].session # s2 /\ (claims[d].session = s => claims'[d].state # "active")
    BY <1>2, <1>4, <1>12, <1>16 DEF LeaseCore, HolderSessionBound, Free
  <2> QED
    BY <1>3, <1>4, <1>10, <1>11, <1>12, <1>13, <2>1
       DEF LeaseCore, TablesOK, HolderSessionBound, Free, SameLease, ClaimRow, SessionRow, NoClaim
<1>19. NotRestored => NotRestored'
  BY <1>10, <1>11, <1>12, <1>13 DEF NotRestored, FeedTellsClaims
<1> QED
  BY <1>14, <1>17, <1>18, <1>19 DEF LeaseCore, LeaseKept

LEMMA OpenWaitInv ==
  ASSUME LeaseCore, NEW s \in SessionIds, NEW a \in Actors, OpenWait(s, a)
  PROVE  LeaseKept
<1>1. PICK c \in ClaimIds : Unexpired(c) /\ claims[c].session = s /\ claims[c].actor = a
  BY DEF OpenWait
<1>2. sessions[s] \in SessionRow
  BY <1>1 DEF LeaseCore, TablesOK, HolderSessionBound, Unexpired, Free, NoSession
<1>3. WorkOf(sessions[s].task) \in Works
  BY <1>2 DEF SessionRow, Task, WorkOf
<1>4. TablesOK'
  BY <1>3 DEF LeaseCore, TablesOK, OpenWait, EmitFrom, Wait
<1> QED
  BY <1>4, ClaimsUntouched DEF OpenWait

LEMMA ReplyInv ==
  ASSUME LeaseCore, NEW i \in WaitIds, Reply(i)
  PROVE  LeaseKept
<1>1. waits[i] \in Wait
  BY DEF LeaseCore, TablesOK, Reply, NoWait
<1>2. [waits[i] EXCEPT !.state = "replied"] \in Wait
  BY <1>1 DEF Wait
<1>3. TablesOK'
  BY <1>2 DEF LeaseCore, TablesOK, Reply, EmitFrom
<1> QED
  BY <1>3, ClaimsUntouched DEF Reply

LEMMA SetRecoveryBlockedInv ==
  ASSUME LeaseCore, NEW t \in Task, NEW blocked \in BOOLEAN, SetRecoveryBlocked(t, blocked)
  PROVE  LeaseKept
<1>1. TablesOK'
  BY DEF LeaseCore, TablesOK, SetRecoveryBlocked, EmitFrom
<1>2. \A x \in Task : runtime'[x].lastFence = runtime[x].lastFence
  BY DEF LeaseCore, TablesOK, SetRecoveryBlocked
<1> QED
  BY <1>1, <1>2, ClaimsUntouched DEF SetRecoveryBlocked

LEMMA TickInv ==
  ASSUME LeaseCore, Tick
  PROVE  LeaseKept
<1>1. TablesOK'
  BY DEF LeaseCore, TablesOK, Tick
<1> QED
  BY <1>1, ClaimsUntouched DEF Tick

LEMMA NextInv ==
  ASSUME LeaseCore, [LeaseNext]_leaseVars
  PROVE  LeaseKept
<1>1. CASE LeaseNext
  BY <1>1, StartSessionInv, ClaimInv, RenewInv, ReleaseInv, ExpireDueInv, HandoffInv,
     OpenWaitInv, ReplyInv, SetRecoveryBlockedInv, TickInv DEF LeaseNext
<1>2. CASE UNCHANGED leaseVars
  <2>1. TablesOK'
    BY <1>2 DEF LeaseCore, TablesOK, leaseVars
  <2> QED
    BY <1>2, <2>1, ClaimsUntouched DEF leaseVars
<1> QED
  BY <1>1, <1>2

----------------------------------------------------------------------------
(* The receipts.  That they account for the leases is not inductive alone:  *)
(* a new claim must find no receipt under its identifier, and the receipts  *)
(* of a claim are counted only while they are finitely many.                *)

ReceiptsOK ==
  /\ operations \in [RequestKey -> Receipt \cup {NoReceipt}]
  /\ \A key \in RequestKey :
       operations[key] # NoReceipt => ~ Free(claims, operations[key].result.claim)
  /\ \A c \in ClaimIds : /\ IsFiniteSet(ReceiptsFor("claim.acquire", c))
                         /\ IsFiniteSet(ReceiptsFor("claim.renew", c))
  /\ ReceiptsAccountForLeases

LeaseInv == LeaseCore /\ NotRestored /\ ReceiptsOK

\* A stored receipt joins the receipts of its own operation and claim only.
LEMMA StoredReceipt ==
  ASSUME operations \in [RequestKey -> Receipt \cup {NoReceipt}],
         NEW key \in RequestKey, NewRequest(key),
         NEW hash \in AcquireHash \cup RenewHash, NEW result \in ClaimResult, NEW rev \in Nat,
         StoreOperation(key, hash, result, rev)
  PROVE  /\ operations' \in [RequestKey -> Receipt \cup {NoReceipt}]
         /\ operations'[key].result = result
         /\ \A x \in RequestKey \ {key} : operations'[x] = operations[x]
         /\ \A op, c :
              /\ key \notin ReceiptsFor(op, c)
              /\ ReceiptsFor(op, c)' = IF hash.op = op /\ result.claim = c
                                       THEN ReceiptsFor(op, c) \cup {key} ELSE ReceiptsFor(op, c)
<1> DEFINE row == [hash |-> hash, result |-> result, revision |-> rev]
<1>1. row \in Receipt
  BY DEF Receipt
<1>2. row # NoReceipt
  BY <1>1 DEF Receipt, NoReceipt
<1>3. operations' = [operations EXCEPT ![key] = row]
  BY DEF StoreOperation
<1>4. operations'[key] = row /\ \A x \in RequestKey \ {key} : operations'[x] = operations[x]
  BY <1>3
<1>5. row.hash = hash /\ row.result = result
  OBVIOUS
<1>6. operations[key] = NoReceipt
  BY DEF NewRequest
<1> HIDE DEF row
<1>7. operations' \in [RequestKey -> Receipt \cup {NoReceipt}]
  BY <1>1, <1>3
<1>8. ASSUME NEW op, NEW c
      PROVE  /\ key \notin ReceiptsFor(op, c)
             /\ ReceiptsFor(op, c)' = IF hash.op = op /\ result.claim = c
                                      THEN ReceiptsFor(op, c) \cup {key} ELSE ReceiptsFor(op, c)
  BY <1>2, <1>4, <1>5, <1>6 DEF ReceiptsFor
<1> QED
  BY <1>4, <1>5, <1>7, <1>8

\* A sweep leaves every lease version alone.
LEMMA SweptVersion ==
  ASSUME TablesOK, NEW t \in Task, NEW c \in ClaimIds, ~ Free(claims, c)
  PROVE  Swept(t)[c].version = claims[c].version /\ ~ Free(Swept(t), c)
<1>1. claims[c] \in ClaimRow
  BY DEF TablesOK, Free, NoClaim
<1> QED
  BY <1>1 DEF Swept, ClaimRow, Free

\* Steps that store no receipt and keep the rows and versions of all claims,
\* but for new ones that start at version 1.
LEMMA ReceiptsUntouched ==
  ASSUME LeaseInv, UNCHANGED operations,
         \A c \in ClaimIds :
           IF Free(claims, c) THEN ~ Free(claims', c) => claims'[c].version = 1
           ELSE ~ Free(claims', c) /\ claims'[c].version = claims[c].version
  PROVE  ReceiptsOK'
<1>1. \A op, c : ReceiptsFor(op, c)' = ReceiptsFor(op, c)
  BY DEF ReceiptsFor
<1>2. \A key \in RequestKey : operations[key] # NoReceipt => operations[key].result.claim \in ClaimIds
  BY DEF LeaseInv, ReceiptsOK, Receipt, ClaimResult
<1>3. \A op : \A c \in ClaimIds : Free(claims, c) => ReceiptsFor(op, c) = {}
  BY DEF LeaseInv, ReceiptsOK, ReceiptsFor
<1>4. ReceiptsAccountForLeases'
  BY <1>1, <1>3, FS_EmptySet DEF LeaseInv, ReceiptsOK, ReceiptsAccountForLeases
<1> QED
  BY <1>1, <1>2, <1>4 DEF LeaseInv, ReceiptsOK

LEMMA ClaimReceipts ==
  ASSUME LeaseInv, TablesOK', NEW s \in SessionIds, NEW a \in Actors, NEW k \in Clients,
         NEW r \in RequestIds, NEW ttl \in TTLs, Claim(s, a, k, r, ttl)
  PROVE  ReceiptsOK'
<1> DEFINE t == sessions[s].task
           fence == NextFence(t)
           key == <<a, k, r>>
           row == [state |-> "active", task |-> t, session |-> s, actor |-> a,
                   fence |-> fence, version |-> 1, expires |-> now + ttl]
           hash == [op |-> "claim.acquire", session |-> s, ttl |-> ttl]
<1>1. PICK c \in ClaimIds :
        /\ Free(claims, c)
        /\ claims' = [Swept(t) EXCEPT ![c] = row]
        /\ StoreOperation(key, hash,
             [claim |-> c, fence |-> fence, version |-> 1, expires |-> now + ttl], revision')
  BY DEF Claim
<1> DEFINE result == [claim |-> c, fence |-> fence, version |-> 1, expires |-> now + ttl]
<1>2. sessions[s] \in SessionRow /\ NewRequest(key) /\ key \in RequestKey
  BY DEF LeaseInv, LeaseCore, TablesOK, Claim, NoSession, RequestKey
<1>3. t \in Task /\ fence \in Nat /\ now + ttl \in Nat
  <2>1. t \in Task
    BY <1>2 DEF SessionRow
  <2> QED
    BY <2>1, LeaseAssumption DEF LeaseInv, LeaseCore, TablesOK, NextFence
<1>4. hash \in AcquireHash /\ hash.op = "claim.acquire" /\ result \in ClaimResult /\ result.claim = c
  BY <1>3 DEF AcquireHash, ClaimResult
<1>5. Swept(t) \in [ClaimIds -> ClaimRow \cup {NoClaim}]
  BY <1>3, SweptType DEF LeaseInv, LeaseCore
<1>6. /\ claims'[c].version = 1 /\ ~ Free(claims', c)
      /\ \A d \in ClaimIds \ {c} : ~ Free(claims, d) =>
           ~ Free(claims', d) /\ claims'[d].version = claims[d].version
      /\ \A d \in ClaimIds \ {c} : Free(claims, d) => Free(claims', d)
  <2>1. claims'[c] = row /\ \A d \in ClaimIds \ {c} : claims'[d] = Swept(t)[d]
    BY <1>1, <1>5
  <2>2. claims'[c].version = 1 /\ ~ Free(claims', c)
    BY <2>1 DEF Free
  <2>3. \A d \in ClaimIds : ~ Free(claims, d) =>
          ~ Free(Swept(t), d) /\ Swept(t)[d].version = claims[d].version
    BY <1>3, SweptVersion DEF LeaseInv, LeaseCore
  <2>4. \A d \in ClaimIds : Free(claims, d) => Free(Swept(t), d)
    BY DEF Swept, Free, Due, ActiveClaims
  <2> QED
    BY <2>1, <2>2, <2>3, <2>4 DEF Free
<1> HIDE DEF t, fence, key, row, hash, result
<1>7. /\ operations' \in [RequestKey -> Receipt \cup {NoReceipt}]
      /\ operations'[key].result = result
      /\ \A x \in RequestKey \ {key} : operations'[x] = operations[x]
      /\ \A op, d :
           ReceiptsFor(op, d)' = IF op = "claim.acquire" /\ d = c
                                 THEN ReceiptsFor(op, d) \cup {key} ELSE ReceiptsFor(op, d)
  <2>1. StoreOperation(key, hash, result, revision')
    BY <1>1 DEF result
  <2>2. revision' \in Nat
    BY DEF TablesOK
  <2> QED
    BY <1>2, <1>4, <2>1, <2>2, StoredReceipt DEF LeaseInv, ReceiptsOK
<1>8. \A op : ReceiptsFor(op, c) = {}
  BY <1>1 DEF LeaseInv, ReceiptsOK, ReceiptsFor
<1>9. /\ ReceiptsFor("claim.acquire", c)' = {key} /\ ReceiptsFor("claim.renew", c)' = {}
      /\ \A op : \A d \in ClaimIds \ {c} : ReceiptsFor(op, d)' = ReceiptsFor(op, d)
  BY <1>7, <1>8
<1>10. IsFiniteSet({key}) /\ Cardinality({key}) = 1 /\ IsFiniteSet({}) /\ Cardinality({}) = 0
  BY FS_EmptySet, FS_Singleton
<1>11. \A d \in ClaimIds : /\ IsFiniteSet(ReceiptsFor("claim.acquire", d)')
                           /\ IsFiniteSet(ReceiptsFor("claim.renew", d)')
  BY <1>9, <1>10 DEF LeaseInv, ReceiptsOK
<1>12. ReceiptsAccountForLeases'
  <2>1. /\ Cardinality(ReceiptsFor("claim.acquire", c)') = 1
        /\ Cardinality(ReceiptsFor("claim.renew", c)') = 0
    BY <1>9, <1>10, Zenon
  <2>2. \A d \in ClaimIds \ {c} : ~ Free(claims', d) =>
          /\ Cardinality(ReceiptsFor("claim.acquire", d)') <= 1
          /\ claims'[d].version = 1 + Cardinality(ReceiptsFor("claim.renew", d)')
    BY <1>6, <1>9 DEF LeaseInv, ReceiptsOK, ReceiptsAccountForLeases
  <2> QED
    BY <1>6, <2>1, <2>2 DEF ReceiptsAccountForLeases
<1>13. \A x \in RequestKey :
         operations'[x] # NoReceipt => ~ Free(claims', operations'[x].result.claim)
  <2>1. \A x \in RequestKey : operations[x] # NoReceipt => operations[x].result.claim \in ClaimIds
    BY DEF LeaseInv, ReceiptsOK, Receipt, ClaimResult
  <2> QED
    BY <1>4, <1>6, <1>7, <2>1 DEF LeaseInv, ReceiptsOK
<1> QED
  BY <1>7, <1>11, <1>12, <1>13 DEF ReceiptsOK

LEMMA RenewReceipts ==
  ASSUME LeaseInv, TablesOK', NEW c \in ClaimIds, NEW a \in Actors, NEW k \in Clients,
         NEW r \in RequestIds, NEW ttl \in TTLs, Renew(c, a, k, r, ttl)
  PROVE  ReceiptsOK'
<1> DEFINE t == claims[c].task
           version == claims[c].version + 1
           key == <<a, k, r>>
           hash == [op |-> "claim.renew", claim |-> c, ttl |-> ttl]
           result == [claim |-> c, fence |-> claims[c].fence, version |-> version,
                      expires |-> now + ttl]
<1>1. /\ NewRequest(key) /\ ~ Free(claims, c) /\ StillActive(c)
      /\ claims' = [Swept(t) EXCEPT ![c].version = version, ![c].expires = now + ttl]
      /\ StoreOperation(key, hash, result, revision')
  BY DEF Renew
<1>2. claims[c] \in ClaimRow /\ t \in Task /\ version \in Nat /\ now + ttl \in Nat
  BY <1>1, LeaseAssumption DEF LeaseInv, LeaseCore, TablesOK, Free, NoClaim, ClaimRow
<1>3. key \in RequestKey /\ hash \in RenewHash /\ hash.op = "claim.renew"
  BY DEF RequestKey, RenewHash
<1>4. result \in ClaimResult /\ result.claim = c
  BY <1>2 DEF ClaimResult, ClaimRow
<1>5. Swept(t) \in [ClaimIds -> ClaimRow \cup {NoClaim}]
  BY <1>2, SweptType DEF LeaseInv, LeaseCore
<1>6. /\ claims'[c].version = claims[c].version + 1
      /\ \A d \in ClaimIds : Free(claims', d) <=> Free(claims, d)
      /\ \A d \in ClaimIds \ {c} : ~ Free(claims, d) => claims'[d].version = claims[d].version
  <2>1. \A d \in ClaimIds \ {c} : claims'[d] = Swept(t)[d]
    BY <1>1, <1>5
  <2>2. claims'[c] = [[Swept(t)[c] EXCEPT !.version = version] EXCEPT !.expires = now + ttl]
    BY <1>1, <1>5
  <2>3. Swept(t)[c] \in ClaimRow
    BY <1>1, <1>2, <1>5, SweptVersion DEF LeaseInv, LeaseCore, Free, NoClaim
  <2>4. claims'[c].version = version /\ ~ Free(claims', c)
    BY <2>2, <2>3 DEF ClaimRow, ClaimEnded, Free
  <2>5. \A d \in ClaimIds : ~ Free(claims, d) =>
          ~ Free(Swept(t), d) /\ Swept(t)[d].version = claims[d].version
    BY <1>2, SweptVersion DEF LeaseInv, LeaseCore
  <2>6. \A d \in ClaimIds : Free(claims, d) => Free(Swept(t), d)
    BY DEF Swept, Free, Due, ActiveClaims
  <2> QED
    BY <1>1, <2>1, <2>4, <2>5, <2>6 DEF Free
<1> HIDE DEF t, version, key, hash, result
<1>7. /\ operations' \in [RequestKey -> Receipt \cup {NoReceipt}]
      /\ operations'[key].result = result
      /\ \A x \in RequestKey \ {key} : operations'[x] = operations[x]
      /\ \A op, d :
           /\ key \notin ReceiptsFor(op, d)
           /\ ReceiptsFor(op, d)' = IF op = "claim.renew" /\ d = c
                                    THEN ReceiptsFor(op, d) \cup {key} ELSE ReceiptsFor(op, d)
  <2>1. revision' \in Nat
    BY DEF TablesOK
  <2> QED
    BY <1>1, <1>3, <1>4, <2>1, StoredReceipt DEF LeaseInv, ReceiptsOK
<1>8. LET R == ReceiptsFor("claim.renew", c) IN
      IsFiniteSet(R \cup {key}) /\ Cardinality(R \cup {key}) = Cardinality(R) + 1
      /\ Cardinality(R) \in Nat
  BY <1>7, FS_AddElement, FS_CardinalityType DEF LeaseInv, ReceiptsOK
<1>9. /\ ReceiptsFor("claim.renew", c)' = ReceiptsFor("claim.renew", c) \cup {key}
      /\ ReceiptsFor("claim.acquire", c)' = ReceiptsFor("claim.acquire", c)
      /\ \A op : \A d \in ClaimIds \ {c} : ReceiptsFor(op, d)' = ReceiptsFor(op, d)
  BY <1>7
<1>10. \A d \in ClaimIds : /\ IsFiniteSet(ReceiptsFor("claim.acquire", d)')
                           /\ IsFiniteSet(ReceiptsFor("claim.renew", d)')
  BY <1>8, <1>9 DEF LeaseInv, ReceiptsOK
<1>11. ReceiptsAccountForLeases'
  <2>1. /\ Cardinality(ReceiptsFor("claim.acquire", c)) <= 1
        /\ claims[c].version = 1 + Cardinality(ReceiptsFor("claim.renew", c))
    BY <1>1 DEF LeaseInv, ReceiptsOK, ReceiptsAccountForLeases
  <2>2. /\ Cardinality(ReceiptsFor("claim.acquire", c)') <= 1
        /\ claims'[c].version = 1 + Cardinality(ReceiptsFor("claim.renew", c)')
    <3>1. /\ Cardinality(ReceiptsFor("claim.acquire", c)') = Cardinality(ReceiptsFor("claim.acquire", c))
          /\ Cardinality(ReceiptsFor("claim.renew", c)') = Cardinality(ReceiptsFor("claim.renew", c)) + 1
          /\ Cardinality(ReceiptsFor("claim.renew", c)) \in Nat
      BY <1>8, <1>9, Zenon
    <3> QED
      BY <1>6, <2>1, <3>1
  <2>3. \A d \in ClaimIds \ {c} : ~ Free(claims', d) =>
          /\ Cardinality(ReceiptsFor("claim.acquire", d)') <= 1
          /\ claims'[d].version = 1 + Cardinality(ReceiptsFor("claim.renew", d)')
    BY <1>6, <1>9 DEF LeaseInv, ReceiptsOK, ReceiptsAccountForLeases
  <2> QED
    BY <2>2, <2>3 DEF ReceiptsAccountForLeases
<1>12. \A x \in RequestKey :
         operations'[x] # NoReceipt => ~ Free(claims', operations'[x].result.claim)
  <2>1. \A x \in RequestKey : operations[x] # NoReceipt => operations[x].result.claim \in ClaimIds
    BY DEF LeaseInv, ReceiptsOK, Receipt, ClaimResult
  <2> QED
    BY <1>1, <1>4, <1>6, <1>7, <2>1 DEF LeaseInv, ReceiptsOK
<1> QED
  BY <1>7, <1>10, <1>11, <1>12 DEF ReceiptsOK

\* Every other operation stores no receipt; a handoff adds a claim without one.
LEMMA OtherReceipts ==
  ASSUME LeaseInv,
         \/ \E a \in Actors, k \in Clients, t \in Task : StartSession(a, k, t)
         \/ \E c \in ClaimIds, a \in Actors : Release(c, a)
         \/ \E t \in Task : ExpireDue(t)
         \/ \E c \in ClaimIds, a \in Actors, successor \in Actors, k \in Clients :
              Handoff(c, a, successor, k)
         \/ \E s \in SessionIds, a \in Actors : OpenWait(s, a)
         \/ \E i \in WaitIds : Reply(i)
         \/ \E t \in Task, blocked \in BOOLEAN : SetRecoveryBlocked(t, blocked)
         \/ Tick
  PROVE  ReceiptsOK'
<1>1. TablesOK /\ \A c \in ClaimIds : ~ Free(claims, c) => claims[c] \in ClaimRow
  BY DEF LeaseInv, LeaseCore, TablesOK, Free, NoClaim
<1>2. CASE UNCHANGED <<claims, operations>>
  BY <1>2, ReceiptsUntouched DEF Free
<1>3. ASSUME NEW c \in ClaimIds, NEW a \in Actors, Release(c, a) PROVE ReceiptsOK'
  <2>1. /\ claims' = [claims EXCEPT ![c].state = "released"] /\ ~ Free(claims, c)
        /\ UNCHANGED operations
    BY <1>3 DEF Release
  <2>2. claims'[c] = [claims[c] EXCEPT !.state = "released"]
        /\ \A d \in ClaimIds \ {c} : claims'[d] = claims[d]
    BY <1>1, <2>1 DEF TablesOK
  <2>3. claims'[c].version = claims[c].version /\ claims'[c].state = "released"
    BY <1>1, <2>1, <2>2 DEF ClaimRow
  <2> QED
    BY <2>1, <2>2, <2>3, ReceiptsUntouched DEF Free
<1>4. ASSUME NEW t \in Task, ExpireDue(t) PROVE ReceiptsOK'
  <2>1. claims' = Swept(t) /\ UNCHANGED operations
    BY <1>4 DEF ExpireDue
  <2>2. \A c \in ClaimIds : Free(claims, c) => Free(Swept(t), c)
    BY DEF Swept, Free, Due, ActiveClaims
  <2> QED
    BY <1>1, <2>1, <2>2, SweptVersion, ReceiptsUntouched
<1>5. ASSUME NEW c \in ClaimIds, NEW a \in Actors, NEW successor \in Actors, NEW k \in Clients,
             Handoff(c, a, successor, k)
      PROVE  ReceiptsOK'
  <2> DEFINE t == claims[c].task
  <2>1. PICK s2 \in SessionIds, c2 \in ClaimIds :
          /\ Free(claims, c2)
          /\ claims' = [Swept(t) EXCEPT
               ![c].state = "handed_off",
               ![c2] = [state |-> "active", task |-> t, session |-> s2, actor |-> successor,
                        fence |-> NextFence(t), version |-> 1, expires |-> now + HandoffTTL]]
    BY <1>5 DEF Handoff
  <2>2. ~ Free(claims, c) /\ UNCHANGED operations
    BY <1>5 DEF Handoff
  <2>3. t \in Task /\ c # c2
    BY <1>1, <2>1, <2>2 DEF ClaimRow
  <2>4. Swept(t) \in [ClaimIds -> ClaimRow \cup {NoClaim}]
    BY <1>1, <2>3, SweptType
  <2>5. \A d \in ClaimIds : ~ Free(claims, d) =>
          ~ Free(Swept(t), d) /\ Swept(t)[d].version = claims[d].version
    BY <1>1, <2>3, SweptVersion
  <2>6. Swept(t)[c] \in ClaimRow
    BY <2>2, <2>4, <2>5 DEF Free, NoClaim
  <2>7. /\ claims'[c] = [Swept(t)[c] EXCEPT !.state = "handed_off"]
        /\ claims'[c2].version = 1
        /\ \A d \in ClaimIds \ {c, c2} : claims'[d] = Swept(t)[d]
    BY <2>1, <2>3, <2>4
  <2>8. claims'[c].version = claims[c].version /\ claims'[c].state = "handed_off"
    BY <2>2, <2>5, <2>6, <2>7 DEF ClaimRow
  <2>9. \A d \in ClaimIds : Free(claims, d) => Free(Swept(t), d)
    BY DEF Swept, Free, Due, ActiveClaims
  <2> HIDE DEF t
  <2>10. \A d \in ClaimIds :
           IF Free(claims, d) THEN ~ Free(claims', d) => claims'[d].version = 1
           ELSE ~ Free(claims', d) /\ claims'[d].version = claims[d].version
    <3>1. \A d \in ClaimIds \ {c, c2} : Free(claims', d) <=> Free(claims, d)
      BY <2>5, <2>7, <2>9 DEF Free
    <3>2. ~ Free(claims', c)
      BY <2>8 DEF Free
    <3>3. \A d \in ClaimIds \ {c, c2} : ~ Free(claims, d) => claims'[d].version = claims[d].version
      BY <2>5, <2>7
    <3> QED
      BY <2>1, <2>2, <2>7, <2>8, <3>1, <3>2, <3>3
  <2> QED
    BY <2>2, <2>10, ReceiptsUntouched
<1> QED
  BY <1>2, <1>3, <1>4, <1>5 DEF StartSession, OpenWait, Reply, SetRecoveryBlocked, Tick

----------------------------------------------------------------------------
(* Theorems. *)

\* The inductive invariant holds in every reachable state of the lease store.
THEOREM LeaseInvariant == LeaseSpec => []LeaseInv
<1>1. ASSUME LeaseInit PROVE LeaseInv
  <2>1. LeaseCore /\ NotRestored
    BY <1>1, InitInv
  <2>2. \A op, c : ReceiptsFor(op, c) = {}
    BY <1>1 DEF LeaseInit, ReceiptsFor
  <2>3. ReceiptsOK
    BY <1>1, <2>2, FS_EmptySet
       DEF LeaseInit, ReceiptsOK, ReceiptsAccountForLeases, Free, NoClaim
  <2> QED
    BY <2>1, <2>3 DEF LeaseInv
<1>2. ASSUME LeaseInv, [LeaseNext]_leaseVars PROVE LeaseInv'
  <2>1. LeaseCore' /\ NotRestored'
    BY <1>2, NextInv DEF LeaseInv, LeaseKept
  <2>2. TablesOK'
    BY <2>1 DEF LeaseCore
  <2>3. CASE UNCHANGED leaseVars
    BY <1>2, <2>1, <2>3, ReceiptsUntouched DEF leaseVars, LeaseInv, Free
  <2>4. CASE LeaseNext
    <3>1. CASE \E s \in SessionIds, a \in Actors, k \in Clients, r \in RequestIds, ttl \in TTLs :
                 Claim(s, a, k, r, ttl)
      BY <1>2, <2>1, <2>2, <3>1, ClaimReceipts DEF LeaseInv
    <3>2. CASE \E c \in ClaimIds, a \in Actors, k \in Clients, r \in RequestIds, ttl \in TTLs :
                 Renew(c, a, k, r, ttl)
      BY <1>2, <2>1, <2>2, <3>2, RenewReceipts DEF LeaseInv
    <3> QED
      BY <1>2, <2>1, <2>4, <3>1, <3>2, OtherReceipts DEF LeaseInv, LeaseNext
  <2> QED
    BY <1>2, <2>3, <2>4
<1> QED
  BY <1>1, <1>2, PTL DEF LeaseSpec

\* Every table keeps its type.
THEOREM LeaseTypeCorrect == LeaseSpec => []LeaseTypeOK
<1>1. LeaseInv => LeaseTypeOK
  <2> SUFFICES ASSUME LeaseInv PROVE LeaseTypeOK
    OBVIOUS
  <2>1. \A s \in SessionIds : sessions[s] \in Session \cup {NoSession}
    BY DEF LeaseInv, LeaseCore, TablesOK, NotRestored, SessionRow, Session
  <2> QED
    BY <2>1 DEF LeaseInv, LeaseCore, TablesOK, ReceiptsOK, LeaseTypeOK
<1> QED
  BY <1>1, LeaseInvariant, PTL

\* At most one claim of a task is active.
THEOREM LeaseExclusive == LeaseSpec => []OneActiveClaim
<1>1. LeaseInv => OneActiveClaim
  BY FencesExclude DEF LeaseInv, LeaseCore
<1> QED
  BY <1>1, LeaseInvariant, PTL

\* No fence is issued twice, and the active claim holds the newest.
THEOREM FencesAreOrdered == LeaseSpec => []FencesOrdered
<1>1. LeaseInv => FencesOrdered
  BY DEF LeaseInv, LeaseCore
<1> QED
  BY <1>1, LeaseInvariant, PTL

\* The session behind an active claim is active, behind a handed-off one ended.
THEOREM SessionsFollowHandoffs == LeaseSpec => []HolderSessionBound
<1>1. LeaseInv => HolderSessionBound
  BY DEF LeaseInv, LeaseCore
<1> QED
  BY <1>1, LeaseInvariant, PTL

\* The event log tells the state of every claim.
THEOREM FeedIsFaithful == LeaseSpec => []FeedTellsClaims
<1>1. LeaseInv => FeedTellsClaims
  BY DEF LeaseInv, NotRestored
<1> QED
  BY <1>1, LeaseInvariant, PTL

\* Every request is applied at most once: a claim comes from at most one acquire
\* receipt, and its version counts its renew receipts.
THEOREM RequestsApplyOnce == LeaseSpec => []ReceiptsAccountForLeases
<1>1. LeaseInv => ReceiptsAccountForLeases
  BY DEF LeaseInv, ReceiptsOK
<1> QED
  BY <1>1, LeaseInvariant, PTL

----------------------------------------------------------------------------
(* The lease store implements FencedLease: how the refinement mapping follows *)
(* the claims table.                                                         *)

\* The abstract lease of a task with one active claim.
LEMMA SoleLease ==
  ASSUME NEW t \in Task, NEW c \in ClaimIds, ActiveClaims(claims, t) = {c}
  PROVE  leaseBar[t] = {LeaseOf(c)}
  BY DEF leaseBar

LEMMA SoleFence ==
  ASSUME NEW t \in Task, NEW c \in ClaimIds, ActiveClaims(claims, t) = {c}
  PROVE  {l.fence : l \in leaseBar[t]} = {claims[c].fence}
<1>1. leaseBar[t] = {LeaseOf(c)}
  BY SoleLease
<1>2. LeaseOf(c).fence = claims[c].fence
  BY DEF LeaseOf
<1> QED
  BY <1>1, <1>2

\* An active claim is the only one of its task.
LEMMA SoleClaim ==
  ASSUME LeaseCore, NEW c \in ClaimIds, claims[c].state = "active"
  PROVE  /\ claims[c] \in ClaimRow /\ claims[c].task \in Task
         /\ ActiveClaims(claims, claims[c].task) = {c}
<1>1. claims[c] \in ClaimRow
  BY DEF LeaseCore, TablesOK, NoClaim
<1>2. claims[c].task \in Task
  BY <1>1 DEF ClaimRow
<1>3. c \in ActiveClaims(claims, claims[c].task)
  BY DEF ActiveClaims
<1>4. \A d \in ActiveClaims(claims, claims[c].task) : d = c
  BY <1>2, <1>3, FencesExclude DEF LeaseCore, OneActiveClaim
<1> QED
  BY <1>1, <1>2, <1>3, <1>4

\* A step that touches only claims of task t leaves the other tasks alone.
LEMMA OtherTasks ==
  ASSUME NEW t \in Task,
         \A d \in ClaimIds :
           \/ claims'[d] = claims[d]
           \/ (Free(claims, d) \/ claims[d].task = t) /\ claims'[d].task = t
  PROVE  \A u \in Task \ {t} : leaseBar'[u] = leaseBar[u] /\ yieldedBar'[u] = yieldedBar[u]
<1> SUFFICES ASSUME NEW u \in Task \ {t}
             PROVE  leaseBar'[u] = leaseBar[u] /\ yieldedBar'[u] = yieldedBar[u]
  OBVIOUS
<1>1. ActiveClaims(claims, u)' = ActiveClaims(claims, u) /\ Yielded(u)' = Yielded(u)
  BY DEF ActiveClaims, Yielded, Free
<1>2. \A d \in ActiveClaims(claims, u) : LeaseOf(d)' = LeaseOf(d)
  BY DEF ActiveClaims, Free, LeaseOf
<1>3. \A d \in Yielded(u) : claims'[d].fence = claims[d].fence
  BY DEF Yielded, Free
<1>4. leaseBar'[u] = leaseBar[u]
  BY <1>1, <1>2 DEF leaseBar
<1>5. yieldedBar'[u] = yieldedBar[u]
  BY <1>1, <1>3 DEF yieldedBar
<1> QED
  BY <1>4, <1>5

\* ... so the mapping changes at t alone.
LEMMA ChangedAt ==
  ASSUME NEW t \in Task, NEW L, NEW Y,
         \A d \in ClaimIds :
           \/ claims'[d] = claims[d]
           \/ (Free(claims, d) \/ claims[d].task = t) /\ claims'[d].task = t,
         leaseBar'[t] = L, yieldedBar'[t] = Y
  PROVE  /\ leaseBar' = [leaseBar EXCEPT ![t] = L]
         /\ yieldedBar' = [yieldedBar EXCEPT ![t] = Y]
<1>1. \A u \in Task \ {t} : leaseBar'[u] = leaseBar[u] /\ yieldedBar'[u] = yieldedBar[u]
  BY OtherTasks
<1>2. leaseBar' = [leaseBar EXCEPT ![t] = L]
  BY <1>1 DEF leaseBar
<1>3. yieldedBar' = [yieldedBar EXCEPT ![t] = Y]
  BY <1>1 DEF yieldedBar
<1> QED
  BY <1>2, <1>3

LEMMA MappingUntouched ==
  ASSUME UNCHANGED claims, \A t \in Task : runtime'[t].lastFence = runtime[t].lastFence
  PROVE  UNCHANGED <<leaseBar, topBar, yieldedBar>>
<1>1. leaseBar' = leaseBar
  BY DEF leaseBar, LeaseOf, ActiveClaims
<1>2. yieldedBar' = yieldedBar
  BY DEF yieldedBar, Yielded
<1>3. topBar' = topBar
  BY DEF topBar
<1> QED
  BY <1>1, <1>2, <1>3

----------------------------------------------------------------------------
(* One lemma per operation: what callers see of it. *)

Step == [Promise!FencedNext]_(Promise!fencedVars)

LEMMA InvisibleStep ==
  ASSUME UNCHANGED <<claims, now>>, \A t \in Task : runtime'[t].lastFence = runtime[t].lastFence
  PROVE  Step
  BY MappingUntouched DEF Step, Promise!fencedVars

LEMMA TickStep ==
  ASSUME Tick
  PROVE  Step
<1>1. UNCHANGED <<leaseBar, topBar, yieldedBar>> /\ now' = now + 1
  BY MappingUntouched DEF Tick
<1>2. Promise!Advance
  BY <1>1 DEF Promise!Advance
<1> QED
  BY <1>2 DEF Step, Promise!FencedNext

\* A holder gives up its lease.
LEMMA ReleaseStep ==
  ASSUME LeaseCore, NEW c \in ClaimIds, NEW a \in Actors, Release(c, a)
  PROVE  Step
<1>1. /\ claims[c].state = "active"
      /\ claims' = [claims EXCEPT ![c].state = "released"]
      /\ UNCHANGED <<now, runtime>>
  BY DEF Release
<1>2. PICK t \in Task : /\ t = claims[c].task /\ claims[c] \in ClaimRow
                        /\ ActiveClaims(claims, t) = {c}
  BY <1>1, SoleClaim
<1>3. SameLease(claims'[c], claims[c]) /\ claims'[c].state = "released"
  BY <1>1, <1>2 DEF LeaseCore, TablesOK, SameLease, ClaimRow, ClaimEnded
<1>4. \A d \in ClaimIds \ {c} : claims'[d] = claims[d]
  BY <1>1 DEF LeaseCore, TablesOK
<1>5. ActiveClaims(claims, t)' = {}
  BY <1>2, <1>3, <1>4 DEF ActiveClaims
<1>6. leaseBar'[t] = {}
  BY <1>2, <1>5 DEF leaseBar
<1>7. Yielded(t)' = Yielded(t) \cup {c}
  BY <1>1, <1>2, <1>3, <1>4 DEF Yielded, SameLease
<1>8. \A d \in Yielded(t)' : claims'[d].fence = claims[d].fence
  BY <1>2, <1>3, <1>4 DEF Yielded, SameLease
<1>9. yieldedBar'[t] = yieldedBar[t] \cup {claims[c].fence}
  BY <1>2, <1>7, <1>8 DEF yieldedBar
<1>10. /\ leaseBar' = [leaseBar EXCEPT ![t] = {}]
       /\ yieldedBar' = [yieldedBar EXCEPT ![t] = yieldedBar[t] \cup {claims[c].fence}]
  <2>1. \A d \in ClaimIds :
          \/ claims'[d] = claims[d]
          \/ (Free(claims, d) \/ claims[d].task = t) /\ claims'[d].task = t
    BY <1>2, <1>3, <1>4 DEF SameLease
  <2> QED
    BY <1>2, <1>6, <1>9, <2>1, ChangedAt
<1>11. {l.fence : l \in leaseBar[t]} = {claims[c].fence}
  BY <1>2, SoleFence
<1>12. topBar' = topBar /\ now' = now
  BY <1>1 DEF topBar
<1>13. Promise!Yielding(t)
  BY <1>2, <1>10, <1>11 DEF Promise!Yielding, yieldedBar
<1>14. Promise!End(t)
  BY <1>10, <1>12, <1>13 DEF Promise!End
<1> QED
  BY <1>2, <1>14 DEF Step, Promise!FencedNext

\* What a sweep makes of task t: nothing, or the end of a lease that ran out.
LEMMA ExpireDueStep ==
  ASSUME LeaseCore, NEW t \in Task, ExpireDue(t)
  PROVE  Step
<1>1. claims' = Swept(t) /\ UNCHANGED <<now, runtime>>
  BY DEF ExpireDue
<1>2. CASE Due(t) = {}
  <2>1. claims' = claims
    BY <1>1, <1>2 DEF Swept, LeaseCore, TablesOK
  <2> QED
    BY <1>1, <2>1, InvisibleStep
<1>3. CASE Due(t) # {}
  <2>1. PICK c \in ClaimIds : c \in Due(t)
    BY <1>3 DEF Due, ActiveClaims
  <2>2. /\ claims[c].state = "active" /\ claims[c].task = t /\ claims[c].expires <= now
        /\ SameLease(claims'[c], claims[c]) /\ claims'[c].state = "expired"
    BY <1>1, <2>1, DueClaim DEF LeaseCore, Swept
  <2>3. ActiveClaims(claims, t) = {c}
    BY <2>2, SoleClaim
  <2>4. \A d \in ClaimIds \ {c} : claims'[d] = claims[d]
    BY <1>1, <2>3 DEF Swept, Due
  <2>5. ActiveClaims(claims, t)' = {}
    BY <2>2, <2>3, <2>4 DEF ActiveClaims
  <2>6. leaseBar'[t] = {}
    BY <2>5 DEF leaseBar
  <2>7. Yielded(t)' = Yielded(t) /\ \A d \in Yielded(t) : claims'[d].fence = claims[d].fence
    BY <2>2, <2>4 DEF Yielded
  <2>8. yieldedBar'[t] = yieldedBar[t]
    BY <2>7 DEF yieldedBar
  <2>9. /\ leaseBar' = [leaseBar EXCEPT ![t] = {}]
        /\ yieldedBar' = [yieldedBar EXCEPT ![t] = yieldedBar[t]]
    <3>1. \A d \in ClaimIds :
            \/ claims'[d] = claims[d]
            \/ (Free(claims, d) \/ claims[d].task = t) /\ claims'[d].task = t
      BY <2>2, <2>4 DEF SameLease
    <3> QED
      BY <2>6, <2>8, <3>1, ChangedAt
  <2>10. yieldedBar' = yieldedBar
    BY <2>9 DEF yieldedBar
  <2>11. Promise!Lapsed(t)
    BY <2>2, <2>3, SoleLease DEF Promise!Lapsed, LeaseOf
  <2>12. topBar' = topBar
    BY <1>1 DEF topBar
  <2>13. Promise!End(t)
    BY <1>1, <2>9, <2>10, <2>11, <2>12 DEF Promise!End
  <2> QED
    BY <2>13 DEF Step, Promise!FencedNext
<1> QED
  BY <1>2, <1>3

\* A running lease gets another deadline.
LEMMA RenewStep ==
  ASSUME LeaseCore, NEW c \in ClaimIds, NEW a \in Actors, NEW k \in Clients,
         NEW r \in RequestIds, NEW ttl \in TTLs, Renew(c, a, k, r, ttl)
  PROVE  Step
<1>1. /\ ~ Free(claims, c) /\ StillActive(c)
      /\ UNCHANGED <<now, runtime>>
  BY DEF Renew
<1>2. PICK t \in Task : /\ t = claims[c].task /\ claims[c] \in ClaimRow
                        /\ claims[c].state = "active" /\ ActiveClaims(claims, t) = {c}
  BY <1>1, SoleClaim DEF StillActive
<1>3. claims' = [Swept(t) EXCEPT ![c].version = claims[c].version + 1, ![c].expires = now + ttl]
  BY <1>2 DEF Renew
<1>4. Swept(t)[c] = claims[c] /\ claims[c].expires > now
  <2>1. c \notin Due(t)
    BY <1>1, <1>2 DEF StillActive, Swept
  <2>2. claims[c].expires \in Nat /\ now \in Nat
    BY <1>2 DEF ClaimRow, LeaseCore, TablesOK
  <2> QED
    BY <1>2, <2>1, <2>2 DEF Due, Swept
<1>5. \A d \in ClaimIds \ {c} : claims'[d] = claims[d]
  BY <1>2, <1>3 DEF Swept, Due
<1>6. now + ttl \in Nat /\ claims[c].version + 1 \in Nat
  BY <1>2, LeaseAssumption DEF LeaseCore, TablesOK, ClaimRow
<1>7. claims'[c] = [[claims[c] EXCEPT !.version = claims[c].version + 1] EXCEPT !.expires = now + ttl]
  BY <1>3, <1>4 DEF Swept
<1>8. SameLease(claims'[c], claims[c]) /\ claims'[c].state = "active" /\ claims'[c].expires \in Nat
  <2> DEFINE new == [[claims[c] EXCEPT !.version = claims[c].version + 1] EXCEPT !.expires = now + ttl]
  <2>1. SameLease(new, claims[c]) /\ new.state = claims[c].state
    BY <1>2, <1>6, ExtendedLease
  <2>2. claims'[c] = new
    BY <1>7
  <2> HIDE DEF new
  <2> QED
    BY <1>2, <2>1, <2>2 DEF SameLease, ClaimRow
<1>9. ActiveClaims(claims, t)' = {c}
  BY <1>2, <1>5, <1>8 DEF ActiveClaims, SameLease
<1>10. leaseBar'[t] = {LeaseOf(c)'}
  BY <1>9 DEF leaseBar
<1>11. Yielded(t)' = Yielded(t) /\ \A d \in Yielded(t) : claims'[d].fence = claims[d].fence
  BY <1>2, <1>5, <1>8 DEF Yielded
<1>12. yieldedBar'[t] = yieldedBar[t]
  BY <1>11 DEF yieldedBar
<1>13. /\ leaseBar' = [leaseBar EXCEPT ![t] = {LeaseOf(c)'}]
       /\ yieldedBar' = [yieldedBar EXCEPT ![t] = yieldedBar[t]]
  <2>1. \A d \in ClaimIds :
          \/ claims'[d] = claims[d]
          \/ (Free(claims, d) \/ claims[d].task = t) /\ claims'[d].task = t
    BY <1>2, <1>5, <1>8 DEF SameLease
  <2> QED
    BY <1>10, <1>12, <2>1, ChangedAt
<1>14. yieldedBar' = yieldedBar /\ topBar' = topBar
  BY <1>1, <1>13 DEF yieldedBar, topBar
<1>15. leaseBar[t] = {LeaseOf(c)}
  BY <1>2, SoleLease
<1>16. Promise!Running(t)
  BY <1>4, <1>15 DEF Promise!Running, LeaseOf
<1>17. /\ LeaseOf(c)' \in Promise!LeaseRecord
       /\ LeaseOf(c)'.holder = LeaseOf(c).holder /\ LeaseOf(c)'.fence = LeaseOf(c).fence
  BY <1>8 DEF LeaseOf, SameLease, ClaimRow, Promise!LeaseRecord
<1>18. Promise!Extend(t, LeaseOf(c)')
  BY <1>1, <1>13, <1>14, <1>15, <1>16, <1>17 DEF Promise!Extend
<1> QED
  BY <1>10, <1>18 DEF Step, Promise!FencedNext

\* The step gives task t to claim c with a fresh fence.
GivesTo(t, c) ==
  /\ ActiveClaims(claims, t)' = {c}
  /\ claims'[c] \in ClaimRow
  /\ claims'[c].fence = runtime[t].lastFence + 1
  /\ runtime' = [runtime EXCEPT ![t].lastFence = runtime[t].lastFence + 1]
  /\ now' = now
  /\ \A d \in ClaimIds :
       \/ claims'[d] = claims[d]
       \/ (Free(claims, d) \/ claims[d].task = t) /\ claims'[d].task = t

LEMMA GivenLease ==
  ASSUME LeaseCore, NEW t \in Task, NEW c \in ClaimIds, GivesTo(t, c)
  PROVE  \E l : leaseBar'[t] = {l} /\ Promise!Give(t, l)
<1>0. PICK l : l = LeaseOf(c)'
  OBVIOUS
<1>1. leaseBar'[t] = {l}
  BY <1>0 DEF leaseBar, GivesTo
<1>2. leaseBar' = [leaseBar EXCEPT ![t] = {l}]
  BY <1>1, ChangedAt DEF GivesTo
<1>3. l \in Promise!LeaseRecord /\ l.fence = runtime[t].lastFence + 1
  BY <1>0 DEF GivesTo, LeaseOf, ClaimRow, Promise!LeaseRecord
<1>4. topBar' = [topBar EXCEPT ![t] = runtime[t].lastFence + 1] /\ topBar[t] = runtime[t].lastFence
  BY DEF GivesTo, topBar, LeaseCore, TablesOK
<1> QED
  BY <1>1, <1>2, <1>3, <1>4 DEF Promise!Give, GivesTo

\* A task without a lease, or with one that ran out, is given to the caller.
LEMMA ClaimStep ==
  ASSUME LeaseCore, NEW s \in SessionIds, NEW a \in Actors, NEW k \in Clients,
         NEW r \in RequestIds, NEW ttl \in TTLs, Claim(s, a, k, r, ttl)
  PROVE  Step
<1>1. sessions[s] \in SessionRow
  BY DEF LeaseCore, TablesOK, Claim, NoSession
<1>2. PICK t \in Task : t = sessions[s].task
  BY <1>1 DEF SessionRow
<1> DEFINE fence == runtime[t].lastFence + 1
           row == [state |-> "active", task |-> t, session |-> s, actor |-> a,
                   fence |-> fence, version |-> 1, expires |-> now + ttl]
<1>3. PICK c \in ClaimIds : Free(claims, c) /\ claims' = [Swept(t) EXCEPT ![c] = row]
  BY <1>2 DEF Claim, NextFence
<1>4. /\ runtime' = [runtime EXCEPT ![t].lastFence = fence]
      /\ now' = now /\ ~ Taken(t)
  BY <1>2 DEF Claim, NextFence
<1>5. row \in ClaimRow
  BY LeaseAssumption DEF ClaimRow, LeaseCore, TablesOK
<1>6. claims'[c] = row /\ \A d \in ClaimIds \ {c} : claims'[d] = Swept(t)[d]
  BY <1>3 DEF Swept
<1>7. row.state = "active" /\ row.task = t /\ row.fence = fence
  OBVIOUS
<1> HIDE DEF row
<1>8. \A d \in ClaimIds \ {c} :
        \/ claims'[d] = claims[d]
        \/ /\ claims[d].state = "active" /\ claims[d].task = t
           /\ SameLease(claims'[d], claims[d]) /\ claims'[d].state = "expired"
  BY <1>6, SweptClaim DEF LeaseCore
<1>9. \A d \in ClaimIds : Swept(t)[d].state = "active" => Swept(t)[d].task # t
  BY <1>4 DEF Taken, ActiveClaims
<1>10. ActiveClaims(claims, t)' = {c}
  BY <1>6, <1>7, <1>9 DEF ActiveClaims
<1>11. GivesTo(t, c)
  <2>1. \A d \in ClaimIds :
          \/ claims'[d] = claims[d]
          \/ (Free(claims, d) \/ claims[d].task = t) /\ claims'[d].task = t
    BY <1>3, <1>6, <1>7, <1>8 DEF SameLease
  <2>2. claims'[c] \in ClaimRow /\ claims'[c].fence = runtime[t].lastFence + 1
    BY <1>5, <1>6, <1>7
  <2> QED
    BY <1>4, <1>10, <2>1, <2>2 DEF GivesTo
<1>12. Promise!Lapsed(t)
  <2>1. \A d \in ActiveClaims(claims, t) : d \in Due(t)
    BY <1>9 DEF ActiveClaims, Swept
  <2>2. \A d \in ActiveClaims(claims, t) : LeaseOf(d).until <= now
    BY <2>1 DEF Due, LeaseOf
  <2> QED
    BY <2>2 DEF Promise!Lapsed, leaseBar
<1>13. yieldedBar' = yieldedBar
  <2>1. Yielded(t)' = Yielded(t) /\ \A d \in Yielded(t) : claims'[d].fence = claims[d].fence
    BY <1>3, <1>6, <1>7, <1>8 DEF Yielded, Free
  <2>2. yieldedBar'[t] = yieldedBar[t]
    BY <2>1 DEF yieldedBar
  <2>3. \A u \in Task \ {t} : yieldedBar'[u] = yieldedBar[u]
    BY <1>11, OtherTasks DEF GivesTo
  <2> QED
    BY <2>2, <2>3 DEF yieldedBar
<1>14. \E l : leaseBar'[t] = {l} /\ Promise!Grant(t, l)
  BY <1>11, <1>12, <1>13, GivenLease DEF Promise!Grant
<1> QED
  BY <1>14 DEF Step, Promise!FencedNext

\* A running lease passes to the successor its holder names.
LEMMA HandoffStep ==
  ASSUME LeaseCore, NEW c \in ClaimIds, NEW a \in Actors, NEW successor \in Actors,
         NEW k \in Clients, Handoff(c, a, successor, k)
  PROVE  Step
<1>1. StillActive(c) /\ now' = now
  BY DEF Handoff
<1>2. PICK t \in Task : /\ t = claims[c].task /\ claims[c] \in ClaimRow
                        /\ claims[c].state = "active" /\ ActiveClaims(claims, t) = {c}
  BY <1>1, SoleClaim DEF StillActive
<1> DEFINE fence == runtime[t].lastFence + 1
           row(s2) == [state |-> "active", task |-> t, session |-> s2, actor |-> successor,
                       fence |-> fence, version |-> 1, expires |-> now + HandoffTTL]
<1>3. PICK s2 \in SessionIds, c2 \in ClaimIds :
        /\ Free(claims, c2)
        /\ claims' = [Swept(t) EXCEPT ![c].state = "handed_off", ![c2] = row(s2)]
  BY <1>2 DEF Handoff, NextFence
<1>4. runtime' = [runtime EXCEPT ![t].lastFence = fence]
  BY <1>2 DEF Handoff, NextFence
<1>5. c # c2
  BY <1>2, <1>3 DEF Free
<1>6. Swept(t) = claims /\ claims[c].expires > now
  <2>1. c \notin Due(t)
    BY <1>1, <1>2 DEF StillActive, Swept
  <2>2. claims[c].expires \in Nat /\ now \in Nat
    BY <1>2 DEF ClaimRow, LeaseCore, TablesOK
  <2>3. Due(t) = {}
    BY <1>2, <2>1 DEF Due
  <2> QED
    BY <1>2, <2>1, <2>2, <2>3 DEF Due, Swept, LeaseCore, TablesOK
<1>7. row(s2) \in ClaimRow /\ row(s2).state = "active" /\ row(s2).task = t /\ row(s2).fence = fence
  BY LeaseAssumption DEF ClaimRow, LeaseCore, TablesOK
<1>8. /\ claims'[c2] = row(s2)
      /\ claims'[c] = [claims[c] EXCEPT !.state = "handed_off"]
      /\ \A d \in ClaimIds \ {c, c2} : claims'[d] = claims[d]
  BY <1>3, <1>5, <1>6 DEF LeaseCore, TablesOK
<1> HIDE DEF row
<1>9. SameLease(claims'[c], claims[c]) /\ claims'[c].state = "handed_off"
  BY <1>2, <1>8, HandedOffLease
<1>10. ActiveClaims(claims, t)' = {c2}
  <2>1. \A d \in ClaimIds \ {c, c2} : ~ (claims'[d].state = "active" /\ claims'[d].task = t)
    BY <1>2, <1>8 DEF ActiveClaims
  <2>2. claims'[c2].state = "active" /\ claims'[c2].task = t
    BY <1>7, <1>8
  <2>3. \A d \in ClaimIds : claims'[d].state = "active" /\ claims'[d].task = t <=> d = c2
    BY <1>9, <2>1, <2>2
  <2> QED
    BY <2>3 DEF ActiveClaims
<1>11. GivesTo(t, c2)
  BY <1>1, <1>2, <1>3, <1>4, <1>7, <1>8, <1>9, <1>10 DEF GivesTo, SameLease
<1>12. Promise!Running(t)
  <2>1. leaseBar[t] = {LeaseOf(c)}
    BY <1>2, SoleLease
  <2>2. LeaseOf(c).until > now
    BY <1>6 DEF LeaseOf
  <2> QED
    BY <2>1, <2>2 DEF Promise!Running
<1>13. Promise!Yielding(t)
  <2>1. Yielded(t)' = Yielded(t) \cup {c}
    BY <1>2, <1>3, <1>7, <1>8, <1>9 DEF Yielded, SameLease, Free
  <2>2. \A d \in Yielded(t)' : claims'[d].fence = claims[d].fence
    BY <1>3, <1>8, <1>9, <2>1 DEF Yielded, SameLease, Free
  <2>3. yieldedBar'[t] = yieldedBar[t] \cup {claims[c].fence}
    BY <2>1, <2>2 DEF yieldedBar
  <2>4. \A u \in Task \ {t} : yieldedBar'[u] = yieldedBar[u]
    BY <1>11, OtherTasks DEF GivesTo
  <2>5. {l.fence : l \in leaseBar[t]} = {claims[c].fence}
    BY <1>2, SoleFence
  <2> QED
    BY <2>3, <2>4, <2>5 DEF Promise!Yielding, yieldedBar
<1>14. \E l : leaseBar'[t] = {l} /\ Promise!Transfer(t, l)
  BY <1>11, <1>12, <1>13, GivenLease DEF Promise!Transfer
<1> QED
  BY <1>14 DEF Step, Promise!FencedNext

----------------------------------------------------------------------------

LEMMA NextStep ==
  ASSUME LeaseCore, [LeaseNext]_leaseVars
  PROVE  Step
<1>1. CASE UNCHANGED leaseVars
  BY <1>1, InvisibleStep DEF leaseVars
<1>2. CASE \E a \in Actors, k \in Clients, t \in Task : StartSession(a, k, t)
  BY <1>2, InvisibleStep DEF StartSession
<1>3. CASE (\E s \in SessionIds, a \in Actors : OpenWait(s, a)) \/ (\E i \in WaitIds : Reply(i))
  BY <1>3, InvisibleStep DEF OpenWait, Reply
<1>4. CASE \E t \in Task, blocked \in BOOLEAN : SetRecoveryBlocked(t, blocked)
  <2>1. UNCHANGED <<claims, now>> /\ \A u \in Task : runtime'[u].lastFence = runtime[u].lastFence
    BY <1>4 DEF SetRecoveryBlocked, LeaseCore, TablesOK
  <2> QED
    BY <2>1, InvisibleStep
<1> QED
  BY <1>1, <1>2, <1>3, <1>4, ClaimStep, RenewStep, ReleaseStep, ExpireDueStep, HandoffStep,
     TickStep DEF LeaseNext

LEMMA PromiseInit ==
  ASSUME LeaseInit
  PROVE  Promise!FencedInit
<1>1. \A t \in Task : ActiveClaims(claims, t) = {} /\ Yielded(t) = {}
  BY DEF LeaseInit, ActiveClaims, Yielded, NoClaim
<1>2. leaseBar = [t \in Task |-> {}] /\ yieldedBar = [t \in Task |-> {}]
  BY <1>1 DEF leaseBar, yieldedBar
<1>3. topBar = [t \in Task |-> 0]
  BY DEF LeaseInit, topBar
<1> QED
  BY <1>2, <1>3 DEF LeaseInit, Promise!FencedInit

\* The lease store implements FencedLease: whatever the callers do and however
\* often they retry, a running lease ends only by its holder's will, and every
\* new lease carries a fence no lease of the task had before.
THEOREM LeaseKeepsPromise == LeaseSpec => PromiseKept
<1>1. LeaseInit => Promise!FencedInit
  BY PromiseInit
<1>2. LeaseCore /\ [LeaseNext]_leaseVars => [Promise!FencedNext]_(Promise!fencedVars)
  BY NextStep DEF Step
<1>3. LeaseInv => LeaseCore
  BY DEF LeaseInv
<1> QED
  BY <1>1, <1>2, <1>3, LeaseInvariant, PTL DEF LeaseSpec, PromiseKept, Promise!FencedSpec
=============================================================================
