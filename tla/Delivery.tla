------------------------------ MODULE Delivery ------------------------------
(***************************************************************************)
(* Delivery synchronisation (crates/awr-team-pg/src/delivery_sync): facts  *)
(* observed by connectors (snapshots.rs, inbox.rs), the queue of           *)
(* synchronisation intents they raise (pump.rs), the workers that drain it *)
(* (awr-server/src/service/delivery_sync.rs) and the publication of notes  *)
(* in the project's source file (publisher.rs).                            *)
(*                                                                         *)
(* Every writer holds the project lock, so a command is one action.  The   *)
(* one exception is the publication step, which changes the source file    *)
(* inside a transaction that is still open: it is the job, and while there *)
(* is one the database is locked, but files are edited, leases expire and  *)
(* the process dies.  A request with a stale version or an old publication *)
(* fence is refused and changes nothing.  One source snapshot and one      *)
(* authenticated principal are modelled, and a candidate stands for its    *)
(* selection version; a connector reports one fact an observation.         *)
(***************************************************************************)
EXTENDS Integers, Sequences, FiniteSetsExt

CONSTANTS
  Works,            \* works of the project
  Connectors,       \* connectors
  WorkOf,           \* the work each connector observes
  Events,           \* event ids of observations
  Kinds,            \* the kinds of intent an applied event raises; both in the code
  Workers,          \* worker tasks of the service
  None,
  MaxChanges,       \* bound on selections and configurations, together
  MaxGeneration,    \* bound on the inspections of a connector
  MaxOperated,      \* bound on publications made by an operator
  MaxFence,         \* bound on the claims of an intent
  MaxFaults         \* bound on edits of the file, early expiries, lost
                    \* processes and failures of the file system, together

ASSUME DeliveryAssumption ==
  /\ WorkOf \in [Connectors -> Works]
  /\ Kinds \subseteq {"refresh", "source"}
  /\ None \notin Works \cup Events \cup Workers
  /\ {MaxChanges, MaxGeneration, MaxOperated, MaxFence, MaxFaults}
       \subseteq Nat

VARIABLES
  selection,     \* the selected candidate of each work
  connector,     \* connectors
  inspections,   \* reserved observations
  inbox,         \* what each event was recorded as
  head,          \* the current fact of each connector
  notification,  \* the notification of each event
  intents,       \* the queue: intents of each applied event
  publications,  \* the journal of publications
  cursor,        \* the metadata cursor of the source snapshot
  file,          \* the bytes of the source file
  worker,        \* what each worker is doing
  job,           \* the publication step in progress, or None
  faults         \* counted against MaxFaults

observed == <<connector, inspections, inbox, head, notification>>
published == <<publications, cursor>>
vars == <<selection, observed, intents, published, file, worker, job, faults>>

----------------------------------------------------------------------------
(* Records. *)

\* The bytes of the ledger: the publication noted at each work, 0 for none,
\* and whether anything else of it differs from the activated source.
Bytes == [note : [Works -> Nat], edited : BOOLEAN]

Inspection == [connector : Connectors, version : Nat, generation : Nat, selection : Nat,
               live : BOOLEAN]
Receipt == [connector : Connectors, version : Nat, generation : Nat, selection : Nat,
            applied : BOOLEAN]
Intent == [state : {"none", "pending", "leased", "blocked", "succeeded", "superseded"},
           fence : Nat, live : BOOLEAN, publication : Nat]
Note == [selection : Nat, facts : SUBSET Events]
Journal == [work : Works, intent : Events \cup {None}, note : Note, revision : Nat,
            before : Bytes, after : Bytes, live : BOOLEAN, written : BOOLEAN,
            phase : {"pending", "source_written", "confirmed", "conflict", "failed"}]
Job == [publication : Nat, by : Workers \cup {None}, confirm : BOOLEAN,
        seen : Bytes \cup {None}, replacement : {"none", "made", "failed"}]

Idle == [step |-> "idle"]
Lease == [step : {"claimed", "prepared", "written", "failed"}, event : Events,
          kind : Kinds, fence : Nat]

\* An event that was not recorded has no row.
ASSUME RowAssumption == None \notin Receipt

DeliveryTypeOK ==
  /\ selection \in [Works -> [version : Nat, fenced : BOOLEAN]]
  /\ connector \in [Connectors -> [version : Nat, enabled : BOOLEAN,
                                   generation : Nat]]
  /\ inspections \subseteq Inspection
  /\ inbox \in [Events -> Receipt \cup {None}]
  /\ head \in [Connectors -> Events \cup {None}]
  /\ notification \in [Events -> {"none", "pending", "superseded", "delivered"}]
  /\ intents \in [Events -> [Kinds -> Intent]]
  /\ publications \in Seq(Journal)
  /\ cursor \in [revision : Nat, confirmed : Bytes, pending : Nat]
  /\ file \in Bytes
  /\ worker \in [Workers -> Lease \cup {Idle}]
  /\ job \in Job \cup {None}
  /\ faults \in 0..MaxFaults

NoIntent == [state |-> "none", fence |-> 0, live |-> FALSE, publication |-> 0]
Activated == [note |-> [w \in Works |-> 0], edited |-> FALSE]

Init ==
  /\ selection = [w \in Works |-> [version |-> 0, fenced |-> FALSE]]
  /\ connector = [c \in Connectors |-> [version |-> 0, enabled |-> FALSE, generation |-> 0]]
  /\ inspections = {}
  /\ inbox = [e \in Events |-> None]
  /\ head = [c \in Connectors |-> None]
  /\ notification = [e \in Events |-> "none"]
  /\ intents = [e \in Events |-> [k \in Kinds |-> NoIntent]]
  /\ publications = <<>>
  /\ cursor = [revision |-> 0, confirmed |-> Activated, pending |-> 0]
  /\ file = Activated
  /\ worker = [k \in Workers |-> Idle]
  /\ job = None
  /\ faults = 0

\* The project lock is free: no publication step is inside its transaction.
Unlocked == job = None

Fault == faults < MaxFaults /\ faults' = faults + 1
NoFault == UNCHANGED faults

----------------------------------------------------------------------------
(* Connectors, selections, observations. *)

MayChange ==
  MapThenSumSet(LAMBDA w : selection[w].version, Works)
    + MapThenSumSet(LAMBDA c : connector[c].version, Connectors) < MaxChanges

\* configure_connector, by a manager.
Configure(c, on) ==
  /\ Unlocked /\ MayChange
  /\ connector' = [connector EXCEPT ![c].version = @ + 1, ![c].enabled = on]
  /\ UNCHANGED <<selection, inspections, inbox, head, notification, intents, published,
                 file, worker, job, faults>>

\* select_candidate, by the holder of the work.
Select(w) ==
  /\ Unlocked /\ MayChange
  /\ selection' = [selection EXCEPT ![w] = [version |-> @.version + 1, fenced |-> TRUE]]
  /\ UNCHANGED <<observed, intents, published, file, worker, job, faults>>

\* The work is claimed again: its fence leaves the one of the selection.
Reclaim(w) ==
  /\ Unlocked /\ selection[w].fenced /\ Fault
  /\ selection' = [selection EXCEPT ![w].fenced = FALSE]
  /\ UNCHANGED <<observed, intents, published, file, worker, job>>

\* require_source_publication_settled: no publication of w is unsettled.
Settled(w) == cursor.pending # 0 => publications[cursor.pending].work # w

\* reserve_inspection: the generation orders the observations of a connector.
Reserve(c) ==
  LET w == WorkOf[c]  g == connector[c].generation + 1 IN
  /\ Unlocked /\ connector[c].enabled /\ selection[w].fenced /\ Settled(w)
  /\ g <= MaxGeneration
  /\ connector' = [connector EXCEPT ![c].generation = g]
  /\ inspections' = inspections \cup
       {[connector |-> c, version |-> connector[c].version, generation |-> g,
         selection |-> selection[w].version, live |-> TRUE]}
  /\ UNCHANGED <<selection, inbox, head, notification, intents, published, file, worker,
                 job, faults>>

InspectionExpires(x) ==
  /\ x.live /\ Fault
  /\ inspections' = (inspections \ {x}) \cup {[x EXCEPT !.live = FALSE]}
  /\ UNCHANGED <<selection, connector, inbox, head, notification, intents, published, file,
                 worker, job>>

\* The observation is still about the connector's latest inspection and the
\* candidate selected now.
Applies(x) ==
  /\ x.live /\ x.generation = connector[x.connector].generation
  /\ selection[WorkOf[x.connector]].fenced
  /\ x.selection = selection[WorkOf[x.connector]].version

\* pump::enqueue.
Enqueued == [k \in Kinds |-> [NoIntent EXCEPT !.state = "pending"]]

\* Mutant: an observation reserved before the publication does not wait.
MutAdmits(x) ==
  connector[x.connector].enabled /\ x.version = connector[x.connector].version

Admits(x) ==
  /\ connector[x.connector].enabled /\ x.version = connector[x.connector].version
  /\ Settled(WorkOf[x.connector])

\* ingest_facts.  A replay of an event answers with its receipt; a second event
\* of the generation the head already has fails and is rolled back.
Ingest(e, x) ==
  LET c == x.connector IN
  /\ Unlocked /\ inbox[e] = None /\ Admits(x)
  /\ inbox' = [inbox EXCEPT ![e] =
       [connector |-> c, version |-> x.version, generation |-> x.generation,
        selection |-> x.selection, applied |-> Applies(x)]]
  /\ \/ /\ Applies(x)
        /\ head[c] # None => inbox[head[c]].generation < x.generation
        /\ head' = [head EXCEPT ![c] = e]
        /\ notification' = [notification EXCEPT ![e] = "pending"]
        /\ intents' = [intents EXCEPT ![e] = Enqueued]
     \/ /\ ~Applies(x)
        /\ notification' = [notification EXCEPT ![e] = "superseded"]
        /\ UNCHANGED <<head, intents>>
  /\ UNCHANGED <<selection, connector, inspections, published, file, worker, job, faults>>

----------------------------------------------------------------------------
(* The queue. *)

\* Intent::current: nothing newer was observed, selected or configured.
Current(e) ==
  LET x == inbox[e]  c == connector[x.connector]  s == selection[WorkOf[x.connector]] IN
  /\ c.enabled /\ c.version = x.version /\ c.generation = x.generation
  /\ s.fenced /\ s.version = x.selection

\* Mutant: a lease that expired is never taken over.
MutClaimable(i) == i.state \in {"pending", "blocked"}

\* claim_sync_intent for an eligible intent the worker's poll has found.  One
\* that is not current any more is superseded, unless it owns a publication.
Claimable(i) ==
  i.state \in {"pending", "blocked"} \/ (i.state = "leased" /\ ~i.live)

Claim(k, e, kind) ==
  LET i == intents[e][kind] IN
  /\ Unlocked /\ worker[k] = Idle /\ Claimable(i)
  /\ \/ /\ Current(e) /\ i.fence < MaxFence
        /\ intents' = [intents EXCEPT ![e][kind] =
             [i EXCEPT !.state = "leased", !.fence = @ + 1, !.live = TRUE]]
        /\ worker' = [worker EXCEPT ![k] = [step |-> "claimed", event |-> e, kind |-> kind,
                                            fence |-> i.fence + 1]]
     \/ /\ ~Current(e) /\ i.publication = 0
        /\ intents' = [intents EXCEPT ![e][kind].state = "superseded"]
        /\ UNCHANGED worker
  /\ UNCHANGED <<selection, observed, published, file, job, faults>>

Held(k) == intents[worker[k].event][worker[k].kind]

\* Mutant: any live lease will do, not only the latest.
MutRequired(k) == Held(k).state = "leased" /\ Held(k).live /\ Current(worker[k].event)

\* pump::require: the lease is the latest, unexpired, and its intent current.
Required(k) ==
  /\ Held(k).state = "leased" /\ Held(k).fence = worker[k].fence /\ Held(k).live
  /\ Current(worker[k].event)

SetHeld(k, i) == intents' = [intents EXCEPT ![worker[k].event][worker[k].kind] = i]
Step(k, s) == worker' = [worker EXCEPT ![k].step = s]
Finish(k) == worker' = [worker EXCEPT ![k] = Idle]

\* acknowledge_sync_refresh.
Acknowledge(k) ==
  /\ Unlocked /\ worker[k].step = "claimed" /\ worker[k].kind = "refresh" /\ Required(k)
  /\ notification[worker[k].event] = "pending"
  /\ notification' = [notification EXCEPT ![worker[k].event] = "delivered"]
  /\ SetHeld(k, [Held(k) EXCEPT !.state = "succeeded"])
  /\ Finish(k)
  /\ UNCHANGED <<selection, connector, inspections, inbox, head, published, file, job, faults>>

\* defer_sync_intent, after a failure the worker knows; a worker whose lease
\* is gone only goes back to its poll.
Defer(k) ==
  /\ Unlocked /\ worker[k].step = "failed"
  /\ IF Required(k)
       THEN SetHeld(k, [Held(k) EXCEPT !.state = "blocked"])
       ELSE UNCHANGED intents
  /\ Finish(k)
  /\ UNCHANGED <<selection, observed, published, file, job, faults>>

\* The time of a lease runs out, before its worker is done only as a fault.
LeaseExpires(e, kind) ==
  LET i == intents[e][kind]
      used == \E k \in Workers : worker[k] # Idle /\ worker[k].event = e
                                   /\ worker[k].kind = kind /\ worker[k].fence = i.fence IN
  /\ i.state = "leased" /\ i.live
  /\ IF used THEN Fault ELSE NoFault
  /\ intents' = [intents EXCEPT ![e][kind].live = FALSE]
  /\ UNCHANGED <<selection, observed, published, file, worker, job>>

----------------------------------------------------------------------------
(* The journal of publications. *)

\* The facts a note of w would name: heads observed for the selected candidate
\* by connectors configured as they were.
Facts(w) ==
  {head[c] : c \in {d \in Connectors :
     /\ WorkOf[d] = w /\ head[d] # None /\ connector[d].enabled
     /\ inbox[head[d]].version = connector[d].version
     /\ inbox[head[d]].selection = selection[w].version}}

current_note(w) == [selection |-> selection[w].version, facts |-> Facts(w)]

\* Journal::require_note.
NoteHolds(p) ==
  selection[publications[p].work].fenced
    /\ publications[p].note = current_note(publications[p].work)

\* Mutant: the file is not compared with what the cursor confirmed.
MutPreparable(w) ==
  cursor.pending = 0 /\ selection[w].fenced /\ Facts(w) # {}

\* What prepare_source_publication asks of a work: the slot is free, the file
\* is what the cursor confirmed, and there is something to note.
Preparable(w) ==
  /\ cursor.pending = 0 /\ file = cursor.confirmed
  /\ selection[w].fenced /\ Facts(w) # {}

\* The journal entry, with the exact bytes before and after.
Prepared(w, e) ==
  LET id == Len(publications) + 1 IN
  /\ Unlocked /\ Preparable(w)
  /\ publications' = Append(publications,
       [work |-> w, intent |-> e, note |-> current_note(w), revision |-> cursor.revision + 1,
        before |-> file, after |-> [file EXCEPT !.note[w] = id], live |-> TRUE,
        written |-> FALSE, phase |-> "pending"])
  /\ cursor' = [cursor EXCEPT !.pending = id]

\* Journal::require, for a step that needs the note to hold.
Open(p) ==
  /\ cursor.pending = p /\ publications[p].phase \notin {"confirmed", "conflict"}
  /\ NoteHolds(p)

\* prepare_sync_source: a new publication bound to the intent,
Prepare(k) ==
  /\ worker[k].step = "claimed" /\ worker[k].kind = "source" /\ Required(k)
  /\ Held(k).publication = 0
  /\ Prepared(WorkOf[inbox[worker[k].event].connector], worker[k].event)
  /\ SetHeld(k, [Held(k) EXCEPT !.publication = cursor'.pending])
  /\ Step(k, "prepared")
  /\ UNCHANGED <<selection, observed, file, job, faults>>

Renewed(p) ==
  /\ Unlocked /\ Open(p)
  /\ publications' = [publications EXCEPT ![p].live = TRUE]
  /\ UNCHANGED cursor

\* or a new lease on the one it has.
Renew(k) ==
  /\ worker[k].step = "claimed" /\ worker[k].kind = "source" /\ Required(k)
  /\ Held(k).publication # 0 /\ Renewed(Held(k).publication)
  /\ Step(k, "prepared")
  /\ UNCHANGED <<selection, observed, intents, file, job, faults>>

PublicationExpires(p) ==
  /\ publications[p].live /\ cursor.pending = p /\ Fault
  /\ publications' = [publications EXCEPT ![p].live = FALSE]
  /\ UNCHANGED <<selection, observed, intents, cursor, file, worker, job>>

\* A publication that no intent owns is an operator's.
OperatorPrepares(w) ==
  /\ Cardinality({p \in DOMAIN publications : publications[p].intent = None}) < MaxOperated
  /\ Prepared(w, None)
  /\ UNCHANGED <<selection, observed, intents, file, worker, job, faults>>

OperatorRenews(p) ==
  /\ publications[p].intent = None /\ ~publications[p].live /\ Renewed(p)
  /\ UNCHANGED <<selection, observed, intents, file, worker, job, faults>>

\* Mutant: a before image is proof enough that nothing was written.
MutWithdrawable(p) == file = publications[p].before

\* abandon_source_publication: only an exact image that was never written.
Withdrawable(p) == ~publications[p].written /\ file = publications[p].before

OperatorAbandons(p) ==
  /\ Unlocked /\ publications[p].intent = None /\ cursor.pending = p
  /\ publications[p].phase # "confirmed" /\ Withdrawable(p)
  /\ publications' = [publications EXCEPT ![p].phase = "conflict"]
  /\ cursor' = [cursor EXCEPT !.pending = 0]
  /\ UNCHANGED <<selection, observed, intents, file, worker, job, faults>>

----------------------------------------------------------------------------
(* The publication step: publication_step and apply_observed_source. *)

\* The transaction opens and the file is read, if it can be.
Begin(p, k, confirm) ==
  /\ Unlocked /\ Open(p) /\ publications[p].live
  /\ \/ /\ job' = [publication |-> p, by |-> k, confirm |-> confirm, seen |-> file,
                   replacement |-> "none"]
        /\ NoFault
     \/ /\ job' = [publication |-> p, by |-> k, confirm |-> confirm, seen |-> None,
                   replacement |-> "none"]
        /\ Fault
  /\ UNCHANGED <<selection, observed, intents, published, file, worker>>

WorkerBegins(k) ==
  /\ worker[k].step \in {"prepared", "written"} /\ Required(k)
  /\ Begin(Held(k).publication, k, worker[k].step = "written")

OperatorBegins(p, confirm) == publications[p].intent = None /\ Begin(p, None, confirm)

Journaled == publications[job.publication]

\* publication_guard, asked again inside the transaction.
Guarded == job.by # None => Required(job.by)

\* The exact before image may be replaced, unless it is known to have been.
MayReplace == job.seen = Journaled.before /\ ~Journaled.written /\ ~job.confirm

\* LockedSourceFile::replace, which may also fail once the file is renamed.
Replace ==
  /\ job # None /\ job.replacement = "none" /\ MayReplace /\ Guarded
  /\ \/ /\ file = Journaled.before /\ file' = Journaled.after /\ NoFault
        /\ job' = [job EXCEPT !.replacement = "made"]
     \/ /\ IF file = Journaled.before
             THEN file' \in {file, Journaled.after} /\ Fault
             ELSE UNCHANGED <<file, faults>>
        /\ job' = [job EXCEPT !.replacement = "failed"]
  /\ UNCHANGED <<selection, observed, intents, published, worker>>

\* The phase after a replacement that failed.
Unreplaced ==
  CASE file = Journaled.after  -> "source_written"
    [] file = Journaled.before -> "failed"
    [] OTHER -> "conflict"

\* Mutant: the file is not read again before it is confirmed.
MutLanded ==
  IF ~Journaled.live \/ ~job.confirm THEN "source_written" ELSE "confirmed"

\* The phase after the after image was seen, on the way to the commit.
Landed ==
  CASE ~Journaled.live -> "source_written"
    [] ~job.confirm    -> "source_written"
    [] file # Journaled.after -> "conflict"
    [] OTHER           -> "confirmed"

\* The after image is there: it was seen, or it is read after the replacement.
AfterImage ==
  \/ job.replacement = "none" /\ job.seen = Journaled.after
  \/ job.replacement = "made" /\ file = Journaled.after

\* The phase that the step observes when nothing more fails.
Observed ==
  CASE job.replacement = "failed" -> Unreplaced
    [] AfterImage -> Landed
    [] job.seen = Journaled.before /\ ~Journaled.written /\ job.confirm -> "pending"
    [] OTHER -> "conflict"

\* What the transaction commits: mark, and for a confirmation the cursor and
\* the end of the intent.
Committed(phase) ==
  LET p == job.publication
      written == \/ Journaled.written \/ job.replacement = "made" \/ job.seen = Journaled.after
                 \/ phase \in {"source_written", "confirmed"} IN
  /\ publications' = [publications EXCEPT ![p].phase = phase, ![p].written = written]
  /\ cursor' = IF phase = "confirmed"
                 THEN [revision |-> Journaled.revision, confirmed |-> Journaled.after,
                       pending |-> 0]
                 ELSE cursor
  /\ IF job.by = None
       THEN UNCHANGED <<intents, worker>>
       ELSE /\ IF phase = "confirmed"
                 THEN SetHeld(job.by, [Held(job.by) EXCEPT !.state = "succeeded"])
                 ELSE UNCHANGED intents
            /\ CASE phase \in {"conflict", "failed"} -> Step(job.by, "failed")
                 [] phase = "source_written" /\ ~job.confirm -> Step(job.by, "written")
                 [] OTHER -> Finish(job.by)
  /\ job' = None

\* The worker guard is asked before a replacement and before the last checks.
Ending == AfterImage /\ Journaled.live
Asked == Ending \/ (MayReplace /\ job.replacement = "none")

Conclude ==
  /\ job # None /\ job.seen # None
  /\ MayReplace => job.replacement # "none"
  /\ Ending => Guarded
  /\ Committed(Observed)
  /\ UNCHANGED <<selection, observed, file, faults>>

\* The file cannot be opened or read, has another identity, or does not index
\* to what the journal says.
Failed == job.seen = None \/ job.replacement = "made"
Diverged ==
  \/ job.seen = None \/ job.replacement = "failed"
  \/ MayReplace /\ job.replacement = "none"
  \/ Ending /\ job.confirm /\ Guarded

ConcludeFailure ==
  /\ job # None
  /\ IF job.seen = None THEN NoFault ELSE Fault
  /\ (Failed /\ Committed("failed")) \/ (Diverged /\ Committed("conflict"))
  /\ UNCHANGED <<selection, observed, file>>

\* The guard refuses, the database fails, the call times out, the process
\* dies: the transaction is rolled back, the file stays as it is.
RollBack ==
  /\ job # None
  /\ IF Asked /\ ~Guarded THEN NoFault ELSE Fault
  /\ job' = None
  /\ IF job.by = None THEN UNCHANGED worker ELSE Finish(job.by)
  /\ UNCHANGED <<selection, observed, intents, published, file>>

----------------------------------------------------------------------------
(* The rest of a worker's poll. *)

\* A refusal the worker defers: changed prerequisites.
Refused(k) ==
  LET p == Held(k).publication IN
  /\ worker[k].kind = "source"
  /\ IF p # 0 THEN worker[k].step \in {"claimed", "prepared", "written"} /\ ~Open(p)
              ELSE worker[k].step = "claimed" /\ cursor.pending = 0 /\ file # cursor.confirmed

Fail(k) ==
  /\ Unlocked /\ worker[k] # Idle /\ Required(k) /\ Refused(k)
  /\ Step(k, "failed")
  /\ UNCHANGED <<selection, observed, intents, published, file, job, faults>>

\* A refusal it only waits out: an expired or superseded lease, a slot in use.
Contended(k) ==
  LET p == Held(k).publication IN
  \/ ~Required(k)
  \/ worker[k].kind = "source" /\ p = 0 /\ cursor.pending # 0
  \/ worker[k].step \in {"prepared", "written"} /\ ~publications[p].live

\* The poll goes on to another intent, or the process dies; the lease stays
\* until it expires.
GiveUp(k) ==
  /\ worker[k] # Idle /\ (job # None => job.by # k)
  /\ IF Unlocked /\ Contended(k) THEN NoFault ELSE Fault
  /\ Finish(k)
  /\ UNCHANGED <<selection, observed, intents, published, file, job>>

\* Anyone may edit the file, and put back bytes it had.
Edit ==
  /\ Fault
  /\ file' \in {[file EXCEPT !.edited = ~@]} \cup
       {publications[p].before : p \in DOMAIN publications} \cup
       {publications[p].after : p \in DOMAIN publications}
  /\ file' # file
  /\ UNCHANGED <<selection, observed, intents, published, worker, job>>

Observing ==
  \/ \E c \in Connectors : Reserve(c) \/ \E on \in BOOLEAN : Configure(c, on)
  \/ \E w \in Works : Select(w) \/ Reclaim(w)
  \/ \E x \in inspections : InspectionExpires(x) \/ \E e \in Events : Ingest(e, x)

Working(k) ==
  \/ \E e \in Events, kind \in Kinds : Claim(k, e, kind)
  \/ Acknowledge(k) \/ Prepare(k) \/ Renew(k) \/ WorkerBegins(k)
  \/ Defer(k) \/ Fail(k) \/ GiveUp(k)

Operating ==
  \/ \E w \in Works : OperatorPrepares(w)
  \/ \E p \in DOMAIN publications :
       OperatorRenews(p) \/ OperatorAbandons(p) \/ \E b \in BOOLEAN : OperatorBegins(p, b)

Publishing == Replace \/ Conclude \/ ConcludeFailure \/ RollBack

Time ==
  \/ \E e \in Events, kind \in Kinds : LeaseExpires(e, kind)
  \/ \E p \in DOMAIN publications : PublicationExpires(p)

Next == Observing \/ (\E k \in Workers : Working(k)) \/ Operating \/ Publishing \/ Time \/ Edit

Spec == Init /\ [][Next]_vars

\* The workers poll, the project lock is granted in turn, an open transaction
\* ends and a lease nobody uses runs out.  Faults, operators and observers are
\* not fair, and an intent is visited again and again (run_worker, poll).
Progress(k) ==
  Acknowledge(k) \/ Prepare(k) \/ Renew(k) \/ WorkerBegins(k) \/ Defer(k) \/ Fail(k)
    \/ GiveUp(k)

Fairness ==
  /\ \A k \in Workers : SF_vars(Progress(k) /\ UNCHANGED faults)
  /\ \A e \in Events, kind \in Kinds :
       /\ SF_vars(\E k \in Workers : Claim(k, e, kind))
       /\ WF_vars(LeaseExpires(e, kind) /\ UNCHANGED faults)
  /\ WF_vars(Publishing /\ UNCHANGED faults)

FairSpec == Spec /\ Fairness

----------------------------------------------------------------------------
(* What must hold. *)

Confirmed == {p \in DOMAIN publications : publications[p].phase = "confirmed"}

\* The confirmed publications are one line of revisions, each made on the bytes
\* the one before it confirmed, and the cursor is at its end: no confirmation is
\* lost, doubled or made on bytes another had replaced (publisher.rs).
RevisionsChain ==
  /\ \A p, q \in Confirmed : publications[p].revision = publications[q].revision => p = q
  /\ {publications[p].revision : p \in Confirmed} = 1..cursor.revision
  /\ \A p \in Confirmed :
       IF publications[p].revision = cursor.revision
         THEN cursor.confirmed = publications[p].after
         ELSE \E q \in Confirmed : /\ publications[q].revision = publications[p].revision + 1
                                   /\ publications[q].before = publications[p].after

\* A landing that was recorded keeps the slot until it is confirmed: neither a
\* withdrawal, a rollback of the file nor another request settles it otherwise
\* (abandon_source_publication, docs/dev/integrations/delivery-synchronization.md).
RecordedLandingsHeld ==
  \A p \in DOMAIN publications :
    publications[p].written => p \in Confirmed \/ cursor.pending = p

\* The facts a pending publication names stay the heads of its work as long as
\* nobody selects or configures anew: observations reserved before it was
\* prepared wait (require_source_publication_settled, ingest_facts).
PendingFactsStand ==
  LET p == cursor.pending  j == publications[p] IN
  p # 0 /\ j.phase # "conflict" =>
    \/ j.note.selection # selection[j.work].version
    \/ \E e \in j.note.facts : inbox[e].version # connector[inbox[e].connector].version
    \/ j.note.facts = Facts(j.work)

\* What a step confirms is noted as the database says, and in the file.
ConfirmIsCurrent ==
  \A p \in DOMAIN publications :
    publications'[p].phase = "confirmed" /\ publications[p].phase # "confirmed" =>
      NoteHolds(p) /\ file = publications[p].after

\* A publication is confirmed only while its note is what the database says now
\* and the file, at the last look, holds its after image, whatever happened since
\* it was prepared.
ConfirmsAreCurrent == [][ConfirmIsCurrent]_vars

\* A step of a worker that has an effect is one of the latest lease.
EffectByHolder ==
  job # None /\ job.by # None /\ job' # job /\ <<file, published>>' # <<file, published>>
    => Held(job.by).fence = worker[job.by].fence

\* Only the latest lease of an intent changes the file or the publication journal
\* in a publication step: a worker that was taken over leaves no effect there, not
\* even from a transaction it had open (pump::require under the project lock).
\* Preparing and renewing take no such step and are not spoken of.
EffectsByHolder == [][EffectByHolder]_vars

\* Somebody has to look: the slot is an operator's, its publication is in
\* conflict or about something that changed, or the file has drifted.
Unresolved ==
  IF cursor.pending = 0
    THEN file # cursor.confirmed
    ELSE LET j == publications[cursor.pending] IN
         j.intent = None \/ j.phase = "conflict" \/ ~NoteHolds(cursor.pending)
           \/ ~Current(j.intent)

\* Every intent is settled in the end, whatever crash or expiry strikes a worker
\* at whatever step: a refresh always, a source intent unless there comes a moment
\* when somebody has to look.
IntentsSettle ==
  \A e \in Events, kind \in Kinds :
    intents[e][kind].state = "pending" ~>
      \/ intents[e][kind].state \in {"succeeded", "superseded"}
      \/ kind = "source" /\ Unresolved
=============================================================================
