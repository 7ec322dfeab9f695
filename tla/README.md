# AWR: specifications and proofs

AWR (agent work runtime) coordinates people and agents that work on a shared
plan. This directory holds TLA+ models of its protocols, the TLC runs that check
them on small instances, and TLAPS proofs of what matters most. `PROJECT.json`
maps every definition to the lines it models.

    tlc -workers 2 -config MCLease.cfg MCLease     # model-check one run
    tlapm LeaseProofs.tla                          # check the proofs of a module

## 1. The system

| Component | State | Operations | Where |
|---|---|---|---|
| Lease store | sessions, claims, `work_runtime` (fence counter, recovery block), waits, receipts, events | start_session, claim, renew, release, handoff, wait, reply, expire_due, set_recovery_blocked | `crates/awr-team-pg/src/lease.rs`, `tx.rs` |
| Execution store | executions, outbox, execution receipts | prepare, claim_dispatch, ack_dispatch, accept, start, cancel, report, reconcile | `execution.rs` |
| Resource bounds | resource reservations | reserve_bound, release, conflict and containment of paths | `graph.rs` |
| Reference runner | journal, generation and fence ledgers, OS locks, the worktree | handle_delivery, install_recovery_barrier | `runner.rs` |
| Project lifecycle | project status, coordinator epoch, import jobs, backups | freeze, load, activate, backup, restore | `import.rs` |
| Scoped workstream commands | the same tables behind delegated authority, receipts of commands, cursors | claim, start, settle, recover, handoff, task intake | `workstream_command/`, `scoped_runner.rs` |
| Reviews and completion | evidence, review rounds and decisions, completion receipts and the selected one, pull requests | submit, open, decide, complete, register_pr, observe_pr | `workstream_command/reviews.rs`, `review.rs` |
| Cross-workstream deliveries | exports, adoptions | publish, revoke, adopt | `cross_workstream_exports.rs`, `cross_workstream_adoption.rs` |
| Responsibility and authority | responsibility chain, delegations, agent grants | assign, hand over, revoke | `responsibility.rs`, `delegation_auth.rs`, ... |
| Source planning and writeback | snapshots with their contracts, candidate plans, writeback intents | plan, approve, activate, write back | `source*.rs`, `source_workstreams/` |
| Delivery synchronisation | connectors, selections, inspections, inbox, queue of intents, journal of publications, cursor of the source, the source file | configure, select, reserve, ingest, claim, acknowledge, prepare, renew, write, confirm, abandon, defer | `delivery_sync/`, `awr-server/src/service/delivery_sync.rs`, `awr-source/src/delivery_writeback.rs` |
| Operator tools | quarantine, audit, restore plans | quarantine, restore_apply, rebuild | `operator_*.rs` |
| Source mutation | proposals, attempts, the freshness and revision of a source, its lock file, the file itself | create, review, apply, recover, observe, project | `awr-runtime/src/mutation*.rs`, `awr-store/src/mutation*.rs`, `projection.rs`, `awr-source/src/indexer.rs` |
| Local store and runtime | SQLite sessions, claims, checkpoints | session and work actions | `awr-store`, `awr-runtime` |
| Workspace exchange | index, pointers and content objects in a bucket or directory; the files and the state file of each host | publish, repair_index, pull, drop_paths, status | `awr-workspace` |
| Sources, context, CLI, MCP, service, inspector | none of their own that protocols depend on | parsing, selection, rendering, transport | the other crates |

How they interact. Every team operation is one PostgreSQL transaction that
first locks the project row (`lock_active_project`), so the stores are
serialised against each other and talk through tables. Three things are outside
of it and are where the difficulty lies: the *clock* moves between
operations and ends leases nobody has touched; *clients* repeat requests whose
answer was lost; and the *runner* works on a file system, not in a transaction,
possibly as several processes that crash, while deliveries are duplicated,
delayed and reordered, and while a restore moves the database back in time.
The local runtime has the same problem on one machine: a file, a SQLite database
and an advisory lock make no transaction, and editors know none of the three.
Delivery synchronisation has both at once: it replaces a file inside a database
transaction. And the workspace exchange has neither: only an object store, which
may not even compare before it writes.

What makes each component correct:

* leases are exclusive, fences grow, and neither a retry, a handoff nor a lapse
  breaks that;
* an attempt is planned once, delivered only while it is open, admitted only
  under the newest fence, and its settled outcome stands; a cancel that was
  answered is final; while effects are unknown nothing is freed;
* what two executions may write is disjoint, however paths are spelled;
* the runner does an execution's effects at most once, never under an overtaken
  fence or a retired epoch, and its journal never denies effects that happened;
* a change is applied to the bytes it was made from, from one revision of the
  source once, and what is recorded as applied is in the file and projected;
* the published notes of a source are one line of revisions on exact bytes, what
  landed is never forgotten, a worker that was replaced has no effect, and every
  intent is settled or is visibly in need of somebody;
* the shared index names only what can be fetched, no commit undoes another, what
  a pull overwrites can be fetched again (unless it was saved at the very last
  moment), and hosts that keep exchanging come to agree;
* a completion stands on the newest verdict and on completions that stand
  themselves; an activation reopens exactly what no longer does, pulls no input
  from under a running execution, and leaves fixed deliveries alone;
* a restore or an activation leaves no authority of the past, and no token is
  ever granted twice.

`PROJECT.json` lists the hazards behind these, each at its line.

## 2. The modules

    FencedLease  <--implements--  Lease  <--extends--  Execution  <--extends--  Project
                                                          |
                                     ResourceBounds  (the relation Conflicts)
    Runner       (what happens to a delivery outside the database)
    Mutation     (changes to a source file on one machine)
    Delivery     (observed facts, the queue of intents, notes in the source file)
    Workspace    (files of several hosts over an object store)
    Completion   (runs, reviews, completions, deliveries, and activations among them)

A module `MC<name>` is the instance TLC checks; `<name>Proofs` holds the theorems
about a module (`ResourceProofs` those about ResourceBounds, `ProjectProofs` also
those about Execution, on which the lifecycle rests).

**Lease** models `lease.rs`. One action per method; because the project row is
locked throughout, a method is one atomic step, and the sweep each method makes
on its way (`expire_due`) is part of that step. Tables are functions from
identifiers to rows; a row not yet inserted is `NoClaim`, `NoSession` and so on,
and a new identifier is any unused one. A request hash is the record of what the
code hashes. A method that only replays a receipt, or refuses, changes nothing
and is no action: what has to be right is *when* it replays, and that is the
guard `NewRequest`. `revision` is `project_revision`, one per event; `feed` is
the last event about each claim.

**FencedLease** is the promise to callers, without tables: a task has at most
one lease, a grant has a fresh fence, an extension is for a lease still running,
and a running lease ends only when its holder wants it to. Its clock and the
lease store's are the same; a lease that has lapsed unnoticed is still in the
set, because the store may only take it away, never extend it.

**Execution** models `execution.rs` on top of Lease, with the reservations of
`graph.rs`. `queue` orders the open dispatches as `available_at` does. A report
carries an outcome, whether its paths are inside the declared scope, and a
digest; `Report` is the path for an unsettled execution and `ReportLate` the one
for a settled one. Reservations are for a set of bounds with the relation
`Conflicts`; what that relation is for real bounds is ResourceBounds.

**ResourceBounds** models the pure part of `graph.rs` with its two users:
`reserve_bound` and the admission of a scoped start. A path is the sequence of
its segments between slashes, so an absolute path starts with the empty segment
and `a//b` has one in the middle. The write path of the runner is normalised by
different code (`normalize_write_path`), and `MayWrite` puts the two together.

**Runner** models `runner.rs`. A handler is a process with a program counter;
each step is one system call or one stretch between two whose order matters:
the journal file is first created and then written, the generation file first
truncated and then written, the ownership lock dropped before a record is
converted. A crash can come between any two steps and releases the OS locks. Any
file operation may fail; a failed or interrupted write leaves the old content, a
torn file, or the new content. `trace` records effects and the entry of epochs;
it is there for the properties only. The crash points in the code are test
injections and are subsumed by `Crash`.

**Project** models `import.rs` on top of Execution. A physical backup is made
outside the program: in the model it is a copy of the tables at the moment the
backup is registered, and `Restore` runs either on that copy or on the present
tables, as the code cannot tell. `minted` and `granted` are history: epochs made
and fencing tokens handed out, in pasts the database has forgotten too.
An inventory is abstracted to the staged imports and the active snapshot; a
corrupt or incomplete inventory is the choice `present`.

**Mutation** models `mutation_apply.rs` of the runtime and the transactions under
it, for one source. A process that applies or recovers a proposal has a program
counter; its steps are the database transactions and the looks at the file
between them. The indexer is a process of its own, kept from a second indexer by
`lock_sources` but not from the writers, and an editor changes the file at any
time. Bytes stand for their fingerprint. Every error that keeps an attempt for
recovery has the effect of a crash, so both are `Interrupt`; `Stop` is any other
error, which a change of the manifest can cause at every step. The recovery
snapshots are assumed unaltered. A recovery that finds the new bytes in place
counts as not having written: when it then stops on a conflict before it has
distrusted the projection, the old projection stays fresh until the next
observation of the file.

**Delivery** models `delivery_sync/` with the worker of the service. Every writer
locks the project row first (`authenticate_writer`), so a command is one step,
with one exception: `publication_step` replaces the source file before its
transaction commits. There `job` is the open transaction: the file is read
(`Begin`), replaced (`Replace`) and judged (`Conclude`, `ConcludeFailure`), and
in between editors edit, leases expire and the process may die (`RollBack`),
while nobody else gets the lock. Bytes are the note at each work and whether the
rest was edited; a replacement may fail before or after the rename. The check of
the bytes and the rename are one step: the code has a window there for writers
that ignore the lock file, and says so. A worker is between two calls of its
poll; one that meets a refusal defers the intent, waits it out or loses its
answer, as `classify` tells. Time is only the liveness of leases, so
`retry_at` always lets an intent be claimed again. A step whose publication
fence or selection version is old is refused and is no action. Abstracted: one
source snapshot, one principal, one fact per connector, and a candidate is the
version of its selection.

**Workspace** models `sync.rs` request by request; between two requests of a
host any other host may act. `supports_if_match` decides how the index is
committed: by `Swap`, or by the guarded sequence `GuardHead`, `GuardPut`,
`GuardConfirm`. An etag is the body it belongs to. A lost answer to a put is the
put followed by `Abort`. A host runs one command at a time, but its user edits
at every moment: the last look of a pull at a file (`Recheck`) and the rename
over it (`WriteLocal`) are two steps, and `looked` holds in between what was
seen. A drop needs its paths to be untracked first (`Untrack`, a change of the
configuration); each path is taken from the index by a drop once.

**Completion** models how work becomes complete and stops being so:
`executions/lifecycle.rs` and `recovery.rs`, `workstream_command/reviews.rs`,
`cross_workstream_*.rs`, and `activate_in_tx` of `source.rs` with
`source_workstreams/`. Every command locks the project row, so it is one step;
the hazard is the order of commands and of activations among them. A source
gives every work its contract: a completion policy, a version (everything else
the hash covers), and the works it requires, each in one of three modes. Receipts
refer to the evidence, the round and the receipts of the dependencies they were
accepted on, as `completion_dependencies` does. `Spread` is the work list both
propagations use: once along the contract graph, to find the works an activation
affects, and once along the links of receipts, to find the completions it
reopens. Abstracted: sessions, claims and grants are the constants `Team` and
`Reviewers`, the persons behind actors are the constant `Person`; a prepared
execution that was not started, and a cancelled one, have no effect on any of
this and are left out or count as failed; `attest` settles what `Reconcile` may
settle; evidence has the digests of the run it names; a rework changes nothing.
Not in the module: the policies of agent review and of simulated members, the
bytes of artifacts, candidates of delivery synchronisation bound to a receipt,
planning blocks, and the freeze of a pending writeback.

## 3. What is checked

| Run | Question | Bounds |
|---|---|---|
| `lease` | exclusivity, fences, sessions, receipts, feed, what a step may never do to a claim, and that Lease implements FencedLease | 2 actors, 1 task, 3 sessions and claims, 1 wait, 2 request ids, time to 2, 5 events |
| `execution` | admissions, cancels beside repeated deliveries, reports on time and late, overlapping reservations; either attempt may become unknown | 2 attempts, 2 leases, 1 session, 3 request ids, 2 deliveries of a dispatch, 2 bounds, 5 events |
| `duplicates` | duplicate deliveries in three handlers, with crashes and I/O errors; no barriers, so the part of `EffectsFollowFences` about retired generations rests on its theorem | 2 executions of one task, 2 writes each |
| `restore` | a delivery of the old epoch and barriers of both, in any order; every handler comes to an end | 2 handlers, 1 execution, 2 barriers |
| `resource_bounds` | disjoint writers and reservations | 10 spellings, 4 kinds, 2 worktrees, 2 executions |
| `project` | authority and tokens over activation and restore | 1 attempt, 2 leases, 1 import, 1 backup, 2 epochs |
| `mutation` | what is applied, overwritten and left behind, with interruptions and recovery | 2 processes, 2 proposals, 3 contents, 7 events |
| `workspace` | the index, its objects, commits and pulls, with and without compare-and-swap | 2 hosts, 2 paths, 2 contents, 2 attempts, 2 edits, 1 path to drop or 1 interrupted command |
| `convergence` | hosts agree once the edits stop | 2 hosts, 1 path, 2 contents, 2 edits, 1 path to drop or 1 interrupted command |
| `delivery` | the chain of revisions, landings, pending facts, confirmations and taken-over leases | 2 workers, 1 work, 1 connector, 2 events, 3 selections and configurations, 2 inspections, 1 publication of an operator, 2 claims of an intent, 2 faults |
| `completion` | what an activation reopens and refuses, what a verdict and a fixed delivery are worth | 3 actors, 4 works in 5 scenarios: a chain of three, a fixed delivery whose provider's contract moves on and back, one with a pull request, a current delivery, a disputed review; 2 activations, 1 export |
| `settle` | every intent is settled or somebody has to look | 2 workers, 1 event with both intents, 1 selection and configuration, 1 publication of an operator, 3 claims, 2 faults |

Why the bounds suffice. Three claims let a lease lapse, be handed over and be
claimed again; a clock of two ticks with leases of one separates running, just
lapsed and long lapsed. Five events are what that history needs, and every bound
only refuses to go on, so nothing is skipped on the way. Two attempts under two
leases are the least in which one overtakes the other; a third adds no new pair. Two deliveries of a dispatch are
one whose acknowledgement was lost and its repetition, with a cancel before,
between or after.
Three handlers allow an owner, a duplicate, and one that takes over from the
duplicate. Two writes make a partly done plan. The spellings contain every
treatment `canonicalize` distinguishes: plain, nested, dotted, doubled slash,
absolute, parent and empty. Deadlock is checked wherever the bounds on time and
events leave a step; the project runs say CHECK_DEADLOCK FALSE because a
degraded or importing project really waits for an operator. Seven events are
what it takes to apply a proposal, to edit its change away, to reindex, and to
begin another from the first revision; proposals may be approved already in the
first state, so that these events are not spent on reviews. The two processes
are interchangeable and the run uses that symmetry, all its properties being
about safety.

Two hosts and two contents are what a conflict takes, and a second path what a
commit of several entries takes; two attempts give a commit that loses a race
and one that follows it (the code tries three times). A fault of `delivery` is
an edit of the file, an early expiry, a lost process or a failure of the file
system: two of them make a transaction roll back after the replacement and
anything else on the way to recovery. Two events raise two intents that compete
for the slot; an operator's publication is the third. The third of the
selections and configurations changes something after a publication began. A
file with the notes of two works was checked with the same properties at one
fault. `delivery` says
CHECK_DEADLOCK FALSE, and so does `settle`: when all events are in and settled
there is nothing left to do.

A chain of three completions is the least in which reopening has to follow a link
to a work whose own contract and direct dependencies did not change. Two
activations let a provider's contract change and come back, which is how a work
can be completed again under links that were made before; a fixed delivery meets
a second round, a second completion and a pull request of its provider. The
disputed review has two bundles and two rounds, an author who may approve his own
work, and an agent that may not decide. How often each thing is done under a
contract is bounded (`Limit`), and `completion` says CHECK_DEADLOCK FALSE: a
project whose work is done has nothing to do.

**Fairness.** Three runs need it.

* `restore`: weak fairness of each handler's own next step, which is that a live
  thread runs on. It is never assumed that a lock is obtained, that an I/O
  operation succeeds or that nobody crashes; the code's bounded lock attempts
  are what makes the property hold.
* `convergence`: weak fairness of a running command; strong fairness of publish
  and pull, which hooks run at the end and the beginning of every session.
  Convergence is claimed for stores that compare and swap. The guarded sequence
  admits that two hosts overwrite each other again and again.
* `settle`: strong fairness of each worker's calls and of the claims of each
  intent, because the project lock is granted in turn and `run_worker` goes round
  all intents with a cursor; weak fairness of the end of an open transaction and
  of the expiry of a lease nobody uses. Faults, observers and operators are not
  fair. The property exempts a source intent if somebody has ever to look after
  it was raised: an operator holds the slot, the file has drifted, or the
  publication in the slot is in conflict or about something that changed. One
  such moment is enough for the exemption.

Nothing is assumed, and no liveness claimed, about dispatch: the repository has
no loop that polls the outbox.

**Observations.** Modelling brought up statements the code does not bear out.
None of them breaks a property above.

* `reconcile` to unknown (`execution.rs:841`) stores the state without setting
  `recovery_blocked`, while `docs/dev/reference/team-postgres.md:114` says that
  unknown sets it. Further attempts are still refused, as the unknown ones are
  counted.
* A restore in the middle of an import (`import.rs:566`) leaves the staged job,
  so the next load stages a second one; the comment at `import.rs:283` speaks of
  a single staged import.
* A duplicate delivery is answered with "failed" when the runner's directories
  cannot be had, whatever the journal says, and with "unknown" if it read the
  journal (`runner.rs:384`) while the owner was still writing it. The journal and
  the effects are not touched by either answer.
* A publication that belongs to an intent can be abandoned by nobody
  (`publication_guard` refuses the operator), and once its candidate or connector
  has changed, or it is in conflict, the intent cannot be claimed for it either:
  it keeps the slot of its snapshot. The documentation calls it retained for
  investigation.
* A pull looks at a local file again "immediately before writing"
  (`sync.rs:1151`), and `docs/dev/reference/workspace-exchange.md:56` says that
  not a byte of a file changed on this machine is touched. An edit saved between
  that look and the rename (`sync.rs:1154` and `1166`) is overwritten and is in
  no store. `EditsSurvivePulls` exempts exactly that window (`EditedSince`).
* A host that commits and dies before it saves its state, and then edits the
  file, is told of a conflict with its own version; and a dropped path comes back
  when a peer that still tracks it publishes.
* An accepted round is exempt from withdrawal, so a work can be completed again
  on a verdict that a later bundle has overtaken; the comment in `complete`
  (`workstream_command/reviews.rs:1207`) says that only a round no other bundle
  has replaced may satisfy completion. `VerdictsAreNewest` is therefore about the
  first completion on a round. A second completion takes the selection away from
  the first, and the next activation reopens all that was accepted on the first.
* `review.open` takes evidence of any contract, and withdraws the approved round
  of the live one when it does (`workstream_command/reviews.rs:620`).
* Reconciling a succeeded execution with an executor that has not stopped makes it
  unknown again while the completion accepted on it stays selected; a delivery
  proven by it is refused from then on.
* Completion compares the inputs of an execution with the links of the receipt
  only where a dependency crosses workstreams; within one workstream the receipt
  may link to a completion newer than the one the run was started on.
* `admit_live_fence` (`execution.rs:1057`) says that the live fence advances on
  expiry, while the sweep leaves the counter alone. A lapsed lease is refused
  because its claim is not active, not because the fence moved.

## 4. What is proved

Theorems hold for every value of the constants: any number of actors, tasks,
handlers, hosts, paths and publications, whatever the bounds. Their assumptions
are those the modules name, which every run evaluates: bounds are naturals, lease
times are positive, a row that does not exist differs from every row, a project
has finitely many works and an approved source no cycle of requirements. Each module
has one inductive invariant, a theorem `<Name>Invariant`, from which the others
follow; each invariant was also checked with TLC on the instance of its run. The
proofs go by action, with one lemma for each and lemmas on the
operators the actions share.

| Module | Theorems | Properties |
|---|---|---|
| `LeaseProofs` | `LeaseTypeCorrect`, `LeaseExclusive`, `FencesAreOrdered`, `SessionsFollowHandoffs`, `FeedIsFaithful`, `RequestsApplyOnce`, `LeaseKeepsPromise` | `LeaseTypeOK`, `OneActiveClaim`, `FencesOrdered`, `HolderSessionBound`, `FeedTellsClaims`, `ReceiptsAccountForLeases`, `PromiseKept` |
| `ProjectProofs`, on Execution | `ExecTypeCorrect`, `ReservationsAreExclusive`, `LeasesStaySound`, `LeasesKeepPromise`, `AdmissionsAreFenced`, `CancelsStand`, `TaintedResourcesHeld`, `FactsStand` | `ReservationsExclusive`, the lease invariants, `PromiseKept`, `AdmissionsFollowFences`, `CancelsAreFinal`, `UnknownKeepsResources`, `SettledFactsStand` |
| `RunnerProofs` | `RunnerTypeCorrect`, `WritesHappenOnce`, `WritesFollowFences`, `JournalIsTrue`, `RetiredEpochsStay`, `OutcomesStand` | `EffectsOnce`, `EffectsFollowFences`, `JournalTellsEffects`, `EpochsStayRetired`, `JournaledOutcomeStands` |
| `ResourceProofs` | `WritersStayDisjoint`, `ReservationsStayDisjoint` | `WritersDisjoint`, `ReservationsDisjoint` |
| `ProjectProofs`, on Project | `ProjectTypeCorrect`, `AuthorityStaysCurrent`, `TokensAreUnique`, `RestoresStaySound` | `AuthorityIsCurrent`, `TokensNeverReissued`, the invariants of leases and reservations |
| `MutationProofs` | `MutationTypeCorrect`, `AttemptsAreResolvable`, `BasesUsedOnce`, `InformedWrites`, `AppliedMeansInPlace` | `OpenAttemptsResolvable`, `BaseUsedOnce`, `WritesAreInformed`, `AppliedIsInPlace` |
| `WorkspaceProofs` | `WorkspaceTypeCorrect`, `NamedContentsExist`, `InformedCommits`, `EditsSurvive` | `NamedIsStored`, `CommitsAreInformed`, `EditsSurvivePulls` |
| `DeliveryProofs` | `DeliveryTypeCorrect`, `ConfirmationsChain`, `LandingsHeld`, `FactsOfPendingStand`, `ConfirmationsCurrent`, `HoldersOnly` | `RevisionsChain`, `RecordedLandingsHeld`, `PendingFactsStand`, `ConfirmsAreCurrent`, `EffectsByHolder` |
| `CompletionProofs` | `CompletionTypeCorrect`, `RunsStayCurrent`, `ActivationsReopenExactly`, `FixedDeliveriesStand`, `NewestVerdictsComplete`, `CompletionsStayCurrent`, `CompletionsStayReviewed` | `RunsOnCurrentInputs`, `ReopensExactly`, `FixedInputsStand`, `VerdictsAreNewest` |

What the inductive invariants add, and why.

* **Lease.** Exclusivity is not inductive: a claim is granted after a sweep and
  its fence comes from the counter, so all fences of a task must be at most the
  counter, and a handoff, which creates a claim while another is active, must end
  the old one and its session in the same step. Two active claims would then
  share the newest fence. The sweep is treated once, in lemmas about `Swept`. The
  receipts account for the leases because no receipt names a claim that is still
  free. `LeaseCore` is the part the execution store and the project lifecycle
  keep too; `NotRestored` is what only a restore breaks. The refinement maps the
  lease of a task to its active claims as (holder, fence, end), so it rests on
  exclusivity and on the order of fences; an operation is one abstract step
  although it may contain a sweep and a grant.
* **Execution.** `AttemptsFollowClaims`: an attempt has the task and the fence of
  its claim, whose row is never reused. With the order of fences it makes the
  admission check of the lease the check of all attempts. `CancelsOK`: the
  receipt of a cancel goes with a closed dispatch, an attempt that is not waiting
  to be accepted, and the request in the row of one that runs; it is an invariant
  beside `ExecInv`, because a restore, which keeps `ExecInv`, puts receipts and
  rows back in time. The refinement of the
  lease store carries over: the operations of the execution store leave claims,
  clock and fences alone, so each is a stutter of FencedLease.
* **Runner.** `Control` says which locks a handler holds at which step and what
  the journal holds meanwhile; the delicate case is the conversion of an
  abandoned record, made without a lock, which is sound because only a missing
  record can be admitted. `EffectsOK`: an owner has written exactly the first
  `done` writes, and the writes of an execution stand together in the trace.
  `FencingOK`: the generation record and the fence ledgers know at least as much
  as the trace, through the steps at which either file is torn.
* **ResourceBounds.** Two facts about the code's own computation: reservations
  of different executions never conflict, and every declared path of a running
  execution is reserved. What connects them to the two properties is that
  `Canonicalize` is idempotent, keeps parents out, and makes overlap symmetric
  and complete for containment. `Canonicalize` is a recursion over the segments;
  the existence of the function and its properties are shown by induction, which
  comes from the least-number principle (`LeastNumber`, `Induction`).
* **Project.** `SavedSound`: the backup is a state the stores could have been in.
  `TokensBelow` and `LeasesGranted`: tokens of an epoch are below its counters as
  long as it is the present one, so a new epoch is what makes a restored counter
  harmless.
* **Mutation.** `WriterOK`: whoever is past `begin` holds the lock and has an open
  attempt, and between a look at the file and its use only an editor comes.
  `BindingsOK`: a revision has one fingerprint, so `BaseUsedOnce` follows from
  the growth of revisions.
* **Workspace.** `CommandOK`: what a command still means to commit is in the store
  already, and each path it has left holds, in the index as last read, nothing or
  a version the host has had. What a pull saw at its last look was nothing or the
  base, so it is in the store; only what an edit has put there since may not be.
* **Delivery.** `SlotNext`: the pending publication is the next revision on the
  confirmed bytes. `JobHolds`: what was checked when a publication step opened
  its transaction still holds when it ends, because nothing it depends on changes
  under the project lock. The rest dates observations, notes and intents.
* **Completion.** `Grounded`: there is a set of receipts that were completed under
  live contracts, is closed under links that move, and holds the selected
  receipts and the inputs of running executions. `RunsOnCurrentInputs` follows,
  because what `Spread` reaches from inputs stays in such a set. It is kept by an
  activation because what is invalidated is what reaches a stale receipt, and
  because an unsettled run in the spread of a changed contract refuses the
  activation. That `Spread` reaches everything (`SpreadClosed`), although it
  stops after as many rounds as there are works, is a count: until it is closed
  each round adds something, and what it can add are selected receipts, of which
  each work has one. Hence the assumption that `Works` is finite.
  `ReopensExactly` follows, in the other direction from `SpreadWithin`.
  `RoundsOrdered`: of rounds about different bundles of a work
  only the newest is undecided or approved, accepted ones apart; this gives
  `VerdictsAreNewest`. That accepted rounds are never withdrawn gives
  `FixedInputsStand`, and `CompletionsStayReviewed` with it. Two results go
  beyond the runs: `CompletedOnCurrent`, that completed work was completed under
  the contracts it and its inputs have now, and `AcceptancesStand`, that a
  completion of reviewed work keeps its approved round.

Only model-checked: `HandlersReturn`, `HostsConverge` and `IntentsSettle`, which
are liveness under fairness. The prover does not handle it. Every other property
of a run is stated by a theorem.

## 5. What is not modelled

PostgreSQL is trusted: transactions are atomic and serialised by the project
row. The order in which a transaction locks further rows (`lock_order.rs`) is
below that grain: PostgreSQL aborts one of two transactions that wait for each
other. The outbox has no bound on the attempts of a dispatch that always fails
(`execution.rs:296`); whether it holds up others depends on a dispatcher that is
not part of the repository. Credentials, permissions and the texts of requests are left out; a caller
in the model is one that passed them. Of the workspace, the handoff notes; of
delivery, the intents of a domain acceptance, integration intents, several
snapshots and principals, and the adapters. Of completion, the policies of agents and
simulated members and the older entry points of `review.rs`. Several processes of one host that
share its workspace state file. Parsing and editing of Markdown and YAML,
rendering, HTTP and MCP transport, and packaging are outside; `PROJECT.json`
gives the reason for each component.

## 6. Plan

1. Scoped sessions, claims and handoffs under delegated authority and the scoped
   runner, in front of Completion; refinement of the part of Execution they
   replace. The review policies of agents and simulated members.
2. Delivery over several snapshots: the activation of a source while a
   publication is pending, and the rebinding of intents of a domain acceptance.
3. Further writers of Project: `operator_backup.rs`, quarantine, rebuild.
4. Responsibility and member handoff, source writeback, local sessions and
   checkpoints.
5. Refinement of an abstract completed-work register by Completion, from
   `Grounded`; what a history of restores keeps of FencedLease (each epoch is one
   behaviour of it).

The repository has some 165 000 lines, most of them transport, rendering,
parsing, validation and SQL plumbing. The models cover the protocols; the greater
part of the rest has no behaviour that a state machine would tell apart.
