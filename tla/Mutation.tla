------------------------------ MODULE Mutation ------------------------------
(***************************************************************************)
(* Source mutation on one machine: proposals to change a source file, their*)
(* review, their application and its recovery after an interruption        *)
(* (crates/awr-runtime/src/mutation.rs and mutation_apply.rs over the      *)
(* transactions of crates/awr-store/src/mutation.rs, mutation_apply.rs and *)
(* projection.rs), beside the indexer and editors that know no lock.       *)
(*                                                                         *)
(* One source is modelled.  Its bytes stand for their fingerprint, and the *)
(* projected facts for the fingerprint they were parsed from.  A database  *)
(* transaction is one action; what is read from the file and what is done  *)
(* about it afterwards are two.                                            *)
(***************************************************************************)
EXTENDS Naturals, FiniteSets, Sequences

CONSTANTS
  Proposals,     \* identifiers of proposals
  Completions,   \* those that complete a work item
  Contents,      \* what the source file may hold
  Original,      \* what it holds, projected, at the beginning
  Edit,          \* Edit[p][c]: what proposal p makes of contents c
  Writers,       \* processes that apply proposals
  None,          \* no process
  MaxRevision    \* bound on the project revision, from 1

ASSUME MutationAssumption ==
  /\ Completions \subseteq Proposals
  /\ Original \in Contents
  /\ Edit \in [Proposals -> [Contents -> Contents]]
  /\ None \notin Writers
  /\ MaxRevision \in Nat \ {0}

VARIABLES
  revision,      \* projects.project_revision
  file,          \* the bytes of the source file
  source,        \* the row of table sources
  proposals,     \* table mutation_proposals
  attempts,      \* the proposal.apply_started events, with what resolved them
  lock,          \* the holder of the source's OS lock
  writer,        \* the state of each process
  indexer        \* the indexer, of which lock_sources admits one

vars == <<revision, file, source, proposals, attempts, lock, writer, indexer>>

----------------------------------------------------------------------------
(* Rows and reads. *)

Source == [fingerprint : Contents, revision : Nat,
           freshness : {"fresh", "stale", "unavailable"}]

Open == {"draft", "ready", "approved"}
Proposal == [status : Open \cup {"applied", "conflict", "rejected", "failed"},
             base : Contents, baseRevision : Nat]
NoProposal == [status |-> "none"]

Attempt == [proposal : Proposals, before : Contents, after : Contents,
            state : {"open", "applied", "conflict", "failed"}]

\* Attempts on the source that nothing has resolved.
Pending == {i \in DOMAIN attempts : attempts[i].state = "open"}

Idle == [pc |-> "idle"]
Applying == [pc : {"prepare", "refuse", "begin", "inspect", "check", "install", "project",
                   "commit", "verify", "finish", "unfresh", "fail"},
             proposal : Proposals, expected : Nat, attempt : Nat, row : Nat,
             wrote : BOOLEAN, touched : BOOLEAN, verdict : {"conflict", "failed", "approved"}]
Indexing == [pc : {"reread", "commit"}, bytes : Contents, revision : Nat]

\* Mutant: the binding is to bytes, not to a revision of the source.
MutBoundBytes(p) == source.fingerprint = proposals[p].base

\* The binding of a proposal: the source is as it was projected for p.
Bound(p) ==
  /\ source.fingerprint = proposals[p].base
  /\ source.revision = proposals[p].baseRevision

BindingHolds(p) == Bound(p) /\ source.freshness = "fresh"

\* verify_mutation_source: the binding, and the same bytes in the file.
SourceVerified(p) == BindingHolds(p) /\ file = proposals[p].base

\* How its refusal is recorded; a file or a manifest may also be unreadable.
Refusals(p) ==
  IF ~ Bound(p) \/ source.freshness = "stale" THEN {"conflict"}
  ELSE IF SourceVerified(p) \/ source.freshness = "unavailable" THEN {"failed"}
  ELSE {"conflict", "failed"}

\* A committed transaction appends an event.
Emit == revision < MaxRevision /\ revision' = revision + 1

----------------------------------------------------------------------------
(* Projection of the source. *)

\* mark_source_freshness: an event unless the row says so already.
Mark(freshness) ==
  IF source.freshness = freshness
  THEN UNCHANGED <<source, revision>>
  ELSE source' = [source EXCEPT !.freshness = freshness] /\ Emit

\* The second transaction of commit_source_projection.
Project(bytes) ==
  /\ source' = [fingerprint |-> bytes, revision |-> source.revision + 1, freshness |-> "fresh"]
  /\ Emit

\* observe_source reads the file; a fresh projection of the same bytes is rebuilt
\* on demand only, any other always.
Observe ==
  /\ indexer.pc = "idle"
  /\ Mark("stale")
  /\ indexer' = [pc |-> "reread", bytes |-> file, revision |-> source.revision]
  /\ UNCHANGED <<file, proposals, attempts, lock, writer>>

\* observe_source cannot read the file.
LoseSource ==
  /\ indexer.pc = "idle"
  /\ source.freshness # "unavailable"
  /\ Mark("unavailable")
  /\ UNCHANGED <<file, proposals, attempts, lock, writer, indexer>>

\* The indexer reads the file again after parsing it; a change, or a failure on
\* the way, leaves the source stale.
Reread ==
  /\ indexer.pc = "reread"
  /\ \/ file = indexer.bytes /\ indexer' = [indexer EXCEPT !.pc = "commit"]
     \/ indexer' = Idle
  /\ UNCHANGED <<revision, file, source, proposals, attempts, lock, writer>>

\* commit_source_projection, if the source is at the revision that was observed.
Reindex ==
  /\ indexer.pc = "commit"
  /\ IF source.revision = indexer.revision
     THEN Project(indexer.bytes)
     ELSE UNCHANGED <<source, revision>>
  /\ indexer' = Idle
  /\ UNCHANGED <<file, proposals, attempts, lock, writer>>

\* Editors take no lock.  They may come between a writer's look at the file and
\* what it does next, which is remembered for the properties.
Blind == {"install", "verify", "finish"}

EditFile(bytes) ==
  /\ bytes # file
  /\ file' = bytes
  /\ writer' = [h \in Writers |-> IF writer[h].pc \in Blind
                                  THEN [writer[h] EXCEPT !.touched = TRUE] ELSE writer[h]]
  /\ UNCHANGED <<revision, source, proposals, attempts, lock, indexer>>

----------------------------------------------------------------------------
(* Proposals and their review. *)

\* create_proposal binds p to the source as it is projected and as it is.
Create(p) ==
  /\ proposals[p] = NoProposal
  /\ source.freshness = "fresh" /\ file = source.fingerprint
  /\ proposals' = [proposals EXCEPT ![p] =
       [status |-> "draft", base |-> source.fingerprint, baseRevision |-> source.revision]]
  /\ Emit
  /\ UNCHANGED <<file, source, attempts, lock, writer, indexer>>

\* Mutant: a proposal is reviewed although its application is unfinished.
MutReviewAny(p) == proposals[p].status \in Open

\* review_proposal of the store refuses a proposal with an open attempt.
Reviewable(p) ==
  /\ proposals[p].status \in Open
  /\ \A i \in Pending : attempts[i].proposal # p

Decide(p, status) ==
  /\ Reviewable(p)
  /\ proposals' = [proposals EXCEPT ![p].status = status]
  /\ Emit

\* review_proposal: a step forward needs a verified source, and is recorded as
\* a conflict or a failure without one.
Review(p) ==
  /\ \/ Decide(p, "rejected")
     \/ /\ proposals[p].status \in {"draft", "ready"}
        /\ \/ /\ SourceVerified(p)
              /\ Decide(p, IF proposals[p].status = "draft" THEN "ready" ELSE "approved")
           \/ \E status \in Refusals(p) : Decide(p, status)
  /\ UNCHANGED <<file, source, attempts, lock, writer, indexer>>

----------------------------------------------------------------------------
(* Application. *)

pc(h) == writer[h].pc
P(h) == writer[h].proposal
A(h) == attempts[writer[h].attempt]

Goto(h, step) == writer' = [writer EXCEPT ![h].pc = step]

\* The process is done with the proposal, and its lock is released.
Leave(h) ==
  /\ writer' = [writer EXCEPT ![h] = Idle]
  /\ lock' = IF lock = h THEN None ELSE lock

\* Mutant: the lock is shared.
MutShared == TRUE

LockFree == lock = None

Take(h, p, step, attempt) ==
  /\ pc(h) = "idle"
  /\ proposals[p].status = "approved"
  /\ LockFree
  /\ lock' = h
  /\ writer' = [writer EXCEPT ![h] = [pc |-> step, proposal |-> p, expected |-> revision,
                  attempt |-> attempt, row |-> 0, wrote |-> FALSE, touched |-> FALSE, verdict |-> "failed"]]
  /\ UNCHANGED <<revision, file, source, proposals, attempts, indexer>>

\* apply of a proposal without an open attempt.
Apply(h, p) ==
  /\ \A i \in Pending : attempts[i].proposal # p
  /\ Take(h, p, "prepare", 0)

\* recover of the open attempt at a proposal.
Recover(h, p) ==
  \E i \in Pending : attempts[i].proposal = p /\ Take(h, p, "inspect", i)

\* verify_mutation_source and prepare_yaml_mutation, which may not support the
\* change: "approved" asks for one by hand.
Prepare(h) ==
  /\ pc(h) = "prepare"
  /\ \/ /\ SourceVerified(P(h))
        /\ Edit[P(h)][file] # file
        /\ Goto(h, "begin")
     \/ \E verdict \in Refusals(P(h)) \cup {"approved"} :
          /\ verdict = "approved" => SourceVerified(P(h))
          /\ writer' = [writer EXCEPT ![h].pc = "refuse", ![h].verdict = verdict]
  /\ UNCHANGED <<revision, file, source, proposals, attempts, lock, indexer>>

\* preparation_failure records why, unless anything happened in the meantime.
Refuse(h) ==
  /\ pc(h) = "refuse"
  /\ revision = writer[h].expected
  /\ writer[h].verdict = "approved" => BindingHolds(P(h))
  /\ Decide(P(h), writer[h].verdict)
  /\ Leave(h)
  /\ UNCHANGED <<file, source, attempts, indexer>>

\* begin_proposal_apply, after both snapshots were staged.
Begin(h) ==
  LET p == P(h) IN
  /\ pc(h) = "begin"
  /\ revision = writer[h].expected
  /\ proposals[p].status = "approved"
  /\ Pending = {}
  /\ BindingHolds(p)
  /\ Emit
  /\ attempts' = Append(attempts,
       [proposal |-> p, before |-> proposals[p].base,
        after |-> Edit[p][proposals[p].base], state |-> "open"])
  /\ writer' = [writer EXCEPT ![h].pc = "inspect", ![h].expected = revision',
                              ![h].attempt = Len(attempts')]
  /\ UNCHANGED <<file, source, proposals, lock, indexer>>

\* inspect_mutation_source: which of its snapshots does the file hold?
Inspect(h) ==
  /\ pc(h) = "inspect"
  /\ \/ file = A(h).before /\ SourceVerified(P(h)) /\ Goto(h, "check")
     \/ file = A(h).after /\ Goto(h, "project")
  /\ UNCHANGED <<revision, file, source, proposals, attempts, lock, indexer>>

\* The last look at bytes and revision before the replacement.
Check(h) ==
  /\ pc(h) = "check"
  /\ file = A(h).before
  /\ revision = writer[h].expected
  /\ Goto(h, "install")
  /\ UNCHANGED <<revision, file, source, proposals, attempts, lock, indexer>>

\* The temporary file is renamed over the source.
Install(h) ==
  /\ pc(h) = "install"
  /\ file' = A(h).after
  /\ writer' = [writer EXCEPT ![h].pc = "project", ![h].wrote = TRUE,
                              ![h].touched = FALSE]
  /\ UNCHANGED <<revision, source, proposals, attempts, lock, indexer>>

\* The file is read again and parsed, and a projection of it sought: one that
\* is fresh already is kept, any other is distrusted first.
Distrust(h) ==
  /\ pc(h) = "project"
  /\ file = A(h).after
  /\ IF source.freshness = "fresh" /\ source.fingerprint = A(h).after
     THEN Goto(h, "verify") /\ UNCHANGED <<source, revision>>
     ELSE /\ Mark("stale")
          /\ writer' = [writer EXCEPT ![h].pc = "commit", ![h].row = source.revision]
  /\ UNCHANGED <<file, proposals, attempts, lock, indexer>>

\* commit_source_projection, if nobody else projected the source since.
Commit(h) ==
  /\ pc(h) = "commit"
  /\ source.revision = writer[h].row
  /\ Project(A(h).after)
  /\ Goto(h, "verify")
  /\ UNCHANGED <<file, proposals, attempts, lock, indexer>>

\* Mutant: the file is not read again after its projection.
MutUnread(h) == TRUE

\* The file still holds what was projected.
ReadAgain(h) == file = A(h).after

Verify(h) ==
  /\ pc(h) = "verify"
  /\ ReadAgain(h)
  /\ Goto(h, "finish")
  /\ UNCHANGED <<revision, file, source, proposals, attempts, lock, indexer>>

\* The attempt and its proposal are closed together.
Resolve(h, status) ==
  /\ proposals[P(h)].status = "approved"
  /\ A(h).state = "open"
  /\ proposals' = [proposals EXCEPT ![P(h)].status = status]
  /\ attempts' = [attempts EXCEPT ![writer[h].attempt].state = status]
  /\ Emit
  /\ Leave(h)

\* finish_proposal_apply.
Finish(h) ==
  /\ pc(h) = "finish"
  /\ source.freshness = "fresh" /\ source.fingerprint = A(h).after
  /\ Resolve(h, "applied")
  /\ UNCHANGED <<file, source, indexer>>

\* Once it has written, a stopping writer first distrusts the projection.
StopStep(wrote) == IF wrote THEN "unfresh" ELSE "fail"

\* stopped: the manifest, the bytes, the projection or the proof of a completion
\* can end an attempt at each step; a completion that is in the file, or that
\* may be in one that cannot be read, stays open (Interrupt).
Stop(h) ==
  /\ pc(h) \in {"inspect", "check", "project", "commit", "verify", "finish"}
  /\ P(h) \in Completions =>
       \/ file # A(h).after
       \/ ~ writer[h].wrote /\ source.fingerprint # A(h).after
  /\ \E verdict \in {"conflict", "failed"} :
       writer' = [writer EXCEPT ![h].pc = StopStep(writer[h].wrote), ![h].verdict = verdict]
  /\ UNCHANGED <<revision, file, source, proposals, attempts, lock, indexer>>

Unfresh(h) ==
  /\ pc(h) = "unfresh"
  /\ Mark("stale")
  /\ Goto(h, "fail")
  /\ UNCHANGED <<file, proposals, attempts, lock, indexer>>

\* fail_proposal_apply.
Fail(h) ==
  /\ pc(h) = "fail"
  /\ Resolve(h, writer[h].verdict)
  /\ UNCHANGED <<file, source, indexer>>

\* The process ends without a word in the database: a crash, a refused
\* transaction, or an I/O error, which keeps an attempt for its recovery.
Interrupt(h) ==
  /\ pc(h) # "idle"
  /\ Leave(h)
  /\ UNCHANGED <<revision, file, source, proposals, attempts, indexer>>

----------------------------------------------------------------------------
\* A project with a fresh source and a quiet machine, in which some proposals
\* have been approved already; revisions are counted from there.
Init ==
  /\ revision = 1
  /\ file = Original
  /\ source = [fingerprint |-> Original, revision |-> 1, freshness |-> "fresh"]
  /\ proposals \in [Proposals -> {NoProposal,
       [status |-> "approved", base |-> Original, baseRevision |-> 1]}]
  /\ attempts = <<>>
  /\ lock = None
  /\ writer = [h \in Writers |-> Idle]
  /\ indexer = Idle

Next ==
  \/ Observe \/ LoseSource \/ Reread \/ Reindex
  \/ \E bytes \in Contents : EditFile(bytes)
  \/ \E p \in Proposals : Create(p) \/ Review(p)
  \/ \E h \in Writers, p \in Proposals : Apply(h, p) \/ Recover(h, p)
  \/ \E h \in Writers :
       \/ Prepare(h) \/ Refuse(h) \/ Begin(h) \/ Inspect(h) \/ Check(h) \/ Install(h)
       \/ Distrust(h) \/ Commit(h) \/ Verify(h) \/ Finish(h)
       \/ Stop(h) \/ Unfresh(h) \/ Fail(h) \/ Interrupt(h)

Spec == Init /\ [][Next]_vars

----------------------------------------------------------------------------
(* Properties. *)

\* Every variable has its type, and only a process at work holds the lock.
MutationTypeOK ==
  /\ revision \in 1 .. MaxRevision
  /\ file \in Contents
  /\ source \in Source
  /\ proposals \in [Proposals -> Proposal \cup {NoProposal}]
  /\ attempts \in Seq(Attempt)
  /\ lock \in {h \in Writers : pc(h) # "idle"} \cup {None}
  /\ writer \in [Writers -> Applying \cup {Idle}]
  /\ indexer \in Indexing \cup {Idle}

\* An unfinished application can always be resolved: it is the only one of its
\* source, and its proposal still stands approved, without which neither
\* finish_proposal_apply nor fail_proposal_apply would close it and
\* begin_proposal_apply would refuse the source for ever.
OpenAttemptsResolvable ==
  \A i \in Pending :
    /\ Pending = {i}
    /\ proposals[attempts[i].proposal].status = "approved"

\* One revision of a source carries one change: once a proposal was applied, no
\* other one that was made from the same revision is applied or begun, however
\* often the file is edited back and reindexed.
BaseUsedOnce ==
  \A i, j \in DOMAIN attempts :
    /\ i # j
    /\ attempts[i].state = "applied" /\ attempts[j].state \in {"open", "applied"}
    => proposals[attempts[i].proposal].baseRevision
         # proposals[attempts[j].proposal].baseRevision

\* A rename over the bytes the proposal was made from, or over ones of an editor
\* who came after the last check.
InformedWrite ==
  \A h \in Writers :
    pc(h) = "install" /\ writer'[h].pc = "project" =>
      file = A(h).before \/ writer[h].touched

\* apply_observed overwrites what it knows: the bytes under the rename are the
\* ones the proposal was made from, unless an editor came between the last
\* check and the rename.
WritesAreInformed == [][InformedWrite]_vars

\* A step that records a proposal as applied only when it is.
AppliedInPlace ==
  \A h \in Writers :
    pc(h) = "finish" /\ proposals'[P(h)].status = "applied" =>
      /\ source.freshness = "fresh" /\ source.fingerprint = A(h).after
      /\ source.revision > proposals[P(h)].baseRevision
      /\ file = A(h).after \/ writer[h].touched

\* A proposal is recorded as applied when the file and its fresh projection
\* are both what was intended, unless an editor came after it was projected.
AppliedIsInPlace == [][AppliedInPlace]_vars

=============================================================================
