--------------------------- MODULE MutationProofs ---------------------------
(* Proofs about source mutation, for any number of proposals, processes and *)
(* contents, and any edits the proposals make.                              *)
EXTENDS Mutation, TLAPS

----------------------------------------------------------------------------
(* The inductive invariant. *)

Exists(p) == proposals[p].status # "none"

Attempting == {"inspect", "check", "install", "project", "commit", "verify", "finish",
               "unfresh", "fail"}

\* A process at work holds the lock of the source, its proposal exists and the
\* attempt it is at is open.  Between a look at the file and its use, only an editor can come.
WriterOK(h) ==
  /\ pc(h) # "idle" => lock = h /\ Exists(P(h))
  /\ pc(h) = "begin" => Edit[P(h)][proposals[P(h)].base] # proposals[P(h)].base
  /\ pc(h) \in Attempting => writer[h].attempt \in Pending /\ A(h).proposal = P(h)
  /\ pc(h) \in {"unfresh", "fail"} => writer[h].verdict \in {"conflict", "failed"}
  /\ pc(h) = "install" => file = A(h).before \/ writer[h].touched
  /\ pc(h) = "finish" => file = A(h).after \/ writer[h].touched

\* A revision of the source has one fingerprint, and proposals name past ones.
BindingsOK ==
  \A p \in Proposals : Exists(p) =>
    /\ proposals[p].baseRevision <= source.revision
    /\ proposals[p].baseRevision = source.revision => proposals[p].base = source.fingerprint

\* What an attempt makes of the base of its proposal, which it has left behind
\* once it is applied.
AttemptsOK ==
  \A i \in DOMAIN attempts :
    LET a == attempts[i] IN
    /\ Exists(a.proposal)
    /\ a.before = proposals[a.proposal].base /\ a.before # a.after
    /\ a.state = "applied" => proposals[a.proposal].baseRevision < source.revision

MutationInv ==
  /\ MutationTypeOK
  /\ \A h \in Writers : WriterOK(h)
  /\ BindingsOK
  /\ AttemptsOK
  /\ OpenAttemptsResolvable
  /\ BaseUsedOnce

----------------------------------------------------------------------------
(* Shapes. *)

LEMMA PendingFacts ==
  ASSUME MutationInv
  PROVE  /\ Len(attempts) \in Nat /\ DOMAIN attempts = 1 .. Len(attempts)
         /\ \A i \in DOMAIN attempts :
              attempts[i] \in Attempt /\ attempts[i].proposal \in Proposals
         /\ \A i \in Pending : /\ i \in DOMAIN attempts /\ attempts[i].state = "open"
                               /\ \A j \in Pending : j = i
                               /\ proposals[attempts[i].proposal].status = "approved"
<1>1. attempts \in Seq(Attempt)
  BY DEF MutationInv, MutationTypeOK
<1>2. \A i \in DOMAIN attempts : attempts[i] \in Attempt
  BY <1>1
<1>3. \A i \in DOMAIN attempts : attempts[i].proposal \in Proposals
  BY <1>2 DEF Attempt
<1> QED
  BY <1>1, <1>2, <1>3 DEF Pending, MutationInv, OpenAttemptsResolvable

\* A proposal that exists has a base.
LEMMA ProposalFacts ==
  ASSUME MutationInv, NEW p \in Proposals
  PROVE  /\ Exists(p) <=> proposals[p] \in Proposal
         /\ proposals[p] \in Proposal => proposals[p].base \in Contents /\ proposals[p].baseRevision \in Nat
         /\ ~ Exists(p) => proposals[p] = NoProposal
         /\ source \in Source /\ source.revision \in Nat
<1>1. proposals[p] \in Proposal \cup {NoProposal} /\ source \in Source
  BY DEF MutationInv, MutationTypeOK
<1>2. NoProposal.status = "none"
  BY DEF NoProposal
<1>3. \A q \in Proposal : q.status # "none"
  BY DEF Proposal, Open
<1> QED
  BY <1>1, <1>2, <1>3 DEF Exists, Proposal, Source

\* A process at work is the only one.
LEMMA WorkerFacts ==
  ASSUME MutationInv, NEW h \in Writers, pc(h) # "idle"
  PROVE  /\ writer[h] \in Applying /\ P(h) \in Proposals /\ Exists(P(h)) /\ lock = h
         /\ \A g \in Writers \ {h} : pc(g) = "idle"
<1>1. writer[h] \in Applying \cup {Idle} /\ lock = h /\ Exists(P(h))
  BY DEF MutationInv, MutationTypeOK, WriterOK
<1>2. writer[h] \in Applying
  BY <1>1 DEF Idle, pc
<1> QED
  BY <1>1, <1>2 DEF Applying, P, MutationInv, WriterOK

\* ... and its attempt, once it has one, is the open one of the source.
LEMMA AttemptFacts ==
  ASSUME MutationInv, NEW h \in Writers, pc(h) \in Attempting
  PROVE  /\ writer[h].attempt \in Pending /\ writer[h].attempt \in DOMAIN attempts
         /\ A(h) \in Attempt /\ A(h).proposal = P(h) /\ A(h).state = "open"
         /\ Exists(P(h)) /\ proposals[P(h)].status = "approved" /\ P(h) \in Proposals
         /\ A(h).before = proposals[P(h)].base /\ A(h).before # A(h).after
         /\ A(h).before \in Contents /\ A(h).after \in Contents
         /\ pc(h) # "idle"
<1>1. writer[h].attempt \in Pending /\ A(h).proposal = P(h)
  BY DEF MutationInv, WriterOK
<1>2. /\ writer[h].attempt \in DOMAIN attempts /\ A(h) \in Attempt /\ A(h).state = "open"
      /\ A(h).proposal \in Proposals /\ proposals[A(h).proposal].status = "approved"
  BY <1>1, PendingFacts DEF A
<1>3. Exists(A(h).proposal) /\ A(h).before = proposals[A(h).proposal].base /\ A(h).before # A(h).after
  BY <1>2 DEF MutationInv, AttemptsOK, A
<1> QED
  BY <1>1, <1>2, <1>3 DEF Attempt, Attempting

----------------------------------------------------------------------------
(* Frames. *)

\* Proposals keep what they were made from, and new ones are made from the
\* source as it is.
KeepsProposals ==
  /\ proposals' \in [Proposals -> Proposal \cup {NoProposal}]
  /\ \A p \in Proposals :
       /\ Exists(p) => /\ proposals'[p].status # "none" /\ proposals'[p].base = proposals[p].base
                       /\ proposals'[p].baseRevision = proposals[p].baseRevision
       /\ ~ Exists(p) /\ proposals'[p].status # "none" =>
            /\ proposals'[p].base = source'.fingerprint
            /\ proposals'[p].baseRevision = source'.revision

SourceMoves ==
  /\ source' \in Source
  /\ \/ source'.revision = source.revision /\ source'.fingerprint = source.fingerprint
     \/ source'.revision = source.revision + 1

LEMMA BindingsKept ==
  ASSUME MutationInv, KeepsProposals, SourceMoves
  PROVE  /\ BindingsOK' /\ source.revision \in Nat /\ source'.revision \in Nat
         /\ source.revision <= source'.revision
<1>1. source.revision \in Nat /\ source'.revision \in Nat
  BY DEF MutationInv, MutationTypeOK, SourceMoves, Source
<1>2. source.revision <= source'.revision
  BY <1>1 DEF SourceMoves
<1> SUFFICES ASSUME NEW p \in Proposals, proposals'[p].status # "none"
             PROVE  /\ proposals'[p].baseRevision <= source'.revision
                    /\ proposals'[p].baseRevision = source'.revision =>
                         proposals'[p].base = source'.fingerprint
  BY <1>1, <1>2 DEF BindingsOK, Exists
<1>3. CASE Exists(p)
  <2>1. proposals[p].baseRevision \in Nat
    BY <1>3, ProposalFacts
  <2> QED
    BY <1>1, <1>3, <2>1 DEF KeepsProposals, SourceMoves, MutationInv, BindingsOK
<1>4. CASE ~ Exists(p)
  BY <1>1, <1>4 DEF KeepsProposals
<1> QED
  BY <1>3, <1>4

\* A step that leaves the attempts alone, and the proposals under attempt.
LEMMA AttemptsKept ==
  ASSUME MutationInv, KeepsProposals, SourceMoves, UNCHANGED attempts,
         \A i \in Pending : proposals'[attempts[i].proposal].status = "approved"
  PROVE  /\ AttemptsOK' /\ OpenAttemptsResolvable' /\ BaseUsedOnce' /\ AppliedInPlace
         /\ Pending' = Pending
<1>1. Pending' = Pending
  BY DEF Pending
<1>2. /\ source.revision \in Nat /\ source'.revision \in Nat /\ source.revision <= source'.revision
  BY BindingsKept
<1>3. \A i \in DOMAIN attempts :
        LET p == attempts[i].proposal IN
        /\ p \in Proposals /\ Exists(p) /\ proposals[p].baseRevision \in Nat
        /\ proposals'[p].status # "none" /\ proposals'[p].base = proposals[p].base
        /\ proposals'[p].baseRevision = proposals[p].baseRevision
  BY PendingFacts, ProposalFacts DEF MutationInv, AttemptsOK, KeepsProposals
<1>4. AttemptsOK'
  BY <1>2, <1>3 DEF MutationInv, AttemptsOK, Exists
<1>5. OpenAttemptsResolvable'
  BY <1>1, PendingFacts DEF OpenAttemptsResolvable
<1>6. BaseUsedOnce'
  BY <1>3 DEF MutationInv, BaseUsedOnce
<1>7. AppliedInPlace
  <2> SUFFICES ASSUME NEW h \in Writers, pc(h) = "finish", proposals'[P(h)].status = "applied"
               PROVE  FALSE
    BY DEF AppliedInPlace
  <2>1. writer[h].attempt \in Pending /\ A(h).proposal = P(h)
    BY AttemptFacts DEF Attempting
  <2> QED
    BY <2>1 DEF A
<1> QED
  BY <1>1, <1>4, <1>5, <1>6, <1>7

\* Proposals that stay as they are.
LEMMA ProposalsStay ==
  ASSUME MutationInv, UNCHANGED proposals
  PROVE  KeepsProposals /\ \A i \in Pending : proposals'[attempts[i].proposal].status = "approved"
  BY PendingFacts DEF KeepsProposals, MutationInv, MutationTypeOK, Exists

LEMMA SourceStays ==
  ASSUME MutationInv, UNCHANGED source
  PROVE  SourceMoves
  BY DEF SourceMoves, MutationInv, MutationTypeOK

LEMMA EmitFacts ==
  ASSUME MutationInv
  PROVE  /\ Emit => revision' \in 1 .. MaxRevision
         /\ UNCHANGED revision => revision' \in 1 .. MaxRevision
  BY MutationAssumption DEF Emit, MutationInv, MutationTypeOK

LEMMA MarkFacts ==
  ASSUME MutationInv, NEW freshness \in {"fresh", "stale", "unavailable"}, Mark(freshness)
  PROVE  SourceMoves /\ revision' \in 1 .. MaxRevision
<1>1. source \in Source
  BY DEF MutationInv, MutationTypeOK
<1>2. CASE UNCHANGED <<source, revision>>
  BY <1>2, SourceStays, EmitFacts
<1>3. CASE source' = [source EXCEPT !.freshness = freshness] /\ Emit
  BY <1>1, <1>3, EmitFacts DEF SourceMoves, Source
<1> QED
  BY <1>2, <1>3 DEF Mark

LEMMA ProjectFacts ==
  ASSUME MutationInv, NEW bytes \in Contents, Project(bytes)
  PROVE  SourceMoves /\ revision' \in 1 .. MaxRevision
<1>1. source.revision \in Nat
  BY DEF MutationInv, MutationTypeOK, Source
<1> QED
  BY <1>1, EmitFacts DEF Project, SourceMoves, Source

\* A step of nobody at work: the processes, their locks and the file stay.
LEMMA OutsideStep ==
  ASSUME MutationInv, KeepsProposals, SourceMoves, UNCHANGED <<file, attempts, lock, writer>>,
         \A i \in Pending : proposals'[attempts[i].proposal].status = "approved",
         revision' \in 1 .. MaxRevision, indexer' \in Indexing \cup {Idle}
  PROVE  MutationInv' /\ AppliedInPlace
<1>1. /\ BindingsOK' /\ AttemptsOK' /\ OpenAttemptsResolvable' /\ BaseUsedOnce' /\ AppliedInPlace
      /\ Pending' = Pending
  BY BindingsKept, AttemptsKept
<1>2. MutationTypeOK'
  BY DEF MutationInv, MutationTypeOK, KeepsProposals, SourceMoves, pc
<1>3. ASSUME NEW h \in Writers PROVE WriterOK(h)'
  <2>1. WriterOK(h)
    BY DEF MutationInv
  <2>2. pc(h) # "idle" => P(h) \in Proposals
    BY WorkerFacts
  <2>3. pc(h)' = pc(h) /\ P(h)' = P(h) /\ A(h)' = A(h)
    BY DEF pc, P, A
  <2>4. /\ pc(h) # "idle" => Exists(P(h))'
        /\ pc(h) = "begin" => Edit[P(h)'][proposals'[P(h)'].base] # proposals'[P(h)'].base
    BY <2>1, <2>2, <2>3 DEF WriterOK, KeepsProposals, Exists
  <2> QED
    BY <1>1, <2>1, <2>3, <2>4 DEF WriterOK
<1> QED
  BY <1>1, <1>2, <1>3 DEF MutationInv

\* A step of the process at work, which goes on with record d.
LEMMA WorkerStep ==
  ASSUME MutationInv, NEW h \in Writers, pc(h) # "idle", NEW d \in Applying,
         writer' = [writer EXCEPT ![h] = d], UNCHANGED <<lock, indexer>>,
         revision' \in 1 .. MaxRevision, file' \in Contents, source' \in Source,
         proposals' \in [Proposals -> Proposal \cup {NoProposal}], attempts' \in Seq(Attempt),
         WriterOK(h)', BindingsOK', AttemptsOK', OpenAttemptsResolvable', BaseUsedOnce'
  PROVE  MutationInv'
<1>1. /\ writer' \in [Writers -> Applying \cup {Idle}] /\ writer'[h] = d
      /\ \A g \in Writers \ {h} : writer'[g] = writer[g]
  BY DEF MutationInv, MutationTypeOK
<1>2. d.pc # "idle" /\ lock = h
  BY WorkerFacts DEF Applying
<1>3. pc(h)' # "idle" /\ \A g \in Writers \ {h} : pc(g)' = "idle"
  BY <1>1, <1>2, WorkerFacts DEF pc
<1>4. MutationTypeOK'
  BY <1>1, <1>2, <1>3 DEF MutationInv, MutationTypeOK
<1>5. \A g \in Writers \ {h} : WriterOK(g)'
  BY <1>3 DEF WriterOK, Attempting
<1> QED
  BY <1>4, <1>5 DEF MutationInv

\* ... or is done.
LEMMA WorkerLeaves ==
  ASSUME MutationInv, NEW h \in Writers, pc(h) # "idle", Leave(h), UNCHANGED indexer,
         revision' \in 1 .. MaxRevision, file' \in Contents, source' \in Source,
         proposals' \in [Proposals -> Proposal \cup {NoProposal}], attempts' \in Seq(Attempt),
         BindingsOK', AttemptsOK', OpenAttemptsResolvable', BaseUsedOnce'
  PROVE  MutationInv'
<1>1. /\ writer' \in [Writers -> Applying \cup {Idle}] /\ writer'[h] = Idle
      /\ \A g \in Writers \ {h} : writer'[g] = writer[g]
  BY DEF MutationInv, MutationTypeOK, Leave
<1>2. lock' = None
  BY WorkerFacts DEF Leave
<1>3. \A g \in Writers : pc(g)' = "idle"
  BY <1>1, WorkerFacts DEF pc, Idle
<1>4. MutationTypeOK'
  BY <1>1, <1>2 DEF MutationInv, MutationTypeOK
<1>5. \A g \in Writers : WriterOK(g)'
  BY <1>3 DEF WriterOK, Attempting
<1> QED
  BY <1>4, <1>5 DEF MutationInv

----------------------------------------------------------------------------
(* The indexer, the editors and the reviewers. *)

LEMMA IndexerStep ==
  ASSUME MutationInv, Observe \/ LoseSource \/ Reread \/ Reindex
  PROVE  MutationInv' /\ AppliedInPlace
<1>1. /\ UNCHANGED <<file, attempts, lock, writer, proposals>>
      /\ indexer \in Indexing \cup {Idle} /\ file \in Contents /\ source \in Source
      /\ revision \in Nat
  BY DEF Observe, LoseSource, Reread, Reindex, MutationInv, MutationTypeOK
<1>2. indexer.pc # "idle" => indexer \in Indexing
  BY <1>1 DEF Idle
<1>3. SourceMoves /\ revision' \in 1 .. MaxRevision /\ indexer' \in Indexing \cup {Idle}
  <2>1. CASE Observe
    <3>1. [pc |-> "reread", bytes |-> file, revision |-> source.revision] \in Indexing
      BY <1>1 DEF Indexing, Source
    <3> QED
      BY <2>1, <3>1, MarkFacts DEF Observe
  <2>2. CASE LoseSource
    BY <1>1, <2>2, MarkFacts DEF LoseSource
  <2>3. CASE Reread
    <3>1. indexer \in Indexing
      BY <1>2, <2>3 DEF Reread
    <3>2. [indexer EXCEPT !.pc = "commit"] \in Indexing
      BY <3>1 DEF Indexing
    <3> QED
      BY <2>3, <3>2, SourceStays, EmitFacts DEF Reread
  <2>4. CASE Reindex
    <3>1. indexer.bytes \in Contents
      BY <1>2, <2>4 DEF Reindex, Indexing
    <3> QED
      BY <2>4, <3>1, ProjectFacts, SourceStays, EmitFacts DEF Reindex
  <2> QED
    BY <2>1, <2>2, <2>3, <2>4
<1> QED
  BY <1>1, <1>3, ProposalsStay, OutsideStep

\* An editor may come at any time, and processes that have looked are marked.
LEMMA EditStep ==
  ASSUME MutationInv, NEW bytes \in Contents, EditFile(bytes)
  PROVE  MutationInv' /\ AppliedInPlace
<1>1. /\ UNCHANGED <<revision, source, proposals, attempts, lock, indexer>> /\ file' = bytes
      /\ writer' = [h \in Writers |-> IF writer[h].pc \in Blind
                                      THEN [writer[h] EXCEPT !.touched = TRUE] ELSE writer[h]]
  BY DEF EditFile
<1>2. /\ BindingsOK' /\ AttemptsOK' /\ OpenAttemptsResolvable' /\ BaseUsedOnce' /\ AppliedInPlace
      /\ Pending' = Pending
  BY <1>1, ProposalsStay, SourceStays, BindingsKept, AttemptsKept
<1>3. ASSUME NEW h \in Writers
      PROVE  /\ writer'[h] \in Applying \cup {Idle}
             /\ writer'[h].pc = writer[h].pc
             /\ writer[h].pc # "idle" =>
                  /\ writer'[h].proposal = writer[h].proposal
                  /\ writer'[h].attempt = writer[h].attempt
                  /\ writer'[h].verdict = writer[h].verdict
             /\ writer[h].pc \in Blind => writer'[h].touched
  <2>1. writer[h] \in Applying \cup {Idle} /\ (writer[h].pc # "idle" => writer[h] \in Applying)
    BY WorkerFacts DEF MutationInv, MutationTypeOK, pc
  <2>2. CASE writer[h].pc \in Blind
    <3>1. writer[h] \in Applying
      BY <2>1, <2>2 DEF Blind
    <3>2. writer'[h] = [writer[h] EXCEPT !.touched = TRUE]
      BY <1>1, <2>2
    <3> QED
      BY <3>1, <3>2 DEF Applying
  <2>3. CASE writer[h].pc \notin Blind
    BY <1>1, <2>1, <2>3
  <2> QED
    BY <2>2, <2>3
<1>4. MutationTypeOK'
  <2>1. writer' \in [Writers -> Applying \cup {Idle}]
    BY <1>1, <1>3
  <2>2. lock' \in {h \in Writers : pc(h)' # "idle"} \cup {None}
    BY <1>1, <1>3 DEF MutationInv, MutationTypeOK, pc
  <2> QED
    BY <1>1, <2>1, <2>2 DEF MutationInv, MutationTypeOK
<1>5. ASSUME NEW h \in Writers PROVE WriterOK(h)'
  <2>1. WriterOK(h) /\ pc(h)' = pc(h)
    BY <1>3 DEF MutationInv, pc
  <2>2. CASE pc(h) = "idle"
    BY <2>1, <2>2 DEF WriterOK, Attempting
  <2>3. CASE pc(h) # "idle"
    <3>1. P(h)' = P(h) /\ A(h)' = A(h) /\ writer'[h].attempt = writer[h].attempt
          /\ writer'[h].verdict = writer[h].verdict
          /\ (pc(h) \in {"install", "finish"} => writer'[h].touched)
      BY <1>1, <1>3, <2>3 DEF P, A, pc, Blind
    <3> QED
      BY <1>1, <1>2, <2>1, <3>1 DEF WriterOK, Exists
  <2> QED
    BY <2>2, <2>3
<1> QED
  BY <1>2, <1>4, <1>5 DEF MutationInv

LEMMA CreateStep ==
  ASSUME MutationInv, NEW p \in Proposals, Create(p)
  PROVE  MutationInv' /\ AppliedInPlace
<1> DEFINE q == [status |-> "draft", base |-> source.fingerprint, baseRevision |-> source.revision]
<1>1. /\ proposals[p] = NoProposal /\ Emit /\ UNCHANGED <<file, source, attempts, lock, writer, indexer>>
      /\ proposals' = [proposals EXCEPT ![p] = q]
  BY DEF Create
<1>2. source \in Source /\ proposals \in [Proposals -> Proposal \cup {NoProposal}]
      /\ indexer \in Indexing \cup {Idle}
  BY DEF MutationInv, MutationTypeOK
<1>3. q \in Proposal /\ q.status = "draft" /\ q.base = source.fingerprint /\ q.baseRevision = source.revision
  BY <1>2 DEF Proposal, Open, Source
<1>4. ~ Exists(p)
  BY <1>1 DEF Exists, NoProposal
<1> HIDE DEF q
<1>5. KeepsProposals
  BY <1>1, <1>2, <1>3, <1>4 DEF KeepsProposals, Exists
<1>6. \A i \in Pending : proposals'[attempts[i].proposal].status = "approved"
  <2>1. \A i \in Pending : attempts[i].proposal \in Proposals /\ attempts[i].proposal # p
                           /\ proposals[attempts[i].proposal].status = "approved"
    BY <1>4, PendingFacts DEF MutationInv, AttemptsOK
  <2> QED
    BY <1>1, <1>2, <2>1
<1> QED
  BY <1>1, <1>2, <1>5, <1>6, SourceStays, EmitFacts, OutsideStep

LEMMA DecideFacts ==
  ASSUME MutationInv, NEW p \in Proposals,
         NEW status \in {"draft", "ready", "approved", "applied", "conflict", "rejected", "failed"},
         Decide(p, status)
  PROVE  /\ KeepsProposals /\ revision' \in 1 .. MaxRevision
         /\ \A i \in Pending : proposals'[attempts[i].proposal].status = "approved"
<1>1. /\ proposals[p].status \in Open /\ \A i \in Pending : attempts[i].proposal # p
      /\ proposals' = [proposals EXCEPT ![p].status = status] /\ Emit
  BY DEF Decide, Reviewable
<1>2. Exists(p) /\ proposals[p] \in Proposal
  BY <1>1, ProposalFacts DEF Exists, Open
<1>3. proposals \in [Proposals -> Proposal \cup {NoProposal}]
  BY DEF MutationInv, MutationTypeOK
<1>4. /\ proposals'[p] \in Proposal /\ proposals'[p].status = status
      /\ proposals'[p].base = proposals[p].base
      /\ proposals'[p].baseRevision = proposals[p].baseRevision
      /\ \A q \in Proposals \ {p} : proposals'[q] = proposals[q]
      /\ DOMAIN proposals' = Proposals
  BY <1>1, <1>2, <1>3 DEF Proposal, Open
<1>5. proposals' \in [Proposals -> Proposal \cup {NoProposal}]
  BY <1>1, <1>3, <1>4
<1>6. KeepsProposals
  BY <1>2, <1>4, <1>5 DEF KeepsProposals, Exists
<1>7. \A i \in Pending : proposals'[attempts[i].proposal].status = "approved"
  BY <1>1, <1>4, PendingFacts
<1> QED
  BY <1>1, <1>6, <1>7, EmitFacts

LEMMA ReviewStep ==
  ASSUME MutationInv, NEW p \in Proposals, Review(p)
  PROVE  MutationInv' /\ AppliedInPlace
<1>1. UNCHANGED <<file, source, attempts, lock, writer, indexer>> /\ indexer \in Indexing \cup {Idle}
  BY DEF Review, MutationInv, MutationTypeOK
<1>2. \E status \in {"draft", "ready", "approved", "applied", "conflict", "rejected", "failed"} :
        Decide(p, status)
  BY DEF Review, Refusals
<1>3. /\ KeepsProposals /\ revision' \in 1 .. MaxRevision
      /\ \A i \in Pending : proposals'[attempts[i].proposal].status = "approved"
  BY <1>2, DecideFacts
<1> QED
  BY <1>1, <1>3, SourceStays, OutsideStep

----------------------------------------------------------------------------
(* The processes. *)

\* A process at work goes on with record d; proposals and attempts stay.
LEMMA WorkerGoesOn ==
  ASSUME MutationInv, NEW h \in Writers, pc(h) # "idle", NEW d \in Applying,
         writer' = [writer EXCEPT ![h] = d], UNCHANGED <<proposals, attempts, lock, indexer>>,
         SourceMoves, revision' \in 1 .. MaxRevision, file' \in Contents,
         d.proposal = P(h),
         d.pc = "begin" => Edit[P(h)][proposals[P(h)].base] # proposals[P(h)].base,
         d.pc \in Attempting => d.attempt \in Pending /\ attempts[d.attempt].proposal = P(h),
         d.pc \in {"unfresh", "fail"} => d.verdict \in {"conflict", "failed"},
         d.pc = "install" => file' = attempts[d.attempt].before \/ d.touched,
         d.pc = "finish" => file' = attempts[d.attempt].after \/ d.touched
  PROVE  MutationInv' /\ AppliedInPlace
<1>1. /\ BindingsOK' /\ AttemptsOK' /\ OpenAttemptsResolvable' /\ BaseUsedOnce' /\ AppliedInPlace
      /\ Pending' = Pending
  BY ProposalsStay, BindingsKept, AttemptsKept
<1>2. writer'[h] = d /\ lock = h /\ Exists(P(h))
  BY WorkerFacts DEF MutationInv, MutationTypeOK
<1>3. pc(h)' = d.pc /\ P(h)' = P(h) /\ A(h)' = attempts[d.attempt]
  BY <1>2 DEF pc, P, A
<1>4. WriterOK(h)'
  BY <1>1, <1>2, <1>3 DEF WriterOK, Exists
<1>5. /\ source' \in Source /\ proposals' \in [Proposals -> Proposal \cup {NoProposal}]
      /\ attempts' \in Seq(Attempt)
  BY DEF SourceMoves, MutationInv, MutationTypeOK
<1> QED
  BY <1>1, <1>4, <1>5, WorkerStep

\* A process starts on proposal p, or takes up its open attempt.
LEMMA TakeStep ==
  ASSUME MutationInv, NEW h \in Writers, NEW p \in Proposals, Apply(h, p) \/ Recover(h, p)
  PROVE  MutationInv' /\ AppliedInPlace
<1>1. PICK step \in {"prepare", "inspect"}, i \in Nat :
        /\ Take(h, p, step, i)
        /\ step = "inspect" => i \in Pending /\ attempts[i].proposal = p
  BY PendingFacts DEF Apply, Recover
<1> DEFINE d == [pc |-> step, proposal |-> p, expected |-> revision, attempt |-> i, row |-> 0,
                 wrote |-> FALSE, touched |-> FALSE, verdict |-> "failed"]
<1>2. /\ writer' = [writer EXCEPT ![h] = d] /\ lock' = h /\ lock = None
      /\ proposals[p].status = "approved"
      /\ UNCHANGED <<revision, file, source, proposals, attempts, indexer>>
  BY <1>1 DEF Take, LockFree
<1>3. d \in Applying /\ d.pc = step /\ d.proposal = p /\ d.attempt = i
  BY <1>1 DEF Applying, MutationInv, MutationTypeOK
<1> HIDE DEF d
<1>4. \A g \in Writers : pc(g) = "idle"
  BY <1>2, MutationAssumption DEF MutationInv, WriterOK
<1>5. /\ writer' \in [Writers -> Applying \cup {Idle}] /\ writer'[h] = d
      /\ \A g \in Writers \ {h} : writer'[g] = writer[g]
  BY <1>2, <1>3 DEF MutationInv, MutationTypeOK
<1>6. pc(h)' = step /\ P(h)' = p /\ A(h)' = attempts[i] /\ \A g \in Writers \ {h} : pc(g)' = "idle"
  BY <1>2, <1>3, <1>4, <1>5 DEF pc, P, A
<1>7. /\ BindingsOK' /\ AttemptsOK' /\ OpenAttemptsResolvable' /\ BaseUsedOnce' /\ AppliedInPlace
      /\ Pending' = Pending
  BY <1>2, ProposalsStay, SourceStays, BindingsKept, AttemptsKept
<1>8. MutationTypeOK'
  BY <1>1, <1>2, <1>5, <1>6 DEF MutationInv, MutationTypeOK
<1>9. WriterOK(h)'
  BY <1>1, <1>2, <1>3, <1>5, <1>6, <1>7 DEF WriterOK, Attempting, Exists
<1>10. \A g \in Writers \ {h} : WriterOK(g)'
  BY <1>6 DEF WriterOK, Attempting
<1> QED
  BY <1>7, <1>8, <1>9, <1>10 DEF MutationInv

LEMMA PrepareStep ==
  ASSUME MutationInv, NEW h \in Writers, Prepare(h)
  PROVE  MutationInv' /\ AppliedInPlace
<1>1. /\ pc(h) = "prepare" /\ UNCHANGED <<revision, file, source, proposals, attempts, lock, indexer>>
      /\ writer[h] \in Applying /\ P(h) \in Proposals
  BY WorkerFacts DEF Prepare
<1>2. SourceMoves /\ revision' \in 1 .. MaxRevision /\ file' \in Contents
  BY <1>1, SourceStays DEF MutationInv, MutationTypeOK
<1>3. CASE SourceVerified(P(h)) /\ Edit[P(h)][file] # file /\ Goto(h, "begin")
  <2> DEFINE d == [writer[h] EXCEPT !.pc = "begin"]
  <2>1. writer' = [writer EXCEPT ![h] = d]
    BY <1>3 DEF Goto
  <2>2. d \in Applying /\ d.pc = "begin" /\ d.proposal = P(h)
    BY <1>1 DEF Applying, P
  <2> HIDE DEF d
  <2>3. file = proposals[P(h)].base /\ file \in Contents /\ source.fingerprint = proposals[P(h)].base
    BY <1>3 DEF SourceVerified, BindingHolds, Bound, MutationInv, MutationTypeOK
  <2> QED
    BY <1>1, <1>2, <1>3, <2>1, <2>2, <2>3, WorkerGoesOn DEF Attempting
<1>4. CASE \E verdict \in Refusals(P(h)) \cup {"approved"} :
             writer' = [writer EXCEPT ![h].pc = "refuse", ![h].verdict = verdict]
  <2>1. PICK verdict \in {"conflict", "failed", "approved"} :
          writer' = [writer EXCEPT ![h].pc = "refuse", ![h].verdict = verdict]
    BY <1>4 DEF Refusals
  <2> DEFINE d == [writer[h] EXCEPT !.pc = "refuse", !.verdict = verdict]
  <2>2. writer' = [writer EXCEPT ![h] = d]
    BY <2>1
  <2>3. d \in Applying /\ d.pc = "refuse" /\ d.proposal = P(h)
    BY <1>1 DEF Applying, P
  <2> HIDE DEF d
  <2> QED
    BY <1>1, <1>2, <2>2, <2>3, WorkerGoesOn DEF Attempting
<1> QED
  BY <1>3, <1>4 DEF Prepare

\* How a process goes on with its attempt.
GoesOnAs(h, d) ==
  /\ d.proposal = P(h) /\ d.attempt = writer[h].attempt /\ d.pc \in Attempting
  /\ d.pc \in {"unfresh", "fail"} => d.verdict \in {"conflict", "failed"}
  /\ d.pc = "install" => file' = A(h).before
  /\ d.pc = "finish" => file' = A(h).after

\* A step of a process at its attempt, of which it keeps hold.
LEMMA AttemptStep ==
  ASSUME MutationInv, NEW h \in Writers,
         \/ Inspect(h) \/ Check(h) \/ Install(h) \/ Distrust(h) \/ Commit(h) \/ Verify(h)
         \/ Stop(h) \/ Unfresh(h)
  PROVE  MutationInv' /\ AppliedInPlace
<1>1. /\ pc(h) \in Attempting /\ UNCHANGED <<proposals, attempts, lock, indexer>>
  BY DEF Inspect, Check, Install, Distrust, Commit, Verify, Stop, Unfresh, Attempting
<1>2. /\ writer[h].attempt \in Pending /\ A(h).proposal = P(h) /\ A(h).after \in Contents
      /\ pc(h) # "idle" /\ writer[h] \in Applying
      /\ file \in Contents /\ revision \in Nat /\ source.revision \in Nat
  BY <1>1, AttemptFacts, WorkerFacts, ProposalFacts DEF MutationInv, MutationTypeOK
<1>3. /\ SourceMoves /\ revision' \in 1 .. MaxRevision /\ file' \in Contents
  <2>1. CASE Inspect(h) \/ Check(h) \/ Install(h) \/ Verify(h) \/ Stop(h)
    <3>1. UNCHANGED <<source, revision>> /\ file' \in Contents
      BY <1>2, <2>1 DEF Inspect, Check, Install, Verify, Stop
    <3> QED
      BY <3>1, SourceStays, EmitFacts
  <2>2. CASE Distrust(h) \/ Unfresh(h)
    <3>1. UNCHANGED file /\ (UNCHANGED <<source, revision>> \/ Mark("stale"))
      BY <2>2 DEF Distrust, Unfresh
    <3> QED
      BY <1>2, <3>1, SourceStays, EmitFacts, MarkFacts
  <2>3. CASE Commit(h)
    BY <1>2, <2>3, ProjectFacts DEF Commit
  <2> QED
    BY <2>1, <2>2, <2>3
<1>4. PICK d \in Applying : writer' = [writer EXCEPT ![h] = d] /\ GoesOnAs(h, d)
  <2>1. CASE Inspect(h)
    <3>1. PICK step \in {"check", "project"} : Goto(h, step)
      BY <2>1 DEF Inspect
    <3> DEFINE d == [writer[h] EXCEPT !.pc = step]
    <3>2. writer' = [writer EXCEPT ![h] = d] /\ d \in Applying /\ GoesOnAs(h, d)
      BY <1>2, <3>1 DEF Goto, Applying, Attempting, GoesOnAs, P
    <3> QED
      BY <3>2
  <2>2. CASE Check(h)
    <3> DEFINE d == [writer[h] EXCEPT !.pc = "install"]
    <3>1. writer' = [writer EXCEPT ![h] = d] /\ d \in Applying /\ GoesOnAs(h, d)
      BY <1>2, <2>2 DEF Check, Goto, Applying, Attempting, GoesOnAs, P
    <3> QED
      BY <3>1
  <2>3. CASE Install(h)
    <3> DEFINE d == [writer[h] EXCEPT !.pc = "project", !.wrote = TRUE, !.touched = FALSE]
    <3>1. writer' = [writer EXCEPT ![h] = d] /\ d \in Applying /\ GoesOnAs(h, d)
      BY <1>2, <2>3 DEF Install, Applying, Attempting, GoesOnAs, P
    <3> QED
      BY <3>1
  <2>4. CASE (Distrust(h) /\ Goto(h, "verify")) \/ Commit(h)
    <3> DEFINE d == [writer[h] EXCEPT !.pc = "verify"]
    <3>1. writer' = [writer EXCEPT ![h] = d] /\ d \in Applying /\ GoesOnAs(h, d)
      BY <1>2, <2>4 DEF Commit, Goto, Applying, Attempting, GoesOnAs, P
    <3> QED
      BY <3>1
  <2>5. CASE writer' = [writer EXCEPT ![h].pc = "commit", ![h].row = source.revision]
    <3> DEFINE d == [writer[h] EXCEPT !.pc = "commit", !.row = source.revision]
    <3>1. writer' = [writer EXCEPT ![h] = d] /\ d \in Applying /\ GoesOnAs(h, d)
      BY <1>2, <2>5 DEF Applying, Attempting, GoesOnAs, P
    <3> QED
      BY <3>1
  <2>6. CASE Verify(h)
    <3> DEFINE d == [writer[h] EXCEPT !.pc = "finish"]
    <3>1. writer' = [writer EXCEPT ![h] = d] /\ d \in Applying /\ GoesOnAs(h, d)
      BY <1>2, <2>6 DEF Verify, ReadAgain, Goto, Applying, Attempting, GoesOnAs, P
    <3> QED
      BY <3>1
  <2>7. CASE Stop(h)
    <3>1. PICK step \in {"unfresh", "fail"}, verdict \in {"conflict", "failed"} :
            writer' = [writer EXCEPT ![h].pc = step, ![h].verdict = verdict]
      BY <2>7 DEF Stop, StopStep
    <3> DEFINE d == [writer[h] EXCEPT !.pc = step, !.verdict = verdict]
    <3>2. writer' = [writer EXCEPT ![h] = d] /\ d \in Applying /\ GoesOnAs(h, d)
      BY <1>2, <3>1 DEF Applying, Attempting, GoesOnAs, P
    <3> QED
      BY <3>2
  <2>8. CASE Unfresh(h)
    <3> DEFINE d == [writer[h] EXCEPT !.pc = "fail"]
    <3>1. writer[h].verdict \in {"conflict", "failed"}
      BY <2>8 DEF Unfresh, MutationInv, WriterOK
    <3>2. writer' = [writer EXCEPT ![h] = d] /\ d \in Applying /\ GoesOnAs(h, d)
      BY <1>2, <2>8, <3>1 DEF Unfresh, Goto, Applying, Attempting, GoesOnAs, P
    <3> QED
      BY <3>2
  <2> QED
    BY <2>1, <2>2, <2>3, <2>4, <2>5, <2>6, <2>7, <2>8 DEF Distrust
<1> QED
  BY <1>1, <1>2, <1>3, <1>4, WorkerGoesOn DEF GoesOnAs, A, Attempting

\* A process leaves without a word, or with a refusal.
LEMMA LeaveStep ==
  ASSUME MutationInv, NEW h \in Writers, Interrupt(h) \/ Refuse(h)
  PROVE  MutationInv' /\ AppliedInPlace
<1>1. /\ pc(h) # "idle" /\ Leave(h) /\ UNCHANGED <<file, source, attempts, indexer>>
  BY DEF Interrupt, Refuse
<1>2. /\ KeepsProposals /\ revision' \in 1 .. MaxRevision
      /\ \A i \in Pending : proposals'[attempts[i].proposal].status = "approved"
  <2>1. CASE Interrupt(h)
    BY <2>1, ProposalsStay, EmitFacts DEF Interrupt
  <2>2. CASE Refuse(h)
    <3>1. writer[h].verdict \in {"conflict", "failed", "approved"} /\ P(h) \in Proposals
      BY <1>1, WorkerFacts DEF Applying
    <3> QED
      BY <2>2, <3>1, DecideFacts DEF Refuse
  <2> QED
    BY <2>1, <2>2
<1>3. /\ BindingsOK' /\ AttemptsOK' /\ OpenAttemptsResolvable' /\ BaseUsedOnce' /\ AppliedInPlace
  BY <1>1, <1>2, SourceStays, BindingsKept, AttemptsKept
<1>4. /\ file' \in Contents /\ source' \in Source /\ attempts' \in Seq(Attempt)
      /\ proposals' \in [Proposals -> Proposal \cup {NoProposal}]
  BY <1>1, <1>2 DEF MutationInv, MutationTypeOK, KeepsProposals
<1> QED
  BY <1>1, <1>2, <1>3, <1>4, WorkerLeaves

\* The attempt that Begin opens is the only open one, and no applied attempt
\* started from the revision its proposal is bound to.
LEMMA BeginStep ==
  ASSUME MutationInv, NEW h \in Writers, Begin(h)
  PROVE  MutationInv' /\ AppliedInPlace
<1> DEFINE p == P(h)
           a == [proposal |-> p, before |-> proposals[p].base,
                 after |-> Edit[p][proposals[p].base], state |-> "open"]
           n == Len(attempts) + 1
           d == [writer[h] EXCEPT !.pc = "inspect", !.expected = revision', !.attempt = n]
<1>1. /\ pc(h) = "begin" /\ proposals[p].status = "approved" /\ Pending = {} /\ BindingHolds(p) /\ Emit
      /\ attempts' = Append(attempts, a) /\ UNCHANGED <<file, source, proposals, lock, indexer>>
  BY DEF Begin
<1>2. /\ writer[h] \in Applying /\ p \in Proposals /\ Exists(p) /\ lock = h
      /\ \A g \in Writers \ {h} : pc(g) = "idle"
  BY <1>1, WorkerFacts
<1>3. /\ proposals[p].base \in Contents /\ proposals[p].baseRevision \in Nat /\ source.revision \in Nat
      /\ source.revision = proposals[p].baseRevision
  BY <1>1, <1>2, ProposalFacts DEF BindingHolds, Bound
<1>4. Edit[p][proposals[p].base] # proposals[p].base /\ Edit[p][proposals[p].base] \in Contents
  BY <1>1, <1>2, <1>3, MutationAssumption DEF MutationInv, WriterOK
<1>5. /\ a \in Attempt /\ a.proposal = p /\ a.before = proposals[p].base /\ a.before # a.after
      /\ a.state = "open"
  BY <1>2, <1>3, <1>4 DEF Attempt
<1>6. /\ attempts \in Seq(Attempt) /\ n \in Nat /\ revision' \in 1 .. MaxRevision
      /\ file' \in Contents /\ source' \in Source
      /\ proposals' \in [Proposals -> Proposal \cup {NoProposal}]
  BY <1>1, EmitFacts DEF MutationInv, MutationTypeOK
<1>7. Len(attempts') = n
  BY <1>1, <1>5, <1>6
<1>8. writer' = [writer EXCEPT ![h] = d]
  BY <1>7 DEF Begin
<1>9. d \in Applying /\ d.pc = "inspect" /\ d.proposal = p /\ d.attempt = n
  <2>1. revision' \in Nat
    BY <1>6, MutationAssumption
  <2> HIDE DEF n
  <2> QED
    BY <1>2, <1>6, <2>1 DEF Applying, P
<1> HIDE DEF a, d
<1>10. /\ attempts' \in Seq(Attempt) /\ attempts'[n] = a /\ DOMAIN attempts' = 1 .. n
       /\ \A i \in DOMAIN attempts : attempts'[i] = attempts[i]
       /\ \A i \in DOMAIN attempts' : i \in DOMAIN attempts \/ i = n
       /\ \A i \in DOMAIN attempts : attempts[i].state # "open"
  BY <1>1, <1>5, <1>6 DEF Pending
<1> HIDE DEF n, p
<1>11. \A i : i \in Pending' <=> i = n
  <2>1. n \in DOMAIN attempts'
    BY <1>6, <1>10 DEF n
  <2> QED
    BY <1>5, <1>10, <2>1 DEF Pending
<1>12. OpenAttemptsResolvable'
  <2>1. Pending' = {n}
    BY <1>11
  <2> QED
    BY <1>1, <1>5, <1>10, <2>1 DEF OpenAttemptsResolvable
<1>13. AttemptsOK'
  <2> SUFFICES ASSUME NEW i \in DOMAIN attempts'
               PROVE  /\ proposals[attempts'[i].proposal].status # "none"
                      /\ attempts'[i].before = proposals[attempts'[i].proposal].base
                      /\ attempts'[i].before # attempts'[i].after
                      /\ attempts'[i].state = "applied" =>
                           proposals[attempts'[i].proposal].baseRevision < source.revision
    BY <1>1 DEF AttemptsOK, Exists
  <2>1. CASE i \in DOMAIN attempts
    BY <1>1, <1>10, <2>1 DEF MutationInv, AttemptsOK, Exists
  <2>2. CASE i = n
    BY <1>1, <1>2, <1>5, <1>10, <2>2 DEF Exists
  <2> QED
    BY <1>10, <2>1, <2>2
<1>14. BaseUsedOnce'
  <2> SUFFICES ASSUME NEW i \in DOMAIN attempts', NEW j \in DOMAIN attempts', i # j,
                      attempts'[i].state = "applied", attempts'[j].state \in {"open", "applied"}
               PROVE  proposals[attempts'[i].proposal].baseRevision
                        # proposals[attempts'[j].proposal].baseRevision
    BY <1>1 DEF BaseUsedOnce
  <2>1. i \in DOMAIN attempts /\ attempts'[i] = attempts[i]
    BY <1>5, <1>10
  <2>2. CASE j \in DOMAIN attempts
    BY <1>10, <2>1, <2>2 DEF MutationInv, BaseUsedOnce
  <2>3. CASE j = n
    <3>1. attempts[i].proposal \in Proposals /\ Exists(attempts[i].proposal)
          /\ proposals[attempts[i].proposal].baseRevision < source.revision
      BY <2>1, PendingFacts DEF MutationInv, AttemptsOK
    <3>2. proposals[attempts[i].proposal].baseRevision \in Nat
      BY <3>1, ProposalFacts
    <3> QED
      BY <1>3, <1>5, <1>10, <2>1, <2>3, <3>1, <3>2
  <2> QED
    BY <1>10, <2>2, <2>3
<1>15. BindingsOK' /\ AppliedInPlace
  <2>1. BindingsOK'
    BY <1>1, ProposalsStay, SourceStays, BindingsKept
  <2>2. AppliedInPlace
    BY <1>1, <1>2 DEF AppliedInPlace
  <2> QED
    BY <2>1, <2>2
<1>16. WriterOK(h)'
  <2>1. writer'[h] = d /\ lock' = h
    BY <1>1, <1>2, <1>8 DEF MutationInv, MutationTypeOK
  <2>2. pc(h)' = "inspect" /\ P(h)' = p /\ A(h)' = a /\ writer'[h].attempt = n
    BY <1>9, <1>10, <2>1 DEF pc, P, A
  <2>3. Exists(P(h))'
    BY <1>1, <1>2, <2>2 DEF Exists
  <2> QED
    BY <1>5, <1>11, <2>1, <2>2, <2>3 DEF WriterOK
<1> QED
  BY <1>1, <1>6, <1>8, <1>9, <1>10, <1>12, <1>13, <1>14, <1>15, <1>16, WorkerStep

\* An attempt and its proposal are closed together.  An applied one has left the
\* revision it started from: the projection now holds other bytes.
LEMMA ResolveStep ==
  ASSUME MutationInv, NEW h \in Writers, Finish(h) \/ Fail(h)
  PROVE  MutationInv' /\ AppliedInPlace
<1> DEFINE p == P(h)
           n == writer[h].attempt
<1>1. PICK status \in {"applied", "conflict", "failed"} :
        /\ Resolve(h, status) /\ UNCHANGED <<file, source, indexer>>
        /\ status = "applied" => /\ pc(h) = "finish" /\ source.freshness = "fresh"
                                 /\ source.fingerprint = A(h).after
        /\ status # "applied" => pc(h) = "fail"
  <2>1. CASE Finish(h)
    BY <2>1 DEF Finish
  <2>2. CASE Fail(h)
    <3>1. writer[h].verdict \in {"conflict", "failed"}
      BY <2>2 DEF Fail, MutationInv, WriterOK
    <3> QED
      BY <2>2, <3>1 DEF Fail
  <2> QED
    BY <2>1, <2>2
<1>2. /\ pc(h) \in Attempting /\ Leave(h) /\ Emit
      /\ proposals' = [proposals EXCEPT ![p].status = status]
      /\ attempts' = [attempts EXCEPT ![n].state = status]
  BY <1>1 DEF Resolve, Attempting, Finish, Fail
<1>3. /\ n \in Pending /\ n \in DOMAIN attempts /\ attempts[n].proposal = p
      /\ attempts[n].before = proposals[p].base /\ attempts[n].before # attempts[n].after
      /\ Exists(p) /\ p \in Proposals /\ pc(h) # "idle" /\ A(h) = attempts[n]
      /\ attempts[n] \in Attempt /\ attempts[n].state = "open"
  BY <1>2, AttemptFacts DEF A
<1>4. /\ proposals \in [Proposals -> Proposal \cup {NoProposal}] /\ attempts \in Seq(Attempt)
      /\ proposals[p] \in Proposal /\ revision' \in 1 .. MaxRevision
      /\ file' \in Contents /\ source' \in Source
  BY <1>1, <1>2, <1>3, ProposalFacts, EmitFacts DEF MutationInv, MutationTypeOK
<1> HIDE DEF p, n
<1>5. KeepsProposals
  <2>1. /\ proposals'[p] \in Proposal /\ proposals'[p].base = proposals[p].base
        /\ proposals'[p].baseRevision = proposals[p].baseRevision /\ proposals'[p].status # "none"
    BY <1>2, <1>3, <1>4 DEF Proposal
  <2>2. \A q \in Proposals \ {p} : proposals'[q] = proposals[q]
    BY <1>2, <1>4
  <2>3. proposals' \in [Proposals -> Proposal \cup {NoProposal}]
    BY <1>2, <1>4, <2>1
  <2> QED
    BY <1>3, <2>1, <2>2, <2>3 DEF KeepsProposals, Exists
<1>6. /\ attempts' \in Seq(Attempt) /\ DOMAIN attempts' = DOMAIN attempts
      /\ \A i \in DOMAIN attempts : i # n => attempts'[i] = attempts[i]
      /\ attempts'[n].proposal = p /\ attempts'[n].before = attempts[n].before
      /\ attempts'[n].after = attempts[n].after /\ attempts'[n].state = status
  <2>1. [attempts[n] EXCEPT !.state = status] \in Attempt
    BY <1>3 DEF Attempt
  <2>2. attempts' = [attempts EXCEPT ![n] = [attempts[n] EXCEPT !.state = status]]
    BY <1>2
  <2>3. attempts'[n] = [attempts[n] EXCEPT !.state = status]
    BY <1>3, <1>4, <2>2
  <2>4. attempts' \in Seq(Attempt)
    BY <1>3, <1>4, <2>1, <2>2
  <2>5. DOMAIN attempts' = DOMAIN attempts /\ \A i \in DOMAIN attempts : i # n => attempts'[i] = attempts[i]
    BY <1>3, <1>4, <2>2
  <2> QED
    BY <1>3, <2>3, <2>4, <2>5 DEF Attempt
<1>7. \A i : i \notin Pending'
  BY <1>3, <1>6, PendingFacts DEF Pending
<1>8. OpenAttemptsResolvable'
  BY <1>7 DEF OpenAttemptsResolvable
<1>9. /\ BindingsOK' /\ source.revision \in Nat /\ proposals[p].baseRevision \in Nat
  BY <1>1, <1>3, <1>5, SourceStays, BindingsKept, ProposalFacts
<1>10. status = "applied" => proposals[p].baseRevision < source.revision
  BY <1>1, <1>3, <1>9 DEF MutationInv, BindingsOK
<1>11. ASSUME NEW i \in DOMAIN attempts
       PROVE  /\ attempts'[i].proposal = attempts[i].proposal /\ attempts[i].proposal \in Proposals
              /\ Exists(attempts[i].proposal)
              /\ proposals'[attempts[i].proposal].status # "none"
              /\ proposals'[attempts[i].proposal].base = proposals[attempts[i].proposal].base
              /\ proposals'[attempts[i].proposal].baseRevision
                   = proposals[attempts[i].proposal].baseRevision
  <2>1. attempts'[i].proposal = attempts[i].proposal
    BY <1>3, <1>6
  <2>2. attempts[i].proposal \in Proposals /\ Exists(attempts[i].proposal)
    BY PendingFacts DEF MutationInv, AttemptsOK
  <2> QED
    BY <1>5, <2>1, <2>2 DEF KeepsProposals
<1>12. AttemptsOK'
  <2> SUFFICES ASSUME NEW i \in DOMAIN attempts
               PROVE  /\ proposals'[attempts'[i].proposal].status # "none"
                      /\ attempts'[i].before = proposals'[attempts'[i].proposal].base
                      /\ attempts'[i].before # attempts'[i].after
                      /\ attempts'[i].state = "applied" =>
                           proposals'[attempts'[i].proposal].baseRevision < source.revision
    BY <1>1, <1>6 DEF AttemptsOK, Exists
  <2>1. CASE i = n
    BY <1>3, <1>6, <1>10, <1>11, <2>1
  <2>2. CASE i # n
    BY <1>6, <1>11, <2>2 DEF MutationInv, AttemptsOK
  <2> QED
    BY <2>1, <2>2
<1>13. BaseUsedOnce'
  <2> SUFFICES ASSUME NEW i \in DOMAIN attempts, NEW j \in DOMAIN attempts, i # j,
                      attempts'[i].state = "applied", attempts'[j].state \in {"open", "applied"}
               PROVE  proposals[attempts[i].proposal].baseRevision
                        # proposals[attempts[j].proposal].baseRevision
    BY <1>6, <1>11 DEF BaseUsedOnce
  <2>1. ASSUME NEW k \in DOMAIN attempts, k # n, attempts[k].state = "applied"
        PROVE  proposals[attempts[k].proposal].baseRevision # proposals[p].baseRevision
    BY <1>3, <2>1 DEF MutationInv, BaseUsedOnce
  <2>2. attempts'[j].state # "open"
    BY <1>7, <1>6 DEF Pending
  <2>3. CASE i = n
    <3>1. attempts[j].state = "applied"
      BY <1>6, <2>2, <2>3
    <3> QED
      BY <1>3, <2>1, <2>3, <3>1
  <2>4. CASE i # n /\ j = n
    BY <1>3, <1>6, <2>1, <2>4
  <2>5. CASE i # n /\ j # n
    BY <1>6, <2>5 DEF MutationInv, BaseUsedOnce
  <2> QED
    BY <2>3, <2>4, <2>5
<1>14. AppliedInPlace
  <2> SUFFICES ASSUME NEW g \in Writers, pc(g) = "finish", proposals'[P(g)].status = "applied"
               PROVE  /\ source.freshness = "fresh" /\ source.fingerprint = A(g).after
                      /\ source.revision > proposals[P(g)].baseRevision
                      /\ file = A(g).after \/ writer[g].touched
    BY DEF AppliedInPlace
  <2>1. g = h
    BY <1>3, WorkerFacts
  <2>2. status = "applied"
    BY <1>1, <2>1
  <2>3. file = A(g).after \/ writer[g].touched
    BY DEF MutationInv, WriterOK
  <2> QED
    BY <1>1, <1>9, <1>10, <2>1, <2>2, <2>3 DEF p
<1> QED
  BY <1>1, <1>2, <1>3, <1>4, <1>5, <1>6, <1>8, <1>9, <1>12, <1>13, <1>14, WorkerLeaves
     DEF KeepsProposals

----------------------------------------------------------------------------
(* The theorems. *)

LEMMA InitInv == Init => MutationInv
<1> SUFFICES ASSUME Init PROVE MutationInv
  OBVIOUS
<1> DEFINE q == [status |-> "approved", base |-> Original, baseRevision |-> 1]
<1>1. /\ revision = 1 /\ file = Original /\ attempts = <<>> /\ lock = None /\ indexer = Idle
      /\ source = [fingerprint |-> Original, revision |-> 1, freshness |-> "fresh"]
      /\ proposals \in [Proposals -> {NoProposal, q}] /\ writer = [h \in Writers |-> Idle]
  BY DEF Init
<1>2. /\ source \in Source /\ source.revision = 1 /\ source.fingerprint = Original
      /\ q \in Proposal /\ q.base = Original /\ q.baseRevision = 1
  BY <1>1, MutationAssumption DEF Source, Proposal, Open
<1> HIDE DEF q
<1>3. \A p \in Proposals : Exists(p) => proposals[p] = q
  BY <1>1 DEF Exists, NoProposal
<1>4. proposals \in [Proposals -> Proposal \cup {NoProposal}]
  BY <1>1, <1>2
<1>5. MutationTypeOK
  BY <1>1, <1>2, <1>4, MutationAssumption DEF MutationTypeOK
<1>6. BindingsOK
  BY <1>2, <1>3 DEF BindingsOK
<1>7. AttemptsOK /\ OpenAttemptsResolvable /\ BaseUsedOnce
  <2>1. \A i : i \notin DOMAIN attempts
    BY <1>1
  <2> QED
    BY <2>1 DEF AttemptsOK, OpenAttemptsResolvable, BaseUsedOnce, Pending
<1>8. \A h \in Writers : WriterOK(h)
  BY <1>1 DEF WriterOK, pc, Idle, Attempting
<1> QED
  BY <1>5, <1>6, <1>7, <1>8 DEF MutationInv

LEMMA StepInv ==
  ASSUME MutationInv, [Next]_vars
  PROVE  MutationInv' /\ [InformedWrite]_vars /\ [AppliedInPlace]_vars
<1>1. InformedWrite
  BY DEF MutationInv, WriterOK, InformedWrite
<1>2. CASE Next
  <2>1. MutationInv' /\ AppliedInPlace
    BY <1>2, IndexerStep, EditStep, CreateStep, ReviewStep, TakeStep, PrepareStep, AttemptStep,
       LeaveStep, BeginStep, ResolveStep DEF Next
  <2> QED
    BY <1>1, <2>1
<1>3. CASE UNCHANGED vars
  <2>1. MutationInv'
    <3>1. UNCHANGED <<revision, file, source, proposals, attempts, lock, writer, indexer>>
      BY <1>3 DEF vars
    <3> QED
      BY <3>1, ProposalsStay, SourceStays, EmitFacts, OutsideStep DEF MutationInv, MutationTypeOK
  <2> QED
    BY <1>3, <2>1
<1> QED
  BY <1>2, <1>3

\* What every process, proposal and attempt can rely on.
THEOREM MutationInvariant == Spec => []MutationInv
<1>1. MutationInv /\ [Next]_vars => MutationInv'
  BY StepInv
<1> QED
  BY <1>1, InitInv, PTL DEF Spec

\* Every row and process keeps its type, and only a process at work holds the
\* lock of the source.
THEOREM MutationTypeCorrect == Spec => []MutationTypeOK
<1>1. MutationInv => MutationTypeOK
  BY DEF MutationInv
<1> QED
  BY <1>1, MutationInvariant, PTL

\* finish_proposal_apply or fail_proposal_apply can close every open attempt:
\* no interruption, review or edit blocks a source for ever.
THEOREM AttemptsAreResolvable == Spec => []OpenAttemptsResolvable
<1>1. MutationInv => OpenAttemptsResolvable
  BY DEF MutationInv
<1> QED
  BY <1>1, MutationInvariant, PTL

\* One revision of the source carries at most one applied change.
THEOREM BasesUsedOnce == Spec => []BaseUsedOnce
<1>1. MutationInv => BaseUsedOnce
  BY DEF MutationInv
<1> QED
  BY <1>1, MutationInvariant, PTL

\* The rename of apply_observed replaces the bytes the proposal was made from,
\* or ones an editor put there after the last check.
THEOREM InformedWrites == Spec => WritesAreInformed
<1>1. MutationInv /\ [Next]_vars => [InformedWrite]_vars
  BY StepInv
<1> QED
  BY <1>1, MutationInvariant, PTL DEF Spec, WritesAreInformed

\* finish_proposal_apply records what is there: the file and its projection hold
\* the change, and the projection is newer than the proposal's base.
THEOREM AppliedMeansInPlace == Spec => AppliedIsInPlace
<1>1. MutationInv /\ [Next]_vars => [AppliedInPlace]_vars
  BY StepInv
<1> QED
  BY <1>1, MutationInvariant, PTL DEF Spec, AppliedIsInPlace

=============================================================================
