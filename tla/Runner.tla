------------------------------- MODULE Runner -------------------------------
(***************************************************************************)
(* The reference runner (crates/awr-team-pg/src/runner.rs): the resource   *)
(* end of the execution protocol.  Handlers of deliveries, which may be    *)
(* duplicated, delayed or reordered at will, share one journal directory   *)
(* through files and advisory file locks; any of them may die between two  *)
(* file operations, and the operating system then releases its locks.      *)
(*                                                                         *)
(* One project is modelled.  Whoever takes the lock of a fence ledger      *)
(* already holds the generation lock of the project, so the ledger locks   *)
(* are never contended and are left out.                                   *)
(***************************************************************************)
EXTENDS Naturals, Sequences, Functions

CONSTANTS
  Handlers,      \* processes that handle deliveries or install barriers
  Executions,
  Works,
  Epochs,        \* coordinator epochs
  Delivery,      \* the work, epoch and fence each execution's delivery carries
  Barriers,      \* the recovery barriers controllers may install
  PlannedWrites, \* how many files a delivery's plan writes
  None           \* no handler, no epoch

Token == [work : Works, epoch : Epochs, fence : Nat]

ASSUME RunnerAssumption ==
  /\ Delivery \in [Executions -> Token]
  /\ Barriers \subseteq Token
  /\ PlannedWrites \in Nat \ {0}
  /\ None \notin Handlers \cup Epochs
  /\ Executions \cap Barriers = {}

VARIABLES
  journal,       \* the journal file of each execution
  generation,    \* the generation ledger file of the project
  ledger,        \* the fence ledger file of each work item
  execLock,      \* the handler that holds each execution's lock file
  generationLock,\* the handler that holds the generation lock file
  handler,       \* what each handler is doing
  reported,      \* the executions that some handler reported to have succeeded
  trace          \* what the resource has seen, in order (not part of the code)

vars == <<journal, generation, ledger, execLock, generationLock, handler, reported, trace>>
locks == <<execLock, generationLock>>
ledgers == <<generation, ledger>>

----------------------------------------------------------------------------
(* Files.  A file being created or truncated is torn until it is written. *)

Outcome(state, started) == [state |-> state, started |-> started]
Accepted == Outcome("accepted", FALSE)
Outcomes == {Accepted, Outcome("succeeded", TRUE)} \cup
            [state : {"failed", "unknown"}, started : BOOLEAN]
Missing == Outcome("missing", FALSE)
Torn == Outcome("torn", FALSE)

Settled(outcome) == outcome.state \in {"succeeded", "failed", "unknown"}

NoGeneration == [epoch |-> None, retired |-> {}]
TornGeneration == [epoch |-> None, retired |-> Epochs]
GenerationFile == [epoch : Epochs \cup {None}, retired : SUBSET Epochs]

NoLedger == [epoch |-> None, fence |-> 0]
TornLedger == [epoch |-> None, fence |-> 1]
LedgerFile == [epoch : Epochs \cup {None}, fence : Nat]

----------------------------------------------------------------------------
(* The trace: an epoch came in by a barrier, a barrier is in force, a file was *)
(* touched.                                                                    *)

Entry == [kind : {"epoch", "barrier"}, token : Token] \cup
         [kind : {"write"}, token : Token, execution : Executions, write : Nat]

\* An entry that says nothing new is not repeated.
Noted(entry) == IF entry \in Range(trace) THEN trace ELSE Append(trace, entry)

----------------------------------------------------------------------------
(* Handlers.  A handler works for an execution or for a barrier. *)

Idle == [pc |-> "idle"]
Steps == {"recover", "reread", "convert", "lock", "admit", "record", "plan",
          "generation", "rotate", "fence", "persist", "effect"}
Busy == [pc : Steps, job : Executions \cup Barriers, done : Nat]
Syncing == [pc : {"sync"}, job : Executions \cup Barriers, done : Nat, record : GenerationFile]

pc(h) == handler[h].pc
Job(h) == handler[h].job
Installing(h) == Job(h) \in Barriers
TokenOf(h) == IF Installing(h) THEN Job(h) ELSE Delivery[Job(h)]

\* The handler goes on without returning.
Become(h, state) ==
  /\ handler' = [handler EXCEPT ![h] = state]
  /\ UNCHANGED reported
Goto(h, step) == Become(h, [handler[h] EXCEPT !.pc = step])

\* A handler that returns drops every lock it holds.
Unlocked(h) ==
  /\ execLock' = [e \in Executions |-> IF execLock[e] = h THEN None ELSE execLock[e]]
  /\ generationLock' = IF generationLock = h THEN None ELSE generationLock

Return(h, e, outcome) ==
  /\ handler' = [handler EXCEPT ![h] = Idle]
  /\ reported' = IF outcome.state = "succeeded" THEN reported \cup {e} ELSE reported
  /\ Unlocked(h)

\* persist_result is an atomic replace; its errors are ignored.
PersistResult(e, outcome) == journal' \in {journal, [journal EXCEPT ![e] = outcome]}

\* A refusal of a delivery is journaled and returned; of a barrier, returned.
Refuse(h) ==
  IF Installing(h)
  THEN /\ Become(h, Idle)
       /\ Unlocked(h)
       /\ UNCHANGED journal
  ELSE /\ PersistResult(Job(h), Outcome("failed", FALSE))
       /\ Return(h, Job(h), Outcome("failed", FALSE))

----------------------------------------------------------------------------
(* Admission of a delivery. *)

\* handle_delivery gives up if the runner's directories cannot be had.
Unavailable(h, e) ==
  /\ pc(h) = "idle"
  /\ Return(h, e, Outcome("failed", FALSE))
  /\ UNCHANGED <<journal, ledgers, trace>>

\* handle_delivery: the journal decides before anything else is done.
Load(h, e) ==
  /\ pc(h) = "idle"
  /\ \/ /\ Settled(journal[e])
        /\ Return(h, e, journal[e])
     \/ /\ journal[e] = Torn
        /\ Return(h, e, Outcome("unknown", FALSE))
     \/ /\ journal[e] \in {Accepted, Missing}
        /\ Become(h, [pc |-> IF journal[e] = Accepted THEN "recover" ELSE "lock",
                      job |-> e, done |-> 0])
        /\ UNCHANGED locks
  /\ UNCHANGED <<journal, ledgers, trace>>

\* Mutant: the record is taken over whether or not its owner lives.
MutTakeOver(e) == TRUE

\* The operating system has released the execution's lock.
OwnerGone(e) == execLock[e] = None

\* recover_or_wait: a free lock proves that the owner is dead; one that is
\* taken, or cannot be tried, leaves the record as it is.
Recover(h) ==
  /\ pc(h) = "recover"
  /\ \/ Return(h, Job(h), Accepted)
     \/ /\ OwnerGone(Job(h))
        /\ execLock' = [execLock EXCEPT ![Job(h)] = h]
        /\ Goto(h, "reread")
        /\ UNCHANGED generationLock
  /\ UNCHANGED <<journal, ledgers, trace>>

\* ... the record is read again under the lock, and the lock dropped.
Reread(h) ==
  /\ pc(h) = "reread"
  /\ \/ /\ Settled(journal[Job(h)])
        /\ Return(h, Job(h), journal[Job(h)])
     \/ /\ ~ Settled(journal[Job(h)])
        /\ Unlocked(h)
        /\ Goto(h, "convert")
  /\ UNCHANGED <<journal, ledgers, trace>>

\* ... and an abandoned record becomes unknown.
Convert(h) ==
  /\ pc(h) = "convert"
  /\ PersistResult(Job(h), Outcome("unknown", FALSE))
  /\ Return(h, Job(h), Outcome("unknown", FALSE))
  /\ UNCHANGED <<ledgers, trace>>

\* The execution lock, with a bounded number of attempts, which may also fail.
LockExecution(h) ==
  /\ pc(h) = "lock"
  /\ \/ /\ execLock[Job(h)] = None
        /\ execLock' = [execLock EXCEPT ![Job(h)] = h]
        /\ Goto(h, "admit")
        /\ UNCHANGED generationLock
     \/ Return(h, Job(h), Accepted)
  /\ UNCHANGED <<journal, ledgers, trace>>

\* Mutant: the file is opened with create instead of create_new.
MutCreate(e) == TRUE

\* persist_new creates the journal file only if there is none.
CreateNew(e) == journal[e] = Missing

\* persist_new, up to the creation of the file, which may fail; a handler that
\* finds a file returns what it says.
Admit(h) ==
  LET e == Job(h) IN
  /\ pc(h) = "admit"
  /\ \/ /\ CreateNew(e)
        /\ journal' = [journal EXCEPT ![e] = Torn]
        /\ Goto(h, "record")
        /\ UNCHANGED locks
     \/ /\ ~ CreateNew(e)
        /\ Return(h, e, IF journal[e] = Torn THEN Outcome("unknown", FALSE) ELSE journal[e])
        /\ UNCHANGED journal
     \/ /\ Return(h, e, Outcome("failed", FALSE))
        /\ UNCHANGED journal
  /\ UNCHANGED <<ledgers, trace>>

\* persist_new, the write; an error leaves the file torn, or written but not
\* synced.
Record(h) ==
  /\ pc(h) = "record"
  /\ \/ /\ journal' = [journal EXCEPT ![Job(h)] = Accepted]
        /\ Goto(h, "plan")
        /\ UNCHANGED locks
     \/ /\ Return(h, Job(h), Outcome("failed", FALSE))
        /\ journal' \in {journal, [journal EXCEPT ![Job(h)] = Accepted]}
  /\ UNCHANGED <<ledgers, trace>>

\* The complete write plan is validated before any effect.
Plan(h) ==
  /\ pc(h) = "plan"
  /\ \/ Refuse(h)
     \/ Goto(h, "generation") /\ UNCHANGED <<journal, locks>>
  /\ UNCHANGED <<ledgers, trace>>

\* install_recovery_barrier starts at the generation ledger.
Install(h, b) ==
  /\ pc(h) = "idle"
  /\ Become(h, [pc |-> "generation", job |-> b, done |-> 0])
  /\ UNCHANGED <<journal, ledgers, locks, trace>>

----------------------------------------------------------------------------
(* Fencing: the locks are held until the handler returns. *)

\* Mutant: the lock is waited for without a bound.
MutWaitGeneration(h) ==
  /\ pc(h) = "generation"
  /\ generationLock = None
  /\ generationLock' = h
  /\ Goto(h, "rotate")
  /\ UNCHANGED <<journal, execLock, ledgers, trace>>

\* The generation lock, with a bounded number of attempts, which may also fail.
LockGeneration(h) ==
  /\ pc(h) = "generation"
  /\ \/ /\ generationLock = None
        /\ generationLock' = h
        /\ Goto(h, "rotate")
        /\ UNCHANGED <<journal, execLock>>
     \/ Refuse(h)
  /\ UNCHANGED <<ledgers, trace>>

\* Whether the generation ledger lets the handler's epoch pass: a delivery must
\* carry the recorded epoch; a barrier may bring any epoch not retired.
MayEnter(h, epoch) ==
  \/ generation.epoch = epoch
  \/ generation = NoGeneration
  \/ Installing(h) /\ generation.epoch # None /\ epoch \notin generation.retired

\* Mutant: the rotation forgets the epochs it leaves.
MutForgetRetired(epoch) == [epoch |-> epoch, retired |-> {}]

\* The record once epoch has come in: the epoch it replaces is retired.
Rotated(epoch) ==
  [epoch |-> epoch,
   retired |-> generation.retired \cup ({generation.epoch} \ {epoch, None})]

\* acquire_generation: the file is truncated once the epoch may enter ...
Rotate(h) ==
  LET epoch == TokenOf(h).epoch IN
  /\ pc(h) = "rotate"
  /\ \/ /\ MayEnter(h, epoch)
        /\ generation' = TornGeneration
        /\ Become(h, [pc |-> "sync", job |-> Job(h), done |-> 0,
                      record |-> Rotated(epoch)])
        /\ trace' = IF Installing(h)
                    THEN Noted([kind |-> "epoch", token |-> Job(h)]) ELSE trace
        /\ UNCHANGED <<journal, locks>>
     \/ /\ ~ MayEnter(h, epoch)
        /\ Refuse(h)
        /\ UNCHANGED <<generation, trace>>
  /\ UNCHANGED ledger

\* ... and written with the record computed before; the sync may fail.
Sync(h) ==
  /\ pc(h) = "sync"
  /\ generation' = handler[h].record
  /\ \/ /\ Become(h, [pc |-> "fence", job |-> Job(h), done |-> 0])
        /\ UNCHANGED <<journal, locks>>
     \/ Refuse(h)
  /\ UNCHANGED <<ledger, trace>>

\* A handler past the ledgers writes; an installer is done.
Enter(h) ==
  IF Installing(h)
  THEN /\ Become(h, Idle)
       /\ Unlocked(h)
       /\ trace' = Noted([kind |-> "barrier", token |-> Job(h)])
  ELSE /\ Goto(h, "effect")
       /\ UNCHANGED <<locks, trace>>

\* Mutant: the ledger is not consulted.
MutNoFence(token) == FALSE

\* A fence older than the ledger's, within the same epoch, is stale.
StaleFence(token) ==
  /\ ledger[token.work].epoch = token.epoch
  /\ token.fence < ledger[token.work].fence

\* acquire_work_fence: a corrupt ledger refuses everybody, an equal fence passes
\* and any other one is recorded first.
CheckFence(h) ==
  LET token == TokenOf(h)
      w == token.work
  IN
  /\ pc(h) = "fence"
  /\ \/ /\ ledger[w] = TornLedger \/ StaleFence(token)
        /\ Refuse(h)
        /\ UNCHANGED <<ledger, trace>>
     \/ /\ ledger[w] # TornLedger /\ ~ StaleFence(token)
        /\ ledger[w].epoch = token.epoch /\ ledger[w].fence = token.fence
        /\ Enter(h)
        /\ UNCHANGED <<journal, ledger>>
     \/ /\ ledger[w] # TornLedger /\ ~ StaleFence(token)
        /\ ledger[w].epoch # token.epoch \/ ledger[w].fence # token.fence
        /\ ledger' = [ledger EXCEPT ![w] = TornLedger]
        /\ Goto(h, "persist")
        /\ UNCHANGED <<journal, locks, trace>>
  /\ UNCHANGED generation

\* The ledger file is written and synced, and the sync may fail.
PersistFence(h) ==
  LET token == TokenOf(h) IN
  /\ pc(h) = "persist"
  /\ ledger' = [ledger EXCEPT ![token.work] = [epoch |-> token.epoch, fence |-> token.fence]]
  /\ \/ Enter(h) /\ UNCHANGED journal
     \/ Refuse(h) /\ UNCHANGED trace
  /\ UNCHANGED generation

\* Reading, opening or writing a ledger fails: a file already truncated stays so.
LedgerError(h) ==
  /\ pc(h) \in {"rotate", "sync", "fence", "persist"}
  /\ Refuse(h)
  /\ UNCHANGED <<ledgers, trace>>

----------------------------------------------------------------------------
(* Effects. *)

Touched(h) ==
  [kind |-> "write", token |-> TokenOf(h), execution |-> Job(h), write |-> handler[h].done + 1]

\* Mutant: a failed write is taken for a plan that was not executed.
MutNotExecuted == Outcome("failed", FALSE)

FailedWrite == Outcome("failed", TRUE)

\* One planned write.  It may fail, having touched the file nevertheless.
Write(h) ==
  /\ pc(h) = "effect"
  /\ handler[h].done < PlannedWrites
  /\ \/ /\ trace' = Append(trace, Touched(h))
        /\ Become(h, [handler[h] EXCEPT !.done = @ + 1])
        /\ UNCHANGED <<journal, locks>>
     \/ /\ trace' \in {trace, Append(trace, Touched(h))}
        /\ PersistResult(Job(h), FailedWrite)
        /\ Return(h, Job(h), FailedWrite)
  /\ UNCHANGED ledgers

\* The lease behind a scoped delivery may elapse before the next write.
Deadline(h) ==
  LET outcome == Outcome("unknown", handler[h].done > 0) IN
  /\ pc(h) = "effect"
  /\ handler[h].done < PlannedWrites
  /\ PersistResult(Job(h), outcome)
  /\ Return(h, Job(h), outcome)
  /\ UNCHANGED <<ledgers, trace>>

\* The plan is done.  If this outcome cannot be persisted, it is unknown.
Finish(h) ==
  /\ pc(h) = "effect"
  /\ handler[h].done = PlannedWrites
  /\ \/ /\ journal' = [journal EXCEPT ![Job(h)] = Outcome("succeeded", TRUE)]
        /\ Return(h, Job(h), Outcome("succeeded", TRUE))
     \/ /\ Return(h, Job(h), Outcome("unknown", TRUE))
        /\ UNCHANGED journal
  /\ UNCHANGED <<ledgers, trace>>

\* A handler dies; what it wrote stays as it is.
Crash(h) ==
  /\ pc(h) # "idle"
  /\ Become(h, Idle)
  /\ Unlocked(h)
  /\ UNCHANGED <<journal, ledgers, trace>>

----------------------------------------------------------------------------

Init ==
  /\ journal = [e \in Executions |-> Missing]
  /\ generation = NoGeneration
  /\ ledger = [w \in Works |-> NoLedger]
  /\ execLock = [e \in Executions |-> None]
  /\ generationLock = None
  /\ handler = [h \in Handlers |-> Idle]
  /\ reported = {}
  /\ trace = <<>>

\* What a handler does once it has begun.
Step(h) ==
  \/ Recover(h) \/ Reread(h) \/ Convert(h)
  \/ LockExecution(h) \/ Admit(h) \/ Record(h) \/ Plan(h)
  \/ LockGeneration(h) \/ Rotate(h) \/ Sync(h) \/ CheckFence(h) \/ PersistFence(h)
  \/ LedgerError(h)
  \/ Write(h) \/ Deadline(h) \/ Finish(h)

Next ==
  \E h \in Handlers :
    \/ \E e \in Executions : Load(h, e) \/ Unavailable(h, e)
    \/ \E b \in Barriers : Install(h, b)
    \/ Step(h)
    \/ Crash(h)

\* A live handler runs on: it never waits for anyone without a bound.
Fairness == \A h \in Handlers : WF_vars(Step(h))

Spec == Init /\ [][Next]_vars /\ Fairness
----------------------------------------------------------------------------
(* Properties. *)

RunnerTypeOK ==
  /\ journal \in [Executions -> Outcomes \cup {Missing, Torn}]
  /\ generation \in GenerationFile
  /\ ledger \in [Works -> LedgerFile]
  /\ execLock \in [Executions -> Handlers \cup {None}]
  /\ generationLock \in Handlers \cup {None}
  /\ handler \in [Handlers -> {Idle} \cup Busy \cup Syncing]
  /\ reported \subseteq Executions
  /\ trace \in Seq(Entry)

IsWrite(i) == trace[i].kind = "write"
Writes(e) == {i \in DOMAIN trace : IsWrite(i) /\ trace[i].execution = e}

\* However often a delivery is repeated, and wherever handlers die, no planned
\* write is made twice.
EffectsOnce ==
  \A i, j \in DOMAIN trace : IsWrite(i) /\ trace[i] = trace[j] => i = j

\* Writes of different executions never interleave, and within an epoch a write
\* never follows one with a newer fence on the same work, nor a barrier in
\* force that carries one.
EffectsFollowFences ==
  /\ \A i, j \in DOMAIN trace :
       /\ i < j /\ IsWrite(j) /\ trace[i].kind \in {"write", "barrier"}
       /\ trace[i].token.work = trace[j].token.work
       /\ trace[i].token.epoch = trace[j].token.epoch
       => trace[i].token.fence <= trace[j].token.fence
  /\ \A e \in Executions : \A i, k \in Writes(e) :
       \A j \in i .. k : j \in Writes(e)

\* Only a barrier brings in another epoch, and an epoch that was left never
\* writes again, whatever the numbers on its fences.
EpochsStayRetired ==
  /\ \A i \in DOMAIN trace \ {1} :
       IsWrite(i) => trace[i].token.epoch = trace[i - 1].token.epoch
  /\ \A i, k \in DOMAIN trace : \A j \in i .. k :
       trace[i].token.epoch = trace[k].token.epoch =>
         trace[j].token.epoch = trace[i].token.epoch

Done(e) == \A n \in 1 .. PlannedWrites : \E i \in Writes(e) : trace[i].write = n

\* The journal never lies about effects, nor does an answer that reports success:
\* success means every planned write was made, and an execution that is not
\* admitted, or failed before it started, has touched nothing.
JournalTellsEffects ==
  \A e \in Executions :
    /\ journal[e].state = "succeeded" \/ e \in reported => Done(e)
    /\ journal[e] \in {Missing, Torn, Outcome("failed", FALSE)} => Writes(e) = {}

\* A step that changes no settled record.
OutcomesKept == \A e \in Executions : Settled(journal[e]) => journal'[e] = journal[e]

\* An outcome once journaled stands: recovery drops the execution's lock before
\* it converts the record, and still never overwrites an outcome of the owner's,
\* nor does a slow owner overwrite the verdict of a recovery.
JournaledOutcomeStands == [][OutcomesKept]_vars

\* Whoever handles a delivery, or installs a barrier, is done or dead some day:
\* no lock is waited for without a bound.
HandlersReturn ==
  \A h \in Handlers : pc(h) # "idle" ~> pc(h) = "idle"

=============================================================================
