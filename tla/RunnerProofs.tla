---------------------------- MODULE RunnerProofs ----------------------------
(* Proofs about the reference runner, for every value of its constants: any  *)
(* number of handlers, executions, works, epochs and planned writes.         *)
EXTENDS Runner, TLAPS

----------------------------------------------------------------------------
(* The inductive invariant, in three parts. *)

Owning == {"record", "plan", "generation", "rotate", "sync", "fence", "persist", "effect"}
Fencing == {"rotate", "sync", "fence", "persist", "effect"}
Delivering == {"recover", "reread", "convert", "lock", "admit", "record", "plan", "effect"}

\* Which locks a handler holds and what the journal says meanwhile.  A handler
\* that converts an abandoned record holds no lock: nobody can own it any more,
\* because only a missing record can be admitted.
HandlerOK(h) ==
  /\ pc(h) \in Delivering => Job(h) \in Executions
  /\ pc(h) \notin {"idle", "effect"} => handler[h].done = 0
  /\ pc(h) \in Owning \cup {"admit", "reread"} /\ Job(h) \in Executions => execLock[Job(h)] = h
  /\ pc(h) \in Fencing => generationLock = h
  /\ pc(h) = "record" => journal[Job(h)] = Torn
  /\ pc(h) \in Owning \ {"record"} /\ Job(h) \in Executions => journal[Job(h)] = Accepted
  /\ pc(h) \in {"recover", "reread"} => journal[Job(h)] \notin {Missing, Torn}
  /\ pc(h) = "convert" =>
       /\ journal[Job(h)] \in {Accepted, Outcome("unknown", FALSE)}
       /\ \A g \in Handlers : pc(g) \in Owning => Job(g) # Job(h)

Control == RunnerTypeOK /\ \A h \in Handlers : HandlerOK(h)

\* What an owner has written so far.
OwnerOK(h) ==
  /\ pc(h) \in Owning \ {"effect"} /\ Job(h) \in Executions => Writes(Job(h)) = {}
  /\ pc(h) = "effect" =>
       /\ handler[h].done <= PlannedWrites
       /\ \A i \in Writes(Job(h)) :
            /\ trace[i].write <= handler[h].done
            /\ \A j \in i .. Len(trace) : j \in Writes(Job(h))
       /\ \A n \in 1 .. handler[h].done : \E i \in Writes(Job(h)) : trace[i].write = n

WritesTogether ==
  \A e \in Executions : \A i, k \in Writes(e) : \A j \in i .. k : j \in Writes(e)

EffectsOK ==
  /\ \A h \in Handlers : OwnerOK(h)
  /\ EffectsOnce
  /\ JournalTellsEffects
  /\ WritesTogether

\* What a generation record knows of the trace, and the fence ledgers of the
\* epoch it names.
Fences(i, w, epoch) ==
  /\ trace[i].kind \in {"write", "barrier"}
  /\ trace[i].token.work = w /\ trace[i].token.epoch = epoch

Orderly(g) ==
  /\ g.epoch \notin g.retired
  /\ \A i \in DOMAIN trace : trace[i].token.epoch \in g.retired \cup {g.epoch}
  /\ trace # <<>> => trace[Len(trace)].token.epoch = g.epoch
  /\ \A w \in Works : \A i \in DOMAIN trace : Fences(i, w, g.epoch) =>
       \/ ledger[w] = TornLedger
       \/ ledger[w].epoch = g.epoch /\ trace[i].token.fence <= ledger[w].fence

FencerOK(h) ==
  /\ pc(h) = "sync" => /\ generation = TornGeneration
                       /\ handler[h].record.epoch = TokenOf(h).epoch
                       /\ Orderly(handler[h].record)
  /\ pc(h) \in {"fence", "persist", "effect"} => generation.epoch = TokenOf(h).epoch
  /\ pc(h) = "persist" =>
       /\ ledger[TokenOf(h).work] = TornLedger
       /\ \A i \in DOMAIN trace : Fences(i, TokenOf(h).work, TokenOf(h).epoch) =>
            trace[i].token.fence <= TokenOf(h).fence
  /\ pc(h) = "effect" =>
       ledger[TokenOf(h).work] = [epoch |-> TokenOf(h).epoch, fence |-> TokenOf(h).fence]

FencesInOrder ==
  \A i, j \in DOMAIN trace :
    /\ i < j /\ IsWrite(j) /\ trace[i].kind \in {"write", "barrier"}
    /\ trace[i].token.work = trace[j].token.work
    /\ trace[i].token.epoch = trace[j].token.epoch
    => trace[i].token.fence <= trace[j].token.fence

FencingOK ==
  /\ generation # TornGeneration => Orderly(generation)
  /\ \A h \in Handlers : FencerOK(h)
  /\ FencesInOrder
  /\ EpochsStayRetired

RunnerInv == Control /\ EffectsOK /\ FencingOK
----------------------------------------------------------------------------
(* How a handler moves. *)

LEMMA BusyShape ==
  ASSUME RunnerTypeOK, NEW h \in Handlers, pc(h) \in Steps
  PROVE  handler[h] \in Busy /\ Job(h) \in Executions \cup Barriers /\ handler[h].done \in Nat
<1>1. handler[h] \in {Idle} \cup Busy \cup Syncing
  BY DEF RunnerTypeOK
<1>2. handler[h] # Idle /\ handler[h] \notin Syncing
  BY DEF pc, Idle, Syncing, Steps
<1> QED
  BY <1>1, <1>2 DEF Busy, Job

LEMMA SyncShape ==
  ASSUME RunnerTypeOK, NEW h \in Handlers, pc(h) = "sync"
  PROVE  /\ handler[h] \in Syncing /\ Job(h) \in Executions \cup Barriers
         /\ handler[h].record \in GenerationFile
<1>1. handler[h] \in {Idle} \cup Busy \cup Syncing
  BY DEF RunnerTypeOK
<1>2. handler[h] # Idle /\ handler[h] \notin Busy
  BY DEF pc, Idle, Busy, Steps
<1> QED
  BY <1>1, <1>2 DEF Syncing, Job

LEMMA TokenType ==
  ASSUME NEW h \in Handlers, Job(h) \in Executions \cup Barriers
  PROVE  TokenOf(h) \in Token
  BY RunnerAssumption DEF TokenOf, Installing

LEMMA BecomeFacts ==
  ASSUME RunnerTypeOK, NEW h \in Handlers, NEW s \in {Idle} \cup Busy \cup Syncing, Become(h, s)
  PROVE  /\ handler' \in [Handlers -> {Idle} \cup Busy \cup Syncing]
         /\ handler'[h] = s /\ \A g \in Handlers \ {h} : handler'[g] = handler[g]
         /\ UNCHANGED reported
  BY DEF RunnerTypeOK, Become

LEMMA GotoFacts ==
  ASSUME RunnerTypeOK, NEW h \in Handlers, pc(h) \in Steps, NEW step \in Steps, Goto(h, step)
  PROVE  /\ handler' \in [Handlers -> {Idle} \cup Busy \cup Syncing]
         /\ handler'[h].pc = step /\ handler'[h].job = handler[h].job
         /\ handler'[h].done = handler[h].done
         /\ \A g \in Handlers \ {h} : handler'[g] = handler[g]
         /\ UNCHANGED reported
<1>1. handler[h] \in Busy
  BY BusyShape
<1> DEFINE s == [handler[h] EXCEPT !.pc = step]
<1>2. s \in Busy /\ s.pc = step /\ s.job = handler[h].job /\ s.done = handler[h].done
  BY <1>1 DEF Busy
<1>3. Become(h, s)
  BY DEF Goto
<1> HIDE DEF s
<1> QED
  BY <1>2, <1>3, BecomeFacts

LEMMA UnlockedFacts ==
  ASSUME RunnerTypeOK, NEW h \in Handlers, Unlocked(h)
  PROVE  /\ execLock' \in [Executions -> Handlers \cup {None}]
         /\ generationLock' \in Handlers \cup {None}
         /\ \A g \in Handlers \ {h} :
              /\ \A e \in Executions : execLock[e] = g => execLock'[e] = g
              /\ generationLock = g => generationLock' = g
  BY DEF RunnerTypeOK, Unlocked

LEMMA ReturnFacts ==
  ASSUME RunnerTypeOK, NEW h \in Handlers, NEW e \in Executions, NEW outcome,
         Return(h, e, outcome)
  PROVE  /\ handler' \in [Handlers -> {Idle} \cup Busy \cup Syncing]
         /\ handler'[h] = Idle /\ \A g \in Handlers \ {h} : handler'[g] = handler[g]
         /\ reported' \subseteq Executions
         /\ reported' = reported \/ (outcome.state = "succeeded" /\ reported' = reported \cup {e})
         /\ Unlocked(h)
  BY DEF RunnerTypeOK, Return

----------------------------------------------------------------------------
(* Control. *)

\* What every step of h leaves the other handlers, and what it may do to the
\* journal: nothing, or to its own record while it holds the execution's lock,
\* or to convert an abandoned one.
JournalStep(h) ==
  \A e \in Executions :
    \/ journal'[e] = journal[e]
    \/ /\ pc(h) \in Owning /\ Job(h) = e /\ journal[e] \in {Torn, Accepted}
       /\ journal'[e] \in Outcomes
    \/ /\ journal[e] = Missing /\ execLock[e] = h /\ pc(h) = "admit" /\ Job(h) = e
       /\ journal'[e] = Torn
    \/ /\ pc(h) = "convert" /\ Job(h) = e
       /\ journal'[e] = Outcome("unknown", FALSE)

Moves(h) ==
  /\ handler' \in [Handlers -> {Idle} \cup Busy \cup Syncing]
  /\ \A g \in Handlers \ {h} :
       /\ handler'[g] = handler[g]
       /\ \A e \in Executions : execLock[e] = g => execLock'[e] = g
       /\ generationLock = g => generationLock' = g
  /\ execLock' \in [Executions -> Handlers \cup {None}]
  /\ generationLock' \in Handlers \cup {None}
  /\ journal' \in [Executions -> Outcomes \cup {Missing, Torn}]
  /\ JournalStep(h)

\* A handler becomes an owner only of a missing record, or of a barrier.
OwnerFrom(h) ==
  handler'[h].pc \in Owning =>
    \/ pc(h) \in Owning /\ handler'[h].job = Job(h)
    \/ handler'[h].job \in Barriers
    \/ handler'[h].job \in Executions /\ journal[handler'[h].job] = Missing

LEMMA OthersControl ==
  ASSUME Control, NEW h \in Handlers, Moves(h), OwnerFrom(h), NEW g \in Handlers \ {h}
  PROVE  HandlerOK(g)'
<1>1. HandlerOK(g) /\ HandlerOK(h) /\ handler'[g] = handler[g]
  BY DEF Control, Moves
<1>2. pc(g)' = pc(g) /\ Job(g)' = Job(g) /\ handler'[g].done = handler[g].done
  BY <1>1 DEF pc, Job
<1>3. ASSUME pc(g) \in Owning, Job(g) \in Executions
      PROVE  journal'[Job(g)] = journal[Job(g)] /\ execLock'[Job(g)] = g
  <2>1. execLock[Job(g)] = g /\ execLock'[Job(g)] = g
    BY <1>1, <1>3 DEF HandlerOK, Moves
  <2>2. ~ (pc(h) \in Owning /\ Job(h) = Job(g))
    BY <1>1, <1>3, <2>1 DEF HandlerOK
  <2>3. ~ (pc(h) = "convert" /\ Job(h) = Job(g))
    BY <1>1, <1>3 DEF HandlerOK
  <2> QED
    BY <1>3, <2>1, <2>2, <2>3 DEF Moves, JournalStep
<1>4. ASSUME pc(g) \in {"admit", "reread"}, Job(g) \in Executions PROVE execLock'[Job(g)] = g
  BY <1>1, <1>4 DEF HandlerOK, Moves
<1>5. ASSUME pc(g) \in {"recover", "reread"} PROVE journal'[Job(g)] \notin {Missing, Torn}
  <2>1. Job(g) \in Executions /\ journal[Job(g)] \notin {Missing, Torn}
    BY <1>1, <1>5 DEF HandlerOK, Delivering
  <2>2. \A o \in Outcomes : o \notin {Missing, Torn}
    BY DEF Outcomes, Outcome, Missing, Torn, Accepted
  <2>3. Outcome("unknown", FALSE) \in Outcomes
    BY DEF Outcomes, Outcome
  <2> QED
    BY <2>1, <2>2, <2>3 DEF Moves, JournalStep
<1>6. ASSUME pc(g) = "convert"
      PROVE  /\ journal'[Job(g)] \in {Accepted, Outcome("unknown", FALSE)}
             /\ \A f \in Handlers : pc(f)' \in Owning => Job(f)' # Job(g)
  <2>1. /\ Job(g) \in Executions /\ journal[Job(g)] \in {Accepted, Outcome("unknown", FALSE)}
        /\ \A f \in Handlers : pc(f) \in Owning => Job(f) # Job(g)
    BY <1>1, <1>6 DEF HandlerOK, Delivering
  <2>2. journal[Job(g)] # Missing
    BY <2>1 DEF Accepted, Outcome, Missing
  <2>3. journal'[Job(g)] \in {Accepted, Outcome("unknown", FALSE)}
    BY <2>1, <2>2 DEF Moves, JournalStep
  <2>4. \A f \in Handlers \ {h} : pc(f)' = pc(f) /\ Job(f)' = Job(f)
    BY DEF Moves, pc, Job
  <2>5. pc(h)' \in Owning => Job(h)' # Job(g)
    BY <2>1, <2>2, RunnerAssumption DEF OwnerFrom, pc, Job
  <2> QED
    BY <2>1, <2>3, <2>4, <2>5
<1>7. pc(g) \in Fencing => generationLock' = g
  BY <1>1 DEF HandlerOK, Moves
<1>8. "record" \in Owning /\ (pc(g) = "record" => Job(g) \in Executions)
  BY <1>1 DEF Owning, HandlerOK, Delivering
<1> QED
  BY <1>1, <1>2, <1>3, <1>4, <1>5, <1>6, <1>7, <1>8 DEF HandlerOK

LEMMA ControlKept ==
  ASSUME Control, NEW h \in Handlers, Moves(h), OwnerFrom(h), HandlerOK(h)',
         generation' \in GenerationFile, ledger' \in [Works -> LedgerFile],
         reported' \subseteq Executions, trace' \in Seq(Entry)
  PROVE  Control'
<1>1. RunnerTypeOK'
  BY DEF RunnerTypeOK, Moves
<1>2. \A g \in Handlers : HandlerOK(g)'
  BY OthersControl
<1> QED
  BY <1>1, <1>2 DEF Control

\* A handler that has returned obeys no further condition.
LEMMA ReturnedControl ==
  ASSUME Control, NEW h \in Handlers, Moves(h), handler'[h] = Idle,
         generation' \in GenerationFile, ledger' \in [Works -> LedgerFile],
         reported' \subseteq Executions, trace' \in Seq(Entry)
  PROVE  Control'
<1>1. pc(h)' = "idle" /\ handler'[h].pc = "idle"
  BY DEF pc, Idle
<1>2. HandlerOK(h)' /\ OwnerFrom(h)
  BY <1>1 DEF HandlerOK, OwnerFrom, Owning, Fencing, Delivering
<1> QED
  BY <1>2, ControlKept

LEMMA LedgersTyped ==
  ASSUME Control
  PROVE  /\ generation \in GenerationFile /\ ledger \in [Works -> LedgerFile]
         /\ reported \subseteq Executions /\ trace \in Seq(Entry)
         /\ journal \in [Executions -> Outcomes \cup {Missing, Torn}]
  BY DEF Control, RunnerTypeOK

LEMMA PersistFacts ==
  ASSUME Control, NEW e \in Executions, NEW outcome \in Outcomes, PersistResult(e, outcome)
  PROVE  /\ journal' \in [Executions -> Outcomes \cup {Missing, Torn}]
         /\ \A x \in Executions : journal'[x] = journal[x] \/ (x = e /\ journal'[x] = outcome)
  BY DEF Control, RunnerTypeOK, PersistResult

\* An owner settles its record and returns.
LEMMA OwnerReturns ==
  ASSUME Control, NEW h \in Handlers, pc(h) \in Owning, Job(h) \in Executions,
         NEW answer, NEW outcome \in Outcomes,
         PersistResult(Job(h), outcome), Return(h, Job(h), answer)
  PROVE  Moves(h) /\ handler'[h] = Idle /\ reported' \subseteq Executions
<1>1. journal[Job(h)] \in {Torn, Accepted}
  BY DEF Control, HandlerOK
<1>2. JournalStep(h)
  BY <1>1, PersistFacts DEF JournalStep
<1>3. /\ journal' \in [Executions -> Outcomes \cup {Missing, Torn}]
  BY PersistFacts
<1> QED
  BY <1>2, <1>3, ReturnFacts, UnlockedFacts DEF Moves, Control

\* A handler returns and leaves the journal as it is.
LEMMA QuietReturn ==
  ASSUME Control, NEW h \in Handlers, NEW e \in Executions, NEW answer,
         Return(h, e, answer), UNCHANGED journal
  PROVE  Moves(h) /\ handler'[h] = Idle /\ reported' \subseteq Executions
<1>1. JournalStep(h)
  BY DEF JournalStep
<1> QED
  BY <1>1, ReturnFacts, UnlockedFacts, LedgersTyped DEF Moves, Control

LEMMA FailedOutcome == Outcome("failed", FALSE) \in Outcomes
  BY DEF Outcomes, Outcome

\* A refusal ends the handler; a delivery's own record may say so.
LEMMA RefuseFacts ==
  ASSUME Control, NEW h \in Handlers, pc(h) \in Owning \ {"record"}, Refuse(h)
  PROVE  /\ Moves(h) /\ handler'[h] = Idle /\ UNCHANGED reported
         /\ \A e \in Executions :
              \/ journal'[e] = journal[e]
              \/ Job(h) = e /\ journal'[e] = Outcome("failed", FALSE)
<1>0. Job(h) \in Executions \cup Barriers
  <2>1. pc(h) \in Steps \/ pc(h) = "sync"
    BY DEF Owning, Steps
  <2> QED
    BY <2>1, BusyShape, SyncShape DEF Control
<1>1. CASE Installing(h)
  <2>1. Become(h, Idle) /\ Unlocked(h) /\ UNCHANGED journal
    BY <1>1 DEF Refuse
  <2>2. JournalStep(h)
    BY <2>1 DEF JournalStep
  <2> QED
    BY <2>1, <2>2, BecomeFacts, UnlockedFacts, LedgersTyped DEF Moves, Control
<1>2. CASE ~ Installing(h)
  <2>1. /\ PersistResult(Job(h), Outcome("failed", FALSE))
        /\ Return(h, Job(h), Outcome("failed", FALSE)) /\ Job(h) \in Executions
    BY <1>0, <1>2 DEF Refuse, Installing
  <2>2. Moves(h) /\ handler'[h] = Idle
    BY <2>1, OwnerReturns, FailedOutcome
  <2>3. UNCHANGED reported
    BY <2>1 DEF Return, Outcome
  <2>4. \A e \in Executions :
          \/ journal'[e] = journal[e]
          \/ Job(h) = e /\ journal'[e] = Outcome("failed", FALSE)
    BY <2>1, PersistFacts, FailedOutcome
  <2> QED
    BY <2>2, <2>3, <2>4
<1> QED
  BY <1>1, <1>2

\* A busy handler goes on to another step and leaves the journal as it is.
LEMMA QuietGoto ==
  ASSUME Control, NEW h \in Handlers, pc(h) \in Steps, NEW step \in Steps, Goto(h, step),
         UNCHANGED journal,
         \/ UNCHANGED locks
         \/ Unlocked(h)
         \/ /\ execLock[Job(h)] = None /\ execLock' = [execLock EXCEPT ![Job(h)] = h]
            /\ UNCHANGED generationLock
         \/ generationLock = None /\ generationLock' = h /\ UNCHANGED execLock
  PROVE  Moves(h)
<1>1. JournalStep(h)
  BY DEF JournalStep
<1>2. /\ execLock' \in [Executions -> Handlers \cup {None}]
      /\ generationLock' \in Handlers \cup {None}
      /\ \A g \in Handlers \ {h} :
           /\ \A e \in Executions : execLock[e] = g => execLock'[e] = g
           /\ generationLock = g => generationLock' = g
  <2>1. CASE Unlocked(h)
    BY <2>1, UnlockedFacts DEF Control
  <2> QED
    BY <2>1, RunnerAssumption DEF Control, RunnerTypeOK, locks
<1> QED
  BY <1>1, <1>2, GotoFacts, LedgersTyped DEF Moves, Control

\* A handler that goes on keeps what its locks and its job promise.
LEMMA GotoControl ==
  ASSUME Control, NEW h \in Handlers, Moves(h), pc(h) \in Steps, NEW step \in Steps, Goto(h, step),
         handler[h].done = 0,
         UNCHANGED <<generation, trace>>, ledger' \in [Works -> LedgerFile],
         step \in Delivering => Job(h) \in Executions,
         step \in Owning \cup {"admit", "reread"} /\ Job(h) \in Executions => execLock'[Job(h)] = h,
         step \in Fencing => generationLock' = h,
         step = "record" => journal'[Job(h)] = Torn /\ journal[Job(h)] = Missing,
         step \in Owning \ {"record"} /\ Job(h) \in Executions => journal'[Job(h)] = Accepted,
         step = "reread" => journal'[Job(h)] \notin {Missing, Torn},
         step \in Owning \ {"record"} => pc(h) \in Owning,
         step = "convert" => /\ journal'[Job(h)] = Accepted
                             /\ \A g \in Handlers \ {h} : pc(g) \in Owning => Job(g) # Job(h),
         step # "recover"
  PROVE  Control'
<1>1. /\ handler'[h].pc = step /\ handler'[h].job = handler[h].job /\ handler'[h].done = 0
      /\ UNCHANGED reported
      /\ \A g \in Handlers \ {h} : handler'[g] = handler[g]
  BY GotoFacts DEF Control
<1>2. pc(h)' = step /\ Job(h)' = Job(h)
  BY <1>1 DEF pc, Job
<1>3. \A g \in Handlers \ {h} : pc(g)' = pc(g) /\ Job(g)' = Job(g)
  BY <1>1 DEF pc, Job
<1>4. step # "sync"
  BY DEF Steps
<1>5. HandlerOK(h)'
  BY <1>1, <1>2, <1>3 DEF HandlerOK, Owning
<1>6. OwnerFrom(h)
  <2>1. step = "record" => Job(h) \in Executions
    BY DEF Delivering
  <2> QED
    BY <1>1, <2>1 DEF OwnerFrom, Job
<1> QED
  BY <1>1, <1>5, <1>6, ControlKept, LedgersTyped

LEMMA LoadControl ==
  ASSUME Control, NEW h \in Handlers, NEW e \in Executions, Load(h, e)
  PROVE  Moves(h) /\ Control'
<1>1. UNCHANGED <<journal, ledgers, trace>> /\ pc(h) = "idle"
  BY DEF Load
<1>2. CASE \E answer : Return(h, e, answer)
  BY <1>1, <1>2, QuietReturn, ReturnedControl, LedgersTyped DEF ledgers
<1>3. CASE /\ journal[e] \in {Accepted, Missing}
           /\ Become(h, [pc |-> IF journal[e] = Accepted THEN "recover" ELSE "lock",
                         job |-> e, done |-> 0])
           /\ UNCHANGED locks
  <2> DEFINE step == IF journal[e] = Accepted THEN "recover" ELSE "lock"
             s == [pc |-> step, job |-> e, done |-> 0]
  <2>1. s \in Busy /\ s.pc = step /\ s.job = e /\ s.done = 0 /\ step \in {"recover", "lock"}
    BY DEF Busy, Steps
  <2>2. step = "recover" => journal[e] \notin {Missing, Torn}
    BY DEF Accepted, Missing, Torn, Outcome
  <2>3. Become(h, s)
    BY <1>3
  <2> HIDE DEF s, step
  <2>4. /\ handler' \in [Handlers -> {Idle} \cup Busy \cup Syncing]
        /\ handler'[h] = s /\ \A g \in Handlers \ {h} : handler'[g] = handler[g]
        /\ UNCHANGED reported
    BY <2>1, <2>3, BecomeFacts DEF Control
  <2>5. Moves(h)
    <3>1. JournalStep(h)
      BY <1>1 DEF JournalStep
    <3> QED
      BY <1>1, <1>3, <2>4, <3>1, LedgersTyped DEF Moves, Control, RunnerTypeOK, locks
  <2>6. pc(h)' = step /\ Job(h)' = e /\ handler'[h].done = 0
    BY <2>1, <2>4 DEF pc, Job
  <2>7. HandlerOK(h)'
    BY <1>1, <2>1, <2>2, <2>6 DEF HandlerOK, Owning, Fencing
  <2>8. OwnerFrom(h)
    BY <2>1, <2>4 DEF OwnerFrom, Owning
  <2> QED
    BY <1>1, <2>4, <2>5, <2>7, <2>8, ControlKept, LedgersTyped DEF ledgers
<1> QED
  BY <1>2, <1>3 DEF Load

LEMMA UnavailableControl ==
  ASSUME Control, NEW h \in Handlers, NEW e \in Executions, Unavailable(h, e)
  PROVE  Moves(h) /\ Control'
  BY QuietReturn, ReturnedControl, LedgersTyped DEF ledgers, Unavailable

LEMMA RecoverControl ==
  ASSUME Control, NEW h \in Handlers, Recover(h)
  PROVE  Moves(h) /\ Control'
<1>1. /\ UNCHANGED <<journal, ledgers, trace>> /\ pc(h) = "recover" /\ pc(h) \in Steps
      /\ Job(h) \in Executions /\ journal[Job(h)] \notin {Missing, Torn} /\ handler[h].done = 0
  BY DEF Recover, Steps, Control, HandlerOK, Delivering
<1>2. CASE Return(h, Job(h), Accepted)
  BY <1>1, <1>2, QuietReturn, ReturnedControl, LedgersTyped DEF ledgers
<1>3. CASE /\ OwnerGone(Job(h))
           /\ execLock' = [execLock EXCEPT ![Job(h)] = h]
           /\ Goto(h, "reread")
           /\ UNCHANGED generationLock
  <2>1. "reread" \in Steps /\ "reread" \notin Owning /\ "reread" \notin Fencing
    BY DEF Steps, Owning, Fencing
  <2>2. Moves(h)
    BY <1>1, <1>3, <2>1, QuietGoto DEF OwnerGone
  <2>3. execLock'[Job(h)] = h
    BY <1>1, <1>3 DEF Control, RunnerTypeOK
  <2>4. Control'
    BY <1>1, <1>3, <2>1, <2>2, <2>3, GotoControl, LedgersTyped DEF ledgers
  <2> QED
    BY <2>2, <2>4
<1> QED
  BY <1>2, <1>3 DEF Recover

LEMMA RereadControl ==
  ASSUME Control, NEW h \in Handlers, Reread(h)
  PROVE  Moves(h) /\ Control'
<1>1. /\ UNCHANGED <<journal, ledgers, trace>> /\ pc(h) = "reread" /\ pc(h) \in Steps
      /\ Job(h) \in Executions /\ journal[Job(h)] \notin {Missing, Torn} /\ handler[h].done = 0
      /\ execLock[Job(h)] = h
  BY DEF Reread, Steps, Control, HandlerOK, Delivering
<1>2. CASE Return(h, Job(h), journal[Job(h)])
  BY <1>1, <1>2, QuietReturn, ReturnedControl, LedgersTyped DEF ledgers
<1>3. CASE ~ Settled(journal[Job(h)]) /\ Unlocked(h) /\ Goto(h, "convert")
  <2>1. "convert" \in Steps /\ "convert" \notin Owning /\ "convert" \notin Fencing
    BY DEF Steps, Owning, Fencing
  <2>2. Moves(h)
    BY <1>1, <1>3, <2>1, QuietGoto
  <2>3. journal'[Job(h)] = Accepted
    BY <1>1, <1>3, LedgersTyped DEF Outcomes, Outcome, Settled
  <2>4. \A g \in Handlers \ {h} : pc(g) \in Owning => Job(g) # Job(h)
    BY <1>1 DEF Control, HandlerOK
  <2>5. Control'
    BY <1>1, <1>3, <2>1, <2>2, <2>3, <2>4, GotoControl, LedgersTyped DEF ledgers
  <2> QED
    BY <2>2, <2>5
<1> QED
  BY <1>2, <1>3 DEF Reread

LEMMA ConvertControl ==
  ASSUME Control, NEW h \in Handlers, Convert(h)
  PROVE  Moves(h) /\ Control'
<1>1. /\ UNCHANGED <<ledgers, trace>> /\ pc(h) = "convert" /\ Job(h) \in Executions
      /\ PersistResult(Job(h), Outcome("unknown", FALSE))
      /\ Return(h, Job(h), Outcome("unknown", FALSE))
  BY DEF Convert, Control, HandlerOK, Delivering
<1>2. Outcome("unknown", FALSE) \in Outcomes
  BY DEF Outcomes, Outcome
<1>3. JournalStep(h) /\ journal' \in [Executions -> Outcomes \cup {Missing, Torn}]
  BY <1>1, <1>2, PersistFacts DEF JournalStep
<1>4. Moves(h) /\ handler'[h] = Idle /\ reported' \subseteq Executions
  BY <1>1, <1>3, ReturnFacts, UnlockedFacts DEF Moves, Control
<1> QED
  BY <1>1, <1>4, ReturnedControl, LedgersTyped DEF ledgers

LEMMA LockExecutionControl ==
  ASSUME Control, NEW h \in Handlers, LockExecution(h)
  PROVE  Moves(h) /\ Control'
<1>1. /\ UNCHANGED <<journal, ledgers, trace>> /\ pc(h) = "lock" /\ pc(h) \in Steps
      /\ Job(h) \in Executions /\ handler[h].done = 0
  BY DEF LockExecution, Steps, Control, HandlerOK, Delivering
<1>2. CASE Return(h, Job(h), Accepted)
  BY <1>1, <1>2, QuietReturn, ReturnedControl, LedgersTyped DEF ledgers
<1>3. CASE /\ execLock[Job(h)] = None
           /\ execLock' = [execLock EXCEPT ![Job(h)] = h]
           /\ Goto(h, "admit")
           /\ UNCHANGED generationLock
  <2>1. "admit" \in Steps /\ "admit" \notin Owning /\ "admit" \notin Fencing
    BY DEF Steps, Owning, Fencing
  <2>2. Moves(h)
    BY <1>1, <1>3, <2>1, QuietGoto
  <2>3. execLock'[Job(h)] = h
    BY <1>1, <1>3 DEF Control, RunnerTypeOK
  <2>4. Control'
    BY <1>1, <1>3, <2>1, <2>2, <2>3, GotoControl, LedgersTyped DEF ledgers
  <2> QED
    BY <2>2, <2>4
<1> QED
  BY <1>2, <1>3 DEF LockExecution

LEMMA AdmitControl ==
  ASSUME Control, NEW h \in Handlers, Admit(h)
  PROVE  Moves(h) /\ Control'
<1>1. /\ UNCHANGED <<ledgers, trace>> /\ pc(h) = "admit" /\ pc(h) \in Steps
      /\ Job(h) \in Executions /\ handler[h].done = 0 /\ execLock[Job(h)] = h
  BY DEF Admit, Steps, Control, HandlerOK, Delivering
<1>2. CASE UNCHANGED journal /\ \E answer : Return(h, Job(h), answer)
  BY <1>1, <1>2, QuietReturn, ReturnedControl, LedgersTyped DEF ledgers
<1>3. CASE /\ CreateNew(Job(h))
           /\ journal' = [journal EXCEPT ![Job(h)] = Torn]
           /\ Goto(h, "record")
           /\ UNCHANGED locks
  <2>1. "record" \in Steps /\ "record" \notin Fencing
    BY DEF Steps, Fencing
  <2>2. /\ journal' \in [Executions -> Outcomes \cup {Missing, Torn}] /\ journal'[Job(h)] = Torn
        /\ \A e \in Executions \ {Job(h)} : journal'[e] = journal[e]
        /\ journal[Job(h)] = Missing
    BY <1>1, <1>3, LedgersTyped DEF CreateNew
  <2>3. JournalStep(h)
    BY <1>1, <2>2 DEF JournalStep
  <2>4. Moves(h)
    BY <1>1, <1>3, <2>1, <2>2, <2>3, GotoFacts DEF Moves, Control, RunnerTypeOK, locks
  <2>5. Control'
    BY <1>1, <1>3, <2>1, <2>2, <2>4, GotoControl, LedgersTyped DEF ledgers, locks
  <2> QED
    BY <2>4, <2>5
<1> QED
  BY <1>2, <1>3 DEF Admit

LEMMA RecordControl ==
  ASSUME Control, NEW h \in Handlers, Record(h)
  PROVE  Moves(h) /\ Control'
<1>1. /\ UNCHANGED <<ledgers, trace>> /\ pc(h) = "record" /\ pc(h) \in Steps /\ pc(h) \in Owning
      /\ Job(h) \in Executions /\ handler[h].done = 0 /\ execLock[Job(h)] = h
  BY DEF Record, Steps, Control, HandlerOK, Delivering, Owning
<1>2. Accepted \in Outcomes
  BY DEF Outcomes
<1>3. CASE /\ Return(h, Job(h), Outcome("failed", FALSE))
           /\ journal' \in {journal, [journal EXCEPT ![Job(h)] = Accepted]}
  <2>1. PersistResult(Job(h), Accepted)
    BY <1>3 DEF PersistResult
  <2> QED
    BY <1>1, <1>2, <1>3, <2>1, OwnerReturns, ReturnedControl, LedgersTyped DEF ledgers
<1>4. CASE /\ journal' = [journal EXCEPT ![Job(h)] = Accepted]
           /\ Goto(h, "plan")
           /\ UNCHANGED locks
  <2>1. "plan" \in Steps /\ "plan" \notin Fencing
    BY DEF Steps, Fencing
  <2>2. /\ journal' \in [Executions -> Outcomes \cup {Missing, Torn}] /\ journal'[Job(h)] = Accepted
        /\ \A e \in Executions \ {Job(h)} : journal'[e] = journal[e]
        /\ journal[Job(h)] = Torn
    BY <1>1, <1>2, <1>4, LedgersTyped DEF Control, HandlerOK
  <2>3. JournalStep(h)
    BY <1>1, <1>2, <2>2 DEF JournalStep
  <2>4. Moves(h)
    BY <1>1, <1>4, <2>1, <2>2, <2>3, GotoFacts DEF Moves, Control, RunnerTypeOK, locks
  <2>5. Control'
    BY <1>1, <1>4, <2>1, <2>2, <2>4, GotoControl, LedgersTyped DEF ledgers, locks
  <2> QED
    BY <2>4, <2>5
<1> QED
  BY <1>3, <1>4 DEF Record

\* What an owner past its record can count on.
LEMMA OwnerFacts ==
  ASSUME Control, NEW h \in Handlers, pc(h) \in Owning \ {"record"}
  PROVE  /\ Job(h) \in Executions \cup Barriers
         /\ Job(h) \in Executions => execLock[Job(h)] = h /\ journal[Job(h)] = Accepted
         /\ pc(h) \in Fencing => generationLock = h
         /\ pc(h) # "effect" => handler[h].done = 0
         /\ TokenOf(h) \in Token
<1>1. Job(h) \in Executions \cup Barriers
  <2>1. pc(h) \in Steps \/ pc(h) = "sync"
    BY DEF Owning, Steps
  <2> QED
    BY <2>1, BusyShape, SyncShape DEF Control
<1> QED
  BY <1>1, TokenType DEF Control, HandlerOK, Owning

LEMMA RefusedControl ==
  ASSUME Control, NEW h \in Handlers, pc(h) \in Owning \ {"record"}, Refuse(h),
         generation' \in GenerationFile, ledger' \in [Works -> LedgerFile], trace' \in Seq(Entry)
  PROVE  Moves(h) /\ Control'
  BY RefuseFacts, ReturnedControl, LedgersTyped

\* An owner goes on to another of its steps.
LEMMA OwnerGoto ==
  ASSUME Control, NEW h \in Handlers, pc(h) \in Owning \ {"record", "effect", "sync"},
         NEW step \in Steps \cap Owning, step # "record", Goto(h, step),
         UNCHANGED <<journal, generation, trace>>, ledger' \in [Works -> LedgerFile],
         \/ UNCHANGED locks
         \/ generationLock = None /\ generationLock' = h /\ UNCHANGED execLock,
         step \in Delivering => Job(h) \in Executions,
         step \in Fencing => pc(h) \in Fencing \/ generationLock' = h
  PROVE  Moves(h) /\ Control'
<1>1. pc(h) \in Steps /\ pc(h) # "effect"
  BY DEF Owning, Steps
<1>2. /\ Job(h) \in Executions \cup Barriers /\ handler[h].done = 0
      /\ Job(h) \in Executions => execLock[Job(h)] = h /\ journal[Job(h)] = Accepted
      /\ pc(h) \in Fencing => generationLock = h
  BY <1>1, OwnerFacts
<1>3. Moves(h)
  BY <1>1, QuietGoto
<1>4. step \notin {"convert", "reread", "recover", "admit"} /\ pc(h) \in Owning
  BY DEF Owning
<1>5. Job(h) \in Executions => execLock'[Job(h)] = h
  BY <1>2 DEF locks
<1>6. step \in Fencing => generationLock' = h
  BY <1>2 DEF locks
<1> QED
  BY <1>1, <1>2, <1>3, <1>4, <1>5, <1>6, GotoControl

LEMMA PlanControl ==
  ASSUME Control, NEW h \in Handlers, Plan(h)
  PROVE  Moves(h) /\ Control'
<1>1. pc(h) = "plan" /\ UNCHANGED <<ledgers, trace>>
  BY DEF Plan
<1>2. CASE Refuse(h)
  BY <1>1, <1>2, RefusedControl, LedgersTyped DEF ledgers, Owning
<1>3. CASE Goto(h, "generation") /\ UNCHANGED <<journal, locks>>
  BY <1>1, <1>3, OwnerGoto, LedgersTyped DEF ledgers, Owning, Steps, Delivering, Fencing
<1> QED
  BY <1>2, <1>3 DEF Plan

LEMMA InstallControl ==
  ASSUME Control, NEW h \in Handlers, NEW b \in Barriers, Install(h, b)
  PROVE  Moves(h) /\ Control'
<1> DEFINE s == [pc |-> "generation", job |-> b, done |-> 0]
<1>1. Become(h, s) /\ UNCHANGED <<journal, ledgers, locks, trace>>
  BY DEF Install
<1>2. s \in Busy /\ s.pc = "generation" /\ s.job = b /\ s.done = 0
  BY DEF Busy, Steps
<1> HIDE DEF s
<1>3. /\ handler' \in [Handlers -> {Idle} \cup Busy \cup Syncing]
      /\ handler'[h] = s /\ \A g \in Handlers \ {h} : handler'[g] = handler[g]
      /\ UNCHANGED reported
  BY <1>1, <1>2, BecomeFacts DEF Control
<1>4. JournalStep(h)
  BY <1>1 DEF JournalStep
<1>5. Moves(h)
  BY <1>1, <1>3, <1>4, LedgersTyped DEF Moves, Control, RunnerTypeOK, locks
<1>6. pc(h)' = "generation" /\ Job(h)' = b /\ handler'[h].done = 0 /\ b \notin Executions
  BY <1>2, <1>3, RunnerAssumption DEF pc, Job
<1>7. HandlerOK(h)'
  BY <1>6 DEF HandlerOK, Delivering, Fencing
<1>8. OwnerFrom(h)
  BY <1>2, <1>3 DEF OwnerFrom
<1> QED
  BY <1>1, <1>3, <1>5, <1>7, <1>8, ControlKept, LedgersTyped DEF ledgers

LEMMA LockGenerationControl ==
  ASSUME Control, NEW h \in Handlers, LockGeneration(h)
  PROVE  Moves(h) /\ Control'
<1>1. pc(h) = "generation" /\ UNCHANGED <<ledgers, trace>>
  BY DEF LockGeneration
<1>2. CASE Refuse(h)
  BY <1>1, <1>2, RefusedControl, LedgersTyped DEF ledgers, Owning
<1>3. CASE /\ generationLock = None /\ generationLock' = h
           /\ Goto(h, "rotate") /\ UNCHANGED <<journal, execLock>>
  BY <1>1, <1>3, OwnerGoto, LedgersTyped DEF ledgers, Owning, Steps, Delivering
<1> QED
  BY <1>2, <1>3 DEF LockGeneration

LEMMA RotatedType ==
  ASSUME Control, NEW epoch \in Epochs
  PROVE  Rotated(epoch) \in GenerationFile
  BY LedgersTyped DEF Rotated, GenerationFile

LEMMA NotedType ==
  ASSUME trace \in Seq(Entry), NEW en \in Entry
  PROVE  Noted(en) \in Seq(Entry) /\ (Noted(en) = trace \/ Noted(en) = Append(trace, en))
  BY DEF Noted

LEMMA TornTypes == TornGeneration \in GenerationFile /\ TornLedger \in LedgerFile
  BY DEF TornGeneration, GenerationFile, TornLedger, LedgerFile

\* An owner moves to a state of another shape, keeping its job.
LEMMA OwnerBecome ==
  ASSUME Control, NEW h \in Handlers, pc(h) \in Owning \ {"record"},
         NEW s \in Busy \cup Syncing, Become(h, s), UNCHANGED <<journal, locks>>,
         s.pc \in Owning \ {"record"}, s.job = Job(h), s.done = 0 \/ s.pc = "effect",
         s.pc \in Fencing => pc(h) \in Fencing,
         s.pc \in Delivering => Job(h) \in Executions,
         generation' \in GenerationFile, ledger' \in [Works -> LedgerFile], trace' \in Seq(Entry)
  PROVE  Moves(h) /\ Control'
<1>1. /\ handler' \in [Handlers -> {Idle} \cup Busy \cup Syncing]
      /\ handler'[h] = s /\ \A g \in Handlers \ {h} : handler'[g] = handler[g]
      /\ UNCHANGED reported
  BY BecomeFacts DEF Control
<1>2. JournalStep(h)
  BY DEF JournalStep
<1>3. Moves(h)
  BY <1>1, <1>2, LedgersTyped DEF Moves, Control, RunnerTypeOK, locks
<1>4. pc(h)' = s.pc /\ Job(h)' = Job(h) /\ handler'[h].done = s.done
  BY <1>1 DEF pc, Job
<1>5. /\ Job(h) \in Executions => execLock[Job(h)] = h /\ journal[Job(h)] = Accepted
      /\ pc(h) \in Fencing => generationLock = h
  BY OwnerFacts
<1>6. HandlerOK(h)'
  BY <1>4, <1>5 DEF HandlerOK, Owning, locks
<1>7. OwnerFrom(h)
  BY <1>1 DEF OwnerFrom
<1> QED
  BY <1>1, <1>3, <1>6, <1>7, ControlKept, LedgersTyped

LEMMA RotateControl ==
  ASSUME Control, NEW h \in Handlers, Rotate(h)
  PROVE  Moves(h) /\ Control'
<1> DEFINE epoch == TokenOf(h).epoch
           s == [pc |-> "sync", job |-> Job(h), done |-> 0, record |-> Rotated(epoch)]
<1>1. pc(h) = "rotate" /\ UNCHANGED ledger /\ pc(h) \in Owning \ {"record"} /\ pc(h) \in Fencing
  BY DEF Rotate, Owning, Fencing
<1>2. Job(h) \in Executions \cup Barriers /\ TokenOf(h) \in Token
  BY <1>1, OwnerFacts
<1>3. CASE Refuse(h) /\ UNCHANGED <<generation, trace>>
  BY <1>1, <1>3, RefusedControl, LedgersTyped
<1>4. CASE /\ generation' = TornGeneration
           /\ Become(h, s)
           /\ trace' = IF Installing(h)
                       THEN Noted([kind |-> "epoch", token |-> Job(h)]) ELSE trace
           /\ UNCHANGED <<journal, locks>>
  <2>1. Rotated(epoch) \in GenerationFile
    BY <1>2, RotatedType DEF Token
  <2>2. s \in Syncing /\ s.pc = "sync" /\ s.job = Job(h) /\ s.done = 0
    BY <1>2, <2>1 DEF Syncing
  <2>3. trace' \in Seq(Entry)
    <3>1. CASE Installing(h)
      <4>1. [kind |-> "epoch", token |-> Job(h)] \in Entry
        BY <3>1, RunnerAssumption DEF Installing, Entry
      <4> QED
        BY <1>4, <3>1, <4>1, NotedType, LedgersTyped
    <3> QED
      BY <1>4, <3>1, LedgersTyped
  <2>4. generation' \in GenerationFile /\ ledger' \in [Works -> LedgerFile]
    BY <1>1, <1>4, TornTypes, LedgersTyped
  <2>5. "sync" \in Owning \ {"record"} /\ "sync" \notin Delivering
    BY DEF Owning, Delivering
  <2> HIDE DEF s
  <2> QED
    BY <1>1, <1>4, <2>2, <2>3, <2>4, <2>5, OwnerBecome
<1> QED
  BY <1>3, <1>4 DEF Rotate

LEMMA SyncControl ==
  ASSUME Control, NEW h \in Handlers, Sync(h)
  PROVE  Moves(h) /\ Control'
<1> DEFINE s == [pc |-> "fence", job |-> Job(h), done |-> 0]
<1>1. pc(h) = "sync" /\ UNCHANGED <<ledger, trace>> /\ pc(h) \in Owning \ {"record"} /\ pc(h) \in Fencing
  BY DEF Sync, Owning, Fencing
<1>2. generation' \in GenerationFile /\ Job(h) \in Executions \cup Barriers
  BY <1>1, SyncShape DEF Control, Sync
<1>3. CASE Refuse(h)
  BY <1>1, <1>2, <1>3, RefusedControl, LedgersTyped
<1>4. CASE Become(h, s) /\ UNCHANGED <<journal, locks>>
  <2>1. /\ s \in Busy /\ s.pc = "fence" /\ s.job = Job(h) /\ s.done = 0
        /\ "fence" \in Owning \ {"record"} /\ "fence" \notin Delivering
    BY <1>2 DEF Busy, Steps, Owning, Delivering
  <2> HIDE DEF s
  <2> QED
    BY <1>1, <1>2, <1>4, <2>1, OwnerBecome, LedgersTyped
<1> QED
  BY <1>3, <1>4 DEF Sync

\* Entering: a delivery begins to write, an installer returns.
LEMMA EnterControl ==
  ASSUME Control, NEW h \in Handlers, pc(h) \in {"fence", "persist"}, Enter(h),
         UNCHANGED <<journal, generation>>, ledger' \in [Works -> LedgerFile]
  PROVE  Moves(h) /\ Control'
<1>1. pc(h) \in Owning \ {"record", "effect", "sync"} /\ pc(h) \in Fencing
  BY DEF Owning, Fencing
<1>2. Job(h) \in Executions \cup Barriers
  BY <1>1, OwnerFacts
<1>3. CASE Installing(h)
  <2>1. Become(h, Idle) /\ Unlocked(h) /\ trace' = Noted([kind |-> "barrier", token |-> Job(h)])
    BY <1>3 DEF Enter
  <2>2. [kind |-> "barrier", token |-> Job(h)] \in Entry
    BY <1>3, RunnerAssumption DEF Installing, Entry
  <2>3. trace' \in Seq(Entry)
    BY <2>1, <2>2, NotedType, LedgersTyped
  <2>4. JournalStep(h)
    BY DEF JournalStep
  <2>5. Moves(h) /\ handler'[h] = Idle /\ UNCHANGED reported
    BY <2>1, <2>4, BecomeFacts, UnlockedFacts, LedgersTyped DEF Moves, Control
  <2> QED
    BY <2>3, <2>5, ReturnedControl, LedgersTyped
<1>4. CASE ~ Installing(h)
  <2>1. Goto(h, "effect") /\ UNCHANGED <<locks, trace>> /\ Job(h) \in Executions
    BY <1>2, <1>4 DEF Enter, Installing
  <2>2. "effect" \in Steps \cap Owning
    BY DEF Steps, Owning
  <2> QED
    BY <1>1, <2>1, <2>2, OwnerGoto
<1> QED
  BY <1>3, <1>4

LEMMA CheckFenceControl ==
  ASSUME Control, NEW h \in Handlers, CheckFence(h)
  PROVE  Moves(h) /\ Control'
<1>1. pc(h) = "fence" /\ UNCHANGED generation /\ pc(h) \in Owning \ {"record", "effect", "sync"}
      /\ pc(h) \in Fencing
  BY DEF CheckFence, Owning, Fencing
<1>2. CASE Refuse(h) /\ UNCHANGED <<ledger, trace>>
  BY <1>1, <1>2, RefusedControl, LedgersTyped
<1>3. CASE Enter(h) /\ UNCHANGED <<journal, ledger>>
  BY <1>1, <1>3, EnterControl, LedgersTyped
<1>4. CASE /\ ledger' = [ledger EXCEPT ![TokenOf(h).work] = TornLedger]
           /\ Goto(h, "persist") /\ UNCHANGED <<journal, locks, trace>>
  <2>1. ledger' \in [Works -> LedgerFile]
    BY <1>4, TornTypes, LedgersTyped
  <2>2. "persist" \in Steps \cap Owning /\ "persist" \notin Delivering
    BY DEF Steps, Owning, Delivering
  <2> QED
    BY <1>1, <1>4, <2>1, <2>2, OwnerGoto
<1> QED
  BY <1>2, <1>3, <1>4 DEF CheckFence

LEMMA PersistFenceControl ==
  ASSUME Control, NEW h \in Handlers, PersistFence(h)
  PROVE  Moves(h) /\ Control'
<1> DEFINE token == TokenOf(h)
<1>1. pc(h) = "persist" /\ UNCHANGED generation /\ pc(h) \in Owning \ {"record"}
      /\ ledger' = [ledger EXCEPT ![token.work] = [epoch |-> token.epoch, fence |-> token.fence]]
  BY DEF PersistFence, Owning
<1>2. token \in Token
  BY <1>1, OwnerFacts
<1>3. ledger' \in [Works -> LedgerFile]
  <2>1. [epoch |-> token.epoch, fence |-> token.fence] \in LedgerFile
    BY <1>2 DEF Token, LedgerFile
  <2> QED
    BY <1>1, <2>1, LedgersTyped
<1>4. CASE Enter(h) /\ UNCHANGED journal
  BY <1>1, <1>3, <1>4, EnterControl
<1>5. CASE Refuse(h) /\ UNCHANGED trace
  BY <1>1, <1>3, <1>5, RefusedControl, LedgersTyped
<1> QED
  BY <1>4, <1>5 DEF PersistFence

LEMMA LedgerErrorControl ==
  ASSUME Control, NEW h \in Handlers, LedgerError(h)
  PROVE  Moves(h) /\ Control'
  BY RefusedControl, LedgersTyped DEF LedgerError, ledgers, Owning

LEMMA TouchedType ==
  ASSUME Control, NEW h \in Handlers, pc(h) = "effect"
  PROVE  /\ Touched(h) \in Entry /\ Touched(h).kind = "write" /\ Touched(h).execution = Job(h)
         /\ Touched(h).token = TokenOf(h) /\ Touched(h).write = handler[h].done + 1
         /\ Job(h) \in Executions /\ TokenOf(h) \in Token /\ handler[h].done \in Nat
         /\ handler[h] \in Busy
<1>1. Job(h) \in Executions
  BY DEF Control, HandlerOK, Delivering
<1>2. handler[h].done \in Nat /\ TokenOf(h) \in Token /\ handler[h] \in Busy
  BY <1>1, BusyShape, TokenType DEF Control, Steps
<1>3. handler[h].done + 1 \in Nat
  BY <1>2
<1> QED
  BY <1>1, <1>2, <1>3 DEF Touched, Entry

LEMMA WriteControl ==
  ASSUME Control, NEW h \in Handlers, Write(h)
  PROVE  Moves(h) /\ Control'
<1>1. pc(h) = "effect" /\ UNCHANGED ledgers /\ pc(h) \in Owning \ {"record"} /\ pc(h) \in Fencing
  BY DEF Write, Owning, Fencing
<1>2. Touched(h) \in Entry /\ Job(h) \in Executions /\ handler[h].done \in Nat /\ handler[h] \in Busy
  BY <1>1, TouchedType
<1>3. Append(trace, Touched(h)) \in Seq(Entry)
  BY <1>2, LedgersTyped
<1>4. CASE /\ trace' = Append(trace, Touched(h))
           /\ Become(h, [handler[h] EXCEPT !.done = @ + 1])
           /\ UNCHANGED <<journal, locks>>
  <2> DEFINE s == [handler[h] EXCEPT !.done = @ + 1]
  <2>1. s \in Busy /\ s.pc = "effect" /\ s.job = Job(h)
    BY <1>1, <1>2 DEF Busy, pc, Job
  <2>2. Become(h, s)
    BY <1>4
  <2> HIDE DEF s
  <2> QED
    BY <1>1, <1>2, <1>3, <1>4, <2>1, <2>2, OwnerBecome, LedgersTyped DEF ledgers
<1>5. CASE /\ trace' \in {trace, Append(trace, Touched(h))}
           /\ PersistResult(Job(h), FailedWrite)
           /\ Return(h, Job(h), FailedWrite)
  <2>1. FailedWrite \in Outcomes
    BY DEF FailedWrite, Outcomes, Outcome
  <2> QED
    BY <1>1, <1>2, <1>3, <1>5, <2>1, OwnerReturns, ReturnedControl, LedgersTyped DEF ledgers
<1> QED
  BY <1>4, <1>5 DEF Write

LEMMA DeadlineControl ==
  ASSUME Control, NEW h \in Handlers, Deadline(h)
  PROVE  Moves(h) /\ Control'
<1> DEFINE outcome == Outcome("unknown", handler[h].done > 0)
<1>1. /\ pc(h) = "effect" /\ UNCHANGED <<ledgers, trace>> /\ pc(h) \in Owning
      /\ PersistResult(Job(h), outcome) /\ Return(h, Job(h), outcome)
  BY DEF Deadline, Owning
<1>2. Job(h) \in Executions /\ handler[h].done \in Nat
  BY <1>1, TouchedType
<1>3. outcome \in Outcomes
  BY <1>2 DEF Outcomes, Outcome
<1> HIDE DEF outcome
<1> QED
  BY <1>1, <1>2, <1>3, OwnerReturns, ReturnedControl, LedgersTyped DEF ledgers

LEMMA FinishControl ==
  ASSUME Control, NEW h \in Handlers, Finish(h)
  PROVE  Moves(h) /\ Control'
<1>1. pc(h) = "effect" /\ UNCHANGED <<ledgers, trace>> /\ pc(h) \in Owning
  BY DEF Finish, Owning
<1>2. Job(h) \in Executions /\ Outcome("succeeded", TRUE) \in Outcomes
  BY <1>1, TouchedType DEF Outcomes
<1>3. PersistResult(Job(h), Outcome("succeeded", TRUE)) /\ \E answer : Return(h, Job(h), answer)
  BY DEF Finish, PersistResult
<1> QED
  BY <1>1, <1>2, <1>3, OwnerReturns, ReturnedControl, LedgersTyped DEF ledgers

LEMMA CrashControl ==
  ASSUME Control, NEW h \in Handlers, Crash(h)
  PROVE  Moves(h) /\ Control'
<1>1. Become(h, Idle) /\ Unlocked(h) /\ UNCHANGED <<journal, ledgers, trace>>
  BY DEF Crash
<1>2. JournalStep(h)
  BY <1>1 DEF JournalStep
<1>3. Moves(h) /\ handler'[h] = Idle /\ UNCHANGED reported
  BY <1>1, <1>2, BecomeFacts, UnlockedFacts, LedgersTyped DEF Moves, Control
<1> QED
  BY <1>1, <1>3, ReturnedControl, LedgersTyped DEF ledgers

\* No step of a handler changes a settled record.
LEMMA MovesKeepOutcomes ==
  ASSUME Control, NEW h \in Handlers, Moves(h)
  PROVE  OutcomesKept
<1> SUFFICES ASSUME NEW e \in Executions, Settled(journal[e])
             PROVE  journal'[e] = journal[e]
  BY DEF OutcomesKept
<1>1. journal[e] \notin {Torn, Accepted, Missing}
  BY DEF Settled, Torn, Accepted, Missing, Outcome
<1>2. ASSUME pc(h) = "convert", Job(h) = e PROVE journal[e] = Outcome("unknown", FALSE)
  BY <1>1, <1>2 DEF Control, HandlerOK
<1> QED
  BY <1>1, <1>2 DEF Moves, JournalStep

----------------------------------------------------------------------------
(* Effects. *)

LEMMA AppendFacts ==
  ASSUME trace \in Seq(Entry), NEW en \in Entry, trace' = Append(trace, en)
  PROVE  /\ Len(trace) \in Nat /\ DOMAIN trace = 1 .. Len(trace)
         /\ DOMAIN trace' = 1 .. Len(trace) + 1 /\ Len(trace') = Len(trace) + 1
         /\ \A i \in DOMAIN trace : trace'[i] = trace[i]
         /\ trace'[Len(trace) + 1] = en
  OBVIOUS

\* A step that writes nothing: the trace stays, or a holder of the generation
\* lock notes an epoch or a barrier.
NotesOnly(h) ==
  \/ UNCHANGED trace
  \/ /\ pc(h) \in Fencing
     /\ \E en \in Entry : en.kind # "write" /\ trace' = Append(trace, en)

LEMMA NotesKeepWrites ==
  ASSUME Control, NEW h \in Handlers, NotesOnly(h)
  PROVE  /\ \A e, i : i \in Writes(e)' <=> i \in Writes(e)
         /\ \A i \in DOMAIN trace : i \in DOMAIN trace' /\ trace'[i] = trace[i]
         /\ \A i \in DOMAIN trace' : trace'[i].kind = "write" => i \in DOMAIN trace
         /\ Len(trace) \in Nat /\ Len(trace') \in Nat /\ DOMAIN trace = 1 .. Len(trace)
         /\ DOMAIN trace' = 1 .. Len(trace')
<1>1. trace \in Seq(Entry)
  BY LedgersTyped
<1>2. CASE UNCHANGED trace
  BY <1>1, <1>2 DEF Writes, IsWrite
<1>3. ASSUME NEW en \in Entry, en.kind # "write", trace' = Append(trace, en)
      PROVE  /\ \A e, i : i \in Writes(e)' <=> i \in Writes(e)
             /\ \A i \in DOMAIN trace : i \in DOMAIN trace' /\ trace'[i] = trace[i]
             /\ \A i \in DOMAIN trace' : trace'[i].kind = "write" => i \in DOMAIN trace
             /\ Len(trace) \in Nat /\ Len(trace') \in Nat /\ DOMAIN trace = 1 .. Len(trace)
             /\ DOMAIN trace' = 1 .. Len(trace')
  <2>1. /\ Len(trace) \in Nat /\ DOMAIN trace = 1 .. Len(trace)
        /\ DOMAIN trace' = 1 .. Len(trace) + 1 /\ Len(trace') = Len(trace) + 1
        /\ \A i \in DOMAIN trace : trace'[i] = trace[i]
        /\ trace'[Len(trace) + 1] = en
    BY <1>1, <1>3, AppendFacts
  <2>2. \A i \in DOMAIN trace' : i \in DOMAIN trace \/ i = Len(trace) + 1
    BY <2>1
  <2>3. \A i \in DOMAIN trace : i \in DOMAIN trace'
    BY <2>1
  <2> QED
    BY <1>3, <2>1, <2>2, <2>3 DEF Writes, IsWrite
<1> QED
  BY <1>2, <1>3 DEF NotesOnly

LEMMA EffectsKept ==
  ASSUME Control, EffectsOK, NEW h \in Handlers, Moves(h), NotesOnly(h), OwnerOK(h)',
         \A e \in Executions : journal'[e] # journal[e] =>
           /\ journal'[e].state = "succeeded" => Done(e)
           /\ journal'[e] \in {Missing, Torn, Outcome("failed", FALSE)} => Writes(e) = {},
         \A e \in Executions : e \in reported' => e \in reported \/ Done(e)
  PROVE  EffectsOK'
<1>1. /\ \A e, i : i \in Writes(e)' <=> i \in Writes(e)
      /\ \A i \in DOMAIN trace : i \in DOMAIN trace' /\ trace'[i] = trace[i]
      /\ \A i \in DOMAIN trace' : trace'[i].kind = "write" => i \in DOMAIN trace
      /\ Len(trace) \in Nat /\ Len(trace') \in Nat /\ DOMAIN trace = 1 .. Len(trace)
      /\ DOMAIN trace' = 1 .. Len(trace')
  BY NotesKeepWrites
<1>2. \A e, i : i \in Writes(e) => i \in DOMAIN trace
  BY DEF Writes
<1>3. ASSUME NEW g \in Handlers \ {h} PROVE OwnerOK(g)'
  <2>1. OwnerOK(g) /\ handler'[g] = handler[g]
    BY DEF EffectsOK, Moves
  <2>2. pc(g)' = pc(g) /\ Job(g)' = Job(g) /\ handler'[g].done = handler[g].done
    BY <2>1 DEF pc, Job
  <2>3. \A i : i \in Writes(Job(g))' <=> i \in Writes(Job(g))
    BY <1>1, <2>2 DEF Writes, IsWrite
  <2>4. pc(g) \in Owning \ {"effect"} /\ Job(g) \in Executions => Writes(Job(g))' = {}
    BY <2>3, <2>1 DEF OwnerOK
  <2>5. ASSUME pc(g) = "effect" PROVE UNCHANGED trace
    <3>1. pc(h) \notin Fencing
      BY <2>5 DEF Control, HandlerOK, Fencing
    <3> QED
      BY <3>1 DEF NotesOnly
  <2>6. ASSUME pc(g) = "effect"
        PROVE  /\ handler[g].done <= PlannedWrites
               /\ \A i \in Writes(Job(g))' :
                    /\ trace'[i].write <= handler[g].done
                    /\ \A j \in i .. Len(trace') : j \in Writes(Job(g))'
               /\ \A n \in 1 .. handler[g].done : \E i \in Writes(Job(g))' : trace'[i].write = n
    BY <1>1, <1>2, <2>1, <2>3, <2>5, <2>6 DEF OwnerOK
  <2> QED
    BY <2>2, <2>4, <2>6 DEF OwnerOK
<1>4. EffectsOnce'
  <2> SUFFICES ASSUME NEW i \in DOMAIN trace', NEW j \in DOMAIN trace',
                      trace'[i].kind = "write", trace'[i] = trace'[j]
               PROVE  i = j
    BY DEF EffectsOnce, IsWrite
  <2>1. i \in DOMAIN trace /\ j \in DOMAIN trace /\ trace[i].kind = "write" /\ trace[i] = trace[j]
    BY <1>1
  <2> QED
    BY <2>1 DEF EffectsOK, EffectsOnce, IsWrite
<1>5. WritesTogether'
  BY <1>1 DEF EffectsOK, WritesTogether
<1>6. \A e \in Executions : Done(e) => Done(e)'
  BY <1>1, <1>2 DEF Done
<1>7. JournalTellsEffects'
  <2>1. \A e \in Executions : Writes(e) = {} => Writes(e)' = {}
    BY <1>1
  <2> QED
    BY <1>6, <2>1 DEF EffectsOK, JournalTellsEffects
<1> QED
  BY <1>3, <1>4, <1>5, <1>7 DEF EffectsOK

\* A handler that returns, and neither reports nor journals anything but what
\* it may, keeps the effects.
LEMMA ReturnEffects ==
  ASSUME Control, EffectsOK, NEW h \in Handlers, Moves(h), NotesOnly(h), handler'[h] = Idle,
         \A e \in Executions : journal'[e] # journal[e] =>
           /\ journal'[e].state = "succeeded" => Done(e)
           /\ journal'[e] \in {Missing, Torn, Outcome("failed", FALSE)} => Writes(e) = {},
         \A e \in Executions : e \in reported' => e \in reported \/ Done(e)
  PROVE  EffectsOK'
<1>1. pc(h)' = "idle"
  BY DEF pc, Idle
<1>2. OwnerOK(h)'
  BY <1>1 DEF OwnerOK, Owning
<1> QED
  BY <1>2, EffectsKept

\* A refused delivery has written nothing.
LEMMA RefuseEffects ==
  ASSUME Control, EffectsOK, NEW h \in Handlers, pc(h) \in Owning \ {"record", "effect"},
         Refuse(h), NotesOnly(h)
  PROVE  EffectsOK'
<1>1. /\ Moves(h) /\ handler'[h] = Idle /\ UNCHANGED reported
      /\ \A e \in Executions :
           \/ journal'[e] = journal[e]
           \/ Job(h) = e /\ journal'[e] = Outcome("failed", FALSE)
  BY RefuseFacts
<1>2. Job(h) \in Executions => Writes(Job(h)) = {}
  BY DEF EffectsOK, OwnerOK
<1>3. Outcome("failed", FALSE).state # "succeeded"
  BY DEF Outcome
<1> QED
  BY <1>1, <1>2, <1>3, ReturnEffects

\* A handler goes on, owning an execution without writes or none.
LEMMA GoOnEffects ==
  ASSUME Control, EffectsOK, NEW h \in Handlers, Moves(h), NotesOnly(h), UNCHANGED reported,
         pc(h)' \in Owning /\ Job(h)' \in Executions => \A e \in Executions : e = Job(h)' => Writes(e) = {},
         pc(h)' = "effect" => handler'[h].done = 0 /\ Job(h)' \in Executions,
         \A e \in Executions : journal'[e] # journal[e] =>
           Writes(e) = {} /\ journal'[e].state # "succeeded"
  PROVE  EffectsOK'
<1>1. \A e, i : i \in Writes(e)' <=> i \in Writes(e)
  BY NotesKeepWrites
<1>2. pc(h)' \in Owning /\ Job(h)' \in Executions => Writes(Job(h))' = {}
  <2>1. ASSUME pc(h)' \in Owning, Job(h)' \in Executions PROVE \A i : i \notin Writes(Job(h))'
    <3>1. PICK e \in Executions : e = Job(h)'
      BY <2>1
    <3>2. Writes(e) = {}
      BY <2>1, <3>1
    <3>3. \A i : i \notin Writes(e)'
      BY <1>1, <3>2
    <3> QED
      BY <3>1, <3>3 DEF Writes
  <2> QED
    BY <2>1
<1>3. OwnerOK(h)'
  BY <1>2, RunnerAssumption DEF OwnerOK, Owning
<1> QED
  BY <1>3, EffectsKept

\* An answer is a success only when it repeats one of the journal's.
LEMMA AnswerEffects ==
  ASSUME Control, EffectsOK, NEW h \in Handlers, NEW e \in Executions, NEW answer,
         Return(h, e, answer), Moves(h), UNCHANGED <<journal, trace>>,
         answer = journal[e] \/ answer.state # "succeeded"
  PROVE  EffectsOK'
<1>1. handler'[h] = Idle
  BY ReturnFacts DEF Control
<1>2. \A x \in Executions : x \in reported' => x \in reported \/ Done(x)
  <2>1. \/ UNCHANGED reported
        \/ answer.state = "succeeded" /\ \A x : x \in reported' => x \in reported \/ x = e
    BY DEF Return
  <2>2. answer.state = "succeeded" => Done(e)
    BY DEF EffectsOK, JournalTellsEffects
  <2> QED
    BY <2>1, <2>2
<1> QED
  BY <1>1, <1>2, ReturnEffects DEF NotesOnly

\* The steps before a handler owns the record.
LEMMA AdmissionEffects ==
  ASSUME Control, EffectsOK, NEW h \in Handlers, Moves(h),
         \/ \E e \in Executions : Load(h, e) \/ Unavailable(h, e)
         \/ \E b \in Barriers : Install(h, b)
         \/ Recover(h) \/ Reread(h) \/ LockExecution(h)
  PROVE  EffectsOK'
<1>1. /\ Outcome("failed", FALSE).state # "succeeded" /\ Accepted.state # "succeeded"
      /\ Outcome("unknown", FALSE).state # "succeeded"
  BY DEF Outcome, Accepted
<1>2. ASSUME NEW e \in Executions, NEW answer, Return(h, e, answer), UNCHANGED <<journal, trace>>,
             answer = journal[e] \/ answer.state # "succeeded"
      PROVE  EffectsOK'
  BY <1>2, AnswerEffects
<1>3. ASSUME UNCHANGED <<journal, trace, reported>>,
             pc(h)' \in {"recover", "lock", "reread", "convert", "admit"}
      PROVE  EffectsOK'
  BY <1>3, GoOnEffects DEF NotesOnly, Owning
<1>4. ASSUME NEW e \in Executions, Load(h, e) PROVE EffectsOK'
  <2>1. UNCHANGED <<journal, trace>>
    BY <1>4 DEF Load
  <2>2. CASE \E answer : Return(h, e, answer) /\ (answer = journal[e] \/ answer.state # "succeeded")
    BY <1>2, <2>1, <2>2
  <2>3. CASE Become(h, [pc |-> IF journal[e] = Accepted THEN "recover" ELSE "lock",
                        job |-> e, done |-> 0])
    <3>1. UNCHANGED reported /\ pc(h)' \in {"recover", "lock"}
      BY <2>3 DEF Become, Control, RunnerTypeOK, pc
    <3> QED
      BY <1>3, <2>1, <3>1
  <2> QED
    BY <1>1, <1>4, <2>2, <2>3 DEF Load
<1>5. ASSUME NEW e \in Executions, Unavailable(h, e) PROVE EffectsOK'
  BY <1>1, <1>2, <1>5 DEF Unavailable
<1>6. ASSUME NEW b \in Barriers, Install(h, b) PROVE EffectsOK'
  <2>1. UNCHANGED <<journal, trace, reported>> /\ pc(h)' = "generation" /\ Job(h)' = b
    BY <1>6 DEF Install, Become, Control, RunnerTypeOK, pc, Job
  <2>2. b \notin Executions
    BY RunnerAssumption
  <2> QED
    BY <2>1, <2>2, GoOnEffects DEF NotesOnly
<1>7. ASSUME NEW step \in {"reread", "convert", "admit"}, Goto(h, step), pc(h) \in Steps,
             UNCHANGED <<journal, trace>>
      PROVE  EffectsOK'
  <2>1. step \in Steps
    BY DEF Steps
  <2>2. UNCHANGED reported /\ pc(h)' = step
    BY <1>7, <2>1, GotoFacts DEF Control, pc
  <2> QED
    BY <1>3, <1>7, <2>2
<1>8. ASSUME Recover(h) PROVE EffectsOK'
  <2>1. UNCHANGED <<journal, trace>> /\ pc(h) \in Steps /\ Job(h) \in Executions
    BY <1>8 DEF Recover, Steps, Control, HandlerOK, Delivering
  <2> QED
    BY <1>1, <1>2, <1>7, <1>8, <2>1 DEF Recover
<1>9. ASSUME Reread(h) PROVE EffectsOK'
  <2>1. UNCHANGED <<journal, trace>> /\ pc(h) \in Steps /\ Job(h) \in Executions
    BY <1>9 DEF Reread, Steps, Control, HandlerOK, Delivering
  <2> QED
    BY <1>1, <1>2, <1>7, <1>9, <2>1 DEF Reread
<1>10. ASSUME LockExecution(h) PROVE EffectsOK'
  <2>1. UNCHANGED <<journal, trace>> /\ pc(h) \in Steps /\ Job(h) \in Executions
    BY <1>10 DEF LockExecution, Steps, Control, HandlerOK, Delivering
  <2> QED
    BY <1>1, <1>2, <1>7, <1>10, <2>1 DEF LockExecution
<1> QED
  BY <1>4, <1>5, <1>6, <1>8, <1>9, <1>10

LEMMA ConvertEffects ==
  ASSUME Control, EffectsOK, NEW h \in Handlers, Moves(h), Convert(h)
  PROVE  EffectsOK'
<1>1. /\ Job(h) \in Executions /\ UNCHANGED trace
      /\ PersistResult(Job(h), Outcome("unknown", FALSE))
      /\ Return(h, Job(h), Outcome("unknown", FALSE))
  BY DEF Convert, Control, HandlerOK, Delivering
<1>2. /\ Outcome("unknown", FALSE) \in Outcomes /\ Outcome("unknown", FALSE).state # "succeeded"
      /\ Outcome("unknown", FALSE) \notin {Missing, Torn, Outcome("failed", FALSE)}
  BY DEF Outcomes, Outcome, Missing, Torn
<1>3. UNCHANGED reported /\ handler'[h] = Idle
  BY <1>1, <1>2, ReturnFacts DEF Control
<1> QED
  BY <1>1, <1>2, <1>3, PersistFacts, ReturnEffects DEF NotesOnly

LEMMA AdmitEffects ==
  ASSUME Control, EffectsOK, NEW h \in Handlers, Moves(h), Admit(h)
  PROVE  EffectsOK'
<1>1. UNCHANGED trace /\ pc(h) \in Steps /\ Job(h) \in Executions
  BY DEF Admit, Steps, Control, HandlerOK, Delivering
<1>2. Outcome("failed", FALSE).state # "succeeded" /\ Outcome("unknown", FALSE).state # "succeeded"
  BY DEF Outcome
<1>3. CASE /\ CreateNew(Job(h))
           /\ journal' = [journal EXCEPT ![Job(h)] = Torn]
           /\ Goto(h, "record")
  <2>1. pc(h)' = "record" /\ Job(h)' = Job(h) /\ UNCHANGED reported
    BY <1>1, <1>3, GotoFacts DEF Control, pc, Job, Steps
  <2>2. Writes(Job(h)) = {}
    BY <1>1, <1>3 DEF CreateNew, EffectsOK, JournalTellsEffects
  <2>3. \A e \in Executions : journal'[e] # journal[e] => e = Job(h) /\ journal'[e] = Torn
    BY <1>1, <1>3, LedgersTyped
  <2>4. Torn.state # "succeeded"
    BY DEF Torn, Outcome
  <2> QED
    BY <1>1, <2>1, <2>2, <2>3, <2>4, GoOnEffects DEF NotesOnly
<1>4. CASE UNCHANGED journal /\ \E answer :
             Return(h, Job(h), answer) /\ (answer = journal[Job(h)] \/ answer.state # "succeeded")
  BY <1>1, <1>4, AnswerEffects
<1> QED
  BY <1>2, <1>3, <1>4 DEF Admit

LEMMA RecordEffects ==
  ASSUME Control, EffectsOK, NEW h \in Handlers, Moves(h), Record(h)
  PROVE  EffectsOK'
<1>1. UNCHANGED trace /\ pc(h) \in Steps /\ Job(h) \in Executions /\ pc(h) = "record"
  BY DEF Record, Steps, Control, HandlerOK, Delivering
<1>2. Writes(Job(h)) = {}
  BY <1>1 DEF EffectsOK, OwnerOK, Owning
<1>3. /\ Accepted.state # "succeeded" /\ Outcome("failed", FALSE).state # "succeeded"
  BY DEF Accepted, Outcome
<1>4. \A e \in Executions : journal'[e] # journal[e] => e = Job(h) /\ journal'[e] = Accepted
  BY <1>1, LedgersTyped DEF Record
<1>5. CASE Goto(h, "plan")
  <2>1. pc(h)' = "plan" /\ Job(h)' = Job(h) /\ UNCHANGED reported
    BY <1>1, <1>5, GotoFacts DEF Control, pc, Job, Steps
  <2> QED
    BY <1>1, <1>2, <1>3, <1>4, <2>1, GoOnEffects DEF NotesOnly
<1>6. CASE Return(h, Job(h), Outcome("failed", FALSE))
  <2>1. UNCHANGED reported /\ handler'[h] = Idle
    BY <1>1, <1>3, <1>6, ReturnFacts DEF Control
  <2> QED
    BY <1>1, <1>2, <1>3, <1>4, <2>1, ReturnEffects DEF NotesOnly
<1> QED
  BY <1>5, <1>6 DEF Record

\* An owner that has not begun to write goes on to another step.
LEMMA OwnerGoOnEffects ==
  ASSUME Control, EffectsOK, NEW h \in Handlers, pc(h) \in Owning \ {"record", "effect"},
         Moves(h), NotesOnly(h), UNCHANGED <<journal, reported>>,
         Job(h)' = Job(h), pc(h)' = "effect" => handler'[h].done = 0 /\ Job(h) \in Executions
  PROVE  EffectsOK'
<1>1. Job(h) \in Executions => Writes(Job(h)) = {}
  BY DEF EffectsOK, OwnerOK
<1> QED
  BY <1>1, GoOnEffects

\* Entering writes nothing yet.
LEMMA EnterEffects ==
  ASSUME Control, EffectsOK, NEW h \in Handlers, pc(h) \in {"fence", "persist"}, Enter(h), Moves(h),
         UNCHANGED journal
  PROVE  EffectsOK'
<1>1. pc(h) \in Owning \ {"record", "effect"} /\ pc(h) \in Fencing /\ pc(h) \in Steps
  BY DEF Owning, Fencing, Steps
<1>2. Job(h) \in Executions \cup Barriers /\ handler[h].done = 0
  BY <1>1, OwnerFacts
<1>3. CASE Installing(h)
  <2> DEFINE en == [kind |-> "barrier", token |-> Job(h)]
  <2>1. Become(h, Idle) /\ trace' = Noted(en)
    BY <1>3 DEF Enter
  <2>2. en \in Entry /\ en.kind # "write"
    BY <1>3, RunnerAssumption DEF Installing, Entry
  <2> HIDE DEF en
  <2>3. NotesOnly(h)
    BY <1>1, <2>1, <2>2, NotedType, LedgersTyped DEF NotesOnly
  <2>4. handler'[h] = Idle /\ UNCHANGED reported
    BY <2>1, BecomeFacts DEF Control
  <2> QED
    BY <2>3, <2>4, ReturnEffects
<1>4. CASE ~ Installing(h)
  <2>1. Goto(h, "effect") /\ UNCHANGED trace /\ Job(h) \in Executions
    BY <1>2, <1>4 DEF Enter, Installing
  <2>2. Job(h)' = Job(h) /\ UNCHANGED reported /\ handler'[h].done = 0
    BY <1>1, <1>2, <2>1, GotoFacts DEF Control, Job, Steps
  <2> QED
    BY <1>1, <2>1, <2>2, OwnerGoOnEffects DEF NotesOnly
<1> QED
  BY <1>3, <1>4

\* The fencing steps note epochs and barriers, and write nothing.
LEMMA FencingEffects ==
  ASSUME Control, EffectsOK, NEW h \in Handlers, Moves(h),
         Plan(h) \/ LockGeneration(h) \/ Rotate(h) \/ Sync(h) \/ CheckFence(h) \/ PersistFence(h)
         \/ LedgerError(h)
  PROVE  EffectsOK'
<1>1. ASSUME Refuse(h), UNCHANGED trace, pc(h) \in Owning \ {"record", "effect"}
      PROVE  EffectsOK'
  BY <1>1, RefuseEffects DEF NotesOnly
<1>2. ASSUME NEW step \in Steps \ {"effect"}, Goto(h, step), UNCHANGED <<journal, trace>>,
             pc(h) \in (Owning \cap Steps) \ {"record", "effect"}
      PROVE  EffectsOK'
  <2>1. Job(h)' = Job(h) /\ UNCHANGED reported /\ pc(h)' = step
    BY <1>2, GotoFacts DEF Control, Job, pc
  <2> QED
    BY <1>2, <2>1, OwnerGoOnEffects DEF NotesOnly
<1>3. ASSUME Plan(h) PROVE EffectsOK'
  BY <1>1, <1>2, <1>3 DEF Plan, Owning, Steps
<1>4. ASSUME LockGeneration(h) PROVE EffectsOK'
  BY <1>1, <1>2, <1>4 DEF LockGeneration, Owning, Steps
<1>5. ASSUME Rotate(h) PROVE EffectsOK'
  <2> DEFINE s == [pc |-> "sync", job |-> Job(h), done |-> 0, record |-> Rotated(TokenOf(h).epoch)]
             en == [kind |-> "epoch", token |-> Job(h)]
  <2>1. pc(h) \in Owning \ {"record", "effect"} /\ pc(h) \in Fencing
    BY <1>5 DEF Rotate, Owning, Fencing
  <2>2. CASE Refuse(h) /\ UNCHANGED trace
    BY <1>1, <2>1, <2>2
  <2>3. CASE /\ Become(h, s) /\ UNCHANGED journal
             /\ trace' = IF Installing(h) THEN Noted(en) ELSE trace
    <3>1. ASSUME Installing(h) PROVE en \in Entry /\ en.kind # "write"
      BY <3>1, RunnerAssumption DEF Installing, Entry
    <3> HIDE DEF en
    <3>2. NotesOnly(h)
      BY <2>1, <2>3, <3>1, NotedType, LedgersTyped DEF NotesOnly
    <3>3. pc(h)' = "sync" /\ Job(h)' = Job(h) /\ UNCHANGED reported
      BY <2>3 DEF Become, Control, RunnerTypeOK, pc, Job
    <3> QED
      BY <2>1, <2>3, <3>2, <3>3, OwnerGoOnEffects
  <2> QED
    BY <1>5, <2>2, <2>3 DEF Rotate
<1>6. ASSUME Sync(h) PROVE EffectsOK'
  <2>1. pc(h) \in Owning \ {"record", "effect"} /\ UNCHANGED trace
    BY <1>6 DEF Sync, Owning
  <2>2. CASE Become(h, [pc |-> "fence", job |-> Job(h), done |-> 0]) /\ UNCHANGED journal
    <3>1. pc(h)' = "fence" /\ Job(h)' = Job(h) /\ UNCHANGED reported
      BY <2>2 DEF Become, Control, RunnerTypeOK, pc, Job
    <3> QED
      BY <2>1, <2>2, <3>1, OwnerGoOnEffects DEF NotesOnly
  <2> QED
    BY <1>1, <1>6, <2>1, <2>2 DEF Sync
<1>7. ASSUME CheckFence(h) PROVE EffectsOK'
  <2>1. pc(h) = "fence" /\ pc(h) \in (Owning \cap Steps) \ {"record", "effect"}
        /\ "persist" \in Steps \ {"effect"}
    BY <1>7 DEF CheckFence, Owning, Steps
  <2> QED
    BY <1>1, <1>2, <1>7, <2>1, EnterEffects DEF CheckFence
<1>8. ASSUME PersistFence(h) PROVE EffectsOK'
  <2>1. pc(h) = "persist" /\ pc(h) \in Owning \ {"record", "effect"}
    BY <1>8 DEF PersistFence, Owning
  <2> QED
    BY <1>1, <1>8, <2>1, EnterEffects DEF PersistFence
<1>9. ASSUME LedgerError(h) PROVE EffectsOK'
  BY <1>1, <1>9 DEF LedgerError, Owning
<1> QED
  BY <1>3, <1>4, <1>5, <1>6, <1>7, <1>8, <1>9

\* One write: the file belongs to the handler's own execution, whose writes are
\* the last of the trace.
LEMMA TouchEffects ==
  ASSUME Control, EffectsOK, NEW h \in Handlers, pc(h) = "effect", handler[h].done < PlannedWrites,
         Moves(h), trace' = Append(trace, Touched(h)), UNCHANGED reported,
         \A e \in Executions : journal'[e] = journal[e] \/ journal'[e] = FailedWrite,
         \/ handler'[h] = Idle
         \/ pc(h)' = "effect" /\ Job(h)' = Job(h) /\ handler'[h].done = handler[h].done + 1
  PROVE  EffectsOK'
<1> DEFINE n == Len(trace) + 1
           touched == Touched(h)
<1>1. PICK e0 \in Executions : e0 = Job(h)
  BY TouchedType
<1>2. /\ touched \in Entry /\ touched.kind = "write" /\ touched.execution = e0
      /\ touched.write = handler[h].done + 1 /\ handler[h].done \in Nat
  BY <1>1, TouchedType
<1> HIDE DEF touched
<1>3. /\ Len(trace) \in Nat /\ DOMAIN trace = 1 .. Len(trace)
      /\ DOMAIN trace' = 1 .. Len(trace) + 1 /\ Len(trace') = Len(trace) + 1
      /\ \A i \in DOMAIN trace : trace'[i] = trace[i]
      /\ trace'[Len(trace) + 1] = touched
  BY <1>2, AppendFacts, LedgersTyped DEF touched
<1>4. \A x, i : i \in Writes(x)' <=> i \in Writes(x) \/ (x = e0 /\ i = n)
  <2>1. \A i : i \in DOMAIN trace' <=> i \in DOMAIN trace \/ i = n
    BY <1>3
  <2>2. n \notin DOMAIN trace
    BY <1>3
  <2> QED
    BY <1>2, <1>3, <2>1, <2>2 DEF Writes, IsWrite
<1>5. \A x, i : i \in Writes(x) => i \in 1 .. Len(trace) /\ trace'[i] = trace[i] /\ i # n
  BY <1>3 DEF Writes
<1>6. /\ PlannedWrites \in Nat
      /\ \A i \in Writes(e0) : /\ trace[i].write <= handler[h].done
                               /\ \A j \in i .. Len(trace) : j \in Writes(e0)
      /\ \A m \in 1 .. handler[h].done : \E i \in Writes(e0) : trace[i].write = m
  BY <1>1, RunnerAssumption DEF EffectsOK, OwnerOK
<1>7. OwnerOK(h)'
  <2>1. CASE handler'[h] = Idle
    BY <2>1 DEF OwnerOK, pc, Idle, Owning
  <2>2. CASE pc(h)' = "effect" /\ Job(h)' = Job(h) /\ handler'[h].done = handler[h].done + 1
    <3>1. \A i : i \in Writes(Job(h))' <=> i \in Writes(e0) \/ i = n
      BY <1>1, <1>4, <2>2 DEF Writes, IsWrite
    <3>2. handler'[h].done <= PlannedWrites
      BY <1>2, <1>6, <2>2
    <3>3. ASSUME NEW i \in Writes(Job(h))'
          PROVE  /\ trace'[i].write <= handler'[h].done
                 /\ \A j \in i .. Len(trace') : j \in Writes(Job(h))'
      <4>1. CASE i = n
        BY <1>2, <1>3, <2>2, <3>1, <4>1
      <4>2. CASE i \in Writes(e0)
        <5>1. trace[i].write \in Nat /\ trace'[i].write = trace[i].write /\ i \in 1 .. Len(trace)
          <6>1. i \in DOMAIN trace /\ trace[i] \in Entry /\ trace[i].kind = "write"
            BY <4>2, LedgersTyped DEF Writes, IsWrite
          <6> QED
            BY <1>3, <6>1 DEF Entry
        <5>2. trace'[i].write <= handler'[h].done
          BY <1>2, <1>6, <2>2, <4>2, <5>1
        <5>3. \A j \in i .. Len(trace') : j \in i .. Len(trace) \/ j = n
          BY <1>3, <5>1
        <5> QED
          BY <1>6, <3>1, <4>2, <5>2, <5>3
      <4> QED
        BY <3>1, <4>1, <4>2
    <3>4. ASSUME NEW m \in 1 .. handler'[h].done
          PROVE  \E i \in Writes(Job(h))' : trace'[i].write = m
      <4>1. CASE m = handler[h].done + 1
        BY <1>2, <1>3, <3>1, <4>1
      <4>2. CASE m # handler[h].done + 1
        <5>1. m \in 1 .. handler[h].done
          BY <1>2, <2>2, <4>2
        <5>2. PICK i \in Writes(e0) : trace[i].write = m
          BY <1>6, <5>1
        <5> QED
          BY <1>5, <3>1, <5>2
      <4> QED
        BY <4>1, <4>2
    <3> QED
      BY <2>2, <3>2, <3>3, <3>4 DEF OwnerOK
  <2> QED
    BY <2>1, <2>2
<1>8. ASSUME NEW g \in Handlers \ {h} PROVE OwnerOK(g)'
  <2>1. OwnerOK(g) /\ HandlerOK(g) /\ HandlerOK(h) /\ pc(g)' = pc(g) /\ Job(g)' = Job(g)
    BY DEF EffectsOK, Moves, Control, pc, Job
  <2>2. pc(g) # "effect"
    BY <2>1 DEF HandlerOK, Fencing
  <2>3. ASSUME pc(g) \in Owning, Job(g) \in Executions PROVE Job(g) # e0 /\ Writes(Job(g)) = {}
    BY <1>1, <2>1, <2>2, <2>3 DEF HandlerOK, OwnerOK, Owning
  <2>4. ASSUME pc(g) \in Owning, Job(g) \in Executions PROVE \A i : i \notin Writes(Job(g))'
    BY <1>4, <2>1, <2>3, <2>4 DEF Writes, IsWrite
  <2> QED
    BY <2>1, <2>2, <2>4 DEF OwnerOK
<1>9. EffectsOnce'
  <2>1. \A j \in DOMAIN trace : trace[j] # touched
    <3> SUFFICES ASSUME NEW j \in DOMAIN trace, trace[j] = touched PROVE FALSE
      OBVIOUS
    <3>1. j \in Writes(e0) /\ trace[j].write = handler[h].done + 1
      BY <1>2 DEF Writes, IsWrite
    <3> QED
      BY <1>2, <1>6, <3>1
  <2> SUFFICES ASSUME NEW i \in DOMAIN trace', NEW j \in DOMAIN trace',
                      trace'[i].kind = "write", trace'[i] = trace'[j]
               PROVE  i = j
    BY DEF EffectsOnce, IsWrite
  <2>2. (i \in DOMAIN trace \/ i = n) /\ (j \in DOMAIN trace \/ j = n)
    BY <1>3
  <2>3. i \in DOMAIN trace /\ j \in DOMAIN trace => i = j
    BY <1>3 DEF EffectsOK, EffectsOnce, IsWrite
  <2> QED
    BY <1>3, <2>1, <2>2, <2>3
<1>10. WritesTogether'
  <2> SUFFICES ASSUME NEW x \in Executions, NEW i \in Writes(x)', NEW k \in Writes(x)', NEW j \in i .. k
               PROVE  j \in Writes(x)'
    BY DEF WritesTogether
  <2>1. CASE k \in Writes(x) /\ i \in Writes(x)
    BY <1>4, <2>1 DEF EffectsOK, WritesTogether
  <2>2. CASE k = n /\ x = e0 /\ i \in Writes(x)
    <3>1. j \in i .. Len(trace) \/ j = n
      BY <1>3, <1>5, <2>2
    <3> QED
      BY <1>4, <1>6, <2>2, <3>1
  <2>3. CASE i = n /\ x = e0
    BY <1>3, <1>4, <1>5, <2>3
  <2> QED
    BY <1>4, <2>1, <2>2, <2>3
<1>11. JournalTellsEffects'
  <2>1. \A e \in Executions : Done(e) => Done(e)'
    BY <1>4, <1>5 DEF Done
  <2>2. journal[e0] = Accepted
    BY <1>1 DEF Control, HandlerOK, Owning
  <2>3. /\ FailedWrite.state # "succeeded"
        /\ FailedWrite \notin {Missing, Torn, Outcome("failed", FALSE)}
        /\ Accepted \notin {Missing, Torn, Outcome("failed", FALSE)}
    BY DEF FailedWrite, Outcome, Missing, Torn, Accepted
  <2>4. \A e \in Executions : e # e0 /\ Writes(e) = {} => Writes(e)' = {}
    BY <1>4
  <2> QED
    BY <2>1, <2>2, <2>3, <2>4 DEF EffectsOK, JournalTellsEffects
<1> QED
  BY <1>7, <1>8, <1>9, <1>10, <1>11 DEF EffectsOK

LEMMA WriteEffects ==
  ASSUME Control, EffectsOK, NEW h \in Handlers, Moves(h), Write(h)
  PROVE  EffectsOK'
<1>1. pc(h) = "effect" /\ handler[h].done < PlannedWrites
  BY DEF Write
<1>2. Job(h) \in Executions /\ handler[h] \in Busy
  BY <1>1, TouchedType
<1>3. FailedWrite \in Outcomes /\ FailedWrite.state # "succeeded"
      /\ FailedWrite \notin {Missing, Torn, Outcome("failed", FALSE)}
  BY DEF FailedWrite, Outcomes, Outcome, Missing, Torn
<1>4. CASE /\ trace' = Append(trace, Touched(h))
           /\ Become(h, [handler[h] EXCEPT !.done = @ + 1])
           /\ UNCHANGED <<journal, locks>>
  <2>1. /\ pc(h)' = "effect" /\ Job(h)' = Job(h) /\ handler'[h].done = handler[h].done + 1
        /\ UNCHANGED reported
    BY <1>1, <1>2, <1>4 DEF Become, Control, RunnerTypeOK, pc, Job, Busy
  <2> QED
    BY <1>1, <1>4, <2>1, TouchEffects
<1>5. CASE /\ trace' \in {trace, Append(trace, Touched(h))}
           /\ PersistResult(Job(h), FailedWrite)
           /\ Return(h, Job(h), FailedWrite)
  <2>1. handler'[h] = Idle /\ UNCHANGED reported
    BY <1>2, <1>3, <1>5, ReturnFacts DEF Control
  <2>2. \A e \in Executions : journal'[e] = journal[e] \/ journal'[e] = FailedWrite
    BY <1>2, <1>3, <1>5, PersistFacts
  <2>3. CASE UNCHANGED trace
    BY <1>3, <2>1, <2>2, <2>3, ReturnEffects DEF NotesOnly
  <2>4. CASE trace' = Append(trace, Touched(h))
    BY <1>1, <2>1, <2>2, <2>4, TouchEffects
  <2> QED
    BY <1>5, <2>3, <2>4
<1> QED
  BY <1>4, <1>5 DEF Write

LEMMA DeadlineEffects ==
  ASSUME Control, EffectsOK, NEW h \in Handlers, Moves(h), Deadline(h)
  PROVE  EffectsOK'
<1> DEFINE outcome == Outcome("unknown", handler[h].done > 0)
<1>1. /\ pc(h) = "effect" /\ UNCHANGED trace
      /\ PersistResult(Job(h), outcome) /\ Return(h, Job(h), outcome)
  BY DEF Deadline
<1>2. Job(h) \in Executions /\ handler[h].done \in Nat
  BY <1>1, TouchedType
<1>3. outcome \in Outcomes /\ outcome.state # "succeeded"
      /\ outcome \notin {Missing, Torn, Outcome("failed", FALSE)}
  BY <1>2 DEF Outcomes, Outcome, Missing, Torn
<1> HIDE DEF outcome
<1>4. UNCHANGED reported /\ handler'[h] = Idle
  BY <1>1, <1>2, <1>3, ReturnFacts DEF Control
<1> QED
  BY <1>1, <1>2, <1>3, <1>4, PersistFacts, ReturnEffects DEF NotesOnly

\* A handler that is through with its plan has made every write of it.
LEMMA FinishEffects ==
  ASSUME Control, EffectsOK, NEW h \in Handlers, Moves(h), Finish(h)
  PROVE  EffectsOK'
<1>1. pc(h) = "effect" /\ UNCHANGED trace /\ handler[h].done = PlannedWrites
  BY DEF Finish
<1>2. Job(h) \in Executions
  BY <1>1, TouchedType
<1>3. Done(Job(h))
  BY <1>1 DEF EffectsOK, OwnerOK, Done
<1>4. Outcome("succeeded", TRUE) \notin {Missing, Torn, Outcome("failed", FALSE)}
      /\ Outcome("unknown", TRUE).state # "succeeded"
  BY DEF Outcome, Missing, Torn
<1>5. handler'[h] = Idle
  BY <1>2, ReturnFacts DEF Finish, Control
<1>6. \A e \in Executions : journal'[e] # journal[e] => e = Job(h) /\ journal'[e] = Outcome("succeeded", TRUE)
  BY <1>2, LedgersTyped DEF Finish
<1>7. \A e \in Executions : e \in reported' => e \in reported \/ e = Job(h)
  BY DEF Finish, Return
<1> QED
  BY <1>1, <1>3, <1>4, <1>5, <1>6, <1>7, ReturnEffects DEF NotesOnly

LEMMA CrashEffects ==
  ASSUME Control, EffectsOK, NEW h \in Handlers, Moves(h), Crash(h)
  PROVE  EffectsOK'
<1>1. handler'[h] = Idle /\ UNCHANGED <<journal, trace, reported>>
  BY BecomeFacts DEF Crash, Control
<1> QED
  BY <1>1, ReturnEffects DEF NotesOnly

----------------------------------------------------------------------------
(* Fencing. *)

\* The trace's entries, one by one.
LEMMA EntryFacts ==
  ASSUME Control
  PROVE  /\ Len(trace) \in Nat /\ DOMAIN trace = 1 .. Len(trace)
         /\ \A i \in DOMAIN trace :
              /\ trace[i] \in Entry /\ trace[i].token \in Token
              /\ trace[i].token.epoch \in Epochs /\ trace[i].token.epoch # None
              /\ trace[i].token.work \in Works /\ trace[i].token.fence \in Nat
<1>1. trace \in Seq(Entry)
  BY LedgersTyped
<1>2. \A en \in Entry : en.token \in Token
  BY DEF Entry
<1>3. \A t \in Token : t.epoch \in Epochs /\ t.epoch # None /\ t.work \in Works /\ t.fence \in Nat
  BY RunnerAssumption DEF Token
<1> QED
  BY <1>1, <1>2, <1>3

\* A step that leaves the ledgers and the trace alone, and its handler outside
\* the fences.
LEMMA FencingFrame ==
  ASSUME Control, FencingOK, NEW h \in Handlers, Moves(h),
         UNCHANGED <<generation, ledger, trace>>,
         pc(h)' \notin {"sync", "fence", "persist", "effect"}
  PROVE  FencingOK'
<1>1. \A g : Orderly(g) => Orderly(g)'
  BY DEF Orderly, Fences
<1>2. generation' # TornGeneration => Orderly(generation)'
  <2>1. generation # TornGeneration => Orderly(generation)'
    BY DEF FencingOK, Orderly, Fences
  <2> QED
    BY <2>1
<1>3. ASSUME NEW g \in Handlers \ {h} PROVE FencerOK(g)'
  <2>1. FencerOK(g) /\ handler'[g] = handler[g]
    BY DEF FencingOK, Moves
  <2> QED
    BY <2>1 DEF FencerOK, pc, TokenOf, Installing, Job, Orderly, Fences
<1>4. FencerOK(h)'
  BY DEF FencerOK
<1>5. FencesInOrder' /\ EpochsStayRetired'
  BY DEF FencingOK, FencesInOrder, EpochsStayRetired, IsWrite
<1> QED
  BY <1>2, <1>3, <1>4, <1>5 DEF FencingOK

\* The holder of the generation lock is the only one behind the fences.
LEMMA FencingAlone ==
  ASSUME Control, FencingOK, NEW h \in Handlers, pc(h) \in Fencing, Moves(h), FencerOK(h)',
         generation' # TornGeneration => Orderly(generation)',
         FencesInOrder', EpochsStayRetired'
  PROVE  FencingOK'
<1>1. ASSUME NEW g \in Handlers \ {h} PROVE FencerOK(g)'
  <2>1. pc(g) \notin Fencing
    BY DEF Control, HandlerOK
  <2>2. pc(g)' = pc(g)
    BY DEF Moves, pc
  <2> QED
    BY <2>1, <2>2 DEF FencerOK, Fencing
<1> QED
  BY <1>1 DEF FencingOK

\* A new entry is of the last entry's epoch, or brings in an epoch that the
\* trace has not seen.
LEMMA EpochsAppended ==
  ASSUME Control, EpochsStayRetired, NEW en \in Entry, trace' = Append(trace, en),
         \/ trace = <<>>
         \/ trace[Len(trace)].token.epoch = en.token.epoch
         \/ en.kind # "write" /\ \A i \in DOMAIN trace : trace[i].token.epoch # en.token.epoch
  PROVE  EpochsStayRetired'
<1> DEFINE n == Len(trace) + 1
<1>1. /\ Len(trace) \in Nat /\ DOMAIN trace = 1 .. Len(trace)
      /\ DOMAIN trace' = 1 .. Len(trace) + 1 /\ Len(trace') = Len(trace) + 1
      /\ \A i \in DOMAIN trace : trace'[i] = trace[i]
      /\ trace'[Len(trace) + 1] = en
  BY AppendFacts, LedgersTyped
<1>2. ASSUME NEW i \in DOMAIN trace' \ {1}, trace'[i].kind = "write"
      PROVE  trace'[i].token.epoch = trace'[i - 1].token.epoch
  <2>1. CASE i \in DOMAIN trace
    <3>1. i - 1 \in DOMAIN trace
      BY <1>1, <2>1
    <3> QED
      BY <1>1, <1>2, <2>1, <3>1 DEF EpochsStayRetired, IsWrite
  <2>2. CASE i = n
    <3>1. i - 1 = Len(trace) /\ Len(trace) \in DOMAIN trace /\ trace # <<>>
      BY <1>1, <2>2
    <3> QED
      BY <1>1, <1>2, <2>2, <3>1
  <2> QED
    BY <1>1, <2>1, <2>2
<1>3. ASSUME NEW i \in DOMAIN trace', NEW k \in DOMAIN trace', NEW j \in i .. k,
             trace'[i].token.epoch = trace'[k].token.epoch
      PROVE  trace'[j].token.epoch = trace'[i].token.epoch
  <2>1. CASE k \in DOMAIN trace
    <3>1. i \in DOMAIN trace /\ j \in DOMAIN trace
      BY <1>1, <2>1
    <3> QED
      BY <1>1, <1>3, <2>1, <3>1 DEF EpochsStayRetired
  <2>2. CASE k = n /\ i = n
    BY <1>1, <2>2
  <2>3. CASE k = n /\ i \in DOMAIN trace
    <3>1. trace # <<>> /\ trace[Len(trace)].token.epoch = en.token.epoch
          /\ trace[i].token.epoch = en.token.epoch
      BY <1>1, <1>3, <2>3
    <3>2. Len(trace) \in DOMAIN trace /\ (j \in i .. Len(trace) \/ j = n)
      BY <1>1, <2>3
    <3>3. j \in i .. Len(trace) => j \in DOMAIN trace /\ trace[j].token.epoch = trace[i].token.epoch
      BY <1>1, <2>3, <3>1, <3>2 DEF EpochsStayRetired
    <3> QED
      BY <1>1, <2>3, <3>1, <3>2, <3>3
  <2> QED
    BY <1>1, <2>1, <2>2, <2>3
<1> QED
  BY <1>2, <1>3 DEF EpochsStayRetired, IsWrite

\* The holder of the generation lock adds an entry of its own token, which is
\* of the current epoch, and none of whose predecessors has a newer fence.
LEMMA AdvanceFencing ==
  ASSUME Control, FencingOK, NEW h \in Handlers, pc(h) \in Fencing, Moves(h),
         NEW token \in Token, token = TokenOf(h), generation.epoch = token.epoch,
         UNCHANGED generation, Job(h)' = Job(h) \/ pc(h)' = "idle",
         pc(h)' \in {"idle", "effect"},
         ledger'[token.work] = [epoch |-> token.epoch, fence |-> token.fence],
         \A w \in Works \ {token.work} : ledger'[w] = ledger[w],
         \A i \in DOMAIN trace : Fences(i, token.work, token.epoch) =>
           trace[i].token.fence <= token.fence,
         \/ UNCHANGED trace
         \/ \E en \in Entry : en.token = token /\ en.kind # "epoch" /\ trace' = Append(trace, en)
  PROVE  FencingOK'
<1>1. token.epoch \in Epochs /\ token.epoch # None /\ token.fence \in Nat /\ token.work \in Works
  BY RunnerAssumption DEF Token
<1>2. generation # TornGeneration
  BY <1>1 DEF TornGeneration
<1>3. Orderly(generation) /\ FencesInOrder /\ EpochsStayRetired
  BY <1>2 DEF FencingOK
<1>4. FencerOK(h)'
  <2>1. pc(h)' = "effect" => TokenOf(h)' = token
    BY DEF TokenOf, Installing
  <2> QED
    BY <2>1 DEF FencerOK
<1>5. CASE UNCHANGED trace
  <2>1. FencesInOrder' /\ EpochsStayRetired'
    BY <1>3, <1>5 DEF FencesInOrder, EpochsStayRetired, IsWrite
  <2>2. ASSUME NEW w \in Works, NEW i \in DOMAIN trace, Fences(i, w, generation.epoch)
        PROVE  \/ ledger'[w] = TornLedger
               \/ ledger'[w].epoch = generation.epoch /\ trace[i].token.fence <= ledger'[w].fence
    <3>1. CASE w = token.work
      BY <2>2, <3>1
    <3>2. CASE w # token.work
      BY <1>3, <2>2, <3>2 DEF Orderly
    <3> QED
      BY <3>1, <3>2
  <2>3. Orderly(generation)'
    BY <1>3, <1>5, <2>2 DEF Orderly, Fences
  <2> QED
    BY <1>4, <2>1, <2>3, FencingAlone
<1>6. ASSUME NEW en \in Entry, en.token = token, en.kind # "epoch", trace' = Append(trace, en)
      PROVE  FencingOK'
  <2> DEFINE n == Len(trace) + 1
  <2>1. /\ Len(trace) \in Nat /\ DOMAIN trace = 1 .. Len(trace)
        /\ DOMAIN trace' = 1 .. Len(trace) + 1 /\ Len(trace') = Len(trace) + 1
        /\ \A i \in DOMAIN trace : trace'[i] = trace[i]
        /\ trace'[n] = en
    BY <1>6, AppendFacts, LedgersTyped
  <2>2. \A i \in DOMAIN trace' : i \in DOMAIN trace \/ i = n
    BY <2>1
  <2>3. EpochsStayRetired'
    <3>1. trace = <<>> \/ trace[Len(trace)].token.epoch = en.token.epoch
      BY <1>3, <1>6 DEF Orderly
    <3> QED
      BY <1>3, <1>6, <3>1, EpochsAppended
  <2>4. FencesInOrder'
    <3> SUFFICES ASSUME NEW i \in DOMAIN trace', NEW j \in DOMAIN trace',
                        i < j, trace'[j].kind = "write", trace'[i].kind \in {"write", "barrier"},
                        trace'[i].token.work = trace'[j].token.work,
                        trace'[i].token.epoch = trace'[j].token.epoch
                 PROVE  trace'[i].token.fence <= trace'[j].token.fence
      BY DEF FencesInOrder, IsWrite
    <3>1. i \in DOMAIN trace
      BY <2>1
    <3>2. CASE j \in DOMAIN trace
      BY <1>3, <2>1, <3>1, <3>2 DEF FencesInOrder, IsWrite
    <3>3. CASE j = n
      <4>1. Fences(i, token.work, token.epoch)
        BY <1>6, <2>1, <3>1, <3>3 DEF Fences
      <4> QED
        BY <1>6, <2>1, <3>1, <3>3, <4>1
    <3> QED
      BY <2>2, <3>2, <3>3
  <2>5. ASSUME NEW w \in Works, NEW i \in DOMAIN trace', Fences(i, w, generation.epoch)'
        PROVE  \/ ledger'[w] = TornLedger
               \/ ledger'[w].epoch = generation'.epoch /\ trace'[i].token.fence <= ledger'[w].fence
    <3>1. CASE i = n
      <4>1. w = token.work
        BY <1>6, <2>1, <2>5, <3>1 DEF Fences
      <4>2. ledger'[w].epoch = token.epoch /\ ledger'[w].fence = token.fence
        BY <4>1
      <4>3. trace'[i] = en
        BY <2>1, <3>1
      <4>4. trace'[i].token = token
        BY <1>6, <4>3
      <4>5. token.fence <= token.fence
        BY <1>1
      <4> QED
        BY <4>2, <4>4, <4>5
    <3>2. CASE i \in DOMAIN trace
      <4>1. Fences(i, w, generation.epoch)
        BY <2>1, <2>5, <3>2 DEF Fences
      <4>2. CASE w = token.work
        BY <2>1, <3>2, <4>1, <4>2
      <4>3. CASE w # token.work
        BY <1>3, <2>1, <3>2, <4>1, <4>3 DEF Orderly
      <4> QED
        BY <4>2, <4>3
    <3> QED
      BY <2>2, <3>1, <3>2
  <2>6. /\ generation'.epoch \notin generation'.retired
        /\ \A i \in DOMAIN trace' : trace'[i].token.epoch \in generation'.retired \cup {generation'.epoch}
        /\ trace'[Len(trace')].token.epoch = generation'.epoch
    <3>1. \A i \in DOMAIN trace : trace[i].token.epoch \in generation.retired \cup {generation.epoch}
      BY <1>3 DEF Orderly
    <3>2. \A i \in DOMAIN trace' : trace'[i].token.epoch \in generation.retired \cup {generation.epoch}
      BY <1>6, <2>1, <2>2, <3>1
    <3>3. trace'[Len(trace')].token = token
      BY <1>6, <2>1
    <3> QED
      BY <1>3, <3>2, <3>3 DEF Orderly
  <2>7. Orderly(generation)'
    BY <2>5, <2>6 DEF Orderly
  <2> QED
    BY <1>4, <2>3, <2>4, <2>7, FencingAlone
<1> QED
  BY <1>5, <1>6

\* A handler past the ledgers writes, or has its barrier in force.
LEMMA EnterFencing ==
  ASSUME Control, FencingOK, NEW h \in Handlers, pc(h) \in {"fence", "persist"}, Moves(h),
         Enter(h), UNCHANGED generation,
         ledger'[TokenOf(h).work] = [epoch |-> TokenOf(h).epoch, fence |-> TokenOf(h).fence],
         \A w \in Works \ {TokenOf(h).work} : ledger'[w] = ledger[w],
         \A i \in DOMAIN trace : Fences(i, TokenOf(h).work, TokenOf(h).epoch) =>
           trace[i].token.fence <= TokenOf(h).fence
  PROVE  FencingOK'
<1>1. pc(h) \in Owning \ {"record"} /\ pc(h) \in Fencing /\ pc(h) \in Steps
  BY DEF Owning, Fencing, Steps
<1>2. Job(h) \in Executions \cup Barriers /\ TokenOf(h) \in Token
  BY <1>1, OwnerFacts
<1>3. generation.epoch = TokenOf(h).epoch
  BY DEF FencingOK, FencerOK
<1>4. CASE Installing(h)
  <2> DEFINE en == [kind |-> "barrier", token |-> Job(h)]
  <2>1. Become(h, Idle) /\ trace' = Noted(en)
    BY <1>4 DEF Enter
  <2>2. en \in Entry /\ en.kind # "epoch" /\ en.token = TokenOf(h)
    BY <1>4, RunnerAssumption DEF Installing, Entry, TokenOf
  <2> HIDE DEF en
  <2>3. UNCHANGED trace \/ trace' = Append(trace, en)
    BY <2>1, <2>2, NotedType, LedgersTyped
  <2>4. pc(h)' = "idle"
    BY <2>1, BecomeFacts DEF Control, pc, Idle
  <2> QED
    BY <1>1, <1>2, <1>3, <2>2, <2>3, <2>4, AdvanceFencing
<1>5. CASE ~ Installing(h)
  <2>1. Goto(h, "effect") /\ UNCHANGED trace
    BY <1>5 DEF Enter
  <2>2. Job(h)' = Job(h) /\ pc(h)' = "effect"
    BY <1>1, <2>1, GotoFacts DEF Control, Job, pc, Steps
  <2> QED
    BY <1>1, <1>2, <1>3, <2>1, <2>2, AdvanceFencing
<1> QED
  BY <1>4, <1>5

\* An epoch that may enter leaves a record in order: it is the current one, or
\* one the trace has never seen.
LEMMA RotateFencing ==
  ASSUME Control, FencingOK, NEW h \in Handlers, Moves(h), Rotate(h)
  PROVE  FencingOK'
<1> DEFINE token == TokenOf(h)
           epoch == TokenOf(h).epoch
           g == Rotated(epoch)
           s == [pc |-> "sync", job |-> Job(h), done |-> 0, record |-> g]
           en == [kind |-> "epoch", token |-> Job(h)]
<1>1. pc(h) = "rotate" /\ UNCHANGED ledger /\ pc(h) \in Owning \ {"record"} /\ pc(h) \in Fencing
  BY DEF Rotate, Owning, Fencing
<1>2. /\ Job(h) \in Executions \cup Barriers /\ token \in Token
      /\ epoch \in Epochs /\ epoch # None
  BY <1>1, OwnerFacts, RunnerAssumption DEF Token
<1>3. CASE Refuse(h) /\ UNCHANGED <<generation, trace>>
  <2>1. handler'[h] = Idle
    BY <1>1, <1>3, RefuseFacts
  <2>2. pc(h)' = "idle"
    BY <2>1 DEF pc, Idle
  <2> QED
    BY <1>1, <1>3, <2>2, FencingFrame
<1>4. CASE /\ MayEnter(h, epoch) /\ generation' = TornGeneration /\ Become(h, s)
           /\ trace' = IF Installing(h) THEN Noted(en) ELSE trace
  <2>1. generation # TornGeneration
    BY <1>2, <1>4 DEF MayEnter, TornGeneration, NoGeneration
  <2>2. /\ generation.epoch \notin generation.retired
        /\ \A i \in DOMAIN trace : trace[i].token.epoch \in generation.retired \cup {generation.epoch}
        /\ trace # <<>> => trace[Len(trace)].token.epoch = generation.epoch
        /\ \A w \in Works : \A i \in DOMAIN trace : Fences(i, w, generation.epoch) =>
             \/ ledger[w] = TornLedger
             \/ ledger[w].epoch = generation.epoch /\ trace[i].token.fence <= ledger[w].fence
    BY <2>1 DEF FencingOK, Orderly
  <2>3. /\ g.epoch = epoch
        /\ \A x : x \in g.retired <=>
             x \in generation.retired \/ (x = generation.epoch /\ x # epoch /\ x # None)
    BY DEF Rotated
  <2>4. pc(h)' = "sync" /\ Job(h)' = Job(h) /\ handler'[h].record = g
    BY <1>4 DEF Become, Control, RunnerTypeOK, pc, Job
  <2>5. TokenOf(h)' = token
    BY <2>4 DEF TokenOf, Installing
  <2>6. \/ epoch = generation.epoch
        \/ trace = <<>> /\ generation.retired = {}
        \/ Installing(h) /\ epoch \notin generation.retired /\ epoch # generation.epoch
    <3>1. ASSUME generation = NoGeneration PROVE trace = <<>> /\ generation.retired = {}
      <4>1. generation.epoch = None /\ generation.retired = {}
        BY <3>1 DEF NoGeneration
      <4>2. \A i \in DOMAIN trace : FALSE
        BY <2>2, <4>1, EntryFacts
      <4>3. Len(trace) = 0
        BY <4>2, EntryFacts
      <4> QED
        BY <4>1, <4>3, LedgersTyped
    <3> QED
      BY <1>4, <3>1 DEF MayEnter
  <2> HIDE DEF g
  <2>7. epoch \notin g.retired
    BY <2>2, <2>3, <2>6
  <2>8. \A i \in DOMAIN trace : trace[i].token.epoch \in g.retired \cup {epoch}
    BY <2>2, <2>3, EntryFacts
  <2>9. epoch = generation.epoch \/ \A i \in DOMAIN trace : trace[i].token.epoch # epoch
    BY <2>2, <2>6
  <2>10. ASSUME NEW w \in Works, NEW i \in DOMAIN trace, Fences(i, w, epoch)
         PROVE  \/ ledger[w] = TornLedger
                \/ ledger[w].epoch = epoch /\ trace[i].token.fence <= ledger[w].fence
    <3>1. epoch = generation.epoch
      BY <2>9, <2>10 DEF Fences
    <3> QED
      BY <2>2, <2>10, <3>1
  <2>11. Installing(h) => en \in Entry /\ en.token.epoch = epoch /\ en.kind = "epoch"
    BY RunnerAssumption DEF Installing, Entry, TokenOf
  <2>12. CASE UNCHANGED trace
    <3>1. trace # <<>> => trace[Len(trace)].token.epoch = epoch
      <4>1. CASE epoch = generation.epoch
        BY <2>2, <4>1
      <4>2. CASE Installing(h) /\ epoch # generation.epoch
        <5>1. en \in Range(trace)
          <6>1. trace # Append(trace, en)
            BY <2>11, <4>2, LedgersTyped
          <6> QED
            BY <1>4, <2>12, <4>2, <6>1 DEF Noted
        <5>2. PICK i \in DOMAIN trace : trace[i] = en
          BY <5>1 DEF Range
        <5> QED
          BY <2>9, <2>11, <4>2, <5>2
      <4> QED
        BY <2>6, <4>1, <4>2
    <3>2. Orderly(handler[h].record)'
      BY <1>1, <2>3, <2>4, <2>7, <2>8, <2>10, <2>12, <3>1 DEF Orderly, Fences
    <3>3. FencerOK(h)'
      BY <1>4, <2>3, <2>4, <2>5, <3>2 DEF FencerOK
    <3>4. FencesInOrder' /\ EpochsStayRetired'
      BY <2>12 DEF FencingOK, FencesInOrder, EpochsStayRetired, IsWrite
    <3> QED
      BY <1>1, <1>4, <3>3, <3>4, FencingAlone
  <2>13. CASE Installing(h) /\ trace' = Append(trace, en)
    <3> DEFINE n == Len(trace) + 1
    <3>1. en \in Entry /\ en.token.epoch = epoch /\ en.kind = "epoch"
      BY <2>11, <2>13
    <3> HIDE DEF en
    <3>2. /\ Len(trace) \in Nat /\ DOMAIN trace = 1 .. Len(trace)
          /\ DOMAIN trace' = 1 .. Len(trace) + 1 /\ Len(trace') = Len(trace) + 1
          /\ \A i \in DOMAIN trace : trace'[i] = trace[i]
          /\ trace'[n] = en
      BY <2>13, <3>1, AppendFacts, LedgersTyped
    <3>3. \A i \in DOMAIN trace' : i \in DOMAIN trace \/ i = n
      BY <3>2
    <3>4. EpochsStayRetired'
      <4>1. \/ trace = <<>> \/ trace[Len(trace)].token.epoch = en.token.epoch
            \/ \A i \in DOMAIN trace : trace[i].token.epoch # en.token.epoch
        BY <2>2, <2>9, <3>1
      <4> QED
        BY <2>13, <3>1, <4>1, EpochsAppended DEF FencingOK
    <3>5. FencesInOrder'
      <4> SUFFICES ASSUME NEW i \in DOMAIN trace', NEW j \in DOMAIN trace',
                          i < j, trace'[j].kind = "write", trace'[i].kind \in {"write", "barrier"},
                          trace'[i].token.work = trace'[j].token.work,
                          trace'[i].token.epoch = trace'[j].token.epoch
                   PROVE  trace'[i].token.fence <= trace'[j].token.fence
        BY DEF FencesInOrder, IsWrite
      <4>1. i \in DOMAIN trace /\ j \in DOMAIN trace
        BY <3>1, <3>2, <3>3
      <4> QED
        BY <3>2, <4>1 DEF FencingOK, FencesInOrder, IsWrite
    <3>6. \A i \in DOMAIN trace' : trace'[i].token.epoch \in g.retired \cup {epoch}
      BY <2>8, <3>1, <3>2, <3>3
    <3>7. trace'[Len(trace')].token.epoch = epoch
      BY <3>1, <3>2
    <3>8. ASSUME NEW w \in Works, NEW i \in DOMAIN trace',
                 trace'[i].kind \in {"write", "barrier"}, trace'[i].token.work = w,
                 trace'[i].token.epoch = epoch
          PROVE  \/ ledger[w] = TornLedger
                 \/ ledger[w].epoch = epoch /\ trace'[i].token.fence <= ledger[w].fence
      <4>1. i \in DOMAIN trace
        BY <3>1, <3>2, <3>3, <3>8
      <4> QED
        BY <2>10, <3>2, <3>8, <4>1 DEF Fences
    <3>9. Orderly(handler[h].record)'
      BY <1>1, <2>3, <2>4, <2>7, <3>6, <3>7, <3>8 DEF Orderly, Fences
    <3>10. FencerOK(h)'
      BY <1>4, <2>3, <2>4, <2>5, <3>9 DEF FencerOK
    <3> QED
      BY <1>1, <1>4, <3>4, <3>5, <3>10, FencingAlone
  <2> QED
    BY <1>4, <2>11, <2>12, <2>13, NotedType, LedgersTyped
<1> QED
  BY <1>3, <1>4 DEF Rotate

\* A refusal behind the fences leaves the ledgers as they are.
LEMMA RefuseFencing ==
  ASSUME Control, FencingOK, NEW h \in Handlers, pc(h) \in Owning \ {"record"}, Refuse(h), Moves(h),
         UNCHANGED <<generation, ledger, trace>>
  PROVE  FencingOK'
<1>1. handler'[h] = Idle
  BY RefuseFacts
<1>2. pc(h)' = "idle"
  BY <1>1 DEF pc, Idle
<1> QED
  BY <1>2, FencingFrame

\* The record written is the one that was computed before the file was torn.
LEMMA SyncFencing ==
  ASSUME Control, FencingOK, NEW h \in Handlers, Moves(h), Sync(h)
  PROVE  FencingOK'
<1>1. /\ pc(h) = "sync" /\ UNCHANGED <<ledger, trace>> /\ generation' = handler[h].record
      /\ pc(h) \in Owning \ {"record"} /\ pc(h) \in Fencing
  BY DEF Sync, Owning, Fencing
<1>2. handler[h].record.epoch = TokenOf(h).epoch /\ Orderly(handler[h].record)
  BY <1>1 DEF FencingOK, FencerOK
<1>3. Orderly(generation)'
  BY <1>1, <1>2 DEF Orderly, Fences
<1>4. FencesInOrder' /\ EpochsStayRetired'
  BY <1>1 DEF FencingOK, FencesInOrder, EpochsStayRetired, IsWrite
<1>5. FencerOK(h)'
  <2>1. CASE Refuse(h)
    <3>1. handler'[h] = Idle
      BY <1>1, <2>1, RefuseFacts
    <3> QED
      BY <3>1 DEF FencerOK, pc, Idle
  <2>2. CASE Become(h, [pc |-> "fence", job |-> Job(h), done |-> 0])
    <3>1. pc(h)' = "fence" /\ Job(h)' = Job(h)
      BY <2>2 DEF Become, Control, RunnerTypeOK, pc, Job
    <3>2. TokenOf(h)' = TokenOf(h)
      BY <3>1 DEF TokenOf, Installing
    <3> QED
      BY <1>1, <1>2, <3>1, <3>2 DEF FencerOK
  <2> QED
    BY <2>1, <2>2 DEF Sync
<1> QED
  BY <1>1, <1>3, <1>4, <1>5, FencingAlone

\* What the ledger of a handler's work says of the trace.
LEMMA LedgerFacts ==
  ASSUME Control, FencingOK, NEW h \in Handlers, pc(h) \in {"fence", "persist", "effect"}
  PROVE  /\ TokenOf(h) \in Token /\ TokenOf(h).work \in Works /\ TokenOf(h).fence \in Nat
         /\ TokenOf(h).epoch \in Epochs /\ TokenOf(h).epoch # None
         /\ generation.epoch = TokenOf(h).epoch /\ generation # TornGeneration /\ Orderly(generation)
         /\ \A i \in DOMAIN trace : Fences(i, TokenOf(h).work, TokenOf(h).epoch) =>
              \/ ledger[TokenOf(h).work] = TornLedger
              \/ /\ ledger[TokenOf(h).work].epoch = TokenOf(h).epoch
                 /\ trace[i].token.fence <= ledger[TokenOf(h).work].fence
         /\ ledger[TokenOf(h).work] \in LedgerFile /\ ledger[TokenOf(h).work].fence \in Nat
<1>1. TokenOf(h) \in Token
  BY OwnerFacts DEF Owning
<1>2. /\ TokenOf(h).work \in Works /\ TokenOf(h).fence \in Nat
      /\ TokenOf(h).epoch \in Epochs /\ TokenOf(h).epoch # None
  BY <1>1, RunnerAssumption DEF Token
<1>3. generation.epoch = TokenOf(h).epoch
  BY DEF FencingOK, FencerOK
<1>4. generation # TornGeneration
  BY <1>2, <1>3 DEF TornGeneration
<1>5. Orderly(generation)
  BY <1>4 DEF FencingOK
<1>6. ledger[TokenOf(h).work] \in LedgerFile
  BY <1>2, LedgersTyped
<1> QED
  BY <1>1, <1>2, <1>3, <1>4, <1>5, <1>6 DEF Orderly, LedgerFile

\* The ledger is torn only by a fence that no predecessor in the trace exceeds.
LEMMA CheckFenceFencing ==
  ASSUME Control, FencingOK, NEW h \in Handlers, Moves(h), CheckFence(h)
  PROVE  FencingOK'
<1> DEFINE token == TokenOf(h)
           w == token.work
<1>1. /\ pc(h) = "fence" /\ UNCHANGED generation
      /\ pc(h) \in Owning \ {"record"} /\ pc(h) \in Fencing /\ pc(h) \in Steps
  BY DEF CheckFence, Owning, Fencing, Steps
<1>2. /\ token \in Token /\ w \in Works /\ token.fence \in Nat
      /\ generation.epoch = token.epoch /\ generation # TornGeneration /\ Orderly(generation)
      /\ \A i \in DOMAIN trace : Fences(i, w, token.epoch) =>
           \/ ledger[w] = TornLedger
           \/ ledger[w].epoch = token.epoch /\ trace[i].token.fence <= ledger[w].fence
      /\ ledger[w] \in LedgerFile /\ ledger[w].fence \in Nat
  BY <1>1, LedgerFacts
<1>3. ASSUME ledger[w] # TornLedger, ~ StaleFence(token)
      PROVE  \A i \in DOMAIN trace : Fences(i, w, token.epoch) => trace[i].token.fence <= token.fence
  BY <1>2, <1>3, EntryFacts DEF StaleFence
<1>4. CASE Refuse(h) /\ UNCHANGED <<ledger, trace>>
  BY <1>1, <1>4, RefuseFencing
<1>5. CASE /\ ledger[w] # TornLedger /\ ~ StaleFence(token)
           /\ ledger[w].epoch = token.epoch /\ ledger[w].fence = token.fence
           /\ Enter(h)
           /\ UNCHANGED <<journal, ledger>>
  <2>1. ledger[w] = [epoch |-> token.epoch, fence |-> token.fence]
    BY <1>2, <1>5 DEF LedgerFile
  <2>2. ledger'[w] = [epoch |-> token.epoch, fence |-> token.fence]
    BY <1>5, <2>1
  <2> QED
    BY <1>1, <1>3, <1>5, <2>2, EnterFencing
<1>6. CASE /\ ledger[w] # TornLedger /\ ~ StaleFence(token)
           /\ ledger' = [ledger EXCEPT ![w] = TornLedger]
           /\ Goto(h, "persist")
           /\ UNCHANGED trace
  <2>1. pc(h)' = "persist" /\ Job(h)' = Job(h)
    BY <1>1, <1>6, GotoFacts DEF Control, pc, Job, Steps
  <2>2. TokenOf(h)' = token
    BY <2>1 DEF TokenOf, Installing
  <2>3. \A x \in Works : ledger'[x] = IF x = w THEN TornLedger ELSE ledger[x]
    BY <1>6, LedgersTyped
  <2>4. FencerOK(h)'
    <3>1. ledger'[w] = TornLedger
      BY <1>2, <2>3
    <3>2. \A i \in DOMAIN trace' : Fences(i, w, token.epoch)' => trace'[i].token.fence <= token.fence
      BY <1>3, <1>6, <2>2 DEF Fences
    <3> QED
      BY <1>1, <1>2, <2>1, <2>2, <3>1, <3>2 DEF FencerOK
  <2>5. Orderly(generation)'
    BY <1>1, <1>2, <1>6, <2>3 DEF Orderly, Fences
  <2>6. FencesInOrder' /\ EpochsStayRetired'
    BY <1>6 DEF FencingOK, FencesInOrder, EpochsStayRetired, IsWrite
  <2> QED
    BY <1>1, <2>4, <2>5, <2>6, FencingAlone
<1> QED
  BY <1>4, <1>5, <1>6 DEF CheckFence

LEMMA PersistFenceFencing ==
  ASSUME Control, FencingOK, NEW h \in Handlers, Moves(h), PersistFence(h)
  PROVE  FencingOK'
<1> DEFINE token == TokenOf(h)
           w == token.work
<1>1. /\ pc(h) = "persist" /\ UNCHANGED generation
      /\ pc(h) \in Owning \ {"record"} /\ pc(h) \in Fencing
      /\ ledger' = [ledger EXCEPT ![w] = [epoch |-> token.epoch, fence |-> token.fence]]
  BY DEF PersistFence, Owning, Fencing
<1>2. /\ token \in Token /\ w \in Works /\ generation.epoch = token.epoch
      /\ \A i \in DOMAIN trace : Fences(i, w, token.epoch) => trace[i].token.fence <= token.fence
  BY <1>1, LedgerFacts DEF FencingOK, FencerOK
<1>3. /\ ledger'[w] = [epoch |-> token.epoch, fence |-> token.fence]
      /\ \A x \in Works \ {w} : ledger'[x] = ledger[x]
  BY <1>1, <1>2, LedgersTyped
<1>4. CASE Enter(h)
  BY <1>1, <1>2, <1>3, <1>4, EnterFencing
<1>5. CASE Refuse(h) /\ UNCHANGED trace
  <2>1. handler'[h] = Idle
    BY <1>1, <1>5, RefuseFacts
  <2>2. pc(h)' = "idle"
    BY <2>1 DEF pc, Idle
  <2> QED
    BY <1>1, <1>2, <1>3, <1>5, <2>2, AdvanceFencing
<1> QED
  BY <1>4, <1>5 DEF PersistFence

LEMMA WriteFencing ==
  ASSUME Control, FencingOK, NEW h \in Handlers, Moves(h), Write(h)
  PROVE  FencingOK'
<1> DEFINE token == TokenOf(h)
           w == token.work
<1>1. pc(h) = "effect" /\ UNCHANGED <<generation, ledger>> /\ pc(h) \in Fencing
  BY DEF Write, ledgers, Fencing
<1>2. /\ token \in Token /\ w \in Works /\ token.epoch # None /\ generation.epoch = token.epoch
      /\ \A i \in DOMAIN trace : Fences(i, w, token.epoch) =>
           \/ ledger[w] = TornLedger
           \/ ledger[w].epoch = token.epoch /\ trace[i].token.fence <= ledger[w].fence
  BY <1>1, LedgerFacts
<1>3. ledger[w] = [epoch |-> token.epoch, fence |-> token.fence]
  BY <1>1 DEF FencingOK, FencerOK
<1>4. ledger[w] # TornLedger
  BY <1>2, <1>3 DEF TornLedger
<1>5. \A i \in DOMAIN trace : Fences(i, w, token.epoch) => trace[i].token.fence <= token.fence
  BY <1>2, <1>3, <1>4
<1>6. /\ Touched(h) \in Entry /\ Touched(h).kind = "write" /\ Touched(h).token = token
      /\ Job(h) \in Executions /\ handler[h] \in Busy
  BY <1>1, TouchedType
<1>7. UNCHANGED trace \/ trace' = Append(trace, Touched(h))
  BY DEF Write
<1>8. pc(h)' = "idle" \/ (pc(h)' = "effect" /\ Job(h)' = Job(h))
  <2>1. CASE Return(h, Job(h), FailedWrite)
    <3>1. handler'[h] = Idle
      BY <1>6, <2>1, ReturnFacts DEF Control
    <3> QED
      BY <3>1 DEF pc, Idle
  <2>2. CASE Become(h, [handler[h] EXCEPT !.done = @ + 1])
    BY <1>1, <1>6, <2>2 DEF Become, Control, RunnerTypeOK, pc, Job, Busy
  <2> QED
    BY <2>1, <2>2 DEF Write
<1>9. ledger'[w] = [epoch |-> token.epoch, fence |-> token.fence]
  BY <1>1, <1>3
<1>10. UNCHANGED trace \/ \E en \in Entry : en.token = token /\ en.kind # "epoch" /\ trace' = Append(trace, en)
  BY <1>6, <1>7
<1> QED
  BY <1>1, <1>2, <1>5, <1>8, <1>9, <1>10, AdvanceFencing

\* Every other step stays outside the fences, or leaves them.
LEMMA OutsideFencing ==
  ASSUME Control, FencingOK, NEW h \in Handlers, Moves(h),
         \/ \E e \in Executions : Load(h, e) \/ Unavailable(h, e)
         \/ \E b \in Barriers : Install(h, b)
         \/ Recover(h) \/ Reread(h) \/ Convert(h) \/ LockExecution(h) \/ Admit(h) \/ Record(h)
         \/ Plan(h) \/ LockGeneration(h) \/ LedgerError(h)
         \/ Deadline(h) \/ Finish(h) \/ Crash(h)
  PROVE  FencingOK'
<1>1. UNCHANGED <<generation, ledger, trace>>
  BY DEF Load, Unavailable, Install, Recover, Reread, Convert, LockExecution, Admit, Record, Plan,
         LockGeneration, LedgerError, Deadline, Finish, Crash, ledgers
<1>2. pc(h) \in Delivering => Job(h) \in Executions
  BY DEF Control, HandlerOK
<1>3. ASSUME NEW e \in Executions, NEW answer, Return(h, e, answer) PROVE FencingOK'
  <2>1. handler'[h] = Idle
    BY <1>3, ReturnFacts DEF Control
  <2>2. pc(h)' = "idle"
    BY <2>1 DEF pc, Idle
  <2> QED
    BY <1>1, <2>2, FencingFrame
<1>4. ASSUME NEW step \in Steps \ {"fence", "persist", "effect"}, Goto(h, step), pc(h) \in Steps
      PROVE  FencingOK'
  <2>1. pc(h)' = step
    BY <1>4, GotoFacts DEF Control, pc
  <2> QED
    BY <1>1, <1>4, <2>1, FencingFrame DEF Steps
<1>5. ASSUME NEW state, Become(h, state), state.pc \in {"idle", "recover", "lock", "generation"}
      PROVE  FencingOK'
  <2>1. pc(h)' = state.pc
    BY <1>5 DEF Become, Control, RunnerTypeOK, pc
  <2> QED
    BY <1>1, <1>5, <2>1, FencingFrame
<1>6. ASSUME NEW e \in Executions, Load(h, e) PROVE FencingOK'
  BY <1>3, <1>5, <1>6 DEF Load
<1>7. ASSUME NEW e \in Executions, Unavailable(h, e) PROVE FencingOK'
  BY <1>3, <1>7 DEF Unavailable
<1>8. ASSUME NEW b \in Barriers, Install(h, b) PROVE FencingOK'
  BY <1>5, <1>8 DEF Install
<1>9. CASE Recover(h)
  BY <1>2, <1>3, <1>4, <1>9 DEF Recover, Steps, Delivering
<1>10. CASE Reread(h)
  BY <1>2, <1>3, <1>4, <1>10 DEF Reread, Steps, Delivering
<1>11. CASE Convert(h)
  BY <1>2, <1>3, <1>11 DEF Convert, Delivering
<1>12. CASE LockExecution(h)
  BY <1>2, <1>3, <1>4, <1>12 DEF LockExecution, Steps, Delivering
<1>13. CASE Admit(h)
  BY <1>2, <1>3, <1>4, <1>13 DEF Admit, Steps, Delivering
<1>14. CASE Record(h)
  BY <1>2, <1>3, <1>4, <1>14 DEF Record, Steps, Delivering
<1>15. CASE Plan(h)
  BY <1>1, <1>4, <1>15, RefuseFencing DEF Plan, Steps, Owning
<1>16. CASE LockGeneration(h)
  BY <1>1, <1>4, <1>16, RefuseFencing DEF LockGeneration, Steps, Owning
<1>17. CASE LedgerError(h)
  BY <1>1, <1>17, RefuseFencing DEF LedgerError, Owning
<1>18. CASE Deadline(h)
  BY <1>2, <1>3, <1>18 DEF Deadline, Delivering
<1>19. CASE Finish(h)
  BY <1>2, <1>3, <1>19 DEF Finish, Delivering
<1>20. CASE Crash(h)
  BY <1>5, <1>20 DEF Crash, Idle
<1> QED
  BY <1>6, <1>7, <1>8, <1>9, <1>10, <1>11, <1>12, <1>13, <1>14, <1>15, <1>16, <1>17, <1>18, <1>19, <1>20

----------------------------------------------------------------------------
(* The theorems. *)

LEMMA InitInv == Init => RunnerInv
<1> SUFFICES ASSUME Init PROVE RunnerInv
  OBVIOUS
<1>1. \A h \in Handlers : pc(h) = "idle"
  BY DEF Init, pc, Idle
<1>2. RunnerTypeOK
  <2>1. NoGeneration \in GenerationFile /\ NoLedger \in LedgerFile
    BY DEF NoGeneration, GenerationFile, NoLedger, LedgerFile
  <2>2. trace \in Seq(Entry)
    BY DEF Init
  <2> QED
    BY <2>1, <2>2 DEF Init, RunnerTypeOK
<1>3. \A h \in Handlers : HandlerOK(h) /\ OwnerOK(h) /\ FencerOK(h)
  BY <1>1 DEF HandlerOK, OwnerOK, FencerOK, Owning, Fencing, Delivering
<1>4. \A i \in DOMAIN trace : FALSE
  BY DEF Init
<1>5. \A e \in Executions : Writes(e) = {} /\ journal[e] = Missing /\ e \notin reported
  BY <1>4 DEF Init, Writes
<1>6. Missing.state # "succeeded"
  BY DEF Missing, Outcome
<1>7. EffectsOnce /\ JournalTellsEffects /\ WritesTogether
  BY <1>4, <1>5, <1>6 DEF EffectsOnce, JournalTellsEffects, WritesTogether
<1>8. FencesInOrder /\ EpochsStayRetired
  BY <1>4 DEF FencesInOrder, EpochsStayRetired
<1>9. Orderly(generation)
  BY <1>4 DEF Init, Orderly, NoGeneration
<1> QED
  BY <1>2, <1>3, <1>7, <1>8, <1>9 DEF RunnerInv, Control, EffectsOK, FencingOK

\* One step of a handler, whatever it is.
LEMMA StepInv ==
  ASSUME RunnerInv, Next
  PROVE  RunnerInv' /\ OutcomesKept
<1>1. Control /\ EffectsOK /\ FencingOK
  BY DEF RunnerInv
<1> SUFFICES ASSUME NEW h \in Handlers,
                    \/ \E e \in Executions : Load(h, e) \/ Unavailable(h, e)
                    \/ \E b \in Barriers : Install(h, b)
                    \/ Step(h)
                    \/ Crash(h)
             PROVE  RunnerInv' /\ OutcomesKept
  BY DEF Next
<1>2. Moves(h) /\ Control'
  BY <1>1, LoadControl, UnavailableControl, InstallControl, RecoverControl, RereadControl,
     ConvertControl, LockExecutionControl, AdmitControl, RecordControl, PlanControl,
     LockGenerationControl, RotateControl, SyncControl, CheckFenceControl, PersistFenceControl,
     LedgerErrorControl, WriteControl, DeadlineControl, FinishControl, CrashControl DEF Step
<1>3. EffectsOK'
  BY <1>1, <1>2, AdmissionEffects, ConvertEffects, AdmitEffects, RecordEffects, FencingEffects,
     WriteEffects, DeadlineEffects, FinishEffects, CrashEffects DEF Step
<1>4. FencingOK'
  BY <1>1, <1>2, OutsideFencing, RotateFencing, SyncFencing, CheckFenceFencing,
     PersistFenceFencing, WriteFencing DEF Step
<1>5. OutcomesKept
  BY <1>1, <1>2, MovesKeepOutcomes
<1> QED
  BY <1>2, <1>3, <1>4, <1>5 DEF RunnerInv

LEMMA StutterInv ==
  ASSUME RunnerInv, UNCHANGED vars
  PROVE  RunnerInv'
<1>1. Control'
  BY DEF RunnerInv, Control, vars, RunnerTypeOK, HandlerOK, pc, Job
<1>2. EffectsOK'
  <2>1. \A h \in Handlers : OwnerOK(h)'
    BY DEF RunnerInv, EffectsOK, OwnerOK, vars, pc, Job, Writes, IsWrite
  <2>2. EffectsOnce' /\ WritesTogether'
    BY DEF RunnerInv, EffectsOK, vars, EffectsOnce, WritesTogether, Writes, IsWrite
  <2>3. JournalTellsEffects'
    <3>1. \A e, i : i \in Writes(e)' <=> i \in Writes(e)
      BY DEF vars, Writes, IsWrite
    <3>2. \A e : (Writes(e) = {} => Writes(e)' = {}) /\ (Done(e) => Done(e)')
      BY <3>1 DEF vars, Done
    <3> QED
      BY <3>2 DEF RunnerInv, EffectsOK, vars, JournalTellsEffects
  <2> QED
    BY <2>1, <2>2, <2>3 DEF EffectsOK
<1>3. FencingOK'
  <2>1. \A h \in Handlers : FencerOK(h)'
    BY DEF RunnerInv, FencingOK, FencerOK, vars, pc, Job, TokenOf, Installing, Orderly, Fences
  <2>2. FencesInOrder' /\ EpochsStayRetired'
    BY DEF RunnerInv, FencingOK, vars, FencesInOrder, EpochsStayRetired, IsWrite
  <2>3. generation' # TornGeneration => Orderly(generation)'
    BY DEF RunnerInv, FencingOK, vars, Orderly, Fences
  <2> QED
    BY <2>1, <2>2, <2>3 DEF FencingOK
<1> QED
  BY <1>1, <1>2, <1>3 DEF RunnerInv

\* The invariant is inductive: in every behaviour, the locks, the journal, the
\* ledgers and the trace of effects agree.
THEOREM RunnerInvariant == Spec => []RunnerInv
<1>1. RunnerInv /\ [Next]_vars => RunnerInv'
  BY StepInv, StutterInv
<1> QED
  BY <1>1, InitInv, PTL DEF Spec

\* Every file, lock and handler keeps its type.
THEOREM RunnerTypeCorrect == Spec => []RunnerTypeOK
<1>1. RunnerInv => RunnerTypeOK
  BY DEF RunnerInv, Control
<1> QED
  BY <1>1, RunnerInvariant, PTL

\* No planned write is made twice, however often and by however many handlers
\* its delivery is repeated, and wherever they die.
THEOREM WritesHappenOnce == Spec => []EffectsOnce
<1>1. RunnerInv => EffectsOnce
  BY DEF RunnerInv, EffectsOK
<1> QED
  BY <1>1, RunnerInvariant, PTL

\* Executions never interleave their writes, and no write follows one, or a
\* barrier, with a newer fence of its epoch on the same work.
THEOREM WritesFollowFences == Spec => []EffectsFollowFences
<1>1. RunnerInv => EffectsFollowFences
  BY DEF RunnerInv, EffectsOK, FencingOK, EffectsFollowFences, FencesInOrder, WritesTogether
<1> QED
  BY <1>1, RunnerInvariant, PTL

\* What the journal and the answers say of an execution's effects is true.
THEOREM JournalIsTrue == Spec => []JournalTellsEffects
<1>1. RunnerInv => JournalTellsEffects
  BY DEF RunnerInv, EffectsOK
<1> QED
  BY <1>1, RunnerInvariant, PTL

\* Only a barrier brings in an epoch, and an epoch that was left never returns.
THEOREM RetiredEpochsStay == Spec => []EpochsStayRetired
<1>1. RunnerInv => EpochsStayRetired
  BY DEF RunnerInv, FencingOK
<1> QED
  BY <1>1, RunnerInvariant, PTL

\* No step, of an owner, of a recovery or of a latecomer, changes an outcome
\* that was journaled.
THEOREM OutcomesStand == Spec => JournaledOutcomeStands
<1>1. RunnerInv /\ [Next]_vars => [OutcomesKept]_vars
  BY StepInv
<1> QED
  BY <1>1, RunnerInvariant, PTL DEF Spec, JournaledOutcomeStands

=============================================================================
