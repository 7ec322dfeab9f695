----------------------------- MODULE Completion -----------------------------
(***************************************************************************)
(* How work becomes complete and stops being so: executions run on the     *)
(* completions of the work they depend on, evidence of their results is    *)
(* reviewed in rounds, a completion receipt accepts it and is selected,    *)
(* deliveries are exported to other workstreams and adopted there, and the *)
(* activation of a new source decides what all of that is still worth.     *)
(*                                                                         *)
(* Every command is one transaction under the project's lock, so a command *)
(* is one step; what interleaves is the order of commands of several       *)
(* actors, and the activations among them.                                 *)
(***************************************************************************)
EXTENDS Naturals, Sequences, FiniteSets, Functions

CONSTANTS
  Works,          \* the works of the project
  Actors,         \* who issues commands
  Kind,           \* "human", "system" or "agent", by actor
  Person,         \* the person behind an actor, itself where none is bound
  Team,           \* the actors with a grant on a work
  Reviewers,      \* those who may decide on its reviews
  Proposals,      \* the sources that may be approved on top of a source
  Limit(_),       \* bounds on what is done under a contract
  MaxExports, MaxActivations,
  None

Policies == {"ordinary_confirm", "trusted_execution_and_review",
             "trusted_execution_and_author_self_review"}

\* How a dependency is accepted: by the selected completion of the same
\* workstream, by an adopted delivery that must stay the selected one, or by an
\* adopted delivery fixed for good.
Modes == {"selected", "current", "fixed"}

Contract == [policy: Policies, version: Nat, requires: UNION {[D -> Modes] : D \in SUBSET Works}]

\* What follows from a set along a set of edges. No path is longer than the
\* number of works.
Spread(seed, edges) ==
  LET reached[n \in 0 .. Cardinality(Works)] ==
        IF n = 0 THEN seed
        ELSE LET before == reached[n - 1]
             IN before \cup {e[2] : e \in {f \in edges : f[1] \in before}}
  IN reached[Cardinality(Works)]

\* Pairs of a work and one that requires it.
Edges(contracts) == {e \in Works \X Works : e[1] \in DOMAIN contracts[e[2]].requires}

\* A source gives every work its contract.
Sources == DOMAIN Proposals

ASSUME CompletionAssumption ==
  /\ IsFiniteSet(Works)
  /\ Kind \in [Actors -> {"human", "system", "agent"}]
  /\ Team \in [Works -> SUBSET Actors]
  /\ Reviewers \in [Works -> SUBSET Actors]
  /\ \A s \in Sources : /\ s \in [Works -> Contract]
                        /\ \A w \in Works : w \notin Spread({v \in Works : <<w, v>> \in Edges(s)}, Edges(s))
                        /\ Proposals[s] \subseteq Sources
                        /\ \A w \in Works : Limit(s[w]) \in
                             [executions: Nat, evidence: Nat, rounds: Nat, receipts: Nat, says: SUBSET STRING, prs: BOOLEAN]
  /\ {MaxExports, MaxActivations} \subseteq Nat

VARIABLES
  source,      \* the contracts of the active snapshot
  activations, \* how often a source was activated, the name of the snapshot
  executions,  \* every execution that was started
  blocked,     \* works whose recovery is blocked
  evidence,    \* every evidence recorded
  rounds,      \* every review round, in the order they were opened
  receipts,    \* every completion receipt
  selected,    \* the receipt a completed work has selected, 0 where it is not completed
  exports,     \* every export of a delivery
  adopted,     \* the export a consumer has adopted from a provider, or 0
  delivery     \* the contract of a work's active pull request, or None

vars == <<source, activations, executions, blocked, evidence, rounds, receipts,
          selected, exports, adopted, delivery>>

Init ==
  /\ source \in Sources
  /\ activations = 0
  /\ executions = <<>>
  /\ blocked = {}
  /\ evidence = {}
  /\ rounds = <<>>
  /\ receipts = <<>>
  /\ selected = [w \in Works |-> 0]
  /\ exports = <<>>
  /\ adopted = [w \in Works |-> [p \in Works |-> 0]]
  /\ delivery = [w \in Works |-> None]

-----------------------------------------------------------------------------
(* What a dependency is worth. *)

Fixed(c, p) == p \in DOMAIN c.requires /\ c.requires[p] = "fixed"

Crosses(c) == \E p \in DOMAIN c.requires : c.requires[p] # "selected"

\* The proof of a delivery still holds: the receipt was approved by another
\* person than the one who asked for the review, on a round opened for this very
\* evidence, and its execution is still known to have succeeded.
Proven(r) ==
  LET d == receipts[r] IN
  /\ d.evidence.execution # 0
  /\ executions[d.evidence.execution].state = "succeeded"
  /\ executions[d.evidence.execution].contract = d.contract
  /\ d.round # 0
  /\ rounds[d.round].state = "approved"
  /\ rounds[d.round].evidence = d.evidence
  /\ d.kind = "team_independent"

\* A delivery read as the current one is selected, and nothing about the work
\* is in doubt.
ProvenCurrent(r) ==
  /\ Proven(r)
  /\ receipts[r].contract = source[receipts[r].work]
  /\ selected[receipts[r].work] = r
  /\ receipts[r].work \notin blocked

\* An export may be used under these contracts.
Validated(contracts, x) ==
  LET e == exports[x] IN
  /\ e.status = "active"
  /\ contracts[e.consumer] = e.consumerContract
  /\ e.provider \in DOMAIN contracts[e.consumer].requires
  /\ contracts[e.consumer].requires[e.provider] = e.mode
  /\ IF e.mode = "fixed" THEN Proven(e.receipt)
     ELSE contracts[e.provider] = e.providerContract /\ ProvenCurrent(e.receipt)

\* The receipt a consumer may rely on across workstreams, 0 where there is none.
AdoptedReceipt(contracts, c, p, mode) ==
  LET x == adopted[c][p] IN
  IF x # 0 /\ Validated(contracts, x) /\ exports[x].mode = mode THEN exports[x].receipt ELSE 0

\* The receipt that satisfies a dependency of a work now, or 0.
Link(w, p) ==
  IF source[w].requires[p] # "selected" THEN AdoptedReceipt(source, w, p, source[w].requires[p])
  ELSE IF selected[p] # 0 /\ receipts[selected[p]].contract = source[p] THEN selected[p]
  ELSE 0

Links(w) == [p \in DOMAIN source[w].requires |-> Link(w, p)]

RequiredDependenciesCovered(w) == \A p \in DOMAIN source[w].requires : Link(w, p) # 0

-----------------------------------------------------------------------------
(* Executions. *)

Unsettled(w) ==
  {e \in DOMAIN executions : executions[e].work = w /\ executions[e].state \in {"running", "unknown"}}

\* execution.start: the inputs are the receipts that cover the dependencies now.
Start(a, w) ==
  /\ Cardinality({e \in DOMAIN executions : executions[e].work = w /\ executions[e].contract = source[w]})
       < Limit(source[w]).executions
  /\ a \in Team[w]
  /\ selected[w] = 0
  /\ Unsettled(w) = {}
  /\ w \notin blocked
  /\ RequiredDependenciesCovered(w)
  /\ executions' = Append(executions, [work |-> w, contract |-> source[w], by |-> a,
                                       inputs |-> Links(w), state |-> "running"])
  /\ UNCHANGED <<source, activations, blocked, evidence, rounds, receipts, selected, exports, adopted, delivery>>

\* execution.report: the executor's word settles what the contract of the run
\* lets it settle, and otherwise leaves the effects to be reconciled.
Report(e, outcome) ==
  LET w == executions[e].work IN
  /\ executions[e].state \in {"running", "unknown"}
  /\ outcome # "unknown" => /\ executions[e].state = "running"
                            /\ w \notin blocked
                            /\ executions[e].contract = source[w]
                            /\ Unsettled(w) = {e}
  /\ executions' = [executions EXCEPT ![e].state = outcome]
  /\ blocked' = IF outcome = "unknown" THEN blocked \cup {w} ELSE blocked
  /\ UNCHANGED <<source, activations, evidence, rounds, receipts, selected, exports, adopted, delivery>>

\* execution.reconcile and execution.attest: an operator or a trusted executor
\* states the outcome, and whether the executor has stopped. Facts that were
\* settled may be confirmed but not changed, except that an executor found
\* running again makes them unknown.
Reconcile(e, outcome, stopped, clear) ==
  LET w == executions[e].work
      next == IF stopped THEN outcome ELSE "unknown"
      remaining == Unsettled(w) \ {e}
  IN
  /\ executions[e].state \in {"succeeded", "failed"} => executions[e].state = outcome
  /\ clear => outcome # "unknown"
  /\ executions' = [executions EXCEPT ![e].state = next]
  /\ blocked' = IF next = "unknown" \/ remaining # {} THEN blocked \cup {w}
                ELSE IF clear THEN blocked \ {w}
                ELSE blocked
  /\ UNCHANGED <<source, activations, evidence, rounds, receipts, selected, exports, adopted, delivery>>

-----------------------------------------------------------------------------
(* Evidence, review rounds and pull requests. *)

\* evidence.submit: evidence is bound to the live contract; the execution it
\* names need not have ended, nor have run under that contract.
Submit(a, w, e, content) ==
  LET new == [work |-> w, contract |-> source[w], execution |-> e, by |-> a, content |-> content] IN
  /\ Cardinality({v \in evidence : v.work = w /\ v.contract = source[w]}) < Limit(source[w]).evidence
  /\ a \in Team[w]
  /\ e # 0 => executions[e].work = w
  /\ new \notin evidence
  /\ evidence' = evidence \cup {new}
  /\ UNCHANGED <<source, activations, executions, blocked, rounds, receipts, selected, exports, adopted, delivery>>

\* The digest a round is about. It covers what the evidence says, neither who
\* recorded it nor the execution it names.
Bundle(v) == [work |-> v.work, contract |-> v.contract, content |-> v.content]

Accepted(k) == \E r \in DOMAIN receipts : receipts[r].round = k

\* A mutant of Withdrawable: accepted rounds are withdrawn like the others.
MutWithdrawable(k) == rounds[k].state \in {"open", "approved"}

\* Rounds that can be withdrawn: undecided or approved, and never accepted.
Withdrawable(k) == rounds[k].state \in {"open", "approved"} /\ ~Accepted(k)

\* A mutant of Superseded: only undecided rounds are withdrawn.
MutSuperseded(k, v) ==
  rounds[k].state = "open" /\ rounds[k].evidence.work = v.work /\ Bundle(rounds[k].evidence) # Bundle(v)

\* Opening a round withdraws the rounds about anything else.
Superseded(k, v) ==
  Withdrawable(k) /\ rounds[k].evidence.work = v.work /\ Bundle(rounds[k].evidence) # Bundle(v)

Invalidated(gone) ==
  [k \in DOMAIN rounds |-> IF k \in gone THEN [rounds[k] EXCEPT !.state = "invalidated"] ELSE rounds[k]]

\* review.open, by anybody on the team and for evidence of any contract.
Open(a, v) ==
  /\ Cardinality({k \in DOMAIN rounds : rounds[k].evidence.work = v.work
                                        /\ rounds[k].evidence.contract = v.contract})
       < Limit(v.contract).rounds
  /\ a \in Team[v.work]
  /\ rounds' = Append(Invalidated({k \in DOMAIN rounds : Superseded(k, v)}),
                      [evidence |-> v, opener |-> a, state |-> "open", reviewer |-> None])
  /\ UNCHANGED <<source, activations, executions, blocked, evidence, receipts, selected, exports, adopted, delivery>>

SelfReviewPermitted(policy) == policy = "trusted_execution_and_author_self_review"

SamePerson(a, b) == Person[a] = Person[b]

\* review.accept, review.return and review.decide.
Decide(a, k, decision) ==
  LET c == source[rounds[k].evidence.work] IN
  /\ a \in Reviewers[rounds[k].evidence.work]
  /\ Kind[a] # "agent"
  /\ rounds[k].state = "open"
  /\ rounds[k].evidence.contract = c
  /\ SamePerson(a, rounds[k].opener) /\ decision = "approved" => SelfReviewPermitted(c.policy)
  /\ rounds' = [rounds EXCEPT ![k].state = decision, ![k].reviewer = a]
  /\ UNCHANGED <<source, activations, executions, blocked, evidence, receipts, selected, exports, adopted, delivery>>

\* delivery.register_pr replaces the active pull request of the work.
RegisterPr(w) ==
  /\ Limit(source[w]).prs
  /\ delivery[w] # source[w]
  /\ delivery' = [delivery EXCEPT ![w] = source[w]]
  /\ UNCHANGED <<source, activations, executions, blocked, evidence, rounds, receipts, selected, exports, adopted>>

\* delivery.observe_pr with another head than the registered one.
ObserveMismatch(w) ==
  /\ delivery[w] # None
  /\ delivery' = [delivery EXCEPT ![w] = None]
  /\ rounds' = Invalidated({k \in DOMAIN rounds : /\ Withdrawable(k)
                                                  /\ rounds[k].evidence.work = w
                                                  /\ rounds[k].evidence.contract = delivery[w]})
  /\ UNCHANGED <<source, activations, executions, blocked, evidence, receipts, selected, exports, adopted>>

-----------------------------------------------------------------------------
(* Completion. *)

\* The newest round about a bundle.
PinnedRound(v) ==
  LET about == {k \in DOMAIN rounds : Bundle(rounds[k].evidence) = Bundle(v)} IN
  CHOOSE k \in about : \A j \in about : j <= k

\* An ordinary confirmation needs a person and evidence that is more than an
\* agent's own report; no round is consulted.
Confirms(a, v) == Kind[a] = "human" /\ Kind[v.by] # "agent"

\* Evidence of a trusted executor about its own successful run under this
\* contract, approved in the newest round about it by another person, or by
\* the same one where the policy says so.
Reviewed(v, k) ==
  /\ Kind[v.by] = "system"
  /\ v.execution # 0
  /\ executions[v.execution].state = "succeeded"
  /\ executions[v.execution].contract = v.contract
  /\ executions[v.execution].by = v.by
  /\ k \in DOMAIN rounds
  /\ Bundle(rounds[k].evidence) = Bundle(v)
  /\ k = PinnedRound(v)
  /\ rounds[k].state = "approved"
  /\ SamePerson(rounds[k].reviewer, rounds[k].opener) => SelfReviewPermitted(v.contract.policy)

ReviewKind(k) ==
  IF SamePerson(rounds[k].reviewer, rounds[k].opener) THEN "personal_self_review" ELSE "team_independent"

\* Where a dependency crosses workstreams, the receipts the run was started on
\* are the ones the completion links to.
ExecutionInputsMatch(v) ==
  Crosses(v.contract) =>
    /\ v.execution # 0
    /\ executions[v.execution].contract = v.contract
    /\ executions[v.execution].inputs = Links(v.work)

\* work.complete. A work that is completed may be completed again.
Complete(a, v, k) ==
  LET w == v.work IN
  /\ Cardinality({r \in DOMAIN receipts : receipts[r].work = w /\ receipts[r].contract = v.contract})
       < Limit(v.contract).receipts
  /\ a \in Team[w]
  /\ v.contract = source[w]
  /\ \A e \in Unsettled(w) : executions[e].state # "unknown"
  /\ w \notin blocked
  /\ IF v.contract.policy = "ordinary_confirm" THEN k = 0 /\ Confirms(a, v) ELSE Reviewed(v, k)
  /\ RequiredDependenciesCovered(w)
  /\ ExecutionInputsMatch(v)
  /\ delivery[w] \in {None, v.contract}
  /\ receipts' = Append(receipts, [work |-> w, contract |-> v.contract, evidence |-> v, round |-> k,
                                   kind |-> IF k = 0 THEN "ordinary_confirm" ELSE ReviewKind(k),
                                   links |-> Links(w)])
  /\ selected' = [selected EXCEPT ![w] = Len(receipts')]
  /\ UNCHANGED <<source, activations, executions, blocked, evidence, rounds, exports, adopted, delivery>>

-----------------------------------------------------------------------------
(* Deliveries between workstreams. *)

\* artifact.publish of a receipt that proves the current delivery. The same
\* disclosure is not published twice while it is active.
Publish(r, c) ==
  LET p == receipts[r].work
      mode == source[c].requires[p]
      new == [provider |-> p, consumer |-> c, receipt |-> r, mode |-> mode,
              providerContract |-> source[p], consumerContract |-> source[c],
              snapshot |-> IF mode = "fixed" THEN activations ELSE 0, status |-> "active"]
  IN
  /\ Len(exports) < MaxExports
  /\ p \in DOMAIN source[c].requires
  /\ mode # "selected"
  /\ ProvenCurrent(r)
  /\ \A x \in DOMAIN exports : exports[x] # new
  /\ exports' = Append(exports, new)
  /\ UNCHANGED <<source, activations, executions, blocked, evidence, rounds, receipts, selected, adopted, delivery>>

\* artifact.revoke
Revoke(x) ==
  /\ exports[x].status = "active"
  /\ exports' = [exports EXCEPT ![x].status = "revoked"]
  /\ UNCHANGED <<source, activations, executions, blocked, evidence, rounds, receipts, selected, adopted, delivery>>

\* artifact.adopt, by the consumer.
Adopt(x) ==
  LET c == exports[x].consumer
      p == exports[x].provider
  IN
  /\ Validated(source, x)
  /\ adopted[c][p] # x
  /\ adopted' = [adopted EXCEPT ![c][p] = x]
  /\ UNCHANGED <<source, activations, executions, blocked, evidence, rounds, receipts, selected, exports, delivery>>

-----------------------------------------------------------------------------
(* Activation of a source. *)

\* The edges along which a change of the provider touches the consumer: all of
\* the old and the new graph, but those whose consumer relies on a fixed
\* delivery that is verified now.
Touching(next) ==
  {e \in Edges(source) \cup Edges(next) :
     Fixed(next[e[2]], e[1]) => AdoptedReceipt(source, e[2], e[1], "fixed") = 0}

\* A mutant of Affected: only the works whose own contract changes.
MutAffected(next) == {w \in Works : next[w] # source[w]}

Affected(next) == Spread({w \in Works : next[w] # source[w]}, Touching(next))

RequireSettled(works) == \A w \in works : w \notin blocked /\ Unsettled(w) = {}

\* Selected receipts that no longer stand by themselves: the contract has
\* changed, or a link is not what it was.
Stale(next) ==
  {r \in {selected[w] : w \in Works} \ {0} :
     LET d == receipts[r] IN
     \/ next[d.work] # d.contract
     \/ \E p \in DOMAIN d.links :
          IF Fixed(next[d.work], p) THEN AdoptedReceipt(next, d.work, p, "fixed") # d.links[p]
          ELSE selected[p] # d.links[p]}

\* Pairs of a receipt and a selected one that links to it, other than as a
\* fixed delivery.
Chained(next) ==
  {e \in (DOMAIN receipts) \X {selected[w] : w \in Works} :
     /\ e[2] # 0
     /\ \E p \in DOMAIN receipts[e[2]].links :
          receipts[e[2]].links[p] = e[1] /\ ~Fixed(next[receipts[e[2]].work], p)}

\* A mutant of Reopened: what hangs on a reopened completion is kept.
MutReopened(next) == Stale(next)

Reopened(next) == Spread(Stale(next), Chained(next))

\* The activation of an approved source: refused while the effects of any
\* affected work are unsettled; otherwise unaccepted rounds of affected works
\* are withdrawn and completions that no longer stand are reopened, in the same
\* transaction.
Activate(next) ==
  LET affected == Affected(next)
      reopened == Reopened(next)
  IN
  /\ activations < MaxActivations
  /\ RequireSettled(affected)
  /\ source' = next
  /\ activations' = activations + 1
  /\ rounds' = Invalidated({k \in DOMAIN rounds : Withdrawable(k) /\ rounds[k].evidence.work \in affected})
  /\ selected' = [w \in Works |-> IF selected[w] \in reopened THEN 0 ELSE selected[w]]
  /\ UNCHANGED <<executions, blocked, evidence, receipts, exports, adopted, delivery>>

-----------------------------------------------------------------------------
Outcomes == {"succeeded", "failed", "unknown"}

Next ==
  \/ \E a \in Actors, w \in Works : Start(a, w)
  \/ \E e \in DOMAIN executions, o \in Outcomes : Report(e, o)
  \/ \E e \in DOMAIN executions, o \in Outcomes, stopped, clear \in BOOLEAN :
       Reconcile(e, o, stopped, clear)
  \/ \E a \in Actors, w \in Works : \E e \in 0 .. Len(executions), c \in Limit(source[w]).says : Submit(a, w, e, c)
  \/ \E a \in Actors, v \in evidence : Open(a, v)
  \/ \E a \in Actors, k \in DOMAIN rounds, d \in {"approved", "rejected"} : Decide(a, k, d)
  \/ \E w \in Works : RegisterPr(w) \/ ObserveMismatch(w)
  \/ \E a \in Actors, v \in evidence, k \in 0 .. Len(rounds) : Complete(a, v, k)
  \/ \E r \in DOMAIN receipts, c \in Works : Publish(r, c)
  \/ \E x \in DOMAIN exports : Revoke(x) \/ Adopt(x)
  \/ \E next \in Proposals[source] : Activate(next)

Spec == Init /\ [][Next]_vars

-----------------------------------------------------------------------------
(* Properties *)

\* Inputs and links answer what the contract required.
Execution(c) == [work: Works, contract: {c}, by: Actors, inputs: [DOMAIN c.requires -> Nat],
                 state: {"running", "succeeded", "failed", "unknown"}]
Evidence == [work: Works, contract: Contract, execution: Nat, by: Actors, content: STRING]
Round == [evidence: Evidence, opener: Actors, state: {"open", "approved", "rejected", "invalidated"},
          reviewer: Actors \cup {None}]
Receipt(c) == [work: Works, contract: {c}, evidence: Evidence, round: Nat,
               kind: {"ordinary_confirm", "personal_self_review", "team_independent"},
               links: [DOMAIN c.requires -> Nat]]
Export == [provider: Works, consumer: Works, receipt: Nat, mode: Modes, providerContract: Contract,
           consumerContract: Contract, snapshot: Nat, status: {"active", "revoked"}]

\* The contracts are those of a source that was approved, every record has its
\* type and refers to records that exist.
CompletionTypeOK ==
  /\ source \in Sources
  /\ activations \in 0 .. MaxActivations
  /\ executions \in Seq(Range(executions))
  /\ blocked \subseteq Works
  /\ evidence \subseteq Evidence
  /\ rounds \in Seq(Round)
  /\ receipts \in Seq(Range(receipts))
  /\ selected \in [Works -> Nat]
  /\ exports \in Seq(Export)
  /\ adopted \in [Works -> [Works -> Nat]]
  /\ delivery \in [Works -> Contract \cup {None}]
  /\ \A e \in DOMAIN executions :
       /\ executions[e].contract \in Contract
       /\ executions[e] \in Execution(executions[e].contract)
       /\ \A p \in DOMAIN executions[e].inputs :
            executions[e].inputs[p] \in DOMAIN receipts /\ receipts[executions[e].inputs[p]].work = p
  /\ \A v \in evidence : v.execution \in 0 .. Len(executions)
  /\ \A k \in DOMAIN rounds :
       /\ rounds[k].evidence \in evidence
       /\ rounds[k].state \in {"approved", "rejected"} => rounds[k].reviewer \in Actors
  /\ \A r \in DOMAIN receipts :
       /\ receipts[r].contract \in Contract
       /\ receipts[r] \in Receipt(receipts[r].contract)
       /\ receipts[r].evidence \in evidence
       /\ receipts[r].round \in 0 .. Len(rounds)
       /\ \A p \in DOMAIN receipts[r].links :
            receipts[r].links[p] \in 1 .. r - 1 /\ receipts[receipts[r].links[p]].work = p
  /\ \A w \in Works : selected[w] # 0 => selected[w] \in DOMAIN receipts /\ receipts[selected[w]].work = w
  /\ \A x \in DOMAIN exports :
       exports[x].receipt \in DOMAIN receipts /\ receipts[exports[x].receipt].work = exports[x].provider
  /\ \A c, p \in Works : adopted[c][p] # 0 =>
       /\ adopted[c][p] \in DOMAIN exports
       /\ exports[adopted[c][p]].consumer = c /\ exports[adopted[c][p]].provider = p

\* A selected receipt stands: its contract is the live one, and every receipt it
\* links to is still the one its dependency would be satisfied by.
Stands(r) ==
  LET d == receipts[r] IN
  /\ d.contract = source[d.work]
  /\ \A p \in DOMAIN d.links :
       IF Fixed(source[d.work], p) THEN AdoptedReceipt(source, d.work, p, "fixed") = d.links[p]
       ELSE selected[p] = d.links[p]

\* What an activation leaves selected.
ReopenedExactly ==
  activations' # activations =>
    \A r \in DOMAIN receipts : selected[receipts[r].work] = r =>
      (selected'[receipts[r].work] = r <=> Stands(r)')

\* An activation reopens exactly the completions that do not stand afterwards,
\* however long the chain they hang on: nothing built on a reopened completion
\* stays complete, and nothing that stands is redone (activate_in_tx and
\* completion_invalidation.rs, which follows links and not the contract graph).
ReopensExactly == [][ReopenedExactly]_vars

\* The receipts links lead to, fixed deliveries apart.
Moving(c, links) == {links[p] : p \in {q \in DOMAIN links : ~Fixed(c, q)}}

\* The receipts an execution was started on, and theirs in turn as far as no
\* fixed delivery comes between.
Ancestry(e) ==
  Spread(Moving(executions[e].contract, executions[e].inputs),
         UNION {{r} \X Moving(receipts[r].contract, receipts[r].links) : r \in DOMAIN receipts})

\* While an execution runs, its contract and the contracts all its inputs were
\* completed under are the live ones, fixed deliveries apart: an activation that
\* would pull any of them from under it is refused (derive_inner and
\* require_settled of activation_impact.rs).
RunsOnCurrentInputs ==
  \A e \in DOMAIN executions : executions[e].state = "running" =>
    /\ executions[e].contract = source[executions[e].work]
    /\ \A r \in Ancestry(e) : receipts[r].contract = source[receipts[r].work]

\* What consumers rely on across workstreams, over a step.
FixedInputsKept ==
  \A c, p \in Works :
    LET r == AdoptedReceipt(source, c, p, "fixed")
        x == adopted[c][p]
    IN r # 0 =>
         \/ AdoptedReceipt(source, c, p, "fixed")' = r
         \/ adopted'[c][p] # x
         \/ exports'[x].status = "revoked"
         \/ source'[c] # source[c]
         \/ executions'[receipts[r].evidence.execution].state # "succeeded"

\* A fixed delivery that a consumer can rely on stays exactly that until somebody
\* adopts another or revokes it, the consumer's contract changes, or the
\* provider's execution is put in doubt: neither new versions and reviews of the
\* provider nor another pull request takes it away (AdoptedReceipt's callers, and
\* the exemption of accepted rounds in open, observe_pr and invalidate).
FixedInputsStand == [][FixedInputsKept]_vars

\* What the completions of a step accept.
VerdictNewest ==
  \A r \in DOMAIN receipts' \ DOMAIN receipts :
    LET k == receipts'[r].round IN
    k # 0 /\ ~Accepted(k) =>
      \A j \in DOMAIN rounds : rounds[j].evidence.work = receipts'[r].work => j <= k

\* The first completion that accepts a round accepts the newest round of the
\* work: a verdict that was overtaken by another bundle or another round about
\* the same one completes nothing (complete's pinned round, open's withdrawal of
\* other bundles).
VerdictsAreNewest == [][VerdictNewest]_vars

=============================================================================
