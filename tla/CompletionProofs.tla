-------------------------- MODULE CompletionProofs --------------------------
(* Proofs about completion, for every value of the constants: any number of *)
(* works in any graph of requirements, any number of versions, rounds and   *)
(* receipts.                                                                *)
EXTENDS Completion, SequenceTheorems, FiniteSetTheorems, WellFoundedInduction, TLAPS

----------------------------------------------------------------------------
(* Induction: every set of numbers has a least one. *)

LEMMA LeastNumber ==
  ASSUME NEW T \in SUBSET Nat, T # {}
  PROVE  \E n \in T : \A m \in T : ~ (m < n)
<1>1. PICK n \in T : \A m \in T : <<m, n>> \notin OpToRel(<, Nat)
  BY NatLessThanWellFounded, WFMin, Zenon
<1>2. \A m \in Nat, k \in Nat : m < k => <<m, k>> \in OpToRel(<, Nat)
  BY DEF OpToRel
<1> QED
  BY <1>1, <1>2, Zenon

\* A set of numbers up to k that holds 0 and the successor of each of its
\* members below k holds them all.
LEMMA Induction ==
  ASSUME NEW k \in Nat, NEW S, 0 \in S, \A n \in S : n \in 0 .. k - 1 => n + 1 \in S
  PROVE  0 .. k \subseteq S
<1>1. SUFFICES ASSUME (0 .. k) \ S # {}
               PROVE  FALSE
  OBVIOUS
<1> DEFINE T == (0 .. k) \ S
<1>2. PICK n \in T : \A m \in T : ~ (m < n)
  <2>1. T \in SUBSET Nat /\ T # {}
    BY <1>1
  <2> QED
    BY <2>1, LeastNumber, Zenon
<1>3. n # 0 /\ n - 1 \in 0 .. k - 1 /\ n - 1 < n /\ (n - 1) + 1 = n
  BY <1>2
<1>4. n - 1 \in S
  BY <1>2, <1>3
<1> QED
  BY <1>2, <1>3, <1>4

----------------------------------------------------------------------------
(* What follows from a set along edges. *)

Targets(before, edges) == {e[2] : e \in {f \in edges : f[1] \in before}}

\* f holds what is reached along up to n edges.
Reaches(seed, edges, n, f) ==
  f = [i \in 0 .. n |-> IF i = 0 THEN seed ELSE f[i - 1] \cup Targets(f[i - 1], edges)]

LEMMA ReachesExists ==
  ASSUME NEW seed, NEW edges, NEW k \in Nat
  PROVE  \E f : Reaches(seed, edges, k, f)
<1> DEFINE S == {n \in 0 .. k : \E f : Reaches(seed, edges, n, f)}
<1>1. 0 \in S
  <2>1. Reaches(seed, edges, 0, [i \in 0 .. 0 |-> seed])
    BY DEF Reaches
  <2> QED
    BY <2>1
<1>2. ASSUME NEW n \in S, n \in 0 .. k - 1
      PROVE  n + 1 \in S
  <2>1. PICK f : Reaches(seed, edges, n, f)
    BY <1>2
  <2> DEFINE last == f[n] \cup Targets(f[n], edges)
             g == [i \in 0 .. n + 1 |-> IF i = n + 1 THEN last ELSE f[i]]
  <2>2. n \in Nat /\ n + 1 # 0 /\ (n + 1) - 1 = n /\ n # n + 1 /\ n + 1 \in 0 .. k
    BY <1>2
  <2>3. g[n + 1] = last /\ \A i \in 0 .. n : g[i] = f[i]
    BY <2>2
  <2>4. ASSUME NEW i \in 0 .. n + 1
        PROVE  g[i] = IF i = 0 THEN seed ELSE g[i - 1] \cup Targets(g[i - 1], edges)
    <3>1. CASE i = n + 1
      <4>1. g[n] = f[n]
        BY <2>2, <2>3
      <4> QED
        BY <2>2, <2>3, <3>1, <4>1
    <3>2. CASE i # n + 1
      <4>1. i \in 0 .. n /\ (i # 0 => i - 1 \in 0 .. n)
        BY <2>2, <3>2
      <4>2. g[i] = f[i] /\ (i # 0 => g[i - 1] = f[i - 1])
        BY <2>3, <4>1
      <4> HIDE DEF g
      <4>3. f[i] = IF i = 0 THEN seed ELSE f[i - 1] \cup Targets(f[i - 1], edges)
        BY <2>1, <4>1 DEF Reaches
      <4> QED
        BY <4>2, <4>3
    <3> QED
      BY <3>1, <3>2
  <2>5. Reaches(seed, edges, n + 1, g)
    <3>1. g = [i \in 0 .. n + 1 |-> g[i]]
      OBVIOUS
    <3> HIDE DEF g
    <3> QED
      BY <2>4, <3>1 DEF Reaches
  <2> QED
    BY <2>2, <2>5
<1>3. k \in S
  <2> HIDE DEF S
  <2> QED
    BY <1>1, <1>2, Induction
<1> QED
  BY <1>3

LEMMA WorksCounted == Cardinality(Works) \in Nat
BY CompletionAssumption, FS_CardinalityType

\* What Spread computes, one edge at a time.
LEMMA SpreadSteps ==
  ASSUME NEW seed, NEW edges
  PROVE  \E f : /\ f[0] = seed
                /\ \A n \in 0 .. Cardinality(Works) - 1 : f[n + 1] = f[n] \cup Targets(f[n], edges)
                /\ Spread(seed, edges) = f[Cardinality(Works)]
<1> DEFINE k == Cardinality(Works)
           f == CHOOSE g : Reaches(seed, edges, k, g)
<1>1. Reaches(seed, edges, k, f)
  BY WorksCounted, ReachesExists
<1>2. Spread(seed, edges) = f[k]
  BY DEF Spread, Reaches, Targets
<1>3. k \in Nat
  BY WorksCounted
<1> HIDE DEF f, k
<1>4. f[0] = seed
  BY <1>1, <1>3 DEF Reaches
<1>5. ASSUME NEW n \in 0 .. k - 1
      PROVE  f[n + 1] = f[n] \cup Targets(f[n], edges)
  <2>1. n + 1 \in 0 .. k /\ n + 1 # 0 /\ (n + 1) - 1 = n
    BY <1>3
  <2> QED
    BY <1>1, <2>1 DEF Reaches
<1> QED
  BY <1>2, <1>4, <1>5 DEF k

\* What holds what a spread starts from and keeps what its edges lead to holds
\* all of it.
LEMMA SpreadWithin ==
  ASSUME NEW seed, NEW edges, NEW G, seed \subseteq G,
         \A e \in edges : e[1] \in G => e[2] \in G
  PROVE  Spread(seed, edges) \subseteq G
<1> DEFINE k == Cardinality(Works)
<1>1. PICK f : /\ f[0] = seed
               /\ \A n \in 0 .. k - 1 : f[n + 1] = f[n] \cup Targets(f[n], edges)
               /\ Spread(seed, edges) = f[k]
  BY SpreadSteps
<1> DEFINE S == {n \in 0 .. k : f[n] \subseteq G}
<1>2. k \in Nat
  BY WorksCounted
<1> HIDE DEF k
<1>3. 0 \in S
  BY <1>1, <1>2
<1>4. ASSUME NEW n \in S, n \in 0 .. k - 1
      PROVE  n + 1 \in S
  <2>1. Targets(f[n], edges) \subseteq G
    BY DEF Targets
  <2> QED
    BY <1>1, <1>2, <1>4, <2>1
<1>5. k \in S
  <2> HIDE DEF S
  <2> QED
    BY <1>2, <1>3, <1>4, Induction
<1> QED
  BY <1>1, <1>5

\* A spread holds what it starts from ...
LEMMA SpreadStarts ==
  ASSUME NEW seed, NEW edges
  PROVE  seed \subseteq Spread(seed, edges)
<1> DEFINE k == Cardinality(Works)
<1>1. PICK f : /\ f[0] = seed
               /\ \A n \in 0 .. k - 1 : f[n + 1] = f[n] \cup Targets(f[n], edges)
               /\ Spread(seed, edges) = f[k]
  BY SpreadSteps
<1> DEFINE S == {n \in 0 .. k : seed \subseteq f[n]}
<1>2. k \in Nat
  BY WorksCounted
<1> HIDE DEF k
<1>3. 0 \in S
  BY <1>1, <1>2
<1>4. ASSUME NEW n \in S, n \in 0 .. k - 1
      PROVE  n + 1 \in S
  BY <1>1, <1>2, <1>4
<1>5. k \in S
  <2> HIDE DEF S
  <2> QED
    BY <1>2, <1>3, <1>4, Induction
<1> QED
  BY <1>1, <1>5

\* ... and what its edges lead to, where there are no more ends of edges than
\* works.
LEMMA SpreadClosed ==
  ASSUME NEW seed, NEW edges, NEW N, IsFiniteSet(N), Cardinality(N) <= Cardinality(Works),
         seed \subseteq N, \A e \in edges : e[2] \in N
  PROVE  \A e \in edges : e[1] \in Spread(seed, edges) => e[2] \in Spread(seed, edges)
<1> DEFINE k == Cardinality(Works)
           Closed(T) == Targets(T, edges) \subseteq T
<1>1. PICK f : /\ f[0] = seed
               /\ \A n \in 0 .. k - 1 : f[n + 1] = f[n] \cup Targets(f[n], edges)
               /\ Spread(seed, edges) = f[k]
  BY SpreadSteps
<1> DEFINE S == {n \in 0 .. k : f[n] \subseteq N /\ (Closed(f[n]) \/ Cardinality(f[n]) >= n)}
<1>2. k \in Nat /\ Cardinality(N) \in Nat /\ Cardinality(N) <= k
  BY WorksCounted, FS_CardinalityType
<1> HIDE DEF k
<1>3. 0 \in S
  <2>1. Cardinality(f[0]) \in Nat
    BY <1>1, FS_Subset, FS_CardinalityType
  <2> QED
    BY <1>1, <1>2, <2>1
<1>4. ASSUME NEW n \in S, n \in 0 .. k - 1
      PROVE  n + 1 \in S
  <2>1. f[n + 1] = f[n] \cup Targets(f[n], edges) /\ n + 1 \in 0 .. k
    BY <1>1, <1>2, <1>4
  <2>2. Targets(f[n], edges) \subseteq N
    BY DEF Targets
  <2>3. f[n] \subseteq N /\ f[n + 1] \subseteq N
    BY <2>1, <2>2
  <2>4. CASE Closed(f[n])
    <3>1. f[n + 1] = f[n]
      BY <2>1, <2>4
    <3> QED
      BY <2>1, <2>3, <2>4, <3>1
  <2>5. CASE ~ Closed(f[n])
    <3>1. f[n] \subseteq f[n + 1] /\ f[n] # f[n + 1]
      BY <2>1, <2>5
    <3>2. IsFiniteSet(f[n]) /\ IsFiniteSet(f[n + 1])
      BY <2>3, FS_Subset
    <3>3. /\ Cardinality(f[n]) <= Cardinality(f[n + 1])
          /\ Cardinality(f[n]) # Cardinality(f[n + 1])
      BY <3>1, <3>2, FS_Subset
    <3>4. Cardinality(f[n]) \in Nat /\ Cardinality(f[n + 1]) \in Nat
      BY <3>2, FS_CardinalityType
    <3>5. Cardinality(f[n]) >= n /\ n \in Nat
      BY <1>2, <2>5
    <3>6. Cardinality(f[n + 1]) >= n + 1
      BY <3>3, <3>4, <3>5
    <3> QED
      BY <2>1, <2>3, <3>6
  <2> QED
    BY <2>4, <2>5
<1>5. k \in S
  <2> HIDE DEF S
  <2> QED
    BY <1>2, <1>3, <1>4, Induction
<1>6. Closed(f[k])
  <2>1. f[k] \subseteq N
    BY <1>5
  <2>2. SUFFICES ASSUME Cardinality(f[k]) >= k
                 PROVE  Closed(f[k])
    BY <1>5
  <2>3. Cardinality(f[k]) \in Nat /\ Cardinality(f[k]) = Cardinality(N)
    <3>1. IsFiniteSet(f[k]) /\ Cardinality(f[k]) <= Cardinality(N)
      BY <2>1, FS_Subset
    <3>2. Cardinality(f[k]) \in Nat
      BY <3>1, FS_CardinalityType
    <3> QED
      BY <1>2, <2>2, <3>1, <3>2
  <2>4. f[k] = N
    BY <2>1, <2>3, FS_Subset
  <2> QED
    BY <2>4 DEF Targets
<1> QED
  BY <1>1, <1>6 DEF Targets

----------------------------------------------------------------------------
(* The inductive invariant. *)

\* Of rounds about different bundles of a work only the newest is undecided or
\* approved, those that were accepted apart.
RoundsOrdered ==
  \A i, j \in DOMAIN rounds :
    /\ i < j
    /\ rounds[i].evidence.work = rounds[j].evidence.work
    /\ Bundle(rounds[i].evidence) # Bundle(rounds[j].evidence)
    /\ rounds[i].state \in {"open", "approved"}
    => Accepted(i)

\* Executions run under the live contracts.
RunsAreLive ==
  \A e \in DOMAIN executions : executions[e].state = "running" =>
    executions[e].contract = source[executions[e].work]

\* G is ground to stand on: it holds the selected receipts and the inputs of
\* running executions, its receipts were completed under live contracts, and
\* with a receipt it holds the receipts that one links to.
Ground(G) ==
  /\ \A w \in Works : selected[w] # 0 => selected[w] \in G
  /\ \A e \in DOMAIN executions : executions[e].state = "running" =>
       Moving(executions[e].contract, executions[e].inputs) \subseteq G
  /\ \A r \in G : /\ receipts[r].contract = source[receipts[r].work]
                  /\ Moving(receipts[r].contract, receipts[r].links) \subseteq G

Grounded == \E G \in SUBSET DOMAIN receipts : Ground(G)

CompletionInv ==
  /\ CompletionTypeOK
  /\ RoundsOrdered
  /\ RunsAreLive
  /\ Grounded
----------------------------------------------------------------------------
(* Tables that grow, and the parts of their types. *)

LEMMA IsSequence ==
  ASSUME NEW S, NEW n \in Nat, NEW t \in [1 .. n -> S]
  PROVE  t \in Seq(S) /\ Len(t) = n
<1>1. t \in Seq(S)
  BY SeqDef
<1> QED
  BY <1>1, LenProperties

LEMMA TableDomain ==
  ASSUME NEW S, NEW s \in Seq(S)
  PROVE  /\ Len(s) \in Nat /\ DOMAIN s = 1 .. Len(s)
         /\ \A i \in DOMAIN s : s[i] \in S
BY LenProperties, ElementOfSeq

\* A row is added behind the others.
LEMMA RowAdded ==
  ASSUME NEW S, NEW s \in Seq(S), NEW x
  PROVE  LET t == Append(s, x)
             n == Len(s) + 1
         IN  /\ Len(t) = n /\ DOMAIN t = 1 .. n /\ t[n] = x /\ t = [i \in 1 .. n |-> t[i]]
             /\ DOMAIN s = 1 .. Len(s) /\ Len(s) \in Nat
             /\ \A i \in DOMAIN s : i \in DOMAIN t /\ t[i] = s[i] /\ i # n
             /\ \A i \in DOMAIN t : i \in DOMAIN s \/ i = n
<1>1. s \in Seq(S \cup {x}) /\ x \in S \cup {x}
  <2>1. \A i \in 1 .. Len(s) : s[i] \in S
    BY ElementOfSeq
  <2>2. s \in [1 .. Len(s) -> S \cup {x}] /\ Len(s) \in Nat
    BY <2>1, LenProperties
  <2> QED
    BY <2>2, IsSequence
<1>2. /\ Append(s, x) \in Seq(S \cup {x})
      /\ Len(Append(s, x)) = Len(s) + 1
      /\ \A i \in 1 .. Len(s) : Append(s, x)[i] = s[i]
      /\ Append(s, x)[Len(s) + 1] = x
  BY <1>1, AppendProperties
<1>3. DOMAIN Append(s, x) = 1 .. Len(s) + 1 /\ Append(s, x) \in [1 .. Len(s) + 1 -> S \cup {x}]
  BY <1>2, LenProperties
<1>4. Len(s) \in Nat /\ DOMAIN s = 1 .. Len(s)
  BY LenProperties
<1>5. Append(s, x) = [i \in 1 .. Len(s) + 1 |-> Append(s, x)[i]]
  BY <1>3
<1> QED
  BY <1>2, <1>3, <1>4, <1>5

\* A function on numbers is a sequence of its values.
LEMMA OwnRange ==
  ASSUME NEW n \in Nat, NEW t, t = [i \in 1 .. n |-> t[i]]
  PROVE  t \in Seq(Range(t)) /\ Len(t) = n
<1>1. t \in [1 .. n -> Range(t)]
  BY DEF Range
<1> QED
  BY <1>1, IsSequence

RunsOK ==
  /\ executions \in Seq(Range(executions))
  /\ \A e \in DOMAIN executions :
       /\ executions[e].contract \in Contract
       /\ executions[e] \in Execution(executions[e].contract)
       /\ \A p \in DOMAIN executions[e].inputs :
            executions[e].inputs[p] \in DOMAIN receipts /\ receipts[executions[e].inputs[p]].work = p

EvidenceOK ==
  /\ evidence \subseteq Evidence
  /\ \A v \in evidence : v.execution \in 0 .. Len(executions)

RoundsOK ==
  /\ rounds \in Seq(Round)
  /\ \A k \in DOMAIN rounds :
       /\ rounds[k].evidence \in evidence
       /\ rounds[k].state \in {"approved", "rejected"} => rounds[k].reviewer \in Actors

ReceiptsOK ==
  /\ receipts \in Seq(Range(receipts))
  /\ \A r \in DOMAIN receipts :
       /\ receipts[r].contract \in Contract
       /\ receipts[r] \in Receipt(receipts[r].contract)
       /\ receipts[r].evidence \in evidence
       /\ receipts[r].round \in 0 .. Len(rounds)
       /\ \A p \in DOMAIN receipts[r].links :
            receipts[r].links[p] \in 1 .. r - 1 /\ receipts[receipts[r].links[p]].work = p

SelectedOK ==
  /\ selected \in [Works -> Nat]
  /\ \A w \in Works : selected[w] # 0 => selected[w] \in DOMAIN receipts /\ receipts[selected[w]].work = w

ExportsOK ==
  /\ exports \in Seq(Export)
  /\ \A x \in DOMAIN exports :
       exports[x].receipt \in DOMAIN receipts /\ receipts[exports[x].receipt].work = exports[x].provider

AdoptedOK ==
  /\ adopted \in [Works -> [Works -> Nat]]
  /\ \A c, p \in Works : adopted[c][p] # 0 =>
       /\ adopted[c][p] \in DOMAIN exports
       /\ exports[adopted[c][p]].consumer = c /\ exports[adopted[c][p]].provider = p

SnapshotOK ==
  /\ source \in Sources
  /\ activations \in 0 .. MaxActivations
  /\ blocked \subseteq Works
  /\ delivery \in [Works -> Contract \cup {None}]

LEMMA TypeParts ==
  CompletionTypeOK <=> /\ SnapshotOK /\ RunsOK /\ EvidenceOK /\ RoundsOK /\ ReceiptsOK
                       /\ SelectedOK /\ ExportsOK /\ AdoptedOK
BY Zenon DEF CompletionTypeOK, SnapshotOK, RunsOK, EvidenceOK, RoundsOK, ReceiptsOK, SelectedOK, ExportsOK, AdoptedOK

LEMMA TypePartsNext ==
  (SnapshotOK /\ RunsOK /\ EvidenceOK /\ RoundsOK /\ ReceiptsOK /\ SelectedOK /\ ExportsOK /\ AdoptedOK)'
    => CompletionTypeOK'
BY Zenon DEF CompletionTypeOK, SnapshotOK, RunsOK, EvidenceOK, RoundsOK, ReceiptsOK, SelectedOK, ExportsOK, AdoptedOK


\* The fields of rows.
LEMMA RunFields ==
  ASSUME RunsOK, NEW e \in DOMAIN executions
  PROVE  /\ executions[e].work \in Works /\ executions[e].contract \in Contract /\ executions[e].by \in Actors
         /\ executions[e].state \in {"running", "succeeded", "failed", "unknown"}
         /\ executions[e].inputs \in [DOMAIN executions[e].contract.requires -> Nat]
         /\ DOMAIN executions[e].inputs = DOMAIN executions[e].contract.requires
BY DEF RunsOK, Execution

LEMMA ReceiptFields ==
  ASSUME ReceiptsOK, NEW r \in DOMAIN receipts
  PROVE  /\ receipts[r].work \in Works /\ receipts[r].contract \in Contract /\ receipts[r].evidence \in Evidence
         /\ receipts[r].round \in Nat
         /\ receipts[r].links \in [DOMAIN receipts[r].contract.requires -> Nat]
         /\ DOMAIN receipts[r].links = DOMAIN receipts[r].contract.requires
         /\ r \in Nat /\ r # 0 /\ Len(receipts) \in Nat /\ DOMAIN receipts = 1 .. Len(receipts)
<1>1. Len(receipts) \in Nat /\ DOMAIN receipts = 1 .. Len(receipts)
  BY TableDomain DEF ReceiptsOK
<1>2. receipts[r] \in Receipt(receipts[r].contract) /\ receipts[r].contract \in Contract
  BY DEF ReceiptsOK
<1>3. receipts[r].work \in Works /\ receipts[r].evidence \in Evidence /\ receipts[r].round \in Nat
      /\ receipts[r].links \in [DOMAIN receipts[r].contract.requires -> Nat]
  BY <1>2 DEF Receipt
<1> QED
  BY <1>1, <1>2, <1>3

LEMMA EvidenceFields ==
  ASSUME NEW v \in Evidence
  PROVE  /\ v.work \in Works /\ v.contract \in Contract /\ v.execution \in Nat /\ v.by \in Actors
         /\ v.content \in STRING
BY DEF Evidence

LEMMA RoundFields ==
  ASSUME RoundsOK, NEW k \in DOMAIN rounds
  PROVE  /\ rounds[k] \in Round /\ rounds[k].evidence \in Evidence /\ rounds[k].opener \in Actors
         /\ rounds[k].state \in {"open", "approved", "rejected", "invalidated"}
         /\ rounds[k].reviewer \in Actors \cup {None}
         /\ k \in Nat /\ k # 0 /\ Len(rounds) \in Nat /\ DOMAIN rounds = 1 .. Len(rounds)
<1>1. rounds[k] \in Round /\ Len(rounds) \in Nat /\ DOMAIN rounds = 1 .. Len(rounds)
  BY TableDomain DEF RoundsOK
<1> QED
  BY <1>1 DEF Round

LEMMA ExportFields ==
  ASSUME ExportsOK, NEW x \in DOMAIN exports
  PROVE  /\ exports[x] \in Export /\ exports[x].provider \in Works /\ exports[x].consumer \in Works
         /\ exports[x].status \in {"active", "revoked"} /\ exports[x].mode \in Modes
<1>1. exports[x] \in Export
  BY TableDomain DEF ExportsOK
<1> QED
  BY <1>1 DEF Export

LEMMA ContractFields ==
  ASSUME NEW c \in Contract
  PROVE  /\ DOMAIN c.requires \subseteq Works
         /\ \A p \in DOMAIN c.requires : c.requires[p] \in Modes
BY DEF Contract

LEMMA SourceType ==
  ASSUME NEW s \in Sources
  PROVE  /\ s \in [Works -> Contract] /\ Proposals[s] \subseteq Sources
         /\ \A w \in Works : Limit(s[w]).says \subseteq STRING
<1>1. /\ s \in [Works -> Contract] /\ Proposals[s] \subseteq Sources
      /\ \A w \in Works : Limit(s[w]) \in
           [executions: Nat, evidence: Nat, rounds: Nat, receipts: Nat, says: SUBSET STRING, prs: BOOLEAN]
  BY CompletionAssumption
<1> QED
  BY <1>1

\* A receipt relied on across workstreams exists, and is one of the provider.
LEMMA AdoptedExists ==
  ASSUME ExportsOK, AdoptedOK, NEW contracts, NEW c \in Works, NEW p \in Works, NEW mode,
         AdoptedReceipt(contracts, c, p, mode) # 0
  PROVE  /\ adopted[c][p] \in DOMAIN exports
         /\ AdoptedReceipt(contracts, c, p, mode) = exports[adopted[c][p]].receipt
         /\ Validated(contracts, adopted[c][p]) /\ exports[adopted[c][p]].mode = mode
         /\ exports[adopted[c][p]].receipt \in DOMAIN receipts
         /\ receipts[exports[adopted[c][p]].receipt].work = p
<1>1. /\ adopted[c][p] # 0
      /\ Validated(contracts, adopted[c][p]) /\ exports[adopted[c][p]].mode = mode
      /\ AdoptedReceipt(contracts, c, p, mode) = exports[adopted[c][p]].receipt
  BY DEF AdoptedReceipt
<1>2. adopted[c][p] \in DOMAIN exports /\ exports[adopted[c][p]].provider = p
  BY <1>1 DEF AdoptedOK
<1> QED
  BY <1>1, <1>2 DEF ExportsOK

\* What satisfies a dependency is a receipt of it, or nothing.
LEMMA LinkType ==
  ASSUME CompletionTypeOK, NEW w \in Works, NEW p \in DOMAIN source[w].requires
  PROVE  /\ p \in Works /\ Link(w, p) \in Nat
         /\ Link(w, p) # 0 => Link(w, p) \in DOMAIN receipts /\ receipts[Link(w, p)].work = p
<1>1. SnapshotOK /\ ReceiptsOK /\ SelectedOK /\ ExportsOK /\ AdoptedOK
  BY TypeParts
<1>2. source[w] \in Contract /\ p \in Works
  BY <1>1, SourceType, ContractFields DEF SnapshotOK
<1>3. \A r \in DOMAIN receipts : r \in Nat
  BY <1>1, ReceiptFields
<1>4. CASE source[w].requires[p] # "selected"
  <2>1. Link(w, p) = AdoptedReceipt(source, w, p, source[w].requires[p])
    BY <1>4 DEF Link
  <2> QED
    BY <1>1, <1>2, <1>3, <2>1, AdoptedExists
<1>5. CASE source[w].requires[p] = "selected"
  <2>1. Link(w, p) = selected[p] \/ Link(w, p) = 0
    BY <1>5 DEF Link
  <2>2. selected[p] \in Nat /\ (selected[p] # 0 => selected[p] \in DOMAIN receipts /\ receipts[selected[p]].work = p)
    BY <1>1, <1>2 DEF SelectedOK
  <2> QED
    BY <1>2, <2>1, <2>2
<1> QED
  BY <1>4, <1>5

LEMMA LinksType ==
  ASSUME CompletionTypeOK, NEW w \in Works, RequiredDependenciesCovered(w)
  PROVE  /\ Links(w) \in [DOMAIN source[w].requires -> Nat]
         /\ DOMAIN Links(w) = DOMAIN source[w].requires
         /\ \A p \in DOMAIN Links(w) :
              /\ p \in Works /\ Links(w)[p] = Link(w, p)
              /\ Links(w)[p] \in DOMAIN receipts /\ receipts[Links(w)[p]].work = p
BY LinkType DEF Links, RequiredDependenciesCovered

----------------------------------------------------------------------------
(* The types, step by step. *)

\* The rows of executions may change their state.
LEMMA RunsStay ==
  ASSUME CompletionTypeOK, NEW f \in [DOMAIN executions -> {"running", "succeeded", "failed", "unknown"}],
         executions' = [e \in DOMAIN executions |-> [executions[e] EXCEPT !.state = f[e]]],
         UNCHANGED receipts
  PROVE  /\ RunsOK'
         /\ Len(executions') = Len(executions) /\ DOMAIN executions' = DOMAIN executions
         /\ \A e \in DOMAIN executions :
              /\ executions'[e].work = executions[e].work /\ executions'[e].contract = executions[e].contract
              /\ executions'[e].by = executions[e].by /\ executions'[e].inputs = executions[e].inputs
              /\ executions'[e].state = f[e]
<1>1. RunsOK
  BY TypeParts
<1>2. Len(executions) \in Nat /\ DOMAIN executions = 1 .. Len(executions)
  BY <1>1, TableDomain DEF RunsOK
<1>3. DOMAIN executions' = 1 .. Len(executions)
      /\ executions' = [e \in 1 .. Len(executions) |-> executions'[e]]
  BY <1>2
<1>4. executions' \in Seq(Range(executions)') /\ Len(executions') = Len(executions)
  <2> DEFINE t == executions'
  <2>1. t = [e \in 1 .. Len(executions) |-> t[e]]
    BY <1>3
  <2> HIDE DEF t
  <2>2. t \in Seq(Range(t)) /\ Len(t) = Len(executions)
    BY <1>2, <2>1, OwnRange
  <2> QED
    BY <2>2 DEF t, Range
<1>5. ASSUME NEW e \in DOMAIN executions
      PROVE  /\ executions'[e].work = executions[e].work /\ executions'[e].contract = executions[e].contract
             /\ executions'[e].by = executions[e].by /\ executions'[e].inputs = executions[e].inputs
             /\ executions'[e].state = f[e]
             /\ executions'[e] \in Execution(executions[e].contract)
  <2>1. executions'[e] = [executions[e] EXCEPT !.state = f[e]]
    OBVIOUS
  <2>2. executions[e] \in Execution(executions[e].contract)
    BY <1>1 DEF RunsOK
  <2> HIDE DEF CompletionTypeOK
  <2> QED
    BY <2>1, <2>2 DEF Execution
<1>6. RunsOK'
  BY <1>1, <1>2, <1>3, <1>4, <1>5 DEF RunsOK
<1> QED
  BY <1>2, <1>3, <1>4, <1>5, <1>6

LEMMA StartTypes ==
  ASSUME CompletionTypeOK, NEW a \in Actors, NEW w \in Works, Start(a, w)
  PROVE  CompletionTypeOK'
<1> DEFINE n == Len(executions) + 1
           new == [work |-> w, contract |-> source[w], by |-> a, inputs |-> Links(w), state |-> "running"]
<1>1. /\ SnapshotOK /\ RunsOK /\ EvidenceOK /\ RoundsOK /\ ReceiptsOK /\ SelectedOK /\ ExportsOK /\ AdoptedOK
      /\ executions' = Append(executions, new) /\ RequiredDependenciesCovered(w)
      /\ UNCHANGED <<source, activations, blocked, evidence, rounds, receipts, selected, exports, adopted, delivery>>
  BY TypeParts DEF Start
<1>2. /\ Len(executions') = n /\ DOMAIN executions' = 1 .. n /\ executions'[n] = new
      /\ executions' = [i \in 1 .. n |-> executions'[i]]
      /\ Len(executions) \in Nat /\ DOMAIN executions = 1 .. Len(executions)
      /\ \A i \in DOMAIN executions : i \in DOMAIN executions' /\ executions'[i] = executions[i] /\ i # n
      /\ \A i \in DOMAIN executions' : i \in DOMAIN executions \/ i = n
  BY <1>1, RowAdded DEF RunsOK
<1>3. source[w] \in Contract
  BY <1>1, SourceType DEF SnapshotOK
<1>4. new \in Execution(source[w])
  BY <1>1, <1>3, LinksType DEF Execution
<1>5. \A p \in DOMAIN Links(w) : Links(w)[p] \in DOMAIN receipts /\ receipts[Links(w)[p]].work = p
  BY <1>1, LinksType
<1>6. new.contract = source[w] /\ new.inputs = Links(w)
  OBVIOUS
<1> HIDE DEF new
<1>7. executions' \in Seq(Range(executions)')
  <2> DEFINE t == executions'
  <2>1. n \in Nat /\ t = [i \in 1 .. n |-> t[i]]
    BY <1>2
  <2> HIDE DEF t
  <2>2. t \in Seq(Range(t))
    BY <2>1, OwnRange
  <2> QED
    BY <2>2 DEF t, Range
<1>8. RunsOK'
  <2>1. ASSUME NEW e \in DOMAIN executions'
        PROVE  /\ executions'[e].contract \in Contract
               /\ executions'[e] \in Execution(executions'[e].contract)
               /\ \A p \in DOMAIN executions'[e].inputs :
                    executions'[e].inputs[p] \in DOMAIN receipts /\ receipts[executions'[e].inputs[p]].work = p
    <3>1. CASE e = n
      BY <1>2, <1>3, <1>4, <1>5, <1>6, <3>1
    <3>2. CASE e \in DOMAIN executions
      BY <1>1, <1>2, <3>2 DEF RunsOK
    <3> QED
      BY <1>2, <3>1, <3>2
  <2> QED
    BY <1>1, <1>7, <2>1 DEF RunsOK
<1>9. EvidenceOK'
  <2>1. \A v \in evidence : v.execution \in 0 .. Len(executions)
    BY <1>1 DEF EvidenceOK
  <2> QED
    BY <1>1, <1>2, <2>1 DEF EvidenceOK
<1>10. SnapshotOK' /\ RoundsOK' /\ ReceiptsOK' /\ SelectedOK' /\ ExportsOK' /\ AdoptedOK'
  BY <1>1 DEF SnapshotOK, RoundsOK, ReceiptsOK, SelectedOK, ExportsOK, AdoptedOK, Range
<1> QED
  BY <1>8, <1>9, <1>10, TypePartsNext

\* Nothing but executions and blocked works is written.
LEMMA OutcomeTypes ==
  ASSUME CompletionTypeOK, NEW f \in [DOMAIN executions -> {"running", "succeeded", "failed", "unknown"}],
         executions' = [e \in DOMAIN executions |-> [executions[e] EXCEPT !.state = f[e]]],
         blocked' \subseteq Works,
         UNCHANGED <<source, activations, evidence, rounds, receipts, selected, exports, adopted, delivery>>
  PROVE  CompletionTypeOK'
<1>1. SnapshotOK /\ RunsOK /\ EvidenceOK /\ RoundsOK /\ ReceiptsOK /\ SelectedOK /\ ExportsOK /\ AdoptedOK
  BY TypeParts
<1>2. RunsOK' /\ Len(executions') = Len(executions)
  BY RunsStay
<1>3. SnapshotOK' /\ EvidenceOK' /\ RoundsOK' /\ ReceiptsOK' /\ SelectedOK' /\ ExportsOK' /\ AdoptedOK'
  BY <1>1, <1>2 DEF SnapshotOK, EvidenceOK, RoundsOK, ReceiptsOK, SelectedOK, ExportsOK, AdoptedOK, Range
<1> QED
  BY <1>2, <1>3, TypePartsNext

\* The states executions are left in by a report or a reconciliation.
LEMMA OneOutcome ==
  ASSUME CompletionTypeOK, NEW e \in DOMAIN executions, NEW s \in {"running", "succeeded", "failed", "unknown"},
         executions' = [executions EXCEPT ![e].state = s]
  PROVE  \E f \in [DOMAIN executions -> {"running", "succeeded", "failed", "unknown"}] :
           /\ f = [i \in DOMAIN executions |-> IF i = e THEN s ELSE executions[i].state]
           /\ executions' = [i \in DOMAIN executions |-> [executions[i] EXCEPT !.state = f[i]]]
<1> DEFINE f == [i \in DOMAIN executions |-> IF i = e THEN s ELSE executions[i].state]
<1>1. RunsOK
  BY TypeParts
<1>2. f \in [DOMAIN executions -> {"running", "succeeded", "failed", "unknown"}]
  BY <1>1, RunFields
<1>3. ASSUME NEW i \in DOMAIN executions
      PROVE  executions'[i] = [executions[i] EXCEPT !.state = f[i]]
  <2>1. CASE i = e
    BY <2>1
  <2>2. CASE i # e
    <3>1. executions[i] \in Execution(executions[i].contract)
      BY <1>1 DEF RunsOK
    <3>2. executions'[i] = executions[i] /\ f[i] = executions[i].state
      BY <2>2
    <3>3. executions[i] = [executions[i] EXCEPT !.state = executions[i].state]
      BY <3>1 DEF Execution
    <3> QED
      BY <3>2, <3>3
  <2> QED
    BY <2>1, <2>2
<1>4. DOMAIN executions' = DOMAIN executions /\ executions' = [i \in DOMAIN executions |-> executions'[i]]
  <2>1. executions = [i \in DOMAIN executions |-> executions[i]]
    BY <1>1, TableDomain, LenProperties DEF RunsOK
  <2> QED
    BY <2>1
<1>5. executions' = [i \in DOMAIN executions |-> [executions[i] EXCEPT !.state = f[i]]]
  BY <1>3, <1>4, Zenon
<1> QED
  BY <1>2, <1>5

LEMMA ReportTypes ==
  ASSUME CompletionTypeOK, NEW e \in DOMAIN executions, NEW o \in Outcomes, Report(e, o)
  PROVE  CompletionTypeOK'
<1>1. executions' = [executions EXCEPT ![e].state = o] /\ o \in {"running", "succeeded", "failed", "unknown"}
  BY DEF Report, Outcomes
<1>2. PICK f \in [DOMAIN executions -> {"running", "succeeded", "failed", "unknown"}] :
        executions' = [i \in DOMAIN executions |-> [executions[i] EXCEPT !.state = f[i]]]
  BY <1>1, OneOutcome, Zenon
<1>3. executions[e].work \in Works /\ blocked \subseteq Works
  BY TypeParts, RunFields DEF SnapshotOK
<1>4. blocked' \subseteq Works
  BY <1>3 DEF Report
<1>5. UNCHANGED <<source, activations, evidence, rounds, receipts, selected, exports, adopted, delivery>>
  BY DEF Report
<1> QED
  BY <1>2, <1>4, <1>5, OutcomeTypes, Zenon

LEMMA ReconcileTypes ==
  ASSUME CompletionTypeOK, NEW e \in DOMAIN executions, NEW o \in Outcomes, NEW stopped \in BOOLEAN,
         NEW clear \in BOOLEAN, Reconcile(e, o, stopped, clear)
  PROVE  CompletionTypeOK'
<1> DEFINE next == IF stopped THEN o ELSE "unknown"
<1>1. executions' = [executions EXCEPT ![e].state = next] /\ next \in {"running", "succeeded", "failed", "unknown"}
  BY DEF Reconcile, Outcomes
<1>2. PICK f \in [DOMAIN executions -> {"running", "succeeded", "failed", "unknown"}] :
        executions' = [i \in DOMAIN executions |-> [executions[i] EXCEPT !.state = f[i]]]
  <2> HIDE DEF next
  <2> QED
    BY <1>1, OneOutcome, Zenon
<1>3. executions[e].work \in Works /\ blocked \subseteq Works
  BY TypeParts, RunFields DEF SnapshotOK
<1>4. blocked' \subseteq Works
  BY <1>3 DEF Reconcile
<1>5. UNCHANGED <<source, activations, evidence, rounds, receipts, selected, exports, adopted, delivery>>
  BY DEF Reconcile
<1> QED
  BY <1>2, <1>4, <1>5, OutcomeTypes, Zenon

LEMMA SubmitTypes ==
  ASSUME CompletionTypeOK, NEW a \in Actors, NEW w \in Works, NEW e \in 0 .. Len(executions),
         NEW c \in Limit(source[w]).says, Submit(a, w, e, c)
  PROVE  CompletionTypeOK'
<1> DEFINE new == [work |-> w, contract |-> source[w], execution |-> e, by |-> a, content |-> c]
<1>1. /\ SnapshotOK /\ RunsOK /\ EvidenceOK /\ RoundsOK /\ ReceiptsOK /\ SelectedOK /\ ExportsOK /\ AdoptedOK
      /\ evidence' = evidence \cup {new}
      /\ UNCHANGED <<source, activations, executions, blocked, rounds, receipts, selected, exports, adopted, delivery>>
  BY TypeParts DEF Submit
<1>2. source[w] \in Contract /\ c \in STRING
  BY <1>1, SourceType DEF SnapshotOK
<1>3. e \in Nat
  BY <1>1, TableDomain DEF RunsOK
<1>4. new \in Evidence /\ new.execution = e
  BY <1>2, <1>3 DEF Evidence
<1> HIDE DEF new
<1>5. EvidenceOK'
  BY <1>1, <1>4 DEF EvidenceOK
<1>6. RoundsOK' /\ ReceiptsOK'
  BY <1>1 DEF RoundsOK, ReceiptsOK, Range
<1>7. SnapshotOK' /\ RunsOK' /\ SelectedOK' /\ ExportsOK' /\ AdoptedOK'
  BY <1>1 DEF SnapshotOK, RunsOK, SelectedOK, ExportsOK, AdoptedOK, Range
<1> QED
  BY <1>5, <1>6, <1>7, TypePartsNext

\* Invalidation changes the state of rounds and nothing else of them.
LEMMA InvalidatedRows ==
  ASSUME RoundsOK, NEW gone
  PROVE  /\ Invalidated(gone) \in [1 .. Len(rounds) -> Round]
         /\ \A k \in DOMAIN rounds :
              /\ Invalidated(gone)[k].evidence = rounds[k].evidence
              /\ Invalidated(gone)[k].opener = rounds[k].opener
              /\ Invalidated(gone)[k].reviewer = rounds[k].reviewer
              /\ k \notin gone => Invalidated(gone)[k] = rounds[k]
              /\ k \in gone => Invalidated(gone)[k].state = "invalidated"
<1>1. DOMAIN rounds = 1 .. Len(rounds)
  BY TableDomain DEF RoundsOK
<1>2. ASSUME NEW k \in DOMAIN rounds
      PROVE  /\ Invalidated(gone)[k] \in Round
             /\ Invalidated(gone)[k].evidence = rounds[k].evidence
             /\ Invalidated(gone)[k].opener = rounds[k].opener
             /\ Invalidated(gone)[k].reviewer = rounds[k].reviewer
             /\ k \notin gone => Invalidated(gone)[k] = rounds[k]
             /\ k \in gone => Invalidated(gone)[k].state = "invalidated"
  <2>1. Invalidated(gone)[k] = IF k \in gone THEN [rounds[k] EXCEPT !.state = "invalidated"] ELSE rounds[k]
    BY DEF Invalidated
  <2>2. rounds[k] \in Round
    BY RoundFields
  <2> QED
    BY <2>1, <2>2 DEF Round
<1>3. Invalidated(gone) = [k \in DOMAIN rounds |-> Invalidated(gone)[k]]
  BY DEF Invalidated
<1>4. Invalidated(gone) \in [1 .. Len(rounds) -> Round]
  BY <1>1, <1>2, <1>3
<1> QED
  BY <1>2, <1>4

LEMMA RoundsStay ==
  ASSUME CompletionTypeOK, NEW t \in [1 .. Len(rounds) -> Round], rounds' = t,
         \A k \in DOMAIN rounds :
           /\ t[k].evidence = rounds[k].evidence
           /\ t[k].state \in {"approved", "rejected"} => t[k].reviewer \in Actors,
         UNCHANGED evidence
  PROVE  RoundsOK' /\ Len(rounds') = Len(rounds) /\ DOMAIN rounds' = DOMAIN rounds
<1>1. RoundsOK /\ Len(rounds) \in Nat /\ DOMAIN rounds = 1 .. Len(rounds)
  BY TypeParts, TableDomain DEF RoundsOK
<1>2. t \in Seq(Round) /\ Len(t) = Len(rounds)
  BY <1>1, IsSequence
<1> QED
  BY <1>1, <1>2 DEF RoundsOK

LEMMA ApprovedReviewed ==
  ASSUME CompletionTypeOK, NEW gone
  PROVE  \A k \in DOMAIN rounds :
           /\ Invalidated(gone)[k].evidence = rounds[k].evidence
           /\ Invalidated(gone)[k].state \in {"approved", "rejected"} => Invalidated(gone)[k].reviewer \in Actors
<1>1. RoundsOK
  BY TypeParts
<1> QED
  BY <1>1, InvalidatedRows DEF RoundsOK

LEMMA OpenTypes ==
  ASSUME CompletionTypeOK, NEW a \in Actors, NEW v \in evidence, Open(a, v)
  PROVE  /\ CompletionTypeOK' /\ Len(rounds') = Len(rounds) + 1
         /\ DOMAIN rounds = 1 .. Len(rounds) /\ DOMAIN rounds' = 1 .. Len(rounds) + 1 /\ Len(rounds) \in Nat
         /\ rounds'[Len(rounds) + 1] = [evidence |-> v, opener |-> a, state |-> "open", reviewer |-> None]
         /\ \A k \in DOMAIN rounds : rounds'[k] = Invalidated({j \in DOMAIN rounds : Superseded(j, v)})[k]
<1> DEFINE gone == {k \in DOMAIN rounds : Superseded(k, v)}
           s == Invalidated(gone)
           n == Len(rounds) + 1
           new == [evidence |-> v, opener |-> a, state |-> "open", reviewer |-> None]
<1>1. /\ SnapshotOK /\ RunsOK /\ EvidenceOK /\ RoundsOK /\ ReceiptsOK /\ SelectedOK /\ ExportsOK /\ AdoptedOK
      /\ rounds' = Append(s, new)
      /\ UNCHANGED <<source, activations, executions, blocked, evidence, receipts, selected, exports, adopted, delivery>>
  BY TypeParts DEF Open
<1>2. v \in Evidence
  BY <1>1 DEF EvidenceOK
<1>3. new \in Round /\ new.evidence = v /\ new.state = "open"
  BY <1>2 DEF Round
<1>4. Len(rounds) \in Nat /\ DOMAIN rounds = 1 .. Len(rounds)
  BY <1>1, TableDomain DEF RoundsOK
<1>5. s \in [1 .. Len(rounds) -> Round]
  BY <1>1, InvalidatedRows
<1>6. \A k \in DOMAIN rounds : /\ s[k].evidence = rounds[k].evidence
                               /\ s[k].state \in {"approved", "rejected"} => s[k].reviewer \in Actors
  BY ApprovedReviewed
<1> HIDE DEF new, s
<1>7. s \in Seq(Round) /\ Len(s) = Len(rounds)
  BY <1>4, <1>5, IsSequence
<1>8. /\ Append(s, new) \in Seq(Round)
      /\ Len(Append(s, new)) = n /\ DOMAIN Append(s, new) = 1 .. n /\ Append(s, new)[n] = new
      /\ \A i \in DOMAIN rounds : Append(s, new)[i] = s[i]
      /\ \A i \in 1 .. n : i \in DOMAIN rounds \/ i = n
  <2>1. Append(s, new) \in Seq(Round)
    BY <1>3, <1>7, AppendProperties
  <2>2. \A i \in DOMAIN s : Append(s, new)[i] = s[i]
    BY <1>7, RowAdded
  <2>3. DOMAIN s = DOMAIN rounds
    BY <1>4, <1>5
  <2>4. Len(Append(s, new)) = n /\ DOMAIN Append(s, new) = 1 .. n /\ Append(s, new)[n] = new
    BY <1>7, RowAdded
  <2>5. \A i \in 1 .. n : i \in DOMAIN rounds \/ i = n
    BY <1>4
  <2> QED
    BY <2>1, <2>2, <2>3, <2>4, <2>5
<1>9. RoundsOK'
  <2>1. ASSUME NEW k \in 1 .. n
        PROVE  /\ rounds'[k].evidence \in evidence
               /\ rounds'[k].state \in {"approved", "rejected"} => rounds'[k].reviewer \in Actors
    <3>1. CASE k = n
      BY <1>1, <1>3, <1>8, <3>1
    <3>2. CASE k \in DOMAIN rounds
      BY <1>1, <1>6, <1>8, <3>2 DEF RoundsOK
    <3> QED
      BY <1>8, <3>1, <3>2
  <2> QED
    BY <1>1, <1>8, <2>1 DEF RoundsOK
<1>10. ReceiptsOK'
  <2>1. ASSUME NEW r \in DOMAIN receipts
        PROVE  receipts[r].round \in 0 .. Len(rounds')
    <3>1. receipts[r].round \in 0 .. Len(rounds)
      BY <1>1 DEF ReceiptsOK
    <3> QED
      BY <1>1, <1>4, <1>8, <3>1
  <2> QED
    BY <1>1, <2>1 DEF ReceiptsOK, Range
<1>11. SnapshotOK' /\ RunsOK' /\ EvidenceOK' /\ SelectedOK' /\ ExportsOK' /\ AdoptedOK'
  BY <1>1 DEF SnapshotOK, RunsOK, EvidenceOK, SelectedOK, ExportsOK, AdoptedOK, Range
<1>12. CompletionTypeOK'
  BY <1>9, <1>10, <1>11, TypePartsNext
<1> QED
  BY <1>1, <1>4, <1>8, <1>12 DEF new, s

\* Steps that rewrite rounds but open none, and write neither rows of other
\* tables nor the contracts.
LEMMA RewrittenTypes ==
  ASSUME CompletionTypeOK, NEW t \in [1 .. Len(rounds) -> Round], rounds' = t,
         \A k \in DOMAIN rounds :
           /\ t[k].evidence = rounds[k].evidence
           /\ t[k].state \in {"approved", "rejected"} => t[k].reviewer \in Actors,
         SnapshotOK', SelectedOK',
         UNCHANGED <<executions, evidence, receipts, exports, adopted>>
  PROVE  CompletionTypeOK'
<1>1. SnapshotOK /\ RunsOK /\ EvidenceOK /\ RoundsOK /\ ReceiptsOK /\ SelectedOK /\ ExportsOK /\ AdoptedOK
  BY TypeParts
<1>2. RoundsOK' /\ Len(rounds') = Len(rounds)
  BY RoundsStay
<1>3. RunsOK' /\ EvidenceOK' /\ ReceiptsOK' /\ ExportsOK' /\ AdoptedOK'
  BY <1>1, <1>2 DEF RunsOK, EvidenceOK, ReceiptsOK, ExportsOK, AdoptedOK, Range
<1> QED
  BY <1>2, <1>3, TypePartsNext

\* A decision changes one undecided round.
LEMMA DecideRows ==
  ASSUME CompletionTypeOK, NEW a \in Actors, NEW k \in DOMAIN rounds, NEW d \in {"approved", "rejected"},
         Decide(a, k, d)
  PROVE  /\ rounds' \in [1 .. Len(rounds) -> Round]
         /\ rounds[k].state = "open" /\ rounds'[k].evidence = rounds[k].evidence
         /\ rounds'[k].state = d /\ rounds'[k].reviewer = a /\ rounds'[k].opener = rounds[k].opener
         /\ \A j \in DOMAIN rounds \ {k} : rounds'[j] = rounds[j]
<1> DEFINE mid == [rounds EXCEPT ![k].state = d]
<1>1. RoundsOK
  BY TypeParts
<1>2. rounds[k] \in Round /\ Len(rounds) \in Nat /\ DOMAIN rounds = 1 .. Len(rounds)
  BY <1>1, RoundFields
<1>3. rounds \in [1 .. Len(rounds) -> Round]
  BY <1>1, <1>2, TableDomain, LenProperties DEF RoundsOK
<1>4. rounds' = [mid EXCEPT ![k].reviewer = a] /\ rounds[k].state = "open"
  BY DEF Decide
<1>5. /\ mid \in [1 .. Len(rounds) -> Round] /\ mid[k].evidence = rounds[k].evidence
      /\ mid[k].state = d /\ mid[k].opener = rounds[k].opener
      /\ \A j \in DOMAIN rounds \ {k} : mid[j] = rounds[j]
  <2>1. [rounds[k] EXCEPT !.state = d] \in Round
    BY <1>2 DEF Round
  <2>2. mid[k] = [rounds[k] EXCEPT !.state = d]
    BY <1>2, <1>3
  <2>3. mid[k].evidence = rounds[k].evidence /\ mid[k].state = d /\ mid[k].opener = rounds[k].opener
    BY <1>2, <2>2 DEF Round
  <2>4. mid \in [1 .. Len(rounds) -> Round] /\ \A j \in DOMAIN rounds \ {k} : mid[j] = rounds[j]
    BY <1>2, <1>3, <2>1
  <2> QED
    BY <2>3, <2>4
<1> HIDE DEF mid
<1>6. [mid[k] EXCEPT !.reviewer = a] \in Round
  <2>1. mid[k] \in Round
    BY <1>2, <1>5
  <2> QED
    BY <2>1 DEF Round
<1>7. rounds'[k] = [mid[k] EXCEPT !.reviewer = a]
  BY <1>2, <1>4, <1>5
<1>8. /\ rounds'[k].evidence = mid[k].evidence /\ rounds'[k].state = mid[k].state
      /\ rounds'[k].opener = mid[k].opener /\ rounds'[k].reviewer = a
  <2>1. mid[k] \in Round
    BY <1>2, <1>5
  <2> QED
    BY <1>7, <2>1 DEF Round
<1>9. rounds' \in [1 .. Len(rounds) -> Round] /\ \A j \in DOMAIN rounds \ {k} : rounds'[j] = mid[j]
  BY <1>2, <1>4, <1>5, <1>6
<1> QED
  BY <1>4, <1>5, <1>8, <1>9

LEMMA DecideTypes ==
  ASSUME CompletionTypeOK, NEW a \in Actors, NEW k \in DOMAIN rounds, NEW d \in {"approved", "rejected"},
         Decide(a, k, d)
  PROVE  CompletionTypeOK'
<1>1. UNCHANGED <<source, activations, executions, blocked, evidence, receipts, selected, exports, adopted, delivery>>
  BY DEF Decide
<1>2. SnapshotOK /\ SelectedOK /\ RoundsOK
  BY TypeParts
<1>3. \A j \in DOMAIN rounds : /\ rounds'[j].evidence = rounds[j].evidence
                               /\ rounds'[j].state \in {"approved", "rejected"} => rounds'[j].reviewer \in Actors
  BY <1>2, DecideRows DEF RoundsOK
<1>4. rounds' \in [1 .. Len(rounds) -> Round]
  BY DecideRows
<1>5. SnapshotOK' /\ SelectedOK'
  BY <1>1, <1>2 DEF SnapshotOK, SelectedOK
<1> QED
  BY <1>1, <1>3, <1>4, <1>5, RewrittenTypes

LEMMA ObserveTypes ==
  ASSUME CompletionTypeOK, NEW w \in Works, ObserveMismatch(w)
  PROVE  CompletionTypeOK'
<1>1. /\ delivery' = [delivery EXCEPT ![w] = None]
      /\ UNCHANGED <<source, activations, executions, blocked, evidence, receipts, selected, exports, adopted>>
  BY DEF ObserveMismatch
<1>2. PICK gone : rounds' = Invalidated(gone)
  BY DEF ObserveMismatch
<1>3. SnapshotOK /\ SelectedOK /\ RoundsOK
  BY TypeParts
<1>4. SnapshotOK' /\ SelectedOK'
  BY <1>1, <1>3 DEF SnapshotOK, SelectedOK
<1> QED
  BY <1>1, <1>2, <1>3, <1>4, InvalidatedRows, ApprovedReviewed, RewrittenTypes

LEMMA RegisterTypes ==
  ASSUME CompletionTypeOK, NEW w \in Works, RegisterPr(w)
  PROVE  CompletionTypeOK'
<1>1. /\ delivery' = [delivery EXCEPT ![w] = source[w]]
      /\ UNCHANGED <<source, activations, executions, blocked, evidence, rounds, receipts, selected, exports, adopted>>
  BY DEF RegisterPr
<1>2. SnapshotOK /\ RunsOK /\ EvidenceOK /\ RoundsOK /\ ReceiptsOK /\ SelectedOK /\ ExportsOK /\ AdoptedOK
  BY TypeParts
<1>3. source[w] \in Contract
  BY <1>2, SourceType DEF SnapshotOK
<1>4. SnapshotOK'
  BY <1>1, <1>2, <1>3 DEF SnapshotOK
<1>5. RunsOK' /\ EvidenceOK' /\ RoundsOK' /\ ReceiptsOK' /\ SelectedOK' /\ ExportsOK' /\ AdoptedOK'
  BY <1>1, <1>2 DEF RunsOK, EvidenceOK, RoundsOK, ReceiptsOK, SelectedOK, ExportsOK, AdoptedOK, Range
<1> QED
  BY <1>4, <1>5, TypePartsNext

\* The receipt that a completion adds.
NewReceipt(v, k) ==
  [work |-> v.work, contract |-> v.contract, evidence |-> v, round |-> k,
   kind |-> IF k = 0 THEN "ordinary_confirm" ELSE ReviewKind(k), links |-> Links(v.work)]

LEMMA CompleteRows ==
  ASSUME CompletionTypeOK, NEW a \in Actors, NEW v \in evidence, NEW k \in 0 .. Len(rounds), Complete(a, v, k)
  PROVE  LET n == Len(receipts) + 1
         IN  /\ v.work \in Works /\ v.contract = source[v.work] /\ RequiredDependenciesCovered(v.work)
             /\ Len(receipts') = n /\ DOMAIN receipts' = 1 .. n /\ receipts' = [i \in 1 .. n |-> receipts'[i]]
             /\ DOMAIN receipts = 1 .. Len(receipts) /\ Len(receipts) \in Nat
             /\ receipts'[n] = NewReceipt(v, k)
             /\ receipts'[n].work = v.work /\ receipts'[n].contract = v.contract
             /\ receipts'[n].evidence = v /\ receipts'[n].round = k /\ receipts'[n].links = Links(v.work)
             /\ \A r \in DOMAIN receipts : r \in DOMAIN receipts' /\ receipts'[r] = receipts[r] /\ r # n
             /\ \A r \in DOMAIN receipts' : r \in DOMAIN receipts \/ r = n
             /\ selected' = [selected EXCEPT ![v.work] = n]
             /\ UNCHANGED <<source, activations, executions, blocked, evidence, rounds, exports, adopted, delivery>>
<1> DEFINE n == Len(receipts) + 1
           new == NewReceipt(v, k)
<1>1. /\ receipts' = Append(receipts, new) /\ selected' = [selected EXCEPT ![v.work] = Len(receipts')]
      /\ v.contract = source[v.work] /\ RequiredDependenciesCovered(v.work)
      /\ UNCHANGED <<source, activations, executions, blocked, evidence, rounds, exports, adopted, delivery>>
  BY DEF Complete, NewReceipt
<1>2. EvidenceOK /\ ReceiptsOK
  BY TypeParts
<1>3. v.work \in Works
  BY <1>2, EvidenceFields DEF EvidenceOK
<1>4. new.work = v.work /\ new.contract = v.contract /\ new.evidence = v /\ new.round = k /\ new.links = Links(v.work)
  BY DEF NewReceipt
<1> HIDE DEF new
<1>5. /\ Len(receipts') = n /\ DOMAIN receipts' = 1 .. n /\ receipts'[n] = new
      /\ receipts' = [i \in 1 .. n |-> receipts'[i]]
      /\ DOMAIN receipts = 1 .. Len(receipts) /\ Len(receipts) \in Nat
      /\ \A i \in DOMAIN receipts : i \in DOMAIN receipts' /\ receipts'[i] = receipts[i] /\ i # n
      /\ \A i \in DOMAIN receipts' : i \in DOMAIN receipts \/ i = n
  BY <1>1, <1>2, RowAdded DEF ReceiptsOK
<1> QED
  BY <1>1, <1>3, <1>4, <1>5 DEF new

LEMMA CompleteTypes ==
  ASSUME CompletionTypeOK, NEW a \in Actors, NEW v \in evidence, NEW k \in 0 .. Len(rounds), Complete(a, v, k)
  PROVE  CompletionTypeOK'
<1> DEFINE n == Len(receipts) + 1
           w == v.work
<1>1. SnapshotOK /\ RunsOK /\ EvidenceOK /\ RoundsOK /\ ReceiptsOK /\ SelectedOK /\ ExportsOK /\ AdoptedOK
  BY TypeParts
<1>2. /\ w \in Works /\ v.contract = source[w] /\ RequiredDependenciesCovered(w)
      /\ Len(receipts') = n /\ DOMAIN receipts' = 1 .. n /\ receipts' = [i \in 1 .. n |-> receipts'[i]]
      /\ DOMAIN receipts = 1 .. Len(receipts) /\ Len(receipts) \in Nat
      /\ receipts'[n] = NewReceipt(v, k) /\ receipts'[n].work = w /\ receipts'[n].contract = v.contract
      /\ receipts'[n].evidence = v /\ receipts'[n].round = k /\ receipts'[n].links = Links(w)
      /\ \A r \in DOMAIN receipts : r \in DOMAIN receipts' /\ receipts'[r] = receipts[r] /\ r # n
      /\ \A r \in DOMAIN receipts' : r \in DOMAIN receipts \/ r = n
      /\ selected' = [selected EXCEPT ![w] = n]
      /\ UNCHANGED <<source, activations, executions, blocked, evidence, rounds, exports, adopted, delivery>>
  BY CompleteRows
<1>3. v \in Evidence /\ v.contract \in Contract
  BY <1>1, EvidenceFields DEF EvidenceOK
<1>4. /\ Links(w) \in [DOMAIN v.contract.requires -> Nat]
      /\ \A p \in DOMAIN Links(w) : Links(w)[p] \in DOMAIN receipts /\ receipts[Links(w)[p]].work = p
  BY <1>2, LinksType
<1>5. NewReceipt(v, k) \in Receipt(v.contract)
  <2>1. k \in Nat
    BY <1>1, TableDomain DEF RoundsOK
  <2>2. (IF k = 0 THEN "ordinary_confirm" ELSE ReviewKind(k))
          \in {"ordinary_confirm", "personal_self_review", "team_independent"}
    BY DEF ReviewKind
  <2> QED
    BY <1>2, <1>3, <1>4, <2>1, <2>2 DEF NewReceipt, Receipt
<1>6. receipts' \in Seq(Range(receipts)')
  <2> DEFINE t == receipts'
  <2>1. n \in Nat /\ t = [i \in 1 .. n |-> t[i]]
    BY <1>2
  <2> HIDE DEF t
  <2>2. t \in Seq(Range(t))
    BY <2>1, OwnRange
  <2> QED
    BY <2>2 DEF t, Range
<1>7. ReceiptsOK'
  <2>1. ASSUME NEW r \in DOMAIN receipts'
        PROVE  /\ receipts'[r].contract \in Contract
               /\ receipts'[r] \in Receipt(receipts'[r].contract)
               /\ receipts'[r].evidence \in evidence
               /\ receipts'[r].round \in 0 .. Len(rounds)
               /\ \A p \in DOMAIN receipts'[r].links :
                    receipts'[r].links[p] \in 1 .. r - 1 /\ receipts'[receipts'[r].links[p]].work = p
    <3>1. CASE r = n
      <4>1. \A p \in DOMAIN Links(w) : Links(w)[p] \in 1 .. n - 1 /\ receipts'[Links(w)[p]].work = p
        BY <1>2, <1>4
      <4> QED
        BY <1>2, <1>3, <1>5, <3>1, <4>1
    <3>2. CASE r \in DOMAIN receipts
      <4>1. /\ receipts[r].contract \in Contract
            /\ receipts[r] \in Receipt(receipts[r].contract)
            /\ receipts[r].evidence \in evidence
            /\ receipts[r].round \in 0 .. Len(rounds)
            /\ \A p \in DOMAIN receipts[r].links :
                 receipts[r].links[p] \in 1 .. r - 1 /\ receipts[receipts[r].links[p]].work = p
        BY <1>1, <3>2 DEF ReceiptsOK
      <4>2. \A q \in 1 .. r - 1 : receipts'[q] = receipts[q]
        BY <1>2, <3>2
      <4> QED
        BY <1>2, <3>2, <4>1, <4>2
    <3> QED
      BY <1>2, <3>1, <3>2
  <2> QED
    BY <1>2, <1>6, <2>1 DEF ReceiptsOK
<1>8. SelectedOK'
  <2>1. selected \in [Works -> Nat] /\ selected' \in [Works -> Nat]
    BY <1>1, <1>2 DEF SelectedOK
  <2>2. ASSUME NEW x \in Works, selected'[x] # 0
        PROVE  selected'[x] \in DOMAIN receipts' /\ receipts'[selected'[x]].work = x
    <3>1. CASE x = w
      BY <1>2, <2>1, <3>1
    <3>2. CASE x # w
      <4>1. selected'[x] = selected[x]
        BY <1>2, <2>1, <3>2
      <4>2. selected[x] \in DOMAIN receipts /\ receipts[selected[x]].work = x
        BY <1>1, <2>2, <4>1 DEF SelectedOK
      <4> QED
        BY <1>2, <4>1, <4>2
    <3> QED
      BY <3>1, <3>2
  <2> QED
    BY <2>1, <2>2 DEF SelectedOK
<1>9. RunsOK'
  BY <1>1, <1>2 DEF RunsOK, Range
<1>10. ExportsOK'
  BY <1>1, <1>2 DEF ExportsOK
<1>11. SnapshotOK' /\ EvidenceOK' /\ RoundsOK' /\ AdoptedOK'
  BY <1>1, <1>2 DEF SnapshotOK, EvidenceOK, RoundsOK, AdoptedOK
<1> QED
  BY <1>7, <1>8, <1>9, <1>10, <1>11, TypePartsNext

LEMMA PublishTypes ==
  ASSUME CompletionTypeOK, NEW r \in DOMAIN receipts, NEW c \in Works, Publish(r, c)
  PROVE  /\ CompletionTypeOK'
         /\ \A x \in DOMAIN exports : x \in DOMAIN exports' /\ exports'[x] = exports[x]
<1> DEFINE p == receipts[r].work
           mode == source[c].requires[p]
           new == [provider |-> p, consumer |-> c, receipt |-> r, mode |-> mode,
                   providerContract |-> source[p], consumerContract |-> source[c],
                   snapshot |-> IF mode = "fixed" THEN activations ELSE 0, status |-> "active"]
           n == Len(exports) + 1
<1>1. SnapshotOK /\ RunsOK /\ EvidenceOK /\ RoundsOK /\ ReceiptsOK /\ SelectedOK /\ ExportsOK /\ AdoptedOK
  BY TypeParts
<1>2. /\ p \in DOMAIN source[c].requires /\ exports' = Append(exports, new)
      /\ UNCHANGED <<source, activations, executions, blocked, evidence, rounds, receipts, selected, adopted, delivery>>
  BY DEF Publish
<1>3. p \in Works /\ r \in Nat
  BY <1>1, ReceiptFields
<1>4. source[p] \in Contract /\ source[c] \in Contract /\ mode \in Modes
  BY <1>1, <1>2, <1>3, SourceType, ContractFields DEF SnapshotOK
<1>5. activations \in Nat
  BY <1>1, CompletionAssumption DEF SnapshotOK
<1>6. new \in Export /\ new.receipt = r /\ new.provider = p
  BY <1>3, <1>4, <1>5 DEF Export
<1> HIDE DEF new
<1>7. /\ Len(exports') = n /\ DOMAIN exports' = 1 .. n /\ exports'[n] = new
      /\ \A x \in DOMAIN exports : x \in DOMAIN exports' /\ exports'[x] = exports[x]
      /\ \A x \in DOMAIN exports' : x \in DOMAIN exports \/ x = n
  BY <1>1, <1>2, RowAdded DEF ExportsOK
<1>8. exports' \in Seq(Export)
  BY <1>1, <1>2, <1>6, AppendProperties DEF ExportsOK
<1>9. ExportsOK'
  BY <1>1, <1>2, <1>6, <1>7, <1>8 DEF ExportsOK
<1>10. AdoptedOK'
  <2>1. adopted' = adopted /\ adopted \in [Works -> [Works -> Nat]]
    BY <1>1, <1>2 DEF AdoptedOK
  <2>2. ASSUME NEW d \in Works, NEW q \in Works, adopted[d][q] # 0
        PROVE  /\ adopted[d][q] \in DOMAIN exports'
               /\ exports'[adopted[d][q]].consumer = d /\ exports'[adopted[d][q]].provider = q
    <3>1. /\ adopted[d][q] \in DOMAIN exports
          /\ exports[adopted[d][q]].consumer = d /\ exports[adopted[d][q]].provider = q
      BY <1>1, <2>2 DEF AdoptedOK
    <3> QED
      BY <1>7, <3>1
  <2> QED
    BY <2>1, <2>2 DEF AdoptedOK
<1>11. SnapshotOK' /\ RunsOK' /\ EvidenceOK' /\ RoundsOK' /\ ReceiptsOK' /\ SelectedOK'
  BY <1>1, <1>2 DEF SnapshotOK, RunsOK, EvidenceOK, RoundsOK, ReceiptsOK, SelectedOK, Range
<1> QED
  BY <1>7, <1>9, <1>10, <1>11, TypePartsNext

LEMMA RevokeTypes ==
  ASSUME CompletionTypeOK, NEW x \in DOMAIN exports, Revoke(x)
  PROVE  /\ CompletionTypeOK' /\ DOMAIN exports' = DOMAIN exports /\ exports'[x].status = "revoked"
         /\ \A y \in DOMAIN exports : y # x => exports'[y] = exports[y]
<1>1. SnapshotOK /\ RunsOK /\ EvidenceOK /\ RoundsOK /\ ReceiptsOK /\ SelectedOK /\ ExportsOK /\ AdoptedOK
  BY TypeParts
<1>2. /\ exports' = [exports EXCEPT ![x].status = "revoked"]
      /\ UNCHANGED <<source, activations, executions, blocked, evidence, rounds, receipts, selected, adopted, delivery>>
  BY DEF Revoke
<1>3. Len(exports) \in Nat /\ DOMAIN exports = 1 .. Len(exports) /\ exports \in [1 .. Len(exports) -> Export]
  BY <1>1, LenProperties DEF ExportsOK
<1>4. exports'[x] = [exports[x] EXCEPT !.status = "revoked"]
  BY <1>2, <1>3
<1>5. /\ exports'[x] \in Export /\ exports'[x].status = "revoked" /\ exports'[x].receipt = exports[x].receipt
      /\ exports'[x].provider = exports[x].provider /\ exports'[x].consumer = exports[x].consumer
  <2>1. exports[x] \in Export
    BY <1>3
  <2> QED
    BY <1>4, <2>1 DEF Export
<1>6. exports' \in [1 .. Len(exports) -> Export] /\ \A y \in DOMAIN exports : y # x => exports'[y] = exports[y]
  BY <1>2, <1>3, <1>4, <1>5
<1>7. exports' \in Seq(Export) /\ DOMAIN exports' = DOMAIN exports
  BY <1>3, <1>6, IsSequence
<1>8. ExportsOK'
  BY <1>1, <1>2, <1>5, <1>6, <1>7 DEF ExportsOK
<1>9. AdoptedOK'
  <2>1. \A y \in DOMAIN exports : /\ exports'[y].consumer = exports[y].consumer
                                  /\ exports'[y].provider = exports[y].provider
    BY <1>5, <1>6
  <2>2. adopted' = adopted /\ adopted \in [Works -> [Works -> Nat]]
    BY <1>1, <1>2 DEF AdoptedOK
  <2>3. ASSUME NEW c \in Works, NEW p \in Works, adopted[c][p] # 0
        PROVE  /\ adopted[c][p] \in DOMAIN exports'
               /\ exports'[adopted[c][p]].consumer = c /\ exports'[adopted[c][p]].provider = p
    <3>1. /\ adopted[c][p] \in DOMAIN exports
          /\ exports[adopted[c][p]].consumer = c /\ exports[adopted[c][p]].provider = p
      BY <1>1, <2>3 DEF AdoptedOK
    <3> QED
      BY <1>7, <2>1, <3>1
  <2> QED
    BY <2>2, <2>3 DEF AdoptedOK
<1>10. SnapshotOK' /\ RunsOK' /\ EvidenceOK' /\ RoundsOK' /\ ReceiptsOK' /\ SelectedOK'
  BY <1>1, <1>2 DEF SnapshotOK, RunsOK, EvidenceOK, RoundsOK, ReceiptsOK, SelectedOK, Range
<1> QED
  BY <1>5, <1>6, <1>7, <1>8, <1>9, <1>10, TypePartsNext

LEMMA AdoptTypes ==
  ASSUME CompletionTypeOK, NEW x \in DOMAIN exports, Adopt(x)
  PROVE  CompletionTypeOK'
<1> DEFINE c == exports[x].consumer
           p == exports[x].provider
<1>1. SnapshotOK /\ RunsOK /\ EvidenceOK /\ RoundsOK /\ ReceiptsOK /\ SelectedOK /\ ExportsOK /\ AdoptedOK
  BY TypeParts
<1>2. /\ adopted' = [adopted EXCEPT ![c][p] = x]
      /\ UNCHANGED <<source, activations, executions, blocked, evidence, rounds, receipts, selected, exports, delivery>>
  BY DEF Adopt
<1>3. c \in Works /\ p \in Works /\ x \in Nat /\ adopted \in [Works -> [Works -> Nat]]
  <2>1. x \in Nat
    BY <1>1, TableDomain DEF ExportsOK
  <2> QED
    BY <1>1, <2>1, ExportFields DEF AdoptedOK
<1> DEFINE row == [adopted[c] EXCEPT ![p] = x]
<1>4. row \in [Works -> Nat] /\ row[p] = x /\ \A q \in Works \ {p} : row[q] = adopted[c][q]
  BY <1>3
<1>5. adopted' = [adopted EXCEPT ![c] = row]
  BY <1>2
<1> HIDE DEF row
<1>6. /\ adopted' \in [Works -> [Works -> Nat]] /\ adopted'[c] = row
      /\ \A d \in Works \ {c} : adopted'[d] = adopted[d]
  <2> HIDE DEF c, p
  <2> QED
    BY <1>3, <1>4, <1>5
<1>7. AdoptedOK'
  <2>1. ASSUME NEW d \in Works, NEW q \in Works, adopted'[d][q] # 0
        PROVE  /\ adopted'[d][q] \in DOMAIN exports
               /\ exports[adopted'[d][q]].consumer = d /\ exports[adopted'[d][q]].provider = q
    <3>1. CASE d = c /\ q = p
      BY <1>4, <1>6, <3>1
    <3>2. CASE ~ (d = c /\ q = p)
      <4>1. adopted'[d][q] = adopted[d][q]
        BY <1>4, <1>6, <3>2
      <4> QED
        BY <1>1, <2>1, <4>1 DEF AdoptedOK
    <3> QED
      BY <3>1, <3>2
  <2> QED
    BY <1>2, <1>6, <2>1 DEF AdoptedOK
<1>8. SnapshotOK' /\ RunsOK' /\ EvidenceOK' /\ RoundsOK' /\ ReceiptsOK' /\ SelectedOK' /\ ExportsOK'
  BY <1>1, <1>2 DEF SnapshotOK, RunsOK, EvidenceOK, RoundsOK, ReceiptsOK, SelectedOK, ExportsOK, Range
<1> QED
  BY <1>7, <1>8, TypePartsNext

\* What an activation writes.
LEMMA ActivateRows ==
  ASSUME CompletionTypeOK, NEW next \in Proposals[source], Activate(next)
  PROVE  /\ next \in Sources /\ source' = next /\ activations' = activations + 1
         /\ RequireSettled(Affected(next))
         /\ rounds' = Invalidated({k \in DOMAIN rounds : Withdrawable(k) /\ rounds[k].evidence.work \in Affected(next)})
         /\ selected' \in [Works -> Nat]
         /\ \A w \in Works : selected'[w] = IF selected[w] \in Reopened(next) THEN 0 ELSE selected[w]
         /\ UNCHANGED <<executions, blocked, evidence, receipts, exports, adopted, delivery>>
<1>1. SnapshotOK /\ SelectedOK
  BY TypeParts
<1>2. next \in Sources
  BY <1>1, SourceType DEF SnapshotOK
<1>3. selected' = [w \in Works |-> IF selected[w] \in Reopened(next) THEN 0 ELSE selected[w]]
  BY DEF Activate
<1>4. selected' \in [Works -> Nat]
      /\ \A w \in Works : selected'[w] = IF selected[w] \in Reopened(next) THEN 0 ELSE selected[w]
  BY <1>1, <1>3 DEF SelectedOK
<1> QED
  BY <1>2, <1>4 DEF Activate

LEMMA ActivateTypes ==
  ASSUME CompletionTypeOK, NEW next \in Proposals[source], Activate(next)
  PROVE  CompletionTypeOK'
<1>1. SnapshotOK /\ SelectedOK /\ RoundsOK
  BY TypeParts
<1>2. PICK gone : rounds' = Invalidated(gone)
  BY ActivateRows
<1>3. SnapshotOK'
  <2>1. activations < MaxActivations
    BY DEF Activate
  <2>2. MaxActivations \in Nat
    BY CompletionAssumption
  <2>3. activations' = activations + 1
    BY ActivateRows
  <2>4. activations' \in 0 .. MaxActivations
    BY <1>1, <2>1, <2>2, <2>3 DEF SnapshotOK
  <2> QED
    BY <1>1, <2>4, ActivateRows DEF SnapshotOK
<1>4. SelectedOK'
  BY <1>1, ActivateRows DEF SelectedOK
<1>5. UNCHANGED <<executions, evidence, receipts, exports, adopted>>
  BY ActivateRows
<1> QED
  BY <1>1, <1>2, <1>3, <1>4, <1>5, InvalidatedRows, ApprovedReviewed, RewrittenTypes

LEMMA StutterTypes ==
  ASSUME CompletionTypeOK, UNCHANGED vars
  PROVE  CompletionTypeOK'
<1>1. SnapshotOK /\ RunsOK /\ EvidenceOK /\ RoundsOK /\ ReceiptsOK /\ SelectedOK /\ ExportsOK /\ AdoptedOK
  BY TypeParts
<1>2. (SnapshotOK /\ RunsOK /\ EvidenceOK /\ RoundsOK /\ ReceiptsOK /\ SelectedOK /\ ExportsOK /\ AdoptedOK)'
  BY <1>1 DEF vars, SnapshotOK, RunsOK, EvidenceOK, RoundsOK, ReceiptsOK, SelectedOK, ExportsOK, AdoptedOK, Range
<1> QED
  BY <1>2, TypePartsNext

LEMMA InitTypes ==
  ASSUME Init
  PROVE  CompletionTypeOK
<1>1. <<>> \in Seq(Range(<<>>)) /\ <<>> \in Seq(Round) /\ <<>> \in Seq(Export) /\ DOMAIN <<>> = {}
  OBVIOUS
<1>2. SnapshotOK
  <2>1. 0 \in 0 .. MaxActivations
    BY CompletionAssumption
  <2> QED
    BY <2>1 DEF Init, SnapshotOK
<1>3. RunsOK /\ ReceiptsOK /\ RoundsOK /\ ExportsOK
  BY <1>1 DEF Init, RunsOK, ReceiptsOK, RoundsOK, ExportsOK
<1>4. EvidenceOK /\ SelectedOK /\ AdoptedOK
  BY DEF Init, EvidenceOK, SelectedOK, AdoptedOK
<1> QED
  BY <1>2, <1>3, <1>4, TypeParts

LEMMA TypeStep ==
  ASSUME CompletionTypeOK, [Next]_vars
  PROVE  CompletionTypeOK'
<1>1. CASE UNCHANGED vars
  BY <1>1, StutterTypes
<1>2. CASE \E a \in Actors, w \in Works : Start(a, w)
  BY <1>2, StartTypes
<1>3. CASE \E e \in DOMAIN executions, o \in Outcomes : Report(e, o)
  BY <1>3, ReportTypes
<1>4. CASE \E e \in DOMAIN executions, o \in Outcomes, stopped, clear \in BOOLEAN : Reconcile(e, o, stopped, clear)
  BY <1>4, ReconcileTypes
<1>5. CASE \E a \in Actors, w \in Works : \E e \in 0 .. Len(executions), c \in Limit(source[w]).says : Submit(a, w, e, c)
  BY <1>5, SubmitTypes
<1>6. CASE \E a \in Actors, v \in evidence : Open(a, v)
  BY <1>6, OpenTypes
<1>7. CASE \E a \in Actors, k \in DOMAIN rounds, d \in {"approved", "rejected"} : Decide(a, k, d)
  BY <1>7, DecideTypes
<1>8. CASE \E w \in Works : RegisterPr(w) \/ ObserveMismatch(w)
  BY <1>8, RegisterTypes, ObserveTypes
<1>9. CASE \E a \in Actors, v \in evidence, k \in 0 .. Len(rounds) : Complete(a, v, k)
  BY <1>9, CompleteTypes
<1>10. CASE \E r \in DOMAIN receipts, c \in Works : Publish(r, c)
  BY <1>10, PublishTypes
<1>11. CASE \E x \in DOMAIN exports : Revoke(x) \/ Adopt(x)
  BY <1>11, RevokeTypes, AdoptTypes
<1>12. CASE \E next \in Proposals[source] : Activate(next)
  BY <1>12, ActivateTypes
<1> QED
  BY <1>1, <1>2, <1>3, <1>4, <1>5, <1>6, <1>7, <1>8, <1>9, <1>10, <1>11, <1>12 DEF Next

----------------------------------------------------------------------------
(* What every step keeps of the records. *)

\* t keeps of a round what it is about, raises no withdrawn one, and leaves one
\* that was accepted as it is.
KeepsRound(t, k) ==
  /\ t[k].evidence = rounds[k].evidence
  /\ t[k].state \in {"open", "approved"} => rounds[k].state \in {"open", "approved"}
  /\ rounds[k].state = "approved" /\ Accepted(k) => t[k] = rounds[k]

RoundsKept ==
  /\ DOMAIN rounds \subseteq DOMAIN rounds'
  /\ \A k \in DOMAIN rounds : KeepsRound(rounds', k)

ReceiptsKept == \A r \in DOMAIN receipts : r \in DOMAIN receipts' /\ receipts'[r] = receipts[r]

ExportsKept ==
  \A x \in DOMAIN exports : /\ x \in DOMAIN exports'
                            /\ exports'[x] = exports[x] \/ exports'[x].status = "revoked"

RunsKept ==
  \A e \in DOMAIN executions :
    /\ e \in DOMAIN executions'
    /\ executions'[e].work = executions[e].work /\ executions'[e].contract = executions[e].contract
    /\ executions'[e].by = executions[e].by /\ executions'[e].inputs = executions[e].inputs

\* Rounds that were accepted are not withdrawn.
LEMMA WithdrawnKeep ==
  ASSUME RoundsOK, NEW gone, \A k \in gone : ~ Accepted(k)
  PROVE  \A k \in DOMAIN rounds : KeepsRound(Invalidated(gone), k)
<1>1. ASSUME NEW k \in DOMAIN rounds
      PROVE  KeepsRound(Invalidated(gone), k)
  <2>1. /\ Invalidated(gone)[k].evidence = rounds[k].evidence
        /\ k \notin gone => Invalidated(gone)[k] = rounds[k]
        /\ k \in gone => Invalidated(gone)[k].state = "invalidated"
    BY InvalidatedRows
  <2> QED
    BY <2>1 DEF KeepsRound
<1> QED
  BY <1>1

LEMMA RoundsStep ==
  ASSUME CompletionTypeOK, [Next]_vars
  PROVE  RoundsKept
<1> DEFINE Withdrawn(gone) == rounds' = Invalidated(gone) /\ \A k \in gone : ~ Accepted(k)
<1>1. RoundsOK /\ DOMAIN rounds = 1 .. Len(rounds)
  BY TypeParts, TableDomain DEF RoundsOK
<1>2. CASE UNCHANGED rounds
  BY <1>2 DEF RoundsKept, KeepsRound
<1>3. ASSUME NEW gone, Withdrawn(gone)
      PROVE  RoundsKept
  <2>1. DOMAIN rounds' = DOMAIN rounds
    BY <1>3 DEF Invalidated
  <2>2. \A k \in DOMAIN rounds : KeepsRound(rounds', k)
    BY <1>1, <1>3, WithdrawnKeep
  <2> QED
    BY <2>1, <2>2 DEF RoundsKept
<1>4. ASSUME NEW a \in Actors, NEW v \in evidence, Open(a, v)
      PROVE  RoundsKept
  <2> DEFINE gone == {j \in DOMAIN rounds : Superseded(j, v)}
  <2>1. \A k \in gone : ~ Accepted(k)
    BY DEF Superseded, Withdrawable
  <2>2. \A k \in DOMAIN rounds : k \in DOMAIN rounds' /\ rounds'[k] = Invalidated(gone)[k]
    <3>1. \A k \in DOMAIN rounds : rounds'[k] = Invalidated(gone)[k]
      BY <1>4, OpenTypes
    <3>2. DOMAIN rounds' = 1 .. Len(rounds) + 1 /\ Len(rounds) \in Nat
      BY <1>4, OpenTypes
    <3> QED
      BY <1>1, <3>1, <3>2
  <2>3. \A k \in DOMAIN rounds : KeepsRound(Invalidated(gone), k)
    BY <1>1, <2>1, WithdrawnKeep
  <2> HIDE DEF gone
  <2> QED
    BY <2>2, <2>3 DEF RoundsKept, KeepsRound
<1>5. ASSUME NEW a \in Actors, NEW k \in DOMAIN rounds, NEW d \in {"approved", "rejected"}, Decide(a, k, d)
      PROVE  RoundsKept
  <2>1. /\ rounds' \in [1 .. Len(rounds) -> Round]
        /\ rounds[k].state = "open" /\ rounds'[k].evidence = rounds[k].evidence
        /\ \A j \in DOMAIN rounds \ {k} : rounds'[j] = rounds[j]
    BY <1>5, DecideRows
  <2>2. \A j \in DOMAIN rounds : KeepsRound(rounds', j)
    BY <2>1 DEF KeepsRound
  <2> QED
    BY <1>1, <2>1, <2>2 DEF RoundsKept
<1>6. ASSUME NEW w \in Works, ObserveMismatch(w)
      PROVE  RoundsKept
  <2> DEFINE gone == {k \in DOMAIN rounds : /\ Withdrawable(k) /\ rounds[k].evidence.work = w
                                            /\ rounds[k].evidence.contract = delivery[w]}
  <2>1. Withdrawn(gone)
    BY <1>6 DEF ObserveMismatch, Withdrawable
  <2> QED
    BY <1>3, <2>1
<1>7. ASSUME NEW next \in Proposals[source], Activate(next)
      PROVE  RoundsKept
  <2> DEFINE gone == {k \in DOMAIN rounds : Withdrawable(k) /\ rounds[k].evidence.work \in Affected(next)}
  <2>1. Withdrawn(gone)
    BY <1>7, ActivateRows DEF Withdrawable
  <2> QED
    BY <1>3, <2>1
<1>8. CASE \E a \in Actors, w \in Works : Start(a, w)
  BY <1>2, <1>8 DEF Start
<1>9. CASE \E e \in DOMAIN executions, o \in Outcomes : Report(e, o)
  BY <1>2, <1>9 DEF Report
<1>10. CASE \E e \in DOMAIN executions, o \in Outcomes, stopped, clear \in BOOLEAN : Reconcile(e, o, stopped, clear)
  BY <1>2, <1>10 DEF Reconcile
<1>11. CASE \E a \in Actors, w \in Works : \E e \in 0 .. Len(executions), c \in Limit(source[w]).says : Submit(a, w, e, c)
  BY <1>2, <1>11 DEF Submit
<1>12. CASE \E w \in Works : RegisterPr(w)
  BY <1>2, <1>12 DEF RegisterPr
<1>13. CASE \E a \in Actors, v \in evidence, k \in 0 .. Len(rounds) : Complete(a, v, k)
  BY <1>2, <1>13 DEF Complete
<1>14. CASE \E r \in DOMAIN receipts, c \in Works : Publish(r, c)
  BY <1>2, <1>14 DEF Publish
<1>15. CASE \E x \in DOMAIN exports : Revoke(x) \/ Adopt(x)
  BY <1>2, <1>15 DEF Revoke, Adopt
<1>16. CASE UNCHANGED vars
  BY <1>2, <1>16 DEF vars
<1> QED
  BY <1>4, <1>5, <1>6, <1>7, <1>8, <1>9, <1>10, <1>11, <1>12, <1>13, <1>14, <1>15, <1>16 DEF Next

LEMMA ReceiptsStep ==
  ASSUME CompletionTypeOK, [Next]_vars
  PROVE  ReceiptsKept
<1>1. CASE UNCHANGED receipts
  BY <1>1 DEF ReceiptsKept
<1>2. CASE \E a \in Actors, v \in evidence, k \in 0 .. Len(rounds) : Complete(a, v, k)
  BY <1>2, CompleteRows DEF ReceiptsKept
<1>3. [Next]_vars => \/ UNCHANGED receipts
                     \/ \E a \in Actors, v \in evidence, k \in 0 .. Len(rounds) : Complete(a, v, k)
  BY DEF Next, vars, Start, Report, Reconcile, Submit, Open, Decide, RegisterPr, ObserveMismatch, Publish, Revoke,
         Adopt, Activate
<1> QED
  BY <1>1, <1>2, <1>3

LEMMA ExportsStep ==
  ASSUME CompletionTypeOK, [Next]_vars
  PROVE  ExportsKept
<1>1. CASE UNCHANGED exports
  BY <1>1 DEF ExportsKept
<1>2. CASE \E r \in DOMAIN receipts, c \in Works : Publish(r, c)
  BY <1>2, PublishTypes DEF ExportsKept
<1>3. CASE \E x \in DOMAIN exports : Revoke(x)
  BY <1>3, RevokeTypes DEF ExportsKept
<1>4. [Next]_vars => \/ UNCHANGED exports
                     \/ \E r \in DOMAIN receipts, c \in Works : Publish(r, c)
                     \/ \E x \in DOMAIN exports : Revoke(x)
  BY DEF Next, vars, Start, Report, Reconcile, Submit, Open, Decide, RegisterPr, ObserveMismatch, Complete,
         Adopt, Activate
<1> QED
  BY <1>1, <1>2, <1>3, <1>4

LEMMA OneRunKept ==
  ASSUME CompletionTypeOK, NEW e \in DOMAIN executions, NEW s \in {"running", "succeeded", "failed", "unknown"},
         executions' = [executions EXCEPT ![e].state = s], UNCHANGED receipts
  PROVE  /\ RunsKept /\ DOMAIN executions' = DOMAIN executions
         /\ executions'[e].state = s
         /\ \A i \in DOMAIN executions : i # e => executions'[i].state = executions[i].state
<1>1. PICK f \in [DOMAIN executions -> {"running", "succeeded", "failed", "unknown"}] :
        /\ f = [i \in DOMAIN executions |-> IF i = e THEN s ELSE executions[i].state]
        /\ executions' = [i \in DOMAIN executions |-> [executions[i] EXCEPT !.state = f[i]]]
  BY OneOutcome, Zenon
<1>2. /\ DOMAIN executions' = DOMAIN executions
      /\ \A i \in DOMAIN executions :
           /\ executions'[i].work = executions[i].work /\ executions'[i].contract = executions[i].contract
           /\ executions'[i].by = executions[i].by /\ executions'[i].inputs = executions[i].inputs
           /\ executions'[i].state = f[i]
  BY <1>1, RunsStay, Zenon
<1>3. \A i \in DOMAIN executions : f[i] = IF i = e THEN s ELSE executions[i].state
  BY <1>1
<1> QED
  BY <1>2, <1>3 DEF RunsKept

\* What a started execution is.
LEMMA StartRows ==
  ASSUME CompletionTypeOK, NEW a \in Actors, NEW w \in Works, Start(a, w)
  PROVE  LET n == Len(executions) + 1
         IN  /\ RunsKept /\ RequiredDependenciesCovered(w)
             /\ \A e \in DOMAIN executions : e \in DOMAIN executions' /\ executions'[e] = executions[e]
             /\ \A e \in DOMAIN executions' : e \in DOMAIN executions \/ e = n
             /\ executions'[n].work = w /\ executions'[n].contract = source[w] /\ executions'[n].inputs = Links(w)
             /\ UNCHANGED <<source, activations, blocked, evidence, rounds, receipts, selected, exports, adopted, delivery>>
<1> DEFINE new == [work |-> w, contract |-> source[w], by |-> a, inputs |-> Links(w), state |-> "running"]
<1>1. executions' = Append(executions, new) /\ RequiredDependenciesCovered(w)
      /\ UNCHANGED <<source, activations, blocked, evidence, rounds, receipts, selected, exports, adopted, delivery>>
  BY DEF Start
<1>2. RunsOK
  BY TypeParts
<1>3. new.work = w /\ new.contract = source[w] /\ new.inputs = Links(w)
  OBVIOUS
<1> HIDE DEF new
<1>4. /\ executions'[Len(executions) + 1] = new
      /\ \A e \in DOMAIN executions : e \in DOMAIN executions' /\ executions'[e] = executions[e]
      /\ \A e \in DOMAIN executions' : e \in DOMAIN executions \/ e = Len(executions) + 1
  BY <1>1, <1>2, RowAdded DEF RunsOK
<1> QED
  BY <1>1, <1>3, <1>4 DEF RunsKept

\* A report or a reconciliation leaves one execution in another state, and never
\* running.
LEMMA OutcomeRows ==
  ASSUME CompletionTypeOK, NEW e \in DOMAIN executions, NEW o \in Outcomes,
         Report(e, o) \/ \E stopped, clear \in BOOLEAN : Reconcile(e, o, stopped, clear)
  PROVE  /\ RunsKept /\ DOMAIN executions' = DOMAIN executions
         /\ executions'[e].state # "running"
         /\ \A i \in DOMAIN executions : i # e => executions'[i].state = executions[i].state
         /\ UNCHANGED <<source, activations, evidence, rounds, receipts, selected, exports, adopted, delivery>>
<1>1. PICK s \in Outcomes : executions' = [executions EXCEPT ![e].state = s]
  <2>1. CASE Report(e, o)
    BY <2>1 DEF Report
  <2>2. CASE \E stopped, clear \in BOOLEAN : Reconcile(e, o, stopped, clear)
    <3>1. "unknown" \in Outcomes
      BY DEF Outcomes
    <3>2. PICK stopped \in BOOLEAN :
            executions' = [executions EXCEPT ![e].state = IF stopped THEN o ELSE "unknown"]
      BY <2>2 DEF Reconcile
    <3> QED
      BY <3>1, <3>2
  <2> QED
    BY <2>1, <2>2
<1>2. UNCHANGED <<source, activations, evidence, rounds, receipts, selected, exports, adopted, delivery>>
  BY DEF Report, Reconcile
<1>3. s \in {"running", "succeeded", "failed", "unknown"} /\ s # "running"
  BY DEF Outcomes
<1> QED
  BY <1>1, <1>2, <1>3, OneRunKept

LEMMA RunsStep ==
  ASSUME CompletionTypeOK, [Next]_vars
  PROVE  RunsKept
<1>1. CASE UNCHANGED executions
  BY <1>1 DEF RunsKept
<1>2. CASE \E a \in Actors, w \in Works : Start(a, w)
  BY <1>2, StartRows
<1>3. CASE \E e \in DOMAIN executions, o \in Outcomes :
             Report(e, o) \/ \E stopped, clear \in BOOLEAN : Reconcile(e, o, stopped, clear)
  BY <1>3, OutcomeRows
<1>4. [Next]_vars => \/ UNCHANGED executions
                     \/ \E a \in Actors, w \in Works : Start(a, w)
                     \/ \E e \in DOMAIN executions, o \in Outcomes :
                          Report(e, o) \/ \E stopped, clear \in BOOLEAN : Reconcile(e, o, stopped, clear)
  BY DEF Next, vars, Submit, Open, Decide, RegisterPr, ObserveMismatch, Complete, Publish, Revoke,
         Adopt, Activate
<1> QED
  BY <1>1, <1>2, <1>3, <1>4

----------------------------------------------------------------------------
(* The invariant, step by step. *)

LEMMA OrderStep ==
  ASSUME CompletionTypeOK, RoundsOrdered, [Next]_vars
  PROVE  RoundsOrdered'
<1>1. RoundsKept /\ ReceiptsKept
  BY RoundsStep, ReceiptsStep
<1>2. \A k : Accepted(k) => Accepted(k)'
  BY <1>1 DEF ReceiptsKept, Accepted
<1>3. SUFFICES ASSUME NEW i \in DOMAIN rounds', NEW j \in DOMAIN rounds', i < j,
                      rounds'[i].evidence.work = rounds'[j].evidence.work,
                      Bundle(rounds'[i].evidence) # Bundle(rounds'[j].evidence),
                      rounds'[i].state \in {"open", "approved"}
               PROVE  Accepted(i)'
  BY DEF RoundsOrdered, Bundle
<1>4. CASE i \in DOMAIN rounds /\ j \in DOMAIN rounds
  <2>1. KeepsRound(rounds', i) /\ KeepsRound(rounds', j)
    BY <1>1, <1>4 DEF RoundsKept
  <2>2. Accepted(i)
    BY <1>3, <1>4, <2>1 DEF RoundsOrdered, KeepsRound
  <2> QED
    BY <1>2, <2>2
<1>5. CASE DOMAIN rounds' = DOMAIN rounds
  BY <1>3, <1>4, <1>5
<1>6. ASSUME NEW a \in Actors, NEW v \in evidence, Open(a, v)
      PROVE  Accepted(i)'
  <2> DEFINE gone == {k \in DOMAIN rounds : Superseded(k, v)}
             n == Len(rounds) + 1
  <2>1. /\ DOMAIN rounds = 1 .. Len(rounds) /\ DOMAIN rounds' = 1 .. n /\ Len(rounds) \in Nat
        /\ rounds'[n] = [evidence |-> v, opener |-> a, state |-> "open", reviewer |-> None]
    BY <1>6, OpenTypes
  <2>2. \A k \in DOMAIN rounds : rounds'[k] = Invalidated(gone)[k]
    BY <1>6, OpenTypes
  <2>3. rounds'[n].evidence = v
    BY <2>1
  <2> HIDE DEF gone
  <2>4. SUFFICES ASSUME j = n
                 PROVE  Accepted(i)'
    BY <1>3, <1>4, <2>1
  <2>5. i \in DOMAIN rounds
    BY <1>3, <2>1, <2>4
  <2>6. RoundsOK
    BY TypeParts
  <2>7. /\ rounds'[i].evidence = rounds[i].evidence
        /\ i \notin gone => rounds'[i] = rounds[i]
        /\ i \in gone => rounds'[i].state = "invalidated"
    BY <2>2, <2>5, <2>6, InvalidatedRows
  <2>8. i \notin gone /\ rounds[i].state \in {"open", "approved"}
    BY <1>3, <2>7
  <2>9. ~ Superseded(i, v)
    BY <2>5, <2>8 DEF gone
  <2>10. Accepted(i)
    BY <1>3, <2>3, <2>4, <2>7, <2>8, <2>9 DEF Superseded, Withdrawable
  <2> QED
    BY <1>2, <2>10
<1>7. [Next]_vars => \/ \E a \in Actors, v \in evidence : Open(a, v)
                     \/ \E a \in Actors, k \in DOMAIN rounds, d \in {"approved", "rejected"} : Decide(a, k, d)
                     \/ \E gone : rounds' = Invalidated(gone)
                     \/ UNCHANGED rounds
  <2>1. ASSUME NEW w \in Works, ObserveMismatch(w)
        PROVE  \E gone : rounds' = Invalidated(gone)
    BY <2>1 DEF ObserveMismatch
  <2>2. ASSUME NEW next \in Proposals[source], Activate(next)
        PROVE  \E gone : rounds' = Invalidated(gone)
    BY <2>2 DEF Activate
  <2>3. [Next]_vars => \/ \E a \in Actors, v \in evidence : Open(a, v)
                       \/ \E a \in Actors, k \in DOMAIN rounds, d \in {"approved", "rejected"} : Decide(a, k, d)
                       \/ \E w \in Works : ObserveMismatch(w)
                       \/ \E next \in Proposals[source] : Activate(next)
                       \/ UNCHANGED rounds
    BY DEF Next, vars, Start, Report, Reconcile, Submit, RegisterPr, Complete, Publish, Revoke, Adopt
  <2> QED
    BY <2>1, <2>2, <2>3
<1>8. ASSUME NEW a \in Actors, NEW k \in DOMAIN rounds, NEW d \in {"approved", "rejected"}, Decide(a, k, d)
      PROVE  DOMAIN rounds' = DOMAIN rounds
  BY <1>8 DEF Decide
<1>9. ASSUME NEW gone, rounds' = Invalidated(gone)
      PROVE  DOMAIN rounds' = DOMAIN rounds
  BY <1>9 DEF Invalidated
<1> QED
  BY <1>5, <1>6, <1>7, <1>8, <1>9

\* Work whose dependencies are covered stands on the ground.
LEMMA LinksGrounded ==
  ASSUME CompletionTypeOK, NEW G, Ground(G), NEW w \in Works, RequiredDependenciesCovered(w)
  PROVE  Moving(source[w], Links(w)) \subseteq G
<1>1. SnapshotOK /\ ReceiptsOK /\ ExportsOK /\ AdoptedOK
  BY TypeParts
<1>2. source[w] \in Contract
  BY <1>1, SourceType DEF SnapshotOK
<1>3. ASSUME NEW p \in DOMAIN Links(w), ~ Fixed(source[w], p)
      PROVE  Links(w)[p] \in G
  <2>1. p \in DOMAIN source[w].requires /\ p \in Works /\ Links(w)[p] = Link(w, p) /\ Link(w, p) # 0
    <3>1. p \in DOMAIN source[w].requires /\ p \in Works /\ Links(w)[p] = Link(w, p)
      BY <1>3, LinksType
    <3> QED
      BY <3>1 DEF RequiredDependenciesCovered
  <2>2. source[w].requires[p] \in {"selected", "current"}
    BY <1>2, <1>3, <2>1, ContractFields DEF Fixed, Modes
  <2>3. CASE source[w].requires[p] = "selected"
    <3>1. Link(w, p) = selected[p]
      BY <2>1, <2>3 DEF Link
    <3> QED
      BY <2>1, <3>1 DEF Ground
  <2>4. CASE source[w].requires[p] = "current"
    <3>1. Link(w, p) = AdoptedReceipt(source, w, p, "current")
      BY <2>4 DEF Link
    <3> DEFINE r == exports[adopted[w][p]].receipt
    <3>2. /\ Validated(source, adopted[w][p]) /\ exports[adopted[w][p]].mode = "current"
          /\ Link(w, p) = r /\ r \in DOMAIN receipts /\ receipts[r].work = p
      BY <1>1, <2>1, <3>1, AdoptedExists
    <3>3. ProvenCurrent(r)
      BY <3>2 DEF Validated
    <3>4. selected[p] = r /\ r # 0
      BY <2>1, <3>2, <3>3 DEF ProvenCurrent
    <3> QED
      BY <2>1, <3>2, <3>4 DEF Ground
  <2> QED
    BY <2>2, <2>3, <2>4
<1> QED
  BY <1>3 DEF Moving

\* A step that writes none of what the ground is about.
LEMMA GroundStays ==
  ASSUME Grounded, UNCHANGED <<source, executions, receipts, selected>>
  PROVE  Grounded'
BY DEF Grounded, Ground

LEMMA StartGrounded ==
  ASSUME CompletionTypeOK, Grounded, RunsAreLive, NEW a \in Actors, NEW w \in Works, Start(a, w)
  PROVE  Grounded' /\ RunsAreLive'
<1> DEFINE n == Len(executions) + 1
<1>1. PICK G \in SUBSET DOMAIN receipts : Ground(G)
  BY DEF Grounded
<1>2. /\ RequiredDependenciesCovered(w)
      /\ \A e \in DOMAIN executions' : (e \in DOMAIN executions /\ executions'[e] = executions[e]) \/ e = n
      /\ executions'[n].work = w /\ executions'[n].contract = source[w] /\ executions'[n].inputs = Links(w)
      /\ UNCHANGED <<source, receipts, selected>>
  BY StartRows
<1>3. Moving(source[w], Links(w)) \subseteq G
  BY <1>1, <1>2, LinksGrounded
<1>4. ASSUME NEW e \in DOMAIN executions', executions'[e].state = "running"
      PROVE  /\ Moving(executions'[e].contract, executions'[e].inputs) \subseteq G
             /\ executions'[e].contract = source[executions'[e].work]
  <2>1. CASE e = n
    BY <1>2, <1>3, <2>1
  <2>2. CASE executions'[e] = executions[e] /\ e \in DOMAIN executions
    BY <1>1, <1>4, <2>2 DEF Ground, RunsAreLive
  <2> QED
    BY <1>2, <2>1, <2>2
<1>5. Ground(G)'
  <2>1. \A x \in Works : selected'[x] # 0 => selected'[x] \in G
    BY <1>1, <1>2 DEF Ground
  <2>2. \A r \in G : /\ receipts'[r].contract = source'[receipts'[r].work]
                     /\ Moving(receipts'[r].contract, receipts'[r].links) \subseteq G
    BY <1>1, <1>2 DEF Ground
  <2> QED
    BY <1>4, <2>1, <2>2 DEF Ground, Moving
<1>6. G \in SUBSET DOMAIN receipts'
  BY <1>2
<1> QED
  BY <1>2, <1>4, <1>5, <1>6 DEF Grounded, RunsAreLive

LEMMA OutcomeGrounded ==
  ASSUME CompletionTypeOK, Grounded, RunsAreLive, NEW e \in DOMAIN executions, NEW o \in Outcomes,
         Report(e, o) \/ \E stopped, clear \in BOOLEAN : Reconcile(e, o, stopped, clear)
  PROVE  Grounded' /\ RunsAreLive'
<1>1. PICK G \in SUBSET DOMAIN receipts : Ground(G)
  BY DEF Grounded
<1>2. /\ RunsKept /\ DOMAIN executions' = DOMAIN executions
      /\ executions'[e].state # "running"
      /\ \A i \in DOMAIN executions : i # e => executions'[i].state = executions[i].state
      /\ UNCHANGED <<source, receipts, selected>>
  BY OutcomeRows
<1>3. ASSUME NEW i \in DOMAIN executions', executions'[i].state = "running"
      PROVE  /\ Moving(executions'[i].contract, executions'[i].inputs) \subseteq G
             /\ executions'[i].contract = source[executions'[i].work]
  <2>1. i \in DOMAIN executions /\ executions[i].state = "running"
    BY <1>2, <1>3
  <2> QED
    BY <1>1, <1>2, <2>1 DEF Ground, RunsAreLive, RunsKept
<1>4. Ground(G)'
  <2>1. \A x \in Works : selected'[x] # 0 => selected'[x] \in G
    BY <1>1, <1>2 DEF Ground
  <2>2. \A r \in G : /\ receipts'[r].contract = source'[receipts'[r].work]
                     /\ Moving(receipts'[r].contract, receipts'[r].links) \subseteq G
    BY <1>1, <1>2 DEF Ground
  <2> QED
    BY <1>3, <2>1, <2>2 DEF Ground, Moving
<1>5. G \in SUBSET DOMAIN receipts'
  BY <1>2
<1> QED
  BY <1>2, <1>3, <1>4, <1>5 DEF Grounded, RunsAreLive

LEMMA CompleteGrounded ==
  ASSUME CompletionTypeOK, Grounded, NEW a \in Actors, NEW v \in evidence, NEW k \in 0 .. Len(rounds), Complete(a, v, k)
  PROVE  Grounded'
<1> DEFINE n == Len(receipts) + 1
           w == v.work
<1>1. PICK G \in SUBSET DOMAIN receipts : Ground(G)
  BY DEF Grounded
<1>2. /\ w \in Works /\ v.contract = source[w] /\ RequiredDependenciesCovered(w)
      /\ DOMAIN receipts' = 1 .. n /\ DOMAIN receipts = 1 .. Len(receipts) /\ Len(receipts) \in Nat
      /\ receipts'[n].work = w /\ receipts'[n].contract = v.contract /\ receipts'[n].links = Links(w)
      /\ \A r \in DOMAIN receipts : receipts'[r] = receipts[r]
      /\ selected' = [selected EXCEPT ![w] = n]
      /\ UNCHANGED <<source, executions>>
  BY CompleteRows
<1>3. Moving(source[w], Links(w)) \subseteq G
  BY <1>1, <1>2, LinksGrounded
<1>4. selected \in [Works -> Nat]
  BY TypeParts DEF SelectedOK
<1> PICK H : H = G \cup {n}
  OBVIOUS
<1>5. \A x \in Works : selected'[x] # 0 => selected'[x] \in H
  BY <1>1, <1>2, <1>4 DEF Ground
<1>6. \A e \in DOMAIN executions' : executions'[e].state = "running" =>
        Moving(executions'[e].contract, executions'[e].inputs) \subseteq H
  BY <1>1, <1>2 DEF Ground
<1>7. ASSUME NEW r \in H
      PROVE  /\ receipts'[r].contract = source'[receipts'[r].work]
             /\ Moving(receipts'[r].contract, receipts'[r].links) \subseteq H
  <2>1. CASE r = n
    BY <1>2, <1>3, <2>1
  <2>2. CASE r \in G
    BY <1>1, <1>2, <2>2 DEF Ground
  <2> QED
    BY <2>1, <2>2
<1>8. H \in SUBSET DOMAIN receipts'
  BY <1>2
<1>9. Ground(H)'
  BY <1>5, <1>6, <1>7 DEF Ground, Moving
<1> QED
  BY <1>8, <1>9 DEF Grounded

\* Whatever an affected work is built on, or touches in turn, is in the graph:
\* a work that is not affected requires no affected one, fixed deliveries apart.
LEMMA AffectedClosed ==
  ASSUME SnapshotOK, NEW next \in Sources, NEW w \in Works, w \notin Affected(next),
         NEW p \in DOMAIN source[w].requires, ~ Fixed(source[w], p)
  PROVE  p \in Works /\ p \notin Affected(next) /\ next[w] = source[w]
<1> DEFINE seed == {x \in Works : next[x] # source[x]}
           edges == Touching(next)
<1>1. Affected(next) = Spread(seed, edges)
  BY DEF Affected
<1>2. IsFiniteSet(Works) /\ Cardinality(Works) <= Cardinality(Works)
  BY CompletionAssumption, WorksCounted
<1>3. \A e \in edges : e \in Works \X Works
  BY DEF Touching, Edges
<1>4. \A e \in edges : e[2] \in Works
  BY <1>3
<1>5. source \in [Works -> Contract] /\ p \in Works
  BY SourceType, ContractFields DEF SnapshotOK
<1>6. w \notin seed
  BY <1>1, SpreadStarts
<1>7. next[w] = source[w]
  BY <1>6
<1>8. <<p, w>> \in edges
  BY <1>5, <1>7 DEF Touching, Edges
<1> HIDE DEF edges
<1>9. \A e \in edges : e[1] \in Spread(seed, edges) => e[2] \in Spread(seed, edges)
  <2>1. seed \subseteq Works
    OBVIOUS
  <2> HIDE DEF seed
  <2> QED
    BY <1>2, <1>4, <2>1, SpreadClosed
<1> QED
  BY <1>1, <1>5, <1>7, <1>8, <1>9

\* No more receipts are selected than there are works.
LEMMA SelectedCounted ==
  ASSUME SelectedOK
  PROVE  /\ IsFiniteSet({selected[w] : w \in Works})
         /\ Cardinality({selected[w] : w \in Works}) <= Cardinality(Works)
<1> DEFINE T == {selected[w] : w \in Works}
<1>1. selected \in Surjection(Works, T)
  BY DEF SelectedOK, Surjection
<1> QED
  BY <1>1, CompletionAssumption, FS_Surjection

\* What hangs on a reopened receipt, other than as a fixed delivery, is
\* reopened.
LEMMA ReopenedClosed ==
  ASSUME CompletionTypeOK, NEW next,
         NEW w \in Works, selected[w] # 0, NEW p \in DOMAIN receipts[selected[w]].links,
         ~ Fixed(next[w], p), receipts[selected[w]].links[p] \in Reopened(next)
  PROVE  selected[w] \in Reopened(next)
<1> DEFINE N == {selected[x] : x \in Works}
           q == receipts[selected[w]].links[p]
<1>1. SelectedOK /\ ReceiptsOK
  BY TypeParts
<1>2. selected[w] \in DOMAIN receipts /\ receipts[selected[w]].work = w
  BY <1>1 DEF SelectedOK
<1>3. q \in DOMAIN receipts
  <2>1. q \in 1 .. selected[w] - 1
    BY <1>1, <1>2 DEF ReceiptsOK
  <2>2. selected[w] \in 1 .. Len(receipts) /\ DOMAIN receipts = 1 .. Len(receipts) /\ Len(receipts) \in Nat
    BY <1>1, <1>2, ReceiptFields
  <2> QED
    BY <2>1, <2>2
<1>4. <<q, selected[w]>> \in Chained(next)
  BY <1>2, <1>3 DEF Chained
<1>5. Stale(next) \subseteq N /\ \A e \in Chained(next) : e[2] \in N
  <2>1. \A e \in Chained(next) : e \in (DOMAIN receipts) \X N
    BY DEF Chained
  <2>2. \A e \in Chained(next) : e[2] \in N
    BY <2>1
  <2>3. Stale(next) \subseteq N
    BY DEF Stale
  <2> QED
    BY <2>2, <2>3
<1>6. IsFiniteSet(N) /\ Cardinality(N) <= Cardinality(Works)
  BY <1>1, SelectedCounted
<1> HIDE DEF N, q
<1>7. \A e \in Chained(next) :
        e[1] \in Spread(Stale(next), Chained(next)) => e[2] \in Spread(Stale(next), Chained(next))
  BY <1>5, <1>6, SpreadClosed
<1>8. q \in Spread(Stale(next), Chained(next))
  BY DEF Reopened, q
<1> QED
  BY <1>4, <1>7, <1>8 DEF Reopened

\* A selected receipt that is not reopened has the contract that is activated,
\* and its links stay what they were.
LEMMA NotReopened ==
  ASSUME CompletionTypeOK, NEW next \in Proposals[source], Activate(next),
         NEW w \in Works, selected[w] # 0, selected[w] \notin Reopened(next)
  PROVE  LET d == receipts[selected[w]]
         IN  /\ d.work = w /\ selected[w] \in DOMAIN receipts /\ d.contract = next[w]
             /\ \A p \in DOMAIN d.links :
                  IF Fixed(next[w], p) THEN AdoptedReceipt(next, w, p, "fixed") = d.links[p]
                  ELSE /\ p \in Works /\ selected[p] = d.links[p] /\ selected[p] # 0
                       /\ selected[p] \notin Reopened(next) /\ selected'[p] = d.links[p]
<1> DEFINE r == selected[w]
           d == receipts[r]
<1>1. SelectedOK /\ ReceiptsOK
  BY TypeParts
<1>2. r \in DOMAIN receipts /\ d.work = w
  BY <1>1 DEF SelectedOK
<1>3. r \notin Stale(next)
  BY SpreadStarts DEF Reopened
<1>4. d.contract = next[w]
  BY <1>2, <1>3 DEF Stale
<1>5. ASSUME NEW p \in DOMAIN d.links
      PROVE  IF Fixed(next[w], p) THEN AdoptedReceipt(next, w, p, "fixed") = d.links[p]
             ELSE /\ p \in Works /\ selected[p] = d.links[p] /\ selected[p] # 0
                  /\ selected[p] \notin Reopened(next) /\ selected'[p] = d.links[p]
  <2>1. IF Fixed(next[w], p) THEN AdoptedReceipt(next, w, p, "fixed") = d.links[p] ELSE selected[p] = d.links[p]
    BY <1>2, <1>3, <1>5 DEF Stale
  <2>2. ASSUME ~ Fixed(next[w], p)
        PROVE  /\ p \in Works /\ selected[p] # 0 /\ selected[p] \notin Reopened(next) /\ selected'[p] = d.links[p]
    <3>1. p \in Works
      BY <1>1, <1>2, ReceiptFields, ContractFields
    <3>2. d.links[p] \in 1 .. r - 1
      BY <1>1, <1>2 DEF ReceiptsOK
    <3>3. d.links[p] # 0
      BY <3>2
    <3>4. d.links[p] \notin Reopened(next)
      BY <2>2, ReopenedClosed
    <3>5. selected'[p] = selected[p]
      BY <2>1, <2>2, <3>1, <3>4, ActivateRows
    <3> QED
      BY <2>1, <2>2, <3>1, <3>3, <3>4, <3>5
  <2> QED
    BY <2>1, <2>2
<1> QED
  BY <1>2, <1>4, <1>5

LEMMA UnaffectedStays ==
  ASSUME NEW next, NEW w \in Works, w \notin Affected(next)
  PROVE  next[w] = source[w]
<1>1. w \notin {x \in Works : next[x] # source[x]}
  BY SpreadStarts DEF Affected
<1> QED
  BY <1>1

LEMMA ActivateGrounded ==
  ASSUME CompletionTypeOK, Grounded, RunsAreLive, NEW next \in Proposals[source], Activate(next)
  PROVE  Grounded' /\ RunsAreLive'
<1>1. PICK G \in SUBSET DOMAIN receipts : Ground(G)
  BY DEF Grounded
<1>2. /\ next \in Sources /\ source' = next /\ RequireSettled(Affected(next))
      /\ \A w \in Works : selected'[w] = IF selected[w] \in Reopened(next) THEN 0 ELSE selected[w]
      /\ executions' = executions /\ receipts' = receipts
  BY ActivateRows
<1>3. SnapshotOK /\ RunsOK /\ ReceiptsOK /\ SelectedOK
  BY TypeParts
<1>4. PICK H : H = {selected[w] : w \in {x \in Works : selected[x] # 0 /\ selected[x] \notin Reopened(next)}}
                     \cup {r \in G : receipts[r].work \notin Affected(next)}
  OBVIOUS
<1>5. H \in SUBSET DOMAIN receipts
  <2>1. \A w \in Works : selected[w] # 0 => selected[w] \in DOMAIN receipts
    BY <1>3 DEF SelectedOK
  <2> QED
    BY <1>1, <1>4, <2>1
<1>6. \A w \in Works : selected'[w] # 0 => selected'[w] \in H
  BY <1>2, <1>4
\* What a work that is not affected was built on stays in the ground.
<1>7. ASSUME NEW w \in Works, w \notin Affected(next), NEW p \in DOMAIN source[w].requires, ~ Fixed(source[w], p),
             NEW q \in G, receipts[q].work = p
      PROVE  q \in H
  <2>1. p \notin Affected(next)
    BY <1>2, <1>3, <1>7, AffectedClosed
  <2> QED
    BY <1>4, <1>7, <2>1
<1>8. ASSUME NEW e \in DOMAIN executions, executions[e].state = "running"
      PROVE  /\ executions[e].contract = next[executions[e].work]
             /\ Moving(executions[e].contract, executions[e].inputs) \subseteq H
  <2> DEFINE w == executions[e].work
  <2>1. /\ w \in Works /\ executions[e].contract = source[w]
        /\ DOMAIN executions[e].inputs = DOMAIN executions[e].contract.requires
    BY <1>3, <1>8, RunFields DEF RunsAreLive
  <2>2. e \in Unsettled(w)
    BY <1>8 DEF Unsettled
  <2>3. w \notin Affected(next)
    BY <1>2, <2>2 DEF RequireSettled
  <2>4. next[w] = source[w]
    BY <2>1, <2>3, UnaffectedStays
  <2>5. ASSUME NEW p \in DOMAIN executions[e].inputs, ~ Fixed(executions[e].contract, p)
        PROVE  executions[e].inputs[p] \in H
    <3>1. executions[e].inputs[p] \in G
      BY <1>1, <1>8, <2>5 DEF Ground, Moving
    <3>2. receipts[executions[e].inputs[p]].work = p
      BY <1>3, <2>5 DEF RunsOK
    <3> HIDE DEF w
    <3> QED
      BY <1>7, <2>1, <2>3, <2>5, <3>1, <3>2
  <2> QED
    BY <2>1, <2>4, <2>5 DEF Moving
<1>9. ASSUME NEW r \in H
      PROVE  /\ receipts[r].contract = next[receipts[r].work]
             /\ Moving(receipts[r].contract, receipts[r].links) \subseteq H
  <2> DEFINE d == receipts[r]
  <2>1. CASE r \in G /\ d.work \notin Affected(next)
    <3>1. d.work \in Works /\ DOMAIN d.links = DOMAIN d.contract.requires
      BY <1>1, <1>3, <2>1, ReceiptFields
    <3>2. d.contract = source[d.work] /\ next[d.work] = source[d.work]
      BY <1>1, <2>1, <3>1, UnaffectedStays DEF Ground
    <3>3. ASSUME NEW p \in DOMAIN d.links, ~ Fixed(d.contract, p)
          PROVE  d.links[p] \in H
      <4>1. d.links[p] \in G
        BY <1>1, <2>1, <3>3 DEF Ground, Moving
      <4>2. receipts[d.links[p]].work = p
        BY <1>1, <1>3, <2>1, <3>3 DEF ReceiptsOK
      <4> QED
        BY <1>7, <2>1, <3>1, <3>2, <3>3, <4>1, <4>2
    <3> QED
      BY <3>2, <3>3 DEF Moving
  <2>2. ASSUME NEW w \in Works, selected[w] # 0, selected[w] \notin Reopened(next), r = selected[w]
        PROVE  d.contract = next[d.work] /\ Moving(d.contract, d.links) \subseteq H
    <3>1. /\ d.work = w /\ d.contract = next[w]
          /\ \A p \in DOMAIN d.links : ~ Fixed(next[w], p) =>
               /\ p \in Works /\ selected[p] = d.links[p] /\ selected[p] # 0 /\ selected[p] \notin Reopened(next)
      BY <2>2, NotReopened
    <3>2. ASSUME NEW p \in DOMAIN d.links, ~ Fixed(d.contract, p)
          PROVE  d.links[p] \in H
      BY <1>4, <3>1, <3>2
    <3> QED
      BY <3>1, <3>2 DEF Moving
  <2> QED
    BY <1>4, <1>9, <2>1, <2>2
<1>10. Ground(H)'
  BY <1>2, <1>6, <1>8, <1>9 DEF Ground, Moving
<1> QED
  BY <1>2, <1>5, <1>8, <1>10 DEF Grounded, RunsAreLive

LEMMA GroundStep ==
  ASSUME CompletionTypeOK, Grounded, RunsAreLive, [Next]_vars
  PROVE  Grounded' /\ RunsAreLive'
<1>1. CASE UNCHANGED <<source, executions, receipts, selected>>
  BY <1>1, GroundStays DEF RunsAreLive
<1>2. CASE \E a \in Actors, w \in Works : Start(a, w)
  BY <1>2, StartGrounded
<1>3. CASE \E e \in DOMAIN executions, o \in Outcomes :
             Report(e, o) \/ \E stopped, clear \in BOOLEAN : Reconcile(e, o, stopped, clear)
  BY <1>3, OutcomeGrounded
<1>4. CASE \E a \in Actors, v \in evidence, k \in 0 .. Len(rounds) : Complete(a, v, k)
  BY <1>4, CompleteGrounded, CompleteRows DEF RunsAreLive
<1>5. CASE \E next \in Proposals[source] : Activate(next)
  BY <1>5, ActivateGrounded
<1>6. [Next]_vars => \/ UNCHANGED <<source, executions, receipts, selected>>
                     \/ \E a \in Actors, w \in Works : Start(a, w)
                     \/ \E e \in DOMAIN executions, o \in Outcomes :
                          Report(e, o) \/ \E stopped, clear \in BOOLEAN : Reconcile(e, o, stopped, clear)
                     \/ \E a \in Actors, v \in evidence, k \in 0 .. Len(rounds) : Complete(a, v, k)
                     \/ \E next \in Proposals[source] : Activate(next)
  BY DEF Next, vars, Submit, Open, Decide, RegisterPr, ObserveMismatch, Publish, Revoke, Adopt
<1> QED
  BY <1>1, <1>2, <1>3, <1>4, <1>5, <1>6

LEMMA InvStep == CompletionInv /\ [Next]_vars => CompletionInv'
BY TypeStep, OrderStep, GroundStep DEF CompletionInv

LEMMA InvInit == Init => CompletionInv
<1> SUFFICES ASSUME Init
             PROVE  CompletionInv
  OBVIOUS
<1>1. CompletionTypeOK
  BY InitTypes
<1>2. RoundsOrdered /\ RunsAreLive
  BY DEF Init, RoundsOrdered, RunsAreLive
<1>3. Ground({})
  BY DEF Init, Ground
<1> QED
  BY <1>1, <1>2, <1>3 DEF CompletionInv, Grounded

----------------------------------------------------------------------------
(* What the invariant shows. *)

\* No execution runs on anything that is no longer current.
LEMMA GroundIsCurrent ==
  ASSUME CompletionInv
  PROVE  RunsOnCurrentInputs
<1>1. PICK G \in SUBSET DOMAIN receipts : Ground(G)
  BY DEF CompletionInv, Grounded
<1>2. SUFFICES ASSUME NEW e \in DOMAIN executions, executions[e].state = "running"
               PROVE  Ancestry(e) \subseteq G
  BY <1>1 DEF RunsOnCurrentInputs, CompletionInv, RunsAreLive, Ground
<1> DEFINE seed == Moving(executions[e].contract, executions[e].inputs)
           edges == UNION {{r} \X Moving(receipts[r].contract, receipts[r].links) : r \in DOMAIN receipts}
<1>3. seed \subseteq G
  BY <1>1, <1>2 DEF Ground
<1>4. ASSUME NEW f \in edges, f[1] \in G
      PROVE  f[2] \in G
  <2>1. PICK r \in DOMAIN receipts : f \in {r} \X Moving(receipts[r].contract, receipts[r].links)
    BY <1>4
  <2>2. f[1] = r /\ f[2] \in Moving(receipts[r].contract, receipts[r].links)
    BY <2>1
  <2> QED
    BY <1>1, <1>4, <2>2 DEF Ground
<1>5. Ancestry(e) = Spread(seed, edges)
  BY DEF Ancestry
<1> HIDE DEF seed, edges
<1> QED
  BY <1>3, <1>4, <1>5, SpreadWithin

\* The inductive invariant of completion.
THEOREM CompletionInvariant == Spec => []CompletionInv
<1> QED
  BY InvInit, InvStep, PTL DEF Spec

\* Every record has its type and refers to records that exist.
THEOREM CompletionTypeCorrect == Spec => []CompletionTypeOK
<1>1. CompletionInv => CompletionTypeOK
  BY DEF CompletionInv
<1> QED
  BY <1>1, CompletionInvariant, PTL

\* Executions run on current inputs: an activation that would pull a contract
\* from under a running execution, or from under anything it was built on, is
\* refused, whatever the graph (derive_inner and require_settled).
THEOREM RunsStayCurrent == Spec => []RunsOnCurrentInputs
<1> QED
  BY GroundIsCurrent, CompletionInvariant, PTL

\* A completed work is complete under its live contract, and so is everything
\* its receipt was built on, fixed deliveries apart.
CompletedOnCurrent ==
  \A w \in Works : selected[w] # 0 =>
    \A r \in Spread({selected[w]}, UNION {{q} \X Moving(receipts[q].contract, receipts[q].links) : q \in DOMAIN receipts}) :
      receipts[r].contract = source[receipts[r].work]

\* No work stays complete on a contract, its own or one further down, that an
\* activation has replaced (apply in completion_invalidation.rs).
THEOREM CompletionsStayCurrent == Spec => []CompletedOnCurrent
<1> SUFFICES CompletionInv => CompletedOnCurrent
  BY CompletionInvariant, PTL
<1> SUFFICES ASSUME CompletionInv, NEW w \in Works, selected[w] # 0
             PROVE  LET edges == UNION {{q} \X Moving(receipts[q].contract, receipts[q].links) : q \in DOMAIN receipts}
                    IN  \A r \in Spread({selected[w]}, edges) : receipts[r].contract = source[receipts[r].work]
  BY DEF CompletedOnCurrent
<1>1. PICK G \in SUBSET DOMAIN receipts : Ground(G)
  BY DEF CompletionInv, Grounded
<1> DEFINE edges == UNION {{q} \X Moving(receipts[q].contract, receipts[q].links) : q \in DOMAIN receipts}
<1>2. {selected[w]} \subseteq G
  BY <1>1 DEF Ground
<1>3. ASSUME NEW f \in edges, f[1] \in G
      PROVE  f[2] \in G
  <2>1. PICK q \in DOMAIN receipts : f \in {q} \X Moving(receipts[q].contract, receipts[q].links)
    BY <1>3
  <2>2. f[1] = q /\ f[2] \in Moving(receipts[q].contract, receipts[q].links)
    BY <2>1
  <2> QED
    BY <1>1, <1>3, <2>2 DEF Ground
<1> HIDE DEF edges
<1>4. Spread({selected[w]}, edges) \subseteq G
  BY <1>2, <1>3, SpreadWithin
<1>5. \A r \in G : receipts[r].contract = source[receipts[r].work]
  BY <1>1 DEF Ground
<1> QED
  BY <1>4, <1>5 DEF edges

----------------------------------------------------------------------------
(* What no step does. *)

\* A set of numbers up to a bound has a greatest.
LEMMA GreatestNumber ==
  ASSUME NEW T \in SUBSET Nat, T # {}, NEW n \in Nat, \A t \in T : t <= n
  PROVE  \E t \in T : \A s \in T : s <= t
<1> DEFINE U == {u \in Nat : \A t \in T : t <= u}
<1>1. U \in SUBSET Nat /\ U # {}
  OBVIOUS
<1>2. PICK u \in U : \A m \in U : ~ (m < u)
  <2> HIDE DEF U
  <2> QED
    BY <1>1, LeastNumber, Zenon
<1>3. u \in T
  <2>1. SUFFICES ASSUME u \notin T
                 PROVE  FALSE
    OBVIOUS
  <2>2. \A t \in T : t < u /\ t \in Nat
    BY <1>2, <2>1
  <2>3. u # 0 /\ u - 1 \in Nat /\ u - 1 < u
    <3>1. PICK t \in T : t < u /\ t \in Nat
      BY <2>2
    <3> QED
      BY <1>2, <3>1
  <2>4. \A t \in T : t <= u - 1
    BY <1>2, <2>2, <2>3
  <2> QED
    BY <1>2, <2>3, <2>4
<1> QED
  BY <1>2, <1>3

\* The pinned round about a bundle is the newest about it.
LEMMA PinnedIsNewest ==
  ASSUME RoundsOK, NEW v, NEW k \in DOMAIN rounds, Bundle(rounds[k].evidence) = Bundle(v)
  PROVE  \A j \in DOMAIN rounds : Bundle(rounds[j].evidence) = Bundle(v) => j <= PinnedRound(v)
<1> DEFINE about == {j \in DOMAIN rounds : Bundle(rounds[j].evidence) = Bundle(v)}
<1>1. DOMAIN rounds = 1 .. Len(rounds) /\ Len(rounds) \in Nat
  BY TableDomain DEF RoundsOK
<1>2. about \in SUBSET Nat /\ about # {} /\ \A j \in about : j <= Len(rounds)
  BY <1>1
<1> HIDE DEF about
<1>3. \E t \in about : \A j \in about : j <= t
  BY <1>1, <1>2, GreatestNumber
<1>4. PinnedRound(v) = CHOOSE t \in about : \A j \in about : j <= t
  BY DEF PinnedRound, about
<1>5. \A j \in about : j <= PinnedRound(v)
  BY <1>3, <1>4
<1> QED
  BY <1>5 DEF about

LEMMA VerdictStep == CompletionInv /\ [Next]_vars => VerdictNewest
<1> SUFFICES ASSUME CompletionInv, [Next]_vars, NEW r \in DOMAIN receipts', r \notin DOMAIN receipts
             PROVE  LET k == receipts'[r].round
                    IN  k # 0 /\ ~ Accepted(k) =>
                          \A j \in DOMAIN rounds : rounds[j].evidence.work = receipts'[r].work => j <= k
  BY DEF VerdictNewest
<1>1. CompletionTypeOK /\ RoundsOrdered /\ RoundsOK
  BY TypeParts DEF CompletionInv
<1>2. receipts' # receipts
  OBVIOUS
<1>3. PICK a \in Actors, v \in evidence, k \in 0 .. Len(rounds) : Complete(a, v, k)
  BY <1>2 DEF Next, vars, Start, Report, Reconcile, Submit, Open, Decide, RegisterPr, ObserveMismatch, Publish, Revoke,
              Adopt, Activate
<1>4. receipts'[r].round = k /\ receipts'[r].work = v.work
  BY <1>1, <1>3, CompleteRows
<1>5. SUFFICES ASSUME k # 0, ~ Accepted(k), NEW j \in DOMAIN rounds, rounds[j].evidence.work = v.work
               PROVE  j <= k
  BY <1>4
<1>6. Reviewed(v, k)
  BY <1>3, <1>5 DEF Complete
<1>7. /\ k \in DOMAIN rounds /\ Bundle(rounds[k].evidence) = Bundle(v)
      /\ k = PinnedRound(v) /\ rounds[k].state = "approved"
  BY <1>6 DEF Reviewed
<1>8. DOMAIN rounds = 1 .. Len(rounds) /\ Len(rounds) \in Nat /\ j \in Nat /\ k \in Nat
  BY <1>1, <1>7, RoundFields
<1>9. CASE Bundle(rounds[j].evidence) = Bundle(v)
  BY <1>1, <1>7, <1>9, PinnedIsNewest
<1>10. CASE Bundle(rounds[j].evidence) # Bundle(v)
  <2>1. rounds[k].evidence.work = v.work
    BY <1>7 DEF Bundle
  <2>2. ~ (k < j)
    BY <1>1, <1>5, <1>7, <1>10, <2>1 DEF RoundsOrdered
  <2> QED
    BY <1>8, <2>2
<1> QED
  BY <1>9, <1>10

\* What is proven stays so while its execution is known to have succeeded.
LEMMA ProvenStays ==
  ASSUME CompletionTypeOK, [Next]_vars, NEW r \in DOMAIN receipts, Proven(r),
         executions'[receipts[r].evidence.execution].state = "succeeded"
  PROVE  Proven(r)'
<1> DEFINE d == receipts[r]
<1>1. RoundsKept /\ ReceiptsKept /\ RunsKept
  BY RoundsStep, ReceiptsStep, RunsStep
<1>2. EvidenceOK /\ RoundsOK /\ ReceiptsOK /\ RunsOK
  BY TypeParts
<1>3. receipts'[r] = d
  BY <1>1 DEF ReceiptsKept
<1>4. d.evidence.execution \in DOMAIN executions
  <2>1. d.evidence \in evidence
    BY <1>2 DEF ReceiptsOK
  <2>2. d.evidence.execution \in 0 .. Len(executions) /\ d.evidence.execution # 0
    BY <1>2, <2>1 DEF EvidenceOK, Proven
  <2>3. DOMAIN executions = 1 .. Len(executions) /\ Len(executions) \in Nat
    BY <1>2, TableDomain DEF RunsOK
  <2> QED
    BY <2>2, <2>3
<1>5. executions'[d.evidence.execution].contract = d.contract
  BY <1>1, <1>4 DEF RunsKept, Proven
<1>6. d.round \in DOMAIN rounds
  <2>1. d.round \in 0 .. Len(rounds) /\ d.round # 0
    BY <1>2 DEF ReceiptsOK, Proven
  <2>2. DOMAIN rounds = 1 .. Len(rounds) /\ Len(rounds) \in Nat
    BY <1>2, TableDomain DEF RoundsOK
  <2> QED
    BY <2>1, <2>2
<1>7. Accepted(d.round)
  BY DEF Accepted
<1>8. rounds'[d.round].state = "approved" /\ rounds'[d.round].evidence = d.evidence
  BY <1>1, <1>6, <1>7 DEF RoundsKept, KeepsRound, Proven
<1> QED
  BY <1>3, <1>5, <1>8 DEF Proven

LEMMA FixedStep == CompletionInv /\ [Next]_vars => FixedInputsKept
<1> SUFFICES ASSUME CompletionInv, [Next]_vars, NEW c \in Works, NEW p \in Works,
                    AdoptedReceipt(source, c, p, "fixed") # 0,
                    adopted'[c][p] = adopted[c][p],
                    exports'[adopted[c][p]].status # "revoked",
                    source'[c] = source[c],
                    executions'[receipts[AdoptedReceipt(source, c, p, "fixed")].evidence.execution].state = "succeeded"
             PROVE  AdoptedReceipt(source, c, p, "fixed")' = AdoptedReceipt(source, c, p, "fixed")
  BY DEF FixedInputsKept
<1> PICK x, r : x = adopted[c][p] /\ r = exports[x].receipt
  OBVIOUS
<1>1. CompletionTypeOK /\ ExportsOK /\ AdoptedOK
  BY TypeParts DEF CompletionInv
<1>2. /\ x \in DOMAIN exports /\ AdoptedReceipt(source, c, p, "fixed") = r
      /\ Validated(source, x) /\ exports[x].mode = "fixed"
      /\ r \in DOMAIN receipts
  BY <1>1, AdoptedExists
<1>3. exports'[x] = exports[x]
  BY <1>1, <1>2, ExportsStep DEF ExportsKept
<1>4. Proven(r)
  BY <1>2 DEF Validated
<1>5. Proven(r)'
  BY <1>1, <1>2, <1>4, ProvenStays
<1>6. x # 0 /\ exports[x].consumer = c
  BY <1>1, <1>2 DEF AdoptedReceipt, AdoptedOK
<1>7. Validated(source, x)'
  BY <1>2, <1>3, <1>5, <1>6 DEF Validated
<1>8. adopted'[c][p] = x /\ exports'[x].mode = "fixed" /\ exports'[x].receipt = r
  BY <1>2, <1>3
<1> QED
  BY <1>2, <1>6, <1>7, <1>8 DEF AdoptedReceipt

\* An activation proves nothing that was not proven.
LEMMA NothingProven ==
  ASSUME CompletionTypeOK, NEW next \in Proposals[source], Activate(next), NEW r \in DOMAIN receipts, Proven(r)'
  PROVE  Proven(r)
<1> DEFINE gone == {k \in DOMAIN rounds : Withdrawable(k) /\ rounds[k].evidence.work \in Affected(next)}
<1>1. rounds' = Invalidated(gone) /\ executions' = executions /\ receipts' = receipts
  BY ActivateRows
<1>2. RoundsOK /\ ReceiptsOK
  BY TypeParts
<1> HIDE DEF gone
<1>3. /\ receipts[r].round # 0 /\ rounds'[receipts[r].round].state = "approved"
      /\ rounds'[receipts[r].round].evidence = receipts[r].evidence
  BY <1>1 DEF Proven
<1>4. receipts[r].round \in DOMAIN rounds
  <2>1. receipts[r].round \in 0 .. Len(rounds)
    BY <1>2 DEF ReceiptsOK
  <2>2. DOMAIN rounds = 1 .. Len(rounds) /\ Len(rounds) \in Nat
    BY <1>2, TableDomain DEF RoundsOK
  <2> QED
    BY <1>3, <2>1, <2>2
<1>5. rounds'[receipts[r].round] = rounds[receipts[r].round]
  BY <1>1, <1>2, <1>3, <1>4, InvalidatedRows
<1> QED
  BY <1>1, <1>5 DEF Proven

\* A fixed delivery is worth after the activation what it was to be worth.
LEMMA FixedAfter ==
  ASSUME CompletionTypeOK, NEW next \in Proposals[source], Activate(next), NEW c \in Works, NEW p \in Works
  PROVE  AdoptedReceipt(source, c, p, "fixed")' = AdoptedReceipt(next, c, p, "fixed")
<1> PICK x : x = adopted[c][p]
  OBVIOUS
<1>1. /\ source' = next /\ exports' = exports /\ adopted' = adopted /\ executions' = executions /\ receipts' = receipts
      /\ [Next]_vars
  BY ActivateRows DEF Next
<1>2. CASE x = 0
  BY <1>1, <1>2 DEF AdoptedReceipt
<1>3. CASE x # 0 /\ exports[x].mode # "fixed"
  BY <1>1, <1>3 DEF AdoptedReceipt
<1>4. CASE x # 0 /\ exports[x].mode = "fixed"
  <2>1. exports[x].receipt \in DOMAIN receipts
    BY <1>4, TypeParts DEF AdoptedOK, ExportsOK
  <2> PICK r : r = exports[x].receipt
    OBVIOUS
  <2>2. Proven(r) => Proven(r)'
    <3>1. ASSUME Proven(r)
          PROVE  executions'[receipts[r].evidence.execution].state = "succeeded"
      BY <1>1, <3>1 DEF Proven
    <3> QED
      BY <1>1, <2>1, <3>1, ProvenStays
  <2>3. Proven(r)' => Proven(r)
    BY <2>1, NothingProven
  <2>4. Validated(source, x)' <=> Validated(next, x)
    BY <1>1, <1>4, <2>2, <2>3 DEF Validated
  <2> QED
    BY <1>1, <1>4, <2>4 DEF AdoptedReceipt
<1> QED
  BY <1>2, <1>3, <1>4

\* The receipts that stay selected stand.
LEMMA KeptStand ==
  ASSUME CompletionTypeOK, NEW next \in Proposals[source], Activate(next),
         NEW w \in Works, NEW r \in DOMAIN receipts, selected[w] = r, r \notin Reopened(next)
  PROVE  Stands(r)'
<1>1. /\ receipts[r].work = w /\ receipts[r].contract = next[w]
      /\ \A p \in DOMAIN receipts[r].links :
           IF Fixed(next[w], p) THEN AdoptedReceipt(next, w, p, "fixed") = receipts[r].links[p]
           ELSE p \in Works /\ selected'[p] = receipts[r].links[p]
  <2>1. r # 0
    BY TypeParts, ReceiptFields
  <2> QED
    BY <2>1, NotReopened
<1>2. source' = next /\ receipts' = receipts
  BY ActivateRows
<1>3. \A p \in DOMAIN receipts[r].links : p \in Works
  BY TypeParts, ReceiptFields, ContractFields
<1>4. \A p \in DOMAIN receipts[r].links : AdoptedReceipt(source, w, p, "fixed")' = AdoptedReceipt(next, w, p, "fixed")
  BY <1>3, FixedAfter
<1> QED
  BY <1>1, <1>2, <1>4 DEF Stands

\* Nothing that stands is reopened.
LEMMA ReopenedFall ==
  ASSUME CompletionTypeOK, NEW next \in Proposals[source], Activate(next),
         NEW w \in Works, NEW r \in DOMAIN receipts, selected[w] = r, r \in Reopened(next)
  PROVE  ~ Stands(r)'
<1> PICK G : G = {q \in {selected[x] : x \in Works} \ {0} : ~ Stands(q)'}
  <2> DEFINE Fallen == {q \in {selected[x] : x \in Works} \ {0} : ~ Stands(q)'}
  <2>1. \E G : G = Fallen
    OBVIOUS
  <2> QED
    BY <2>1
<1>1. /\ source' = next /\ receipts' = receipts
      /\ \A x \in Works : selected'[x] = IF selected[x] \in Reopened(next) THEN 0 ELSE selected[x]
  BY ActivateRows
<1>2. SelectedOK /\ ReceiptsOK
  BY TypeParts
<1>3. ASSUME NEW x \in Works, selected[x] # 0
      PROVE  /\ selected[x] \in DOMAIN receipts /\ receipts[selected[x]].work = x
             /\ \A p \in DOMAIN receipts[selected[x]].links :
                  /\ p \in Works /\ receipts[selected[x]].links[p] # 0
                  /\ AdoptedReceipt(source, x, p, "fixed")' = AdoptedReceipt(next, x, p, "fixed")
  <2>1. selected[x] \in DOMAIN receipts /\ receipts[selected[x]].work = x
    BY <1>2, <1>3 DEF SelectedOK
  <2>2. ASSUME NEW p \in DOMAIN receipts[selected[x]].links
        PROVE  p \in Works /\ receipts[selected[x]].links[p] # 0
    <3>1. p \in Works
      BY <1>2, <2>1, ReceiptFields, ContractFields
    <3>2. receipts[selected[x]].links[p] \in 1 .. selected[x] - 1
      BY <1>2, <2>1 DEF ReceiptsOK
    <3> QED
      BY <3>1, <3>2
  <2> QED
    BY <2>1, <2>2, FixedAfter
<1>4. ASSUME NEW x \in Works, NEW q \in DOMAIN receipts, selected[x] = q,
             \/ receipts[q].contract # next[x]
             \/ \E p \in DOMAIN receipts[q].links :
                  IF Fixed(next[x], p) THEN AdoptedReceipt(next, x, p, "fixed") # receipts[q].links[p]
                  ELSE selected'[p] # receipts[q].links[p]
      PROVE  q \in G
  <2>1. q # 0
    BY <1>2, ReceiptFields
  <2>2. Stands(q)' =>
          /\ receipts[q].contract = next[x]
          /\ \A p \in DOMAIN receipts[q].links :
               IF Fixed(next[x], p) THEN AdoptedReceipt(source, x, p, "fixed")' = receipts[q].links[p]
               ELSE selected'[p] = receipts[q].links[p]
    BY <1>1, <1>3, <1>4, <2>1 DEF Stands
  <2>3. ~ Stands(q)'
    BY <1>3, <1>4, <2>1, <2>2
  <2> QED
    BY <1>4, <2>1, <2>3
<1>5. Stale(next) \subseteq G
  <2>1. SUFFICES ASSUME NEW q \in Stale(next)
                 PROVE  q \in G
    OBVIOUS
  <2>2. PICK x \in Works : selected[x] = q /\ q # 0
    BY DEF Stale
  <2>3. q \in DOMAIN receipts /\ receipts[q].work = x
    BY <1>3, <2>2
  <2>4. \/ receipts[q].contract # next[x]
        \/ \E p \in DOMAIN receipts[q].links :
             IF Fixed(next[x], p) THEN AdoptedReceipt(next, x, p, "fixed") # receipts[q].links[p]
             ELSE selected[p] # receipts[q].links[p]
    BY <2>3 DEF Stale
  <2>5. \A p \in DOMAIN receipts[q].links :
          selected[p] # receipts[q].links[p] => selected'[p] # receipts[q].links[p]
    BY <1>1, <1>3, <2>2
  <2> QED
    BY <1>4, <2>2, <2>3, <2>4, <2>5
<1>6. ASSUME NEW e \in Chained(next), e[1] \in G
      PROVE  e[2] \in G
  <2>1. /\ e[2] \in {selected[x] : x \in Works} /\ e[2] # 0
        /\ \E p \in DOMAIN receipts[e[2]].links :
             receipts[e[2]].links[p] = e[1] /\ ~ Fixed(next[receipts[e[2]].work], p)
    BY DEF Chained
  <2>2. PICK x \in Works : selected[x] = e[2]
    BY <2>1
  <2>3. e[2] \in DOMAIN receipts /\ receipts[e[2]].work = x
    BY <1>3, <2>1, <2>2
  <2>4. PICK p \in DOMAIN receipts[e[2]].links : receipts[e[2]].links[p] = e[1] /\ ~ Fixed(next[x], p)
    BY <2>1, <2>3
  <2>5. PICK y \in Works : selected[y] = e[1] /\ e[1] # 0 /\ ~ Stands(e[1])'
    BY <1>6
  <2>6. e[1] \in DOMAIN receipts /\ receipts[e[1]].work = y
    BY <1>3, <2>5
  <2>7. e[1] \in Reopened(next)
    BY <2>5, <2>6, KeptStand
  <2>8. y = p
    BY <1>2, <2>3, <2>4, <2>6 DEF ReceiptsOK
  <2>9. selected'[p] # receipts[e[2]].links[p]
    BY <1>1, <2>4, <2>5, <2>7, <2>8
  <2> QED
    BY <1>4, <2>2, <2>3, <2>4, <2>9
<1>7. r \in G
  <2>1. Spread(Stale(next), Chained(next)) \subseteq G
    BY <1>5, <1>6, SpreadWithin
  <2> QED
    BY <2>1 DEF Reopened
<1> QED
  BY <1>7

LEMMA ReopenStep == CompletionInv /\ [Next]_vars => ReopenedExactly
<1> SUFFICES ASSUME CompletionInv, [Next]_vars, activations' # activations,
                    NEW r \in DOMAIN receipts, selected[receipts[r].work] = r
             PROVE  selected'[receipts[r].work] = r <=> Stands(r)'
  BY DEF ReopenedExactly
<1>1. PICK next \in Proposals[source] : Activate(next)
  BY DEF Next, vars, Start, Report, Reconcile, Submit, Open, Decide, RegisterPr, ObserveMismatch, Complete, Publish,
         Revoke, Adopt
<1> PICK w : w = receipts[r].work
  OBVIOUS
<1>2. CompletionTypeOK /\ w \in Works /\ r # 0
  BY TypeParts, ReceiptFields DEF CompletionInv
<1>3. selected'[w] = IF r \in Reopened(next) THEN 0 ELSE r
  BY <1>1, <1>2, ActivateRows
<1>4. Stands(r)' <=> r \notin Reopened(next)
  BY <1>1, <1>2, KeptStand, ReopenedFall
<1> QED
  BY <1>2, <1>3, <1>4

\* An activation reopens exactly the completions that do not stand afterwards,
\* through chains of any length (activate_in_tx, completion_invalidation.rs).
THEOREM ActivationsReopenExactly == Spec => ReopensExactly
<1>1. CompletionInv /\ [Next]_vars => [ReopenedExactly]_vars
  BY ReopenStep
<1> QED
  BY <1>1, CompletionInvariant, PTL DEF Spec, ReopensExactly

\* A fixed delivery a consumer relies on stands until it is replaced, revoked,
\* outgrown by the consumer's contract or put in doubt with its execution.
THEOREM FixedDeliveriesStand == Spec => FixedInputsStand
<1>1. CompletionInv /\ [Next]_vars => [FixedInputsKept]_vars
  BY FixedStep
<1> QED
  BY <1>1, CompletionInvariant, PTL DEF Spec, FixedInputsStand

\* A verdict that was overtaken by another round of the work completes nothing.
THEOREM NewestVerdictsComplete == Spec => VerdictsAreNewest
<1>1. CompletionInv /\ [Next]_vars => [VerdictNewest]_vars
  BY VerdictStep
<1> QED
  BY <1>1, CompletionInvariant, PTL DEF Spec, VerdictsAreNewest

----------------------------------------------------------------------------
(* What stands behind a receipt. *)

\* A completion that needed a review has one: the round it accepted is approved
\* to this day, about the same bundle, and by another person than the one who
\* opened it unless the policy allows a review of one's own.
AcceptanceStands(r) ==
  LET d == receipts[r] IN
  d.contract.policy # "ordinary_confirm" =>
    /\ d.round \in DOMAIN rounds
    /\ rounds[d.round].state = "approved"
    /\ Bundle(rounds[d.round].evidence) = Bundle(d.evidence)
    /\ SamePerson(rounds[d.round].reviewer, rounds[d.round].opener) => SelfReviewPermitted(d.contract.policy)

AcceptancesStand == \A r \in DOMAIN receipts : AcceptanceStands(r)

LEMMA AcceptanceStep ==
  ASSUME CompletionTypeOK, AcceptancesStand, [Next]_vars
  PROVE  AcceptancesStand'
<1>1. RoundsKept /\ ReceiptsKept
  BY RoundsStep, ReceiptsStep
<1>2. ASSUME NEW r \in DOMAIN receipts
      PROVE  AcceptanceStands(r)'
  <2>1. r \in DOMAIN receipts' /\ receipts'[r] = receipts[r] /\ AcceptanceStands(r)
    BY <1>1, <1>2 DEF ReceiptsKept, AcceptancesStand
  <2>2. Accepted(receipts[r].round)
    BY DEF Accepted
  <2>3. receipts[r].contract.policy # "ordinary_confirm" =>
          receipts[r].round \in DOMAIN rounds' /\ rounds'[receipts[r].round] = rounds[receipts[r].round]
    BY <1>1, <2>1, <2>2 DEF RoundsKept, KeepsRound, AcceptanceStands
  <2> QED
    BY <2>1, <2>3 DEF AcceptanceStands, Bundle, SamePerson, SelfReviewPermitted
<1>3. ASSUME NEW a \in Actors, NEW v \in evidence, NEW k \in 0 .. Len(rounds), Complete(a, v, k),
             NEW n, n = Len(receipts) + 1
      PROVE  AcceptanceStands(n)'
  <2>1. /\ receipts'[n].contract = v.contract /\ receipts'[n].evidence = v /\ receipts'[n].round = k
        /\ rounds' = rounds
    BY <1>3, CompleteRows
  <2>2. v.contract.policy # "ordinary_confirm" => Reviewed(v, k)
    BY <1>3 DEF Complete
  <2> QED
    BY <2>1, <2>2 DEF AcceptanceStands, Reviewed, Bundle, SamePerson, SelfReviewPermitted
<1>4. CASE UNCHANGED receipts
  BY <1>2, <1>4 DEF AcceptancesStand
<1>5. CASE \E a \in Actors, v \in evidence, k \in 0 .. Len(rounds) : Complete(a, v, k)
  <2>1. PICK n : n = Len(receipts) + 1
    OBVIOUS
  <2>2. \A r \in DOMAIN receipts' : r \in DOMAIN receipts \/ r = n
    BY <1>5, <2>1, CompleteRows
  <2>3. AcceptanceStands(n)'
    BY <1>3, <1>5, <2>1
  <2> QED
    BY <1>2, <2>2, <2>3 DEF AcceptancesStand
<1>6. [Next]_vars => \/ UNCHANGED receipts
                     \/ \E a \in Actors, v \in evidence, k \in 0 .. Len(rounds) : Complete(a, v, k)
  BY DEF Next, vars, Start, Report, Reconcile, Submit, Open, Decide, RegisterPr, ObserveMismatch, Publish, Revoke,
         Adopt, Activate
<1> QED
  BY <1>4, <1>5, <1>6

\* No completion of reviewed work ever rests on a withdrawn round, on a review
\* of something else, or on a review by its own author that the policy does not
\* allow (complete, decide, and the exemption of accepted rounds).
THEOREM CompletionsStayReviewed == Spec => []AcceptancesStand
<1>1. Init => AcceptancesStand
  BY DEF Init, AcceptancesStand
<1>2. CompletionInv /\ AcceptancesStand /\ [Next]_vars => AcceptancesStand'
  BY AcceptanceStep DEF CompletionInv
<1> QED
  BY <1>1, <1>2, CompletionInvariant, PTL DEF Spec

=============================================================================
