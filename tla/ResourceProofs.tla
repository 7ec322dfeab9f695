--------------------------- MODULE ResourceProofs ---------------------------
(* Proofs about resource bounds, for every value of the constants. *)
EXTENDS ResourceBounds, SequenceTheorems, WellFoundedInduction, TLAPS

----------------------------------------------------------------------------
(* Induction: every set of numbers has a least one. *)

LEMMA LeastNumber ==
  ASSUME NEW T \in SUBSET Nat, T # {}
  PROVE  \E n \in T : \A m \in T : ~ (m < n)
<1>1. PICK n \in T : \A m \in T : <<m, n>> \notin OpToRel(<, Nat)
  BY NatLessThanWellFounded, WFMin, Zenon
<1>2. \A m \in Nat, k \in Nat : m < k => <<m, k>> \in OpToRel(<, Nat)
  BY DEF OpToRel
<1> QED
  BY <1>1, <1>2, Zenon

\* A set of numbers up to k that holds 0 and the successor of each of its
\* members below k holds them all.
LEMMA Induction ==
  ASSUME NEW k \in Nat, NEW S, 0 \in S, \A n \in S : n \in 0 .. k - 1 => n + 1 \in S
  PROVE  0 .. k \subseteq S
<1>1. SUFFICES ASSUME (0 .. k) \ S # {}
               PROVE  FALSE
  OBVIOUS
<1> DEFINE T == (0 .. k) \ S
<1>2. PICK n \in T : \A m \in T : ~ (m < n)
  <2>1. T \in SUBSET Nat /\ T # {}
    BY <1>1
  <2> QED
    BY <2>1, LeastNumber, Zenon
<1>3. n # 0 /\ n - 1 \in 0 .. k - 1 /\ n - 1 < n /\ (n - 1) + 1 = n
  BY <1>2
<1>4. n - 1 \in S
  BY <1>2, <1>3
<1> QED
  BY <1>2, <1>3, <1>4

----------------------------------------------------------------------------
(* Canonical keys. *)

\* f holds what is kept of the first segments of raw, up to n of them.
Keeps(raw, n, f) ==
  f = [i \in 0 .. n |->
         IF i = 0 THEN <<>>
         ELSE IF raw[i] \in Blank THEN f[i - 1]
         ELSE Append(f[i - 1], raw[i])]

LEMMA KeepsExists ==
  ASSUME NEW raw, NEW k \in Nat
  PROVE  \E f : Keeps(raw, k, f)
<1> DEFINE S == {n \in 0 .. k : \E f : Keeps(raw, n, f)}
<1>1. 0 \in S
  <2>1. Keeps(raw, 0, [i \in 0 .. 0 |-> <<>>])
    BY DEF Keeps
  <2> QED
    BY <2>1
<1>2. ASSUME NEW n \in S, n \in 0 .. k - 1
      PROVE  n + 1 \in S
  <2>1. PICK f : Keeps(raw, n, f)
    BY <1>2
  <2> DEFINE last == IF raw[n + 1] \in Blank THEN f[n] ELSE Append(f[n], raw[n + 1])
             g == [i \in 0 .. n + 1 |-> IF i = n + 1 THEN last ELSE f[i]]
  <2>2. n \in Nat /\ n + 1 # 0 /\ (n + 1) - 1 = n /\ n # n + 1 /\ n + 1 \in 0 .. k
    BY <1>2
  <2>3. g[n + 1] = last /\ \A i \in 0 .. n : g[i] = f[i]
    BY <2>2
  <2>4. ASSUME NEW i \in 0 .. n + 1
        PROVE  g[i] = IF i = 0 THEN <<>>
                      ELSE IF raw[i] \in Blank THEN g[i - 1]
                      ELSE Append(g[i - 1], raw[i])
    <3>1. CASE i = n + 1
      <4>1. g[n] = f[n]
        BY <2>2, <2>3
      <4> QED
        BY <2>2, <2>3, <3>1, <4>1
    <3>2. CASE i # n + 1
      <4>1. i \in 0 .. n /\ (i # 0 => i - 1 \in 0 .. n)
        BY <2>2, <3>2
      <4>2. g[i] = f[i] /\ (i # 0 => g[i - 1] = f[i - 1])
        BY <2>3, <4>1
      <4> HIDE DEF g
      <4>3. f[i] = IF i = 0 THEN <<>>
                   ELSE IF raw[i] \in Blank THEN f[i - 1]
                   ELSE Append(f[i - 1], raw[i])
        BY <2>1, <4>1 DEF Keeps
      <4> QED
        BY <4>2, <4>3
    <3> QED
      BY <3>1, <3>2
  <2>5. Keeps(raw, n + 1, g)
    <3>1. g = [i \in 0 .. n + 1 |-> g[i]]
      OBVIOUS
    <3> HIDE DEF g
    <3> QED
      BY <2>4, <3>1 DEF Keeps
  <2> QED
    BY <2>2, <2>5
<1>3. k \in S
  <2> HIDE DEF S
  <2> QED
    BY <1>1, <1>2, Induction
<1> QED
  BY <1>3

\* What canonicalize computes, from left to right.
LEMMA CanonicalSteps ==
  ASSUME NEW raw \in Seq(STRING)
  PROVE  \E f : Keeps(raw, Len(raw), f) /\ Canonicalize(raw) = f[Len(raw)]
<1> DEFINE f == CHOOSE g : Keeps(raw, Len(raw), g)
<1>1. Keeps(raw, Len(raw), f)
  BY KeepsExists, LenProperties
<1>2. Canonicalize(raw) = f[Len(raw)]
  BY DEF Canonicalize, Keeps
<1> QED
  BY <1>1, <1>2

\* A canonical key has no blank segment ...
LEMMA CanonicalNames ==
  ASSUME NEW raw \in Seq(STRING)
  PROVE  Canonicalize(raw) \in Seq(STRING \ Blank)
<1>1. PICK f : Keeps(raw, Len(raw), f) /\ Canonicalize(raw) = f[Len(raw)]
  BY CanonicalSteps
<1> DEFINE S == {i \in 0 .. Len(raw) : f[i] \in Seq(STRING \ Blank)}
<1>2. Len(raw) \in Nat
  BY LenProperties
<1>3. 0 \in S
  BY <1>1, <1>2 DEF Keeps
<1>4. ASSUME NEW n \in S, n \in 0 .. Len(raw) - 1
      PROVE  n + 1 \in S
  <2>1. n + 1 \in 1 .. Len(raw) /\ n + 1 \in 0 .. Len(raw) /\ n + 1 # 0 /\ (n + 1) - 1 = n
    BY <1>2, <1>4
  <2>2. raw[n + 1] \in STRING
    BY <2>1, ElementOfSeq
  <2>3. f[n + 1] = IF raw[n + 1] \in Blank THEN f[n] ELSE Append(f[n], raw[n + 1])
    BY <1>1, <2>1 DEF Keeps
  <2>4. f[n] \in Seq(STRING \ Blank)
    OBVIOUS
  <2>5. f[n + 1] \in Seq(STRING \ Blank)
    BY <2>2, <2>3, <2>4, AppendProperties
  <2> QED
    BY <2>1, <2>5
<1>5. Len(raw) \in S
  <2> HIDE DEF S
  <2> QED
    BY <1>2, <1>3, <1>4, Induction
<1> QED
  BY <1>1, <1>5

\* ... and one without blank segments is canonical.
LEMMA NamesCanonical ==
  ASSUME NEW raw \in Seq(STRING \ Blank)
  PROVE  Canonicalize(raw) = raw
<1>0. raw \in Seq(STRING) /\ Len(raw) \in Nat
  BY LenProperties
<1>1. PICK f : Keeps(raw, Len(raw), f) /\ Canonicalize(raw) = f[Len(raw)]
  BY <1>0, CanonicalSteps
<1> DEFINE Same(i) == /\ f[i] \in Seq(STRING \ Blank) /\ Len(f[i]) = i
                      /\ \A j \in 1 .. i : f[i][j] = raw[j]
           S == {i \in 0 .. Len(raw) : Same(i)}
<1>3. 0 \in S
  BY <1>0, <1>1 DEF Keeps
<1>4. ASSUME NEW n \in S, n \in 0 .. Len(raw) - 1
      PROVE  n + 1 \in S
  <2>1. n + 1 \in 1 .. Len(raw) /\ n + 1 \in 0 .. Len(raw) /\ n + 1 # 0 /\ (n + 1) - 1 = n
    BY <1>0, <1>4
  <2>2. raw[n + 1] \in STRING \ Blank
    BY <2>1, ElementOfSeq
  <2>3. f[n + 1] = Append(f[n], raw[n + 1])
    BY <1>1, <2>1, <2>2 DEF Keeps
  <2>4. Same(n)
    OBVIOUS
  <2>5. Same(n + 1)
    BY <2>1, <2>2, <2>3, <2>4, AppendProperties
  <2> QED
    BY <2>1, <2>5
<1>5. Len(raw) \in S
  <2> HIDE DEF S
  <2> QED
    BY <1>0, <1>3, <1>4, Induction
<1> QED
  BY <1>0, <1>1, <1>5, SeqEqual

LEMMA Canonical ==
  ASSUME NEW raw \in Seq(STRING)
  PROVE  /\ Canonicalize(raw) \in Seq(STRING) /\ Len(Canonicalize(raw)) \in Nat
         /\ Canonicalize(Canonicalize(raw)) = Canonicalize(raw)
  BY CanonicalNames, NamesCanonical, LenProperties


----------------------------------------------------------------------------
(* The inductive invariant. *)

\* Reservations of different executions do not conflict, as the code computes it.
NoConflicts ==
  \A q, r \in reservations : q.holder # r.holder => ~ ResourcesConflict(q.bound, r.bound)

\* Every declared path of a running execution is reserved for it.
ScopesReserved ==
  \A e \in Executions : \A raw \in scopes[e].declared :
    /\ KeyAccepted("dir", raw)
    /\ [holder |-> e, bound |-> Bound("dir", raw, scopes[e].worktree)] \in reservations

ResourceInv == TypeOK /\ NoConflicts /\ ScopesReserved

Row == [holder : Executions,
        bound : [kind : Kinds \cup {"dir"}, key : Seq(STRING), worktree : Worktrees]]

\* What a stored bound looks like.
Stored(bound) ==
  /\ bound \in [kind : Kinds \cup {"dir"}, key : Seq(STRING), worktree : Worktrees]
  /\ bound.kind \in PathKinds =>
       bound.key # <<>> /\ bound.key = Canonicalize(bound.key) /\ ~ Parent(bound.key)

LEMMA StoredRows ==
  ASSUME TypeOK, NEW r \in reservations
  PROVE  r.holder \in Executions /\ Stored(r.bound)
<1>1. r \in Row
  BY DEF TypeOK, Row
<1> QED
  BY <1>1 DEF TypeOK, Row, Stored

\* Canonicalising a key without parents leaves it without.
LEMMA ParentsRefused ==
  ASSUME NEW raw \in Seq(STRING), ~ Parent(raw)
  PROVE  ~ Parent(Canonicalize(raw))
<1>1. PICK f : Keeps(raw, Len(raw), f) /\ Canonicalize(raw) = f[Len(raw)]
  BY CanonicalSteps
<1> DEFINE N == STRING \ {".."}
           S == {i \in 0 .. Len(raw) : f[i] \in Seq(N)}
<1>2. Len(raw) \in Nat
  BY LenProperties
<1>3. 0 \in S
  BY <1>1, <1>2 DEF Keeps
<1>4. ASSUME NEW n \in S, n \in 0 .. Len(raw) - 1
      PROVE  n + 1 \in S
  <2>1. n + 1 \in 1 .. Len(raw) /\ n + 1 \in 0 .. Len(raw) /\ n + 1 # 0 /\ (n + 1) - 1 = n
    BY <1>2, <1>4
  <2>2. raw[n + 1] \in N
    BY <2>1, ElementOfSeq, LenProperties DEF Parent
  <2>3. f[n + 1] = IF raw[n + 1] \in Blank THEN f[n] ELSE Append(f[n], raw[n + 1])
    BY <1>1, <2>1 DEF Keeps
  <2>4. f[n] \in Seq(N)
    OBVIOUS
  <2> HIDE DEF N
  <2>5. f[n + 1] \in Seq(N)
    BY <2>2, <2>3, <2>4, AppendProperties
  <2> QED
    BY <2>1, <2>5
<1>5. Len(raw) \in S
  <2> HIDE DEF S
  <2> QED
    BY <1>2, <1>3, <1>4, Induction
<1>6. \A i \in DOMAIN Canonicalize(raw) : Canonicalize(raw)[i] \in N
  BY <1>1, <1>5, ElementOfSeq, LenProperties
<1> QED
  BY <1>6 DEF Parent

LEMMA BoundStored ==
  ASSUME NEW kind \in Kinds \cup {"dir"}, NEW raw \in RawKeys, NEW worktree \in Worktrees,
         KeyAccepted(kind, raw)
  PROVE  Stored(Bound(kind, raw, worktree))
<1>1. raw \in Seq(STRING)
  BY ResourceAssumption
<1>2. StoredKey(kind, raw) \in Seq(STRING)
  BY <1>1, Canonical DEF StoredKey
<1>3. CASE kind \in PathKinds
  <2>1. StoredKey(kind, raw) = Canonicalize(raw) /\ ~ Parent(raw) /\ Canonicalize(raw) # <<>>
    BY <1>3 DEF StoredKey, KeyAccepted
  <2> QED
    BY <1>1, <1>2, <2>1, Canonical, ParentsRefused DEF Stored, Bound
<1>4. CASE kind \notin PathKinds
  BY <1>2, <1>4 DEF Stored, Bound
<1> QED
  BY <1>3, <1>4

LEMMA OverlapSymmetric ==
  ASSUME NEW a \in Seq(STRING), NEW b \in Seq(STRING)
  PROVE  SegmentPrefixOverlap(a, b) <=> SegmentPrefixOverlap(b, a)
<1>1. Shorter(a, b) = Shorter(b, a)
  BY LenProperties DEF Shorter
<1> QED
  BY <1>1 DEF SegmentPrefixOverlap

\* Whichever of two bounds came first, they conflict or they do not.
LEMMA ConflictSymmetric ==
  ASSUME NEW a, NEW b, Stored(a), Stored(b)
  PROVE  ResourcesConflict(a, b) <=> ResourcesConflict(b, a)
<1>1. a.key \in Seq(STRING) /\ b.key \in Seq(STRING)
  BY DEF Stored
<1>2. SegmentPrefixOverlap(Canonicalize(a.key), Canonicalize(b.key))
        <=> SegmentPrefixOverlap(Canonicalize(b.key), Canonicalize(a.key))
  BY <1>1, Canonical, OverlapSymmetric
<1>3. PathLikeConflict(a.kind, a.key, b.kind, b.key) <=> PathLikeConflict(b.kind, b.key, a.kind, a.key)
  BY <1>2 DEF PathLikeConflict
<1> QED
  BY <1>3 DEF ResourcesConflict

----------------------------------------------------------------------------
(* Steps. *)

\* Bounds that conflict with no live reservation may be added for one holder.
LEMMA Added ==
  ASSUME TypeOK, NoConflicts, NEW e \in Executions, NEW New,
         \A bound \in New : Stored(bound) /\ Conflicting(bound) = {},
         reservations' = reservations \cup {[holder |-> e, bound |-> bound] : bound \in New}
  PROVE  /\ \A r \in reservations' : r.holder \in Executions /\ Stored(r.bound) /\ r \in Row
         /\ NoConflicts'
<1>1. ASSUME NEW r \in reservations'
      PROVE  r \in reservations \/ \E bound \in New : r = [holder |-> e, bound |-> bound]
  OBVIOUS
<1>2. \A r \in reservations' : r.holder \in Executions /\ Stored(r.bound) /\ r \in Row
  BY <1>1, StoredRows DEF TypeOK, Row, Stored
<1>3. ASSUME NEW q \in reservations', NEW r \in reservations', q.holder # r.holder
      PROVE  ~ ResourcesConflict(q.bound, r.bound)
  <2>1. CASE q \in reservations /\ r \in reservations
    BY <1>3, <2>1 DEF NoConflicts
  <2>2. CASE q \notin reservations
    <3>1. q.bound \in New /\ q.holder = e
      BY <1>1, <2>2
    <3>2. r \in reservations
      BY <1>1, <1>3, <3>1
    <3> QED
      BY <3>1, <3>2 DEF Conflicting
  <2>3. CASE r \notin reservations
    <3>1. r.bound \in New /\ r.holder = e
      BY <1>1, <2>3
    <3>2. q \in reservations
      BY <1>1, <1>3, <3>1
    <3>3. ~ ResourcesConflict(r.bound, q.bound)
      BY <3>1, <3>2 DEF Conflicting
    <3> QED
      BY <1>2, <3>3, ConflictSymmetric
  <2> QED
    BY <2>1, <2>2, <2>3
<1> QED
  BY <1>2, <1>3 DEF NoConflicts

LEMMA ReserveStep ==
  ASSUME ResourceInv, NEW e \in Executions, NEW kind \in Kinds, NEW raw \in RawKeys,
         NEW worktree \in Worktrees, ReserveBound(e, kind, raw, worktree)
  PROVE  ResourceInv'
<1> DEFINE bound == Bound(kind, raw, worktree)
           New == {bound}
<1>1. /\ KeyAccepted(kind, raw) /\ Conflicting(bound) = {} /\ UNCHANGED scopes
      /\ reservations' = reservations \cup {[holder |-> e, bound |-> b] : b \in New}
  BY DEF ReserveBound
<1>2. \A b \in New : Stored(b) /\ Conflicting(b) = {}
  BY <1>1, BoundStored
<1> HIDE DEF bound, New
<1>3. /\ \A r \in reservations' : Stored(r.bound) /\ r \in Row
      /\ NoConflicts'
  <2>1. TypeOK /\ NoConflicts
    BY DEF ResourceInv
  <2> QED
    BY <1>1, <1>2, <2>1, Added, Zenon
<1>4. TypeOK'
  BY <1>1, <1>3 DEF ResourceInv, TypeOK, Stored, Row
<1>5. ScopesReserved'
  BY <1>1 DEF ResourceInv, ScopesReserved
<1> QED
  BY <1>3, <1>4, <1>5 DEF ResourceInv

LEMMA StartStep ==
  ASSUME ResourceInv, NEW e \in Executions, NEW declared \in Scopes,
         NEW worktree \in Worktrees, StartExecution(e, declared, worktree)
  PROVE  ResourceInv'
<1> DEFINE New == DirBounds(declared, worktree)
           row == [declared |-> declared, worktree |-> worktree]
<1>1. /\ \A raw \in declared : KeyAccepted("dir", raw)
      /\ \A bound \in New : Conflicting(bound) = {}
      /\ reservations' = reservations \cup {[holder |-> e, bound |-> bound] : bound \in New}
      /\ scopes' = [scopes EXCEPT ![e] = row]
  BY DEF StartExecution
<1>2. declared \subseteq RawKeys
  BY DEF Scopes
<1>3. \A bound \in New : Stored(bound)
  BY <1>1, <1>2, BoundStored DEF DirBounds
<1>4. \A raw \in declared : Bound("dir", raw, worktree) \in New
  BY DEF DirBounds
<1> HIDE DEF New
<1>5. /\ \A r \in reservations' : Stored(r.bound) /\ r \in Row
      /\ NoConflicts'
  <2>1. /\ TypeOK /\ NoConflicts
        /\ \A bound \in New : Stored(bound) /\ Conflicting(bound) = {}
    BY <1>1, <1>3 DEF ResourceInv
  <2> QED
    BY <1>1, <2>1, Added, Zenon
<1>6. scopes' \in [Executions -> [declared : SUBSET RawKeys, worktree : Worktrees]]
  BY <1>1, <1>2 DEF ResourceInv, TypeOK
<1>7. TypeOK'
  BY <1>5, <1>6 DEF TypeOK, Stored, Row
<1>8. ASSUME NEW d \in Executions, NEW raw \in scopes'[d].declared
      PROVE  /\ KeyAccepted("dir", raw)
             /\ [holder |-> d, bound |-> Bound("dir", raw, scopes'[d].worktree)] \in reservations'
  <2>1. CASE d = e
    <3>1. scopes'[d] = row
      BY <1>1, <2>1 DEF ResourceInv, TypeOK
    <3> QED
      BY <1>1, <1>4, <1>8, <2>1, <3>1
  <2>2. CASE d # e
    <3>1. scopes'[d] = scopes[d]
      BY <1>1, <2>2 DEF ResourceInv, TypeOK
    <3> QED
      BY <1>1, <1>8, <3>1 DEF ResourceInv, ScopesReserved
  <2> QED
    BY <2>1, <2>2
<1>9. ScopesReserved'
  BY <1>8 DEF ScopesReserved
<1> QED
  BY <1>5, <1>7, <1>9 DEF ResourceInv

LEMMA ReleaseStep ==
  ASSUME ResourceInv, NEW e \in Executions, ReleaseSettled(e)
  PROVE  ResourceInv'
<1>1. /\ reservations' = {r \in reservations : r.holder # e}
      /\ scopes' = [scopes EXCEPT ![e] = NoScope]
  BY DEF ReleaseSettled
<1>2. scopes \in [Executions -> [declared : SUBSET RawKeys, worktree : Worktrees]]
  BY DEF ResourceInv, TypeOK
<1>3. NoScope \in [declared : SUBSET RawKeys, worktree : Worktrees] /\ NoScope.declared = {}
  BY ResourceAssumption DEF NoScope
<1>4. scopes' \in [Executions -> [declared : SUBSET RawKeys, worktree : Worktrees]]
  BY <1>1, <1>2, <1>3
<1>5. TypeOK'
  BY <1>1, <1>4 DEF ResourceInv, TypeOK
<1>6. NoConflicts'
  BY <1>1 DEF ResourceInv, NoConflicts
<1>7. ASSUME NEW d \in Executions, NEW raw \in scopes'[d].declared
      PROVE  /\ KeyAccepted("dir", raw)
             /\ [holder |-> d, bound |-> Bound("dir", raw, scopes'[d].worktree)] \in reservations'
  <2>1. d # e
    BY <1>1, <1>2, <1>3, <1>7
  <2>2. scopes'[d] = scopes[d]
    BY <1>1, <1>2, <2>1
  <2> QED
    BY <1>1, <1>7, <2>1, <2>2 DEF ResourceInv, ScopesReserved
<1>8. ScopesReserved'
  BY <1>7 DEF ScopesReserved
<1> QED
  BY <1>5, <1>6, <1>8 DEF ResourceInv


----------------------------------------------------------------------------
(* Theorems. *)

\* A bound of a worktree that protects a path is stored for it or above it.
LEMMA CoveredBelow ==
  ASSUME NEW a, Stored(a), NEW path \in Seq(STRING), a.kind \in PathKinds, Covers(a, path)
  PROVE  /\ a.key \in Seq(STRING) /\ a.key # <<>> /\ Len(a.key) \in Nat /\ Len(a.key) <= Len(path)
         /\ a.kind = "file" => a.key = path
         /\ \A i \in 1 .. Len(a.key) : a.key[i] = path[i]
<1>1. a.key \in Seq(STRING) /\ a.key # <<>> /\ Len(a.key) \in Nat /\ Len(path) \in Nat
  BY LenProperties DEF Stored
<1>2. CASE a.kind = "file"
  BY <1>1, <1>2 DEF Covers
<1>3. CASE a.kind # "file"
  <2>1. Below(a.key, path)
    BY <1>3 DEF Covers, PathKinds
  <2>2. Len(a.key) <= Len(path) /\ SubSeq(path, 1, Len(a.key)) = a.key
    BY <2>1 DEF Below
  <2> QED
    BY <1>1, <1>3, <2>2
<1> QED
  BY <1>2, <1>3

\* Two paths that are both above a third overlap.
LEMMA AncestorsOverlap ==
  ASSUME NEW a \in Seq(STRING), NEW b \in Seq(STRING), NEW path \in Seq(STRING),
         a # <<>>, b # <<>>,
         \A i \in 1 .. Len(a) : a[i] = path[i], \A i \in 1 .. Len(b) : b[i] = path[i]
  PROVE  SegmentPrefixOverlap(a, b)
<1>1. Len(a) \in Nat /\ Len(b) \in Nat
  BY LenProperties
<1>2. 1 .. Shorter(a, b) \subseteq 1 .. Len(a) /\ 1 .. Shorter(a, b) \subseteq 1 .. Len(b)
  BY <1>1 DEF Shorter
<1> QED
  BY <1>2 DEF SegmentPrefixOverlap

\* The overlap the code computes is all there is: bounds without a conflict
\* protect nothing in common.
LEMMA ConflictsCoverSharing ==
  ASSUME NEW a, NEW b, Stored(a), Stored(b), Share(a, b)
  PROVE  ResourcesConflict(a, b)
<1>0. /\ a.kind \in LocalKinds \cup SharedKinds \cup {"named"}
      /\ b.kind \in LocalKinds \cup SharedKinds \cup {"named"}
  BY ResourceAssumption DEF Stored, LocalKinds, PathKinds
<1>1. CASE ~ (a.kind \in LocalKinds /\ b.kind \in LocalKinds)
  <2>1. a.kind = b.kind /\ a.key = b.key
    BY <1>1 DEF Share, SameIdentity
  <2> QED
    BY <1>0, <1>1, <2>1 DEF ResourcesConflict
<1>2. CASE a.kind \in LocalKinds /\ b.kind \in LocalKinds
  <2>1. a.worktree = b.worktree /\ \E path \in Paths : Covers(a, path) /\ Covers(b, path)
    BY <1>2 DEF Share
  <2>2. PICK path \in Paths : Covers(a, path) /\ Covers(b, path)
    BY <2>1
  <2>3. path \in Seq(STRING)
    BY ResourceAssumption, Canonical DEF Paths
  <2>4. CASE "workspace" \in {a.kind, b.kind}
    BY <1>2, <2>1, <2>4 DEF ResourcesConflict, PathLikeConflict
  <2>5. CASE "workspace" \notin {a.kind, b.kind}
    <3>1. a.kind \in PathKinds /\ b.kind \in PathKinds
      BY <1>2, <2>5 DEF LocalKinds
    <3>2. Canonicalize(a.key) = a.key /\ Canonicalize(b.key) = b.key
      BY <3>1 DEF Stored
    <3>3. SegmentPrefixOverlap(a.key, b.key)
      BY <2>2, <2>3, <3>1, CoveredBelow, AncestorsOverlap
    <3>4. a.kind = "file" /\ b.kind = "file" => a.key = b.key
      BY <2>2, <2>3, <3>1, CoveredBelow
    <3>5. PathLikeConflict(a.kind, a.key, b.kind, b.key)
      BY <3>2, <3>3, <3>4 DEF PathLikeConflict
    <3> QED
      BY <1>2, <2>1, <3>5 DEF ResourcesConflict
  <2> QED
    BY <2>4, <2>5
<1> QED
  BY <1>1, <1>2

\* A path a declared scope lets the runner write lies in or below that scope.
LEMMA WithinBelow ==
  ASSUME NEW declared \in RawKeys, NEW p \in RawKeys,
         KeyAccepted("dir", declared), PathWithinScope(declared, Canonicalize(p))
  PROVE  /\ Canonicalize(declared) \in Seq(STRING) /\ Canonicalize(declared) # <<>>
         /\ Canonicalize(p) \in Seq(STRING)
         /\ \A i \in 1 .. Len(Canonicalize(declared)) : Canonicalize(declared)[i] = Canonicalize(p)[i]
<1>1. /\ declared \in Seq(STRING) /\ p \in Seq(STRING)
  BY ResourceAssumption
<1> DEFINE scope == Canonicalize(declared)
           file == Canonicalize(p)
<1>2. /\ scope \in Seq(STRING) /\ file \in Seq(STRING) /\ Canonicalize(file) = file
      /\ Len(scope) \in Nat /\ Len(file) \in Nat
  BY <1>1, Canonical
<1>3. scope # <<>>
  BY DEF KeyAccepted, PathKinds
<1>4. file = scope \/ (Len(file) > Len(scope) /\ SegmentPrefixOverlap(scope, file))
  BY <1>2 DEF PathWithinScope
<1> HIDE DEF scope, file
<1>5. \A i \in 1 .. Len(scope) : scope[i] = file[i]
  BY <1>2, <1>4 DEF SegmentPrefixOverlap, Shorter
<1> QED
  BY <1>2, <1>3, <1>5 DEF scope, file

LEMMA WritersApart ==
  ASSUME ResourceInv
  PROVE  WritersDisjoint
<1> SUFFICES ASSUME NEW d \in Executions, NEW e \in Executions, NEW p \in RawKeys, NEW q \in RawKeys,
                    d # e, scopes[d].worktree = scopes[e].worktree,
                    MayWrite(d, p), MayWrite(e, q), Canonicalize(p) = Canonicalize(q)
             PROVE  FALSE
  BY DEF WritersDisjoint
<1>1. PICK a \in scopes[d].declared : PathWithinScope(a, Canonicalize(p))
  BY DEF MayWrite
<1>2. PICK b \in scopes[e].declared : PathWithinScope(b, Canonicalize(q))
  BY DEF MayWrite
<1> DEFINE wt == scopes[d].worktree
           x == Bound("dir", a, wt)
           y == Bound("dir", b, wt)
<1>3. a \in RawKeys /\ b \in RawKeys /\ wt \in Worktrees
  BY DEF ResourceInv, TypeOK
<1>4. /\ KeyAccepted("dir", a) /\ KeyAccepted("dir", b)
      /\ [holder |-> d, bound |-> x] \in reservations
      /\ [holder |-> e, bound |-> y] \in reservations
  BY DEF ResourceInv, ScopesReserved
<1>5. SegmentPrefixOverlap(Canonicalize(a), Canonicalize(b))
  BY <1>1, <1>2, <1>3, <1>4, WithinBelow, AncestorsOverlap
<1>6. /\ x.kind = "dir" /\ y.kind = "dir" /\ x.worktree = y.worktree
      /\ x.key = Canonicalize(a) /\ y.key = Canonicalize(b)
  BY DEF Bound, StoredKey, PathKinds
<1>7. Canonicalize(x.key) = x.key /\ Canonicalize(y.key) = y.key
  BY <1>3, <1>6, Canonical, ResourceAssumption
<1>8. PathLikeConflict(x.kind, x.key, y.kind, y.key)
  BY <1>5, <1>6, <1>7 DEF PathLikeConflict
<1>9. ResourcesConflict(x, y)
  BY <1>6, <1>8 DEF ResourcesConflict, LocalKinds, PathKinds
<1> HIDE DEF x, y
<1> QED
  BY <1>4, <1>9 DEF ResourceInv, NoConflicts

\* ResourceInv holds throughout every behaviour of the reservations.
THEOREM ResourceInvariant == Spec => []ResourceInv
<1>1. Init => ResourceInv
  <2> SUFFICES ASSUME Init PROVE ResourceInv
    OBVIOUS
  <2>1. NoScope \in [declared : SUBSET RawKeys, worktree : Worktrees] /\ NoScope.declared = {}
    BY ResourceAssumption DEF NoScope
  <2>2. TypeOK
    BY <2>1 DEF Init, TypeOK
  <2>3. NoConflicts /\ ScopesReserved
    BY <2>1 DEF Init, NoConflicts, ScopesReserved
  <2> QED
    BY <2>2, <2>3 DEF ResourceInv
<1>2. ResourceInv /\ [Next]_vars => ResourceInv'
  <2>1. ASSUME ResourceInv, Next
        PROVE  ResourceInv'
    BY <2>1, ReserveStep, StartStep, ReleaseStep DEF Next
  <2>2. ASSUME ResourceInv, UNCHANGED vars
        PROVE  ResourceInv'
    BY <2>2 DEF vars, ResourceInv, TypeOK, NoConflicts, ScopesReserved
  <2> QED
    BY <2>1, <2>2
<1> QED
  BY <1>1, <1>2, PTL DEF Spec

\* Two running executions in one worktree have no file in common that the runner
\* would let both of them write, whatever keys there are and however they are
\* spelt: path_within_scope admits nothing that resources_conflict has not kept
\* apart (graph.rs).
THEOREM WritersStayDisjoint == Spec => []WritersDisjoint
<1>1. ResourceInv => WritersDisjoint
  BY WritersApart
<1> QED
  BY <1>1, ResourceInvariant, PTL

\* Reservations of different executions protect nothing in common: reserve_bound
\* and execution.start refuse everything that would.
THEOREM ReservationsStayDisjoint == Spec => []ReservationsDisjoint
<1>1. ResourceInv => ReservationsDisjoint
  BY ConflictsCoverSharing, StoredRows DEF ResourceInv, ReservationsDisjoint, NoConflicts
<1> QED
  BY <1>1, ResourceInvariant, PTL

=============================================================================
