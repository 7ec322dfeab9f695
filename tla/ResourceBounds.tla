--------------------------- MODULE ResourceBounds ---------------------------
(***************************************************************************)
(* Resource bounds (crates/awr-team-pg/src/graph.rs): what executions      *)
(* reserve before they run, when two reservations conflict, and which      *)
(* paths a runner may then write.                                          *)
(*                                                                         *)
(* Three pieces of code must agree for two executions never to write the   *)
(* same file: the normalisation of a key when it is stored, the symmetric  *)
(* overlap that refuses a reservation, and the one-sided containment that  *)
(* lets the runner write.  A key or path is the sequence of the segments   *)
(* between its separators, slashes and backslashes alike, so <<"", "a">>   *)
(* is /a, <<"a", "", "b">> is a//b and <<"">> is the empty string.         *)
(***************************************************************************)
EXTENDS Naturals, Sequences, FiniteSets

CONSTANTS
  Executions,    \* executions that reserve
  RawKeys,       \* keys, declared paths and write paths as callers spell them
  Kinds,         \* resource kinds callers use
  Worktrees,     \* worktree ids; "" is the project's default
  MaxDeclared,   \* bound on the paths of one declared scope
  MaxReservations \* bound on the live reservations

PathKinds == {"file", "dir", "prefix"}
LocalKinds == PathKinds \cup {"workspace"}
SharedKinds == {"external", "integration"}

ASSUME ResourceAssumption ==
  /\ \A key \in RawKeys : key \in Seq(STRING) /\ key # <<>>
  /\ Kinds \subseteq LocalKinds \cup SharedKinds \cup {"named"}
  /\ "" \in Worktrees
  /\ MaxDeclared \in Nat
  /\ MaxReservations \in Nat

VARIABLES
  reservations,  \* live rows of resource_reservations: who holds which bound
  scopes         \* the declared scope of each running execution

vars == <<reservations, scopes>>

----------------------------------------------------------------------------
(* Keys. *)

\* Segments that name nothing.
Blank == {"", "."}

\* canonicalize keeps the other segments, in order.
Canonicalize(raw) ==
  LET kept[i \in 0 .. Len(raw)] ==
        IF i = 0 THEN <<>>
        ELSE IF raw[i] \in Blank THEN kept[i - 1]
        ELSE Append(kept[i - 1], raw[i])
  IN kept[Len(raw)]

Parent(raw) == \E i \in DOMAIN raw : raw[i] = ".."

\* normalize_resource_key accepts the key ...
KeyAccepted(kind, raw) ==
  IF kind \in PathKinds
  THEN ~ Parent(raw) /\ Canonicalize(raw) # <<>>
  ELSE raw # <<"">>

\* ... and stores it in this form: paths canonically, other keys verbatim.
StoredKey(kind, raw) == IF kind \in PathKinds THEN Canonicalize(raw) ELSE raw

\* normalize_worktree_id: shared and named resources belong to no worktree.
WorktreeAccepted(kind, worktree) == kind \in LocalKinds \/ worktree = ""

\* ResourceBound, as it is stored.
Bound(kind, raw, worktree) ==
  [kind |-> kind, key |-> StoredKey(kind, raw), worktree |-> worktree]

----------------------------------------------------------------------------
(* Conflicts. *)

Shorter(a, b) == IF Len(a) <= Len(b) THEN Len(a) ELSE Len(b)

\* segment_prefix_overlap: one path is an ancestor of the other, or equal to it.
SegmentPrefixOverlap(a, b) ==
  /\ a # <<>> /\ b # <<>>
  /\ \A i \in 1 .. Shorter(a, b) : a[i] = b[i]

\* Mutant: containment one way only.
MutPathLikeConflict(kindA, a, kindB, b) ==
  \/ "workspace" \in {kindA, kindB}
  \/ SegmentPrefixOverlap(a, b) /\ Len(a) <= Len(b)

PathLikeConflict(kindA, a, kindB, b) ==
  \/ "workspace" \in {kindA, kindB}
  \/ /\ kindA = "file" /\ kindB = "file"
     /\ Canonicalize(a) = Canonicalize(b)
  \/ /\ ~ (kindA = "file" /\ kindB = "file")
     /\ SegmentPrefixOverlap(Canonicalize(a), Canonicalize(b))

\* resources_conflict: named and shared identities conflict when they are the
\* same, local bounds when they overlap in the same worktree.
ResourcesConflict(a, b) ==
  \/ a.kind = "named" /\ b.kind = "named" /\ a.key = b.key
  \/ a.kind \in SharedKinds /\ a.kind = b.kind /\ a.key = b.key
  \/ /\ a.kind \in LocalKinds /\ b.kind \in LocalKinds
     /\ a.worktree = b.worktree
     /\ PathLikeConflict(a.kind, a.key, b.kind, b.key)

Conflicting(bound) == {r \in reservations : ResourcesConflict(bound, r.bound)}

----------------------------------------------------------------------------
(* Operations. *)

\* reserve_bound: normalise, scan the live reservations, insert.
ReserveBound(e, kind, raw, worktree) ==
  LET bound == Bound(kind, raw, worktree) IN
  /\ KeyAccepted(kind, raw)
  /\ WorktreeAccepted(kind, worktree)
  /\ Conflicting(bound) = {}
  /\ Cardinality(reservations) < MaxReservations
  /\ reservations' = reservations \cup {[holder |-> e, bound |-> bound]}
  /\ UNCHANGED scopes

NoScope == [declared |-> {}, worktree |-> ""]

DirBounds(declared, worktree) == {Bound("dir", raw, worktree) : raw \in declared}

\* execution.start reserves every declared path as a directory, all or none; the
\* paths of one scope are not compared with each other.
StartExecution(e, declared, worktree) ==
  /\ scopes[e] = NoScope
  /\ \A raw \in declared : KeyAccepted("dir", raw)
  /\ \A bound \in DirBounds(declared, worktree) : Conflicting(bound) = {}
  /\ reservations' = reservations \cup
       {[holder |-> e, bound |-> bound] : bound \in DirBounds(declared, worktree)}
  /\ Cardinality(reservations') <= MaxReservations
  /\ scopes' = [scopes EXCEPT ![e] = [declared |-> declared, worktree |-> worktree]]

\* A settled execution releases the reservations made for it, and no others.
ReleaseSettled(e) ==
  /\ \E r \in reservations : r.holder = e
  /\ reservations' = {r \in reservations : r.holder # e}
  /\ scopes' = [scopes EXCEPT ![e] = NoScope]

----------------------------------------------------------------------------
(* The runner's side. *)

\* normalize_write_path: relative, without parents, and naming a file.
WritePath(raw) == raw[1] # "" /\ ~ Parent(raw) /\ Canonicalize(raw) # <<>>

\* Mutant: overlap is taken for containment.
MutWithinScope(declared, path) ==
  SegmentPrefixOverlap(Canonicalize(declared), Canonicalize(path))

\* path_within_scope: the declared path itself, or something below it; an
\* absolute path or one with parents neither contains nor is contained.
PathWithinScope(declared, path) ==
  LET scope == Canonicalize(declared)
      file == Canonicalize(path)
  IN
  /\ \A raw \in {declared, path} : ~ Parent(raw) /\ ~ (Len(raw) > 1 /\ raw[1] = "")
  /\ \/ file = scope
     \/ /\ scope # <<>> /\ Len(file) > Len(scope)
        /\ SegmentPrefixOverlap(scope, file)

\* The runner's plan check for one write of execution e.
MayWrite(e, raw) ==
  /\ WritePath(raw)
  /\ \E declared \in scopes[e].declared : PathWithinScope(declared, Canonicalize(raw))

----------------------------------------------------------------------------

Init ==
  /\ reservations = {}
  /\ scopes = [e \in Executions |-> NoScope]

Scopes == {declared \in SUBSET RawKeys : Cardinality(declared) \in 1 .. MaxDeclared}

Next ==
  \E e \in Executions :
    \/ \E kind \in Kinds, raw \in RawKeys, worktree \in Worktrees :
         ReserveBound(e, kind, raw, worktree)
    \/ \E declared \in Scopes, worktree \in Worktrees :
         StartExecution(e, declared, worktree)
    \/ ReleaseSettled(e)

Spec == Init /\ [][Next]_vars
----------------------------------------------------------------------------
(* Properties. *)

TypeOK ==
  /\ reservations \subseteq
       [holder : Executions, bound : [kind : Kinds \cup {"dir"}, key : Seq(STRING), worktree : Worktrees]]
  /\ \A r \in reservations : r.bound.kind \in PathKinds =>
       r.bound.key # <<>> /\ r.bound.key = Canonicalize(r.bound.key) /\ ~ Parent(r.bound.key)
  /\ scopes \in [Executions -> [declared : SUBSET RawKeys, worktree : Worktrees]]

\* Two running executions in one worktree have no file in common that the
\* runner would let both of them write, however they spell it: whatever the
\* containment check admits, the overlap check of the reservations has already
\* kept apart.
WritersDisjoint ==
  \A d, e \in Executions : \A p, q \in RawKeys :
    /\ d # e /\ scopes[d].worktree = scopes[e].worktree
    /\ MayWrite(d, p) /\ MayWrite(e, q)
    => Canonicalize(p) # Canonicalize(q)

(* What a bound protects, said without looking at how conflicts are computed. *)

Below(dir, path) == Len(dir) <= Len(path) /\ SubSeq(path, 1, Len(dir)) = dir

Covers(bound, path) ==
  CASE bound.kind = "file" -> path = bound.key
    [] bound.kind \in {"dir", "prefix"} -> Below(bound.key, path)
    [] bound.kind = "workspace" -> TRUE

Paths == {Canonicalize(raw) : raw \in RawKeys} \ {<<>>}

SameIdentity(a, b) == a.kind = b.kind /\ a.key = b.key

Share(a, b) ==
  IF a.kind \in LocalKinds /\ b.kind \in LocalKinds
  THEN a.worktree = b.worktree /\ \E path \in Paths : Covers(a, path) /\ Covers(b, path)
  ELSE SameIdentity(a, b)

\* Reservations of different executions protect nothing in common: no file of a
\* worktree, no shared destination, no name.
ReservationsDisjoint ==
  \A q, r \in reservations : q.holder # r.holder => ~ Share(q.bound, r.bound)
=============================================================================
