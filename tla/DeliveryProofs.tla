--------------------------- MODULE DeliveryProofs ---------------------------
(* Proofs about delivery synchronisation, for every value of its constants. *)
EXTENDS Delivery, SequenceTheorems, TLAPS

----------------------------------------------------------------------------
(* The inductive invariant.                                                 *)

\* Observations are of the connector whose head they are, and configurations
\* only get newer.
ObservationsDated ==
  /\ \A e \in Events : inbox[e] # None =>
       inbox[e].version <= connector[inbox[e].connector].version
  /\ \A c \in Connectors : head[c] # None =>
       inbox[head[c]] # None /\ inbox[head[c]].connector = c

\* Notes name facts that were recorded, and selections only get newer.
NotesDated ==
  \A p \in DOMAIN publications :
    /\ publications[p].note.selection <= selection[publications[p].work].version
    /\ \A e \in publications[p].note.facts : inbox[e] # None

\* Only a recorded event raises intents, a worker works on such an event, and
\* past its preparation there is a publication, whoever made it.
QueueBound ==
  /\ \A e \in Events, kind \in Kinds :
       inbox[e] = None => intents[e][kind].state = "none"
  /\ \A k \in Workers : worker[k] # Idle => inbox[worker[k].event] # None
  /\ \A k \in Workers :
       worker[k] # Idle /\ worker[k].step \in {"prepared", "written"} => Held(k).publication # 0

\* The slot is taken by the publication that would be confirmed next.
SlotNext ==
  cursor.pending # 0 =>
    /\ cursor.pending \in DOMAIN publications
    /\ publications[cursor.pending].phase # "confirmed"
    /\ publications[cursor.pending].revision = cursor.revision + 1
    /\ publications[cursor.pending].before = cursor.confirmed

\* What was checked when the transaction of a publication step was opened still
\* holds: nothing it depends on changes under the project lock.
JobHolds ==
  job # None =>
    /\ cursor.pending # 0 /\ job.publication = cursor.pending
    /\ publications[job.publication].phase \notin {"confirmed", "conflict"}
    /\ NoteHolds(job.publication)
    /\ job.by # None => /\ worker[job.by].step \in {"prepared", "written"}
                        /\ Held(job.by).fence = worker[job.by].fence

DeliveryInv ==
  /\ DeliveryTypeOK
  /\ ObservationsDated
  /\ NotesDated
  /\ QueueBound
  /\ SlotNext
  /\ RevisionsChain
  /\ RecordedLandingsHeld
  /\ PendingFactsStand
  /\ JobHolds

----------------------------------------------------------------------------
(* Rows of well-typed tables. *)

LEMMA Rows ==
  ASSUME DeliveryTypeOK
  PROVE  /\ \A w \in Works : selection[w].version \in Nat /\ selection[w].fenced \in BOOLEAN
         /\ \A c \in Connectors :
              /\ connector[c] \in [version : Nat, enabled : BOOLEAN, generation : Nat]
              /\ connector[c].version \in Nat
         /\ \A e \in Events : inbox[e] # None =>
              /\ inbox[e] \in Receipt
              /\ inbox[e].connector \in Connectors /\ inbox[e].version \in Nat
         /\ \A p \in DOMAIN publications :
              /\ p \in Nat /\ publications[p] \in Journal /\ publications[p].work \in Works
              /\ publications[p].note.selection \in Nat /\ publications[p].note.facts \in SUBSET Events
         /\ \A k \in Workers : worker[k] # Idle =>
              /\ worker[k] \in Lease /\ worker[k].event \in Events
              /\ worker[k].kind \in Kinds /\ worker[k].fence \in Nat
              /\ Held(k) \in Intent
<1>1. \A w \in Works : selection[w].version \in Nat /\ selection[w].fenced \in BOOLEAN
  <2>1. selection \in [Works -> [version : Nat, fenced : BOOLEAN]]
    BY DEF DeliveryTypeOK
  <2> QED
    BY <2>1
<1>2. \A c \in Connectors :
        /\ connector[c] \in [version : Nat, enabled : BOOLEAN, generation : Nat]
        /\ connector[c].version \in Nat
  <2>1. connector \in [Connectors -> [version : Nat, enabled : BOOLEAN, generation : Nat]]
    BY DEF DeliveryTypeOK
  <2> QED
    BY <2>1
<1>3. \A e \in Events : inbox[e] # None =>
        /\ inbox[e] \in Receipt
        /\ inbox[e].connector \in Connectors /\ inbox[e].version \in Nat
  <2>1. inbox \in [Events -> Receipt \cup {None}]
    BY DEF DeliveryTypeOK
  <2> QED
    BY <2>1 DEF Receipt
<1>4. ASSUME NEW p \in DOMAIN publications
      PROVE  /\ p \in Nat /\ publications[p] \in Journal /\ publications[p].work \in Works
             /\ publications[p].note.selection \in Nat /\ publications[p].note.facts \in SUBSET Events
  <2>1. p \in Nat /\ publications[p] \in Journal
    BY DEF DeliveryTypeOK
  <2>2. publications[p].work \in Works /\ publications[p].note \in Note
    BY <2>1 DEF Journal
  <2> QED
    BY <2>1, <2>2 DEF Note
<1>5. ASSUME NEW k \in Workers, worker[k] # Idle
      PROVE  /\ worker[k] \in Lease /\ worker[k].event \in Events
             /\ worker[k].kind \in Kinds /\ worker[k].fence \in Nat
             /\ Held(k) \in Intent
  <2>1. worker \in [Workers -> Lease \cup {Idle}] /\ intents \in [Events -> [Kinds -> Intent]]
    BY DEF DeliveryTypeOK
  <2>2. /\ worker[k] \in Lease /\ worker[k].event \in Events
        /\ worker[k].kind \in Kinds /\ worker[k].fence \in Nat
    BY <1>5, <2>1 DEF Lease
  <2> QED
    BY <2>1, <2>2 DEF Held
<1> QED
  BY <1>1, <1>2, <1>3, <1>4, <1>5

----------------------------------------------------------------------------
(* Facts. *)

\* The head of c is a fact of w.
Names(c, w) ==
  /\ WorkOf[c] = w /\ head[c] # None /\ connector[c].enabled
  /\ inbox[head[c]].version = connector[c].version
  /\ inbox[head[c]].selection = selection[w].version

LEMMA FactsNamed ==
  ASSUME NEW w
  PROVE  /\ \A e : e \in Facts(w) <=> \E c \in Connectors : Names(c, w) /\ e = head[c]
         /\ \A e : e \in Facts(w)' <=> \E c \in Connectors : Names(c, w)' /\ e = head'[c]
<1>1. \A e : e \in Facts(w) <=> \E c \in Connectors : Names(c, w) /\ e = head[c]
  BY DEF Facts, Names
<1>2. \A e : e \in Facts(w)' <=> \E c \in Connectors : Names(c, w)' /\ e = head'[c]
  BY DEF Facts, Names
<1> QED
  BY <1>1, <1>2

\* Facts are recorded events of the connectors of the work.
LEMMA FactsRecorded ==
  ASSUME DeliveryTypeOK, ObservationsDated, NEW w, NEW e \in Facts(w)
  PROVE  e \in Events /\ inbox[e] # None
<1>1. PICK c \in Connectors : Names(c, w) /\ e = head[c]
  BY FactsNamed
<1> QED
  BY <1>1 DEF Names, DeliveryTypeOK, ObservationsDated

\* While no connector of a work gets another head and its selection stays, its
\* facts are the same.
LEMMA FactsKept ==
  ASSUME NEW w, \A c \in Connectors : Names(c, w)' <=> Names(c, w),
         \A c \in Connectors : Names(c, w) => head'[c] = head[c]
  PROVE  Facts(w)' = Facts(w)
<1>1. \A e : e \in Facts(w)' <=> e \in Facts(w)
  BY FactsNamed
<1> HIDE DEF Facts
<1> DEFINE A == Facts(w)
           B == Facts(w)'
<1>2. \A e : e \in B <=> e \in A
  BY <1>1
<1> HIDE DEF A, B
<1>3. A = B
  BY <1>2
<1> QED
  BY <1>3 DEF A, B

\* A pending publication stays about the heads, or is known to be outdated.
LEMMA PendingFacts ==
  ASSUME DeliveryInv, UNCHANGED <<publications, cursor>>,
         \A w \in Works : selection'[w].version \in Nat /\ selection[w].version <= selection'[w].version,
         \A c \in Connectors : connector'[c].version \in Nat /\ connector[c].version <= connector'[c].version,
         \A e \in Events : inbox[e] # None => inbox'[e] = inbox[e],
         \A w \in Works : ~ Settled(w) =>
           \/ selection[w].version < selection'[w].version
           \/ \E e \in Facts(w) :
                connector[inbox[e].connector].version < connector'[inbox[e].connector].version
           \/ Facts(w)' = Facts(w)
  PROVE  PendingFactsStand'
<1> DEFINE p == cursor.pending
           j == publications[p]
           w == j.work
<1>1. /\ DeliveryTypeOK /\ ObservationsDated /\ NotesDated /\ SlotNext /\ PendingFactsStand
  BY DEF DeliveryInv
<1> SUFFICES ASSUME p # 0, j.phase # "conflict", j.note.selection = selection'[w].version,
                    \A e \in j.note.facts : inbox'[e].version = connector'[inbox'[e].connector].version
             PROVE  j.note.facts = Facts(w)'
  BY DEF PendingFactsStand
<1>2. p \in DOMAIN publications /\ j \in Journal
  BY <1>1 DEF SlotNext, DeliveryTypeOK
<1>3. w \in Works /\ j.note.selection \in Nat /\ j.note.facts \in SUBSET Events
  BY <1>2 DEF Journal, Note
<1>4. ~ Settled(w)
  BY DEF Settled
<1>5. /\ j.note.selection <= selection[w].version
      /\ \A e \in j.note.facts : inbox[e] # None
  BY <1>1, <1>2 DEF NotesDated
<1>6. selection[w].version = selection'[w].version /\ selection[w].version \in Nat
  BY <1>1, <1>3, <1>5 DEF DeliveryTypeOK
<1>7. ASSUME NEW e \in j.note.facts
      PROVE  /\ inbox[e].version = connector[inbox[e].connector].version
             /\ connector[inbox[e].connector].version = connector'[inbox[e].connector].version
  <2>1. e \in Events /\ inbox[e] # None /\ inbox'[e] = inbox[e] /\ inbox[e] \in Receipt
    BY <1>1, <1>3, <1>5, <1>7 DEF DeliveryTypeOK
  <2>2. inbox[e].connector \in Connectors /\ inbox[e].version \in Nat
    BY <2>1 DEF Receipt
  <2>3. inbox[e].version <= connector[inbox[e].connector].version
    BY <1>1, <2>1 DEF ObservationsDated
  <2>4. connector[inbox[e].connector].version \in Nat
    BY <1>1, <2>2 DEF DeliveryTypeOK
  <2> QED
    BY <1>7, <2>1, <2>2, <2>3, <2>4
<1>8. j.note.facts = Facts(w)
  BY <1>1, <1>6, <1>7 DEF PendingFactsStand
<1>9. Facts(w)' = Facts(w)
  <2>1. \A e \in Facts(w) : ~ connector[inbox[e].connector].version < connector'[inbox[e].connector].version
    <3> SUFFICES ASSUME NEW e \in Facts(w)
                 PROVE  ~ connector[inbox[e].connector].version < connector'[inbox[e].connector].version
      OBVIOUS
    <3>1. e \in Events /\ inbox[e] \in Receipt
      BY <1>1, FactsRecorded DEF DeliveryTypeOK
    <3>2. connector[inbox[e].connector].version \in Nat
      BY <1>1, <3>1 DEF DeliveryTypeOK, Receipt
    <3> QED
      BY <1>7, <1>8, <3>2
  <2> QED
    BY <1>3, <1>4, <1>6, <2>1
<1> QED
  BY <1>8, <1>9

LEMMA NoteKept ==
  ASSUME NEW w, UNCHANGED <<selection, connector, inbox, head>>
  PROVE  current_note(w)' = current_note(w)
<1>1. Facts(w)' = Facts(w)
  BY DEF Facts
<1> QED
  BY <1>1 DEF current_note

----------------------------------------------------------------------------
(* Steps that leave the journal alone, with no publication step in progress. *)

LEMMA NoJobFrame ==
  ASSUME DeliveryInv, job = None, UNCHANGED <<publications, cursor, job>>,
         DeliveryTypeOK', ObservationsDated', NotesDated', QueueBound', PendingFactsStand'
  PROVE  DeliveryInv' /\ ConfirmIsCurrent /\ EffectByHolder
<1>1. SlotNext' /\ RevisionsChain' /\ RecordedLandingsHeld'
  BY DEF DeliveryInv, SlotNext, RevisionsChain, RecordedLandingsHeld, Confirmed
<1>2. JobHolds'
  BY DEF JobHolds
<1>3. ConfirmIsCurrent /\ EffectByHolder
  BY DEF ConfirmIsCurrent, EffectByHolder
<1> QED
  BY <1>1, <1>2, <1>3 DEF DeliveryInv

Kept == DeliveryInv' /\ ConfirmIsCurrent /\ EffectByHolder

LEMMA ConfigureStep ==
  ASSUME DeliveryInv, NEW c \in Connectors, NEW on \in BOOLEAN, Configure(c, on)
  PROVE  Kept
<1>1. /\ job = None
      /\ connector' = [connector EXCEPT ![c].version = @ + 1, ![c].enabled = on]
      /\ UNCHANGED <<selection, inspections, inbox, head, notification, intents,
                     publications, cursor, file, worker, job, faults>>
  BY DEF Configure, Unlocked, published
<1>2. DeliveryTypeOK /\ ObservationsDated /\ NotesDated /\ QueueBound
  BY DEF DeliveryInv
<1> DEFINE row == connector[c]
           mid == [row EXCEPT !.version = row.version + 1]
           new == [mid EXCEPT !.enabled = on]
<1>3. /\ new \in [version : Nat, enabled : BOOLEAN, generation : Nat]
      /\ new.version = row.version + 1 /\ row.version \in Nat
  <2>1. row \in [version : Nat, enabled : BOOLEAN, generation : Nat]
    BY <1>2, Rows
  <2> HIDE DEF row
  <2>2. mid \in [version : Nat, enabled : BOOLEAN, generation : Nat] /\ mid.version = row.version + 1
        /\ row.version \in Nat
    BY <2>1
  <2> HIDE DEF mid
  <2> QED
    BY <2>2
<1>4. connector' = [connector EXCEPT ![c] = new]
  BY <1>1, <1>2 DEF DeliveryTypeOK
<1> HIDE DEF new
<1>5. connector' \in [Connectors -> [version : Nat, enabled : BOOLEAN, generation : Nat]]
  BY <1>2, <1>3, <1>4 DEF DeliveryTypeOK
<1>6. /\ connector'[c].version = connector[c].version + 1
      /\ \A d \in Connectors \ {c} : connector'[d] = connector[d]
  BY <1>2, <1>3, <1>4 DEF DeliveryTypeOK
<1>7. \A d \in Connectors : /\ connector[d].version \in Nat /\ connector'[d].version \in Nat
                            /\ connector[d].version <= connector'[d].version
  <2>1. \A d \in Connectors : connector[d].version \in Nat
    BY <1>2, Rows
  <2> QED
    BY <1>6, <2>1
<1>8. DeliveryTypeOK'
  BY <1>1, <1>2, <1>5 DEF DeliveryTypeOK
<1>9. ObservationsDated'
  <2>1. ASSUME NEW e \in Events, inbox[e] # None
        PROVE  inbox[e].version <= connector'[inbox[e].connector].version
    <3>1. inbox[e].connector \in Connectors /\ inbox[e].version \in Nat
      BY <1>2, <2>1, Rows
    <3>2. inbox[e].version <= connector[inbox[e].connector].version
      BY <1>2, <2>1 DEF ObservationsDated
    <3> QED
      BY <1>7, <3>1, <3>2
  <2> QED
    BY <1>1, <1>2, <2>1 DEF ObservationsDated
<1>10. NotesDated' /\ QueueBound'
  BY <1>1, <1>2 DEF NotesDated, QueueBound, Held
<1>11. ASSUME NEW w \in Works
       PROVE  \/ \E e \in Facts(w) :
                   connector[inbox[e].connector].version < connector'[inbox[e].connector].version
              \/ Facts(w)' = Facts(w)
  <2>1. CASE Names(c, w)
    <3>1. head[c] \in Facts(w) /\ inbox[head[c]].connector = c
      BY <1>2, <2>1, FactsNamed DEF Names, ObservationsDated
    <3> QED
      BY <1>6, <1>7, <3>1
  <2>2. CASE ~ Names(c, w)
    <3>1. \A d \in Connectors \ {c} : Names(d, w)' <=> Names(d, w)
      BY <1>1, <1>6 DEF Names
    <3>2. head[c] # None => inbox[head[c]].version <= connector[c].version /\ inbox[head[c]].version \in Nat
      BY <1>2 DEF ObservationsDated, DeliveryTypeOK, Receipt
    <3>3. ~ Names(c, w)'
      BY <1>1, <1>6, <1>7, <3>2 DEF Names
    <3> QED
      BY <1>1, <2>2, <3>1, <3>3, FactsKept
  <2> QED
    BY <2>1, <2>2
<1>12. PendingFactsStand'
  <2>1. \A w \in Works : selection[w].version \in Nat
    BY <1>2, Rows
  <2>2. \A w \in Works : selection'[w].version \in Nat /\ selection[w].version <= selection'[w].version
    BY <1>1, <2>1
  <2>3. \A e \in Events : inbox[e] # None => inbox'[e] = inbox[e]
    BY <1>1
  <2>4. UNCHANGED <<publications, cursor>>
    BY <1>1
  <2>5. \A w \in Works : ~ Settled(w) =>
          \/ selection[w].version < selection'[w].version
          \/ \E e \in Facts(w) :
               connector[inbox[e].connector].version < connector'[inbox[e].connector].version
          \/ Facts(w)' = Facts(w)
    BY <1>11
  <2> QED
    BY <1>7, <2>2, <2>3, <2>4, <2>5, PendingFacts
<1> QED
  BY <1>1, <1>8, <1>9, <1>10, <1>12, NoJobFrame DEF Kept

\* Selecting anew, or losing the fence of a selection.
LEMMA SelectStep ==
  ASSUME DeliveryInv, NEW w \in Works, Select(w) \/ Reclaim(w)
  PROVE  Kept
<1> DEFINE row == selection[w]
           new == IF Select(w) THEN [version |-> row.version + 1, fenced |-> TRUE]
                               ELSE [row EXCEPT !.fenced = FALSE]
<1>1. /\ job = None /\ selection' = [selection EXCEPT ![w] = new]
      /\ UNCHANGED <<connector, inspections, inbox, head, notification, intents,
                     publications, cursor, file, worker, job>>
  BY DEF Select, Reclaim, Unlocked, published, observed
<1>2. DeliveryTypeOK /\ ObservationsDated /\ NotesDated /\ QueueBound
  BY DEF DeliveryInv
<1>3. /\ new \in [version : Nat, fenced : BOOLEAN] /\ row.version \in Nat
      /\ new.version = row.version \/ new.version = row.version + 1
  <2>1. row \in [version : Nat, fenced : BOOLEAN]
    BY <1>2 DEF DeliveryTypeOK
  <2> HIDE DEF row
  <2>2. CASE Select(w)
    BY <2>1, <2>2
  <2>3. CASE ~ Select(w)
    BY <2>1, <2>3
  <2> QED
    BY <2>2, <2>3
<1>4. faults' \in 0 .. MaxFaults
  BY <1>2, DeliveryAssumption DEF Select, Reclaim, Fault, DeliveryTypeOK
<1> HIDE DEF new
<1>5. /\ selection' \in [Works -> [version : Nat, fenced : BOOLEAN]]
      /\ selection'[w] = new /\ \A x \in Works \ {w} : selection'[x] = selection[x]
  BY <1>1, <1>2, <1>3 DEF DeliveryTypeOK
<1>6. \A x \in Works : /\ selection[x].version \in Nat /\ selection'[x].version \in Nat
                       /\ selection[x].version <= selection'[x].version
  <2>1. \A x \in Works : selection[x].version \in Nat
    BY <1>2, Rows
  <2> QED
    BY <1>3, <1>5, <2>1
<1>7. DeliveryTypeOK'
  BY <1>1, <1>2, <1>4, <1>5 DEF DeliveryTypeOK
<1>8. ObservationsDated' /\ QueueBound'
  BY <1>1, <1>2 DEF ObservationsDated, QueueBound, Held
<1>9. NotesDated'
  <2>1. \A p \in DOMAIN publications :
          publications[p].work \in Works /\ publications[p].note.selection \in Nat
    BY <1>2, Rows
  <2> QED
    BY <1>1, <1>2, <1>6, <2>1 DEF NotesDated
<1>10. ASSUME NEW x \in Works, ~ selection[x].version < selection'[x].version
       PROVE  Facts(x)' = Facts(x)
  <2>1. selection[x].version = selection'[x].version
    BY <1>6, <1>10
  <2>2. \A c \in Connectors : Names(c, x)' <=> Names(c, x)
    BY <1>1, <2>1 DEF Names
  <2> QED
    BY <1>1, <2>2, FactsKept
<1>11. PendingFactsStand'
  <2>1. \A c \in Connectors : connector[c].version \in Nat
    BY <1>2, Rows
  <2> QED
    BY <1>1, <1>6, <1>10, <2>1, PendingFacts
<1> QED
  BY <1>1, <1>7, <1>8, <1>9, <1>11, NoJobFrame DEF Kept

LEMMA ReserveStep ==
  ASSUME DeliveryInv, NEW c \in Connectors, Reserve(c)
  PROVE  Kept
<1> DEFINE w == WorkOf[c]
           g == connector[c].generation + 1
           row == [connector |-> c, version |-> connector[c].version, generation |-> g,
                   selection |-> selection[w].version, live |-> TRUE]
<1>1. /\ job = None /\ connector' = [connector EXCEPT ![c].generation = g]
      /\ inspections' = inspections \cup {row}
      /\ UNCHANGED <<selection, inbox, head, notification, intents,
                     publications, cursor, file, worker, job, faults>>
  BY DEF Reserve, Unlocked, published
<1>2. DeliveryTypeOK /\ ObservationsDated /\ NotesDated /\ QueueBound
  BY DEF DeliveryInv
<1>3. w \in Works /\ g \in Nat
  BY <1>2, DeliveryAssumption DEF DeliveryTypeOK
<1>4. row \in Inspection
  BY <1>2, <1>3 DEF DeliveryTypeOK, Inspection
<1> HIDE DEF row, g
<1>5. /\ connector' \in [Connectors -> [version : Nat, enabled : BOOLEAN, generation : Nat]]
      /\ \A d \in Connectors : /\ connector'[d].version = connector[d].version
                               /\ connector'[d].enabled = connector[d].enabled
                               /\ connector[d].version \in Nat
  <2>1. connector \in [Connectors -> [version : Nat, enabled : BOOLEAN, generation : Nat]]
    BY <1>2 DEF DeliveryTypeOK
  <2> QED
    BY <1>1, <1>3, <2>1
<1>6. DeliveryTypeOK'
  BY <1>1, <1>2, <1>4, <1>5 DEF DeliveryTypeOK
<1>7. ObservationsDated'
  <2>1. \A e \in Events : inbox[e] # None => inbox[e].connector \in Connectors
    BY <1>2 DEF DeliveryTypeOK, Receipt
  <2> QED
    BY <1>1, <1>2, <1>5, <2>1 DEF ObservationsDated
<1>8. NotesDated' /\ QueueBound'
  BY <1>1, <1>2 DEF NotesDated, QueueBound, Held
<1>9. \A x \in Works : Facts(x)' = Facts(x)
  <2>1. \A x \in Works, d \in Connectors : Names(d, x)' <=> Names(d, x)
    BY <1>1, <1>5 DEF Names
  <2> QED
    BY <1>1, <2>1, FactsKept
<1>10. PendingFactsStand'
  <2>1. \A x \in Works : selection[x].version \in Nat
    BY <1>2 DEF DeliveryTypeOK
  <2> QED
    BY <1>1, <1>5, <1>9, <2>1, PendingFacts
<1> QED
  BY <1>1, <1>6, <1>7, <1>8, <1>10, NoJobFrame DEF Kept

LEMMA IngestStep ==
  ASSUME DeliveryInv, NEW e \in Events, NEW x \in inspections, Ingest(e, x)
  PROVE  Kept
<1> DEFINE c == x.connector
           row == [connector |-> c, version |-> x.version, generation |-> x.generation,
                   selection |-> x.selection, applied |-> Applies(x)]
<1>1. /\ job = None /\ inbox[e] = None /\ inbox' = [inbox EXCEPT ![e] = row] /\ Admits(x)
      /\ UNCHANGED <<selection, connector, inspections, publications, cursor, file, worker,
                     job, faults>>
      /\ \/ /\ head' = [head EXCEPT ![c] = e]
            /\ intents' = [intents EXCEPT ![e] = Enqueued]
            /\ notification' = [notification EXCEPT ![e] = "pending"]
         \/ /\ UNCHANGED <<head, intents>>
            /\ notification' = [notification EXCEPT ![e] = "superseded"]
  BY DEF Ingest, Unlocked, published
<1>2. DeliveryTypeOK /\ ObservationsDated /\ NotesDated /\ QueueBound
  BY DEF DeliveryInv
<1>3. x \in Inspection /\ c \in Connectors /\ x.version = connector[c].version
  BY <1>1, <1>2 DEF DeliveryTypeOK, Inspection, Admits
<1>4. row \in Receipt /\ row # None /\ row.connector = c /\ row.version = connector[c].version
  <2>1. Applies(x) \in BOOLEAN
    BY <1>3 DEF Applies, Inspection
  <2>2. row \in Receipt
    BY <1>3, <2>1 DEF Receipt, Inspection
  <2> QED
    BY <1>3, <2>2, RowAssumption
<1> HIDE DEF row
<1>5. /\ inbox' \in [Events -> Receipt \cup {None}] /\ inbox'[e] = row
      /\ \A d \in Events \ {e} : inbox'[d] = inbox[d]
  BY <1>1, <1>2, <1>4 DEF DeliveryTypeOK
<1>6. /\ head' \in [Connectors -> Events \cup {None}]
      /\ \A d \in Connectors \ {c} : head'[d] = head[d]
      /\ head'[c] = head[c] \/ head'[c] = e
      /\ \A d \in Connectors : head[d] # e
  <2>1. \A d \in Connectors : head[d] # e
    BY <1>1, <1>2, DeliveryAssumption DEF ObservationsDated
  <2> QED
    BY <1>1, <1>2, <1>3, <2>1 DEF DeliveryTypeOK
<1>7. DeliveryTypeOK'
  <2>1. Enqueued \in [Kinds -> Intent]
    BY DEF Enqueued, NoIntent, Intent
  <2>2. intents' \in [Events -> [Kinds -> Intent]]
    BY <1>1, <1>2, <2>1 DEF DeliveryTypeOK
  <2>3. notification' \in [Events -> {"none", "pending", "superseded", "delivered"}]
    BY <1>1, <1>2 DEF DeliveryTypeOK
  <2> QED
    BY <1>1, <1>2, <1>5, <1>6, <2>2, <2>3 DEF DeliveryTypeOK
<1>8. ObservationsDated'
  <2>1. connector[c].version \in Nat
    BY <1>2, <1>3 DEF DeliveryTypeOK
  <2>2. \A d \in Connectors : head[d] # None => head[d] \in Events \ {e}
    BY <1>2, <1>6 DEF DeliveryTypeOK
  <2> QED
    BY <1>1, <1>2, <1>4, <1>5, <1>6, <2>1, <2>2 DEF ObservationsDated
<1>9. NotesDated'
  <2>1. \A p \in DOMAIN publications : publications[p].note.facts \in SUBSET Events
    BY <1>2, Rows
  <2> QED
    BY <1>1, <1>2, <1>4, <1>5, <2>1 DEF NotesDated
<1>10. QueueBound'
  <2>1. \A d \in Events \ {e} : intents'[d] = intents[d]
    BY <1>1, <1>2 DEF DeliveryTypeOK
  <2>2. \A k \in Workers : worker[k] # Idle => worker[k].event \in Events \ {e}
    BY <1>1, <1>2 DEF QueueBound, DeliveryTypeOK, Lease
  <2> QED
    BY <1>1, <1>2, <1>4, <1>5, <2>1, <2>2 DEF QueueBound, Held
<1>11. ASSUME NEW w \in Works, ~ Settled(w)
       PROVE  Facts(w)' = Facts(w)
  <2>1. WorkOf[c] # w
    BY <1>1, <1>11 DEF Admits
  <2>2. ~ Names(c, w) /\ ~ Names(c, w)'
    BY <2>1 DEF Names
  <2>3. ASSUME NEW d \in Connectors \ {c}
        PROVE  Names(d, w)' <=> Names(d, w)
    <3>1. head[d] # None => head[d] \in Events \ {e}
      BY <1>2, <1>6 DEF DeliveryTypeOK
    <3> QED
      BY <1>1, <1>5, <1>6, <3>1 DEF Names
  <2> QED
    BY <1>6, <2>2, <2>3, FactsKept
<1>12. PendingFactsStand'
  <2>1. \A w \in Works : selection[w].version \in Nat
    BY <1>2, Rows
  <2>2. \A d \in Connectors : connector[d].version \in Nat
    BY <1>2 DEF DeliveryTypeOK
  <2> QED
    BY <1>1, <1>5, <1>11, <2>1, <2>2, PendingFacts
<1> QED
  BY <1>1, <1>7, <1>8, <1>9, <1>10, <1>12, NoJobFrame DEF Kept

----------------------------------------------------------------------------
(* The queue. *)

\* Steps that leave observations, selections and the journal alone.
LEMMA QueueFrame ==
  ASSUME DeliveryInv, UNCHANGED <<selection, connector, inbox, head, publications, cursor>>,
         DeliveryTypeOK', QueueBound', JobHolds'
  PROVE  DeliveryInv' /\ ConfirmIsCurrent
<1>1. SlotNext' /\ RevisionsChain' /\ RecordedLandingsHeld'
  BY DEF DeliveryInv, SlotNext, RevisionsChain, RecordedLandingsHeld, Confirmed
<1>2. ObservationsDated' /\ NotesDated'
  BY DEF DeliveryInv, ObservationsDated, NotesDated
<1>3. PendingFactsStand'
  BY DEF DeliveryInv, PendingFactsStand, Facts
<1>4. ConfirmIsCurrent
  BY DEF ConfirmIsCurrent
<1> QED
  BY <1>1, <1>2, <1>3, <1>4 DEF DeliveryInv

\* What an open publication step relies on.
LEMMA JobFrame ==
  ASSUME DeliveryInv, UNCHANGED <<selection, connector, inbox, head, publications, cursor, job>>,
         job # None /\ job.by # None =>
           worker'[job.by] = worker[job.by] /\ Held(job.by)'.fence = Held(job.by).fence
  PROVE  JobHolds'
<1>1. \A p : NoteHolds(p)' <=> NoteHolds(p)
  BY DEF NoteHolds, current_note, Facts
<1> QED
  BY <1>1 DEF DeliveryInv, JobHolds, Held

LEMMA IntentSet ==
  ASSUME DeliveryTypeOK, NEW e \in Events, NEW kind \in Kinds, NEW row \in Intent,
         intents' = [intents EXCEPT ![e][kind] = row]
  PROVE  /\ intents' \in [Events -> [Kinds -> Intent]] /\ intents'[e][kind] = row
         /\ \A d \in Events, q \in Kinds : d # e \/ q # kind => intents'[d][q] = intents[d][q]
<1>1. intents \in [Events -> [Kinds -> Intent]]
  BY DEF DeliveryTypeOK
<1> QED
  BY <1>1

LEMMA WorkerSet ==
  ASSUME DeliveryTypeOK, NEW k \in Workers, NEW row \in Lease \cup {Idle},
         worker' = [worker EXCEPT ![k] = row]
  PROVE  /\ worker' \in [Workers -> Lease \cup {Idle}] /\ worker'[k] = row
         /\ \A j \in Workers \ {k} : worker'[j] = worker[j]
<1>1. worker \in [Workers -> Lease \cup {Idle}]
  BY DEF DeliveryTypeOK
<1> QED
  BY <1>1

\* A worker goes on to step s.
LEMMA StepSet ==
  ASSUME DeliveryTypeOK, NEW k \in Workers, worker[k] # Idle,
         NEW s \in {"claimed", "prepared", "written", "failed"}, Step(k, s)
  PROVE  /\ worker' \in [Workers -> Lease \cup {Idle}]
         /\ worker'[k].step = s /\ worker'[k] # Idle
         /\ worker'[k].event = worker[k].event /\ worker'[k].kind = worker[k].kind
         /\ \A j \in Workers \ {k} : worker'[j] = worker[j]
<1> DEFINE row == [worker[k] EXCEPT !.step = s]
<1>1. worker[k] \in Lease
  BY Rows
<1>2. /\ row \in Lease /\ row.step = s /\ row # Idle
      /\ row.event = worker[k].event /\ row.kind = worker[k].kind
  BY <1>1 DEF Lease, Idle
<1>3. worker' = [worker EXCEPT ![k] = row]
  BY DEF Step
<1> HIDE DEF row
<1> QED
  BY <1>2, <1>3, WorkerSet

\* Publications of intents are never taken back, and workers take up recorded
\* events only.
LEMMA QueueEvolves ==
  ASSUME DeliveryInv, UNCHANGED inbox,
         \A e \in Events, kind \in Kinds :
           /\ intents[e][kind].publication # 0 => intents'[e][kind].publication # 0
           /\ inbox[e] = None => intents'[e][kind] = intents[e][kind],
         \A k \in Workers :
           \/ worker'[k] = worker[k]
           \/ worker'[k] = Idle
           \/ /\ worker'[k].event \in Events /\ worker'[k].kind \in Kinds
              /\ inbox[worker'[k].event] # None
              /\ worker'[k].step \in {"prepared", "written"} =>
                   intents'[worker'[k].event][worker'[k].kind].publication # 0
  PROVE  QueueBound'
<1>1. DeliveryTypeOK /\ QueueBound
  BY DEF DeliveryInv
<1>2. \A k \in Workers : worker[k] # Idle => worker[k].event \in Events /\ worker[k].kind \in Kinds
  BY <1>1, Rows
<1> QED
  BY <1>1, <1>2 DEF QueueBound, Held

\* A worker changes its intent.
LEMMA HeldSet ==
  ASSUME DeliveryTypeOK, QueueBound, NEW k \in Workers, worker[k] # Idle, NEW row \in Intent,
         SetHeld(k, row), Held(k).publication # 0 => row.publication # 0
  PROVE  /\ intents' \in [Events -> [Kinds -> Intent]]
         /\ intents'[worker[k].event][worker[k].kind] = row
         /\ \A d \in Events, q \in Kinds :
              /\ intents[d][q].publication # 0 => intents'[d][q].publication # 0
              /\ inbox[d] = None => intents'[d][q] = intents[d][q]
<1> DEFINE e == worker[k].event
           kind == worker[k].kind
<1>1. e \in Events /\ kind \in Kinds /\ inbox[e] # None
  BY Rows DEF QueueBound
<1>2. intents' = [intents EXCEPT ![e][kind] = row] /\ Held(k) = intents[e][kind]
  BY DEF SetHeld, Held
<1> HIDE DEF e, kind
<1>3. /\ intents' \in [Events -> [Kinds -> Intent]] /\ intents'[e][kind] = row
      /\ \A d \in Events, q \in Kinds : d # e \/ q # kind => intents'[d][q] = intents[d][q]
  <2>1. intents \in [Events -> [Kinds -> Intent]]
    BY DEF DeliveryTypeOK
  <2> QED
    BY <1>1, <1>2, <2>1
<1>4. \A d \in Events, q \in Kinds :
        /\ intents[d][q].publication # 0 => intents'[d][q].publication # 0
        /\ inbox[d] = None => intents'[d][q] = intents[d][q]
  BY <1>1, <1>2, <1>3
<1> QED
  BY <1>3, <1>4 DEF e, kind

LEMMA ClaimStep ==
  ASSUME DeliveryInv, NEW k \in Workers, NEW e \in Events, NEW kind \in Kinds, Claim(k, e, kind)
  PROVE  Kept
<1> DEFINE i == intents[e][kind]
           leased == [i EXCEPT !.state = "leased", !.fence = @ + 1, !.live = TRUE]
           superseded == [i EXCEPT !.state = "superseded"]
           row == [step |-> "claimed", event |-> e, kind |-> kind, fence |-> i.fence + 1]
<1>1. /\ job = None /\ worker[k] = Idle /\ Claimable(i)
      /\ \/ /\ intents' = [intents EXCEPT ![e][kind] = leased]
            /\ worker' = [worker EXCEPT ![k] = row]
         \/ /\ intents' = [intents EXCEPT ![e][kind] = superseded]
            /\ UNCHANGED worker
      /\ UNCHANGED <<selection, connector, inspections, inbox, head, notification,
                     publications, cursor, file, job, faults>>
  BY DEF Claim, Unlocked, observed, published
<1>2. DeliveryTypeOK /\ QueueBound
  BY DEF DeliveryInv
<1>3. i \in Intent
  BY <1>2 DEF DeliveryTypeOK
<1>4. inbox[e] # None
  BY <1>1, <1>2 DEF QueueBound, Claimable
<1>5. /\ leased \in Intent /\ leased.publication = i.publication
      /\ superseded \in Intent /\ superseded.publication = i.publication
  <2>1. i.fence + 1 \in Nat
    BY <1>3 DEF Intent
  <2> DEFINE m1 == [i EXCEPT !.state = "leased"]
             m2 == [m1 EXCEPT !.fence = i.fence + 1]
  <2> HIDE DEF i
  <2>2. m1 \in Intent /\ m1.publication = i.publication /\ m1.fence = i.fence
    BY <1>3 DEF Intent
  <2> HIDE DEF m1
  <2>3. m2 \in Intent /\ m2.publication = i.publication
    BY <2>1, <2>2 DEF Intent
  <2>4. leased = [m2 EXCEPT !.live = TRUE]
    BY <1>3 DEF m1, Intent
  <2> HIDE DEF m2
  <2>5. [m2 EXCEPT !.live = TRUE] \in Intent /\ [m2 EXCEPT !.live = TRUE].publication = i.publication
    BY <2>3 DEF Intent
  <2>6. superseded \in Intent /\ superseded.publication = i.publication
    BY <1>3 DEF Intent
  <2> QED
    BY <2>4, <2>5, <2>6
<1>6. row \in Lease /\ row.event = e /\ row.kind = kind /\ row.step = "claimed"
  BY <1>3 DEF Lease, Intent
<1> HIDE DEF leased, superseded, row
<1>7. /\ intents' \in [Events -> [Kinds -> Intent]]
      /\ intents'[e][kind].publication = intents[e][kind].publication
      /\ \A d \in Events, q \in Kinds : d # e \/ q # kind => intents'[d][q] = intents[d][q]
  BY <1>1, <1>2, <1>5, IntentSet
<1>8. /\ worker' \in [Workers -> Lease \cup {Idle}]
      /\ worker'[k] = row \/ worker'[k] = worker[k]
      /\ \A j \in Workers \ {k} : worker'[j] = worker[j]
  <2>1. UNCHANGED worker => worker' \in [Workers -> Lease \cup {Idle}]
    BY <1>2 DEF DeliveryTypeOK
  <2> QED
    BY <1>1, <1>2, <1>6, <2>1, WorkerSet
<1>9. DeliveryTypeOK'
  BY <1>1, <1>2, <1>7, <1>8 DEF DeliveryTypeOK
<1>10. QueueBound'
  BY <1>1, <1>4, <1>6, <1>7, <1>8, QueueEvolves
<1>11. JobHolds' /\ EffectByHolder
  BY <1>1 DEF JobHolds, EffectByHolder
<1> QED
  BY <1>1, <1>9, <1>10, <1>11, QueueFrame DEF Kept

\* Acknowledge, defer and fail: the worker settles its intent or goes on.
LEMMA SettleStep ==
  ASSUME DeliveryInv, NEW k \in Workers, Acknowledge(k) \/ Defer(k) \/ Fail(k)
  PROVE  Kept
<1> DEFINE row(st) == [Held(k) EXCEPT !.state = st]
<1>1. /\ job = None /\ worker[k] # Idle
      /\ UNCHANGED <<selection, connector, inspections, inbox, head, publications, cursor,
                     file, job, faults>>
      /\ \/ UNCHANGED intents
         \/ \E st \in {"succeeded", "blocked"} : SetHeld(k, row(st))
      /\ Finish(k) \/ Step(k, "failed")
      /\ UNCHANGED notification \/ notification' = [notification EXCEPT ![worker[k].event] = "delivered"]
  BY DEF Acknowledge, Defer, Fail, Unlocked, observed, published, Idle
<1>2. DeliveryTypeOK /\ QueueBound
  BY DEF DeliveryInv
<1>3. /\ Held(k) \in Intent /\ worker[k].event \in Events /\ worker[k].kind \in Kinds
      /\ inbox[worker[k].event] # None
  BY <1>1, <1>2, Rows DEF QueueBound
<1>4. \A st \in {"succeeded", "blocked"} :
        row(st) \in Intent /\ row(st).publication = Held(k).publication
  BY <1>3 DEF Intent
<1> HIDE DEF row
<1>5. /\ intents' \in [Events -> [Kinds -> Intent]]
      /\ \A d \in Events, q \in Kinds :
           /\ intents[d][q].publication # 0 => intents'[d][q].publication # 0
           /\ inbox[d] = None => intents'[d][q] = intents[d][q]
  <2>1. CASE UNCHANGED intents
    BY <1>2, <2>1 DEF DeliveryTypeOK
  <2>2. ASSUME NEW st \in {"succeeded", "blocked"}, SetHeld(k, row(st))
        PROVE  /\ intents' \in [Events -> [Kinds -> Intent]]
               /\ \A d \in Events, q \in Kinds :
                    /\ intents[d][q].publication # 0 => intents'[d][q].publication # 0
                    /\ inbox[d] = None => intents'[d][q] = intents[d][q]
    <3> DEFINE new == row(st)
    <3>1. new \in Intent /\ new.publication = Held(k).publication /\ SetHeld(k, new)
      BY <1>4, <2>2
    <3> HIDE DEF new
    <3> QED
      BY <1>1, <1>2, <3>1, HeldSet
  <2> QED
    BY <1>1, <2>1, <2>2
<1>6. /\ worker' \in [Workers -> Lease \cup {Idle}]
      /\ \/ worker'[k] = Idle
         \/ /\ worker'[k].step = "failed" /\ worker'[k].event = worker[k].event
            /\ worker'[k].kind = worker[k].kind
      /\ \A j \in Workers \ {k} : worker'[j] = worker[j]
  BY <1>1, <1>2, WorkerSet, StepSet DEF Finish
<1>7. DeliveryTypeOK'
  BY <1>1, <1>2, <1>5, <1>6 DEF DeliveryTypeOK
<1>8. QueueBound'
  BY <1>1, <1>3, <1>5, <1>6, QueueEvolves
<1>9. JobHolds' /\ EffectByHolder
  BY <1>1 DEF JobHolds, EffectByHolder
<1> QED
  BY <1>1, <1>7, <1>8, <1>9, QueueFrame DEF Kept

----------------------------------------------------------------------------
(* What happens whether or not a publication step is in progress. *)

LEMMA FaultType ==
  ASSUME DeliveryTypeOK, Fault \/ NoFault
  PROVE  faults' \in 0 .. MaxFaults
  BY DeliveryAssumption DEF DeliveryTypeOK, Fault, NoFault

\* A worker gives up, which is not the one with a step in progress.
LEMMA GiveUpStep ==
  ASSUME DeliveryInv, NEW k \in Workers, GiveUp(k)
  PROVE  Kept
<1>1. /\ (job # None => job.by # k) /\ (Fault \/ NoFault)
      /\ worker' = [worker EXCEPT ![k] = Idle]
      /\ UNCHANGED <<selection, connector, inspections, inbox, head, notification, intents,
                     publications, cursor, file, job>>
  BY DEF GiveUp, observed, published, Finish
<1>2. DeliveryTypeOK /\ QueueBound
  BY DEF DeliveryInv
<1>3. /\ worker' \in [Workers -> Lease \cup {Idle}] /\ worker'[k] = Idle
      /\ \A j \in Workers \ {k} : worker'[j] = worker[j]
  BY <1>1, <1>2, WorkerSet
<1>4. DeliveryTypeOK'
  BY <1>1, <1>2, <1>3, FaultType DEF DeliveryTypeOK
<1>5. QueueBound'
  BY <1>1, <1>3, QueueEvolves
<1>6. JobHolds'
  <2>1. job # None /\ job.by # None => job.by \in Workers \ {k}
    BY <1>1, <1>2 DEF DeliveryTypeOK, Job
  <2> QED
    BY <1>1, <1>3, <2>1, JobFrame DEF Held
<1>7. EffectByHolder
  BY <1>1 DEF EffectByHolder
<1> QED
  BY <1>1, <1>4, <1>5, <1>6, <1>7, QueueFrame DEF Kept

LEMMA LeaseExpiresStep ==
  ASSUME DeliveryInv, NEW e \in Events, NEW kind \in Kinds, LeaseExpires(e, kind)
  PROVE  Kept
<1> DEFINE i == intents[e][kind]
           row == [i EXCEPT !.live = FALSE]
<1>1. /\ i.state = "leased" /\ (Fault \/ NoFault) /\ intents' = [intents EXCEPT ![e][kind] = row]
      /\ UNCHANGED <<selection, connector, inspections, inbox, head, notification, worker,
                     publications, cursor, file, job>>
  BY DEF LeaseExpires, observed, published
<1>2. DeliveryTypeOK /\ QueueBound
  BY DEF DeliveryInv
<1>3. inbox[e] # None
  BY <1>1, <1>2 DEF QueueBound
<1>4. row \in Intent /\ row.publication = i.publication /\ row.fence = i.fence
  <2>1. i \in Intent
    BY <1>2 DEF DeliveryTypeOK
  <2> HIDE DEF i
  <2> QED
    BY <2>1 DEF Intent
<1> HIDE DEF row
<1>5. /\ intents' \in [Events -> [Kinds -> Intent]]
      /\ \A d \in Events, q \in Kinds :
           /\ intents'[d][q].publication = intents[d][q].publication
           /\ intents'[d][q].fence = intents[d][q].fence
           /\ inbox[d] = None => intents'[d][q] = intents[d][q]
  <2>1. /\ intents' \in [Events -> [Kinds -> Intent]] /\ intents'[e][kind] = row
        /\ \A d \in Events, q \in Kinds : d # e \/ q # kind => intents'[d][q] = intents[d][q]
    BY <1>1, <1>2, <1>4, IntentSet
  <2> QED
    BY <1>3, <1>4, <2>1
<1>6. DeliveryTypeOK'
  BY <1>1, <1>2, <1>5, FaultType DEF DeliveryTypeOK
<1>7. QueueBound'
  BY <1>1, <1>5, QueueEvolves
<1>8. JobHolds'
  <2>1. job # None /\ job.by # None =>
          worker[job.by].event \in Events /\ worker[job.by].kind \in Kinds
    <3> SUFFICES ASSUME job # None, job.by # None
                 PROVE  worker[job.by].event \in Events /\ worker[job.by].kind \in Kinds
      OBVIOUS
    <3>1. job.by \in Workers
      BY <1>2 DEF DeliveryTypeOK, Job
    <3>2. worker[job.by] # Idle
      BY DEF DeliveryInv, JobHolds, Idle
    <3> QED
      BY <1>2, <3>1, <3>2, Rows
  <2> QED
    BY <1>1, <1>5, <2>1, JobFrame DEF Held
<1>9. EffectByHolder
  BY <1>1 DEF EffectByHolder
<1> QED
  BY <1>1, <1>6, <1>7, <1>8, <1>9, QueueFrame DEF Kept

LEMMA EditStep ==
  ASSUME DeliveryInv, Edit \/ \E x \in inspections : InspectionExpires(x)
  PROVE  Kept
<1>1. /\ Fault
      /\ UNCHANGED <<selection, connector, inbox, head, notification, intents, worker,
                     publications, cursor, job>>
  BY DEF Edit, InspectionExpires, observed, published
<1>2. DeliveryTypeOK /\ QueueBound
  BY DEF DeliveryInv
<1>3. file' \in Bytes /\ inspections' \subseteq Inspection
  <2>1. CASE Edit
    <3>1. UNCHANGED inspections
      BY <2>1 DEF Edit, observed
    <3>2. file \in Bytes /\ [file EXCEPT !.edited = ~@] \in Bytes
      BY <1>2 DEF DeliveryTypeOK, Bytes
    <3>3. \A p \in DOMAIN publications : publications[p].before \in Bytes /\ publications[p].after \in Bytes
      BY <1>2, Rows DEF Journal
    <3>4. \/ file' = [file EXCEPT !.edited = ~@]
          \/ \E p \in DOMAIN publications : file' = publications[p].before
          \/ \E p \in DOMAIN publications : file' = publications[p].after
      BY <2>1 DEF Edit
    <3> QED
      BY <1>2, <3>1, <3>2, <3>3, <3>4 DEF DeliveryTypeOK
  <2>2. ASSUME NEW x \in inspections, InspectionExpires(x)
        PROVE  file' \in Bytes /\ inspections' \subseteq Inspection
    <3>1. x \in Inspection
      BY <1>2 DEF DeliveryTypeOK
    <3>2. [x EXCEPT !.live = FALSE] \in Inspection
      BY <3>1 DEF Inspection
    <3>3. /\ inspections' = (inspections \ {x}) \cup {[x EXCEPT !.live = FALSE]}
          /\ UNCHANGED file
      BY <2>2 DEF InspectionExpires
    <3> QED
      BY <1>2, <3>2, <3>3 DEF DeliveryTypeOK
  <2> QED
    BY <2>1, <2>2
<1>4. DeliveryTypeOK'
  BY <1>1, <1>2, <1>3, FaultType DEF DeliveryTypeOK
<1>5. QueueBound'
  BY <1>1, <1>2 DEF QueueBound, Held
<1>6. JobHolds'
  BY <1>1, JobFrame DEF Held
<1>7. EffectByHolder
  BY <1>1 DEF EffectByHolder
<1> QED
  BY <1>1, <1>4, <1>5, <1>6, <1>7, QueueFrame DEF Kept

----------------------------------------------------------------------------
(* The journal. *)

LEMMA RowSet ==
  ASSUME DeliveryTypeOK, NEW p \in DOMAIN publications, NEW row \in Journal,
         publications' = [publications EXCEPT ![p] = row]
  PROVE  /\ publications' \in Seq(Journal)
         /\ \A q : q \in DOMAIN publications' <=> q \in DOMAIN publications
         /\ publications'[p] = row
         /\ \A q \in DOMAIN publications : q # p => publications'[q] = publications[q]
<1>1. publications \in Seq(Journal) /\ p \in 1 .. Len(publications)
  BY DEF DeliveryTypeOK
<1>2. publications' \in Seq(Journal) /\ Len(publications') = Len(publications)
  BY <1>1, ExceptSeq
<1> QED
  BY <1>1, <1>2

\* Steps that neither confirm nor change what was confirmed keep the chain.
LEMMA ChainKept ==
  ASSUME RevisionsChain,
         \A q : q \in DOMAIN publications /\ publications[q].phase = "confirmed" <=>
               q \in DOMAIN publications' /\ publications'[q].phase = "confirmed",
         \A q \in DOMAIN publications : publications[q].phase = "confirmed" =>
           /\ publications'[q].revision = publications[q].revision
           /\ publications'[q].before = publications[q].before
           /\ publications'[q].after = publications[q].after,
         cursor'.revision = cursor.revision, cursor'.confirmed = cursor.confirmed
  PROVE  RevisionsChain'
<1>1. /\ \A q : q \in Confirmed' <=> q \in Confirmed
      /\ \A q \in Confirmed : /\ publications'[q].revision = publications[q].revision
                              /\ publications'[q].before = publications[q].before
                              /\ publications'[q].after = publications[q].after
  BY DEF Confirmed
<1>2. \A r : r \in {publications'[p].revision : p \in Confirmed'} <=> r \in 1 .. cursor'.revision
  <2>1. \A r : r \in {publications[p].revision : p \in Confirmed} <=> r \in 1 .. cursor.revision
    BY DEF RevisionsChain
  <2>2. \A r : (\E p \in Confirmed : r = publications[p].revision) <=> r \in 1 .. cursor.revision
    BY <2>1
  <2>3. \A r : (\E p \in Confirmed' : r = publications'[p].revision) <=> r \in 1 .. cursor.revision
    BY <1>1, <2>2
  <2> QED
    BY <2>3
<1>3. {publications'[p].revision : p \in Confirmed'} = 1 .. cursor'.revision
  <2> DEFINE A == {publications'[p].revision : p \in Confirmed'}
             B == 1 .. cursor'.revision
  <2>1. \A r : r \in A <=> r \in B
    BY <1>2
  <2> HIDE DEF A, B
  <2>2. A = B
    BY <2>1
  <2> QED
    BY <2>2 DEF A, B
<1>4. \A p, q \in Confirmed' : publications'[p].revision = publications'[q].revision => p = q
  BY <1>1 DEF RevisionsChain
<1>5. \A p \in Confirmed' :
        IF publications'[p].revision = cursor'.revision
          THEN cursor'.confirmed = publications'[p].after
          ELSE \E q \in Confirmed' : /\ publications'[q].revision = publications'[p].revision + 1
                                     /\ publications'[q].before = publications'[p].after
  BY <1>1 DEF RevisionsChain
<1> QED
  BY <1>3, <1>4, <1>5 DEF RevisionsChain

\* A publication is leased anew, or its lease runs out.
LEMMA LiveFrame ==
  ASSUME DeliveryInv, UNCHANGED <<selection, connector, inspections, inbox, head, notification,
                                  intents, cursor, file, job>>,
         NEW p \in DOMAIN publications, NEW live \in BOOLEAN,
         publications' = [publications EXCEPT ![p].live = live],
         worker' \in [Workers -> Lease \cup {Idle}], faults' \in 0 .. MaxFaults, QueueBound',
         job = None \/ UNCHANGED worker
  PROVE  Kept
<1> DEFINE row == [publications[p] EXCEPT !.live = live]
<1>1. /\ DeliveryTypeOK /\ ObservationsDated /\ NotesDated /\ SlotNext /\ RevisionsChain
      /\ RecordedLandingsHeld /\ PendingFactsStand /\ JobHolds
  BY DEF DeliveryInv
<1>2. /\ row \in Journal
      /\ row.work = publications[p].work /\ row.note = publications[p].note
      /\ row.revision = publications[p].revision /\ row.phase = publications[p].phase
      /\ row.before = publications[p].before /\ row.after = publications[p].after
      /\ row.written = publications[p].written
  <2>1. publications[p] \in Journal
    BY <1>1, Rows
  <2> QED
    BY <2>1 DEF Journal
<1>3. publications' = [publications EXCEPT ![p] = row]
  OBVIOUS
<1> HIDE DEF row
<1>4. /\ publications' \in Seq(Journal)
      /\ \A q : q \in DOMAIN publications' <=> q \in DOMAIN publications
      /\ \A q \in DOMAIN publications :
           /\ publications'[q].work = publications[q].work
           /\ publications'[q].note = publications[q].note
           /\ publications'[q].revision = publications[q].revision
           /\ publications'[q].phase = publications[q].phase
           /\ publications'[q].before = publications[q].before
           /\ publications'[q].after = publications[q].after
           /\ publications'[q].written = publications[q].written
  BY <1>1, <1>2, <1>3, RowSet
<1>5. DeliveryTypeOK'
  BY <1>1, <1>4 DEF DeliveryTypeOK
<1>6. ObservationsDated' /\ NotesDated' /\ SlotNext' /\ RecordedLandingsHeld'
  <2>1. \A q : q \in Confirmed' <=> q \in Confirmed
    BY <1>4 DEF Confirmed
  <2>2. RecordedLandingsHeld'
    BY <1>1, <1>4, <2>1 DEF RecordedLandingsHeld
  <2> QED
    BY <1>1, <1>4, <2>2 DEF ObservationsDated, NotesDated, SlotNext
<1>7. RevisionsChain'
  BY <1>1, <1>4, ChainKept
<1>8. PendingFactsStand'
  <2>1. cursor.pending # 0 => cursor.pending \in DOMAIN publications
    BY <1>1 DEF SlotNext
  <2>2. \A w : Facts(w)' = Facts(w)
    BY DEF Facts
  <2> QED
    BY <1>1, <1>4, <2>1, <2>2 DEF PendingFactsStand
<1>9. JobHolds'
  <2> SUFFICES ASSUME job # None
               PROVE  JobHolds'
    BY DEF JobHolds
  <2>1. job.publication \in DOMAIN publications
    BY <1>1 DEF JobHolds, SlotNext
  <2>2. NoteHolds(job.publication)' <=> NoteHolds(job.publication)
    BY <1>4, <2>1, NoteKept DEF NoteHolds
  <2> QED
    BY <1>1, <1>4, <2>1, <2>2 DEF JobHolds, Held
<1>10. ConfirmIsCurrent /\ EffectByHolder
  BY <1>4 DEF ConfirmIsCurrent, EffectByHolder
<1> QED
  BY <1>5, <1>6, <1>7, <1>8, <1>9, <1>10 DEF DeliveryInv, Kept

LEMMA PreparedFrame ==
  ASSUME DeliveryInv, NEW w \in Works, NEW e \in Events \cup {None}, Prepared(w, e),
         UNCHANGED <<selection, connector, inspections, inbox, head, notification, file, job, faults>>,
         intents' \in [Events -> [Kinds -> Intent]], worker' \in [Workers -> Lease \cup {Idle}],
         QueueBound'
  PROVE  Kept
<1> DEFINE n == Len(publications) + 1
           after == [file EXCEPT !.note[w] = n]
           row == [work |-> w, intent |-> e, note |-> current_note(w),
                   revision |-> cursor.revision + 1, before |-> file, after |-> after,
                   live |-> TRUE, written |-> FALSE, phase |-> "pending"]
<1>1. /\ job = None /\ cursor.pending = 0 /\ file = cursor.confirmed
      /\ publications' = Append(publications, row)
      /\ cursor' = [cursor EXCEPT !.pending = n]
  BY DEF Prepared, Preparable, Unlocked
<1>2. /\ DeliveryTypeOK /\ ObservationsDated /\ NotesDated /\ RevisionsChain
      /\ RecordedLandingsHeld
  BY DEF DeliveryInv
<1>3. publications \in Seq(Journal) /\ n \in Nat \ {0} /\ file \in Bytes
  BY <1>2 DEF DeliveryTypeOK
<1>4. after \in Bytes
  BY <1>3 DEF Bytes
<1>5. Facts(w) \in SUBSET Events /\ \A f \in Facts(w) : inbox[f] # None
  BY <1>2, FactsRecorded
<1>6. current_note(w) \in Note /\ current_note(w).facts = Facts(w)
      /\ current_note(w).selection = selection[w].version
  <2>1. selection[w].version \in Nat
    BY <1>2, Rows
  <2> QED
    BY <1>5, <2>1 DEF current_note, Note
<1>7. cursor.revision \in Nat
  BY <1>2 DEF DeliveryTypeOK
<1>8. /\ row \in Journal /\ row.work = w /\ row.note = current_note(w)
      /\ row.revision = cursor.revision + 1 /\ row.before = file /\ ~ row.written
      /\ row.phase = "pending"
  BY <1>3, <1>4, <1>6, <1>7 DEF Journal
<1> HIDE DEF row, after
<1>9. /\ publications' \in Seq(Journal) /\ publications'[n] = row
      /\ \A q : q \in DOMAIN publications' <=> q \in DOMAIN publications \/ q = n
      /\ \A q \in DOMAIN publications : publications'[q] = publications[q] /\ q # n
  <2>1. publications' \in Seq(Journal) /\ Len(publications') = n
    BY <1>1, <1>3, <1>8
  <2> QED
    BY <1>1, <1>3, <1>8, <2>1
<1>10. /\ cursor' \in [revision : Nat, confirmed : Bytes, pending : Nat] /\ cursor'.pending = n
       /\ cursor'.revision = cursor.revision /\ cursor'.confirmed = cursor.confirmed
  BY <1>1, <1>2, <1>3 DEF DeliveryTypeOK
<1> HIDE DEF n
<1>11. DeliveryTypeOK'
  BY <1>2, <1>9, <1>10 DEF DeliveryTypeOK
<1>12. NotesDated'
  <2>1. selection[w].version \in Nat
    BY <1>2, Rows
  <2>2. \A p \in DOMAIN publications :
          /\ publications'[p].note.selection <= selection'[publications'[p].work].version
          /\ \A f \in publications'[p].note.facts : inbox'[f] # None
    BY <1>2, <1>9 DEF NotesDated
  <2>3. /\ publications'[n].note.selection <= selection'[publications'[n].work].version
        /\ \A f \in publications'[n].note.facts : inbox'[f] # None
    BY <1>5, <1>6, <1>8, <1>9, <2>1
  <2> QED
    BY <1>9, <2>2, <2>3 DEF NotesDated
<1>13. SlotNext'
  BY <1>1, <1>8, <1>9, <1>10 DEF SlotNext
<1>14. RevisionsChain'
  BY <1>2, <1>8, <1>9, <1>10, ChainKept
<1>15. RecordedLandingsHeld'
  <2>1. \A q \in DOMAIN publications : publications[q].written => publications[q].phase = "confirmed"
    BY <1>1, <1>2 DEF RecordedLandingsHeld, Confirmed
  <2>2. \A q \in DOMAIN publications' :
          publications'[q].written => publications'[q].phase = "confirmed"
    BY <1>8, <1>9, <2>1
  <2> QED
    BY <2>2 DEF RecordedLandingsHeld, Confirmed
<1>16. PendingFactsStand'
  <2>1. Facts(w)' = Facts(w)
    BY DEF Facts
  <2> QED
    BY <1>6, <1>8, <1>9, <1>10, <2>1 DEF PendingFactsStand
<1>17. ObservationsDated' /\ JobHolds' /\ EffectByHolder
  BY <1>1, <1>2 DEF ObservationsDated, JobHolds, EffectByHolder
<1>18. ConfirmIsCurrent
  BY <1>9 DEF ConfirmIsCurrent
<1> QED
  BY <1>11, <1>12, <1>13, <1>14, <1>15, <1>16, <1>17, <1>18 DEF DeliveryInv, Kept

LEMMA PrepareStep ==
  ASSUME DeliveryInv, NEW k \in Workers, Prepare(k)
  PROVE  Kept
<1> DEFINE w == WorkOf[inbox[worker[k].event].connector]
           row == [Held(k) EXCEPT !.publication = cursor'.pending]
<1>1. /\ worker[k].step = "claimed" /\ Held(k).publication = 0
      /\ Prepared(w, worker[k].event) /\ SetHeld(k, row) /\ Step(k, "prepared")
      /\ UNCHANGED <<selection, connector, inspections, inbox, head, notification, file, job, faults>>
  BY DEF Prepare, observed
<1>2. DeliveryTypeOK /\ QueueBound
  BY DEF DeliveryInv
<1>3. worker[k] # Idle
  BY <1>1 DEF Idle
<1>4. /\ Held(k) \in Intent /\ worker[k].event \in Events /\ worker[k].kind \in Kinds
      /\ inbox[worker[k].event] # None
  BY <1>2, <1>3, Rows DEF QueueBound
<1>5. w \in Works
  <2>1. inbox[worker[k].event].connector \in Connectors
    BY <1>2, <1>4, Rows
  <2> QED
    BY <2>1, DeliveryAssumption
<1>6. cursor'.pending \in Nat \ {0}
  <2>1. Len(publications) \in Nat /\ cursor \in [revision : Nat, confirmed : Bytes, pending : Nat]
    BY <1>2 DEF DeliveryTypeOK
  <2> QED
    BY <1>1, <2>1 DEF Prepared
<1>7. row \in Intent /\ row.publication # 0
  <2> DEFINE held == Held(k)
             id == cursor'.pending
  <2>1. held \in Intent /\ id \in Nat \ {0} /\ row = [held EXCEPT !.publication = id]
    BY <1>4, <1>6
  <2> HIDE DEF held, id
  <2> QED
    BY <2>1 DEF Intent
<1> HIDE DEF row
<1>8. /\ intents' \in [Events -> [Kinds -> Intent]]
      /\ intents'[worker[k].event][worker[k].kind] = row
      /\ \A d \in Events, q \in Kinds :
           /\ intents[d][q].publication # 0 => intents'[d][q].publication # 0
           /\ inbox[d] = None => intents'[d][q] = intents[d][q]
  BY <1>1, <1>2, <1>3, <1>7, HeldSet
<1>9. /\ worker' \in [Workers -> Lease \cup {Idle}] /\ worker'[k].step = "prepared"
      /\ worker'[k].event = worker[k].event /\ worker'[k].kind = worker[k].kind
      /\ \A j \in Workers \ {k} : worker'[j] = worker[j]
  BY <1>1, <1>2, <1>3, StepSet
<1>10. QueueBound'
  BY <1>1, <1>4, <1>7, <1>8, <1>9, QueueEvolves
<1> QED
  BY <1>1, <1>4, <1>5, <1>8, <1>9, <1>10, PreparedFrame

LEMMA RenewStep ==
  ASSUME DeliveryInv, NEW k \in Workers, Renew(k)
  PROVE  Kept
<1> DEFINE p == Held(k).publication
<1>1. /\ worker[k].step = "claimed" /\ p # 0 /\ Step(k, "prepared")
      /\ job = None /\ cursor.pending = p
      /\ publications' = [publications EXCEPT ![p].live = TRUE]
      /\ UNCHANGED <<selection, connector, inspections, inbox, head, notification,
                     intents, cursor, file, job, faults>>
  BY DEF Renew, Renewed, Open, Unlocked, observed
<1>2. DeliveryTypeOK /\ QueueBound /\ SlotNext
  BY DEF DeliveryInv
<1>3. worker[k] # Idle
  BY <1>1 DEF Idle
<1>4. /\ worker[k].event \in Events /\ worker[k].kind \in Kinds /\ inbox[worker[k].event] # None
  BY <1>2, <1>3, Rows DEF QueueBound
<1>5. /\ worker' \in [Workers -> Lease \cup {Idle}] /\ worker'[k].step = "prepared"
      /\ worker'[k].event = worker[k].event /\ worker'[k].kind = worker[k].kind
      /\ \A j \in Workers \ {k} : worker'[j] = worker[j]
  BY <1>1, <1>2, <1>3, StepSet
<1>6. intents'[worker'[k].event][worker'[k].kind].publication # 0
  BY <1>1, <1>5 DEF Held
<1>7. QueueBound'
  BY <1>1, <1>4, <1>5, <1>6, QueueEvolves
<1>8. p \in DOMAIN publications /\ faults' \in 0 .. MaxFaults
  BY <1>1, <1>2 DEF SlotNext, DeliveryTypeOK
<1> HIDE DEF p
<1> QED
  BY <1>1, <1>5, <1>7, <1>8, LiveFrame

LEMMA OperatorStep ==
  ASSUME DeliveryInv, NEW p \in DOMAIN publications, OperatorRenews(p) \/ PublicationExpires(p)
  PROVE  Kept
<1>1. /\ \E live \in BOOLEAN : publications' = [publications EXCEPT ![p].live = live]
      /\ Fault \/ NoFault
      /\ UNCHANGED <<selection, connector, inspections, inbox, head, notification, worker,
                     intents, cursor, file, job>>
  BY DEF OperatorRenews, PublicationExpires, Renewed, observed, NoFault
<1>2. DeliveryTypeOK /\ QueueBound
  BY DEF DeliveryInv
<1>3. QueueBound' /\ worker' \in [Workers -> Lease \cup {Idle}]
  BY <1>1, <1>2 DEF QueueBound, Held, DeliveryTypeOK
<1> QED
  BY <1>1, <1>2, <1>3, FaultType, LiveFrame

LEMMA OperatorPreparesStep ==
  ASSUME DeliveryInv, NEW w \in Works, OperatorPrepares(w)
  PROVE  Kept
<1>1. /\ Prepared(w, None)
      /\ UNCHANGED <<selection, connector, inspections, inbox, head, notification, file, job,
                     faults, intents, worker>>
  BY DEF OperatorPrepares, observed
<1>2. DeliveryTypeOK /\ QueueBound
  BY DEF DeliveryInv
<1>3. /\ QueueBound' /\ worker' \in [Workers -> Lease \cup {Idle}]
      /\ intents' \in [Events -> [Kinds -> Intent]]
  BY <1>1, <1>2 DEF QueueBound, Held, DeliveryTypeOK
<1> QED
  BY <1>1, <1>3, PreparedFrame

LEMMA OperatorAbandonsStep ==
  ASSUME DeliveryInv, NEW p \in DOMAIN publications, OperatorAbandons(p)
  PROVE  Kept
<1> DEFINE row == [publications[p] EXCEPT !.phase = "conflict"]
<1>1. /\ job = None /\ cursor.pending = p /\ ~ publications[p].written
      /\ publications[p].phase # "confirmed"
      /\ publications' = [publications EXCEPT ![p] = row]
      /\ cursor' = [cursor EXCEPT !.pending = 0]
      /\ UNCHANGED <<selection, connector, inspections, inbox, head, notification,
                     intents, file, worker, job, faults>>
  BY DEF OperatorAbandons, Withdrawable, Unlocked, observed
<1>2. /\ DeliveryTypeOK /\ ObservationsDated /\ NotesDated /\ QueueBound /\ RevisionsChain
      /\ RecordedLandingsHeld
  BY DEF DeliveryInv
<1>3. /\ row \in Journal /\ row.work = publications[p].work /\ row.note = publications[p].note
      /\ row.phase = "conflict" /\ row.written = publications[p].written
  <2>1. publications[p] \in Journal
    BY <1>2, Rows
  <2> QED
    BY <2>1 DEF Journal
<1> HIDE DEF row
<1>4. /\ publications' \in Seq(Journal)
      /\ \A q : q \in DOMAIN publications' <=> q \in DOMAIN publications
      /\ publications'[p] = row
      /\ \A q \in DOMAIN publications : q # p => publications'[q] = publications[q]
  BY <1>1, <1>2, <1>3, RowSet
<1>5. /\ cursor' \in [revision : Nat, confirmed : Bytes, pending : Nat] /\ cursor'.pending = 0
      /\ cursor'.revision = cursor.revision /\ cursor'.confirmed = cursor.confirmed
  BY <1>1, <1>2 DEF DeliveryTypeOK
<1>6. DeliveryTypeOK'
  BY <1>1, <1>2, <1>4, <1>5 DEF DeliveryTypeOK
<1>7. ObservationsDated' /\ QueueBound' /\ JobHolds' /\ EffectByHolder
  BY <1>1, <1>2 DEF ObservationsDated, QueueBound, Held, JobHolds, EffectByHolder
<1>8. NotesDated' /\ SlotNext' /\ PendingFactsStand'
  BY <1>1, <1>2, <1>3, <1>4, <1>5 DEF NotesDated, SlotNext, PendingFactsStand
<1>9. RevisionsChain'
  BY <1>1, <1>2, <1>3, <1>4, <1>5, ChainKept
<1>10. RecordedLandingsHeld'
  <2>1. \A q \in DOMAIN publications : publications[q].written => publications[q].phase = "confirmed" /\ q # p
    BY <1>1, <1>2 DEF RecordedLandingsHeld, Confirmed
  <2>2. \A q \in DOMAIN publications' :
          publications'[q].written => publications'[q].phase = "confirmed"
    BY <1>1, <1>3, <1>4, <2>1
  <2> QED
    BY <2>2 DEF RecordedLandingsHeld, Confirmed
<1>11. ConfirmIsCurrent
  BY <1>3, <1>4 DEF ConfirmIsCurrent
<1> QED
  BY <1>6, <1>7, <1>8, <1>9, <1>10, <1>11 DEF DeliveryInv, Kept

----------------------------------------------------------------------------
(* The publication step. *)

LEMMA BeginStep ==
  ASSUME DeliveryInv, NEW p, NEW k \in Workers \cup {None}, NEW confirm \in BOOLEAN,
         Begin(p, k, confirm), p # 0,
         k # None => worker[k].step \in {"prepared", "written"} /\ Held(k).fence = worker[k].fence
  PROVE  Kept
<1>1. PICK seen \in {file, None} :
        job' = [publication |-> p, by |-> k, confirm |-> confirm, seen |-> seen,
                replacement |-> "none"]
  BY DEF Begin
<1>2. /\ job = None /\ cursor.pending = p /\ (Fault \/ NoFault)
      /\ publications[p].phase \notin {"confirmed", "conflict"} /\ NoteHolds(p)
      /\ UNCHANGED <<selection, connector, inspections, inbox, head, notification, intents,
                     publications, cursor, file, worker>>
  BY DEF Begin, Open, Unlocked, observed, published
<1>3. DeliveryTypeOK /\ QueueBound /\ SlotNext
  BY DEF DeliveryInv
<1>4. p \in DOMAIN publications /\ p \in Nat
  BY <1>2, <1>3, Rows DEF SlotNext
<1>5. job' \in Job /\ job'.publication = p /\ job'.by = k
  <2>1. seen \in Bytes \cup {None}
    BY <1>3 DEF DeliveryTypeOK
  <2> QED
    BY <1>1, <1>4, <2>1 DEF Job
<1>6. DeliveryTypeOK'
  BY <1>2, <1>3, <1>5, FaultType DEF DeliveryTypeOK
<1>7. QueueBound'
  BY <1>2, <1>3 DEF QueueBound, Held
<1>8. JobHolds'
  <2>1. publications'[p].note = current_note(publications[p].work)'
        /\ selection'[publications'[p].work].fenced
    BY <1>2, NoteKept DEF NoteHolds
  <2>2. NoteHolds(job.publication)'
    BY <1>2, <1>5, <2>1 DEF NoteHolds
  <2> QED
    BY <1>2, <1>5, <2>2 DEF JobHolds, Held
<1>9. EffectByHolder
  BY <1>2 DEF EffectByHolder
<1> QED
  BY <1>2, <1>6, <1>7, <1>8, <1>9, QueueFrame DEF Kept

\* The worker with a publication step in progress, if it is a worker's.
LEMMA JobWorker ==
  ASSUME DeliveryInv, job # None
  PROVE  /\ job \in Job
         /\ job.publication = cursor.pending /\ job.publication \in DOMAIN publications
         /\ Journaled \in Journal
         /\ job.by # None => job.by \in Workers /\ worker[job.by] # Idle
<1>1. DeliveryTypeOK /\ SlotNext /\ JobHolds
  BY DEF DeliveryInv
<1>2. job \in Job
  BY <1>1 DEF DeliveryTypeOK
<1>3. job.publication = cursor.pending /\ job.publication \in DOMAIN publications
  BY <1>1 DEF JobHolds, SlotNext
<1>4. Journaled \in Journal
  BY <1>1, <1>3, Rows DEF Journaled
<1>5. job.by # None => job.by \in Workers /\ worker[job.by] # Idle
  BY <1>1, <1>2 DEF JobHolds, Job, Idle
<1> QED
  BY <1>2, <1>3, <1>4, <1>5

LEMMA ReplaceStep ==
  ASSUME DeliveryInv, Replace
  PROVE  Kept
<1>1. /\ job # None /\ file' \in {file, Journaled.after} /\ (Fault \/ NoFault)
      /\ \E r \in {"made", "failed"} : job' = [job EXCEPT !.replacement = r]
      /\ UNCHANGED <<selection, connector, inspections, inbox, head, notification, intents,
                     publications, cursor, worker>>
  BY DEF Replace, observed, published, NoFault
<1>2. DeliveryTypeOK /\ QueueBound /\ JobHolds
  BY DEF DeliveryInv
<1>3. job \in Job /\ Journaled \in Journal
  BY <1>1, JobWorker
<1>4. job' \in Job /\ job'.publication = job.publication /\ job'.by = job.by
  BY <1>1, <1>3 DEF Job
<1>5. file' \in Bytes
  BY <1>1, <1>2, <1>3 DEF Journal, DeliveryTypeOK
<1>6. DeliveryTypeOK'
  BY <1>1, <1>2, <1>4, <1>5, FaultType DEF DeliveryTypeOK
<1>7. QueueBound'
  BY <1>1, <1>2 DEF QueueBound, Held
<1>8. JobHolds'
  <2>1. NoteHolds(job.publication)'
    BY <1>1, <1>2, <1>4, NoteKept DEF NoteHolds, JobHolds
  <2> QED
    BY <1>1, <1>2, <1>4, <2>1 DEF JobHolds, Held
<1>9. EffectByHolder
  BY <1>2 DEF EffectByHolder, JobHolds
<1> QED
  BY <1>1, <1>6, <1>7, <1>8, <1>9, QueueFrame DEF Kept

LEMMA RollBackStep ==
  ASSUME DeliveryInv, RollBack
  PROVE  Kept
<1>1. /\ job # None /\ job' = None /\ (Fault \/ NoFault)
      /\ IF job.by = None THEN UNCHANGED worker ELSE Finish(job.by)
      /\ UNCHANGED <<selection, connector, inspections, inbox, head, notification, intents,
                     publications, cursor, file>>
  BY DEF RollBack, observed, published
<1>2. DeliveryTypeOK /\ JobHolds
  BY DEF DeliveryInv
<1>3. /\ worker' \in [Workers -> Lease \cup {Idle}]
      /\ \A k \in Workers : worker'[k] = worker[k] \/ worker'[k] = Idle
  <2>1. CASE UNCHANGED worker
    BY <1>2, <2>1 DEF DeliveryTypeOK
  <2>2. CASE job.by # None
    BY <1>1, <1>2, <2>2, JobWorker, WorkerSet DEF Finish
  <2> QED
    BY <1>1, <2>1, <2>2
<1>4. DeliveryTypeOK'
  BY <1>1, <1>2, <1>3, FaultType DEF DeliveryTypeOK
<1>5. QueueBound'
  BY <1>1, <1>3, QueueEvolves
<1>6. JobHolds' /\ EffectByHolder
  BY <1>1, <1>2 DEF JobHolds, EffectByHolder
<1> QED
  BY <1>1, <1>4, <1>5, <1>6, QueueFrame DEF Kept

\* A confirmation adds its publication to the end of the chain.
LEMMA ChainGrows ==
  ASSUME DeliveryInv, NEW p \in DOMAIN publications, cursor.pending = p, p # 0,
         \A q : q \in DOMAIN publications' <=> q \in DOMAIN publications,
         \A q \in DOMAIN publications : q # p => publications'[q] = publications[q],
         publications'[p].phase = "confirmed",
         publications'[p].revision = publications[p].revision,
         publications'[p].before = publications[p].before,
         publications'[p].after = publications[p].after,
         cursor'.revision = publications[p].revision, cursor'.confirmed = publications[p].after
  PROVE  RevisionsChain'
<1> DEFINE R == cursor.revision
<1>1. /\ DeliveryTypeOK /\ SlotNext /\ RevisionsChain
  BY DEF DeliveryInv
<1>2. R \in Nat
  BY <1>1 DEF DeliveryTypeOK
<1>3. /\ publications[p].phase # "confirmed" /\ publications[p].revision = R + 1
      /\ publications[p].before = cursor.confirmed
  BY <1>1 DEF SlotNext
<1>4. /\ \A q : q \in Confirmed' <=> q \in Confirmed \/ q = p
      /\ p \notin Confirmed /\ \A q \in Confirmed : publications'[q] = publications[q]
  BY <1>3 DEF Confirmed
<1>5. \A r : (\E q \in Confirmed : r = publications[q].revision) <=> r \in 1 .. R
  <2>1. \A r : r \in {publications[q].revision : q \in Confirmed} <=> r \in 1 .. R
    BY <1>1 DEF RevisionsChain
  <2> QED
    BY <2>1
<1> HIDE DEF R
<1>6. \A q \in Confirmed : publications[q].revision \in 1 .. R
  BY <1>5
<1>7. cursor'.revision = R + 1 /\ publications'[p].revision = R + 1
  BY <1>3
<1>8. {publications'[q].revision : q \in Confirmed'} = 1 .. cursor'.revision
  <2>1. \A r : (\E q \in Confirmed' : r = publications'[q].revision) <=> r \in 1 .. R \/ r = R + 1
    BY <1>4, <1>5, <1>7
  <2> DEFINE A == {publications'[q].revision : q \in Confirmed'}
             B == 1 .. cursor'.revision
  <2>2. \A r : r \in B <=> r \in 1 .. R \/ r = R + 1
    BY <1>2, <1>7
  <2>3. \A r : r \in A <=> r \in B
    BY <2>1, <2>2
  <2> HIDE DEF A, B
  <2>4. A = B
    BY <2>3
  <2> QED
    BY <2>4 DEF A, B
<1>9. \A q, r \in Confirmed' : publications'[q].revision = publications'[r].revision => q = r
  <2>1. \A q, r \in Confirmed : publications'[q].revision = publications'[r].revision => q = r
    BY <1>1, <1>4 DEF RevisionsChain
  <2>2. \A q \in Confirmed : publications'[q].revision # publications'[p].revision
    BY <1>2, <1>4, <1>6, <1>7
  <2> QED
    BY <1>4, <2>1, <2>2
<1>10. ASSUME NEW q \in Confirmed'
       PROVE  IF publications'[q].revision = cursor'.revision
                THEN cursor'.confirmed = publications'[q].after
                ELSE \E r \in Confirmed' : /\ publications'[r].revision = publications'[q].revision + 1
                                           /\ publications'[r].before = publications'[q].after
  <2>1. CASE q = p
    BY <1>7, <2>1
  <2>2. CASE q \in Confirmed /\ publications[q].revision = R
    <3>1. cursor.confirmed = publications[q].after
      BY <1>1, <2>2 DEF RevisionsChain, R
    <3>2. /\ publications'[p].revision = publications'[q].revision + 1
          /\ publications'[p].before = publications'[q].after
      BY <1>3, <1>4, <1>7, <2>2, <3>1
    <3>3. publications'[q].revision # cursor'.revision
      BY <1>2, <1>4, <1>7, <2>2
    <3> QED
      BY <1>4, <3>2, <3>3
  <2>3. CASE q \in Confirmed /\ publications[q].revision # R
    <3>1. \E r \in Confirmed : /\ publications[r].revision = publications[q].revision + 1
                               /\ publications[r].before = publications[q].after
      BY <1>1, <2>3 DEF RevisionsChain, R
    <3>2. publications'[q].revision # cursor'.revision
      BY <1>2, <1>4, <1>6, <1>7, <2>3
    <3> QED
      BY <1>4, <2>3, <3>1, <3>2
  <2> QED
    BY <1>4, <1>10, <2>1, <2>2, <2>3
<1> QED
  BY <1>8, <1>9, <1>10 DEF RevisionsChain

LEMMA CommittedStep ==
  ASSUME DeliveryInv, job # None,
         NEW phase \in {"pending", "source_written", "confirmed", "conflict", "failed"},
         Committed(phase), phase = "confirmed" => file = Journaled.after,
         UNCHANGED <<selection, observed, file>>, Fault \/ NoFault
  PROVE  Kept
<1> DEFINE p == job.publication
           j == publications[p]
           written == \/ j.written \/ job.replacement = "made" \/ job.seen = j.after
                      \/ phase \in {"source_written", "confirmed"}
           mid == [j EXCEPT !.phase = phase]
           row == [mid EXCEPT !.written = written]
<1>1. /\ DeliveryTypeOK /\ ObservationsDated /\ NotesDated /\ QueueBound /\ SlotNext
      /\ RevisionsChain /\ RecordedLandingsHeld /\ PendingFactsStand /\ JobHolds
  BY DEF DeliveryInv
<1>2. /\ p \in DOMAIN publications /\ p = cursor.pending /\ p # 0 /\ j \in Journal
      /\ j.phase \notin {"confirmed", "conflict"} /\ NoteHolds(p)
  BY <1>1, JobWorker DEF JobHolds, Journaled
<1>3. /\ publications' = [publications EXCEPT ![p] = row] /\ job' = None
      /\ UNCHANGED <<selection, connector, inspections, inbox, head, notification, file>>
  <2>1. /\ publications' = [publications EXCEPT ![p].phase = phase, ![p].written = written]
        /\ job' = None
    BY DEF Committed, Journaled
  <2>2. publications' = [publications EXCEPT ![p] = row]
    BY <1>1, <1>2, <2>1 DEF DeliveryTypeOK
  <2> QED
    BY <2>1, <2>2 DEF observed
<1>4. cursor' = IF phase = "confirmed"
                  THEN [revision |-> j.revision, confirmed |-> j.after, pending |-> 0]
                  ELSE cursor
  BY DEF Committed, Journaled
<1>5. /\ row \in Journal /\ row.work = j.work /\ row.note = j.note
      /\ row.revision = j.revision /\ row.before = j.before /\ row.after = j.after
      /\ row.phase = phase
  <2>1. written \in BOOLEAN
    BY <1>2 DEF Journal
  <2> HIDE DEF written, j
  <2>2. /\ mid \in Journal /\ mid.work = j.work /\ mid.note = j.note
        /\ mid.revision = j.revision /\ mid.before = j.before /\ mid.after = j.after
        /\ mid.phase = phase
    BY <1>2 DEF Journal
  <2> HIDE DEF mid
  <2> QED
    BY <2>1, <2>2 DEF Journal
<1> HIDE DEF row, written
<1>6. /\ publications' \in Seq(Journal)
      /\ \A q : q \in DOMAIN publications' <=> q \in DOMAIN publications
      /\ publications'[p] = row
      /\ \A q \in DOMAIN publications : q # p => publications'[q] = publications[q]
  BY <1>1, <1>2, <1>3, <1>5, RowSet
<1>7. /\ intents' \in [Events -> [Kinds -> Intent]]
      /\ \A d \in Events, q \in Kinds :
           /\ intents[d][q].publication # 0 => intents'[d][q].publication # 0
           /\ inbox[d] = None => intents'[d][q] = intents[d][q]
  <2>1. CASE UNCHANGED intents
    BY <1>1, <2>1 DEF DeliveryTypeOK
  <2>2. CASE job.by # None /\ SetHeld(job.by, [Held(job.by) EXCEPT !.state = "succeeded"])
    <3> DEFINE k == job.by
               held == Held(k)
               done == [held EXCEPT !.state = "succeeded"]
    <3>1. k \in Workers /\ worker[k] # Idle
      BY <2>2, JobWorker
    <3>2. held \in Intent
      BY <1>1, <3>1, Rows
    <3> HIDE DEF held
    <3>3. done \in Intent /\ done.publication = held.publication
      BY <3>2 DEF Intent
    <3>4. SetHeld(k, done)
      BY <2>2 DEF held
    <3> HIDE DEF done, k
    <3> QED
      BY <1>1, <3>1, <3>3, <3>4, HeldSet DEF held
  <2> QED
    BY <2>1, <2>2 DEF Committed
<1>8. /\ worker' \in [Workers -> Lease \cup {Idle}]
      /\ \A k \in Workers :
           \/ worker'[k] = worker[k] \/ worker'[k] = Idle
           \/ /\ worker[k] # Idle /\ worker'[k].event = worker[k].event
              /\ worker'[k].kind = worker[k].kind
              /\ worker'[k].step \in {"prepared", "written"} =>
                   worker[k].step \in {"prepared", "written"}
  <2>1. CASE UNCHANGED worker
    BY <1>1, <2>1 DEF DeliveryTypeOK
  <2>2. CASE job.by # None
    <3>1. job.by \in Workers /\ worker[job.by] # Idle
      BY <2>2, JobWorker
    <3>2. worker[job.by].step \in {"prepared", "written"}
      BY <1>1, <2>2 DEF JobHolds
    <3>3. Step(job.by, "failed") \/ Step(job.by, "written") \/ Finish(job.by)
      BY <2>2 DEF Committed
    <3>4. CASE Finish(job.by)
      BY <1>1, <3>1, <3>4, WorkerSet DEF Finish
    <3>5. ASSUME NEW st \in {"failed", "written"}, Step(job.by, st)
          PROVE  /\ worker' \in [Workers -> Lease \cup {Idle}]
                 /\ worker'[job.by].event = worker[job.by].event
                 /\ worker'[job.by].kind = worker[job.by].kind
                 /\ \A k \in Workers \ {job.by} : worker'[k] = worker[k]
      BY <1>1, <3>1, <3>5, StepSet
    <3> QED
      BY <3>1, <3>2, <3>3, <3>4, <3>5
  <2> QED
    BY <2>1, <2>2 DEF Committed
<1>9. QueueBound'
  <2>1. ASSUME NEW k \in Workers, worker[k] # Idle
        PROVE  /\ worker[k].event \in Events /\ worker[k].kind \in Kinds
               /\ inbox[worker[k].event] # None
               /\ worker[k].step \in {"prepared", "written"} =>
                    intents'[worker[k].event][worker[k].kind].publication # 0
    <3>1. worker[k].event \in Events /\ worker[k].kind \in Kinds
      BY <1>1, <2>1, Rows
    <3> QED
      BY <1>1, <1>7, <2>1, <3>1 DEF QueueBound, Held
  <2> QED
    BY <1>3, <1>7, <1>8, <2>1, QueueEvolves
<1>10. cursor' \in [revision : Nat, confirmed : Bytes, pending : Nat]
  BY <1>1, <1>2, <1>4 DEF DeliveryTypeOK, Journal
<1>11. DeliveryTypeOK'
  BY <1>1, <1>3, <1>6, <1>7, <1>8, <1>10, FaultType DEF DeliveryTypeOK
<1>12. ObservationsDated' /\ NotesDated'
  BY <1>1, <1>2, <1>3, <1>5, <1>6 DEF ObservationsDated, NotesDated
<1>13. SlotNext'
  BY <1>1, <1>2, <1>4, <1>5, <1>6 DEF SlotNext
<1>14. RevisionsChain'
  <2>1. CASE phase = "confirmed"
    <3>1. cursor'.revision = j.revision /\ cursor'.confirmed = j.after
      BY <1>4, <2>1
    <3> QED
      BY <1>2, <1>5, <1>6, <2>1, <3>1, ChainGrows
  <2>2. CASE phase # "confirmed"
    BY <1>1, <1>2, <1>4, <1>5, <1>6, <2>2, ChainKept
  <2> QED
    BY <2>1, <2>2
<1>15. RecordedLandingsHeld'
  <2> SUFFICES ASSUME NEW q \in DOMAIN publications, publications'[q].written
               PROVE  publications'[q].phase = "confirmed" \/ cursor'.pending = q
    BY <1>6 DEF RecordedLandingsHeld, Confirmed
  <2>1. CASE q = p
    BY <1>2, <1>4, <1>5, <1>6, <2>1
  <2>2. CASE q # p
    BY <1>1, <1>2, <1>6, <2>2 DEF RecordedLandingsHeld, Confirmed
  <2> QED
    BY <2>1, <2>2
<1>16. PendingFactsStand'
  <2>1. CASE phase = "confirmed"
    <3>1. cursor'.pending = 0
      BY <1>4, <2>1
    <3> QED
      BY <3>1 DEF PendingFactsStand
  <2>2. CASE phase # "confirmed"
    <3>1. cursor' = cursor
      BY <1>4, <2>2
    <3>2. \A w : Facts(w)' = Facts(w)
      BY <1>3 DEF Facts
    <3> QED
      BY <1>1, <1>2, <1>3, <1>5, <1>6, <3>1, <3>2 DEF PendingFactsStand
  <2> QED
    BY <2>1, <2>2
<1>17. JobHolds' /\ EffectByHolder
  BY <1>1, <1>3 DEF JobHolds, EffectByHolder
<1>18. ConfirmIsCurrent
  BY <1>2, <1>5, <1>6 DEF ConfirmIsCurrent, Journaled
<1> QED
  BY <1>9, <1>11, <1>12, <1>13, <1>14, <1>15, <1>16, <1>17, <1>18 DEF DeliveryInv, Kept

LEMMA ConcludeStep ==
  ASSUME DeliveryInv, Conclude \/ ConcludeFailure
  PROVE  Kept
<1>1. /\ Observed \in {"pending", "source_written", "confirmed", "conflict", "failed"}
      /\ Observed = "confirmed" => file = Journaled.after
  BY DEF Observed, Unreplaced, Landed
<1>2. CASE Conclude
  BY <1>1, <1>2, CommittedStep DEF Conclude, NoFault
<1>3. CASE ConcludeFailure
  BY <1>3, CommittedStep DEF ConcludeFailure
<1> QED
  BY <1>2, <1>3

----------------------------------------------------------------------------
(* Theorems. *)

LEMMA DeliveryStep ==
  ASSUME DeliveryInv, Next
  PROVE  Kept
<1>1. CASE Observing
  BY <1>1, ConfigureStep, SelectStep, ReserveStep, IngestStep, EditStep DEF Observing
<1>2. ASSUME NEW k \in Workers, WorkerBegins(k)
      PROVE  Kept
  <2>1. /\ worker[k].step \in {"prepared", "written"} /\ Held(k).fence = worker[k].fence
        /\ Begin(Held(k).publication, k, worker[k].step = "written")
    BY <1>2 DEF WorkerBegins, Required
  <2>2. Held(k).publication # 0
    BY <2>1 DEF DeliveryInv, QueueBound, Idle
  <2>3. (worker[k].step = "written") \in BOOLEAN
    OBVIOUS
  <2> QED
    BY <2>1, <2>2, <2>3, BeginStep
<1>3. ASSUME NEW k \in Workers, Working(k)
      PROVE  Kept
  BY <1>2, <1>3, ClaimStep, SettleStep, PrepareStep, RenewStep, GiveUpStep DEF Working
<1>4. ASSUME NEW p \in DOMAIN publications, NEW b \in BOOLEAN, OperatorBegins(p, b)
      PROVE  Kept
  <2>1. p # 0
    BY DEF DeliveryInv, DeliveryTypeOK
  <2> QED
    BY <1>4, <2>1, BeginStep DEF OperatorBegins
<1>5. CASE Operating
  BY <1>4, <1>5, OperatorPreparesStep, OperatorStep, OperatorAbandonsStep DEF Operating
<1>6. CASE Publishing
  BY <1>6, ReplaceStep, ConcludeStep, RollBackStep DEF Publishing
<1>7. CASE Time
  BY <1>7, LeaseExpiresStep, OperatorStep DEF Time
<1>8. CASE Edit
  BY <1>8, EditStep
<1> QED
  BY <1>1, <1>3, <1>5, <1>6, <1>7, <1>8 DEF Next

LEMMA DeliveryInitInv ==
  ASSUME Init
  PROVE  DeliveryInv
<1>1. DeliveryTypeOK
  <2>1. NoIntent \in Intent /\ Activated \in Bytes /\ 0 \in 0..MaxFaults
    BY DeliveryAssumption DEF NoIntent, Intent, Activated, Bytes
  <2>2. publications = <<>> /\ publications \in Seq(Journal)
    BY DEF Init
  <2>3. intents \in [Events -> [Kinds -> Intent]]
    BY <2>1 DEF Init
  <2>4. cursor \in [revision : Nat, confirmed : Bytes, pending : Nat] /\ file \in Bytes
    BY <2>1 DEF Init
  <2> QED
    BY <2>1, <2>2, <2>3, <2>4 DEF Init, DeliveryTypeOK
<1>2. DOMAIN publications = {} /\ cursor.pending = 0 /\ cursor.revision = 0 /\ job = None
  BY DEF Init
<1>3. ObservationsDated /\ NotesDated /\ SlotNext /\ RecordedLandingsHeld /\ PendingFactsStand
        /\ JobHolds
  <2>1. ObservationsDated
    BY DEF Init, ObservationsDated
  <2> QED
    BY <1>2, <2>1 DEF NotesDated, SlotNext, RecordedLandingsHeld, PendingFactsStand, JobHolds
<1>4. QueueBound
  <2>1. \A k \in Workers : worker[k] = Idle
    BY DEF Init
  <2>2. \A e \in Events, kind \in Kinds : intents[e][kind].state = "none"
    BY DEF Init, NoIntent
  <2> QED
    BY <2>1, <2>2 DEF QueueBound
<1>5. RevisionsChain
  <2>1. Confirmed = {}
    BY <1>2 DEF Confirmed
  <2>2. {publications[p].revision : p \in Confirmed} = {} /\ 1..cursor.revision = {}
    BY <1>2, <2>1
  <2> QED
    BY <2>1, <2>2 DEF RevisionsChain
<1> QED
  BY <1>1, <1>3, <1>4, <1>5 DEF DeliveryInv

LEMMA DeliveryStutters ==
  ASSUME DeliveryInv, UNCHANGED vars
  PROVE  DeliveryInv'
<1>1. UNCHANGED <<selection, connector, inspections, inbox, head, notification, intents,
                  publications, cursor, file, worker, job, faults>>
  BY DEF vars, observed, published
<1>2. DeliveryTypeOK'
  BY <1>1 DEF DeliveryInv, DeliveryTypeOK
<1>3. QueueBound'
  BY <1>1 DEF DeliveryInv, QueueBound, Held
<1>4. JobHolds'
  BY <1>1, JobFrame DEF Held
<1> QED
  BY <1>1, <1>2, <1>3, <1>4, QueueFrame

\* DeliveryInv holds throughout every behaviour of the connectors, the queue, the
\* publisher and its operators, under every interleaving of their transactions.
THEOREM DeliveryInvariant == Spec => []DeliveryInv
<1>1. Init => DeliveryInv
  BY DeliveryInitInv
<1>2. DeliveryInv /\ [Next]_vars => DeliveryInv'
  BY DeliveryStep, DeliveryStutters DEF Kept
<1> QED
  BY <1>1, <1>2, PTL DEF Spec

\* Every row of the delivery tables, the ledger and the workers keeps its type.
THEOREM DeliveryTypeCorrect == Spec => []DeliveryTypeOK
<1>1. DeliveryInv => DeliveryTypeOK
  BY DEF DeliveryInv
<1> QED
  BY <1>1, DeliveryInvariant, PTL

\* The confirmed publications are one line of revisions that ends at the cursor,
\* each made on the bytes the one before confirmed (publisher.rs).
THEOREM ConfirmationsChain == Spec => []RevisionsChain
<1>1. DeliveryInv => RevisionsChain
  BY DEF DeliveryInv
<1> QED
  BY <1>1, DeliveryInvariant, PTL

\* A landing that was recorded keeps the slot until it is confirmed
\* (abandon_source_publication).
THEOREM LandingsHeld == Spec => []RecordedLandingsHeld
<1>1. DeliveryInv => RecordedLandingsHeld
  BY DEF DeliveryInv
<1> QED
  BY <1>1, DeliveryInvariant, PTL

\* The facts a pending publication names stay the heads of its work until somebody
\* selects or configures anew (require_source_publication_settled, ingest_facts).
THEOREM FactsOfPendingStand == Spec => []PendingFactsStand
<1>1. DeliveryInv => PendingFactsStand
  BY DEF DeliveryInv
<1> QED
  BY <1>1, DeliveryInvariant, PTL

\* A publication is confirmed only with a note the database still agrees with and
\* with its after image in the file (publisher.rs).
THEOREM ConfirmationsCurrent == Spec => ConfirmsAreCurrent
<1>1. DeliveryInv /\ [Next]_vars => [ConfirmIsCurrent]_vars
  BY DeliveryStep DEF Kept
<1> QED
  BY <1>1, DeliveryInvariant, PTL DEF Spec, ConfirmsAreCurrent

\* A worker whose lease was taken over changes neither the file nor the journal in
\* a publication step, not even from a transaction it had open (pump::require).
THEOREM HoldersOnly == Spec => EffectsByHolder
<1>1. DeliveryInv /\ [Next]_vars => [EffectByHolder]_vars
  BY DeliveryStep DEF Kept
<1> QED
  BY <1>1, DeliveryInvariant, PTL DEF Spec, EffectsByHolder

=============================================================================
