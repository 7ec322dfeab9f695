--------------------------- MODULE WorkspaceProofs ---------------------------
(* Proofs about the exchange of files, for any number of hosts, paths and   *)
(* contents, whatever the bounds, and whether or not the store compares and *)
(* swaps.                                                                   *)
EXTENDS Workspace, TLAPS

----------------------------------------------------------------------------
(* The inductive invariant. *)

\* A version that can be fetched, and one that this host has had.
Stored(p, v) == v = None \/ <<p, v>> \in contents
Seen(h, p, v) == v = None \/ <<h, p, v>> \in seen

Uploads == {"publish", "repair"}
Committing == {"upload", "commit", "put", "confirm", "reread"}

\* What the command of h knows and may still do, in record c.  Entries are in
\* the store once they were uploaded, and a path stays in left only while the
\* index, as last read, holds nothing there or what this host has had.  What a
\* pull saw at its last look is in the store, and what it will write there too.
CommandOK(h, c) ==
  /\ c.pc = "upload" => c.op \in Uploads /\ c.done = {}
  /\ c.pc = "fetch" <=> c.op = "pull"
  /\ c.pc \in {"put", "confirm"} => ~ supports_if_match
  /\ c.pc \in Committing => c.attempt <= MaxAttempts
  /\ c.index.etag # None => c.index.files = c.index.etag.files
  /\ \A p \in Paths :
       /\ Stored(p, c.index.files[p])
       /\ Stored(p, c.base[p]) /\ Seen(h, p, c.base[p])
       /\ p \in c.todo \cup c.left \cup c.done /\ (c.pc = "upload" => p \notin c.left) =>
            Stored(p, c.entries[p])
       /\ c.op \in Uploads \/ p \in c.done => Seen(h, p, c.entries[p])
       /\ c.op \in Uploads /\ p \in c.todo \cup c.left => c.entries[p] # None
       /\ c.op \in Uploads /\ c.pc \in Committing /\ p \in c.left => c.index.files[p] \in {None, c.base[p]}
       /\ c.op \in Uploads /\ c.pc = "upload" /\ p \in c.todo => c.index.files[p] \in {None, c.base[p]}
       /\ c.op = "drop" => c.entries[p] = None /\ (p \in c.left => p \notin track[h])
  /\ \A q \in c.looked :
       /\ c.pc = "fetch" /\ q[1] \in c.left
       /\ Stored(q[1], q[2]) /\ <<q[1], c.entries[q[1]]>> \in contents

HostOK(h) ==
  /\ \A p \in Paths :
       /\ Stored(p, base[h][p])
       /\ Seen(h, p, base[h][p]) /\ Seen(h, p, local[h][p])
  /\ proc[h] # Idle => CommandOK(h, proc[h])

StoreOK ==
  /\ manifest # None => \A p \in Paths : Stored(p, manifest.files[p])
  /\ \A p \in Paths : Stored(p, pointers[p])

WorkspaceInv ==
  /\ WorkspaceTypeOK
  /\ edits \in Nat
  /\ StoreOK
  /\ \A h \in Hosts : HostOK(h)

----------------------------------------------------------------------------
(* Operators. *)

LEMMA OverrideFacts ==
  ASSUME NEW f \in Files, NEW g \in Files, NEW P
  PROVE  /\ Override(f, g, P) \in Files
         /\ \A p \in Paths : Override(f, g, P)[p] = IF p \in P THEN g[p] ELSE f[p]
  BY DEF Override, Files

LEMMA NothingFacts == Nothing \in Files /\ \A p \in Paths : Nothing[p] = None
  BY DEF Nothing, Files, Version

\* The index as a command reads it: everything it names is in the store.
LEMMA IndexFacts ==
  ASSUME WorkspaceInv
  PROVE  /\ remote_index \in Index /\ remote_index.files \in Files
         /\ remote_index.etag = manifest
         /\ manifest # None => remote_index.files = manifest.files
         /\ \A p \in Paths : Stored(p, remote_index.files[p])
<1>1. manifest \in Manifest \cup {None} /\ pointers \in Files
  BY DEF WorkspaceInv, WorkspaceTypeOK
<1>2. CASE manifest # None
  <2>1. remote_index = [files |-> manifest.files, etag |-> manifest] /\ manifest \in Manifest
    BY <1>1, <1>2 DEF remote_index
  <2>2. manifest.files \in Files
    BY <2>1 DEF Manifest
  <2> QED
    BY <1>2, <2>1, <2>2 DEF Index, WorkspaceInv, StoreOK
<1>3. CASE manifest = None
  <2>1. remote_index = [files |-> pointers, etag |-> None]
    BY <1>3 DEF remote_index
  <2> QED
    BY <1>1, <1>3, <2>1 DEF Index, WorkspaceInv, StoreOK
<1> QED
  BY <1>2, <1>3

\* What a running command is.
LEMMA CommandFacts ==
  ASSUME WorkspaceInv, NEW h \in Hosts, proc[h] # Idle
  PROVE  /\ proc[h] \in Command /\ CommandOK(h, proc[h])
         /\ proc[h].index \in Index /\ proc[h].index.files \in Files
         /\ proc[h].entries \in Files /\ proc[h].base \in Files
         /\ proc[h].todo \subseteq Paths /\ proc[h].left \subseteq Paths
         /\ proc[h].done \subseteq Paths
  BY DEF WorkspaceInv, WorkspaceTypeOK, HostOK, Command, Index

----------------------------------------------------------------------------
(* Frames. *)

\* Nothing leaves the store or what was seen, and no path becomes tracked.
Grows ==
  /\ contents \subseteq contents' /\ seen \subseteq seen'
  /\ \A h \in Hosts : track'[h] \subseteq track[h]
  /\ UNCHANGED supports_if_match

LEMMA CommandGrows ==
  ASSUME Grows, NEW h \in Hosts, NEW c, CommandOK(h, c)
  PROVE  CommandOK(h, c)'
  BY DEF Grows, CommandOK, Stored, Seen

LEMMA StepOfHost ==
  ASSUME WorkspaceInv, NEW h \in Hosts, Grows, WorkspaceTypeOK', edits' \in Nat, StoreOK',
         \A g \in Hosts \ {h} :
           proc'[g] = proc[g] /\ base'[g] = base[g] /\ local'[g] = local[g],
         HostOK(h)'
  PROVE  WorkspaceInv'
<1>1. ASSUME NEW g \in Hosts \ {h} PROVE HostOK(g)'
  <2>1. HostOK(g) /\ proc'[g] = proc[g] /\ base'[g] = base[g] /\ local'[g] = local[g]
    BY DEF WorkspaceInv
  <2>2. ASSUME proc[g] # Idle PROVE CommandOK(g, proc[g])'
    <3>1. PICK c : c = proc[g]
      OBVIOUS
    <3>2. CommandOK(g, c)'
      BY <2>1, <2>2, <3>1, CommandGrows DEF HostOK
    <3>3. proc'[g] = c
      BY <2>1, <3>1
    <3> QED
      BY <3>2, <3>3 DEF CommandOK
  <2>3. \A p \in Paths : Stored(p, base[g][p])' /\ Seen(g, p, base[g][p])' /\ Seen(g, p, local[g][p])'
    BY <2>1 DEF HostOK, Stored, Seen, Grows
  <2> QED
    BY <2>1, <2>2, <2>3 DEF HostOK
<1> QED
  BY <1>1 DEF WorkspaceInv

\* A command goes on with record c.
LEMMA GoOn ==
  ASSUME WorkspaceInv, NEW h \in Hosts, NEW c \in Command, Go(h, c), CommandOK(h, c)',
         Grows, StoreOK', UNCHANGED <<local, base, track, edits>>,
         manifest' \in Manifest \cup {None}, pointers' \in Files,
         contents' \subseteq Paths \X Contents, seen' \subseteq Hosts \X Paths \X Contents,
         dropped' \subseteq Paths
  PROVE  WorkspaceInv'
<1>1. /\ proc' \in [Hosts -> Command \cup {Idle}] /\ proc'[h] = c
      /\ \A g \in Hosts \ {h} : proc'[g] = proc[g]
  BY DEF Go, WorkspaceInv, WorkspaceTypeOK
<1>2. WorkspaceTypeOK' /\ edits' \in Nat
  BY <1>1 DEF WorkspaceInv, WorkspaceTypeOK, Grows
<1>3. HostOK(h)'
  <2>1. \A p \in Paths : Stored(p, base[h][p])' /\ Seen(h, p, base[h][p])' /\ Seen(h, p, local[h][p])'
    BY DEF WorkspaceInv, HostOK, Stored, Seen, Grows
  <2>2. CommandOK(h, proc[h])'
    BY <1>1 DEF CommandOK
  <2> QED
    BY <2>1, <2>2 DEF HostOK
<1> QED
  BY <1>1, <1>2, <1>3, StepOfHost

\* ... and changes nothing else.
LEMMA QuietGo ==
  ASSUME WorkspaceInv, NEW h \in Hosts, NEW c \in Command, Go(h, c), CommandOK(h, c),
         UNCHANGED <<store, local, base, track, edits, history>>
  PROVE  WorkspaceInv'
<1>1. Grows /\ StoreOK'
  BY DEF Grows, store, history, WorkspaceInv, StoreOK, Stored
<1>2. CommandOK(h, c)'
  BY <1>1, CommandGrows
<1> QED
  BY <1>1, <1>2, GoOn DEF WorkspaceInv, WorkspaceTypeOK, store, history

\* The host becomes idle, its base being b.
LEMMA Ends ==
  ASSUME WorkspaceInv, NEW h \in Hosts, NEW b \in Files,
         \A p \in Paths : Stored(p, b[p]) /\ Seen(h, p, b[p]),
         base' = [base EXCEPT ![h] = b], proc' = [proc EXCEPT ![h] = Idle],
         UNCHANGED <<store, local, track, edits, history>>
  PROVE  WorkspaceInv'
<1>1. /\ proc' \in [Hosts -> Command \cup {Idle}] /\ proc'[h] = Idle
      /\ base' \in [Hosts -> Files] /\ base'[h] = b
      /\ \A g \in Hosts \ {h} : proc'[g] = proc[g] /\ base'[g] = base[g]
  BY DEF WorkspaceInv, WorkspaceTypeOK
<1>2. Grows /\ StoreOK' /\ WorkspaceTypeOK' /\ edits' \in Nat
  BY <1>1 DEF Grows, store, history, WorkspaceInv, StoreOK, Stored, WorkspaceTypeOK
<1>3. HostOK(h)'
  BY <1>1 DEF HostOK, WorkspaceInv, Stored, Seen, store, history
<1> QED
  BY <1>1, <1>2, <1>3, StepOfHost

LEMMA SaveInv ==
  ASSUME WorkspaceInv, NEW h \in Hosts, proc[h] # Idle, Save(h),
         UNCHANGED <<store, local, track, edits, history>>,
         proc[h].pc # "upload" \/ proc[h].left = {}
  PROVE  WorkspaceInv'
<1> DEFINE b == Override(proc[h].base, proc[h].entries, proc[h].done)
<1>1. b \in Files /\ \A p \in Paths : b[p] = IF p \in proc[h].done THEN proc[h].entries[p]
                                                                    ELSE proc[h].base[p]
  BY CommandFacts, OverrideFacts
<1>2. \A p \in Paths : Stored(p, b[p]) /\ Seen(h, p, b[p])
  BY <1>1, CommandFacts DEF CommandOK
<1> HIDE DEF b
<1>3. base' = [base EXCEPT ![h] = b] /\ proc' = [proc EXCEPT ![h] = Idle]
  BY DEF Save, b
<1> QED
  BY <1>1, <1>2, <1>3, Ends

----------------------------------------------------------------------------
(* The beginnings of commands. *)

LEMMA BeginInv ==
  ASSUME WorkspaceInv, NEW h \in Hosts, NEW op, NEW pc, NEW entries \in Files,
         NEW todo \in SUBSET Paths, NEW b \in Files, Begin(h, op, pc, entries, todo, b),
         \A p \in Paths : Stored(p, b[p]) /\ Seen(h, p, b[p]),
         \/ /\ op \in Uploads /\ pc = "upload"
            /\ \A p \in Paths : Seen(h, p, entries[p])
            /\ \A p \in todo : entries[p] # None /\ remote_index.files[p] \in {None, b[p]}
         \/ /\ op = "pull" /\ pc = "fetch"
            /\ \A p \in todo : Stored(p, entries[p])
         \/ /\ op = "drop" /\ pc \in {"commit", "mirror"}
            /\ entries = Nothing /\ todo \cap track[h] = {}
  PROVE  WorkspaceInv'
<1> DEFINE c == [op |-> op, pc |-> pc, index |-> remote_index, entries |-> entries, todo |-> todo,
                 left |-> todo, done |-> {}, base |-> b, attempt |-> 1, looked |-> {}]
<1>1. 1 \in 1 .. MaxAttempts + 1 /\ 1 <= MaxAttempts
  BY WorkspaceAssumption
<1>2. c \in Command
  BY <1>1, IndexFacts DEF Command, Uploads
<1>3. CommandOK(h, c)
  <2>1. CASE op \in Uploads
    BY <1>1, <2>1, IndexFacts DEF CommandOK, Uploads
  <2>2. CASE op = "pull"
    BY <1>1, <2>2, IndexFacts DEF CommandOK, Uploads, Committing
  <2>3. CASE op = "drop"
    BY <1>1, <2>3, IndexFacts, NothingFacts DEF CommandOK, Uploads, Stored
  <2> QED
    BY <2>1, <2>2, <2>3
<1>4. Go(h, c) /\ UNCHANGED <<store, local, base, track, edits, history>>
  BY DEF Begin, Go
<1> HIDE DEF c
<1> QED
  BY <1>2, <1>3, <1>4, QuietGo

\* A publish or a repair takes tracked files that differ from the index.
LEMMA UploadBegins ==
  ASSUME WorkspaceInv, NEW h \in Hosts, NEW op \in Uploads, NEW repair \in BOOLEAN,
         Begin(h, op, "upload", local[h], Pending(h, repair),
               Override(base[h], local[h], {p \in tracked(h) : remote_index.files[p] = local[h][p]}))
  PROVE  WorkspaceInv'
<1> DEFINE same == {p \in tracked(h) : remote_index.files[p] = local[h][p]}
           b == Override(base[h], local[h], same)
           todo == Pending(h, repair)
<1>1. local[h] \in Files /\ base[h] \in Files /\ todo \in SUBSET Paths
  BY DEF WorkspaceInv, WorkspaceTypeOK, Pending, tracked
<1>2. b \in Files /\ \A p \in Paths : b[p] = IF p \in same THEN local[h][p] ELSE base[h][p]
  BY <1>1, OverrideFacts
<1>3. \A p \in Paths : /\ Seen(h, p, local[h][p]) /\ Seen(h, p, base[h][p]) /\ Stored(p, base[h][p])
                       /\ Stored(p, remote_index.files[p])
  BY IndexFacts DEF WorkspaceInv, HostOK
<1>4. \A p \in Paths : Stored(p, b[p]) /\ Seen(h, p, b[p])
  BY <1>2, <1>3
<1>5. \A p \in todo : /\ p \in Paths /\ p \notin same /\ local[h][p] # None
                      /\ remote_index.files[p] \in {None, base[h][p]}
  BY <1>1 DEF Pending, Conflicting, tracked
<1>6. \A p \in todo : local[h][p] # None /\ remote_index.files[p] \in {None, b[p]}
  BY <1>2, <1>5
<1>7. Begin(h, op, "upload", local[h], todo, b)
  OBVIOUS
<1> HIDE DEF b, todo
<1> QED
  BY <1>1, <1>2, <1>3, <1>4, <1>6, <1>7, BeginInv

LEMMA PullInv ==
  ASSUME WorkspaceInv, NEW h \in Hosts, Pull(h)
  PROVE  WorkspaceInv'
<1> DEFINE files == remote_index.files
           listed == {p \in Paths : files[p] # None}
           same == {p \in listed : files[p] = local[h][p]}
           fetches == {p \in listed \ same : local[h][p] \in {None, base[h][p]}}
           b == Override(base[h], files, same)
<1>1. local[h] \in Files /\ base[h] \in Files /\ files \in Files /\ fetches \in SUBSET Paths
  BY IndexFacts DEF WorkspaceInv, WorkspaceTypeOK
<1>2. b \in Files /\ \A p \in Paths : b[p] = IF p \in same THEN files[p] ELSE base[h][p]
  BY <1>1, OverrideFacts
<1>3. \A p \in Paths : /\ Seen(h, p, local[h][p]) /\ Seen(h, p, base[h][p]) /\ Stored(p, base[h][p])
                       /\ Stored(p, files[p])
  BY IndexFacts DEF WorkspaceInv, HostOK
<1>4. \A p \in Paths : Stored(p, b[p]) /\ Seen(h, p, b[p])
  BY <1>2, <1>3
<1>5. Begin(h, "pull", "fetch", files, fetches, b)
  BY DEF Pull
<1>6. \A p \in fetches : Stored(p, files[p])
  BY <1>3
<1> HIDE DEF files, fetches, b
<1> QED
  BY <1>1, <1>2, <1>4, <1>5, <1>6, BeginInv

LEMMA DropInv ==
  ASSUME WorkspaceInv, NEW h \in Hosts, NEW P \in SUBSET Paths, Drop(h, P)
  PROVE  WorkspaceInv'
<1> DEFINE listed == {p \in P : remote_index.files[p] # None}
           b == Override(base[h], Nothing, P \ listed)
           pc == IF manifest # None /\ listed # {} THEN "commit" ELSE "mirror"
<1>1. base[h] \in Files /\ listed \in SUBSET Paths /\ listed \cap track[h] = {}
  BY DEF WorkspaceInv, WorkspaceTypeOK, Drop
<1>2. b \in Files /\ \A p \in Paths : b[p] = IF p \in P \ listed THEN None ELSE base[h][p]
  BY <1>1, OverrideFacts, NothingFacts
<1>3. \A p \in Paths : Stored(p, b[p]) /\ Seen(h, p, b[p])
  BY <1>2 DEF WorkspaceInv, HostOK, Stored, Seen
<1>4. Begin(h, "drop", pc, Nothing, listed, b) /\ pc \in {"commit", "mirror"}
  BY DEF Drop
<1> HIDE DEF b, listed, pc
<1> QED
  BY <1>1, <1>2, <1>3, <1>4, BeginInv, NothingFacts

----------------------------------------------------------------------------
(* Users. *)

LEMMA EditInv ==
  ASSUME WorkspaceInv, NEW h \in Hosts, NEW p \in Paths, NEW v \in Version, Edit(h, p, v)
  PROVE  WorkspaceInv'
<1>1. /\ local' = [local EXCEPT ![h][p] = v] /\ edits' = edits + 1
      /\ seen' = IF v = None THEN seen ELSE seen \cup {<<h, p, v>>}
      /\ UNCHANGED <<supports_if_match, manifest, pointers, contents, base, track, proc, dropped>>
  BY DEF Edit, store
<1>2. /\ local' \in [Hosts -> Files]
      /\ \A g \in Hosts \ {h} : local'[g] = local[g]
      /\ \A q \in Paths : local'[h][q] = IF q = p THEN v ELSE local[h][q]
  BY <1>1 DEF WorkspaceInv, WorkspaceTypeOK, Files
<1>3. seen' \subseteq Hosts \X Paths \X Contents
  <2>1. v # None => <<h, p, v>> \in Hosts \X Paths \X Contents
    BY DEF Version
  <2> QED
    BY <1>1, <2>1 DEF WorkspaceInv, WorkspaceTypeOK
<1>4. Grows /\ StoreOK' /\ WorkspaceTypeOK' /\ edits' \in Nat
  BY <1>1, <1>2, <1>3 DEF Grows, WorkspaceInv, StoreOK, Stored, WorkspaceTypeOK
<1>5. HostOK(h)'
  <2>1. HostOK(h)
    BY DEF WorkspaceInv
  <2>2. \A q \in Paths : Seen(h, q, local[h][q])'
    <3>1. \A q \in Paths : q # p => Seen(h, q, local[h][q])'
      BY <1>2, <1>4, <2>1 DEF HostOK, Seen, Grows
    <3>2. local'[h][p] = v /\ (v = None \/ <<h, p, v>> \in seen')
      BY <1>1, <1>2
    <3> QED
      BY <3>1, <3>2 DEF Seen
  <2>3. \A q \in Paths : Stored(q, base[h][q])' /\ Seen(h, q, base[h][q])'
    BY <1>1, <2>1 DEF HostOK, Seen, Stored
  <2>4. ASSUME proc[h] # Idle PROVE CommandOK(h, proc[h])'
    <3>1. PICK c : c = proc[h]
      OBVIOUS
    <3>2. CommandOK(h, c)'
      BY <1>4, <2>1, <2>4, <3>1, CommandGrows DEF HostOK
    <3> QED
      BY <1>1, <3>1, <3>2 DEF CommandOK
  <2> QED
    BY <1>1, <2>2, <2>3, <2>4 DEF HostOK
<1> QED
  BY <1>1, <1>2, <1>4, <1>5, StepOfHost

LEMMA UntrackInv ==
  ASSUME WorkspaceInv, NEW h \in Hosts, NEW p \in Paths, Untrack(h, p)
  PROVE  WorkspaceInv'
<1>1. /\ proc[h] = Idle /\ track' = [track EXCEPT ![h] = @ \ {p}]
      /\ UNCHANGED <<supports_if_match, manifest, pointers, contents, local, base, proc, edits,
                     seen, dropped>>
  BY DEF Untrack, store, history
<1>2. track' \in [Hosts -> SUBSET Paths] /\ \A g \in Hosts : track'[g] \subseteq track[g]
  BY <1>1 DEF WorkspaceInv, WorkspaceTypeOK
<1>3. Grows /\ StoreOK' /\ WorkspaceTypeOK' /\ edits' \in Nat
  BY <1>1, <1>2 DEF Grows, WorkspaceInv, StoreOK, Stored, WorkspaceTypeOK
<1>4. HostOK(h)'
  BY <1>1 DEF WorkspaceInv, HostOK, Stored, Seen
<1> QED
  BY <1>1, <1>3, <1>4, StepOfHost

----------------------------------------------------------------------------
(* Uploads and commits. *)

\* The running command as a value.
LEMMA RunningFacts ==
  ASSUME WorkspaceInv, NEW h \in Hosts, NEW pc, Running(h, pc)
  PROVE  \E c \in Command :
           /\ c = proc[h] /\ proc[h] # Idle /\ c.pc = pc /\ CommandOK(h, c)
           /\ c.index \in Index /\ c.index.files \in Files /\ c.entries \in Files /\ c.base \in Files
           /\ c.todo \subseteq Paths /\ c.left \subseteq Paths /\ c.done \subseteq Paths
  BY CommandFacts DEF Running

LEMMA UploadInv ==
  ASSUME WorkspaceInv, NEW h \in Hosts, NEW p \in Paths, Upload(h, p)
  PROVE  WorkspaceInv'
<1>1. PICK c \in Command :
        /\ c = proc[h] /\ proc[h] # Idle /\ c.pc = "upload" /\ CommandOK(h, c) /\ c.entries \in Files
  BY RunningFacts DEF Upload
<1> DEFINE d == AfterUpload(c, p)
<1>2. /\ p \in c.left /\ contents' = contents \cup {<<p, c.entries[p]>>} /\ Go(h, d)
      /\ UNCHANGED <<supports_if_match, manifest, pointers, local, base, track, edits, seen, dropped>>
  BY <1>1 DEF Upload, bounds, history
<1>3. c.op \in Uploads /\ c.done = {} /\ c.entries[p] # None
  BY <1>1, <1>2 DEF CommandOK
<1>4. contents' \subseteq Paths \X Contents
  <2>1. c.entries[p] \in Contents
    BY <1>1, <1>3 DEF Files, Version
  <2> QED
    BY <1>2, <2>1 DEF WorkspaceInv, WorkspaceTypeOK
<1>5. Grows /\ StoreOK'
  BY <1>2 DEF Grows, WorkspaceInv, WorkspaceTypeOK, StoreOK, Stored
<1>6. CommandOK(h, c)' /\ Stored(p, c.entries[p])'
  <2>1. CommandOK(h, c)'
    BY <1>1, <1>5, CommandGrows
  <2>2. <<p, c.entries[p]>> \in contents'
    BY <1>2
  <2> QED
    BY <2>1, <2>2 DEF Stored
<1>7. d \in Command /\ CommandOK(h, d)'
  <2>1. CASE c.left = {p}
    <3>1. d = [c EXCEPT !.pc = "commit", !.left = c.todo]
      BY <2>1 DEF AfterUpload
    <3>2. d \in Command /\ d.op = c.op /\ d.pc = "commit" /\ d.index = c.index
          /\ d.entries = c.entries /\ d.todo = c.todo /\ d.left = c.todo /\ d.done = c.done
          /\ d.base = c.base /\ d.attempt = c.attempt /\ d.looked = c.looked
      BY <3>1 DEF Command
    <3> HIDE DEF d
    <3>3. CommandOK(h, d)'
      BY <1>1, <1>3, <1>6, <2>1, <3>2 DEF CommandOK, Committing, Uploads
    <3> QED
      BY <3>2, <3>3
  <2>2. CASE c.left # {p}
    <3>1. d = [c EXCEPT !.left = @ \ {p}]
      BY <2>2 DEF AfterUpload
    <3>2. d \in Command /\ d.op = c.op /\ d.pc = "upload" /\ d.index = c.index
          /\ d.entries = c.entries /\ d.todo = c.todo /\ d.left = c.left \ {p} /\ d.done = c.done
          /\ d.base = c.base /\ d.attempt = c.attempt /\ d.looked = c.looked
      BY <1>1, <3>1 DEF Command
    <3> HIDE DEF d
    <3>3. CommandOK(h, d)'
      BY <1>1, <1>3, <1>6, <3>2 DEF CommandOK
    <3> QED
      BY <3>2, <3>3
  <2> QED
    BY <2>1, <2>2
<1> HIDE DEF d
<1> QED
  BY <1>2, <1>4, <1>5, <1>7, GoOn DEF WorkspaceInv, WorkspaceTypeOK

LEMMA UploadedInv ==
  ASSUME WorkspaceInv, NEW h \in Hosts, Uploaded(h)
  PROVE  WorkspaceInv'
<1>1. PICK c \in Command :
        /\ c = proc[h] /\ proc[h] # Idle /\ c.pc = "upload" /\ CommandOK(h, c)
  BY RunningFacts DEF Uploaded
<1>2. c.left = {} /\ UNCHANGED <<store, local, track, edits, history>>
  BY <1>1 DEF Uploaded, bounds
<1>3. CASE Save(h)
  BY <1>1, <1>2, <1>3, SaveInv
<1>4. CASE Go(h, [c EXCEPT !.pc = "commit"]) /\ UNCHANGED base
  <2> DEFINE d == [c EXCEPT !.pc = "commit"]
  <2>1. d \in Command /\ d.op = c.op /\ d.pc = "commit" /\ d.index = c.index
        /\ d.entries = c.entries /\ d.todo = c.todo /\ d.left = c.left /\ d.done = c.done
        /\ d.base = c.base /\ d.attempt = c.attempt /\ d.looked = c.looked
    BY DEF Command
  <2> HIDE DEF d
  <2>2. CommandOK(h, d)
    BY <1>1, <1>2, <2>1 DEF CommandOK, Committing, Uploads
  <2>3. Go(h, d)
    BY <1>4 DEF d
  <2> QED
    BY <1>2, <1>4, <2>1, <2>2, <2>3, QuietGo
<1> QED
  BY <1>1, <1>3, <1>4 DEF Uploaded

\* A manifest is the index as read, with stored entries over it.
LEMMA NewManifestFacts ==
  ASSUME WorkspaceInv, NEW h \in Hosts, NEW c \in Command, c = proc[h], proc[h] # Idle,
         c.pc \in {"commit", "put"}
  PROVE  /\ NewManifest(h) \in Manifest /\ NewManifest(h).updated_by = h
         /\ \A p \in Paths :
              /\ NewManifest(h).files[p] = IF p \in c.left THEN c.entries[p] ELSE c.index.files[p]
              /\ Stored(p, NewManifest(h).files[p])
<1> DEFINE r == (IF c.index.etag = None THEN 0 ELSE c.index.etag.revision) + 1
           f == Override(c.index.files, c.entries, c.left)
<1>1. /\ CommandOK(h, c) /\ c.index \in Index /\ c.index.files \in Files /\ c.entries \in Files
  BY CommandFacts
<1>2. r \in Nat
  BY <1>1 DEF Index, Manifest
<1>3. f \in Files /\ \A p \in Paths : f[p] = IF p \in c.left THEN c.entries[p] ELSE c.index.files[p]
  BY <1>1, OverrideFacts
<1>4. NewManifest(h) = [revision |-> r, updated_by |-> h, files |-> f]
  BY DEF NewManifest
<1>5. \A p \in Paths : Stored(p, f[p])
  BY <1>1, <1>3 DEF CommandOK
<1> HIDE DEF r, f
<1> QED
  BY <1>2, <1>3, <1>4, <1>5 DEF Manifest

\* A write of the index.
LEMMA CommitInv ==
  ASSUME WorkspaceInv, NEW h \in Hosts, proc[h] # Idle, proc[h].pc \in {"commit", "put"},
         manifest' = NewManifest(h), NEW d \in Command, Go(h, d), CommandOK(h, d),
         dropped' = IF proc[h].op = "drop" THEN dropped \cup proc[h].left ELSE dropped,
         UNCHANGED <<supports_if_match, pointers, contents, local, base, track, edits, seen>>
  PROVE  WorkspaceInv'
<1>1. manifest' \in Manifest /\ \A p \in Paths : Stored(p, manifest'.files[p])
  BY CommandFacts, NewManifestFacts
<1>2. StoreOK' /\ Grows
  BY <1>1 DEF StoreOK, Stored, WorkspaceInv, Grows
<1>3. CommandOK(h, d)'
  BY <1>2, CommandGrows
<1>4. dropped' \subseteq Paths
  BY CommandFacts DEF WorkspaceInv, WorkspaceTypeOK
<1> QED
  BY <1>1, <1>2, <1>3, <1>4, GoOn DEF WorkspaceInv, WorkspaceTypeOK

\* What is written stays the command's until the mirror, or is tried again.
LEMMA CommandTurns ==
  ASSUME NEW h \in Hosts, NEW c \in Command, CommandOK(h, c), c.pc \in {"commit", "put", "confirm"}
  PROVE  /\ c.op # "pull"
         /\ LET d == [c EXCEPT !.pc = "mirror", !.done = @ \cup c.left]
            IN  d \in Command /\ CommandOK(h, d)
         /\ LET d == [c EXCEPT !.pc = "reread"] IN d \in Command /\ CommandOK(h, d)
         /\ ~ supports_if_match =>
              \A step \in {"put", "confirm"} :
                LET d == [c EXCEPT !.pc = step] IN d \in Command /\ CommandOK(h, d)
<1>1. c.op # "pull" /\ c.op \in Uploads \cup {"drop"}
  BY DEF CommandOK, Command, Uploads
<1>2. ASSUME NEW d, d = [c EXCEPT !.pc = "mirror", !.done = @ \cup c.left]
      PROVE  d \in Command /\ CommandOK(h, d)
  <2>1. d \in Command /\ d.op = c.op /\ d.pc = "mirror" /\ d.index = c.index
        /\ d.entries = c.entries /\ d.todo = c.todo /\ d.left = c.left /\ d.done = c.done \cup c.left
        /\ d.base = c.base /\ d.attempt = c.attempt /\ d.looked = c.looked
    BY <1>2 DEF Command
  <2>2. \A p \in Paths : p \in c.left => Seen(h, p, c.entries[p])
    BY <1>1 DEF CommandOK, Seen
  <2> QED
    BY <1>1, <2>1, <2>2 DEF CommandOK, Committing
<1>3. ASSUME NEW step \in {"reread", "put", "confirm"}, step = "reread" \/ ~ supports_if_match,
             NEW d, d = [c EXCEPT !.pc = step]
      PROVE  d \in Command /\ CommandOK(h, d)
  <2>1. d \in Command /\ d.op = c.op /\ d.pc = step /\ d.index = c.index
        /\ d.entries = c.entries /\ d.todo = c.todo /\ d.left = c.left /\ d.done = c.done
        /\ d.base = c.base /\ d.attempt = c.attempt /\ d.looked = c.looked
    BY <1>3 DEF Command
  <2> QED
    BY <1>1, <1>3, <2>1 DEF CommandOK, Committing
<1> QED
  BY <1>1, <1>2, <1>3

LEMMA SwapInv ==
  ASSUME WorkspaceInv, NEW h \in Hosts, Swap(h)
  PROVE  WorkspaceInv' /\ InformedCommit
<1>1. PICK c \in Command :
        /\ c = proc[h] /\ proc[h] # Idle /\ c.pc = "commit" /\ CommandOK(h, c)
        /\ c.index.files \in Files
  BY RunningFacts DEF Swap
<1>2. UNCHANGED <<supports_if_match, pointers, contents, local, base, track, edits, seen>>
  BY DEF Swap, bounds
<1>3. CASE /\ Matches(h) /\ manifest' = NewManifest(h) /\ Committed(h)
           /\ dropped' = IF proc[h].op = "drop" THEN dropped \cup proc[h].left ELSE dropped
  <2>1. WorkspaceInv'
    BY <1>1, <1>2, <1>3, CommandTurns, CommitInv DEF Committed
  <2>2. InformedCommit
    <3> SUFFICES ASSUME manifest # None,
                        NEW p \in Paths, manifest'.files[p] # manifest.files[p]
                 PROVE  IF manifest'.files[p] = None
                          THEN p \notin track[h] /\ proc[h].op = "drop"
                          ELSE manifest.files[p] = None \/ <<h, p, manifest.files[p]>> \in seen
      BY <1>1, <1>3, NewManifestFacts DEF InformedCommit
    <3>1. c.index.files = manifest.files
      BY <1>1, <1>3 DEF Matches, CommandOK
    <3>2. p \in c.left /\ manifest'.files[p] = c.entries[p]
      BY <1>1, <1>3, <3>1, NewManifestFacts
    <3>3. CASE c.op \in Uploads
      BY <1>1, <3>1, <3>2, <3>3 DEF CommandOK, Committing, Seen
    <3>4. CASE c.op = "drop"
      BY <1>1, <3>2, <3>4 DEF CommandOK
    <3>5. c.op \in Uploads \cup {"drop"}
      BY <1>1 DEF CommandOK, Command, Uploads
    <3> QED
      BY <3>3, <3>4, <3>5
  <2> QED
    BY <2>1, <2>2
<1>4. CASE Lost(h) /\ UNCHANGED <<manifest, dropped>>
  BY <1>1, <1>2, <1>4, CommandTurns, QuietGo DEF Lost, InformedCommit, store, history
<1> QED
  BY <1>3, <1>4 DEF Swap

LEMMA GuardInv ==
  ASSUME WorkspaceInv, NEW h \in Hosts, GuardHead(h) \/ GuardPut(h) \/ GuardConfirm(h)
  PROVE  WorkspaceInv' /\ InformedCommit
<1>1. CASE GuardHead(h)
  <2>1. PICK c \in Command : c = proc[h] /\ proc[h] # Idle /\ c.pc = "commit" /\ CommandOK(h, c)
    BY <1>1, RunningFacts DEF GuardHead
  <2>2. ~ supports_if_match /\ UNCHANGED <<store, local, base, track, edits, history>>
    BY <1>1 DEF GuardHead, bounds
  <2>3. Go(h, [c EXCEPT !.pc = "put"]) \/ Go(h, [c EXCEPT !.pc = "reread"])
    BY <1>1, <2>1 DEF GuardHead, Lost
  <2> QED
    BY <2>1, <2>2, <2>3, CommandTurns, QuietGo DEF InformedCommit, store
<1>2. CASE GuardPut(h)
  <2>1. PICK c \in Command : c = proc[h] /\ proc[h] # Idle /\ c.pc = "put" /\ CommandOK(h, c)
    BY <1>2, RunningFacts DEF GuardPut
  <2>2. ~ supports_if_match
    BY <2>1 DEF CommandOK
  <2>3. Go(h, [c EXCEPT !.pc = "confirm"])
    BY <1>2, <2>1 DEF GuardPut
  <2> QED
    BY <1>2, <2>1, <2>2, <2>3, CommandTurns, CommitInv DEF InformedCommit, GuardPut, bounds
<1>3. CASE GuardConfirm(h)
  <2>1. PICK c \in Command : c = proc[h] /\ proc[h] # Idle /\ c.pc = "confirm" /\ CommandOK(h, c)
    BY <1>3, RunningFacts DEF GuardConfirm
  <2>2. UNCHANGED <<store, local, base, track, edits, history>>
    BY <1>3 DEF GuardConfirm, bounds
  <2>3. Go(h, [c EXCEPT !.pc = "mirror", !.done = @ \cup c.left]) \/ Go(h, [c EXCEPT !.pc = "reread"])
    BY <1>3, <2>1 DEF GuardConfirm, Lost, Committed
  <2> QED
    BY <2>1, <2>2, <2>3, CommandTurns, QuietGo DEF InformedCommit, store
<1> QED
  BY <1>1, <1>2, <1>3

\* The survivors of a lost race are paths where the new index holds nothing,
\* or what this host has had.
LEMMA RereadInv ==
  ASSUME WorkspaceInv, NEW h \in Hosts, Reread(h)
  PROVE  WorkspaceInv'
<1>1. PICK c \in Command :
        /\ c = proc[h] /\ proc[h] # Idle /\ c.pc = "reread" /\ CommandOK(h, c)
        /\ c.index \in Index /\ c.index.files \in Files /\ c.entries \in Files /\ c.base \in Files
        /\ c.todo \subseteq Paths /\ c.left \subseteq Paths /\ c.done \subseteq Paths
  BY RunningFacts DEF Reread
<1> DEFINE left == {p \in c.left : Survives(h, p, remote_index.files[p])}
           absent == IF c.op = "drop" THEN c.left \ left ELSE {}
           step == IF Again(c, left) THEN "commit" ELSE "mirror"
           b == Override(c.base, Nothing, absent)
           d == [c EXCEPT !.pc = step, !.index = remote_index, !.left = left, !.attempt = @ + 1,
                          !.base = b]
<1>2. Go(h, d) /\ UNCHANGED <<store, local, base, track, edits, history>>
  BY <1>1 DEF Reread, bounds
<1>3. b \in Files /\ \A p \in Paths : b[p] = IF p \in absent THEN None ELSE c.base[p]
  BY <1>1, OverrideFacts, NothingFacts
<1>4. c.op \in Uploads => absent = {}
  BY DEF Uploads
<1>5. \A p \in left : p \in c.left /\ (c.op \in Uploads => remote_index.files[p] \in {None, c.base[p]})
  BY <1>1 DEF Survives, Uploads
<1>6. /\ c.attempt \in Nat /\ c.attempt <= MaxAttempts /\ c.attempt + 1 \in 1 .. MaxAttempts + 1
      /\ step = "commit" => c.attempt + 1 <= MaxAttempts
  BY <1>1, WorkspaceAssumption DEF CommandOK, Committing, Command, Again
<1>7. left \subseteq Paths /\ step \in {"commit", "mirror"} /\ c.op \in Uploads \cup {"drop"}
  BY <1>1 DEF CommandOK, Command, Uploads
<1> HIDE DEF left, absent, b, step
<1>8. d \in Command /\ d.op = c.op /\ d.pc = step /\ d.index = remote_index
      /\ d.entries = c.entries /\ d.todo = c.todo /\ d.left = left /\ d.done = c.done
      /\ d.base = b /\ d.attempt = c.attempt + 1 /\ d.looked = c.looked
  BY <1>3, <1>6, <1>7, IndexFacts DEF Command
<1> HIDE DEF d
<1>9. CommandOK(h, d)
  <2>1. \A p \in Paths : Stored(p, b[p]) /\ Seen(h, p, b[p])
    BY <1>1, <1>3 DEF CommandOK, Stored, Seen
  <2>2. c.op \in Uploads => \A p \in Paths : p \in left => remote_index.files[p] \in {None, b[p]}
    BY <1>3, <1>4, <1>5
  <2>3. \A p \in Paths : Stored(p, remote_index.files[p])
    BY IndexFacts
  <2>4. remote_index.etag # None => remote_index.files = remote_index.etag.files
    BY IndexFacts
  <2>5. step # "upload" /\ step # "fetch" /\ step \notin {"put", "confirm"} /\ c.op # "pull"
    BY <1>7 DEF Uploads
  <2> QED
    BY <1>1, <1>5, <1>6, <1>7, <1>8, <2>1, <2>2, <2>3, <2>4, <2>5 DEF CommandOK, Committing
<1> QED
  BY <1>2, <1>8, <1>9, QuietGo

----------------------------------------------------------------------------
(* After the commit, and pulls. *)

LEMMA MirrorInv ==
  ASSUME WorkspaceInv, NEW h \in Hosts, NEW p \in Paths, NEW ok \in BOOLEAN, Mirror(h, p, ok)
  PROVE  WorkspaceInv'
<1>1. PICK c \in Command :
        /\ c = proc[h] /\ proc[h] # Idle /\ c.pc = "mirror" /\ CommandOK(h, c)
        /\ c.entries \in Files
        /\ c.todo \subseteq Paths /\ c.left \subseteq Paths /\ c.done \subseteq Paths
  BY RunningFacts DEF Mirror
<1> DEFINE unlisted == c.op = "drop" /\ c.index.etag = None
           d == IF unlisted THEN [c EXCEPT !.done = @ \cup {p}] ELSE [c EXCEPT !.todo = @ \ {p}]
<1>2. /\ p \in c.todo /\ Go(h, d)
      /\ pointers' = IF ok THEN [pointers EXCEPT ![p] = c.entries[p]] ELSE pointers
      /\ dropped' = IF unlisted THEN dropped \cup {p} ELSE dropped
      /\ UNCHANGED <<supports_if_match, manifest, contents, local, base, track, edits, seen>>
  BY <1>1 DEF Mirror, Unmirrored, bounds
<1>3. Stored(p, c.entries[p]) /\ c.entries[p] \in Version
  BY <1>1, <1>2 DEF CommandOK, Files
<1>4. pointers' \in Files /\ \A q \in Paths : Stored(q, pointers'[q])
  BY <1>2, <1>3 DEF WorkspaceInv, WorkspaceTypeOK, StoreOK, Files
<1>5. Grows /\ StoreOK' /\ dropped' \subseteq Paths
  BY <1>2, <1>4 DEF Grows, StoreOK, Stored, WorkspaceInv, WorkspaceTypeOK
<1>6. d \in Command /\ CommandOK(h, d)
  <2>1. CASE unlisted
    <3>1. d = [c EXCEPT !.done = @ \cup {p}]
      BY <2>1
    <3>2. d \in Command /\ d.op = c.op /\ d.pc = "mirror" /\ d.index = c.index
          /\ d.entries = c.entries /\ d.todo = c.todo /\ d.left = c.left /\ d.done = c.done \cup {p}
          /\ d.base = c.base /\ d.attempt = c.attempt /\ d.looked = c.looked
      BY <1>1, <3>1 DEF Command
    <3> HIDE DEF d
    <3>3. Seen(h, p, c.entries[p])
      BY <1>1, <2>1 DEF CommandOK, Seen
    <3> QED
      BY <1>1, <1>2, <3>2, <3>3 DEF CommandOK, Committing
  <2>2. CASE ~ unlisted
    <3>1. d = [c EXCEPT !.todo = @ \ {p}]
      BY <2>2
    <3>2. d \in Command /\ d.op = c.op /\ d.pc = "mirror" /\ d.index = c.index
          /\ d.entries = c.entries /\ d.todo = c.todo \ {p} /\ d.left = c.left /\ d.done = c.done
          /\ d.base = c.base /\ d.attempt = c.attempt /\ d.looked = c.looked
      BY <1>1, <3>1 DEF Command
    <3> HIDE DEF d
    <3> QED
      BY <1>1, <1>2, <3>2 DEF CommandOK, Committing
  <2> QED
    BY <2>1, <2>2
<1> HIDE DEF d
<1>7. CommandOK(h, d)'
  BY <1>5, <1>6, CommandGrows
<1> QED
  BY <1>2, <1>4, <1>5, <1>6, <1>7, GoOn DEF WorkspaceInv, WorkspaceTypeOK

\* A last look passes over what was edited, and keeps in mind what it saw:
\* nothing, or the base, which is in the store.
LEMMA RecheckInv ==
  ASSUME WorkspaceInv, NEW h \in Hosts, NEW p \in Paths, Recheck(h, p)
  PROVE  WorkspaceInv'
<1>1. PICK c \in Command :
        /\ c = proc[h] /\ proc[h] # Idle /\ c.pc = "fetch" /\ CommandOK(h, c)
        /\ c.left \subseteq Paths
  BY RunningFacts DEF Recheck
<1>2. /\ c.looked = {} /\ p \in c.left /\ <<p, c.entries[p]>> \in contents
      /\ UNCHANGED <<store, local, base, track, edits, history>>
  BY <1>1 DEF Recheck, bounds
<1>3. CASE Untouched(h, p) /\ Go(h, [c EXCEPT !.looked = {<<p, local[h][p]>>}])
  <2> DEFINE d == [c EXCEPT !.looked = {<<p, local[h][p]>>}]
  <2>1. <<p, local[h][p]>> \in Paths \X Version
    BY DEF WorkspaceInv, WorkspaceTypeOK, Files
  <2>2. d \in Command /\ d.op = c.op /\ d.pc = "fetch" /\ d.index = c.index
        /\ d.entries = c.entries /\ d.todo = c.todo /\ d.left = c.left /\ d.done = c.done
        /\ d.base = c.base /\ d.attempt = c.attempt /\ d.looked = {<<p, local[h][p]>>}
    BY <1>1, <2>1 DEF Command
  <2>3. Go(h, d)
    BY <1>3
  <2> HIDE DEF d
  <2>4. Stored(p, local[h][p])
    BY <1>1, <1>3 DEF Untouched, CommandOK, Stored
  <2>5. \A q \in d.looked : /\ d.pc = "fetch" /\ q[1] \in d.left
                           /\ Stored(q[1], q[2]) /\ <<q[1], d.entries[q[1]]>> \in contents
    BY <1>2, <2>2, <2>4
  <2>6. CommandOK(h, d)
    BY <1>1, <2>2, <2>5 DEF CommandOK, Committing
  <2> QED
    BY <1>2, <2>2, <2>3, <2>6, QuietGo
<1>4. CASE Go(h, [c EXCEPT !.left = @ \ {p}])
  <2> DEFINE d == [c EXCEPT !.left = @ \ {p}]
  <2>1. d \in Command /\ d.op = c.op /\ d.pc = "fetch" /\ d.index = c.index
        /\ d.entries = c.entries /\ d.todo = c.todo /\ d.left = c.left \ {p} /\ d.done = c.done
        /\ d.base = c.base /\ d.attempt = c.attempt /\ d.looked = {}
    BY <1>1, <1>2 DEF Command
  <2>2. Go(h, d)
    BY <1>4
  <2> HIDE DEF d
  <2>3. CommandOK(h, d)
    BY <1>1, <2>1 DEF CommandOK, Committing
  <2> QED
    BY <1>2, <2>1, <2>2, <2>3, QuietGo
<1> QED
  BY <1>1, <1>3, <1>4 DEF Recheck

\* What a write finds is what was seen, which is in the store, or an edit made
\* since.
LEMMA WriteLocalInv ==
  ASSUME WorkspaceInv, NEW h \in Hosts, NEW p \in Paths, WriteLocal(h, p)
  PROVE  WorkspaceInv' /\ EditsKept
<1>1. PICK c \in Command :
        /\ c = proc[h] /\ proc[h] # Idle /\ c.pc = "fetch" /\ CommandOK(h, c)
        /\ c.entries \in Files /\ c.base \in Files
        /\ c.todo \subseteq Paths /\ c.left \subseteq Paths /\ c.done \subseteq Paths
  BY RunningFacts DEF WriteLocal
<1>2. PICK v \in Version : c.looked = {<<p, v>>}
  BY <1>1 DEF WriteLocal
<1>3. /\ p \in c.left /\ <<p, c.entries[p]>> \in contents /\ Stored(p, v)
      /\ local' = [local EXCEPT ![h][p] = c.entries[p]]
      /\ seen' = seen \cup {<<h, p, c.entries[p]>>}
      /\ Go(h, [c EXCEPT !.left = @ \ {p}, !.done = @ \cup {p}, !.looked = {},
                         !.base[p] = c.entries[p]])
      /\ UNCHANGED <<supports_if_match, manifest, pointers, contents, base, track, edits, dropped>>
  <2>1. <<p, v>> \in c.looked
    BY <1>2
  <2>2. p \in c.left /\ <<p, c.entries[p]>> \in contents /\ Stored(p, v)
    BY <1>1, <2>1 DEF CommandOK
  <2> QED
    BY <1>1, <2>2 DEF WriteLocal, store, bounds
<1> DEFINE b == [c.base EXCEPT ![p] = c.entries[p]]
           d == [c EXCEPT !.left = @ \ {p}, !.done = @ \cup {p}, !.looked = {},
                          !.base[p] = c.entries[p]]
<1>4. c.entries[p] \in Contents /\ c.entries[p] \in Version
  <2>1. contents \subseteq Paths \X Contents
    BY DEF WorkspaceInv, WorkspaceTypeOK
  <2> QED
    BY <1>3, <2>1 DEF Version
<1>5. b \in Files /\ \A q \in Paths : b[q] = IF q = p THEN c.entries[p] ELSE c.base[q]
  BY <1>1, <1>4 DEF Files
<1>6. d \in Command /\ d.op = c.op /\ d.pc = "fetch" /\ d.index = c.index
      /\ d.entries = c.entries /\ d.todo = c.todo /\ d.left = c.left \ {p}
      /\ d.done = c.done \cup {p} /\ d.base = b /\ d.attempt = c.attempt /\ d.looked = {}
  BY <1>1, <1>5 DEF Command
<1>7. Go(h, d)
  BY <1>3
<1> HIDE DEF b, d
<1>8. /\ proc' \in [Hosts -> Command \cup {Idle}] /\ proc'[h] = d
      /\ \A g \in Hosts \ {h} : proc'[g] = proc[g]
  BY <1>6, <1>7 DEF Go, WorkspaceInv, WorkspaceTypeOK
<1>9. /\ local' \in [Hosts -> Files]
      /\ \A g \in Hosts \ {h} : local'[g] = local[g]
      /\ \A q \in Paths : local'[h][q] = IF q = p THEN c.entries[p] ELSE local[h][q]
  BY <1>3, <1>4 DEF WorkspaceInv, WorkspaceTypeOK, Files
<1>10. seen' \subseteq Hosts \X Paths \X Contents
  BY <1>3, <1>4 DEF WorkspaceInv, WorkspaceTypeOK
<1>11. Grows /\ StoreOK' /\ WorkspaceTypeOK' /\ edits' \in Nat
  BY <1>3, <1>8, <1>9, <1>10 DEF Grows, WorkspaceInv, StoreOK, Stored, WorkspaceTypeOK
<1>12. CommandOK(h, c)' /\ <<h, p, c.entries[p]>> \in seen' /\ <<p, c.entries[p]>> \in contents'
  BY <1>1, <1>3, <1>11, CommandGrows
<1>13. CommandOK(h, d)'
  <2>1. \A q \in Paths : Stored(q, b[q])' /\ Seen(h, q, b[q])'
    BY <1>5, <1>12 DEF CommandOK, Stored, Seen, b
  <2>2. Seen(h, p, c.entries[p])'
    BY <1>12 DEF Seen
  <2>3. c.op = "pull"
    BY <1>1 DEF CommandOK
  <2> QED
    BY <1>1, <1>3, <1>6, <1>12, <2>1, <2>2, <2>3 DEF CommandOK, Committing, Uploads, Stored, Seen
<1>14. HostOK(h)'
  <2>1. HostOK(h)
    BY DEF WorkspaceInv
  <2>2. \A q \in Paths : Stored(q, base[h][q])' /\ Seen(h, q, base[h][q])'
    BY <1>3, <1>11, <2>1 DEF HostOK, Stored, Seen, Grows
  <2>3. \A q \in Paths : q # p => Seen(h, q, local[h][q])'
    BY <1>9, <1>11, <2>1 DEF HostOK, Seen, Grows
  <2>4. Seen(h, p, local[h][p])'
    BY <1>9, <1>12 DEF Seen
  <2>5. CommandOK(h, proc[h])'
    BY <1>8, <1>13 DEF CommandOK
  <2> QED
    BY <2>2, <2>3, <2>4, <2>5 DEF HostOK
<1>15. WorkspaceInv'
  BY <1>3, <1>8, <1>9, <1>11, <1>14, StepOfHost
<1>16. EditsKept
  <2> SUFFICES ASSUME NEW g \in Hosts, NEW q \in Paths, local'[g][q] # local[g][q]
               PROVE  \/ local[g][q] = None \/ <<q, local[g][q]>> \in contents
                      \/ EditedSince(g, q)
    BY DEF EditsKept
  <2>1. g = h /\ q = p
    BY <1>9
  <2>2. CASE local[h][p] = v
    BY <1>3, <2>1, <2>2 DEF Stored
  <2>3. CASE local[h][p] # v
    BY <1>1, <1>2, <2>1, <2>3 DEF EditedSince
  <2> QED
    BY <2>2, <2>3
<1> QED
  BY <1>15, <1>16

LEMMA EndInv ==
  ASSUME WorkspaceInv, NEW h \in Hosts, Finish(h) \/ Fetched(h) \/ Abort(h)
  PROVE  WorkspaceInv'
<1>1. CASE Finish(h)
  BY <1>1, SaveInv DEF Finish, Running, bounds
<1>2. CASE Fetched(h)
  BY <1>2, SaveInv DEF Fetched, Running, bounds
<1>3. CASE Abort(h)
  <2>1. /\ proc' = [proc EXCEPT ![h] = Idle] /\ UNCHANGED <<store, local, track, edits, history>>
        /\ base' = [base EXCEPT ![h] = base[h]] /\ base[h] \in Files
    BY <1>3 DEF Abort, WorkspaceInv, WorkspaceTypeOK
  <2>2. \A p \in Paths : Stored(p, base[h][p]) /\ Seen(h, p, base[h][p])
    BY DEF WorkspaceInv, HostOK
  <2> QED
    BY <2>1, <2>2, Ends
<1> QED
  BY <1>1, <1>2, <1>3

----------------------------------------------------------------------------
(* The theorems. *)

LEMMA InitInv == Init => WorkspaceInv
<1> SUFFICES ASSUME Init PROVE WorkspaceInv
  OBVIOUS
<1>1. Shared \in Files
  BY WorkspaceAssumption DEF Files, Version
<1>2. manifest # None => manifest \in Manifest /\ manifest.files = Shared
  BY <1>1 DEF Init, Manifest
<1>3. WorkspaceTypeOK /\ edits \in Nat
  BY <1>1, <1>2, WorkspaceAssumption DEF Init, WorkspaceTypeOK
<1>4. \A p \in Paths : Stored(p, Shared[p]) /\ \A h \in Hosts : Seen(h, p, Shared[p])
  BY <1>1 DEF Init, Stored, Seen, Files, Version
<1>5. StoreOK
  BY <1>2, <1>4 DEF Init, StoreOK
<1>6. \A h \in Hosts : HostOK(h)
  BY <1>4 DEF Init, HostOK
<1> QED
  BY <1>3, <1>5, <1>6 DEF WorkspaceInv

LEMMA StepInv ==
  ASSUME WorkspaceInv, Next
  PROVE  WorkspaceInv' /\ InformedCommit /\ EditsKept
<1> SUFFICES ASSUME NEW h \in Hosts,
                    \/ \E p \in Paths : Untrack(h, p) \/ \E c \in Version : Edit(h, p, c)
                    \/ Publish(h) \/ Repair(h) \/ Pull(h)
                    \/ \E P \in SUBSET Paths : Drop(h, P)
                    \/ Work(h)
                    \/ Abort(h)
             PROVE  WorkspaceInv' /\ InformedCommit /\ EditsKept
  BY DEF Next
<1>1. ASSUME NEW p \in Paths, Untrack(h, p) PROVE WorkspaceInv' /\ InformedCommit /\ EditsKept
  BY <1>1, UntrackInv DEF Untrack, store, InformedCommit, EditsKept
<1>2. ASSUME NEW p \in Paths, NEW v \in Version, Edit(h, p, v)
      PROVE  WorkspaceInv' /\ InformedCommit /\ EditsKept
  <2>1. edits' # edits
    BY <1>2 DEF Edit, WorkspaceInv
  <2> QED
    BY <1>2, <2>1, EditInv DEF Edit, store, InformedCommit, EditsKept
<1>3. CASE Publish(h) \/ Repair(h) \/ Pull(h) \/ \E P \in SUBSET Paths : Drop(h, P)
  <2>1. WorkspaceInv'
    BY <1>3, UploadBegins, PullInv, DropInv DEF Publish, Repair, Uploads
  <2>2. UNCHANGED <<manifest, local>>
    BY <1>3 DEF Publish, Repair, Pull, Drop, Begin, store
  <2> QED
    BY <2>1, <2>2 DEF InformedCommit, EditsKept
<1>4. ASSUME NEW p \in Paths, Upload(h, p) PROVE WorkspaceInv' /\ InformedCommit /\ EditsKept
  BY <1>4, UploadInv DEF Upload, InformedCommit, EditsKept
<1>5. ASSUME NEW p \in Paths, Recheck(h, p) \/ WriteLocal(h, p)
      PROVE  WorkspaceInv' /\ InformedCommit /\ EditsKept
  <2>1. CASE Recheck(h, p)
    BY <2>1, RecheckInv DEF Recheck, store, InformedCommit, EditsKept
  <2>2. CASE WriteLocal(h, p)
    BY <2>2, WriteLocalInv DEF WriteLocal, store, InformedCommit
  <2> QED
    BY <1>5, <2>1, <2>2
<1>6. ASSUME NEW p \in Paths, NEW ok \in BOOLEAN, Mirror(h, p, ok)
      PROVE  WorkspaceInv' /\ InformedCommit /\ EditsKept
  BY <1>6, MirrorInv DEF Mirror, InformedCommit, EditsKept
<1>7. CASE Uploaded(h)
  BY <1>7, UploadedInv DEF Uploaded, store, InformedCommit, EditsKept
<1>8. CASE Swap(h) \/ GuardHead(h) \/ GuardPut(h) \/ GuardConfirm(h)
  <2>1. UNCHANGED local
    BY <1>8 DEF Swap, GuardHead, GuardPut, GuardConfirm
  <2> QED
    BY <1>8, <2>1, SwapInv, GuardInv DEF EditsKept
<1>9. CASE Reread(h)
  BY <1>9, RereadInv DEF Reread, store, InformedCommit, EditsKept
<1>10. CASE Finish(h) \/ Fetched(h) \/ Abort(h)
  <2>1. UNCHANGED <<manifest, local>>
    BY <1>10 DEF Finish, Fetched, Abort, store
  <2> QED
    BY <1>10, <2>1, EndInv DEF InformedCommit, EditsKept
<1> QED
  BY <1>1, <1>2, <1>3, <1>4, <1>5, <1>6, <1>7, <1>8, <1>9, <1>10 DEF Work

\* The invariant is inductive: what commands, hosts and the store know of each
\* other stays true however commands overlap, lose races and die.
THEOREM WorkspaceInvariant == Spec => []WorkspaceInv
<1>1. WorkspaceInv /\ [Next]_vars => WorkspaceInv'
  <2> SUFFICES ASSUME WorkspaceInv, UNCHANGED vars PROVE WorkspaceInv'
    BY StepInv
  <2>1. UNCHANGED <<supports_if_match, manifest, pointers, contents, local, base, track, proc,
                    edits, rare, seen, dropped>>
    BY DEF vars, store, bounds, history
  <2>2. Grows /\ StoreOK' /\ WorkspaceTypeOK' /\ edits' \in Nat
    BY <2>1 DEF Grows, WorkspaceInv, StoreOK, Stored, WorkspaceTypeOK
  <2>3. ASSUME NEW h \in Hosts PROVE HostOK(h)'
    BY <2>1 DEF WorkspaceInv, HostOK, CommandOK, Stored, Seen
  <2> QED
    BY <2>2, <2>3 DEF WorkspaceInv
<1> QED
  BY <1>1, InitInv, PTL DEF Spec

\* Every object, file and command keeps its type; a command tries at most
\* MaxAttempts commits.
THEOREM WorkspaceTypeCorrect == Spec => []WorkspaceTypeOK
<1>1. WorkspaceInv => WorkspaceTypeOK
  BY DEF WorkspaceInv
<1> QED
  BY <1>1, WorkspaceInvariant, PTL

\* Whatever the index, the pointers or the saved state of a host name can be
\* fetched.
THEOREM NamedContentsExist == Spec => []NamedIsStored
<1>1. WorkspaceInv => NamedIsStored
  <2> SUFFICES ASSUME WorkspaceInv PROVE NamedIsStored
    OBVIOUS
  <2>1. \A p \in Paths : /\ Stored(p, remote_index.files[p]) /\ Stored(p, pointers[p])
                         /\ \A h \in Hosts : Stored(p, base[h][p])
    BY IndexFacts DEF WorkspaceInv, StoreOK, HostOK
  <2>2. ASSUME NEW f, \A p \in Paths : Stored(p, f[p])
        PROVE  {q \in Paths \X Contents : f[q[1]] = q[2]} \subseteq contents
    <3> SUFFICES ASSUME NEW p \in Paths, NEW v \in Contents, f[p] = v PROVE <<p, v>> \in contents
      OBVIOUS
    <3> QED
      BY <2>2, WorkspaceAssumption DEF Stored
  <2> QED
    BY <2>1, <2>2 DEF NamedIsStored
<1> QED
  BY <1>1, WorkspaceInvariant, PTL

\* Where the store compares and swaps, no commit undoes another one unseen.
THEOREM InformedCommits == Spec => CommitsAreInformed
<1>1. WorkspaceInv /\ [Next]_vars => [InformedCommit]_vars
  BY StepInv
<1> QED
  BY <1>1, WorkspaceInvariant, PTL DEF Spec, CommitsAreInformed

\* What a command overwrites in a file can be fetched again from the store,
\* unless it was saved between the last look of a pull and the write after it.
THEOREM EditsSurvive == Spec => EditsSurvivePulls
<1>1. WorkspaceInv /\ [Next]_vars => [EditsKept]_vars
  BY StepInv
<1> QED
  BY <1>1, WorkspaceInvariant, PTL DEF Spec, EditsSurvivePulls

=============================================================================
