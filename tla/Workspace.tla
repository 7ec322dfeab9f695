------------------------------ MODULE Workspace -----------------------------
(***************************************************************************)
(* The exchange of project files between hosts through an object store     *)
(* (crates/awr-workspace/src/sync.rs over the Backend of backend.rs and    *)
(* s3.rs): publish, repair_index, pull, drop_paths and status.             *)
(*                                                                         *)
(* Contents stand for their digests.  One request to the store is one      *)
(* action; what a command reads of its own disk after the index commutes   *)
(* with every other host and is read with it.  A host runs one command at  *)
(* a time.  The last look of a pull at a local file and the write over it  *)
(* are two steps, with edits in between.                                   *)
(***************************************************************************)
EXTENDS Naturals, FiniteSets

CONSTANTS
  Hosts,        \* machines, each with its own copy and its own state file
  Paths,        \* paths of the project
  Contents,     \* what a file may hold
  None,         \* no file, no entry, no object
  Shared,       \* the contents every host is in sync at in the beginning
  CasModes,     \* what supports_if_match may answer
  MaxAttempts,  \* commits tried by one command; 3 in the code
  MaxEdits,     \* bound on the edits of all hosts together
  MaxRevision,  \* bound on the revision guarded commands start from
  MaxRare       \* bound on paths taken out of project.track and on commands
                \* that fail or are killed, together

ASSUME WorkspaceAssumption ==
  /\ None \notin Contents
  /\ Shared \in [Paths -> Contents \cup {None}]
  /\ CasModes \subseteq BOOLEAN
  /\ MaxAttempts \in Nat \ {0}
  /\ {MaxEdits, MaxRevision, MaxRare} \subseteq Nat

VARIABLES
  supports_if_match,  \* whether the store enforces If-Match
  manifest,           \* the index: one object, or None
  pointers,           \* the mirror of the index: one object for each path
  contents,           \* content objects, keyed by path and digest
  local,              \* the files of each host
  base,               \* base_sha in the saved state of each host
  track,              \* project.track of each host
  proc,               \* the command a host is running
  edits, rare,        \* counted against their bounds
  seen,               \* history: what each path has held on each host
  dropped             \* history: paths some drop took from the index

store == <<supports_if_match, manifest, pointers, contents>>
bounds == <<edits, rare>>
history == <<seen, dropped>>
vars == <<store, local, base, track, proc, bounds, history>>

----------------------------------------------------------------------------
(* Objects and commands. *)

Version == Contents \cup {None}
Files == [Paths -> Version]

\* The body of a manifest; two bodies have one etag only if they are equal.
Manifest == [revision : Nat, updated_by : Hosts \cup {None}, files : Files]
Index == [files : Files, etag : Manifest \cup {None}]

Idle == [op |-> "idle"]
\* entries: what the command puts in the index, or fetches.  left: paths
\* still to upload, commit, mirror or fetch.  done: paths the command settled.
\* looked: the path to be written next, with what its file was seen to hold.
Command == [op : {"publish", "repair", "pull", "drop"},
            pc : {"upload", "commit", "put", "confirm", "reread", "mirror", "fetch"},
            index : Index, entries : Files, todo : SUBSET Paths, left : SUBSET Paths,
            done : SUBSET Paths, base : Files, attempt : 1..MaxAttempts + 1,
            looked : SUBSET (Paths \X Version)]

WorkspaceTypeOK ==
  /\ supports_if_match \in BOOLEAN
  /\ manifest \in Manifest \cup {None}
  /\ pointers \in Files
  /\ contents \subseteq Paths \X Contents
  /\ local \in [Hosts -> Files] /\ base \in [Hosts -> Files]
  /\ track \in [Hosts -> SUBSET Paths]
  /\ proc \in [Hosts -> Command \cup {Idle}]
  /\ seen \subseteq Hosts \X Paths \X Contents
  /\ dropped \subseteq Paths

\* The manifest, or without one what the pointers tell.
remote_index ==
  IF manifest # None THEN [files |-> manifest.files, etag |-> manifest]
                     ELSE [files |-> pointers, etag |-> None]

state_of(l, r, b) ==
  CASE l = None              -> "missing_local"
    [] l # None /\ l = r     -> "in_sync"
    [] r = None /\ b # None  -> "index_missing_local"
    [] OTHER -> IF r = b      THEN "local_ahead"
                ELSE IF l = b THEN "remote_ahead"
                ELSE IF b = None THEN "conflicted_first_sync" ELSE "conflicted"

\* tracked(): the tracked paths that exist here.
tracked(h) == {p \in track[h] : local[h][p] # None}

\* f with the entries of g for the paths in P.
Override(f, g, P) == [p \in Paths |-> IF p \in P THEN g[p] ELSE f[p]]
Nothing == [p \in Paths |-> None]

----------------------------------------------------------------------------
(* Users: edits, and project.track. *)

Edit(h, p, c) ==
  /\ edits < MaxEdits /\ c # local[h][p]
  /\ local' = [local EXCEPT ![h][p] = c]
  /\ edits' = edits + 1
  /\ seen' = IF c = None THEN seen ELSE seen \cup {<<h, p, c>>}
  /\ UNCHANGED <<store, base, track, proc, rare, dropped>>

Untrack(h, p) ==
  /\ p \in track[h] /\ proc[h] = Idle
  /\ rare < MaxRare /\ rare' = rare + 1
  /\ track' = [track EXCEPT ![h] = @ \ {p}]
  /\ UNCHANGED <<store, local, base, proc, edits, history>>

----------------------------------------------------------------------------
(* Commands.  Each begins by reading the index and the saved state. *)

Begin(h, op, pc, entries, todo, b) ==
  /\ proc[h] = Idle
  /\ ~supports_if_match /\ manifest # None /\ op # "pull" => manifest.revision < MaxRevision
  /\ proc' = [proc EXCEPT ![h] =
       [op |-> op, pc |-> pc, index |-> remote_index, entries |-> entries, todo |-> todo,
        left |-> todo, done |-> {}, base |-> b, attempt |-> 1, looked |-> {}]]
  /\ UNCHANGED <<store, local, base, track, edits, history>>

\* Mutant: a path the index lacks is a conflict for a host that published it.
MutConflicting(h, p, r) == r # base[h][p]

\* The index holds what this host has not seen.
Conflicting(h, p, r) == r # None /\ r # base[h][p]

\* plan_publish: tracked paths that differ from the index and are not in
\* conflict; a repair takes only what this host published and the index lost.
Pending(h, repair_only) ==
  {p \in tracked(h) : LET r == remote_index.files[p] IN
     /\ r # local[h][p]
     /\ ~Conflicting(h, p, r)
     /\ repair_only => r = None /\ base[h][p] = local[h][p]}

Publish(h) ==
  LET same == {p \in tracked(h) : remote_index.files[p] = local[h][p]}
  IN  /\ Begin(h, "publish", "upload", local[h], Pending(h, FALSE),
               Override(base[h], local[h], same))
      /\ UNCHANGED rare

Repair(h) ==
  LET same == {p \in tracked(h) : remote_index.files[p] = local[h][p]}
  IN  /\ Begin(h, "repair", "upload", local[h], Pending(h, TRUE),
               Override(base[h], local[h], same))
      /\ UNCHANGED rare

\* pull: index entries that are neither here already nor edited here.
Pull(h) ==
  LET files == remote_index.files
      listed == {p \in Paths : files[p] # None}
      same == {p \in listed : files[p] = local[h][p]}
      fetches == {p \in listed \ same : local[h][p] \in {None, base[h][p]}}
  IN  /\ Begin(h, "pull", "fetch", files, fetches, Override(base[h], files, same))
      /\ UNCHANGED rare

\* drop_paths of paths the track list no longer covers: those the index does
\* not name are only forgotten, and without a manifest pointers are all there is.
\* A path that was taken from the index is not dropped again (a bound).
Drop(h, P) ==
  LET listed == {p \in P : remote_index.files[p] # None}
  IN  /\ P # {} /\ P \cap track[h] = {} /\ P \cap dropped = {}
      /\ UNCHANGED rare
      /\ Begin(h, "drop",
               IF manifest # None /\ listed # {} THEN "commit" ELSE "mirror",
               Nothing, listed, Override(base[h], Nothing, P \ listed))

\* The command goes on with record c.
Go(h, c) == proc' = [proc EXCEPT ![h] = c]

\* What was committed or fetched becomes the base, and the state is saved.
Save(h) ==
  /\ base' = [base EXCEPT ![h] = Override(proc[h].base, proc[h].entries, proc[h].done)]
  /\ proc' = [proc EXCEPT ![h] = Idle]

Running(h, pc) == proc[h] # Idle /\ proc[h].pc = pc

\* The last upload is followed by the commit.
AfterUpload(c, p) ==
  IF c.left = {p} THEN [c EXCEPT !.pc = "commit", !.left = c.todo]
                  ELSE [c EXCEPT !.left = @ \ {p}]

\* Mutant: an upload that failed is taken for one that was made before.
MutUpload(h, p) ==
  /\ Running(h, "upload") /\ p \in proc[h].left
  /\ Go(h, AfterUpload(proc[h], p))
  /\ UNCHANGED <<store, local, base, track, bounds, history>>

\* A content object is put if absent, and verified when it is not.
Upload(h, p) ==
  /\ Running(h, "upload") /\ p \in proc[h].left
  /\ contents' = contents \cup {<<p, proc[h].entries[p]>>}
  /\ Go(h, AfterUpload(proc[h], p))
  /\ UNCHANGED <<supports_if_match, manifest, pointers, local, base, track, bounds, history>>

\* Nothing to add and an index that exists: nothing to commit.  A missing
\* manifest is written all the same, but never by a repair.
Uploaded(h) ==
  LET c == proc[h]
  IN  /\ Running(h, "upload") /\ c.left = {}
      /\ IF c.index.etag = None /\ c.op = "publish"
           THEN Go(h, [c EXCEPT !.pc = "commit"]) /\ UNCHANGED base
           ELSE Save(h)
      /\ UNCHANGED <<store, local, track, bounds, history>>

----------------------------------------------------------------------------
(* commit_files: one write of the whole index. *)

\* The index as read, with this command's entries over it.
NewManifest(h) ==
  LET c == proc[h]
  IN  [revision |-> (IF c.index.etag = None THEN 0 ELSE c.index.etag.revision) + 1,
       updated_by |-> h,
       files |-> Override(c.index.files, c.entries, c.left)]

Committed(h) == Go(h, [proc[h] EXCEPT !.pc = "mirror", !.done = @ \cup proc[h].left])
Lost(h) == Go(h, [proc[h] EXCEPT !.pc = "reread"])

\* The precondition of the PUT: the index is absent still, or the one read.
Matches(h) == manifest = proc[h].index.etag

\* put with If-None-Match, or with If-Match where the store enforces it.
Swap(h) ==
  /\ Running(h, "commit")
  /\ supports_if_match \/ proc[h].index.etag = None
  /\ \/ /\ Matches(h)
        /\ manifest' = NewManifest(h)
        /\ dropped' = IF proc[h].op = "drop" THEN dropped \cup proc[h].left ELSE dropped
        /\ Committed(h)
     \/ /\ ~Matches(h)
        /\ Lost(h)
        /\ UNCHANGED <<manifest, dropped>>
  /\ UNCHANGED <<supports_if_match, pointers, contents, local, base, track, bounds, seen>>

\* Without If-Match: a HEAD, an unconditional PUT and a HEAD.
GuardHead(h) ==
  /\ Running(h, "commit")
  /\ ~supports_if_match /\ proc[h].index.etag # None
  /\ IF Matches(h) THEN Go(h, [proc[h] EXCEPT !.pc = "put"]) ELSE Lost(h)
  /\ UNCHANGED <<store, local, base, track, bounds, history>>

GuardPut(h) ==
  /\ Running(h, "put")
  /\ manifest' = NewManifest(h)
  /\ dropped' = IF proc[h].op = "drop" THEN dropped \cup proc[h].left ELSE dropped
  /\ Go(h, [proc[h] EXCEPT !.pc = "confirm"])
  /\ UNCHANGED <<supports_if_match, pointers, contents, local, base, track, bounds, seen>>

GuardConfirm(h) ==
  /\ Running(h, "confirm")
  /\ IF manifest = NewManifest(h) THEN Committed(h) ELSE Lost(h)
  /\ UNCHANGED <<store, local, base, track, bounds, history>>

\* Mutant: after a lost race everything is tried again over the new index.
MutSurvives(h, p, r) == TRUE

\* Whether p is still this command's to commit when the index says r.
Survives(h, p, r) ==
  IF proc[h].op = "drop" THEN r # None ELSE r \in {None, proc[h].base[p]}

\* The next attempt, of those the command has.
Again(c, left) == left # {} /\ c.attempt < MaxAttempts

\* A peer committed first: re-read, keep what survives, and try again unless
\* nothing is left or the attempts are used up.
Reread(h) ==
  LET c == proc[h]
      left == {p \in c.left : Survives(h, p, remote_index.files[p])}
      absent == IF c.op = "drop" THEN c.left \ left ELSE {}
  IN  /\ Running(h, "reread")
      /\ Go(h, [c EXCEPT !.pc = IF Again(c, left) THEN "commit" ELSE "mirror",
                         !.index = remote_index, !.left = left, !.attempt = @ + 1,
                         !.base = Override(@, Nothing, absent)])
      /\ UNCHANGED <<store, local, base, track, bounds, history>>

----------------------------------------------------------------------------
(* After the commit. *)

\* Paths whose pointer is still to be written, or deleted: for a drop of
\* pointers alone, those it found.
Unmirrored(c) ==
  IF c.op = "drop" /\ c.index.etag = None THEN c.todo \ c.done ELSE c.todo \cap c.done

\* A pointer is mirrored after the commit; a failure is reported and ignored.
Mirror(h, p, ok) ==
  LET c == proc[h]
      unlisted == c.op = "drop" /\ c.index.etag = None
  IN  /\ Running(h, "mirror") /\ p \in Unmirrored(c)
      /\ pointers' = IF ok THEN [pointers EXCEPT ![p] = c.entries[p]] ELSE pointers
      /\ Go(h, IF unlisted THEN [c EXCEPT !.done = @ \cup {p}] ELSE [c EXCEPT !.todo = @ \ {p}])
      /\ dropped' = IF unlisted THEN dropped \cup {p} ELSE dropped
      /\ UNCHANGED <<supports_if_match, manifest, contents, local, base, track, bounds, seen>>

Finish(h) ==
  /\ Running(h, "mirror") /\ Unmirrored(proc[h]) = {}
  /\ Save(h)
  /\ UNCHANGED <<store, local, track, bounds, history>>

\* Mutant: the plan is trusted and the file written without another look.
MutUntouched(h, p) == TRUE

\* The local file is absent, or still at its base.
Untouched(h, p) == local[h][p] \in {None, proc[h].base[p]}

\* The content is there and verified; the local file is looked at once more,
\* and passed over when it was edited.
Recheck(h, p) ==
  LET c == proc[h]
  IN  /\ Running(h, "fetch") /\ c.looked = {} /\ p \in c.left
      /\ <<p, c.entries[p]>> \in contents
      /\ Go(h, IF Untouched(h, p) THEN [c EXCEPT !.looked = {<<p, local[h][p]>>}]
                                  ELSE [c EXCEPT !.left = @ \ {p}])
      /\ UNCHANGED <<store, local, base, track, bounds, history>>

\* write_local renames the new file over the old, whatever that holds by now.
WriteLocal(h, p) ==
  LET c == proc[h]
  IN  /\ Running(h, "fetch") /\ \E v \in Version : c.looked = {<<p, v>>}
      /\ local' = [local EXCEPT ![h][p] = c.entries[p]]
      /\ seen' = seen \cup {<<h, p, c.entries[p]>>}
      /\ Go(h, [c EXCEPT !.left = @ \ {p}, !.done = @ \cup {p}, !.looked = {},
                         !.base[p] = c.entries[p]])
      /\ UNCHANGED <<store, base, track, bounds, dropped>>

Fetched(h) ==
  /\ Running(h, "fetch") /\ proc[h].left = {}
  /\ Save(h)
  /\ UNCHANGED <<store, local, track, bounds, history>>

\* A request fails or its answer is lost, the deadline of the session hook
\* passes, or the process is killed: nothing is saved, what is done stays done.
Abort(h) ==
  /\ proc[h] # Idle /\ rare < MaxRare
  /\ rare' = rare + 1
  /\ proc' = [proc EXCEPT ![h] = Idle]
  /\ UNCHANGED <<store, local, base, track, edits, history>>

----------------------------------------------------------------------------
(* In the beginning the hosts are in sync, through a manifest or through the *)
(* pointers of a store that has none yet.                                     *)
Init ==
  /\ supports_if_match \in CasModes
  /\ manifest \in {None, [revision |-> 1, updated_by |-> None, files |-> Shared]}
  /\ pointers = Shared
  /\ contents = {q \in Paths \X Contents : Shared[q[1]] = q[2]}
  /\ local = [h \in Hosts |-> Shared] /\ base = [h \in Hosts |-> Shared]
  /\ track = [h \in Hosts |-> Paths]
  /\ proc = [h \in Hosts |-> Idle]
  /\ edits = 0 /\ rare = 0
  /\ seen = {t \in Hosts \X Paths \X Contents : Shared[t[2]] = t[3]}
  /\ dropped = {}

\* The next step of the command host h is running.
Work(h) ==
  \/ \E p \in Paths : \/ Upload(h, p) \/ \E ok \in BOOLEAN : Mirror(h, p, ok)
                      \/ Recheck(h, p) \/ WriteLocal(h, p)
  \/ Uploaded(h)
  \/ Swap(h) \/ GuardHead(h) \/ GuardPut(h) \/ GuardConfirm(h) \/ Reread(h)
  \/ Finish(h) \/ Fetched(h)

Next == \E h \in Hosts :
  \/ \E p \in Paths : Untrack(h, p) \/ \E c \in Version : Edit(h, p, c)
  \/ Publish(h) \/ Repair(h) \/ Pull(h)
  \/ \E P \in SUBSET Paths : Drop(h, P)
  \/ Work(h)
  \/ Abort(h)

\* A command that was started runs on, and every host keeps publishing and
\* pulling: sessions end with the one and begin with the other.
Fairness == \A h \in Hosts :
  /\ WF_vars(Work(h))
  /\ SF_vars(Publish(h)) /\ SF_vars(Pull(h))

Spec == Init /\ [][Next]_vars /\ Fairness

----------------------------------------------------------------------------
(* Properties. *)

\* What the index, the pointers and the saved state of every host name can be
\* fetched: content objects go first and never leave (publish_entries, pull).
NamedIsStored ==
  LET named(f) == {q \in Paths \X Contents : f[q[1]] = q[2]}
  IN  /\ named(remote_index.files) \cup named(pointers) \subseteq contents
      /\ \A h \in Hosts : named(base[h]) \subseteq contents

\* A step that replaces only index entries its host has had, and takes only
\* paths from the index that its host drops.
InformedCommit ==
  supports_if_match /\ manifest # None /\ manifest' # manifest =>
    LET h == manifest'.updated_by
    IN  \A p \in Paths : manifest'.files[p] # manifest.files[p] =>
          IF manifest'.files[p] = None
            THEN p \notin track[h] /\ proc[h].op = "drop"
            ELSE manifest.files[p] = None \/ <<h, p, manifest.files[p]>> \in seen

\* Where the store compares and swaps, an index entry is replaced only by a
\* host that has had its contents, and goes away only by a drop of its path:
\* no commit undoes another (commit_files and the survivors of a lost race).
CommitsAreInformed == [][InformedCommit]_vars

\* The file was edited after the last look of the pull that is to write it.
EditedSince(h, p) ==
  \E v \in Version : /\ proc[h] # Idle /\ <<p, v>> \in proc[h].looked
                     /\ local[h][p] # v

\* A step that overwrites, other than by an edit, only what is in the store,
\* or a file that was edited since the last look.
EditsKept ==
  \A h \in Hosts, p \in Paths :
    local'[h][p] # local[h][p] /\ edits' = edits =>
      \/ local[h][p] = None \/ <<p, local[h][p]>> \in contents
      \/ EditedSince(h, p)

\* What a pull overwrites can be fetched again: an edit made at any time before
\* its last look at the file stays (the re-check in pull).  An edit saved
\* between that look and the rename is lost in the code too, and is exempt.
EditsSurvivePulls == [][EditsKept]_vars

\* Once the edits stop, every host ends in sync or knows of a conflict for
\* each path that is shared, where the store compares and swaps (publish, pull).
Settled(h, p) ==
  LET l == local[h][p]
      r == remote_index.files[p]
      b == base[h][p]
  IN  \/ l = r
      \/ p \notin track[h] /\ (r = None \/ state_of(l, r, b) = "local_ahead")
      \/ state_of(l, r, b) \in {"conflicted", "conflicted_first_sync"}

HostsConverge == supports_if_match => <>[](\A h \in Hosts, p \in Paths : Settled(h, p))
=============================================================================
