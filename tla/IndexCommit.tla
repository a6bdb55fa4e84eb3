---------------------------- MODULE IndexCommit ---------------------------
(***************************************************************************)
(* The index on disk as CLucene writes and finds it: the one writer of a   *)
(* directory (QIndexModifier: an IndexWriter or an IndexReader that        *)
(* deletes), its commits (segments_N and segments.gen), the files          *)
(* IndexFileDeleter removes, and the searches of the same program that     *)
(* open the index meanwhile.  The program may end between any two steps on *)
(* the file system.                                                        *)
(*                                                                         *)
(* The loose files of a segment (.fdt, .tis, ...) are one file here; a     *)
(* commit is a set of segments.                                            *)
(***************************************************************************)
EXTENDS Integers, FiniteSets

CONSTANTS Readers,      \* the searches
          Windows,      \* an open file cannot be deleted
          MergeFactor,  \* segments that are merged into one
          Lookahead,    \* defaultGenLookaheadCount
          MaxGen,       \* bound: commits
          MaxNames,     \* bound: segments ever written
          MaxCrashes,   \* bound: ends of the program
          MaxFailures,  \* bound: I/O errors of the writer
          MaxLost       \* bound: I/O errors nobody notices

ASSUME BoundAssumption == /\ MaxGen \in Nat /\ MaxNames \in Nat
                          /\ MaxCrashes \in Nat /\ MaxFailures \in Nat /\ MaxLost \in Nat
ASSUME CodeAssumption == /\ Windows \in BOOLEAN /\ MergeFactor \in Nat
                         /\ Lookahead \in Nat \ {0}

VARIABLES
  disk,       \* the files of the index, without segments.gen
  log,        \* what segments_N holds once it is complete
  pointer,    \* segments.gen: a generation, 0 if incomplete, -1 if absent
  published,  \* the newest complete commit (history)
  mode,       \* what the modifier has open: "off", "writer" or "reader"
  step,       \* where it is in a commit
  after,      \* what it does once the files of doomed are removed
  job,        \* the commit it is writing
  infos,      \* SegmentInfos in memory
  old,        \* and its clone from before the commit
  gen,        \* SegmentInfos::generation
  kept,       \* the commit the deleter keeps
  counter,    \* SegmentInfos::counter: names given to segments
  pending,    \* commitPending
  doomed,     \* files the deleter is removing
  deletable,  \* files it could not remove
  reader,     \* the searches
  crashes, failures, lost

dirVars   == <<disk, log, pointer, published>>
memVars   == <<infos, old, gen, kept, counter, pending>>
workVars  == <<mode, step, after, job>>
delVars   == <<doomed, deletable>>
boundVars == <<crashes, failures, lost>>
vars      == <<dirVars, memVars, workVars, delVars, reader, boundVars>>

-----------------------------------------------------------------------------
(* Files                                                                    *)

Names == 0..(MaxNames - 1)
Gens  == 1..MaxGen

Parts(n)    == [kind |-> "parts",    of |-> n, gen |-> 0]
Cfs(n)      == [kind |-> "cfs",      of |-> n, gen |-> 0]
Del(n, g)   == [kind |-> "del",      of |-> n, gen |-> g]
Segments(g) == [kind |-> "segments", of |-> 0, gen |-> g]

\* segments_N that was not written to its end: it has no counter.
NoCommit == [infos |-> {}, counter |-> -1]

\* A segment: del is the generation of its deletions, 0 without.
NewSegment(n) == [name |-> n, del |-> 0, cfs |-> FALSE]

\* SegmentInfo::files of all segments.
DataFiles(S) == {IF s.cfs THEN Cfs(s.name) ELSE Parts(s.name) : s \in S}
                  \cup {Del(s.name, s.del) : s \in {t \in S : t.del > 0}}

\* CommitPoint::files
FilesOf(g) == {Segments(g)} \cup DataFiles(log[g].infos)

Complete(g) == g \in Gens /\ log[g].counter >= 0

SegGens == {g \in 1..(MaxGen + 1) : Segments(g) \in disk}

\* mutant: the first segments_N of the listing
ListedOldest == IF SegGens = {} THEN -1 ELSE CHOOSE g \in SegGens : \A h \in SegGens : h >= g

\* getCurrentSegmentGeneration of the files of the directory.
Listed == IF SegGens = {} THEN -1 ELSE CHOOSE g \in SegGens : \A h \in SegGens : h <= g

\* The generation in segments.gen; an incomplete file is given up after some tries.
Pointed == IF pointer <= 0 THEN -1 ELSE pointer

\* max(genA, genB)
Newest == IF Listed > Pointed THEN Listed ELSE Pointed

\* mutant: only the newest generation is tried
FoundNewestOnly ==
  IF Newest > 0 /\ Segments(Newest) \in disk /\ Complete(Newest) THEN Newest ELSE 0

\* The commit SegmentInfos::read finds while nobody writes, 0 if it throws.
Found == IF Newest > 0 /\ Segments(Newest) \in disk /\ Complete(Newest) THEN Newest
         ELSE IF Newest > 1 /\ Segments(Newest - 1) \in disk /\ Complete(Newest - 1)
         THEN Newest - 1 ELSE 0

-----------------------------------------------------------------------------
(* The deleter                                                              *)

\* Files a search has open.
Held(f) == \E r \in Readers : f \in reader[r].held

\* The deleter has removed what it was to remove, and x comes next.
Ready(x) == step = "clean" /\ doomed = {} /\ after = x

\* mutant: segments_N beyond the current generation are left alone
SweepOlder(g) == disk \ (FilesOf(g) \cup {Segments(h) : h \in (g + 1)..(MaxGen + 1)})

\* IndexFileDeleter's constructor: everything but the newest commit goes.
Sweep(g) == disk \ FilesOf(g)

\* decRef: of the commits that go, the oldest first, and segments_N before the files
\* it names.
Removable(f) == \A g \in Gens : Segments(g) \in doomed /\ Complete(g) =>
                  /\ f \notin DataFiles(log[g].infos)
                  /\ f.kind = "segments" /\ Complete(f.gen) => f.gen <= g

\* IndexFileDeleter::deleteFile, one file of the list at a time.
DeleteFile ==
  /\ step = "clean"
  /\ \E f \in doomed :
       /\ Removable(f)
       /\ doomed' = doomed \ {f}
       /\ IF f \in disk /\ Windows /\ Held(f)
          THEN deletable' = deletable \cup {f} /\ UNCHANGED disk
          ELSE disk' = disk \ {f} /\ UNCHANGED deletable
  /\ UNCHANGED <<log, pointer, published, memVars, workVars, reader, boundVars>>

\* mutant: the new commit's files are counted after the old one's are released
CheckpointLate ==
  /\ step' = "clean"
  /\ doomed' = IF job = "create" THEN Sweep(gen) ELSE deletable \cup FilesOf(kept)
  /\ deletable' = {}
  /\ kept' = gen
  /\ pending' = FALSE
  /\ after' = CASE job \in {"flush", "merge"} -> "compound"
                [] job = "close" -> after
                [] OTHER -> "idle"

\* checkpoint(isCommit): the pending files again, then the former commit's files
\* that the new one does not share.
Checkpoint ==
  /\ step' = "clean"
  /\ doomed' = IF job = "create" THEN Sweep(gen)
               ELSE deletable \cup (FilesOf(kept) \ FilesOf(gen))
  /\ deletable' = {}
  /\ kept' = gen
  /\ pending' = FALSE
  /\ after' = CASE job \in {"flush", "merge"} -> "compound"
                [] job = "close" -> after
                [] OTHER -> "idle"

-----------------------------------------------------------------------------
(* The writer                                                               *)

\* mutant: nothing found leaves -1, and write adds 1 to it
LastReadRaw == IF Found > 0 THEN Found ELSE Newest

\* generation after SegmentInfos::read, which a torn segments_N has set as well; 0
\* stands for -1, from which write goes on to 1 too.
LastRead == IF Found > 0 THEN Found ELSE IF Newest > 0 THEN Newest ELSE 0

\* lucyindexer::open: an index without segments.gen is created.  CLucene then
\* reads the last commit, empties it in memory and writes the next segments_N.
CreateIndex ==
  /\ mode = "off" /\ pointer = -1
  /\ LastRead < MaxGen
  /\ gen' = LastRead
  /\ mode' = "writer" /\ step' = "data" /\ job' = "create" /\ after' = "idle"
  /\ infos' = {} /\ old' = {}
  /\ counter' = IF Found > 0 THEN log[Found].counter ELSE 0
  /\ kept' = Found
  /\ pending' = FALSE
  /\ doomed' = {} /\ deletable' = {}
  /\ UNCHANGED <<dirVars, reader, boundVars>>

\* IndexWriter::init without create: when the program has started and when the
\* modifier goes back to writing.
OpenWriter ==
  /\ (mode = "off" /\ pointer # -1) \/ Ready("writer")
  /\ job # "close"
  /\ Found > 0
  /\ mode' = "writer" /\ step' = "clean" /\ job' = "none" /\ after' = "idle"
  /\ infos' = log[Found].infos /\ old' = log[Found].infos
  /\ gen' = Found /\ kept' = Found
  /\ counter' = log[Found].counter
  /\ pending' = FALSE
  /\ doomed' = Sweep(Found) /\ deletable' = {}
  /\ UNCHANGED <<dirVars, reader, boundVars>>

\* createIndexReader
OpenReader ==
  /\ Ready("reader") /\ job # "close"
  /\ Found > 0
  /\ mode' = "reader" /\ after' = "idle" /\ job' = "none"
  /\ infos' = log[Found].infos /\ old' = log[Found].infos
  /\ gen' = Found /\ kept' = Found
  /\ counter' = log[Found].counter
  /\ pending' = FALSE
  /\ deletable' = {}
  /\ UNCHANGED <<dirVars, step, doomed, reader, boundVars>>

\* A commit of the segments S whose new files F are written begins.
Begin(what, S, F) ==
  /\ gen < MaxGen
  /\ step' = "data" /\ job' = what
  /\ infos' = S /\ old' = infos
  /\ disk' = disk \cup F

\* doFlush: the buffered documents become a segment.
Flush ==
  /\ mode = "writer" /\ Ready("idle")
  /\ counter < MaxNames
  /\ Begin("flush", infos \cup {NewSegment(counter)}, {Parts(counter)})
  /\ counter' = counter + 1 /\ pending' = TRUE
  /\ UNCHANGED <<log, pointer, published, mode, after, gen, kept, delVars, reader, boundVars>>

\* mergeMiddle and commitMerge: segments become one, without their deletions.
Merge ==
  /\ mode = "writer" /\ Ready("idle")
  /\ counter < MaxNames
  /\ \E S \in SUBSET infos :
       /\ Cardinality(S) = MergeFactor
       /\ Begin("merge", (infos \ S) \cup {NewSegment(counter)}, {Parts(counter)})
  /\ counter' = counter + 1 /\ pending' = TRUE
  /\ UNCHANGED <<log, pointer, published, mode, after, gen, kept, delVars, reader, boundVars>>

\* The segment just flushed or merged is packed into its .cfs, and committed again.
Compound ==
  /\ mode = "writer" /\ Ready("compound")
  /\ Begin("compound",
           {[s EXCEPT !.cfs = s.cfs \/ s.name = counter - 1] : s \in infos},
           {Cfs(counter - 1)})
  /\ UNCHANGED <<log, pointer, published, mode, after, gen, kept, counter, pending,
                 delVars, reader, boundVars>>

\* DirectoryIndexReader::doCommit has a deleter of its own, which sweeps first; it
\* throws if segments_N of this reader is not there.
StartDeletions ==
  /\ mode = "reader" /\ Ready("idle")
  /\ infos # {} /\ gen = kept
  /\ doomed' = Sweep(gen) /\ deletable' = {}
  /\ after' = "delete"
  /\ UNCHANGED <<dirVars, memVars, mode, step, job, reader, boundVars>>

\* commitChanges: the deletions of some segments go to new .del files.
WriteDeletions ==
  /\ Ready("delete")
  /\ \E S \in (SUBSET infos) \ {{}} :
       LET del == {[s EXCEPT !.del = s.del + 1] : s \in S}
       IN  Begin("delete", (infos \ S) \cup del, {Del(s.name, s.del) : s \in del})
  /\ UNCHANGED <<log, pointer, published, mode, after, gen, kept, counter, pending,
                 delVars, reader, boundVars>>

\* closeInternal: to delete, to continue with a new writer (IndexModifier::flush)
\* or for good.  Names taken and not committed make it write a commit.
CloseWriter(next) ==
  /\ mode = "writer" /\ Ready("idle")
  /\ after' = next
  /\ \/ /\ pending
        /\ Begin("close", infos, {})
        /\ UNCHANGED delVars
     \/ /\ ~pending
        /\ job' = "none"
        /\ doomed' = deletable /\ deletable' = {}
        /\ UNCHANGED <<disk, step, infos, old>>
  /\ UNCHANGED <<log, pointer, published, mode, gen, kept, counter, pending, reader, boundVars>>

\* ... and deleter->close() after that commit.
FinishClose ==
  /\ job = "close" /\ step = "clean" /\ doomed = {}
  /\ after \in {"reader", "writer", "off"}
  /\ job' = "none"
  /\ doomed' = deletable /\ deletable' = {}
  /\ UNCHANGED <<dirVars, memVars, mode, step, after, reader, boundVars>>

\* The reader is closed to write again, or for good.
CloseReader(next) ==
  /\ mode = "reader" /\ Ready("idle") /\ gen = kept
  /\ after' = next
  /\ UNCHANGED <<dirVars, memVars, delVars, mode, step, job, reader, boundVars>>

TurnOff ==
  /\ Ready("off") /\ job # "close" /\ mode # "off"
  /\ mode' = "off"
  /\ UNCHANGED <<dirVars, memVars, delVars, step, after, job, reader, boundVars>>

-----------------------------------------------------------------------------
(* SegmentInfos::write                                                      *)

\* A file left over under the new name that a search has open on Windows.
Blocked == Windows /\ Segments(gen + 1) \in disk /\ Held(Segments(gen + 1))

CreateSegments ==
  /\ step = "data" /\ ~Blocked
  /\ gen' = gen + 1
  /\ disk' = disk \cup {Segments(gen + 1)}
  /\ step' = "segments"
  /\ UNCHANGED <<log, pointer, published, mode, after, job, infos, old, kept, counter,
                 pending, delVars, reader, boundVars>>

CompleteSegments ==
  /\ step = "segments"
  /\ log' = [log EXCEPT ![gen] = [infos |-> infos, counter |-> counter]]
  /\ published' = gen
  /\ step' = "pointer"
  /\ UNCHANGED <<disk, pointer, mode, after, job, memVars, delVars, reader, boundVars>>

\* FSIndexOutput::close ignores the error when the rest of the buffer, all of a small
\* segments_N, does not fit on the disk: write goes on as if it were there.
TruncateSegments ==
  /\ step = "segments"
  /\ lost < MaxLost /\ lost' = lost + 1
  /\ log' = [log EXCEPT ![gen] = [infos |-> infos, counter |-> -1]]
  /\ step' = "pointer"
  /\ UNCHANGED <<disk, pointer, published, mode, after, job, memVars, delVars, reader,
                 crashes, failures>>

\* createOutput(segments.gen) unlinks the file before it creates it.
UnlinkPointer ==
  /\ step = "pointer"
  /\ pointer' = -1 /\ step' = "create"
  /\ UNCHANGED <<disk, log, published, mode, after, job, memVars, delVars, reader, boundVars>>

CreatePointer ==
  /\ step = "create"
  /\ pointer' = 0 /\ step' = "fill"
  /\ UNCHANGED <<disk, log, published, mode, after, job, memVars, delVars, reader, boundVars>>

FillPointer ==
  /\ step = "fill"
  /\ pointer' = gen
  /\ Checkpoint
  /\ UNCHANGED <<disk, log, published, mode, job, infos, old, gen, counter, reader, boundVars>>

\* An I/O error on segments.gen is swallowed.
SkipPointer ==
  /\ step \in {"pointer", "create", "fill"}
  /\ failures < MaxFailures /\ failures' = failures + 1
  /\ Checkpoint
  /\ UNCHANGED <<dirVars, mode, job, infos, old, gen, counter, reader, crashes, lost>>

\* An I/O error on segments_N: generation has advanced already, SegmentInfos goes
\* back to its clone, the partial file and the new files of the commit are removed.
FailCommit ==
  /\ step \in {"data", "segments"}
  /\ IF step = "data" /\ Blocked THEN UNCHANGED failures
     ELSE failures < MaxFailures /\ failures' = failures + 1
  /\ LET failed == IF step = "data" THEN gen + 1 ELSE gen
     IN /\ gen' = failed
        /\ doomed' = {Segments(failed)}
                       \cup CASE job = "flush"  -> deletable \cup (DataFiles(infos) \ DataFiles(old))
                              [] job = "delete" -> Sweep(kept)
                              [] OTHER          -> DataFiles(infos) \ DataFiles(old)
  /\ deletable' = IF job = "flush" THEN {} ELSE deletable
  /\ infos' = old
  /\ step' = "clean"
  /\ after' = CASE job = "create"              -> "off"
                [] job \in {"close", "delete"} -> "broken"
                [] OTHER                       -> "idle"
  /\ UNCHANGED <<dirVars, mode, job, old, kept, counter, pending, reader, crashes, lost>>

-----------------------------------------------------------------------------
(* The searches: IndexReader::open, FindSegmentsFile::doRun                 *)

Idle == [at |-> "idle", from |-> 0, listed |-> -1, gen |-> -1, retry |-> FALSE,
         ahead |-> 0, target |-> 0, todo |-> {}, held |-> {}]

BeginOpening(r) ==
  /\ reader[r].at = "idle"
  /\ reader' = [reader EXCEPT ![r] = [Idle EXCEPT !.at = "list", !.from = published]]
  /\ UNCHANGED <<dirVars, memVars, workVars, delVars, boundVars>>

\* mutant: the last generation is forgotten, so that no error is final
TryForever(x, g) ==
  [x EXCEPT !.at = "try", !.gen = g, !.target = g, !.listed = -1]

\* mutant: the first error is final
TryOnce(x, g) ==
  IF x.gen = g THEN [x EXCEPT !.at = "failed"]
  ELSE [x EXCEPT !.at = "try", !.gen = g, !.target = g, !.retry = TRUE, !.listed = -1]

\* The part of the loop that follows the choice of generation g: look ahead,
\* give up, or try segments_g.
Try(x, g) ==
  LET look  == x.ahead > 0 \/ (g = x.gen /\ x.retry)
      more  == look /\ x.ahead < Lookahead
      next  == IF more THEN g + 1 ELSE g
  IN  IF next = x.gen /\ x.retry
      THEN [x EXCEPT !.at = "failed"]
      ELSE [x EXCEPT !.at = "try", !.gen = next, !.target = next,
                     !.retry = (next = x.gen), !.listed = -1,
                     !.ahead = IF more THEN @ + 1 ELSE @]

\* mutant: without segments_(gen-1)
MissedAgain(x) ==
  LET y == [x EXCEPT !.todo = {}, !.held = {}]
  IN  IF x.ahead = 0 THEN [y EXCEPT !.at = "list"] ELSE Try(y, x.gen)

\* What follows when segments_target, or a file it names, could not be read:
\* segments_(gen-1) if this was the first try of gen and it exists, else again.
Missed(x) ==
  LET y == [x EXCEPT !.todo = {}, !.held = {}]
  IN  IF x.target = x.gen /\ ~x.retry /\ x.gen > 1 /\ Segments(x.gen - 1) \in disk
      THEN [y EXCEPT !.at = "try", !.target = x.gen - 1]
      ELSE IF x.ahead = 0 THEN [y EXCEPT !.at = "list"] ELSE Try(y, x.gen)

ListFiles(r) ==
  /\ reader[r].at = "list"
  /\ reader' = [reader EXCEPT ![r].at = "pointer", ![r].listed = Listed]
  /\ UNCHANGED <<dirVars, memVars, workVars, delVars, boundVars>>

ReadPointer(r) ==
  LET x == reader[r]
      g == IF x.listed > Pointed THEN x.listed ELSE Pointed
  IN  /\ x.at = "pointer"
      /\ reader' = [reader EXCEPT ![r] = IF g = -1 THEN [x EXCEPT !.at = "failed"]
                                         ELSE Try(x, g)]
      /\ UNCHANGED <<dirVars, memVars, workVars, delVars, boundVars>>

OpenSegments(r) ==
  LET x == reader[r]
  IN  /\ x.at = "try"
      /\ reader' = [reader EXCEPT ![r] =
                      IF Segments(x.target) \in disk
                      THEN [x EXCEPT !.at = "read", !.held = {Segments(x.target)}]
                      ELSE Missed(x)]
      /\ UNCHANGED <<dirVars, memVars, workVars, delVars, boundVars>>

\* All files are open: the search has its readers.
Got(x) == IF x.todo = {}
          THEN [Idle EXCEPT !.at = "open", !.target = x.target, !.held = x.held]
          ELSE [x EXCEPT !.at = "data"]

ReadSegments(r) ==
  LET x == reader[r]
  IN  /\ x.at = "read"
      /\ reader' = [reader EXCEPT ![r] =
                      IF Complete(x.target)
                      THEN Got([x EXCEPT !.held = {}, !.todo = DataFiles(log[x.target].infos)])
                      ELSE Missed(x)]
      /\ UNCHANGED <<dirVars, memVars, workVars, delVars, boundVars>>

\* mutant: a file that is gone counts as open
OpenDataSkipping(r) ==
  LET x == reader[r]
  IN  /\ x.at = "data"
      /\ \E f \in x.todo :
           reader' = [reader EXCEPT ![r] =
                        Got([x EXCEPT !.todo = @ \ {f}, !.held = (@ \cup {f}) \cap disk])]
      /\ UNCHANGED <<dirVars, memVars, workVars, delVars, boundVars>>

OpenData(r) ==
  LET x == reader[r]
  IN  /\ x.at = "data"
      /\ \E f \in x.todo :
           reader' = [reader EXCEPT ![r] =
                        IF f \in disk
                        THEN Got([x EXCEPT !.todo = @ \ {f}, !.held = @ \cup {f}])
                        ELSE Missed(x)]
      /\ UNCHANGED <<dirVars, memVars, workVars, delVars, boundVars>>

\* The search is over, or its error was shown.
CloseSearch(r) ==
  /\ reader[r].at \in {"open", "failed"}
  /\ reader' = [reader EXCEPT ![r] = Idle]
  /\ UNCHANGED <<dirVars, memVars, workVars, delVars, boundVars>>

-----------------------------------------------------------------------------
(* The program                                                              *)

\* The program ends, at any time: what is on the disk is left.
Stop ==
  /\ mode' = "off" /\ step' = "clean" /\ after' = "off" /\ job' = "none"
  /\ infos' = {} /\ old' = {} /\ gen' = 0 /\ kept' = 0 /\ counter' = 0 /\ pending' = FALSE
  /\ doomed' = {} /\ deletable' = {}
  /\ reader' = [r \in Readers |-> Idle]
  /\ UNCHANGED <<dirVars, failures, lost>>

Crash == crashes < MaxCrashes /\ crashes' = crashes + 1 /\ Stop

\* A modifier that only throws any more: the user ends the program.
GiveUp == Ready("broken") /\ UNCHANGED crashes /\ Stop

Init ==
  /\ disk = {} /\ pointer = -1 /\ published = 0
  /\ log = [g \in Gens |-> NoCommit]
  /\ mode = "off" /\ step = "clean" /\ after = "off" /\ job = "none"
  /\ infos = {} /\ old = {} /\ gen = 0 /\ kept = 0 /\ counter = 0 /\ pending = FALSE
  /\ doomed = {} /\ deletable = {}
  /\ reader = [r \in Readers |-> Idle]
  /\ crashes = 0 /\ failures = 0 /\ lost = 0

Write == \/ CreateSegments \/ CompleteSegments \/ TruncateSegments \/ UnlinkPointer
         \/ CreatePointer \/ FillPointer \/ SkipPointer \/ FailCommit

Modify == \/ CreateIndex \/ OpenWriter \/ OpenReader \/ Flush \/ Merge \/ Compound
          \/ StartDeletions \/ WriteDeletions
          \/ \E next \in {"reader", "writer", "off"} : CloseWriter(next)
          \/ \E next \in {"writer", "off"} : CloseReader(next)
          \/ FinishClose \/ TurnOff

Open(r) == \/ ListFiles(r) \/ ReadPointer(r) \/ OpenSegments(r) \/ ReadSegments(r)
           \/ OpenData(r)

Search(r) == BeginOpening(r) \/ Open(r) \/ CloseSearch(r)

Next == \/ Write \/ Modify \/ DeleteFile
        \/ \E r \in Readers : Search(r)
        \/ Crash \/ GiveUp

Spec == Init /\ [][Next]_vars

\* A search goes on until it has its readers or an error.
FairSpec == Spec /\ \A r \in Readers : WF_vars(Open(r))

-----------------------------------------------------------------------------
(* Properties                                                               *)

Files == [kind : {"parts", "cfs", "del", "segments"}, of : Nat, gen : Nat]
Segment == [name : Names, del : Nat, cfs : BOOLEAN]
Contents == [infos : SUBSET Segment, counter : -1..MaxNames]
SearchState == [at : {"idle", "list", "pointer", "try", "read", "data", "open", "failed"},
                from : 0..MaxGen, listed : Int, gen : Int, retry : BOOLEAN,
                ahead : 0..Lookahead, target : Int, todo : SUBSET Files, held : SUBSET Files]

\* Every variable has its type (SegmentInfos, the deleter and FindSegmentsFile).
TypeOK ==
  /\ disk \subseteq Files /\ doomed \subseteq Files /\ deletable \subseteq Files
  /\ pointer \in -1..MaxGen /\ published \in 0..MaxGen
  /\ log \in [Gens -> Contents]
  /\ mode \in {"off", "writer", "reader"}
  /\ step \in {"clean", "data", "segments", "pointer", "create", "fill"}
  /\ after \in {"idle", "compound", "delete", "reader", "writer", "off", "broken"}
  /\ job \in {"none", "create", "flush", "merge", "compound", "delete", "close"}
  /\ infos \subseteq Segment /\ old \subseteq Segment
  /\ gen \in 0..MaxGen /\ kept \in 0..MaxGen /\ counter \in 0..MaxNames
  /\ pending \in BOOLEAN
  /\ reader \in [Readers -> SearchState]
  /\ crashes \in 0..MaxCrashes /\ failures \in 0..MaxFailures /\ lost \in 0..MaxLost

\* No error was lost so far and, where open files cannot be deleted, the program has
\* neither crashed nor met an error.
Undisturbed == lost = 0 /\ (Windows => crashes = 0 /\ failures = 0)

\* The newest commit can be read at every moment, whatever the deleter removes
\* and wherever the program ends: segments_N and each file it names are there.
CommitReadable == published > 0 => Complete(published) /\ FilesOf(published) \subseteq disk

\* A program that starts now finds the newest commit, unless an I/O error has struck
\* (FindSegmentsFile on what IndexFileDeleter and SegmentInfos::write have left).
RestartFindsLastCommit == failures = 0 => Found = published

\* ... and after one it finds the newest commit or throws, but never goes back to an
\* earlier one that is still on the disk.
RestartNeverGoesBack == Found \in {0, published}

\* A search is refused only if the index had no commit when it began or an I/O error
\* has struck.
OpenSucceeds == failures = 0 => \A r \in Readers : reader[r].at = "failed" => reader[r].from = 0

\* What a search sees is one commit: the files it has open are those of segments_N,
\* whatever was written and removed while it opened them.
SeesOneCommit == \A r \in Readers : reader[r].at = "open" =>
  Complete(reader[r].target) /\ reader[r].held = DataFiles(log[reader[r].target].infos)

\* A writer at rest has left nothing behind but the files it could not delete,
\* which it remembers.
IdleWriterIsClean ==
  mode = "writer" /\ Ready("idle") => disk \subseteq FilesOf(kept) \cup deletable

\* What the deleter could not remove and will try again belongs to no commit that is
\* found, whatever was written since (IndexFileDeleter::deletable).
RememberedAreDead ==
  Undisturbed /\ published > 0 => deletable \cap FilesOf(published) = {}

\* A commit never takes all documents out of an index that had some: the modifier
\* deletes documents by .del files, and segments.gen is "only one of the retry
\* fallbacks" (SegmentInfos.cpp).
RestartKeepsIndex ==
  [][published' # published /\ published > 0
       => (log[published].infos # {} => log'[published'].infos # {})]_vars

\* The searches see commits, whole ones, and new enough ones: with files that
\* cannot be deleted, one older than the newest at most.
Index == INSTANCE CommittedIndex WITH
  Lag     <- IF Windows THEN 1 ELSE 0,
  version <- published,
  struck  <- failures > 0,
  broken  <- ~Undisturbed,
  files   <- [g \in Gens |-> DataFiles(log[g].infos)],
  opening <- [r \in Readers |-> IF reader[r].at \in {"idle", "open", "failed"} THEN -1
                                ELSE reader[r].from],
  view    <- [r \in Readers |-> IF reader[r].at = "open"
                                THEN [commit |-> reader[r].target, files |-> reader[r].held]
                                ELSE [commit |-> 0, files |-> {}]]

ImplementsCommittedIndex == Index!Spec

\* Every opening ends, with readers or with an error.
OpeningEnds == \A r \in Readers :
  reader[r].at = "list" ~> reader[r].at \in {"idle", "open", "failed"}

=============================================================================
