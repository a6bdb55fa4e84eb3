------------------------- MODULE IndexRestProofs ------------------------
(***************************************************************************)
(* What the writer of IndexCommit leaves behind, for every number of       *)
(* commits, segments, crashes and I/O errors, noticed or not, and whether  *)
(* or not open files can be deleted.                                       *)
(***************************************************************************)
EXTENDS IndexCommitProofs

-----------------------------------------------------------------------------
(* The inductive invariant                                                  *)

\* The writer's generation is not behind the commit it keeps, and is ahead of it
\* once segments_N is being written.
KeptBehind == kept <= gen /\ (step = "segments" => kept < gen)

\* Between commits: the files of the commit that is kept, and those still to be removed.
RestFiles ==
  step = "clean" /\ after # "off" =>
    infos = log[kept].infos /\ disk \subseteq FilesOf(kept) \cup doomed \cup deletable

\* During a commit the files of the new one as well, with the segments_N begun.
CommitFiles ==
  step # "clean" /\ job # "create" =>
    /\ old = log[kept].infos
    /\ disk \subseteq FilesOf(kept) \cup DataFiles(infos) \cup deletable
                        \cup (IF step = "data" THEN {} ELSE {Segments(gen)})

\* The segment to be packed is one of the commit.
LastSegment ==
  (step # "clean" /\ job \in {"flush", "merge"}) \/ (step = "clean" /\ after = "compound") =>
    \E s \in infos : s.name = counter - 1

Tidy ==
  mode = "writer" =>
    /\ KeptBehind /\ RestFiles /\ CommitFiles /\ LastSegment
    /\ step # "clean" => job \in {"create", "flush", "merge", "compound", "close"}
    /\ step \in {"pointer", "create", "fill"} => log[gen].infos = infos

-----------------------------------------------------------------------------
(* The steps of the writer                                                  *)

\* A commit of the writer at rest begins with the files it has and the new ones, which
\* are files of its segments.
LEMMA TidyBegin ==
  ASSUME TypeInv, Tidy, mode = "writer", step = "clean", after # "off", doomed = {},
         NEW S, NEW F, F \subseteq DataFiles(S),
         NEW what \in {"flush", "merge", "compound", "close"}, Begin(what, S, F),
         what \in {"flush", "merge"} => \E s \in S : s.name = counter' - 1,
         UNCHANGED <<log, gen, kept, deletable>>
  PROVE  Tidy'
<1>1. infos = log[kept].infos /\ disk \subseteq FilesOf(kept) \cup deletable /\ kept <= gen
  BY DEF Tidy, KeptBehind, RestFiles
<1>2. /\ step' = "data" /\ job' = what /\ infos' = S /\ old' = infos /\ disk' = disk \cup F
  BY DEF Begin
<1>3. FilesOf(kept)' = FilesOf(kept) /\ log'[kept'] = log[kept]
  BY DEF FilesOf
<1>4. KeptBehind' /\ RestFiles'
  BY <1>1, <1>2 DEF KeptBehind, RestFiles
<1>5. CommitFiles'
  BY <1>1, <1>2, <1>3 DEF CommitFiles
<1>6. LastSegment'
  BY <1>2 DEF LastSegment
<1> QED BY <1>2, <1>4, <1>5, <1>6 DEF Tidy

LEMMA TidyModify ==
  ASSUME TypeInv, Tidy, Modify
  PROVE  Tidy'
<1> USE DEF dirVars, memVars, workVars, delVars, boundVars, Ready
<1>t. TypeOK
  BY DEF TypeInv
<1>n. counter \in Nat /\ kept \in Nat /\ gen \in Nat
  BY <1>t, BoundAssumption DEF TypeOK
<1>1. CASE CreateIndex
  <2>1. kept' <= gen' /\ step' = "data" /\ job' = "create"
    BY <1>1, <1>t, FoundType, BoundAssumption DEF CreateIndex, LastRead
  <2> QED BY <2>1 DEF Tidy, KeptBehind, RestFiles, CommitFiles, LastSegment
<1>2. CASE OpenWriter
  <2>1. /\ step' = "clean" /\ after' = "idle" /\ infos' = log'[kept'].infos
        /\ gen' = kept' /\ kept' \in Nat
    BY <1>2, <1>t, FoundType, BoundAssumption DEF OpenWriter
  <2>2. FilesOf(kept)' = FilesOf(Found) /\ disk' = disk /\ doomed' = disk \ FilesOf(Found)
    BY <1>2 DEF OpenWriter, Sweep, FilesOf
  <2> QED BY <2>1, <2>2 DEF Tidy, KeptBehind, RestFiles, CommitFiles, LastSegment
<1>3. CASE Flush
  <2> DEFINE S == infos \cup {NewSegment(counter)}
  <2>1. NewSegment(counter) \in S /\ NewSegment(counter).name = counter
        /\ NewSegment(counter).cfs = FALSE
    BY DEF NewSegment
  <2>2. {Parts(counter)} \subseteq DataFiles(S)
    <3> HIDE DEF S
    <3> QED BY <2>1 DEF DataFiles
  <2>3. counter' - 1 = counter
    BY <1>3, <1>n DEF Flush
  <2>4. /\ Begin("flush", S, {Parts(counter)}) /\ UNCHANGED <<log, gen, kept, deletable>>
        /\ mode = "writer" /\ step = "clean" /\ after # "off" /\ doomed = {}
    BY <1>3 DEF Flush
  <2> HIDE DEF S
  <2> QED BY <2>1, <2>2, <2>3, <2>4, TidyBegin
<1>4. CASE Merge
  <2>1. PICK T \in SUBSET infos :
          Begin("merge", (infos \ T) \cup {NewSegment(counter)}, {Parts(counter)})
    BY <1>4 DEF Merge
  <2> DEFINE S == (infos \ T) \cup {NewSegment(counter)}
  <2>2. NewSegment(counter) \in S /\ NewSegment(counter).name = counter
        /\ NewSegment(counter).cfs = FALSE
    BY DEF NewSegment
  <2>3. {Parts(counter)} \subseteq DataFiles(S)
    <3> HIDE DEF S
    <3> QED BY <2>2 DEF DataFiles
  <2>4. counter' - 1 = counter
    BY <1>4, <1>n DEF Merge
  <2>5. /\ Begin("merge", S, {Parts(counter)}) /\ UNCHANGED <<log, gen, kept, deletable>>
        /\ mode = "writer" /\ step = "clean" /\ after # "off" /\ doomed = {}
    BY <1>4, <2>1 DEF Merge
  <2> HIDE DEF S
  <2> QED BY <2>2, <2>3, <2>4, <2>5, TidyBegin
<1>5. CASE Compound
  <2> DEFINE S == {[s EXCEPT !.cfs = s.cfs \/ s.name = counter - 1] : s \in infos}
  <2>1. PICK s \in infos : s.name = counter - 1
    BY <1>5 DEF Compound, Tidy, LastSegment
  <2>2. s \in Segment
    BY <1>t, <2>1 DEF TypeOK
  <2> DEFINE p == [s EXCEPT !.cfs = s.cfs \/ s.name = counter - 1]
  <2>3. p \in S /\ p.name = counter - 1 /\ p.cfs
    BY <2>1, <2>2 DEF Segment
  <2>4. {Cfs(counter - 1)} \subseteq DataFiles(S)
    <3> HIDE DEF S, p
    <3> QED BY <2>3 DEF DataFiles
  <2>5. /\ Begin("compound", S, {Cfs(counter - 1)}) /\ UNCHANGED <<log, gen, kept, deletable>>
        /\ mode = "writer" /\ step = "clean" /\ after # "off" /\ doomed = {}
    BY <1>5 DEF Compound
  <2> HIDE DEF S, p
  <2> QED BY <2>4, <2>5, TidyBegin
<1>6. ASSUME NEW next \in {"reader", "writer", "off"}, CloseWriter(next)
      PROVE  Tidy'
  <2>1. mode = "writer" /\ step = "clean" /\ after = "idle" /\ doomed = {}
        /\ UNCHANGED <<log, gen, kept, mode>>
    BY <1>6 DEF CloseWriter
  <2>2. CASE pending
    <3>1. Begin("close", infos, {}) /\ UNCHANGED deletable
      BY <1>6, <2>2 DEF CloseWriter
    <3> QED BY <2>1, <3>1, TidyBegin
  <2>3. CASE ~pending
    <3>1. /\ doomed' = deletable /\ deletable' = {} /\ UNCHANGED <<disk, step, infos, old>>
          /\ after' \in {"reader", "writer", "off"}
      BY <1>6, <2>3 DEF CloseWriter
    <3>2. FilesOf(kept)' = FilesOf(kept)
      BY <2>1 DEF FilesOf
    <3> QED BY <2>1, <3>1, <3>2 DEF Tidy, KeptBehind, RestFiles, CommitFiles, LastSegment
  <2> QED BY <1>t, <2>2, <2>3 DEF TypeOK
<1>7. CASE FinishClose
  <2>1. /\ step = "clean" /\ doomed = {} /\ doomed' = deletable /\ deletable' = {}
        /\ UNCHANGED <<log, disk, infos, old, gen, kept, counter, mode, step, after>>
        /\ after \in {"reader", "writer", "off"}
    BY <1>7 DEF FinishClose
  <2>2. FilesOf(kept)' = FilesOf(kept)
    BY <2>1 DEF FilesOf
  <2> QED BY <2>1, <2>2 DEF Tidy, KeptBehind, RestFiles, CommitFiles, LastSegment
<1>8. OpenReader \/ StartDeletions \/ WriteDeletions \/ TurnOff => mode' # "writer"
  BY DEF OpenReader, StartDeletions, WriteDeletions, TurnOff, TypeInv, Room
<1>9. \A next \in {"writer", "off"} : CloseReader(next) => mode' # "writer"
  BY DEF CloseReader
<1>10. mode' # "writer" => Tidy'
  BY DEF Tidy
<1> QED BY <1>1, <1>2, <1>3, <1>4, <1>5, <1>6, <1>7, <1>8, <1>9, <1>10 DEF Modify

\* With segments.gen written, or given up, the former commit's own files and the pending
\* ones are on the list.
LEMMA TidyCheckpoint ==
  ASSUME TypeInv, Tidy, mode = "writer", step \in {"pointer", "create", "fill"}, Checkpoint,
         UNCHANGED <<disk, log, mode, infos, gen, counter>>
  PROVE  Tidy'
<1>t. gen \in Nat
  BY BoundAssumption DEF TypeInv, TypeOK
<1>1. log[gen].infos = infos /\ job \in {"create", "flush", "merge", "compound", "close"}
  BY DEF Tidy
<1>2. kept' = gen /\ gen' = gen /\ step' = "clean" /\ log' = log /\ disk' = disk /\ infos' = infos
  BY DEF Checkpoint
<1>3. FilesOf(kept)' = FilesOf(gen) /\ FilesOf(gen) = {Segments(gen)} \cup DataFiles(infos)
  BY <1>1, <1>2 DEF FilesOf
<1>4. disk \subseteq FilesOf(gen) \cup doomed'
  <2>1. CASE job = "create"
    BY <2>1 DEF Checkpoint, Sweep
  <2>2. CASE job # "create"
    <3>1. disk \subseteq FilesOf(kept) \cup DataFiles(infos) \cup deletable \cup {Segments(gen)}
      BY <2>2 DEF Tidy, CommitFiles
    <3>2. doomed' = deletable \cup (FilesOf(kept) \ FilesOf(gen))
      BY <2>2 DEF Checkpoint
    <3> QED BY <1>3, <3>1, <3>2
  <2> QED BY <2>1, <2>2
<1>5. after' = "compound" => \E s \in infos : s.name = counter - 1
  <2>1. job = "close" => after # "compound"
    BY DEF TypeInv, Room
  <2>2. job \in {"flush", "merge"} => \E s \in infos : s.name = counter - 1
    BY DEF Tidy, LastSegment
  <2> QED BY <1>1, <2>1, <2>2 DEF Checkpoint
<1>6. KeptBehind' /\ CommitFiles'
  BY <1>t, <1>2 DEF KeptBehind, CommitFiles
<1>7. RestFiles'
  BY <1>1, <1>2, <1>3, <1>4 DEF RestFiles
<1>8. LastSegment'
  BY <1>2, <1>5 DEF LastSegment
<1> QED BY <1>2, <1>6, <1>7, <1>8 DEF Tidy

\* A commit that fails takes its files, and the segments_N it began, with it.
LEMMA TidyFail ==
  ASSUME TypeInv, Tidy, mode = "writer", FailCommit
  PROVE  Tidy'
<1> USE DEF dirVars
<1> DEFINE failed == IF step = "data" THEN gen + 1 ELSE gen
<1>t. gen \in Nat /\ kept \in Nat /\ kept <= gen
  BY BoundAssumption DEF TypeInv, TypeOK, Tidy, KeptBehind
<1>1. /\ step \in {"data", "segments"} /\ step' = "clean" /\ infos' = old /\ gen' = failed
      /\ UNCHANGED <<disk, log, mode, kept>>
      /\ after' # "compound"
  BY DEF FailCommit
<1>2. KeptBehind' /\ CommitFiles' /\ LastSegment'
  BY <1>t, <1>1 DEF KeptBehind, CommitFiles, LastSegment
<1>3. CASE job = "create"
  BY <1>1, <1>2, <1>3 DEF FailCommit, Tidy, RestFiles
<1>4. CASE job # "create"
  <2>1. job \in {"flush", "merge", "compound", "close"}
    BY <1>1, <1>4 DEF Tidy
  <2>2. old = log[kept].infos /\ DataFiles(old) \subseteq FilesOf(kept)
    BY <1>1, <1>4 DEF Tidy, CommitFiles, FilesOf
  <2>3. disk \subseteq FilesOf(kept) \cup DataFiles(infos) \cup deletable \cup {Segments(failed)}
    BY <1>1, <1>4 DEF Tidy, CommitFiles
  <2>4. /\ {Segments(failed)} \cup (DataFiles(infos) \ DataFiles(old)) \subseteq doomed'
        /\ deletable \subseteq doomed' \cup deletable'
    <3>1. CASE job = "flush"
      BY <3>1 DEF FailCommit
    <3>2. CASE job # "flush"
      BY <2>1, <3>2 DEF FailCommit
    <3> QED BY <3>1, <3>2
  <2>5. FilesOf(kept)' = FilesOf(kept)
    BY <1>1 DEF FilesOf
  <2>6. disk \subseteq FilesOf(kept) \cup doomed' \cup deletable'
    <3> HIDE DEF failed
    <3> QED BY <2>2, <2>3, <2>4
  <2>7. RestFiles'
    BY <1>1, <2>2, <2>5, <2>6 DEF RestFiles
  <2> QED BY <1>1, <1>2, <2>7 DEF Tidy
<1> QED BY <1>3, <1>4

LEMMA TidyWrite ==
  ASSUME TypeInv, Tidy, Write
  PROVE  Tidy'
<1> USE DEF dirVars, memVars, workVars, delVars, boundVars
<1>m. mode' = mode
  BY DEF Write, CreateSegments, CompleteSegments, TruncateSegments, UnlinkPointer,
         CreatePointer, FillPointer, SkipPointer, FailCommit
<1> SUFFICES ASSUME mode = "writer" PROVE Tidy'
  BY <1>m DEF Tidy
<1>t. gen \in Nat /\ kept \in Nat /\ gen <= MaxGen /\ kept <= gen /\ log \in [Gens -> Contents]
  BY BoundAssumption DEF TypeInv, TypeOK, Tidy, KeptBehind
<1>1. CASE CreateSegments
  <2>1. /\ step = "data" /\ step' = "segments" /\ gen' = gen + 1
        /\ disk' = disk \cup {Segments(gen + 1)}
        /\ UNCHANGED <<log, job, infos, old, kept, counter, deletable, after>>
    BY <1>1 DEF CreateSegments
  <2>2. FilesOf(kept)' = FilesOf(kept) /\ Segments(gen)' = Segments(gen + 1)
    BY <2>1 DEF FilesOf
  <2>3. KeptBehind' /\ RestFiles' /\ LastSegment'
    BY <1>t, <2>1 DEF Tidy, KeptBehind, RestFiles, LastSegment
  <2>4. CommitFiles'
    BY <2>1, <2>2 DEF Tidy, CommitFiles
  <2> QED BY <2>1, <2>3, <2>4 DEF Tidy
<1>2. CASE CompleteSegments \/ TruncateSegments
  <2>1. /\ step = "segments" /\ step' = "pointer"
        /\ UNCHANGED <<disk, job, infos, old, gen, kept, counter, deletable, after>>
        /\ \E c : log' = [log EXCEPT ![gen] = [infos |-> infos, counter |-> c]]
    BY <1>2 DEF CompleteSegments, TruncateSegments
  <2>2. PICK c : log' = [log EXCEPT ![gen] = [infos |-> infos, counter |-> c]]
    BY <2>1
  <2>3. kept < gen /\ gen \in Gens
    BY <1>t, <2>1, BoundAssumption DEF Tidy, KeptBehind, TypeInv, Room, Gens
  <2>4. log'[gen].infos = infos
    BY <1>t, <2>2, <2>3
  <2>5. CASE kept > 0
    <3>1. kept \in Gens /\ kept # gen
      BY <1>t, <2>3, <2>5, BoundAssumption DEF Gens
    <3>2. log'[kept] = log[kept]
      BY <1>t, <2>2, <3>1
    <3>3. FilesOf(kept)' = FilesOf(kept)
      BY <2>1, <3>2 DEF FilesOf
    <3>4. CommitFiles'
      BY <2>1, <3>2, <3>3 DEF Tidy, CommitFiles
    <3>5. KeptBehind' /\ RestFiles' /\ LastSegment'
      BY <2>1, <1>t DEF Tidy, KeptBehind, RestFiles, LastSegment
    <3> QED BY <2>1, <2>4, <3>4, <3>5 DEF Tidy
  <2>6. CASE kept = 0
    <3>1. job = "create"
      BY <2>1, <2>6 DEF TypeInv, Room
    <3> QED BY <1>t, <2>1, <2>4, <3>1 DEF Tidy, KeptBehind, RestFiles, CommitFiles, LastSegment
  <2> QED BY <1>t, <2>5, <2>6
<1>3. CASE UnlinkPointer \/ CreatePointer
  <2>1. /\ step \in {"pointer", "create"} /\ step' \in {"create", "fill"}
        /\ UNCHANGED <<disk, log, job, infos, old, gen, kept, counter, deletable, after>>
    BY <1>3 DEF UnlinkPointer, CreatePointer
  <2>2. FilesOf(kept)' = FilesOf(kept) /\ Segments(gen)' = Segments(gen)
    BY <2>1 DEF FilesOf
  <2>3. KeptBehind' /\ RestFiles' /\ LastSegment'
    BY <2>1 DEF Tidy, KeptBehind, RestFiles, LastSegment
  <2>4. CommitFiles'
    BY <2>1, <2>2 DEF Tidy, CommitFiles
  <2> QED BY <2>1, <2>3, <2>4 DEF Tidy
<1>4. CASE FillPointer \/ SkipPointer
  <2>1. /\ step \in {"pointer", "create", "fill"} /\ Checkpoint
        /\ UNCHANGED <<disk, log, mode, infos, gen, counter>>
    BY <1>4 DEF FillPointer, SkipPointer
  <2> QED BY <2>1, TidyCheckpoint
<1>5. CASE FailCommit
  BY <1>5, TidyFail
<1> QED BY <1>1, <1>2, <1>3, <1>4, <1>5 DEF Write

-----------------------------------------------------------------------------
(* The theorem                                                              *)

LEMMA TidyStep == TypeInv /\ Tidy /\ [Next]_vars => Tidy'
<1> SUFFICES ASSUME TypeInv, Tidy, [Next]_vars PROVE Tidy'
  OBVIOUS
<1> USE DEF dirVars, memVars, workVars, delVars, boundVars
<1>1. CASE DeleteFile
  <2>1. PICK f \in doomed :
          /\ doomed' = doomed \ {f}
          /\ \/ deletable' = deletable \cup {f} /\ disk' = disk
             \/ disk' = disk \ {f} /\ deletable' = deletable
    BY <1>1 DEF DeleteFile
  <2>2. step = "clean"
        /\ UNCHANGED <<log, mode, step, after, job, infos, old, gen, kept, counter>>
    BY <1>1 DEF DeleteFile
  <2>3. FilesOf(kept)' = FilesOf(kept)
    BY <2>2 DEF FilesOf
  <2>4. mode = "writer" => RestFiles'
    BY <2>1, <2>2, <2>3 DEF Tidy, RestFiles
  <2> QED BY <2>2, <2>4 DEF Tidy, KeptBehind, CommitFiles, LastSegment
<1>2. ASSUME UNCHANGED <<dirVars, memVars, workVars, delVars>> PROVE Tidy'
  <2>1. FilesOf(kept)' = FilesOf(kept)
    BY <1>2 DEF FilesOf
  <2> QED BY <1>2, <2>1 DEF Tidy, KeptBehind, RestFiles, CommitFiles, LastSegment
<1>3. ASSUME NEW r \in Readers, Search(r) PROVE UNCHANGED <<dirVars, memVars, workVars, delVars>>
  BY <1>3 DEF Search, Open, BeginOpening, ListFiles, ReadPointer, OpenSegments,
              ReadSegments, OpenData, CloseSearch
<1>4. CASE Stop
  BY <1>4 DEF Stop, Tidy
<1>5. UNCHANGED vars => UNCHANGED <<dirVars, memVars, workVars, delVars>>
  BY DEF vars
<1> QED BY <1>1, <1>2, <1>3, <1>4, <1>5, TidyModify, TidyWrite DEF Next, Crash, GiveUp

\* A writer at rest has left no file behind but those it could not delete, which it
\* remembers, whatever failed before (IndexFileDeleter::checkpoint, decRef, refresh).
THEOREM WriterIsClean == Spec => []IdleWriterIsClean
<1>1. TypeInv /\ Tidy => IdleWriterIsClean
  BY DEF IdleWriterIsClean, Ready, Tidy, RestFiles
<1>2. Init => TypeInv /\ Tidy
  BY TypeInit DEF Init, Tidy
<1>3. TypeInv /\ Tidy /\ [Next]_vars => (TypeInv /\ Tidy)'
  BY TypeStep, TidyStep
<1> QED BY <1>1, <1>2, <1>3, PTL DEF Spec

=========================================================================
