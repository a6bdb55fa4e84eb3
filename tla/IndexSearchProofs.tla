------------------------ MODULE IndexSearchProofs -----------------------
(***************************************************************************)
(* What the searches beside the writer of IndexCommit get, for every       *)
(* number of searches, commits, segments, ends of the program and reported *)
(* I/O errors: as long as no error has struck every opening succeeds, and  *)
(* the index is the one CommittedIndex promises.  Where open files cannot  *)
(* be deleted this is for a program that neither crashes nor fails.        *)
(***************************************************************************)
EXTENDS IndexCommitProofs

-----------------------------------------------------------------------------
(* The commits on the disk                                                  *)

\* The deleter removes the oldest commit first: while a segments_N is there, the commits
\* from it on are.
OldestFirst == \A h, g \in Gens :
  Complete(h) /\ Complete(g) /\ h <= g /\ Segments(h) \in disk => FilesOf(g) \subseteq disk

OnlyNewest == \A g \in Gens :
  Complete(g) /\ Segments(g) \in disk => g = published \/ Segments(g) \in doomed

\* The deleter keeps the newest commit and is to remove all others.  The writer of a new
\* index that failed is closed and removes what it wrote.
Keeping ==
  /\ mode = "off" => doomed = {} /\ after = "off"
  /\ mode # "off" /\ step = "clean" =>
       \/ kept = published /\ OnlyNewest
       \/ /\ after = "off" /\ job = "create"
          /\ \A f \in doomed : f.kind = "segments" /\ ~Complete(f.gen)
  /\ step \in {"data", "segments"} /\ job # "create" => kept = published /\ OnlyNewest
  /\ step \in {"pointer", "create", "fill"} /\ job # "create" =>
       \A g \in Gens : Complete(g) /\ Segments(g) \in disk => g \in {kept, gen}

Trail == OldestFirst /\ Keeping

\* As long as no commit has failed, no generation between two commits is left out.
NoHoles ==
  /\ \A h, g \in Gens : Complete(h) /\ h <= g /\ g <= published => Complete(g)
  /\ step = "segments" /\ published > 0 => gen = published + 1

SearchInv == /\ NearInv
             /\ ~Windows => Trail
             /\ failures = 0 => NoHoles

-----------------------------------------------------------------------------
(* How far a search has come                                                *)

\* A search that began with a commit there: the generation it has chosen is not older
\* than that commit, and where files can be deleted it falls back to the one before only
\* if that does not take it further back.
Aimed(x) == x.at \notin {"idle", "open", "failed"} /\ x.from > 0 =>
  /\ Complete(x.from)
  /\ x.at = "pointer" => x.from <= x.listed
  /\ x.at \in {"try", "read", "data"} =>
       /\ x.from <= x.gen /\ x.target \in {x.gen, x.gen - 1}
       /\ x.target = x.gen \/ x.from <= x.target \/ Windows \/ ~Complete(x.target)

\* As long as no error has struck it has never looked ahead: when it lists the directory
\* again its generation has been committed, and when it does so the second time, one after
\* it has.
Patient(x) == x.at \notin {"idle", "open"} /\ x.from > 0 =>
  /\ x.at # "failed" /\ x.ahead = 0
  /\ x.at \in {"list", "pointer"} => x.gen <= published
  /\ x.at = "list" /\ x.retry => x.gen < published
  /\ x.at = "pointer" => /\ x.gen <= x.listed
                         /\ x.listed <= published + 1
                         /\ x.retry => x.gen < x.listed
  /\ x.at \in {"try", "read", "data"} =>
       /\ x.gen <= published + 1
       /\ x.retry => x.gen <= published /\ x.target = x.gen

Fresh(x) == Aimed(x) /\ (failures = 0 => Patient(x))

FreshViews == \A r \in Readers : Fresh(reader[r])

-----------------------------------------------------------------------------
(* The commits on the disk, step by step                                    *)

\* Nothing written, nothing removed: the trail of commits is the same.
LEMMA SameTrail ==
  ASSUME OldestFirst, UNCHANGED log,
         \A g \in Gens : Segments(g) \in disk' => Segments(g) \in disk \/ ~Complete(g),
         disk \subseteq disk'
  PROVE  OldestFirst'
BY DEF OldestFirst, Complete, FilesOf

\* Of a directory that is swept only the newest commit stays.
LEMMA SweptKeeping ==
  ASSUME NEW g \in Gens, Segments(g) \in disk
  PROVE  g = published \/ Segments(g) \in Sweep(published)
<1>1. \A f \in DataFiles(log[published].infos) : f # Segments(g)
  BY DataFilesKind DEF Segments
<1>2. Segments(g) = Segments(published) => g = published
  BY DEF Segments
<1> QED BY <1>1, <1>2 DEF Sweep, FilesOf

LEMMA BeginTrail ==
  ASSUME Trail, step = "clean", mode # "off", after # "off", doomed = {},
         NEW S, NEW F, \A f \in F : f.kind # "segments", NEW what \in {"flush", "merge", "compound", "delete", "close"},
         Begin(what, S, F),
         UNCHANGED <<log, published, mode, kept, doomed>>
  PROVE  Trail'
<1>1. \A g : Segments(g) \in disk' => Segments(g) \in disk
  BY DEF Begin, Segments
<1>2. disk \subseteq disk' /\ step' = "data" /\ job' # "create"
  BY DEF Begin
<1>3. OldestFirst'
  BY <1>1, <1>2, SameTrail DEF Trail
<1>4. kept = published /\ OnlyNewest
  BY DEF Trail, Keeping
<1>5. OnlyNewest'
  BY <1>1, <1>4 DEF OnlyNewest, Complete
<1> QED BY <1>2, <1>3, <1>4, <1>5 DEF Trail, Keeping

LEMMA ModifyTrail ==
  ASSUME ~Windows, IInv, Trail, Modify
  PROVE  Trail'
<1> USE DEF dirVars, memVars, workVars, delVars, boundVars, Ready
<1>t. TypeOK /\ deletable = {} /\ OldestFirst /\ Keeping
  BY DEF Trail, IInv, TypeInv, Safe, PendingAreDead
<1>f. Found > 0 => Found = published
  BY FoundIsLast DEF IInv, TypeInv, Safe
<1>0. ASSUME UNCHANGED <<disk, log, published>>
      PROVE  OldestFirst'
  BY <1>0, <1>t, SameTrail
<1>1. CASE CreateIndex
  BY <1>0, <1>1 DEF CreateIndex, Trail, Keeping
<1>2. CASE OpenWriter
  <2>1. OnlyNewest'
    BY <1>2, <1>f, SweptKeeping DEF OpenWriter, OnlyNewest, Complete
  <2> QED BY <1>0, <1>2, <1>f, <2>1 DEF OpenWriter, Trail, Keeping
<1>3. CASE OpenReader
  <2>1. mode # "off"
    BY <1>3, <1>t DEF OpenReader, Keeping
  <2>2. OnlyNewest'
    BY <1>3, <1>t, <2>1 DEF OpenReader, Keeping, OnlyNewest, Complete
  <2> QED BY <1>0, <1>3, <1>f, <2>2 DEF OpenReader, Trail, Keeping
<1>4. CASE Flush
  <2>1. Parts(counter).kind # "segments"
    BY DEF Parts
  <2> QED BY <1>4, <2>1, BeginTrail DEF Flush
<1>5. CASE Merge
  <2>1. Parts(counter).kind # "segments"
    BY DEF Parts
  <2>2. PICK S : Begin("merge", S, {Parts(counter)})
    BY <1>5 DEF Merge
  <2> QED BY <1>5, <2>1, <2>2, BeginTrail DEF Merge
<1>6. CASE Compound
  <2>1. Cfs(counter - 1).kind # "segments"
    BY DEF Cfs
  <2>2. PICK S : Begin("compound", S, {Cfs(counter - 1)})
    BY <1>6 DEF Compound
  <2> QED BY <1>6, <2>1, <2>2, BeginTrail DEF Compound
<1>7. CASE StartDeletions
  <2>1. gen = published /\ kept = published
    BY <1>7, <1>t DEF StartDeletions, Keeping
  <2>2. OnlyNewest'
    BY <1>7, <2>1, SweptKeeping DEF StartDeletions, OnlyNewest, Complete
  <2> QED BY <1>0, <1>7, <2>1, <2>2 DEF StartDeletions, Trail, Keeping
<1>8. CASE WriteDeletions
  <2>1. PICK S, F : Begin("delete", S, F) /\ \A f \in F : f.kind # "segments"
    <3>1. PICK S \in (SUBSET infos) \ {{}} :
            LET del == {[s EXCEPT !.del = s.del + 1] : s \in S}
            IN  Begin("delete", (infos \ S) \cup del, {Del(s.name, s.del) : s \in del})
      BY <1>8 DEF WriteDeletions
    <3> DEFINE del == {[s EXCEPT !.del = s.del + 1] : s \in S}
    <3> HIDE DEF del
    <3>2. Begin("delete", (infos \ S) \cup del, {Del(s.name, s.del) : s \in del})
      BY <3>1 DEF del
    <3>3. \A f \in {Del(s.name, s.del) : s \in del} : f.kind # "segments"
      BY DEF Del
    <3> QED BY <3>2, <3>3
  <2>2. mode # "off"
    BY <1>8 DEF WriteDeletions, IInv, TypeInv, Room
  <2> QED BY <1>8, <2>1, <2>2, BeginTrail DEF WriteDeletions
<1>9. ASSUME NEW next \in {"reader", "writer", "off"}, CloseWriter(next)
      PROVE  Trail'
  <2>1. CASE pending
    <3>1. Begin("close", infos, {}) /\ UNCHANGED <<log, published, mode, kept, doomed>>
          /\ step = "clean" /\ mode # "off" /\ after # "off" /\ doomed = {}
      BY <1>9, <2>1 DEF CloseWriter
    <3> QED BY <3>1, BeginTrail
  <2>2. CASE ~pending
    <3>1. /\ UNCHANGED <<disk, log, published, mode, step, kept>>
          /\ doomed = {} /\ doomed' = {} /\ step = "clean" /\ mode # "off" /\ after # "off"
      BY <1>9, <1>t, <2>2 DEF CloseWriter
    <3>2. kept = published /\ OnlyNewest'
      BY <1>t, <3>1 DEF Keeping, OnlyNewest, Complete
    <3> QED BY <1>0, <1>t, <3>1, <3>2 DEF Trail, Keeping
  <2> QED BY <1>t, <2>1, <2>2 DEF TypeOK
<1>10. ASSUME UNCHANGED <<disk, log, published, step, kept, doomed, job>>,
              step = "clean", mode # "off", after' = "off" \/ (after # "off" /\ mode' # "off"),
              mode' = "off" => doomed = {}
       PROVE  Trail'
  BY <1>0, <1>10, <1>t DEF Trail, Keeping, OnlyNewest, Complete
<1>11. ASSUME NEW next \in {"writer", "off"}, CloseReader(next)
       PROVE  Trail'
  BY <1>10, <1>11 DEF CloseReader
<1>12. CASE FinishClose
  <2>1. /\ UNCHANGED <<disk, log, published, mode, step, after, kept>>
        /\ doomed = {} /\ doomed' = {} /\ step = "clean" /\ job = "close"
    BY <1>12, <1>t DEF FinishClose
  <2>2. mode # "off" => kept = published /\ OnlyNewest'
    BY <1>t, <2>1 DEF Keeping, OnlyNewest, Complete
  <2> QED BY <1>0, <1>t, <2>1, <2>2 DEF Trail, Keeping
<1>13. CASE TurnOff
  BY <1>10, <1>13 DEF TurnOff
<1> QED BY <1>1, <1>2, <1>3, <1>4, <1>5, <1>6, <1>7, <1>8, <1>9, <1>11, <1>12, <1>13 DEF Modify

\* After a commit the former one is to be removed.
LEMMA CheckpointTrail ==
  ASSUME IInv, Trail, step \in {"pointer", "create", "fill"}, Checkpoint,
         UNCHANGED <<disk, log, published, mode, gen>>
  PROVE  Trail'
<1>1. published = gen /\ mode # "off" /\ step' = "clean" /\ kept' = gen
  BY DEF IInv, Safe, Writing, Checkpoint
<1>2. OldestFirst'
  BY <1>1, SameTrail DEF Trail
<1>3. OnlyNewest'
  <2> SUFFICES ASSUME NEW g \in Gens, Complete(g), Segments(g) \in disk, g # published
               PROVE  Segments(g) \in doomed'
    BY DEF OnlyNewest, Complete
  <2>1. Segments(g) \notin FilesOf(published)
    BY SweptKeeping DEF Sweep
  <2>2. CASE job = "create"
    BY <1>1, <2>1, <2>2 DEF Checkpoint, Sweep
  <2>3. CASE job # "create"
    <3>1. g = kept
      BY <1>1, <2>3 DEF Trail, Keeping
    <3> QED BY <1>1, <2>1, <2>3, <3>1 DEF Checkpoint, FilesOf
  <2> QED BY <2>2, <2>3
<1> QED BY <1>1, <1>2, <1>3 DEF Trail, Keeping

LEMMA WriteTrail ==
  ASSUME lost' = 0, ~Windows, IInv, Trail, Write
  PROVE  Trail'
<1> USE DEF dirVars, memVars, workVars, delVars, boundVars
<1>t. TypeOK /\ Safe /\ OldestFirst /\ Keeping
  BY DEF Trail, IInv, TypeInv
<1>n. published \in Nat /\ gen \in Nat /\ MaxGen \in Nat
  BY <1>t, BoundAssumption DEF TypeOK
<1>m. step # "clean" => mode # "off" /\ doomed = {}
  BY <1>t DEF Safe, Writing, IInv, TypeInv, NothingDoomed
<1>1. CASE CreateSegments
  <2>1. /\ step = "data" /\ step' = "segments" /\ gen' = gen + 1
        /\ disk' = disk \cup {Segments(gen + 1)}
        /\ UNCHANGED <<log, published, mode, job, kept, doomed>>
    BY <1>1 DEF CreateSegments
  <2>2. gen >= published
    BY <1>t, <1>m, <2>1 DEF Safe, Ahead
  <2>3. ~Complete(gen + 1)
    BY <1>t, <1>n, <2>2 DEF Safe, Ordered, Complete
  <2>4. \A g : Segments(g) \in disk' => Segments(g) \in disk \/ ~Complete(g)
    BY <2>1, <2>3 DEF Segments
  <2>5. OldestFirst'
    BY <1>t, <2>1, <2>4 DEF OldestFirst, Complete, FilesOf
  <2>6. OnlyNewest => OnlyNewest'
    BY <2>1, <2>4 DEF OnlyNewest, Complete
  <2> QED BY <1>t, <1>m, <2>1, <2>5, <2>6 DEF Trail, Keeping
<1>2. CASE CompleteSegments
  <2>1. /\ step = "segments" /\ step' = "pointer" /\ published' = gen
        /\ log' = [log EXCEPT ![gen] = [infos |-> infos, counter |-> counter]]
        /\ UNCHANGED <<disk, gen, mode, job, kept, doomed>>
    BY <1>2 DEF CompleteSegments
  <2>2. gen > published /\ gen \in Gens
    BY <1>t, <1>n, <2>1 DEF Safe, Ahead, TypeOK, Gens
  <2>3. \A g : g = gen => log'[g].infos = infos /\ Complete(g)'
    BY <1>t, <1>n, <2>1, <2>2, BoundAssumption DEF TypeOK, Complete
  <2>4. \A g \in Gens : g # gen => log'[g] = log[g] /\ (Complete(g)' <=> Complete(g))
    BY <1>t, <2>1 DEF TypeOK, Complete
  <2>5. \A g : g = gen => FilesOf(g)' \subseteq disk
    BY <1>t, <2>1, <2>3 DEF FilesOf, Safe, Writing
  <2>6. \A g \in Gens : g \in Nat /\ g > 0 /\ (Complete(g) => g <= published)
    BY <1>t DEF Gens, Safe, Ordered
  <2>7. OldestFirst'
    <3> SUFFICES ASSUME NEW h \in Gens, NEW g \in Gens, Complete(h)', Complete(g)', h <= g,
                        Segments(h) \in disk
                 PROVE  FilesOf(g)' \subseteq disk
      BY <2>1 DEF OldestFirst
    <3>1. CASE g = gen
      BY <2>5, <3>1
    <3>2. CASE g # gen
      <4>1. Complete(g)
        BY <2>4, <3>2
      <4>2. g < gen /\ h # gen
        BY <1>n, <2>2, <2>6, <4>1
      <4>3. FilesOf(g) \subseteq disk
        BY <1>t, <2>4, <4>1, <4>2 DEF OldestFirst
      <4> QED BY <2>4, <3>2, <4>3 DEF FilesOf
    <3> QED BY <3>1, <3>2
  <2>8. Keeping'
    <3>1. ASSUME job # "create", NEW g \in Gens, Complete(g)', Segments(g) \in disk
          PROVE  g \in {kept, gen}
      BY <1>t, <1>m, <2>1, <2>4, <3>1 DEF Keeping, OnlyNewest
    <3> QED BY <1>m, <2>1, <3>1 DEF Keeping
  <2> QED BY <2>7, <2>8 DEF Trail
<1>3. CASE UnlinkPointer \/ CreatePointer
  <2>1. /\ step \in {"pointer", "create"} /\ step' \in {"create", "fill"}
        /\ UNCHANGED <<disk, log, published, mode, job, gen, kept, doomed>>
    BY <1>3 DEF UnlinkPointer, CreatePointer
  <2>2. OldestFirst'
    BY <1>t, <2>1, SameTrail
  <2> QED BY <1>t, <1>m, <2>1, <2>2 DEF Trail, Keeping, Complete
<1>4. CASE FillPointer \/ SkipPointer
  <2>1. /\ step \in {"pointer", "create", "fill"} /\ Checkpoint
        /\ UNCHANGED <<disk, log, published, mode, gen>>
    BY <1>4 DEF FillPointer, SkipPointer
  <2> QED BY <2>1, CheckpointTrail
<1>5. CASE TruncateSegments
  BY <1>t, <1>5, BoundAssumption DEF TruncateSegments, TypeOK
<1>6. CASE FailCommit
  <2> DEFINE failed == IF step = "data" THEN gen + 1 ELSE gen
  <2>1. /\ step \in {"data", "segments"} /\ step' = "clean"
        /\ doomed' = {Segments(failed)}
                 \cup CASE job = "flush"  -> deletable \cup (DataFiles(infos) \ DataFiles(old))
                        [] job = "delete" -> Sweep(kept)
                        [] OTHER          -> DataFiles(infos) \ DataFiles(old)
        /\ job = "create" => after' = "off"
        /\ UNCHANGED <<disk, log, published, mode, job, kept>>
    BY <1>6 DEF FailCommit
  <2>2. OldestFirst'
    BY <1>t, <2>1, SameTrail
  <2>3. mode # "off"
    BY <1>m, <2>1
  <2>4. CASE job = "create"
    <3>1. DataFiles(infos) = {}
      BY <1>t, <2>1, <2>4 DEF Safe, Writing, DataFiles
    <3>2. failed > published
      BY <1>t, <1>n, <2>1, <2>3 DEF Safe, Ahead
    <3>3. ~Complete(failed)
      BY <1>t, <1>n, <3>2 DEF Safe, Ordered, Complete
    <3> HIDE DEF failed
    <3>4. doomed' = {Segments(failed)}
      BY <2>1, <2>4, <3>1
    <3>5. \A f \in doomed' : f.kind = "segments" /\ f.gen = failed
      BY <3>4 DEF Segments
    <3> QED BY <2>1, <2>2, <2>3, <2>4, <3>3, <3>5 DEF Trail, Keeping, Complete
  <2>5. CASE job # "create"
    <3>1. kept = published /\ OnlyNewest /\ doomed = {}
      BY <1>t, <1>m, <2>1, <2>5 DEF Keeping
    <3>2. OnlyNewest'
      BY <2>1, <3>1 DEF OnlyNewest, Complete
    <3> QED BY <2>1, <2>2, <2>3, <3>1, <3>2 DEF Trail, Keeping
  <2> QED BY <2>4, <2>5
<1> QED BY <1>1, <1>2, <1>3, <1>4, <1>5, <1>6 DEF Write

LEMMA DeleteTrail ==
  ASSUME ~Windows, IInv, Trail, DeleteFile
  PROVE  Trail'
<1> USE DEF dirVars, memVars, workVars, delVars, boundVars
<1>t. OldestFirst /\ Keeping /\ DoomedAreDead /\ Ordered /\ published \in Nat
  BY BoundAssumption DEF Trail, IInv, Safe, TypeInv, TypeOK
<1>1. PICK f \in doomed : /\ Removable(f) /\ doomed' = doomed \ {f} /\ disk' = disk \ {f}
                          /\ step = "clean"
                          /\ UNCHANGED <<log, published, memVars, workVars>>
  BY DEF DeleteFile
<1>2. /\ mode # "off"
      /\ \/ kept = published /\ OnlyNewest
         \/ /\ after = "off" /\ job = "create"
            /\ \A e \in doomed : e.kind = "segments" /\ ~Complete(e.gen)
  BY <1>1, <1>t DEF Keeping
<1>3. Keeping'
  BY <1>1, <1>2 DEF Keeping, OnlyNewest, Complete
<1>4. OldestFirst'
  <2> SUFFICES ASSUME NEW h \in Gens, NEW g \in Gens, Complete(h), Complete(g), h <= g,
                      Segments(h) \in disk, Segments(h) # f, f \in FilesOf(g)
               PROVE  FALSE
    BY <1>1, <1>t DEF OldestFirst, Complete, FilesOf
  <2>1. g \in Nat /\ h \in Nat /\ g <= published /\ published > 0
    BY <1>t DEF Gens, Ordered
  <2>2. g # published
    BY <1>1, <1>t, <2>1 DEF DoomedAreDead
  <2>3. Segments(g) \in disk
    BY <1>t DEF OldestFirst, FilesOf
  <2>k. OnlyNewest
    <3>1. f.kind # "segments" \/ f.gen = g
      BY DataFilesKind DEF FilesOf, Segments
    <3> QED BY <1>1, <1>2, <3>1
  <2>4. Segments(g) \in doomed /\ Segments(h) \in doomed
    BY <2>k, <2>1, <2>2, <2>3 DEF OnlyNewest
  <2>5. f = Segments(g)
    BY <1>1, <2>4 DEF Removable, FilesOf
  <2>6. g <= h
    BY <1>1, <2>4, <2>5 DEF Removable, Segments
  <2> QED BY <2>1, <2>5, <2>6
<1> QED BY <1>3, <1>4 DEF Trail

LEMMA TrailStep ==
  ASSUME ~Windows, lost' = 0, IInv, Trail, [Next]_vars
  PROVE  Trail'
<1> USE DEF dirVars, memVars, workVars, delVars, boundVars
<1>t. OldestFirst /\ Keeping
  BY DEF Trail
<1>1. ASSUME UNCHANGED <<dirVars, memVars, workVars, delVars>> PROVE Trail'
  BY <1>1, <1>t, SameTrail DEF Trail, Keeping, OnlyNewest, Complete
<1>2. ASSUME NEW r \in Readers, Search(r) PROVE UNCHANGED <<dirVars, memVars, workVars, delVars>>
  BY <1>2 DEF Search, Open, BeginOpening, ListFiles, ReadPointer, OpenSegments,
              ReadSegments, OpenData, CloseSearch
<1>3. CASE Stop
  BY <1>3, <1>t, SameTrail DEF Stop, Trail, Keeping
<1>4. UNCHANGED vars => UNCHANGED <<dirVars, memVars, workVars, delVars>>
  BY DEF vars
<1> QED BY <1>1, <1>2, <1>3, <1>4, ModifyTrail, WriteTrail, DeleteTrail DEF Next, Crash, GiveUp

LEMMA HolesStep ==
  ASSUME lost' = 0, IInv, Near, NoHoles, [Next]_vars
  PROVE  NoHoles'
<1> USE DEF dirVars, memVars, workVars, delVars, boundVars
<1>t. TypeOK /\ Safe
  BY DEF IInv, TypeInv
<1>n. published \in Nat /\ gen \in Nat /\ MaxGen \in Nat
  BY <1>t, BoundAssumption DEF TypeOK
<1>0. ASSUME UNCHANGED <<log, published>>, step' # "segments" \/ UNCHANGED <<step, gen>>
      PROVE  NoHoles'
  BY <1>0 DEF NoHoles, Complete
<1>1. CASE CreateSegments
  <2>1. /\ step = "data" /\ gen' = gen + 1 /\ UNCHANGED <<log, published>>
    BY <1>1 DEF CreateSegments
  <2>2. published > 0 => gen = published
    BY <2>1 DEF Near
  <2> QED BY <2>1, <2>2 DEF NoHoles, Complete
<1>2. CASE CompleteSegments
  <2>1. /\ step = "segments" /\ step' = "pointer" /\ published' = gen
        /\ log' = [log EXCEPT ![gen] = [infos |-> infos, counter |-> counter]]
    BY <1>2 DEF CompleteSegments
  <2>2. gen > published /\ (published > 0 => gen = published + 1) /\ gen \in Gens
    BY <1>t, <1>n, <2>1 DEF Safe, Ahead, NoHoles, TypeOK, Gens
  <2>3. \A g : g = gen => Complete(g)'
    BY <1>t, <1>n, <2>1, <2>2, BoundAssumption DEF TypeOK, Complete
  <2>4. \A g \in Gens : g # gen => (Complete(g)' <=> Complete(g))
    BY <1>t, <2>1 DEF TypeOK, Complete
  <2>5. \A g \in Gens : g \in Nat /\ g > 0 /\ (Complete(g) => g <= published)
    BY <1>t DEF Gens, Safe, Ordered
  <2> SUFFICES ASSUME NEW h \in Gens, NEW g \in Gens, Complete(h)', h <= g, g <= gen
               PROVE  Complete(g)'
    BY <2>1 DEF NoHoles
  <2>6. CASE g = gen
    BY <2>3, <2>6
  <2>7. CASE g # gen
    <3>1. h # gen /\ Complete(h)
      BY <1>n, <2>4, <2>5, <2>7
    <3>2. g <= published
      BY <1>n, <2>2, <2>5, <2>7, <3>1
    <3> QED BY <2>4, <2>7, <3>1, <3>2 DEF NoHoles
  <2> QED BY <2>6, <2>7
<1>3. ~TruncateSegments
  BY <1>t, BoundAssumption DEF TruncateSegments, TypeOK
<1>4. CASE Write /\ ~CreateSegments /\ ~CompleteSegments
  <2>1. UNCHANGED <<log, published>> /\ step' # "segments"
    BY <1>3, <1>4 DEF Write, UnlinkPointer, CreatePointer, FillPointer, SkipPointer, FailCommit,
                      Checkpoint
  <2> QED BY <1>0, <2>1
<1>5. CASE Modify
  <2>1. UNCHANGED <<log, published>> /\ (step' # "segments" \/ UNCHANGED <<step, gen>>)
    BY <1>5 DEF Modify, CreateIndex, OpenWriter, OpenReader, Flush, Merge, Compound, StartDeletions,
                WriteDeletions, CloseWriter, CloseReader, FinishClose, TurnOff, Begin, Ready
  <2> QED BY <1>0, <2>1
<1>6. CASE DeleteFile \/ Crash \/ GiveUp \/ UNCHANGED vars
  BY <1>0, <1>6 DEF DeleteFile, Crash, GiveUp, Stop, vars
<1>7. ASSUME NEW r \in Readers, Search(r) PROVE NoHoles'
  BY <1>0, <1>7 DEF Search, Open, BeginOpening, ListFiles, ReadPointer, OpenSegments,
                    ReadSegments, OpenData, CloseSearch
<1> QED BY <1>1, <1>2, <1>4, <1>5, <1>6, <1>7 DEF Next

LEMMA SearchInvStep ==
  ASSUME Undisturbed', SearchInv, [Next]_vars
  PROVE  SearchInv'
<1>1. NearInv' /\ IInv /\ lost' = 0
  BY NearInvStep DEF SearchInv, NearInv, Undisturbed
<1>2. failures' = 0 => failures = 0
  BY <1>1, FailuresGrow DEF IInv, TypeInv
<1>3. failures = 0 => NoHoles'
  BY <1>1, HolesStep DEF SearchInv, NearInv
<1>4. ~Windows => Trail'
  BY <1>1, TrailStep DEF SearchInv
<1> QED BY <1>1, <1>2, <1>3, <1>4 DEF SearchInv

LEMMA SearchInvInit == Init => SearchInv
<1> SUFFICES ASSUME Init PROVE SearchInv
  OBVIOUS
<1>1. \A g : ~Complete(g)
  BY DEF Init, Complete, NoCommit
<1> QED BY <1>1, NearInit DEF Init, SearchInv, Trail, OldestFirst, NoHoles, Keeping

-----------------------------------------------------------------------------
(* The searches, step by step                                               *)

\* The only step that changes what is committed.
LEMMA CommitSteps ==
  ASSUME lost' = 0, IInv, [Next]_vars
  PROVE  \/ UNCHANGED <<log, published>>
         \/ /\ published' = gen /\ gen > published /\ gen \in Gens
            /\ reader' = reader /\ failures' = failures
            /\ \A g \in Gens : g # gen => log'[g] = log[g]
            /\ DOMAIN log' = Gens
<1> USE DEF dirVars, memVars, workVars, delVars, boundVars
<1>1. CASE CompleteSegments
  <2>1. gen > published /\ gen \in Gens
    BY <1>1, BoundAssumption
       DEF CompleteSegments, IInv, TypeInv, TypeOK, Room, Safe, Ahead, Gens
  <2> QED BY <1>1, <2>1 DEF CompleteSegments, IInv, TypeInv, TypeOK
<1>2. ~TruncateSegments
  BY BoundAssumption DEF TruncateSegments, IInv, TypeInv, TypeOK
<1>3. Write => CompleteSegments \/ TruncateSegments \/ UNCHANGED <<log, published>>
  BY DEF Write, CreateSegments, UnlinkPointer, CreatePointer, FillPointer, SkipPointer, FailCommit
<1>4. Modify => UNCHANGED <<log, published>>
  BY DEF Modify, CreateIndex, OpenWriter, OpenReader, Flush, Merge, Compound, StartDeletions,
         WriteDeletions, CloseWriter, CloseReader, FinishClose, TurnOff
<1>5. (DeleteFile \/ Crash \/ GiveUp \/ UNCHANGED vars) => UNCHANGED <<log, published>>
  BY DEF DeleteFile, Crash, GiveUp, Stop, vars
<1>6. (\E r \in Readers : Search(r)) => UNCHANGED <<log, published>>
  BY DEF Search, Open, BeginOpening, ListFiles, ReadPointer, OpenSegments, ReadSegments,
         OpenData, CloseSearch
<1> QED BY <1>1, <1>2, <1>3, <1>4, <1>5, <1>6 DEF Next

\* What the writer does leaves a search as far as it was.
LEMMA AimedStays ==
  ASSUME lost' = 0, IInv, [Next]_vars, NEW x \in SearchState, Aimed(x)
  PROVE  Aimed(x)'
<1> SUFFICES ASSUME x.at \notin {"idle", "open", "failed"}, x.from > 0 PROVE Aimed(x)'
  BY DEF Aimed
<1>t. /\ x.from \in Nat /\ x.listed \in Int /\ x.gen \in Int /\ x.target \in Int
      /\ published \in Nat /\ Complete(x.from)
  BY BoundAssumption DEF SearchState, IInv, TypeInv, TypeOK, Aimed
<1>1. x.from <= published
  BY <1>t DEF IInv, Safe, Ordered, Complete
<1>2. Complete(x.from)'
  BY <1>t, CommitsStay
<1>3. x.target < x.from /\ ~Complete(x.target) => ~Complete(x.target)'
  <2> SUFFICES ASSUME x.target < x.from, ~Complete(x.target) PROVE ~Complete(x.target)'
    OBVIOUS
  <2>1. CASE UNCHANGED <<log, published>>
    BY <2>1 DEF Complete
  <2>2. CASE gen > published /\ gen \in Gens /\ \A g \in Gens : g # gen => log'[g] = log[g]
    <3>1. x.target # gen
      BY <1>t, <1>1, <2>2 DEF Gens
    <3> QED BY <2>2, <3>1 DEF Complete
  <2> QED BY <2>1, <2>2, CommitSteps
<1>4. x.at \in {"try", "read", "data"} =>
        x.target = x.gen \/ x.from <= x.target \/ Windows \/ ~Complete(x.target)'
  BY <1>t, <1>3 DEF Aimed
<1> QED BY <1>2, <1>4 DEF Aimed

LEMMA FreshStays ==
  ASSUME lost' = 0, IInv, [Next]_vars, NEW x \in SearchState, Fresh(x)
  PROVE  Fresh(x)'
<1>t. x.listed \in Int /\ x.gen \in Int /\ published \in Nat
  BY BoundAssumption DEF SearchState, IInv, TypeInv, TypeOK
<1>1. published' \in Int /\ published' >= published
  BY <1>t, CommitSteps DEF Gens
<1>2. Aimed(x)'
  BY AimedStays DEF Fresh
<1>3. failures' = 0 => failures = 0
  BY FailuresGrow DEF IInv, TypeInv
<1>4. Patient(x) => Patient(x)'
  BY <1>t, <1>1 DEF Patient
<1> QED BY <1>2, <1>3, <1>4 DEF Fresh

\* The directory shows the newest commit, or a generation beyond; as long as no error has
\* struck, at most one, and segments.gen none.
LEMMA ListedNear ==
  ASSUME SearchInv, published > 0
  PROVE  /\ Listed \in Int /\ published <= Listed
         /\ Pointed \in Int
         /\ failures = 0 => Listed <= published + 1 /\ Pointed <= published
<1>t. TypeOK /\ CommitReadable /\ published \in Nat /\ (failures = 0 => Near)
  BY BoundAssumption DEF SearchInv, NearInv, IInv, TypeInv, Safe, TypeOK
<1>1. published \in SegGens
  BY <1>t, BoundAssumption DEF CommitReadable, FilesOf, SegGens, TypeOK
<1>2. Pointed \in Int /\ (failures = 0 => Pointed <= published)
  BY <1>t, FoundType DEF Near, Pointed
<1> QED BY <1>t, <1>1, <1>2, ListedIsMax DEF Near

\* The choices of the search loop, looking ahead or not.
LEMMA TryNext ==
  ASSUME NEW x \in SearchState, NEW g \in Int
  PROVE  \/ Try(x, g).at = "failed"
         \/ /\ Try(x, g).at = "try" /\ Try(x, g).from = x.from
            /\ Try(x, g).gen \in {g, g + 1} /\ Try(x, g).target = Try(x, g).gen
<1> DEFINE look == x.ahead > 0 \/ (g = x.gen /\ x.retry)
           more == look /\ x.ahead < Lookahead
           next == IF more THEN g + 1 ELSE g
           rest == IF more THEN x.ahead + 1 ELSE x.ahead
<1>1. next \in {g, g + 1}
  OBVIOUS
<1>2. Try(x, g) = IF next = x.gen /\ x.retry
                  THEN [x EXCEPT !.at = "failed"]
                  ELSE [x EXCEPT !.at = "try", !.gen = next, !.target = next,
                                 !.retry = (next = x.gen), !.listed = -1, !.ahead = rest]
  BY DEF Try
<1> HIDE DEF next, rest
<1> QED BY <1>1, <1>2 DEF SearchState

\* Without looking ahead, the generation tried is the one found.
LEMMA TryChosen ==
  ASSUME NEW x \in SearchState, NEW g \in Int, x.ahead = 0, x.retry => x.gen < g
  PROVE  /\ Try(x, g).at = "try" /\ Try(x, g).gen = g /\ Try(x, g).target = g
         /\ Try(x, g).retry = (g = x.gen) /\ Try(x, g).ahead = 0 /\ Try(x, g).from = x.from
<1> DEFINE look == x.ahead > 0 \/ (g = x.gen /\ x.retry)
           more == look /\ x.ahead < Lookahead
           next == IF more THEN g + 1 ELSE g
           rest == IF more THEN x.ahead + 1 ELSE x.ahead
<1>1. x.gen \in Int
  BY DEF SearchState
<1>2. ~look /\ next = g /\ rest = 0 /\ ~(next = x.gen /\ x.retry)
  BY <1>1
<1>3. Try(x, g) = IF next = x.gen /\ x.retry
                  THEN [x EXCEPT !.at = "failed"]
                  ELSE [x EXCEPT !.at = "try", !.gen = next, !.target = next,
                                 !.retry = (next = x.gen), !.listed = -1, !.ahead = rest]
  BY DEF Try
<1> HIDE DEF next, rest
<1>4. Try(x, g) = [x EXCEPT !.at = "try", !.gen = g, !.target = g, !.retry = (g = x.gen),
                            !.listed = -1, !.ahead = 0]
  BY <1>2, <1>3
<1> QED BY <1>4 DEF SearchState

\* A search that found no commit when it began may get any, and may fail.
LEMMA FreshFromNone ==
  ASSUME NEW x, x.from = 0
  PROVE  Fresh(x)
BY DEF Fresh, Aimed, Patient

\* A file that is missing, or a segments_N that is not complete, never costs a search the
\* commit it began with.
LEMMA MissedAimed ==
  ASSUME SearchInv, NEW x \in SearchState, Aimed(x), x.at \in {"try", "read", "data"},
         x.from > 0, ~(Complete(x.target) /\ FilesOf(x.target) \subseteq disk)
  PROVE  Aimed(Missed(x))
<1> DEFINE y == [x EXCEPT !.todo = {}, !.held = {}]
<1>y. /\ y.from = x.from /\ y.gen = x.gen /\ y \in SearchState
  BY DEF SearchState
<1>t. x.from \in Nat /\ x.gen \in Int /\ x.target \in Int
  BY BoundAssumption DEF SearchState
<1>f. Complete(x.from) /\ x.from <= x.gen
  BY DEF Aimed
<1> DEFINE back == x.target = x.gen /\ ~x.retry /\ x.gen > 1 /\ Segments(x.gen - 1) \in disk
<1>1. CASE back
  <2> DEFINE z == [y EXCEPT !.at = "try", !.target = x.gen - 1]
  <2>1. Missed(x) = z
    BY <1>1 DEF Missed
  <2>2. z.at = "try" /\ z.from = x.from /\ z.gen = x.gen /\ z.target = x.gen - 1
    BY <1>y DEF SearchState
  <2>3. x.from <= x.gen - 1 \/ Windows \/ ~Complete(x.gen - 1)
    <3> SUFFICES ASSUME ~(x.from <= x.gen - 1), ~Windows, Complete(x.gen - 1) PROVE FALSE
      OBVIOUS
    <3>1. x.gen = x.from /\ Complete(x.gen) /\ x.gen \in Gens /\ x.gen - 1 \in Gens
      BY <1>t, <1>f DEF Complete
    <3>2. FilesOf(x.gen) \subseteq disk
      BY <1>t, <1>1, <3>1 DEF SearchInv, Trail, OldestFirst
    <3> QED BY <1>1, <3>1, <3>2
  <2> HIDE DEF z
  <2> QED BY <1>f, <1>t, <2>1, <2>2, <2>3 DEF Aimed
<1>2. CASE ~back /\ x.ahead = 0
  <2> DEFINE z == [y EXCEPT !.at = "list"]
  <2>1. Missed(x) = z
    BY <1>2 DEF Missed
  <2>2. z.at = "list" /\ z.from = x.from
    BY <1>y DEF SearchState
  <2> HIDE DEF z
  <2> QED BY <1>f, <2>1, <2>2 DEF Aimed
<1>3. CASE ~back /\ x.ahead # 0
  <2>1. Missed(x) = Try(y, x.gen)
    BY <1>3 DEF Missed
  <2> HIDE DEF y
  <2>2. \/ Missed(x).at = "failed"
        \/ /\ Missed(x).at = "try" /\ Missed(x).from = x.from
           /\ Missed(x).gen \in {x.gen, x.gen + 1} /\ Missed(x).target = Missed(x).gen
    BY <1>t, <1>y, <2>1, TryNext
  <2> QED BY <1>f, <1>t, <2>2 DEF Aimed
<1> QED BY <1>1, <1>2, <1>3

LEMMA MissedPatient ==
  ASSUME SearchInv, failures = 0, NEW x \in SearchState, Aimed(x), Patient(x),
         x.at \in {"try", "read", "data"}, x.from > 0,
         ~(Complete(x.target) /\ FilesOf(x.target) \subseteq disk)
  PROVE  Patient(Missed(x))
<1> DEFINE y == [x EXCEPT !.todo = {}, !.held = {}]
<1>y. /\ y.from = x.from /\ y.gen = x.gen /\ y.target = x.target /\ y.retry = x.retry
      /\ y.ahead = x.ahead /\ y.listed = x.listed /\ y \in SearchState
  BY DEF SearchState
<1>t. /\ published \in Nat /\ x.from \in Nat /\ x.gen \in Int /\ x.target \in Int
      /\ x.retry \in BOOLEAN
  BY BoundAssumption DEF SearchState, SearchInv, NearInv, IInv, TypeInv, TypeOK
<1>s. CommitReadable /\ Ordered /\ NoHoles
  BY DEF SearchInv, NearInv, IInv, Safe
<1> DEFINE back == x.target = x.gen /\ ~x.retry /\ x.gen > 1 /\ Segments(x.gen - 1) \in disk
<1>f. /\ x.ahead = 0 /\ Complete(x.from) /\ x.from <= published
      /\ x.from <= x.gen /\ x.gen <= published + 1
      /\ x.retry => x.gen <= published /\ x.target = x.gen
      /\ x.target \in {x.gen, x.gen - 1}
  BY <1>s DEF Aimed, Patient, Ordered, Complete
<1>p. Complete(published) /\ FilesOf(published) \subseteq disk /\ Segments(published) \in disk
  BY <1>t, <1>s, <1>f DEF CommitReadable, FilesOf
<1>c. x.gen <= published => Complete(x.gen)
  <2> SUFFICES ASSUME x.gen <= published PROVE Complete(x.gen)
    OBVIOUS
  <2>1. x.from \in Gens /\ published \in Gens
    BY <1>f, <1>p DEF Complete
  <2>2. x.gen \in Gens
    BY <1>t, <1>f, <2>1, BoundAssumption DEF Gens
  <2> QED BY <1>s, <1>f, <2>1, <2>2 DEF NoHoles
<1>1. CASE back
  <2> DEFINE z == [y EXCEPT !.at = "try", !.target = x.gen - 1]
  <2>1. Missed(x) = z
    BY <1>1 DEF Missed
  <2>2. z.at = "try" /\ z.gen = x.gen /\ z.retry = x.retry /\ z.ahead = x.ahead
    BY <1>y DEF SearchState
  <2> HIDE DEF z
  <2> QED BY <1>1, <1>f, <2>1, <2>2 DEF Patient
<1>2. CASE ~back
  <2> DEFINE z == [y EXCEPT !.at = "list"]
  <2>1. Missed(x) = z
    BY <1>2, <1>f DEF Missed
  <2>2. z.at = "list" /\ z.gen = x.gen /\ z.retry = x.retry /\ z.ahead = x.ahead
    BY <1>y DEF SearchState
  <2>3. x.retry => x.gen < published
    BY <1>t, <1>c, <1>f, <1>p
  <2>4. x.gen # published + 1
    <3> SUFFICES ASSUME x.gen = published + 1 PROVE FALSE
      OBVIOUS
    <3>1. x.gen - 1 = published /\ x.gen > 1 /\ ~x.retry
      BY <1>t, <1>f
    <3>2. x.target = x.gen
      BY <1>f, <1>p, <3>1
    <3> QED BY <1>2, <1>p, <3>1, <3>2
  <2>5. x.gen <= published
    BY <1>t, <1>f, <2>4
  <2> HIDE DEF z
  <2> QED BY <1>f, <2>1, <2>2, <2>3, <2>5 DEF Patient
<1> QED BY <1>1, <1>2

LEMMA MissedFresh ==
  ASSUME SearchInv, NEW x \in SearchState, Fresh(x), x.at \in {"try", "read", "data"},
         ~(Complete(x.target) /\ FilesOf(x.target) \subseteq disk)
  PROVE  Fresh(Missed(x))
<1>1. CASE x.from > 0
  BY <1>1, MissedAimed, MissedPatient DEF Fresh
<1>2. CASE x.from = 0
  <2> DEFINE y == [x EXCEPT !.todo = {}, !.held = {}]
  <2>y. y.from = 0 /\ y \in SearchState /\ x.gen \in Int
    BY <1>2 DEF SearchState
  <2>1. \A z \in SearchState, g \in Int : Try(z, g).from = z.from
    BY DEF Try, SearchState
  <2>2. Try(y, x.gen).from = 0
    BY <2>y, <2>1
  <2>3. [y EXCEPT !.at = "try", !.target = x.gen - 1].from = 0 /\ [y EXCEPT !.at = "list"].from = 0
    BY <2>y DEF SearchState
  <2>4. Missed(x).from = 0
    BY <2>2, <2>3 DEF Missed
  <2> QED BY <2>4, FreshFromNone
<1> QED BY <1>1, <1>2, BoundAssumption DEF SearchState

\* Got keeps how far the search is.
LEMMA GotFresh ==
  ASSUME NEW x \in SearchState, NEW y \in SearchState, Fresh(x), x.at \in {"read", "data"},
         y.from = x.from, y.gen = x.gen, y.target = x.target, y.retry = x.retry,
         y.ahead = x.ahead
  PROVE  Fresh(Got(y))
<1>1. CASE y.todo = {}
  <2>1. Got(y).at = "open"
    BY <1>1 DEF Got, Idle
  <2> QED BY <2>1 DEF Fresh, Aimed, Patient
<1>2. CASE y.todo # {}
  <2>1. /\ Got(y).at = "data" /\ Got(y).from = x.from /\ Got(y).gen = x.gen
        /\ Got(y).target = x.target /\ Got(y).retry = x.retry /\ Got(y).ahead = x.ahead
    BY <1>2 DEF Got, SearchState
  <2> QED BY <2>1 DEF Fresh, Aimed, Patient
<1> QED BY <1>1, <1>2

LEMMA SearchFresh ==
  ASSUME SearchInv, NEW r \in Readers, Search(r), Fresh(reader[r]), Whole(reader[r])
  PROVE  Fresh(reader'[r])
<1> DEFINE x == reader[r]
<1>t. /\ x \in SearchState /\ reader \in [Readers -> SearchState] /\ published \in Nat
      /\ x.from \in Nat /\ x.gen \in Int /\ x.listed \in Int /\ TypeOK
  BY BoundAssumption DEF SearchInv, NearInv, IInv, TypeInv, TypeOK, SearchState
<1>p. /\ published > 0 => Complete(published)
      /\ \A g : Complete(g) => g \in Gens /\ g <= published
  BY DEF SearchInv, NearInv, IInv, Safe, CommitReadable, Ordered, Complete
<1>1. CASE BeginOpening(r)
  <2>1. reader'[r] = [Idle EXCEPT !.at = "list", !.from = published]
    BY <1>t, <1>1 DEF BeginOpening
  <2>2. /\ reader'[r].at = "list" /\ reader'[r].from = published /\ reader'[r].gen = -1
        /\ reader'[r].retry = FALSE /\ reader'[r].ahead = 0
    BY <2>1 DEF Idle
  <2> QED BY <1>t, <1>p, <2>2 DEF Fresh, Aimed, Patient
<1>2. CASE ListFiles(r)
  <2>1. x.at = "list" /\ reader'[r] = [x EXCEPT !.at = "pointer", !.listed = Listed]
    BY <1>t, <1>2 DEF ListFiles
  <2>2. /\ reader'[r].at = "pointer" /\ reader'[r].from = x.from /\ reader'[r].gen = x.gen
        /\ reader'[r].retry = x.retry /\ reader'[r].ahead = x.ahead
        /\ reader'[r].listed = Listed
    BY <1>t, <2>1 DEF SearchState
  <2>3. x.from > 0 => Complete(x.from) /\ x.from <= published
    BY <1>p, <2>1 DEF Fresh, Aimed
  <2>4. Aimed(reader'[r])
    BY <1>t, <2>1, <2>2, <2>3, ListedNear DEF Aimed
  <2>5. failures = 0 => Patient(reader'[r])
    BY <1>t, <2>1, <2>2, <2>3, ListedNear DEF Fresh, Patient
  <2> QED BY <2>4, <2>5 DEF Fresh
<1>3. CASE ReadPointer(r)
  <2> DEFINE g == IF x.listed > Pointed THEN x.listed ELSE Pointed
  <2>1. x.at = "pointer" /\ reader'[r] = IF g = -1 THEN [x EXCEPT !.at = "failed"] ELSE Try(x, g)
    BY <1>t, <1>3 DEF ReadPointer
  <2>g. g \in Int
    BY <1>t, FoundType
  <2>2. CASE x.from = 0
    <3>1. \A h \in Int : Try(x, h).from = 0
      BY <1>t, <2>2 DEF Try, SearchState
    <3>2. [x EXCEPT !.at = "failed"].from = 0
      BY <1>t, <2>2 DEF SearchState
    <3>3. reader'[r].from = 0
      <4> HIDE DEF g, x
      <4> QED BY <2>1, <2>g, <3>1, <3>2
    <3> QED BY <3>3, FreshFromNone
  <2>3. CASE x.from > 0
    <3>1. /\ Complete(x.from) /\ x.from \in Nat /\ x.from <= published
          /\ x.from <= x.listed /\ x.from <= g /\ g # -1
      BY <1>t, <1>p, <2>1, <2>3, <2>g DEF Fresh, Aimed
    <3>2. Aimed(reader'[r])
      <4> HIDE DEF g
      <4>1. reader'[r] = Try(x, g)
        BY <2>1, <3>1
      <4>2. \/ Try(x, g).at = "failed"
            \/ /\ Try(x, g).at = "try" /\ Try(x, g).from = x.from
               /\ Try(x, g).gen \in {g, g + 1} /\ Try(x, g).target = Try(x, g).gen
        BY <1>t, <2>g, TryNext
      <4> QED BY <2>g, <3>1, <4>1, <4>2 DEF Aimed
    <3>3. ASSUME failures = 0 PROVE Patient(reader'[r])
      <4>1. /\ x.ahead = 0 /\ x.listed <= published + 1 /\ x.gen <= x.listed
            /\ x.retry => x.gen < x.listed
            /\ x.gen <= published
        BY <2>1, <2>3, <3>3 DEF Fresh, Patient
      <4>2. Pointed \in Int /\ Pointed <= published
        BY <1>t, <2>3, <3>1, <3>3, ListedNear
      <4>3. /\ g <= published + 1 /\ x.gen <= g
            /\ x.retry => x.gen < g
        BY <1>t, <2>3, <4>1, <4>2
      <4> HIDE DEF g
      <4>4. /\ Try(x, g).at = "try" /\ Try(x, g).gen = g /\ Try(x, g).target = g
            /\ Try(x, g).retry = (g = x.gen) /\ Try(x, g).ahead = 0
        BY <1>t, <2>g, <4>1, <4>3, TryChosen
      <4>5. Patient(Try(x, g))
        BY <1>t, <2>g, <4>1, <4>3, <4>4 DEF Patient
      <4> QED BY <2>1, <3>1, <4>5
    <3> QED BY <3>2, <3>3 DEF Fresh
  <2> QED BY <1>t, <2>2, <2>3
<1>4. CASE OpenSegments(r)
  <2>1. CASE Segments(x.target) \in disk
    <3>1. reader'[r] = [x EXCEPT !.at = "read", !.held = {Segments(x.target)}] /\ x.at = "try"
      BY <1>t, <1>4, <2>1 DEF OpenSegments
    <3>2. /\ reader'[r].at = "read" /\ reader'[r].from = x.from /\ reader'[r].gen = x.gen
          /\ reader'[r].retry = x.retry /\ reader'[r].ahead = x.ahead
          /\ reader'[r].target = x.target
      BY <1>t, <3>1 DEF SearchState
    <3> QED BY <3>1, <3>2 DEF Fresh, Aimed, Patient
  <2>2. CASE Segments(x.target) \notin disk
    <3>1. reader'[r] = Missed(x) /\ x.at = "try" /\ ~(FilesOf(x.target) \subseteq disk)
      BY <1>t, <1>4, <2>2 DEF OpenSegments, FilesOf
    <3> QED BY <1>t, <3>1, MissedFresh
  <2> QED BY <2>1, <2>2
<1>5. CASE ReadSegments(r)
  <2> DEFINE y == [x EXCEPT !.held = {}, !.todo = DataFiles(log[x.target].infos)]
  <2>1. CASE Complete(x.target)
    <3>1. DataFiles(log[x.target].infos) \subseteq Files
      BY <1>t, <2>1, DataFilesType DEF Complete, TypeOK, Contents
    <3>2. /\ y \in SearchState /\ y.from = x.from /\ y.gen = x.gen /\ y.target = x.target
          /\ y.retry = x.retry /\ y.ahead = x.ahead
      BY <1>t, <3>1 DEF SearchState
    <3>3. reader'[r] = Got(y) /\ x.at = "read"
      BY <1>t, <1>5, <2>1 DEF ReadSegments
    <3> QED BY <1>t, <3>2, <3>3, GotFresh
  <2>2. CASE ~Complete(x.target)
    <3>1. reader'[r] = Missed(x) /\ x.at = "read"
      BY <1>t, <1>5, <2>2 DEF ReadSegments
    <3> QED BY <1>t, <2>2, <3>1, MissedFresh
  <2> QED BY <2>1, <2>2
<1>6. CASE OpenData(r)
  <2>1. PICK f \in x.todo :
          reader'[r] = IF f \in disk
                       THEN Got([x EXCEPT !.todo = @ \ {f}, !.held = @ \cup {f}])
                       ELSE Missed(x)
    BY <1>t, <1>6 DEF OpenData
  <2> DEFINE y == [x EXCEPT !.todo = @ \ {f}, !.held = @ \cup {f}]
  <2>2. x.at = "data" /\ f \in DataFiles(log[x.target].infos)
    BY <1>6 DEF OpenData, Whole
  <2>3. CASE f \in disk
    <3>1. /\ y \in SearchState /\ y.from = x.from /\ y.gen = x.gen /\ y.target = x.target
          /\ y.retry = x.retry /\ y.ahead = x.ahead
      BY <1>t DEF SearchState
    <3> QED BY <1>t, <2>1, <2>2, <2>3, <3>1, GotFresh
  <2>4. CASE f \notin disk
    <3>1. ~(FilesOf(x.target) \subseteq disk)
      BY <2>2, <2>4 DEF FilesOf
    <3> QED BY <1>t, <2>1, <2>2, <2>4, <3>1, MissedFresh
  <2> QED BY <2>3, <2>4
<1>7. CASE CloseSearch(r)
  BY <1>t, <1>7 DEF CloseSearch, Fresh, Aimed, Patient, Idle
<1> QED BY <1>1, <1>2, <1>3, <1>4, <1>5, <1>6, <1>7 DEF Search, Open

\* What the searches know goes on to hold, whoever takes a step.
Sound == SearchInv /\ WholeViews /\ FreshViews

LEMMA SoundInit == Init => Sound
<1>1. Init => \A r \in Readers : reader[r].at = "idle"
  BY DEF Init, Idle
<1> QED BY <1>1, SearchInvInit DEF Sound, WholeViews, Whole, FreshViews, Fresh, Aimed, Patient

LEMMA SoundStep ==
  ASSUME Undisturbed', Sound, [Next]_vars
  PROVE  Sound'
<1> SUFFICES FreshViews'
  BY SearchInvStep, WholeStep DEF Sound, SearchInv, NearInv
<1>t. IInv /\ reader \in [Readers -> SearchState] /\ lost' = 0
  BY DEF Sound, SearchInv, NearInv, IInv, TypeInv, TypeOK, Undisturbed
<1>1. \A x \in SearchState : Fresh(x) => Fresh(x)'
  BY <1>t, FreshStays
<1>2. ASSUME reader' = reader PROVE FreshViews'
  BY <1>t, <1>1, <1>2 DEF Sound, FreshViews, Fresh, Aimed, Patient, Complete
<1>3. ASSUME NEW r \in Readers, Search(r) PROVE FreshViews'
  <2>1. TypeOK /\ Whole(reader[r]) /\ Fresh(reader[r])
    BY <1>t DEF Sound, WholeViews, FreshViews, IInv, TypeInv
  <2>2. Fresh(reader'[r]) /\ \A q \in Readers : q # r => reader'[q] = reader[q]
    BY <1>3, <2>1, SearchFresh, SearchWhole DEF Sound
  <2>3. UNCHANGED <<log, published, failures>>
    BY <1>3 DEF Search, Open, BeginOpening, ListFiles, ReadPointer, OpenSegments, ReadSegments,
                OpenData, CloseSearch, dirVars, boundVars
  <2>4. \A q \in Readers : Fresh(reader'[q])
    BY <2>2 DEF Sound, FreshViews
  <2> QED BY <2>3, <2>4 DEF FreshViews, Fresh, Aimed, Patient, Complete
<1>4. CASE Stop
  <2>1. \A r \in Readers : reader'[r].at = "idle"
    BY <1>4 DEF Stop, Idle
  <2> QED BY <2>1 DEF FreshViews, Fresh, Aimed, Patient
<1>5. Write \/ Modify \/ DeleteFile \/ UNCHANGED vars => reader' = reader
  BY DEF Write, CreateSegments, CompleteSegments, TruncateSegments, UnlinkPointer, CreatePointer,
         FillPointer, SkipPointer, FailCommit, Modify, CreateIndex, OpenWriter, OpenReader, Flush,
         Merge, Compound, StartDeletions, WriteDeletions, CloseWriter, CloseReader, FinishClose,
         TurnOff, DeleteFile, vars
<1> QED BY <1>2, <1>3, <1>4, <1>5 DEF Next, Crash, GiveUp

\* A search is refused only if the index had no commit when it began or an I/O error has
\* struck, however often the writer commits and the deleter removes what it is about to
\* open (FindSegmentsFile::doRun).
THEOREM OpeningsSucceed == Spec => [](Undisturbed => OpenSucceeds)
<1> DEFINE Inv == Undisturbed => Sound
<1>1. Sound => OpenSucceeds
  <2> SUFFICES ASSUME Sound, failures = 0, NEW r \in Readers, reader[r].at = "failed"
               PROVE  reader[r].from = 0
    BY DEF OpenSucceeds
  <2>1. Patient(reader[r]) /\ reader[r].from \in Nat
    BY BoundAssumption
       DEF Sound, FreshViews, Fresh, SearchInv, NearInv, IInv, TypeInv, TypeOK, SearchState
  <2> QED BY <2>1 DEF Patient
<1>2. Inv => (Undisturbed => OpenSucceeds)
  BY <1>1
<1>3. Init => Inv
  BY SoundInit
<1>4. CommitInv /\ Inv /\ [Next]_vars => Inv'
  BY SoundStep, UndisturbedBefore DEF CommitInv, TypeInv
<1> QED BY <1>2, <1>3, <1>4, CommitInvariance, PTL DEF Spec

-----------------------------------------------------------------------------
(* The index is the one CommittedIndex promises                             *)

\* What CommittedIndex sees of a search.
OpeningOf(x) == IF x.at \in {"idle", "open", "failed"} THEN -1 ELSE x.from
ViewOf(x) == IF x.at = "open" THEN [commit |-> x.target, files |-> x.held]
             ELSE [commit |-> 0, files |-> {}]

\* The steps of a search: it begins, goes on, gets its readers, is refused, or ends.
LEMMA SearchMoves ==
  ASSUME TypeOK, NEW r \in Readers, Search(r)
  PROVE  LET x == reader[r]  y == reader'[r]
         IN  /\ UNCHANGED <<log, published>>
             /\ reader' = [reader EXCEPT ![r] = y]
             /\ \/ x.at = "idle" /\ y.at = "list" /\ y.from = published
                \/ /\ x.at \notin {"idle", "open", "failed"} /\ y.at \notin {"idle", "open", "failed"}
                   /\ y.from = x.from
                \/ x.at \in {"read", "data"} /\ y.at = "open" /\ y.target = x.target
                \/ x.at \notin {"idle", "open", "failed"} /\ y.at = "failed" /\ y.from = x.from
                \/ x.at \in {"open", "failed"} /\ y.at = "idle"
<1> USE DEF dirVars
<1> DEFINE x == reader[r]  y == reader'[r]
<1>t. x \in SearchState /\ reader \in [Readers -> SearchState] /\ Pointed \in Int
      /\ x.gen \in Int /\ x.listed \in Int
  BY FoundType DEF TypeOK, SearchState
<1>u. UNCHANGED <<log, published>> /\ reader' = [reader EXCEPT ![r] = y]
  BY <1>t DEF Search, Open, BeginOpening, ListFiles, ReadPointer, OpenSegments, ReadSegments,
              OpenData, CloseSearch
<1>y. \A z \in SearchState, g \in Int :
        Try(z, g).at \in {"try", "failed"} /\ Try(z, g).from = z.from
  BY DEF Try, SearchState
<1>m. Missed(x).at \in {"try", "failed", "list"} /\ Missed(x).from = x.from
  <2> DEFINE z == [x EXCEPT !.todo = {}, !.held = {}]
  <2>1. z \in SearchState /\ z.from = x.from
    BY <1>t DEF SearchState
  <2>2. Try(z, x.gen).from = x.from
    BY <1>t, <1>y, <2>1
  <2>3. [z EXCEPT !.at = "try", !.target = x.gen - 1].from = x.from
        /\ [z EXCEPT !.at = "list"].from = x.from
    BY <1>t, <2>1 DEF SearchState
  <2> QED BY <1>t, <2>2, <2>3, NotWhole DEF Missed
<1>g. \A z \in SearchState :
        \/ Got(z).at = "open" /\ Got(z).target = z.target
        \/ Got(z).at = "data" /\ Got(z).from = z.from
  BY DEF Got, SearchState, Idle
<1>1. CASE BeginOpening(r)
  BY <1>t, <1>u, <1>1 DEF BeginOpening, Idle
<1>2. CASE ListFiles(r)
  <2>1. x.at = "list" /\ y.at = "pointer" /\ y.from = x.from
    BY <1>t, <1>2 DEF ListFiles, SearchState
  <2> QED BY <1>u, <2>1
<1>3. CASE ReadPointer(r)
  <2> DEFINE g == IF x.listed > Pointed THEN x.listed ELSE Pointed
  <2>1. x.at = "pointer" /\ g \in Int
        /\ y = IF g = -1 THEN [x EXCEPT !.at = "failed"] ELSE Try(x, g)
    BY <1>t, <1>3 DEF ReadPointer
  <2>2. Try(x, g).at \in {"try", "failed"} /\ Try(x, g).from = x.from
    BY <1>t, <1>y, <2>1
  <2>3. [x EXCEPT !.at = "failed"].at = "failed" /\ [x EXCEPT !.at = "failed"].from = x.from
    BY <1>t DEF SearchState
  <2>4. y.at \in {"try", "failed"} /\ y.from = x.from
    <3> HIDE DEF g, x, y
    <3> QED BY <2>1, <2>2, <2>3
  <2> QED BY <1>u, <2>1, <2>4
<1>4. CASE OpenSegments(r)
  <2>1. x.at = "try" /\ y = IF Segments(x.target) \in disk
                            THEN [x EXCEPT !.at = "read", !.held = {Segments(x.target)}]
                            ELSE Missed(x)
    BY <1>t, <1>4 DEF OpenSegments
  <2>2. /\ [x EXCEPT !.at = "read", !.held = {Segments(x.target)}].at = "read"
        /\ [x EXCEPT !.at = "read", !.held = {Segments(x.target)}].from = x.from
    BY <1>t DEF SearchState
  <2>3. y.at \in {"read", "try", "failed", "list"} /\ y.from = x.from
    <3> HIDE DEF x, y
    <3> QED BY <1>m, <2>1, <2>2
  <2> QED BY <1>u, <2>1, <2>3
<1>5. CASE ReadSegments(r)
  <2> DEFINE z == [x EXCEPT !.held = {}, !.todo = DataFiles(log[x.target].infos)]
  <2>1. x.at = "read" /\ y = IF Complete(x.target) THEN Got(z) ELSE Missed(x)
    BY <1>t, <1>5 DEF ReadSegments
  <2>2. CASE Complete(x.target)
    <3>1. DataFiles(log[x.target].infos) \subseteq Files
      BY <2>2, DataFilesType DEF Complete, TypeOK, Contents
    <3>2. z \in SearchState /\ z.target = x.target /\ z.from = x.from
      BY <1>t, <3>1 DEF SearchState
    <3> HIDE DEF x, z
    <3> QED BY <1>g, <1>u, <2>1, <2>2, <3>2 DEF x
  <2>3. CASE ~Complete(x.target)
    BY <1>m, <1>u, <2>1, <2>3
  <2> QED BY <2>2, <2>3
<1>6. CASE OpenData(r)
  <2>1. PICK f \in x.todo : y = IF f \in disk
                                THEN Got([x EXCEPT !.todo = @ \ {f}, !.held = @ \cup {f}])
                                ELSE Missed(x)
    BY <1>t, <1>6 DEF OpenData
  <2> DEFINE z == [x EXCEPT !.todo = @ \ {f}, !.held = @ \cup {f}]
  <2>2. x.at = "data"
    BY <1>6 DEF OpenData
  <2>3. z \in SearchState /\ z.target = x.target /\ z.from = x.from
    BY <1>t DEF SearchState
  <2>4. y = IF f \in disk THEN Got(z) ELSE Missed(x)
    BY <2>1
  <2> HIDE DEF z
  <2> QED BY <1>g, <1>m, <1>u, <2>2, <2>3, <2>4
<1>7. CASE CloseSearch(r)
  BY <1>t, <1>u, <1>7 DEF CloseSearch, Idle
<1> QED BY <1>1, <1>2, <1>3, <1>4, <1>5, <1>6, <1>7 DEF Search, Open

\* The abstract variables by the names of this module.
IndexVersion == published
IndexStruck  == failures > 0
IndexFiles   == [g \in Gens |-> DataFiles(log[g].infos)]
IndexOpening == [r \in Readers |-> OpeningOf(reader[r])]
IndexView    == [r \in Readers |-> ViewOf(reader[r])]

LEMMA SearchImplements ==
  ASSUME Sound, Sound', NEW r \in Readers, Search(r)
  PROVE  [Index!Step]_(Index!vars)
<1> DEFINE x == reader[r]  y == reader'[r]
<1>t. TypeOK /\ Ordered /\ reader \in [Readers -> SearchState] /\ x.from \in Nat
      /\ published \in Nat /\ failures \in Nat
  BY BoundAssumption DEF Sound, SearchInv, NearInv, IInv, TypeInv, Safe, TypeOK, SearchState
<1>0. failures' = failures
  BY DEF Search, Open, BeginOpening, ListFiles, ReadPointer, OpenSegments, ReadSegments,
         OpenData, CloseSearch, boundVars
<1>1. UNCHANGED <<log, published>> /\ reader' = [reader EXCEPT ![r] = y]
  BY <1>t, SearchMoves
<1>2. IndexFiles' = IndexFiles /\ IndexVersion' = IndexVersion /\ IndexStruck' = IndexStruck
  BY <1>0, <1>1 DEF IndexFiles, IndexVersion, IndexStruck
<1>3. /\ IndexOpening' = [IndexOpening EXCEPT ![r] = OpeningOf(y)]
      /\ IndexView' = [IndexView EXCEPT ![r] = ViewOf(y)]
  BY <1>t, <1>1 DEF IndexOpening, IndexView
<1>4. IndexOpening[r] = OpeningOf(x) /\ IndexView[r] = ViewOf(x)
  BY DEF IndexOpening, IndexView
<1>v. /\ Index!vars = <<IndexVersion, IndexFiles, IndexOpening, IndexView, IndexStruck>>
      /\ Index!vars' = <<IndexVersion', IndexFiles', IndexOpening', IndexView', IndexStruck'>>
  BY DEF Index!vars, IndexVersion, IndexFiles, IndexOpening, IndexView, IndexStruck, OpeningOf, ViewOf
<1>5. CASE x.at = "idle" /\ y.at = "list" /\ y.from = published
  <2>1. /\ OpeningOf(x) = -1 /\ ViewOf(x) = Index!NoView /\ ViewOf(y) = ViewOf(x)
        /\ OpeningOf(y) = published
    BY <1>5 DEF OpeningOf, ViewOf, Index!NoView
  <2>2. IndexView' = IndexView
    BY <1>3, <1>4, <2>1 DEF IndexView
  <2>3. Index!Begin(r)
    BY <1>2, <1>3, <1>4, <2>1, <2>2
       DEF Index!Begin, IndexVersion, IndexFiles, IndexOpening, IndexView, IndexStruck,
               OpeningOf, ViewOf
  <2> QED BY <2>3 DEF Index!Step
<1>6. CASE /\ x.at \notin {"idle", "open", "failed"} /\ y.at \notin {"idle", "open", "failed"}
           /\ y.from = x.from
  <2>1. OpeningOf(y) = OpeningOf(x) /\ ViewOf(y) = ViewOf(x)
    BY <1>6 DEF OpeningOf, ViewOf
  <2>2. IndexOpening' = IndexOpening /\ IndexView' = IndexView
    BY <1>3, <1>4, <2>1 DEF IndexOpening, IndexView
  <2> QED BY <1>2, <1>v, <2>2
<1>7. CASE x.at \in {"read", "data"} /\ y.at = "open" /\ y.target = x.target
  <2>1. Complete(x.target) /\ y.held = DataFiles(log[x.target].infos)
    BY <1>1, <1>7 DEF Sound, WholeViews, Whole, Complete
  <2>2. x.target \in Gens /\ x.target > 0 /\ x.target <= published /\ x.target \in Int
    BY <1>t, <2>1 DEF Complete, Ordered, Gens
  <2>3. x.from - (IF Windows THEN 1 ELSE 0) <= x.target
    <3>1. Aimed(x) /\ x.gen \in Int
      BY <1>t DEF Sound, FreshViews, Fresh, SearchState
    <3>2. CASE x.from > 0
      BY <1>7, <1>t, <2>1, <2>2, <3>1, <3>2 DEF Aimed
    <3> QED BY <1>t, <2>2, <3>2
  <2>4. OpeningOf(x) = x.from /\ OpeningOf(y) = -1
        /\ ViewOf(y) = [commit |-> x.target, files |-> IndexFiles[x.target]]
    BY <1>7, <2>1, <2>2 DEF OpeningOf, ViewOf, IndexFiles
  <2>5. x.target \in (IndexOpening[r] - (IF Windows THEN 1 ELSE 0))..IndexVersion
        /\ IndexOpening[r] # -1
    BY <1>t, <1>4, <2>2, <2>3, <2>4 DEF IndexVersion
  <2>6. IndexView' = [IndexView EXCEPT ![r] = [commit |-> x.target, files |-> IndexFiles[x.target]]]
        /\ IndexOpening' = [IndexOpening EXCEPT ![r] = -1]
    BY <1>3, <2>4
  <2>7. /\ IndexOpening[r] # -1
        /\ \E g \in (IndexOpening[r] - (IF Windows THEN 1 ELSE 0))..IndexVersion :
             /\ g > 0
             /\ IndexView' = [IndexView EXCEPT ![r] = [commit |-> g, files |-> IndexFiles[g]]]
        /\ IndexOpening' = [IndexOpening EXCEPT ![r] = -1]
        /\ UNCHANGED <<IndexVersion, IndexFiles, IndexStruck>>
    BY <1>2, <2>2, <2>5, <2>6
  <2>8. Index!Deliver(r)
    BY <2>7
       DEF Index!Deliver, IndexVersion, IndexFiles, IndexOpening, IndexView, IndexStruck,
               OpeningOf, ViewOf
  <2> QED BY <2>8 DEF Index!Step
<1>8. CASE x.at \notin {"idle", "open", "failed"} /\ y.at = "failed" /\ y.from = x.from
  <2>1. failures = 0 => Patient(y)
    BY <1>0, <1>1 DEF Sound, FreshViews, Fresh, Patient
  <2>2. x.from = 0 \/ IndexStruck
    BY <1>t, <1>8, <2>1 DEF Patient, IndexStruck
  <2>3. OpeningOf(x) = x.from /\ OpeningOf(y) = -1 /\ ViewOf(y) = ViewOf(x)
    BY <1>8, <2>2 DEF OpeningOf, ViewOf
  <2>4. IndexView' = IndexView
    BY <1>3, <1>4, <2>3 DEF IndexView
  <2>5. /\ IndexOpening[r] = 0 \/ (IndexStruck /\ IndexOpening[r] # -1)
        /\ IndexOpening' = [IndexOpening EXCEPT ![r] = -1]
        /\ UNCHANGED <<IndexVersion, IndexFiles, IndexView, IndexStruck>>
    <3>1. IndexOpening[r] = x.from /\ x.from # -1
      BY <1>t, <1>4, <2>3
    <3>2. IndexOpening' = [IndexOpening EXCEPT ![r] = -1]
      BY <1>3, <2>3
    <3> HIDE DEF x, y, IndexStruck, IndexOpening
    <3> QED BY <1>2, <2>2, <2>4, <3>1, <3>2
  <2>6. Index!Refuse(r)
    BY <2>5
       DEF Index!Refuse, IndexVersion, IndexFiles, IndexOpening, IndexView, IndexStruck,
               OpeningOf, ViewOf
  <2> QED BY <2>6 DEF Index!Step
<1>9. CASE x.at \in {"open", "failed"} /\ y.at = "idle"
  <2>1. OpeningOf(x) = -1 /\ OpeningOf(y) = -1 /\ ViewOf(y) = Index!NoView
    BY <1>9 DEF OpeningOf, ViewOf, Index!NoView
  <2>2. IndexOpening' = IndexOpening
    BY <1>3, <1>4, <2>1 DEF IndexOpening
  <2>3. Index!Close(r)
    BY <1>2, <1>3, <2>1, <2>2
       DEF Index!Close, IndexVersion, IndexFiles, IndexOpening, IndexView, IndexStruck,
               OpeningOf, ViewOf
  <2> QED BY <2>3 DEF Index!Step
<1> QED BY <1>t, <1>5, <1>6, <1>7, <1>8, <1>9, SearchMoves

LEMMA InitImplements == Init => Index!Init
<1> SUFFICES ASSUME Init PROVE Index!Init
  OBVIOUS
<1>1. \A g \in Gens : DataFiles(log[g].infos) = {}
  BY DEF Init, NoCommit, DataFiles
<1>2. Undisturbed = TRUE
  BY DEF Init, Undisturbed
<1> QED BY <1>1, <1>2 DEF Init, Index!Init, Index!NoView, Idle, Gens

LEMMA StepImplements ==
  ASSUME Undisturbed', Sound, [Next]_vars
  PROVE  [Index!Step]_(Index!vars)
<1>t. /\ IInv /\ Sound' /\ published \in Nat /\ failures \in Nat /\ failures' \in Nat
      /\ lost' = 0
  BY SoundStep, BoundAssumption DEF Sound, SearchInv, NearInv, IInv, TypeInv, TypeOK, Undisturbed
<1>v. /\ Index!vars = <<IndexVersion, IndexFiles, IndexOpening, IndexView, IndexStruck>>
      /\ Index!vars' = <<IndexVersion', IndexFiles', IndexOpening', IndexView', IndexStruck'>>
  BY DEF Index!vars, IndexVersion, IndexFiles, IndexOpening, IndexView, IndexStruck, OpeningOf, ViewOf
<1>1. CASE UNCHANGED <<log, published, reader>>
  <2>1. UNCHANGED <<IndexVersion, IndexFiles, IndexOpening, IndexView>>
    BY <1>1 DEF IndexVersion, IndexFiles, IndexOpening, IndexView, OpeningOf, ViewOf
  <2>2. CASE IndexStruck' = IndexStruck
    BY <1>v, <2>1, <2>2
  <2>3. CASE IndexStruck' # IndexStruck
    <3>1. failures' # 0
      BY <1>t, <2>3, FailuresGrow DEF IndexStruck, IInv, TypeInv
    <3>2. IndexStruck' = TRUE
      BY <1>t, <3>1 DEF IndexStruck
    <3>3. Index!Strike
      BY <2>1, <3>2
         DEF Index!Strike, IndexVersion, IndexFiles, IndexOpening, IndexView, IndexStruck,
             OpeningOf, ViewOf
    <3> QED BY <3>3 DEF Index!Step
  <2> QED BY <2>2, <2>3
<1>2. CASE /\ published' = gen /\ gen > published /\ gen \in Gens
           /\ reader' = reader /\ failures' = failures
           /\ \A g \in Gens : g # gen => log'[g] = log[g]
  <2>1. IndexOpening' = IndexOpening /\ IndexView' = IndexView /\ IndexStruck' = IndexStruck
    BY <1>2 DEF IndexOpening, IndexView, IndexStruck, OpeningOf, ViewOf
  <2>2. IndexVersion' \in (IndexVersion + 1)..MaxGen
    BY <1>t, <1>2, BoundAssumption DEF IndexVersion, Gens
  <2>3. /\ \A g \in 1..MaxGen : g # IndexVersion' => IndexFiles'[g] = IndexFiles[g]
        /\ DOMAIN IndexFiles' = 1..MaxGen
    BY <1>2 DEF IndexVersion, IndexFiles, Gens
  <2>4. Index!Commit
    BY <2>1, <2>2, <2>3
       DEF Index!Commit, IndexVersion, IndexFiles, IndexOpening, IndexView, IndexStruck,
               OpeningOf, ViewOf
  <2> QED BY <2>4 DEF Index!Step
<1>3. ASSUME NEW r \in Readers, Search(r) PROVE [Index!Step]_(Index!vars)
  BY <1>3, <1>t, SearchImplements
<1>4. CASE Stop
  <2>1. UNCHANGED <<log, published, failures>> /\ reader' = [r \in Readers |-> Idle]
    BY <1>4 DEF Stop, dirVars
  <2>2. Index!Crash
    BY <2>1 DEF Index!Crash, Index!NoView, Idle
  <2> QED BY <2>2 DEF Index!Step
<1>5. Write \/ Modify \/ DeleteFile \/ UNCHANGED vars => reader' = reader
  BY DEF Write, CreateSegments, CompleteSegments, TruncateSegments, UnlinkPointer, CreatePointer,
         FillPointer, SkipPointer, FailCommit, Modify, CreateIndex, OpenWriter, OpenReader, Flush,
         Merge, Compound, StartDeletions, WriteDeletions, CloseWriter, CloseReader, FinishClose,
         TurnOff, DeleteFile, vars
<1> QED BY <1>t, <1>1, <1>2, <1>3, <1>4, <1>5, CommitSteps DEF Next, Crash, GiveUp

\* The searches see whole commits, none older than the newest when they began, or one older
\* at most where open files cannot be deleted, they are refused only if there was none or an
\* I/O error has struck, and the commits follow each other: the writer, its deleter and
\* FindSegmentsFile implement CommittedIndex until they are disturbed.
THEOREM CommitImplementsIndex == Spec => ImplementsCommittedIndex
<1> DEFINE Inv == Undisturbed => Sound
<1>1. Init => Index!Init
  BY InitImplements
<1>2. Init => TypeInv /\ Inv
  BY TypeInit, SoundInit
<1>3. TypeInv /\ Inv /\ [Next]_vars => TypeInv' /\ Inv'
  BY TypeStep, SoundStep, UndisturbedBefore DEF TypeInv
<1>4. TypeInv /\ Inv /\ [Next]_vars => [Index!Next]_<<Index!vars, ~Undisturbed>>
  <2> SUFFICES ASSUME TypeInv, Inv, [Next]_vars PROVE [Index!Next]_<<Index!vars, ~Undisturbed>>
    OBVIOUS
  <2>1. CASE Undisturbed'
    <3>1. Undisturbed
      BY <2>1, UndisturbedBefore DEF TypeInv
    <3>2. [Index!Step]_(Index!vars)
      BY <2>1, <3>1, StepImplements
    <3> QED BY <2>1, <3>1, <3>2 DEF Index!Next
  <2>2. CASE ~Undisturbed'
    BY <2>2 DEF Index!Next
  <2> QED BY <2>1, <2>2
<1> QED BY <1>1, <1>2, <1>3, <1>4, PTL DEF Spec, ImplementsCommittedIndex, Index!Spec

=========================================================================
