------------------------- MODULE IndexCommitProofs ------------------------
(***************************************************************************)
(* IndexCommit for every number of commits, segments, crashes and reported *)
(* I/O errors: the types, and, where no error is lost, that the newest     *)
(* commit is readable at every moment and that a search sees the files of  *)
(* one commit.  Where open files cannot be deleted this holds as long as   *)
(* nothing crashes or fails.                                               *)
(***************************************************************************)
EXTENDS IndexCommit, WellFoundedInduction, TLAPS

-----------------------------------------------------------------------------
(* The inductive invariant                                                  *)

\* Nothing is being removed while a commit is written.
NothingDoomed == step # "clean" => doomed = {}

\* A commit is begun only below the bound, a packed segment has a name, and but for
\* a new index there is a commit to keep.
Room ==
  /\ step = "data" => gen < MaxGen
  /\ step \in {"segments", "pointer", "create", "fill"} => gen > 0
  /\ step # "clean" /\ job \in {"flush", "merge"} => counter > 0
  /\ step # "clean" /\ job = "close" => after # "compound"
  /\ step = "clean" /\ after = "compound" => counter > 0
  /\ step # "clean" /\ job # "create" => kept > 0
  /\ step = "clean" /\ mode # "off" /\ after # "off" => kept > 0
  /\ after = "delete" => mode = "reader"

TypeInv == TypeOK /\ NothingDoomed /\ Room

\* Complete commits are numbered in the order they were written.
Ordered == /\ published > 0 => Complete(published)
           /\ \A g \in Gens : Complete(g) => g <= published

\* The deleter never has a file of the newest commit on its list.
DoomedAreDead == published > 0 => doomed \cap FilesOf(published) = {}

\* What the modifier has in memory at rest is the newest commit.
AtRest == step = "clean" /\ mode # "off" /\ after # "off" =>
            published > 0 /\ infos = log[published].infos

\* generation never falls behind the newest commit.
Ahead == /\ mode # "off" => gen >= published
         /\ step = "segments" => gen > published

\* While a commit is written its files are on the disk, and the clone is the
\* newest commit, but for a new index.
Writing ==
  /\ step # "clean" => mode # "off" /\ DataFiles(infos) \subseteq disk
  /\ step \in {"data", "segments"} =>
       IF job = "create" THEN infos = {} ELSE published > 0 /\ old = log[published].infos
  /\ step \in {"segments", "pointer", "create", "fill"} => Segments(gen) \in disk
  /\ step \in {"pointer", "create", "fill"} =>
       published = gen /\ gen > 0 /\ log[gen].infos = infos

\* A reader that deletes keeps the newest commit.
Deleting == /\ step # "clean" /\ job = "delete" => mode = "reader"
            /\ mode = "reader" /\ step \in {"clean", "data", "segments"} => kept = published

\* What the deleter could not remove and will remove later is neither a file of the newest
\* commit nor one of the commit being written, whose names it might have again.
PendingAreDead ==
  /\ ~Windows => deletable = {}
  /\ published > 0 => deletable \cap FilesOf(published) = {}
  /\ step # "clean" => deletable \cap DataFiles(infos) = {}
  /\ step \in {"segments", "pointer", "create", "fill"} => Segments(gen) \notin deletable

\* A name that no file written from now on will have.
Used(f) ==
  /\ f.kind = "segments" => f.gen <= gen
  /\ f.kind # "segments" =>
       /\ f.of < counter
       /\ \A s \in infos : s.name = f.of => /\ f.kind = "del" => f.gen <= s.del
                                            /\ f.kind = "cfs" => s.cfs

\* Where nothing crashes or fails, the names of files are used once: neither counter nor
\* generation ever goes back.
Named ==
  /\ \A f \in disk \cup deletable : Used(f)
  /\ \A s, t \in infos : s.name = t.name => s = t
  /\ \A s \in infos : s.name < counter
  /\ step = "clean" => IF published = 0 THEN disk = {}
                       ELSE /\ pointer > 0 /\ gen = published
                            /\ infos = log[published].infos /\ counter = log[published].counter
  /\ step \in {"pointer", "create", "fill"} => log[gen].counter = counter
  /\ (step # "clean" /\ job \in {"flush", "merge"}) \/ (step = "clean" /\ after = "compound") =>
       NewSegment(counter - 1) \in infos
  /\ after # "broken"

NamesOnce == Windows => Named

Safe == /\ CommitReadable /\ Ordered /\ DoomedAreDead /\ AtRest /\ Ahead /\ Writing /\ Deleting
        /\ PendingAreDead

IInv == TypeInv /\ Safe /\ NamesOnce

-----------------------------------------------------------------------------
(* The largest element of a set of numbers                                  *)

LEMMA MaxExists ==
  ASSUME NEW N \in Nat, NEW T, T \subseteq 1..N, T # {}
  PROVE  \E x \in T : \A y \in T : y <= x
<1> DEFINE U == {N - y : y \in T}
<1>1. U \subseteq Nat /\ U # {}
  <2>1. PICK y \in T : TRUE
    OBVIOUS
  <2>2. N - y \in U
    BY <2>1
  <2>3. \A z \in T : N - z \in Nat
    OBVIOUS
  <2> QED BY <2>2, <2>3
<1>2. \E u \in U : \A v \in U : ~(<<v, u>> \in OpToRel(<, Nat))
  <2> HIDE DEF U
  <2>1. IsWellFoundedOn(OpToRel(<, Nat), Nat)
    BY NatLessThanWellFounded
  <2> QED BY <1>1, <2>1, WFMin
<1>3. \A u, v \in Nat : v < u => <<v, u>> \in OpToRel(<, Nat)
  BY DEF OpToRel
<1>4. PICK x \in T : \A v \in U : ~(<<v, N - x>> \in OpToRel(<, Nat))
  BY <1>2
<1>5. \A y \in T : y <= x
  <2> TAKE y \in T
  <2>1. N - y \in U /\ N - y \in Nat /\ N - x \in Nat
    OBVIOUS
  <2>2. ~(N - y < N - x)
    BY <1>3, <1>4, <2>1
  <2> QED BY <2>2
<1> QED BY <1>5

-----------------------------------------------------------------------------
(* Files and generations have their types                                   *)

LEMMA DataFilesType ==
  ASSUME NEW S, S \subseteq Segment
  PROVE  DataFiles(S) \subseteq Files
<1>1. \A s \in S : Parts(s.name) \in Files /\ Cfs(s.name) \in Files /\ Del(s.name, s.del) \in Files
  BY BoundAssumption DEF Segment, Names, Files, Parts, Cfs, Del
<1> QED BY <1>1 DEF DataFiles

\* Files of data are no segments_N.
LEMMA DataFilesKind ==
  ASSUME NEW S, NEW f \in DataFiles(S)
  PROVE  f.kind # "segments"
BY DEF DataFiles, Parts, Cfs, Del

LEMMA FilesOfType ==
  ASSUME TypeOK, NEW g \in Gens
  PROVE  FilesOf(g) \subseteq Files
<1>1. log[g].infos \subseteq Segment
  BY DEF TypeOK, Contents
<1>2. Segments(g) \in Files
  BY BoundAssumption DEF Segments, Files, Gens
<1> QED BY <1>1, <1>2, DataFilesType DEF FilesOf

\* What getCurrentSegmentGeneration returns.
LEMMA ListedIsMax ==
  /\ Listed \in Int
  /\ SegGens = {} => Listed = -1
  /\ SegGens # {} => Listed \in SegGens /\ \A h \in SegGens : h <= Listed
<1>1. SegGens \subseteq 1..(MaxGen + 1) /\ MaxGen + 1 \in Nat
  BY BoundAssumption DEF SegGens
<1>2. CASE SegGens = {}
  BY <1>2 DEF Listed
<1>3. CASE SegGens # {}
  <2>1. \E g \in SegGens : \A h \in SegGens : h <= g
    BY <1>1, <1>3, MaxExists
  <2>2. Listed \in SegGens /\ \A h \in SegGens : h <= Listed
    BY <1>3, <2>1 DEF Listed
  <2> QED BY <1>1, <1>3, <2>2
<1> QED BY <1>2, <1>3

LEMMA FoundType ==
  ASSUME TypeOK
  PROVE  /\ Newest \in Int /\ Pointed \in Int
         /\ Found \in 0..MaxGen /\ LastRead \in Nat
         /\ Found > 0 => /\ Complete(Found) /\ Segments(Found) \in disk
                         /\ Found \in Gens
                         /\ log[Found].infos \subseteq Segment
                         /\ log[Found].counter \in 0..MaxNames
<1>1. Newest \in Int /\ Pointed \in Int
  BY ListedIsMax, BoundAssumption DEF Newest, Pointed, TypeOK
<1>2. Found = 0 \/ (Complete(Found) /\ Segments(Found) \in disk)
  BY <1>1 DEF Found
<1>3. \A g : Complete(g) => /\ g \in Gens /\ g \in 1..MaxGen
                            /\ log[g].infos \subseteq Segment
                            /\ log[g].counter \in 0..MaxNames
  BY BoundAssumption DEF Complete, TypeOK, Contents, Gens
<1>4. Found \in 0..MaxGen
  BY <1>2, <1>3, BoundAssumption
<1>5. LastRead \in Nat
  BY <1>1, <1>4, BoundAssumption DEF LastRead
<1> QED BY <1>1, <1>2, <1>3, <1>4, <1>5

-----------------------------------------------------------------------------
(* The types                                                                *)

LEMMA IdleType == Idle \in SearchState
BY BoundAssumption, CodeAssumption DEF Idle, SearchState

\* The choices of the search loop stay in SearchState.
LEMMA TryType ==
  ASSUME NEW x \in SearchState, NEW g \in Int
  PROVE  Try(x, g) \in SearchState
<1> DEFINE look == x.ahead > 0 \/ (g = x.gen /\ x.retry)
           more == look /\ x.ahead < Lookahead
           next == IF more THEN g + 1 ELSE g
<1>1. next \in Int /\ (next = x.gen) \in BOOLEAN
  OBVIOUS
<1>2. (IF more THEN x.ahead + 1 ELSE x.ahead) \in 0..Lookahead
  BY CodeAssumption DEF SearchState
<1>3. [x EXCEPT !.at = "failed"] \in SearchState
  BY DEF SearchState
<1>4. [x EXCEPT !.at = "try", !.gen = next, !.target = next,
                !.retry = (next = x.gen), !.listed = -1,
                !.ahead = IF more THEN @ + 1 ELSE @] \in SearchState
  <2>1. \A n \in Int, b \in BOOLEAN, a \in 0..Lookahead :
          [x EXCEPT !.at = "try", !.gen = n, !.target = n, !.retry = b,
                    !.listed = -1, !.ahead = a] \in SearchState
    <3> TAKE n \in Int, b \in BOOLEAN, a \in 0..Lookahead
    <3>1. -1 \in Int
      OBVIOUS
    <3> QED BY <3>1, Zenon DEF SearchState
  <2> HIDE DEF next, more
  <2> QED BY <1>1, <1>2, <2>1
<1> QED BY <1>3, <1>4 DEF Try

LEMMA MissedType ==
  ASSUME NEW x \in SearchState
  PROVE  Missed(x) \in SearchState
<1> DEFINE y == [x EXCEPT !.todo = {}, !.held = {}]
<1>1. y \in SearchState /\ x.gen \in Int
  BY DEF SearchState
<1>2. Try(y, x.gen) \in SearchState
  BY <1>1, TryType
<1>3. [y EXCEPT !.at = "try", !.target = x.gen - 1] \in SearchState
  <2>1. x.gen - 1 \in Int
    BY <1>1
  <2> HIDE DEF y
  <2> QED BY <1>1, <2>1 DEF SearchState
<1>4. [y EXCEPT !.at = "list"] \in SearchState
  BY <1>1 DEF SearchState
<1> QED BY <1>2, <1>3, <1>4 DEF Missed

LEMMA GotType ==
  ASSUME NEW x \in SearchState
  PROVE  Got(x) \in SearchState
BY IdleType DEF Got, SearchState

\* A step of a search leaves the search in its states.
LEMMA SearchType ==
  ASSUME TypeOK, NEW r \in Readers, Search(r)
  PROVE  reader' \in [Readers -> SearchState]
<1> DEFINE x == reader[r]
<1>1. x \in SearchState /\ reader \in [Readers -> SearchState]
  BY DEF TypeOK
<1>2. CASE BeginOpening(r)
  <2>1. [Idle EXCEPT !.at = "list", !.from = published] \in SearchState
    BY IdleType DEF SearchState, TypeOK
  <2> QED BY <1>1, <1>2, <2>1 DEF BeginOpening
<1>3. CASE ListFiles(r)
  <2>1. [x EXCEPT !.at = "pointer", !.listed = Listed] \in SearchState
    BY <1>1, ListedIsMax DEF SearchState
  <2>2. reader' = [reader EXCEPT ![r] = [x EXCEPT !.at = "pointer", !.listed = Listed]]
    BY <1>1, <1>3 DEF ListFiles
  <2> QED BY <1>1, <2>1, <2>2
<1>4. CASE ReadPointer(r)
  <2> DEFINE g == IF x.listed > Pointed THEN x.listed ELSE Pointed
  <2>1. g \in Int
    BY <1>1, FoundType DEF SearchState
  <2>2. Try(x, g) \in SearchState /\ [x EXCEPT !.at = "failed"] \in SearchState
    BY <1>1, <2>1, TryType DEF SearchState
  <2>3. reader' = [reader EXCEPT ![r] = IF g = -1 THEN [x EXCEPT !.at = "failed"] ELSE Try(x, g)]
    BY <1>4 DEF ReadPointer
  <2> HIDE DEF g, x
  <2> QED BY <1>1, <2>2, <2>3
<1>5. CASE OpenSegments(r)
  <2>1. CASE Segments(x.target) \in disk
    <3>1. Segments(x.target) \in Files
      BY <2>1 DEF TypeOK
    <3> HIDE DEF x
    <3>2. [x EXCEPT !.at = "read", !.held = {Segments(x.target)}] \in SearchState
      BY <1>1, <3>1 DEF SearchState
    <3> QED BY <1>1, <1>5, <2>1, <3>2 DEF OpenSegments, x
  <2>2. CASE Segments(x.target) \notin disk
    BY <1>1, <1>5, <2>2, MissedType DEF OpenSegments
  <2> QED BY <2>1, <2>2
<1>6. CASE ReadSegments(r)
  <2> DEFINE y == [x EXCEPT !.held = {}, !.todo = DataFiles(log[x.target].infos)]
  <2>1. CASE Complete(x.target)
    <3>1. log[x.target].infos \subseteq Segment
      BY <2>1 DEF Complete, TypeOK, Contents
    <3>2. DataFiles(log[x.target].infos) \subseteq Files
      BY <3>1, DataFilesType
    <3>3. y \in SearchState
      BY <1>1, <3>2 DEF SearchState
    <3>4. Got(y) \in SearchState
      BY <3>3, GotType
    <3> QED BY <1>1, <1>6, <2>1, <3>4 DEF ReadSegments
  <2>2. CASE ~Complete(x.target)
    BY <1>1, <1>6, <2>2, MissedType DEF ReadSegments
  <2> QED BY <2>1, <2>2
<1>7. CASE OpenData(r)
  <2>1. PICK f \in x.todo :
          reader' = [reader EXCEPT ![r] =
                       IF f \in disk
                       THEN Got([x EXCEPT !.todo = @ \ {f}, !.held = @ \cup {f}])
                       ELSE Missed(x)]
    BY <1>7 DEF OpenData
  <2>2. [x EXCEPT !.todo = @ \ {f}, !.held = @ \cup {f}] \in SearchState
    BY <1>1 DEF SearchState
  <2>3. Got([x EXCEPT !.todo = @ \ {f}, !.held = @ \cup {f}]) \in SearchState
    BY <2>2, GotType
  <2>4. Missed(x) \in SearchState
    BY <1>1, MissedType
  <2> HIDE DEF x
  <2> QED BY <1>1, <2>1, <2>3, <2>4
<1>8. CASE CloseSearch(r)
  BY <1>1, <1>8, IdleType DEF CloseSearch
<1> QED BY <1>2, <1>3, <1>4, <1>5, <1>6, <1>7, <1>8 DEF Search, Open


\* Init has the types, and every step keeps them.
LEMMA TypeInit == Init => TypeInv
<1>1. NoCommit \in Contents
  BY BoundAssumption DEF NoCommit, Contents
<1> SUFFICES ASSUME Init PROVE TypeInv
  OBVIOUS
<1>2. log \in [Gens -> Contents]
  BY <1>1 DEF Init
<1>3. reader \in [Readers -> SearchState]
  BY IdleType DEF Init
<1>4. /\ disk \subseteq Files /\ doomed \subseteq Files /\ deletable \subseteq Files
      /\ infos \subseteq Segment /\ old \subseteq Segment
  BY DEF Init
<1>5. pending \in BOOLEAN
  BY DEF Init
<1>6. /\ pointer \in -1..MaxGen /\ published \in 0..MaxGen
      /\ gen \in 0..MaxGen /\ kept \in 0..MaxGen /\ counter \in 0..MaxNames
      /\ crashes \in 0..MaxCrashes /\ failures \in 0..MaxFailures /\ lost \in 0..MaxLost
  BY BoundAssumption DEF Init
<1>7. mode = "off" /\ step = "clean" /\ after = "off" /\ job = "none"
  BY DEF Init
<1> QED BY <1>2, <1>3, <1>4, <1>5, <1>6, <1>7 DEF TypeInv, TypeOK, NothingDoomed, Room

\* The steps of the modifier that begin a commit.
LEMMA BeginType ==
  ASSUME TypeInv, NEW S, S \subseteq Segment, NEW F, F \subseteq Files,
         NEW what \in {"flush", "merge", "compound", "delete", "close"},
         Begin(what, S, F)
  PROVE  /\ disk' \subseteq Files /\ infos' \subseteq Segment /\ old' \subseteq Segment
         /\ step' = "data" /\ job' = what /\ gen < MaxGen
BY DEF Begin, TypeInv, TypeOK

LEMMA ModifyType ==
  ASSUME TypeInv, Modify
  PROVE  TypeInv'
<1> USE DEF TypeInv, dirVars, memVars, workVars, delVars, boundVars, NothingDoomed, Room, Ready
<1>t. TypeOK /\ NothingDoomed /\ Room
  OBVIOUS
<1>n. counter \in Nat /\ (counter > 0 => counter - 1 \in Nat)
  BY BoundAssumption DEF TypeOK
<1>s. counter < MaxNames => /\ NewSegment(counter) \in Segment
                            /\ Parts(counter) \in Files
  BY <1>n, BoundAssumption DEF NewSegment, Segment, Names, Parts, Files
<1>1. CASE CreateIndex
  <2>1. LastRead \in 0..MaxGen
    BY <1>1, FoundType, BoundAssumption DEF CreateIndex
  <2>2. counter' \in 0..MaxNames
    BY <1>1, FoundType, BoundAssumption DEF CreateIndex
  <2>3. LastRead < MaxGen
    BY <1>1 DEF CreateIndex
  <2> QED BY <1>1, <2>1, <2>2, <2>3, FoundType DEF CreateIndex, TypeOK
<1>2. CASE OpenWriter
  <2>1. Sweep(Found) \subseteq Files
    BY DEF Sweep, TypeOK
  <2> QED BY <1>2, <2>1, FoundType DEF OpenWriter, TypeOK
<1>3. CASE OpenReader
  BY <1>3, FoundType DEF OpenReader, TypeOK
<1>4. CASE Flush
  <2>1. infos \cup {NewSegment(counter)} \subseteq Segment /\ {Parts(counter)} \subseteq Files
    BY <1>4, <1>s DEF Flush, TypeOK
  <2>2. Begin("flush", infos \cup {NewSegment(counter)}, {Parts(counter)})
    BY <1>4 DEF Flush
  <2>3. counter' \in 0..MaxNames /\ counter' > 0
    BY <1>4, <1>n, BoundAssumption DEF Flush
  <2>4. /\ disk' \subseteq Files /\ infos' \subseteq Segment /\ old' \subseteq Segment
        /\ step' = "data" /\ job' = "flush" /\ gen < MaxGen
    BY <2>1, <2>2, BeginType
  <2> QED BY <1>4, <2>3, <2>4 DEF Flush, TypeOK
<1>5. CASE Merge
  <2>1. PICK S \in SUBSET infos :
          Begin("merge", (infos \ S) \cup {NewSegment(counter)}, {Parts(counter)})
    BY <1>5 DEF Merge
  <2>2. (infos \ S) \cup {NewSegment(counter)} \subseteq Segment /\ {Parts(counter)} \subseteq Files
    BY <1>5, <1>s DEF Merge, TypeOK
  <2>3. counter' \in 0..MaxNames /\ counter' > 0
    BY <1>5, <1>n, BoundAssumption DEF Merge
  <2>4. /\ disk' \subseteq Files /\ infos' \subseteq Segment /\ old' \subseteq Segment
        /\ step' = "data" /\ job' = "merge" /\ gen < MaxGen
    BY <2>1, <2>2, BeginType
  <2> QED BY <1>5, <2>3, <2>4 DEF Merge, TypeOK
<1>6. CASE Compound
  <2> DEFINE S == {[s EXCEPT !.cfs = s.cfs \/ s.name = counter - 1] : s \in infos}
  <2>1. S \subseteq Segment
    <3>1. \A s \in Segment : \A b \in BOOLEAN : [s EXCEPT !.cfs = b] \in Segment
      BY DEF Segment
    <3>2. \A s \in infos : s \in Segment /\ (s.cfs \/ s.name = counter - 1) \in BOOLEAN
      BY DEF TypeOK
    <3> QED BY <3>1, <3>2
  <2>2. {Cfs(counter - 1)} \subseteq Files
    BY <1>6, <1>n DEF Compound, Cfs, Files
  <2>3. Begin("compound", S, {Cfs(counter - 1)})
    BY <1>6 DEF Compound
  <2> HIDE DEF S
  <2>4. /\ disk' \subseteq Files /\ infos' \subseteq Segment /\ old' \subseteq Segment
        /\ step' = "data" /\ job' = "compound" /\ gen < MaxGen
    BY <2>1, <2>2, <2>3, BeginType
  <2> QED BY <1>6, <2>4 DEF Compound, TypeOK
<1>7. CASE StartDeletions
  <2>1. Sweep(gen) \subseteq Files
    BY DEF Sweep, TypeOK
  <2> QED BY <1>7, <2>1 DEF StartDeletions, TypeOK
<1>8. CASE WriteDeletions
  <2>1. PICK S \in (SUBSET infos) \ {{}} :
          LET del == {[s EXCEPT !.del = s.del + 1] : s \in S}
          IN  Begin("delete", (infos \ S) \cup del, {Del(s.name, s.del) : s \in del})
    BY <1>8 DEF WriteDeletions
  <2> DEFINE del == {[s EXCEPT !.del = s.del + 1] : s \in S}
  <2>2. del \subseteq Segment
    BY DEF TypeOK, Segment
  <2>3. (infos \ S) \cup del \subseteq Segment
    BY <2>2 DEF TypeOK
  <2>4. {Del(s.name, s.del) : s \in del} \subseteq Files
    BY <2>2, BoundAssumption DEF Segment, Names, Del, Files
  <2>5. /\ disk' \subseteq Files /\ infos' \subseteq Segment /\ old' \subseteq Segment
        /\ step' = "data" /\ job' = "delete" /\ gen < MaxGen
    <3> HIDE DEF del
    <3>1. Begin("delete", (infos \ S) \cup del, {Del(s.name, s.del) : s \in del})
      BY <2>1 DEF del
    <3> QED BY <2>3, <2>4, <3>1, BeginType
  <2> HIDE DEF del
  <2> QED BY <1>8, <2>5 DEF WriteDeletions, TypeOK
<1>9. ASSUME NEW next \in {"reader", "writer", "off"}, CloseWriter(next)
      PROVE  TypeInv'
  <2>1. CASE pending
    <3>1. Begin("close", infos, {}) /\ UNCHANGED delVars
      BY <1>9, <2>1 DEF CloseWriter
    <3>2. /\ disk' \subseteq Files /\ infos' \subseteq Segment /\ old' \subseteq Segment
          /\ step' = "data" /\ job' = "close" /\ gen < MaxGen
      BY <3>1, BeginType DEF TypeOK
    <3> QED BY <1>9, <3>1, <3>2 DEF CloseWriter, TypeOK
  <2>2. CASE ~pending
    BY <1>9, <2>2 DEF CloseWriter, TypeOK
  <2> QED BY <2>1, <2>2 DEF TypeOK
<1>10. ASSUME NEW next \in {"writer", "off"}, CloseReader(next)
       PROVE  TypeInv'
  BY <1>10 DEF CloseReader, TypeOK
<1>11. CASE FinishClose
  BY <1>11 DEF FinishClose, TypeOK
<1>12. CASE TurnOff
  BY <1>12 DEF TurnOff, TypeOK
<1> QED BY <1>1, <1>2, <1>3, <1>4, <1>5, <1>6, <1>7, <1>8, <1>9, <1>10, <1>11, <1>12 DEF Modify

LEMMA WriteType ==
  ASSUME TypeInv, Write
  PROVE  TypeInv'
<1> USE DEF TypeInv, dirVars, memVars, workVars, delVars, boundVars, NothingDoomed, Room, Ready
<1>t. TypeOK /\ NothingDoomed /\ Room
  OBVIOUS
<1>1. CASE CreateSegments
  <2>1. Segments(gen + 1) \in Files /\ gen + 1 \in 0..MaxGen
    BY <1>1, BoundAssumption DEF CreateSegments, TypeOK, Segments, Files
  <2> QED BY <1>1, <2>1 DEF CreateSegments, TypeOK
<1>2. CASE CompleteSegments
  <2>1. [infos |-> infos, counter |-> counter] \in Contents
    BY BoundAssumption DEF TypeOK, Contents
  <2> QED BY <1>2, <2>1 DEF CompleteSegments, TypeOK
<1>3. CASE TruncateSegments
  <2>1. [infos |-> infos, counter |-> -1] \in Contents
    BY BoundAssumption DEF TypeOK, Contents
  <2>2. lost' \in 0..MaxLost
    BY <1>3, BoundAssumption DEF TruncateSegments, TypeOK
  <2> QED BY <1>3, <2>1, <2>2 DEF TruncateSegments, TypeOK
<1>4. CASE UnlinkPointer
  BY <1>4, BoundAssumption DEF UnlinkPointer, TypeOK
<1>5. CASE CreatePointer
  BY <1>5, BoundAssumption DEF CreatePointer, TypeOK
<1>6. ASSUME Checkpoint, step \in {"pointer", "create", "fill"},
             UNCHANGED <<disk, log, published, mode, job, infos, old, gen, counter, reader>>,
             pointer' \in -1..MaxGen,
             crashes' \in 0..MaxCrashes, failures' \in 0..MaxFailures, lost' \in 0..MaxLost
      PROVE  TypeInv'
  <2>1. job # "create" => FilesOf(kept) \subseteq Files
    BY <1>6, FilesOfType, BoundAssumption DEF TypeOK, Gens
  <2>2. doomed' \subseteq Files
    <3>1. doomed' = IF job = "create" THEN Sweep(gen)
                    ELSE deletable \cup (FilesOf(kept) \ FilesOf(gen))
      BY <1>6 DEF Checkpoint
    <3>2. Sweep(gen) \subseteq Files
      BY DEF Sweep, TypeOK
    <3> QED BY <2>1, <3>1, <3>2 DEF TypeOK
  <2>3. /\ deletable' = {} /\ kept' = gen /\ pending' = FALSE /\ step' = "clean"
        /\ after' \in {"idle", "compound", "delete", "reader", "writer", "off", "broken"}
        /\ after' = "compound" => job \in {"flush", "merge"}
        /\ after' # "delete" \/ after = "delete"
    BY <1>6 DEF Checkpoint, TypeOK
  <2> QED BY <1>6, <2>2, <2>3 DEF TypeOK
<1>7. CASE FillPointer
  BY <1>6, <1>7 DEF FillPointer, TypeOK
<1>8. CASE SkipPointer
  <2>1. failures' \in 0..MaxFailures
    BY <1>8, BoundAssumption DEF SkipPointer, TypeOK
  <2> QED BY <1>6, <1>8, <2>1 DEF SkipPointer, TypeOK, dirVars
<1>9. CASE FailCommit
  <2> DEFINE failed == IF step = "data" THEN gen + 1 ELSE gen
  <2>1. failed \in 0..MaxGen /\ Segments(failed) \in Files
    BY <1>9, BoundAssumption DEF FailCommit, TypeOK, Segments, Files
  <2>2. DataFiles(infos) \subseteq Files /\ Sweep(kept) \subseteq Files
    BY DataFilesType DEF TypeOK, Sweep
  <2>3. gen' = failed /\ doomed' \subseteq Files
    <3> HIDE DEF failed
    <3>1. gen' = failed
      BY <1>9 DEF FailCommit, failed
    <3>2. doomed' = {Segments(failed)}
                 \cup CASE job = "flush"  -> deletable \cup (DataFiles(infos) \ DataFiles(old))
                        [] job = "delete" -> Sweep(kept)
                        [] OTHER          -> DataFiles(infos) \ DataFiles(old)
      BY <1>9 DEF FailCommit, failed
    <3> QED BY <2>1, <2>2, <3>1, <3>2 DEF TypeOK
  <2>4. /\ deletable' \subseteq Files /\ failures' \in 0..MaxFailures
        /\ after' \in {"off", "broken", "idle"} /\ step' = "clean" /\ infos' = old
        /\ after' = "off" \/ (job # "create" /\ step # "clean")
        /\ UNCHANGED <<dirVars, mode, job, old, kept, counter, pending, reader, crashes, lost>>
    <3>1. failures' \in 0..MaxFailures
      BY <1>9, BoundAssumption DEF FailCommit, TypeOK
    <3> QED BY <1>9, <3>1 DEF FailCommit, TypeOK
  <2> HIDE DEF failed
  <2> QED BY <2>1, <2>3, <2>4 DEF TypeOK
<1> QED BY <1>1, <1>2, <1>3, <1>4, <1>5, <1>7, <1>8, <1>9 DEF Write


LEMMA StopType ==
  ASSUME TypeInv, Stop, crashes' \in 0..MaxCrashes
  PROVE  TypeInv'
<1>1. [r \in Readers |-> Idle] \in [Readers -> SearchState]
  BY IdleType
<1>2. /\ disk' \subseteq Files /\ doomed' \subseteq Files /\ deletable' \subseteq Files
      /\ infos' \subseteq Segment /\ old' \subseteq Segment
  BY DEF Stop, TypeInv, TypeOK, dirVars
<1>3. pending' \in BOOLEAN
  BY DEF Stop
<1>4. /\ pointer' \in -1..MaxGen /\ published' \in 0..MaxGen
      /\ gen' \in 0..MaxGen /\ kept' \in 0..MaxGen /\ counter' \in 0..MaxNames
      /\ failures' \in 0..MaxFailures /\ lost' \in 0..MaxLost
      /\ log' \in [Gens -> Contents]
  BY BoundAssumption DEF Stop, TypeInv, TypeOK, dirVars
<1>5. mode' = "off" /\ step' = "clean" /\ after' = "off" /\ job' = "none"
  BY DEF Stop
<1>6. reader' \in [Readers -> SearchState]
  BY <1>1 DEF Stop
<1> QED BY <1>2, <1>3, <1>4, <1>5, <1>6 DEF TypeInv, TypeOK, NothingDoomed, Room

LEMMA TypeStep == TypeInv /\ [Next]_vars => TypeInv'
<1> SUFFICES ASSUME TypeInv, [Next]_vars PROVE TypeInv'
  OBVIOUS
<1> USE DEF dirVars, memVars, workVars, delVars, boundVars
<1>1. CASE Write
  BY <1>1, WriteType
<1>2. CASE Modify
  BY <1>2, ModifyType
<1>3. CASE DeleteFile
  <2>1. doomed' \subseteq Files /\ deletable' \subseteq Files /\ disk' \subseteq Files
    BY <1>3 DEF DeleteFile, TypeInv, TypeOK
  <2> QED BY <1>3, <2>1 DEF DeleteFile, TypeInv, TypeOK, NothingDoomed, Room
<1>4. ASSUME NEW r \in Readers, Search(r) PROVE TypeInv'
  <2>1. reader' \in [Readers -> SearchState]
    BY <1>4, SearchType DEF TypeInv
  <2>2. UNCHANGED <<dirVars, memVars, workVars, delVars, boundVars>>
    BY <1>4 DEF Search, Open, BeginOpening, ListFiles, ReadPointer, OpenSegments,
                ReadSegments, OpenData, CloseSearch
  <2> QED BY <2>1, <2>2 DEF TypeInv, TypeOK, NothingDoomed, Room
<1>5. CASE Crash
  BY <1>5, StopType, BoundAssumption DEF Crash, TypeInv, TypeOK
<1>6. CASE GiveUp
  BY <1>6, StopType DEF GiveUp, TypeInv, TypeOK
<1>7. CASE UNCHANGED vars
  BY <1>7 DEF vars, TypeInv, TypeOK, NothingDoomed, Room
<1> QED BY <1>1, <1>2, <1>3, <1>4, <1>5, <1>6, <1>7 DEF Next

\* Every variable of the modifier, of the deleter and of every search keeps its type,
\* whatever fails, is lost or crashes (SegmentInfos, IndexFileDeleter, FindSegmentsFile).
THEOREM TypeCorrect == Spec => []TypeOK
<1>1. TypeInv => TypeOK
  BY DEF TypeInv
<1> QED BY <1>1, TypeInit, TypeStep, PTL DEF Spec


-----------------------------------------------------------------------------
(* The newest commit stays readable                                         *)

\* A read between two commits finds the newest one or nothing, and never leaves
\* generation behind it.
LEMMA FoundIsLast ==
  ASSUME TypeOK, CommitReadable, Ordered
  PROVE  /\ Found > 0 => Found = published
         /\ LastRead >= published
<1>1. published > 0 => Newest >= published
  <2> SUFFICES ASSUME published > 0 PROVE Newest >= published
    OBVIOUS
  <2>1. Segments(published) \in disk
    BY DEF CommitReadable, FilesOf
  <2>2. published \in SegGens
    BY <2>1, BoundAssumption DEF SegGens, TypeOK
  <2>3. Listed >= published
    BY <2>2, ListedIsMax, BoundAssumption DEF TypeOK, SegGens
  <2> QED BY <2>3, ListedIsMax, FoundType, BoundAssumption DEF Newest, TypeOK
<1>2. published > 0 => Segments(published) \in disk /\ Complete(published)
  BY DEF CommitReadable, FilesOf
<1>3. \A g \in Gens : Complete(g) => g <= published
  BY DEF Ordered
<1>4. published \in Nat /\ Newest \in Int /\ Found \in Nat
  BY FoundType, BoundAssumption DEF TypeOK
<1>5. Found > 0 => Found \in Gens /\ Complete(Found)
  BY FoundType
<1>6. Found > 0 => Found = published
  <2> SUFFICES ASSUME Found > 0 PROVE Found = published
    OBVIOUS
  <2>1. Found <= published /\ published > 0
    BY <1>3, <1>4, <1>5
  <2>2. CASE Newest > 0 /\ Segments(Newest) \in disk /\ Complete(Newest)
    BY <1>1, <1>4, <2>1, <2>2 DEF Found
  <2>3. CASE ~(Newest > 0 /\ Segments(Newest) \in disk /\ Complete(Newest))
    <3>1. Found = Newest - 1
      BY <1>4, <2>3 DEF Found
    <3>2. Newest # published
      BY <1>2, <1>4, <2>1, <2>3
    <3> QED BY <1>1, <1>4, <2>1, <3>1, <3>2
  <2> QED BY <2>2, <2>3
<1>7. LastRead >= published
  BY <1>1, <1>4, <1>6 DEF LastRead
<1> QED BY <1>6, <1>7

\* The files of some segments more, or of fewer.
LEMMA DataFilesUnion ==
  ASSUME NEW S, NEW T
  PROVE  DataFiles(S \cup T) \subseteq DataFiles(S) \cup DataFiles(T)
BY DEF DataFiles

LEMMA DataFilesSubset ==
  ASSUME NEW S, NEW T, S \subseteq T
  PROVE  DataFiles(S) \subseteq DataFiles(T)
BY DEF DataFiles

\* At rest, the files of the segments in memory are on the disk.
LEMMA RestOnDisk ==
  ASSUME CommitReadable, AtRest, step = "clean", mode # "off", after # "off"
  PROVE  /\ published > 0 /\ infos = log[published].infos
         /\ DataFiles(infos) \subseteq disk
BY DEF CommitReadable, AtRest, FilesOf

\* The names of the files a commit writes are none the deleter remembers.
LEMMA NewNames ==
  ASSUME IInv
  PROVE  /\ Parts(counter) \notin deletable
         /\ step = "clean" /\ after = "compound" => Cfs(counter - 1) \notin deletable
         /\ \A s \in infos : Del(s.name, s.del + 1) \notin deletable
         /\ Segments(gen + 1) \notin deletable
         /\ Windows => Segments(gen + 1) \notin disk
<1>t. TypeOK /\ counter \in Nat /\ gen \in Nat
  BY BoundAssumption DEF IInv, TypeInv, TypeOK
<1>1. CASE ~Windows
  BY <1>1 DEF IInv, Safe, PendingAreDead
<1>2. CASE Windows
  <2>u. \A f \in disk \cup deletable : Used(f)
    BY <1>2 DEF IInv, NamesOnce, Named
  <2>1. ~Used(Parts(counter))
    BY <1>t DEF Used, Parts
  <2>2. step = "clean" /\ after = "compound" => ~Used(Cfs(counter - 1))
    <3> SUFFICES ASSUME step = "clean", after = "compound" PROVE ~Used(Cfs(counter - 1))
      OBVIOUS
    <3>1. NewSegment(counter - 1) \in infos
      BY <1>2 DEF IInv, NamesOnce, Named
    <3> QED BY <3>1 DEF Used, Cfs, NewSegment
  <2>3. \A s \in infos : ~Used(Del(s.name, s.del + 1))
    <3> SUFFICES ASSUME NEW s \in infos PROVE ~Used(Del(s.name, s.del + 1))
      OBVIOUS
    <3>1. s.del \in Nat
      BY <1>t DEF TypeOK, Segment
    <3> QED BY <3>1 DEF Used, Del
  <2>4. ~Used(Segments(gen + 1))
    BY <1>t DEF Used, Segments
  <2> QED BY <2>u, <2>1, <2>2, <2>3, <2>4
<1> QED BY <1>1, <1>2, CodeAssumption

\* What Begin leaves behind when it is called at rest.
LEMMA BeginSafe ==
  ASSUME IInv, step = "clean", mode # "off", after # "off", doomed = {},
         NEW S, NEW F, NEW what \in {"flush", "merge", "compound", "delete", "close"},
         Begin(what, S, F), DataFiles(S) \subseteq DataFiles(infos) \cup F,
         F \cap deletable = {},
         what = "delete" => mode = "reader",
         UNCHANGED <<log, published, mode, gen, kept, deletable, doomed>>
  PROVE  Safe'
<1>1. /\ published > 0 /\ infos = log[published].infos
      /\ DataFiles(infos) \subseteq disk
  BY RestOnDisk DEF IInv, Safe
<1>2. step' = "data" /\ job' = what /\ infos' = S /\ old' = infos /\ disk' = disk \cup F
  BY DEF Begin
<1>3. CommitReadable' /\ Ordered' /\ DoomedAreDead'
  BY <1>2 DEF IInv, Safe, CommitReadable, Ordered, DoomedAreDead, FilesOf, Complete
<1>4. AtRest' /\ Ahead' /\ Deleting'
  BY <1>2 DEF IInv, Safe, AtRest, Ahead, Deleting
<1>5. Writing'
  BY <1>1, <1>2 DEF Writing
<1>6. PendingAreDead'
  <2>1. deletable \cap DataFiles(infos) = {}
    BY <1>1 DEF IInv, Safe, PendingAreDead, FilesOf
  <2> QED BY <1>1, <1>2, <2>1 DEF IInv, Safe, PendingAreDead, FilesOf
<1> QED BY <1>3, <1>4, <1>5, <1>6 DEF Safe


LEMMA ModifySafe ==
  ASSUME IInv, Modify
  PROVE  Safe'
<1> USE DEF dirVars, memVars, workVars, delVars, boundVars, Ready
<1>t. TypeOK /\ NothingDoomed /\ Room /\ Safe
  BY DEF IInv, TypeInv
<1>f. /\ Found > 0 => Found = published
      /\ LastRead >= published
      /\ published \in Nat /\ LastRead \in Int
      /\ Found > 0 => published > 0
  BY <1>t, FoundIsLast, FoundType, BoundAssumption DEF Safe, TypeOK
<1>r. step = "clean" /\ mode # "off" /\ after # "off" =>
        published > 0 /\ infos = log[published].infos /\ DataFiles(infos) \subseteq disk
  BY <1>t, RestOnDisk DEF Safe
<1>p. ASSUME step' = "clean", deletable' = {} \/ (deletable' = deletable /\ UNCHANGED <<log, published>>)
      PROVE  PendingAreDead'
  BY <1>t, <1>p DEF Safe, PendingAreDead, FilesOf
<1>1. CASE CreateIndex
  <2>1. DataFiles({}) = {}
    BY DEF DataFiles
  <2>2. CommitReadable' /\ Ordered' /\ DoomedAreDead'
    BY <1>t, <1>1 DEF CreateIndex, Safe, CommitReadable, Ordered, DoomedAreDead, FilesOf, Complete
  <2>3. AtRest' /\ Ahead' /\ Deleting' /\ PendingAreDead'
    BY <1>t, <1>f, <1>1 DEF CreateIndex, AtRest, Ahead, Deleting, PendingAreDead
  <2>4. Writing'
    BY <1>1, <2>1 DEF CreateIndex, Writing
  <2> QED BY <2>2, <2>3, <2>4 DEF Safe
<1>2. CASE OpenWriter
  <2>1. CommitReadable' /\ Ordered'
    BY <1>t, <1>2 DEF OpenWriter, Safe, CommitReadable, Ordered, FilesOf, Complete
  <2>2. DoomedAreDead'
    BY <1>f, <1>2 DEF OpenWriter, DoomedAreDead, Sweep, FilesOf
  <2>3. AtRest' /\ Ahead' /\ Deleting'
    BY <1>f, <1>2 DEF OpenWriter, AtRest, Ahead, Deleting
  <2>4. Writing' /\ PendingAreDead'
    BY <1>2, <1>p DEF OpenWriter, Writing
  <2> QED BY <2>1, <2>2, <2>3, <2>4 DEF Safe
<1>3. CASE OpenReader
  <2>1. CommitReadable' /\ Ordered' /\ DoomedAreDead'
    BY <1>t, <1>3 DEF OpenReader, Safe, CommitReadable, Ordered, DoomedAreDead, FilesOf, Complete
  <2>2. AtRest' /\ Ahead' /\ Deleting'
    BY <1>f, <1>3 DEF OpenReader, AtRest, Ahead, Deleting
  <2>3. Writing' /\ PendingAreDead'
    BY <1>3, <1>p DEF OpenReader, Writing
  <2> QED BY <2>1, <2>2, <2>3 DEF Safe
<1>4. CASE Flush
  <2>1. DataFiles({NewSegment(counter)}) = {Parts(counter)}
    BY DEF DataFiles, NewSegment
  <2>2. DataFiles(infos \cup {NewSegment(counter)}) \subseteq DataFiles(infos) \cup {Parts(counter)}
    BY <2>1, DataFilesUnion
  <2> QED BY <1>4, <2>2, NewNames, BeginSafe DEF Flush
<1>5. CASE Merge
  <2>1. DataFiles({NewSegment(counter)}) = {Parts(counter)}
    BY DEF DataFiles, NewSegment
  <2>2. PICK S \in SUBSET infos :
          Begin("merge", (infos \ S) \cup {NewSegment(counter)}, {Parts(counter)})
    BY <1>5 DEF Merge
  <2>a. /\ step = "clean" /\ mode # "off" /\ after # "off" /\ doomed = {}
        /\ UNCHANGED <<log, published, mode, gen, kept, deletable, doomed>>
    BY <1>5 DEF Merge
  <2>b. {Parts(counter)} \cap deletable = {}
    BY NewNames
  <2>3. DataFiles((infos \ S) \cup {NewSegment(counter)}) \subseteq DataFiles(infos) \cup {Parts(counter)}
    <3>1. DataFiles(infos \ S) \subseteq DataFiles(infos)
      BY DataFilesSubset
    <3> QED BY <2>1, <3>1, DataFilesUnion
  <2> QED BY <2>a, <2>b, <2>2, <2>3, BeginSafe
<1>6. CASE Compound
  <2> DEFINE S == {[s EXCEPT !.cfs = s.cfs \/ s.name = counter - 1] : s \in infos}
  <2>1. DataFiles(S) \subseteq DataFiles(infos) \cup {Cfs(counter - 1)}
    <3>1. \A s \in infos :
            LET t == [s EXCEPT !.cfs = s.cfs \/ s.name = counter - 1]
            IN  t.name = s.name /\ t.del = s.del /\ (t.cfs <=> s.cfs \/ s.name = counter - 1)
      BY <1>t DEF TypeOK, Segment
    <3>2. \A s \in infos : s.cfs => Cfs(s.name) \in DataFiles(infos)
      BY DEF DataFiles
    <3>3. \A s \in infos : ~s.cfs => Parts(s.name) \in DataFiles(infos)
      BY DEF DataFiles
    <3>4. \A s \in infos : s.del > 0 => Del(s.name, s.del) \in DataFiles(infos)
      BY DEF DataFiles
    <3>5. \A t \in S : /\ t.cfs => Cfs(t.name) \in DataFiles(infos) \cup {Cfs(counter - 1)}
                       /\ ~t.cfs => Parts(t.name) \in DataFiles(infos)
                       /\ t.del > 0 => Del(t.name, t.del) \in DataFiles(infos)
      BY <3>1, <3>2, <3>3, <3>4
    <3> DEFINE D == DataFiles(infos) \cup {Cfs(counter - 1)}
    <3>6. \A t \in S : /\ t.cfs => Cfs(t.name) \in D
                       /\ ~t.cfs => Parts(t.name) \in D
                       /\ t.del > 0 => Del(t.name, t.del) \in D
      BY <3>5
    <3> HIDE DEF S, D
    <3>7. DataFiles(S) \subseteq D
      BY <3>6 DEF DataFiles
    <3> QED BY <3>7 DEF D
  <2>2. Begin("compound", S, {Cfs(counter - 1)})
    BY <1>6 DEF Compound
  <2> HIDE DEF S
  <2> QED BY <1>6, <2>1, <2>2, NewNames, BeginSafe DEF Compound
<1>7. CASE StartDeletions
  <2>1. CommitReadable' /\ Ordered'
    BY <1>t, <1>7 DEF StartDeletions, Safe, CommitReadable, Ordered, FilesOf, Complete
  <2>2. gen = published
    BY <1>t, <1>7 DEF StartDeletions, Safe, Deleting
  <2>3. DoomedAreDead'
    BY <1>7, <2>2 DEF StartDeletions, DoomedAreDead, Sweep, FilesOf
  <2>4. AtRest' /\ Ahead' /\ Deleting'
    BY <1>t, <1>7 DEF StartDeletions, Safe, AtRest, Ahead, Deleting
  <2>5. Writing' /\ PendingAreDead'
    BY <1>7, <1>p DEF StartDeletions, Writing
  <2> QED BY <2>1, <2>3, <2>4, <2>5 DEF Safe
<1>8. CASE WriteDeletions
  <2>1. mode = "reader"
    BY <1>t, <1>8 DEF WriteDeletions, Room
  <2>2. PICK S \in (SUBSET infos) \ {{}} :
          LET del == {[s EXCEPT !.del = s.del + 1] : s \in S}
          IN  Begin("delete", (infos \ S) \cup del, {Del(s.name, s.del) : s \in del})
    BY <1>8 DEF WriteDeletions
  <2> DEFINE del == {[s EXCEPT !.del = s.del + 1] : s \in S}
             F   == {Del(s.name, s.del) : s \in del}
  <2>3. \A s \in infos :
          LET t == [s EXCEPT !.del = s.del + 1]
          IN  t.name = s.name /\ t.cfs = s.cfs /\ t.del = s.del + 1
    BY <1>t DEF TypeOK, Segment
  <2>4. DataFiles(del) \subseteq DataFiles(infos) \cup F
    <3>1. \A s \in infos : (IF s.cfs THEN Cfs(s.name) ELSE Parts(s.name)) \in DataFiles(infos)
      BY DEF DataFiles
    <3>2. \A t \in del : (IF t.cfs THEN Cfs(t.name) ELSE Parts(t.name)) \in DataFiles(infos)
      BY <2>3, <3>1
    <3> HIDE DEF del
    <3> QED BY <3>2 DEF DataFiles
  <2>5. DataFiles((infos \ S) \cup del) \subseteq DataFiles(infos) \cup F
    <3> HIDE DEF del, F
    <3>1. DataFiles(infos \ S) \subseteq DataFiles(infos)
      BY DataFilesSubset
    <3> QED BY <2>4, <3>1, DataFilesUnion
  <2>6. F \cap deletable = {}
    <3>1. \A f \in F : \E s \in infos : f = Del(s.name, s.del + 1)
      <4>1. \A t \in del : \E s \in infos : t.name = s.name /\ t.del = s.del + 1
        BY <2>3
      <4> HIDE DEF del
      <4> QED BY <4>1
    <3> HIDE DEF F
    <3> QED BY <3>1, NewNames
  <2>7. Begin("delete", (infos \ S) \cup del, F)
    BY <2>2
  <2> HIDE DEF del, F
  <2> QED BY <1>8, <2>1, <2>5, <2>6, <2>7, BeginSafe DEF WriteDeletions
<1>9. ASSUME NEW next \in {"reader", "writer", "off"}, CloseWriter(next)
      PROVE  Safe'
  <2>1. /\ published > 0 /\ infos = log[published].infos
        /\ DataFiles(infos) \subseteq disk
    BY <1>r, <1>9 DEF CloseWriter
  <2>2. CASE pending
    <3>1. Begin("close", infos, {}) /\ UNCHANGED delVars
      BY <1>9, <2>2 DEF CloseWriter
    <3> QED BY <1>9, <3>1, BeginSafe DEF CloseWriter
  <2>3. CASE ~pending
    <3>1. CommitReadable' /\ Ordered' /\ DoomedAreDead'
      BY <1>t, <1>9, <2>3 DEF CloseWriter, Safe, CommitReadable, Ordered, DoomedAreDead, FilesOf,
                              Complete, PendingAreDead
    <3>2. AtRest' /\ Ahead' /\ Deleting' /\ Writing'
      BY <1>t, <1>9, <2>1, <2>3 DEF CloseWriter, Safe, AtRest, Ahead, Deleting, Writing
    <3>3. PendingAreDead'
      BY <1>9, <1>p, <2>3 DEF CloseWriter
    <3> QED BY <3>1, <3>2, <3>3 DEF Safe
  <2> QED BY <1>t, <2>2, <2>3 DEF TypeOK
<1>10. ASSUME NEW next \in {"writer", "off"}, CloseReader(next)
       PROVE  Safe'
  <2>1. CommitReadable' /\ Ordered' /\ DoomedAreDead'
    BY <1>t, <1>10 DEF CloseReader, Safe, CommitReadable, Ordered, DoomedAreDead, FilesOf, Complete
  <2>2. AtRest' /\ Ahead' /\ Deleting' /\ Writing'
    BY <1>t, <1>10 DEF CloseReader, Safe, AtRest, Ahead, Deleting, Writing
  <2>3. PendingAreDead'
    BY <1>10, <1>p DEF CloseReader
  <2> QED BY <2>1, <2>2, <2>3 DEF Safe
<1>11. CASE FinishClose
  <2>1. CommitReadable' /\ Ordered' /\ DoomedAreDead'
    BY <1>t, <1>11 DEF FinishClose, Safe, CommitReadable, Ordered, DoomedAreDead, FilesOf, Complete,
                       PendingAreDead
  <2>2. AtRest' /\ Ahead' /\ Deleting' /\ Writing'
    BY <1>t, <1>11 DEF FinishClose, Safe, AtRest, Ahead, Deleting, Writing
  <2>3. PendingAreDead'
    BY <1>11, <1>p DEF FinishClose
  <2> QED BY <2>1, <2>2, <2>3 DEF Safe
<1>12. CASE TurnOff
  <2>1. CommitReadable' /\ Ordered' /\ DoomedAreDead'
    BY <1>t, <1>12 DEF TurnOff, Safe, CommitReadable, Ordered, DoomedAreDead, FilesOf, Complete
  <2>2. AtRest' /\ Ahead' /\ Deleting' /\ Writing'
    BY <1>t, <1>12 DEF TurnOff, Safe, AtRest, Ahead, Deleting, Writing
  <2>3. PendingAreDead'
    BY <1>12, <1>p DEF TurnOff
  <2> QED BY <2>1, <2>2, <2>3 DEF Safe
<1> QED BY <1>1, <1>2, <1>3, <1>4, <1>5, <1>6, <1>7, <1>8, <1>9, <1>10, <1>11, <1>12 DEF Modify


\* Once segments.gen is written, or given up, the new commit replaces the former.
LEMMA CheckpointSafe ==
  ASSUME IInv, Checkpoint, step \in {"pointer", "create", "fill"},
         UNCHANGED <<disk, log, published, mode, job, infos, gen>>
  PROVE  Safe'
<1>1. /\ published = gen /\ gen > 0 /\ log[gen].infos = infos /\ mode # "off"
  BY DEF IInv, Safe, Writing
<1>2. CommitReadable' /\ Ordered'
  BY DEF IInv, Safe, CommitReadable, Ordered, FilesOf, Complete
<1>3. DoomedAreDead'
  <2>1. FilesOf(published)' = FilesOf(gen)
    BY <1>1 DEF FilesOf
  <2>2. doomed' = IF job = "create" THEN Sweep(gen)
                  ELSE deletable \cup (FilesOf(kept) \ FilesOf(gen))
    BY DEF Checkpoint
  <2>3. deletable \cap FilesOf(gen) = {}
    BY <1>1 DEF IInv, Safe, PendingAreDead
  <2> QED BY <2>1, <2>2, <2>3 DEF DoomedAreDead, Sweep
<1>4. AtRest' /\ Ahead' /\ Deleting' /\ PendingAreDead' /\ Writing'
  BY <1>1, BoundAssumption
     DEF Checkpoint, IInv, TypeInv, TypeOK, AtRest, Ahead, Deleting, PendingAreDead, Writing
<1> QED BY <1>2, <1>3, <1>4 DEF Safe

LEMMA WriteSafe ==
  ASSUME Undisturbed', IInv, Write
  PROVE  Safe'
<1> USE DEF dirVars, memVars, workVars, delVars, boundVars
<1>t. TypeOK /\ NothingDoomed /\ Room /\ Safe
  BY DEF IInv, TypeInv
<1>n. published \in Nat /\ gen \in Nat
  BY <1>t, BoundAssumption DEF TypeOK
<1>1. CASE CreateSegments
  <2>1. CommitReadable' /\ Ordered' /\ DoomedAreDead'
    BY <1>t, <1>1 DEF CreateSegments, Safe, CommitReadable, Ordered, DoomedAreDead, FilesOf, Complete
  <2>2. AtRest' /\ Ahead' /\ Deleting'
    BY <1>t, <1>n, <1>1 DEF CreateSegments, Safe, AtRest, Ahead, Deleting, Writing
  <2>3. Writing'
    BY <1>t, <1>1 DEF CreateSegments, Safe, Writing
  <2>4. PendingAreDead'
    <3>1. Segments(gen + 1) \notin deletable
      BY NewNames
    <3> QED BY <1>t, <1>1, <3>1 DEF CreateSegments, Safe, PendingAreDead, FilesOf
  <2> QED BY <2>1, <2>2, <2>3, <2>4 DEF Safe
<1>2. CASE CompleteSegments
  <2>1. /\ gen \in Gens /\ gen > published /\ counter >= 0
        /\ DataFiles(infos) \subseteq disk /\ Segments(gen) \in disk
    BY <1>t, <1>n, <1>2, BoundAssumption
       DEF CompleteSegments, Safe, Ahead, Writing, Room, TypeOK, Gens
  <2>2. /\ log'[gen] = [infos |-> infos, counter |-> counter]
        /\ \A g \in Gens : g # gen => log'[g] = log[g]
        /\ published' = gen
    BY <1>t, <1>2, <2>1 DEF CompleteSegments, TypeOK
  <2>3. CommitReadable'
    <3>1. Complete(published)'
      BY <2>1, <2>2 DEF Complete
    <3>2. FilesOf(published)' \subseteq disk'
      BY <1>2, <2>1, <2>2 DEF FilesOf, CompleteSegments
    <3> QED BY <3>1, <3>2 DEF CommitReadable
  <2>4. Ordered'
    <3>1. Complete(published)'
      BY <2>1, <2>2 DEF Complete
    <3>2. \A g \in Gens : Complete(g)' => g <= gen
      <4> SUFFICES ASSUME NEW g \in Gens, Complete(g)', g # gen PROVE g <= gen
        BY <2>1 DEF Gens
      <4>1. Complete(g)
        BY <2>2 DEF Complete
      <4> QED BY <1>t, <1>n, <2>1, <4>1 DEF Safe, Ordered, Gens
    <3> QED BY <2>2, <3>1, <3>2 DEF Ordered
  <2>5. DoomedAreDead'
    BY <1>t, <1>2 DEF CompleteSegments, NothingDoomed, DoomedAreDead
  <2>6. AtRest' /\ Ahead' /\ Deleting'
    BY <1>t, <1>n, <1>2 DEF CompleteSegments, Safe, AtRest, Ahead, Deleting
  <2>7. Writing'
    <3>1. mode # "off"
      BY <1>t, <1>2 DEF CompleteSegments, Safe, Writing
    <3>2. /\ step' = "pointer" /\ gen' = gen /\ infos' = infos /\ disk' = disk /\ mode' = mode
      BY <1>2 DEF CompleteSegments
    <3> QED BY <1>n, <2>1, <2>2, <3>1, <3>2 DEF Writing
  <2>8. PendingAreDead'
    <3>1. FilesOf(published)' = {Segments(gen)} \cup DataFiles(infos)
      BY <2>2 DEF FilesOf
    <3>2. /\ ~Windows => deletable = {}
          /\ deletable \cap DataFiles(infos) = {} /\ Segments(gen) \notin deletable
      BY <1>t, <1>2 DEF CompleteSegments, Safe, PendingAreDead
    <3>3. step' = "pointer" /\ gen' = gen /\ infos' = infos /\ deletable' = deletable
      BY <1>2 DEF CompleteSegments
    <3> QED BY <3>1, <3>2, <3>3 DEF PendingAreDead
  <2> QED BY <2>3, <2>4, <2>5, <2>6, <2>7, <2>8 DEF Safe
<1>3. CASE TruncateSegments
  BY <1>t, <1>3, BoundAssumption DEF TruncateSegments, TypeOK, Undisturbed
<1>4. CASE UnlinkPointer
  <2>1. CommitReadable' /\ Ordered' /\ DoomedAreDead'
    BY <1>t, <1>4 DEF UnlinkPointer, Safe, CommitReadable, Ordered, DoomedAreDead, FilesOf, Complete
  <2>2. AtRest' /\ Ahead' /\ Deleting' /\ PendingAreDead' /\ Writing'
    BY <1>t, <1>4 DEF UnlinkPointer, Safe, AtRest, Ahead, Deleting, PendingAreDead, Writing, FilesOf
  <2> QED BY <2>1, <2>2 DEF Safe
<1>5. CASE CreatePointer
  <2>1. CommitReadable' /\ Ordered' /\ DoomedAreDead'
    BY <1>t, <1>5 DEF CreatePointer, Safe, CommitReadable, Ordered, DoomedAreDead, FilesOf, Complete
  <2>2. AtRest' /\ Ahead' /\ Deleting' /\ PendingAreDead' /\ Writing'
    BY <1>t, <1>5 DEF CreatePointer, Safe, AtRest, Ahead, Deleting, PendingAreDead, Writing, FilesOf
  <2> QED BY <2>1, <2>2 DEF Safe
<1>6. CASE FillPointer
  BY <1>6, CheckpointSafe DEF FillPointer
<1>7. CASE SkipPointer
  BY <1>7, CheckpointSafe DEF SkipPointer
<1>8. CASE FailCommit
  <2> DEFINE failed == IF step = "data" THEN gen + 1 ELSE gen
  <2>w. ~Windows /\ deletable = {}
    <3>1. Windows => ~Blocked /\ failures' = 0 /\ failures \in Nat
      BY <1>t, NewNames DEF Blocked, Undisturbed, TypeOK
    <3>2. Blocked \/ failures' = failures + 1
      BY <1>8 DEF FailCommit
    <3> QED BY <1>t, <3>1, <3>2 DEF Safe, PendingAreDead, Blocked
  <2>1. /\ step \in {"data", "segments"} /\ mode # "off"
        /\ failed \in Int /\ failed > published
    BY <1>t, <1>n, <1>8 DEF FailCommit, Safe, Writing, Ahead
  <2>2. /\ gen' = failed /\ infos' = old /\ step' = "clean"
        /\ deletable' = {}
        /\ after' = CASE job = "create"              -> "off"
                      [] job \in {"close", "delete"} -> "broken"
                      [] OTHER                       -> "idle"
        /\ UNCHANGED <<disk, log, published, mode, job, old, kept>>
    BY <1>8, <2>w DEF FailCommit
  <2>3. CommitReadable' /\ Ordered'
    BY <1>t, <2>2 DEF Safe, CommitReadable, Ordered, FilesOf, Complete
  <2>4. DoomedAreDead'
    <3> SUFFICES ASSUME published > 0 PROVE doomed' \cap FilesOf(published) = {}
      BY <2>2 DEF DoomedAreDead, FilesOf
    <3>1. doomed' = {Segments(failed)}
                 \cup CASE job = "flush"  -> deletable \cup (DataFiles(infos) \ DataFiles(old))
                        [] job = "delete" -> Sweep(kept)
                        [] OTHER          -> DataFiles(infos) \ DataFiles(old)
      BY <1>8 DEF FailCommit
    <3>2. Segments(failed) \notin FilesOf(published)
      <4>1. Segments(failed) # Segments(published)
        BY <1>n, <2>1 DEF Segments
      <4>2. Segments(failed) \notin DataFiles(log[published].infos)
        BY DataFilesKind DEF Segments
      <4> QED BY <4>1, <4>2 DEF FilesOf
    <3>3. (DataFiles(infos) \ DataFiles(old)) \cap FilesOf(published) = {}
      <4>1. CASE job = "create"
        <5>1. DataFiles(infos) = {}
          BY <1>t, <2>1, <4>1 DEF Safe, Writing, DataFiles
        <5> QED BY <5>1
      <4>2. CASE job # "create"
        <5>1. old = log[published].infos
          BY <1>t, <2>1, <4>2 DEF Safe, Writing
        <5>2. Segments(published) \notin DataFiles(infos)
          BY DataFilesKind DEF Segments
        <5> QED BY <5>1, <5>2 DEF FilesOf
      <4> QED BY <4>1, <4>2
    <3>4. job = "delete" => kept = published
      BY <1>t, <2>1 DEF Safe, Deleting
    <3> HIDE DEF failed
    <3>5. CASE job = "delete"
      BY <3>1, <3>2, <3>4, <3>5 DEF Sweep
    <3>6. CASE job # "delete"
      BY <2>w, <3>1, <3>2, <3>3, <3>6
    <3> QED BY <3>5, <3>6
  <2>5. AtRest'
    <3>1. job # "create" => published > 0 /\ old = log[published].infos
      BY <1>t, <2>1 DEF Safe, Writing
    <3> QED BY <2>2, <3>1 DEF AtRest
  <2>6. Ahead' /\ Deleting' /\ PendingAreDead' /\ Writing'
    <3> HIDE DEF failed
    <3> QED BY <1>t, <1>n, <2>1, <2>2 DEF Safe, Ahead, Deleting, PendingAreDead, Writing
  <2> QED BY <2>3, <2>4, <2>5, <2>6 DEF Safe
<1> QED BY <1>1, <1>2, <1>3, <1>4, <1>5, <1>6, <1>7, <1>8 DEF Write

\* Where nothing crashes or fails, the modifier's steps reuse no name.
LEMMA ModifyNames ==
  ASSUME Windows, IInv, Modify
  PROVE  Named'
<1> USE DEF dirVars, memVars, workVars, delVars, boundVars, Ready
<1>t. TypeOK /\ Room /\ Named /\ Safe
  BY DEF IInv, TypeInv, NamesOnce
<1>n. counter \in Nat /\ published \in Nat /\ (published = 0 \/ published > 0)
  BY <1>t, BoundAssumption DEF TypeOK
<1>f. Found > 0 => Found = published
  BY <1>t, FoundIsLast DEF Safe
<1>i. \A s \in infos : /\ s \in Segment /\ s.name \in Int /\ s.name < counter /\ s.del \in Nat
                      /\ \A t \in infos : s.name = t.name => s = t
  BY <1>t, BoundAssumption DEF Named, TypeOK, Segment, Names
<1>u. \A f \in disk \cup deletable : Used(f)
  BY <1>t DEF Named
<1>s. /\ NewSegment(counter).name = counter /\ NewSegment(counter).cfs = FALSE
      /\ Parts(counter).kind = "parts" /\ Parts(counter).of = counter
  BY DEF NewSegment, Parts
<1>r. step = "clean" /\ mode # "off" /\ after # "off" => published > 0
  BY <1>t DEF Safe, AtRest
\* Nothing of what Named speaks of changes.
<1>0. ASSUME UNCHANGED <<log, published, pointer, disk, infos, gen, counter, step>>,
             step = "clean", deletable' \subseteq deletable,
             after' \notin {"compound", "broken"}
      PROVE  Named'
  BY <1>0, <1>t DEF Named, Used
\* The files and segments of a commit have new names.
<1>b. ASSUME NEW S, NEW F, NEW what \in {"flush", "merge", "compound", "delete", "close"},
             Begin(what, S, F), UNCHANGED <<log, published, deletable, gen>>, after' = after \/ after' # "broken",
             \A f \in disk \cup deletable \cup F : Used(f)',
             \A s, t \in S : s.name = t.name => s = t,
             \A s \in S : s.name < counter',
             what \in {"flush", "merge"} => NewSegment(counter' - 1) \in S
      PROVE  Named'
  <2>1. step' = "data" /\ job' = what /\ infos' = S /\ disk' = disk \cup F
    BY <1>b DEF Begin
  <2>2. after' # "broken"
    BY <1>b, <1>t DEF Named
  <2> QED BY <1>b, <2>1, <2>2 DEF Named
<1>1. CASE CreateIndex
  <2>1. published = 0 /\ disk = {}
    BY <1>1, <1>t, <1>n DEF CreateIndex, Named, TypeInv, IInv, NothingDoomed, Safe, Writing
  <2> QED BY <1>1, <2>1 DEF CreateIndex, Named
<1>2. CASE OpenWriter
  <2>1. step = "clean" /\ published > 0 /\ Found = published
    BY <1>2, <1>t, <1>f, <1>n DEF OpenWriter, Safe, Writing
  <2> QED BY <1>2, <1>t, <2>1 DEF OpenWriter, Named, Used
<1>3. CASE OpenReader
  <2>1. step = "clean" /\ published > 0 /\ Found = published
    BY <1>3, <1>t, <1>f, <1>n DEF OpenReader
  <2> QED BY <1>3, <1>t, <2>1 DEF OpenReader, Named, Used
<1>4. CASE Flush
  <2> DEFINE S == infos \cup {NewSegment(counter)}
  <2>1. Begin("flush", S, {Parts(counter)}) /\ counter' = counter + 1
        /\ UNCHANGED <<log, published, deletable, gen, after>>
    BY <1>4 DEF Flush
  <2>2. \A s \in S : s.name < counter'
    BY <1>i, <1>n, <1>s, <2>1
  <2>3. \A s, t \in S : s.name = t.name => s = t
    BY <1>i, <1>n, <1>s
  <2>4. infos' = S
    BY <2>1 DEF Begin
  <2>5. \A f \in disk \cup deletable : Used(f)'
    <3> SUFFICES ASSUME NEW f \in disk \cup deletable PROVE Used(f)'
      OBVIOUS
    <3>1. Used(f) /\ (f.kind # "segments" => f.of \in Int)
      BY <1>u, <1>t DEF TypeOK, Files
    <3>2. \A s \in S : s \in infos \/ s.name = counter
      BY <1>s
    <3> HIDE DEF S
    <3> QED BY <1>n, <2>1, <2>4, <3>1, <3>2 DEF Used
  <2>6. \A f \in {Parts(counter)} : Used(f)'
    BY <1>n, <1>s, <2>1 DEF Used
  <2>7. counter' - 1 = counter /\ NewSegment(counter) \in S
    BY <1>n, <2>1
  <2> HIDE DEF S
  <2>8. \A f \in disk \cup deletable \cup {Parts(counter)} : Used(f)'
    BY <2>5, <2>6
  <2> QED BY <1>b, <2>1, <2>2, <2>3, <2>7, <2>8
<1>5. CASE Merge
  <2>0. PICK T \in SUBSET infos :
          Begin("merge", (infos \ T) \cup {NewSegment(counter)}, {Parts(counter)})
    BY <1>5 DEF Merge
  <2> DEFINE S == (infos \ T) \cup {NewSegment(counter)}
  <2>1. Begin("merge", S, {Parts(counter)}) /\ counter' = counter + 1
        /\ UNCHANGED <<log, published, deletable, gen, after>>
    BY <1>5, <2>0 DEF Merge
  <2>2. \A s \in S : s.name < counter'
    BY <1>i, <1>n, <1>s, <2>1
  <2>3. \A s, t \in S : s.name = t.name => s = t
    BY <1>i, <1>n, <1>s
  <2>4. infos' = S
    BY <2>1 DEF Begin
  <2>5. \A f \in disk \cup deletable : Used(f)'
    <3> SUFFICES ASSUME NEW f \in disk \cup deletable PROVE Used(f)'
      OBVIOUS
    <3>1. Used(f) /\ (f.kind # "segments" => f.of \in Int)
      BY <1>u, <1>t DEF TypeOK, Files
    <3>2. \A s \in S : s \in infos \/ s.name = counter
      BY <1>s
    <3> HIDE DEF S
    <3> QED BY <1>n, <2>1, <2>4, <3>1, <3>2 DEF Used
  <2>6. \A f \in {Parts(counter)} : Used(f)'
    BY <1>n, <1>s, <2>1 DEF Used
  <2>7. counter' - 1 = counter /\ NewSegment(counter) \in S
    BY <1>n, <2>1
  <2> HIDE DEF S
  <2>8. \A f \in disk \cup deletable \cup {Parts(counter)} : Used(f)'
    BY <2>5, <2>6
  <2> QED BY <1>b, <2>1, <2>2, <2>3, <2>7, <2>8
<1>6. CASE Compound
  <2> DEFINE S == {[s EXCEPT !.cfs = s.cfs \/ s.name = counter - 1] : s \in infos}
  <2>1. Begin("compound", S, {Cfs(counter - 1)}) /\ counter' = counter /\ counter > 0
        /\ UNCHANGED <<log, published, deletable, gen, after>>
    BY <1>6, <1>t DEF Compound, Room
  <2>2. \A s \in infos :
          LET t == [s EXCEPT !.cfs = s.cfs \/ s.name = counter - 1]
          IN  t.name = s.name /\ t.del = s.del /\ (t.cfs <=> s.cfs \/ s.name = counter - 1)
    BY <1>i DEF Segment
  <2>3. \A t \in S : \E s \in infos : /\ t.name = s.name /\ t.del = s.del
                                      /\ t.cfs <=> s.cfs \/ s.name = counter - 1
                                      /\ t = [s EXCEPT !.cfs = s.cfs \/ s.name = counter - 1]
    BY <2>2
  <2>4. infos' = S
    BY <2>1 DEF Begin
  <2> HIDE DEF S
  <2>5. \A s \in S : s.name < counter'
    BY <1>i, <2>1, <2>3
  <2>6. \A s, t \in S : s.name = t.name => s = t
    BY <1>i, <2>3
  <2>7. \A f \in disk \cup deletable : Used(f)'
    BY <1>u, <2>1, <2>3, <2>4 DEF Used
  <2>8. Used(Cfs(counter - 1))'
    <3>1. counter - 1 < counter
      BY <1>n
    <3>2. \A t \in S : t.name = counter - 1 => t.cfs
      BY <2>3
    <3> QED BY <2>1, <2>4, <3>1, <3>2 DEF Used, Cfs
  <2>9. \A f \in disk \cup deletable \cup {Cfs(counter - 1)} : Used(f)'
    BY <2>1, <2>7, <2>8 DEF Cfs
  <2> QED BY <1>b, <2>1, <2>5, <2>6, <2>9
<1>7. CASE StartDeletions
  BY <1>0, <1>7 DEF StartDeletions
<1>8. CASE WriteDeletions
  <2>0. PICK T \in (SUBSET infos) \ {{}} :
          LET del == {[s EXCEPT !.del = s.del + 1] : s \in T}
          IN  Begin("delete", (infos \ T) \cup del, {Del(s.name, s.del) : s \in del})
    BY <1>8 DEF WriteDeletions
  <2> DEFINE del == {[s EXCEPT !.del = s.del + 1] : s \in T}
             S   == (infos \ T) \cup del
             F   == {Del(s.name, s.del) : s \in del}
  <2>1. Begin("delete", S, F) /\ counter' = counter
        /\ UNCHANGED <<log, published, deletable, gen, after>>
    BY <1>8, <2>0 DEF WriteDeletions
  <2>2. \A s \in infos :
          LET t == [s EXCEPT !.del = s.del + 1]
          IN  t.name = s.name /\ t.del = s.del + 1 /\ t.cfs = s.cfs
    BY <1>i DEF Segment
  <2>3. \A t \in S : \/ t \in infos /\ t \notin T
                     \/ \E s \in T : /\ s \in infos /\ t = [s EXCEPT !.del = s.del + 1]
                                    /\ t.name = s.name /\ t.cfs = s.cfs /\ t.del = s.del + 1
    BY <2>2
  <2>4. infos' = S
    BY <2>1 DEF Begin
  <2>5. \A f \in F : \E s \in T : f = Del(s.name, s.del + 1)
    <3>1. \A t \in del : \E s \in T : t.name = s.name /\ t.del = s.del + 1
      BY <2>2
    <3> HIDE DEF del
    <3> QED BY <3>1
  <2> HIDE DEF S, F
  <2>6. \A s \in S : s.name < counter'
    BY <1>i, <2>1, <2>3
  <2>7. \A s, t \in S : s.name = t.name => s = t
    BY <1>i, <2>3
  <2>8. \A f \in disk \cup deletable : Used(f)'
    <3> SUFFICES ASSUME NEW f \in disk \cup deletable PROVE Used(f)'
      OBVIOUS
    <3>1. Used(f) /\ (f.kind = "del" => f.gen \in Int)
      BY <1>u, <1>t DEF TypeOK, Files
    <3> QED BY <1>i, <2>1, <2>3, <2>4, <3>1 DEF Used
  <2>9. \A f \in F : Used(f)'
    <3> SUFFICES ASSUME NEW s \in T PROVE Used(Del(s.name, s.del + 1))'
      BY <2>5
    <3>1. s \in infos /\ s.name < counter
      BY <1>i
    <3>2. \A t \in S : t.name = s.name => s.del + 1 <= t.del
      BY <1>i, <2>3, <3>1
    <3> QED BY <2>1, <2>4, <3>1, <3>2 DEF Used, Del
  <2>10. \A f \in disk \cup deletable \cup F : Used(f)'
    BY <2>8, <2>9
  <2> QED BY <1>b, <2>1, <2>6, <2>7, <2>10
<1>9. ASSUME NEW next \in {"reader", "writer", "off"}, CloseWriter(next)
      PROVE  Named'
  <2>1. CASE pending
    <3>1. Begin("close", infos, {}) /\ after' # "broken"
          /\ UNCHANGED <<log, published, deletable, gen, counter>>
      BY <1>9, <2>1 DEF CloseWriter
    <3>2. infos' = infos
      BY <3>1 DEF Begin
    <3>3. \A f \in disk \cup deletable \cup {} : Used(f)'
      BY <1>u, <3>1, <3>2 DEF Used
    <3> QED BY <1>b, <1>i, <3>1, <3>3
  <2>2. CASE ~pending
    BY <1>0, <1>9, <2>2 DEF CloseWriter
  <2> QED BY <1>t, <2>1, <2>2 DEF TypeOK
<1>10. ASSUME NEW next \in {"writer", "off"}, CloseReader(next)
       PROVE  Named'
  BY <1>0, <1>10 DEF CloseReader
<1>11. CASE FinishClose
  BY <1>0, <1>11 DEF FinishClose
<1>12. CASE TurnOff
  BY <1>0, <1>12 DEF TurnOff
<1> QED BY <1>1, <1>2, <1>3, <1>4, <1>5, <1>6, <1>7, <1>8, <1>9, <1>10, <1>11, <1>12 DEF Modify

\* Nor do those of a commit.
LEMMA WriteNames ==
  ASSUME Windows, Undisturbed', IInv, Write
  PROVE  Named'
<1> USE DEF dirVars, memVars, workVars, delVars, boundVars
<1>t. TypeOK /\ Room /\ Named /\ Safe
  BY DEF IInv, TypeInv, NamesOnce
<1>n. gen \in Nat /\ failures \in Nat /\ lost \in Nat /\ lost' = 0 /\ failures' = 0
  BY <1>t, BoundAssumption DEF TypeOK, Undisturbed
<1>1. CASE CreateSegments
  <2>1. \A f \in disk \cup deletable : Used(f)'
    <3> SUFFICES ASSUME NEW f \in disk \cup deletable PROVE Used(f)'
      OBVIOUS
    <3>1. Used(f) /\ f.gen \in Int
      BY <1>t DEF TypeOK, Files, Named
    <3> QED BY <1>1, <1>n, <3>1 DEF CreateSegments, Used
  <2>2. \A f \in {Segments(gen + 1)} : Used(f)'
    BY <1>1, <1>n DEF CreateSegments, Used, Segments
  <2>3. \A f \in disk' \cup deletable' : Used(f)'
    <3>1. disk' = disk \cup {Segments(gen + 1)} /\ deletable' = deletable
      BY <1>1 DEF CreateSegments
    <3> QED BY <2>1, <2>2, <3>1
  <2> QED BY <1>1, <1>t, <2>3 DEF CreateSegments, Named
<1>2. CASE CompleteSegments
  <2>1. gen \in Gens
    BY <1>2, <1>t, <1>n, BoundAssumption DEF CompleteSegments, Room, TypeOK, Gens
  <2>2. log'[gen].counter = counter
    BY <1>2, <1>t, <2>1 DEF CompleteSegments, TypeOK
  <2> QED BY <1>2, <1>t, <2>2 DEF CompleteSegments, Named, Used
<1>3. CASE UnlinkPointer \/ CreatePointer
  BY <1>3, <1>t DEF UnlinkPointer, CreatePointer, Named, Used
<1>4. CASE FillPointer
  <2>1. published = gen /\ gen > 0 /\ log[gen].infos = infos /\ log[gen].counter = counter
    BY <1>4, <1>t DEF FillPointer, Safe, Writing, Named
  <2>2. after' = "compound" => job \in {"flush", "merge"}
    BY <1>4, <1>t DEF FillPointer, Checkpoint, Room, TypeOK
  <2>3. after' # "broken"
    BY <1>4, <1>t DEF FillPointer, Checkpoint, Named
  <2> QED BY <1>4, <1>t, <1>n, <2>1, <2>2, <2>3 DEF FillPointer, Checkpoint, Named, Used
<1>5. ~TruncateSegments /\ ~SkipPointer
  BY <1>n DEF TruncateSegments, SkipPointer
<1>6. ~FailCommit
  BY <1>n, NewNames DEF FailCommit, Blocked
<1> QED BY <1>1, <1>2, <1>3, <1>4, <1>5, <1>6 DEF Write

\* IInv holds at first, and every step keeps it.
LEMMA SafeInit == Init => IInv
<1> SUFFICES ASSUME Init PROVE IInv
  OBVIOUS
<1>1. \A g : ~Complete(g)
  BY DEF Init, Complete, NoCommit
<1>2. Safe
  BY <1>1 DEF Init, Safe, CommitReadable, Ordered, DoomedAreDead, AtRest, Ahead, Writing, Deleting,
              PendingAreDead
<1>3. Named
  BY DEF Init, Named
<1> QED BY <1>2, <1>3, TypeInit DEF IInv, NamesOnce

LEMMA SafeStep ==
  ASSUME Undisturbed', IInv, [Next]_vars
  PROVE  IInv'
<1> SUFFICES Safe' /\ (Windows => Named')
  BY TypeStep DEF IInv, NamesOnce
<1> USE DEF dirVars, memVars, workVars, delVars, boundVars
<1>1. CASE Write
  BY <1>1, WriteSafe, WriteNames
<1>2. CASE Modify
  BY <1>2, ModifySafe, ModifyNames
<1>3. CASE DeleteFile
  <2>1. PICK f \in doomed :
          /\ doomed' = doomed \ {f}
          /\ IF f \in disk /\ Windows /\ Held(f)
             THEN deletable' = deletable \cup {f} /\ UNCHANGED disk
             ELSE disk' = disk \ {f} /\ UNCHANGED deletable
          /\ UNCHANGED <<log, pointer, published, memVars, workVars>> /\ step = "clean"
    BY <1>3 DEF DeleteFile
  <2>2. CommitReadable' /\ Ordered' /\ DoomedAreDead'
    BY <2>1 DEF IInv, Safe, CommitReadable, Ordered, DoomedAreDead, FilesOf, Complete
  <2>3. AtRest' /\ Ahead' /\ Deleting'
    BY <2>1 DEF IInv, Safe, AtRest, Ahead, Deleting
  <2>4. Writing'
    BY <2>1 DEF Writing
  <2>5. PendingAreDead'
    BY <2>1 DEF IInv, Safe, PendingAreDead, DoomedAreDead, FilesOf
  <2>6. Windows => Named'
    <3> SUFFICES ASSUME Named PROVE Named'
      BY DEF IInv, NamesOnce
    <3>1. disk' \cup deletable' \subseteq disk \cup deletable /\ disk' \subseteq disk
      BY <2>1
    <3> QED BY <2>1, <3>1 DEF Named, Used
  <2> QED BY <2>2, <2>3, <2>4, <2>5, <2>6 DEF Safe
<1>4. CASE UNCHANGED <<dirVars, memVars, workVars, delVars>>
  <2>1. CommitReadable' /\ Ordered' /\ DoomedAreDead' /\ PendingAreDead'
    BY <1>4 DEF IInv, Safe, CommitReadable, Ordered, DoomedAreDead, FilesOf, Complete, PendingAreDead
  <2>2. AtRest' /\ Ahead' /\ Deleting' /\ Writing'
    BY <1>4 DEF IInv, Safe, AtRest, Ahead, Deleting, Writing
  <2>3. Windows => Named'
    BY <1>4 DEF IInv, NamesOnce, Named, Used
  <2> QED BY <2>1, <2>2, <2>3 DEF Safe
<1>5. ASSUME NEW r \in Readers, Search(r) PROVE UNCHANGED <<dirVars, memVars, workVars, delVars>>
  BY <1>5 DEF Search, Open, BeginOpening, ListFiles, ReadPointer, OpenSegments,
              ReadSegments, OpenData, CloseSearch
<1>6. CASE Crash \/ GiveUp
  <2>1. Stop
    BY <1>6 DEF Crash, GiveUp
  <2>2. CommitReadable' /\ Ordered' /\ DoomedAreDead'
    BY <2>1 DEF Stop, IInv, Safe, CommitReadable, Ordered, DoomedAreDead, FilesOf, Complete
  <2>3. AtRest' /\ Ahead' /\ Deleting' /\ PendingAreDead' /\ Writing'
    BY <2>1 DEF Stop, AtRest, Ahead, Deleting, PendingAreDead, Writing
  <2>4. ~Windows
    BY <1>6, BoundAssumption
       DEF Crash, GiveUp, Ready, Undisturbed, IInv, NamesOnce, Named, TypeInv, TypeOK
  <2> QED BY <2>2, <2>3, <2>4 DEF Safe
<1> QED BY <1>1, <1>2, <1>3, <1>4, <1>5, <1>6 DEF Next, vars

\* What has been lost, and who has crashed or failed, is never forgotten.
LEMMA UndisturbedBefore ==
  ASSUME TypeOK, [Next]_vars, Undisturbed'
  PROVE  Undisturbed
<1> USE DEF dirVars, memVars, workVars, delVars, boundVars
<1>n. crashes \in Nat /\ failures \in Nat /\ lost \in Nat
  BY BoundAssumption DEF TypeOK
<1>1. Write => /\ crashes' = crashes
               /\ failures' = failures \/ failures' = failures + 1
               /\ lost' = lost \/ lost' = lost + 1
  BY DEF Write, CreateSegments, CompleteSegments, TruncateSegments, UnlinkPointer, CreatePointer,
         FillPointer, SkipPointer, FailCommit
<1>2. Modify \/ DeleteFile \/ UNCHANGED vars => UNCHANGED boundVars
  BY DEF Modify, CreateIndex, OpenWriter, OpenReader, Flush, Merge, Compound, StartDeletions,
         WriteDeletions, CloseWriter, CloseReader, FinishClose, TurnOff, DeleteFile, vars
<1>3. (\E r \in Readers : Search(r)) => UNCHANGED boundVars
  BY DEF Search, Open, BeginOpening, ListFiles, ReadPointer, OpenSegments, ReadSegments,
         OpenData, CloseSearch
<1>4. Crash \/ GiveUp => /\ crashes' = crashes \/ crashes' = crashes + 1
                        /\ UNCHANGED <<failures, lost>>
  BY DEF Crash, GiveUp, Stop
<1>5. /\ crashes' = crashes \/ crashes' = crashes + 1
      /\ failures' = failures \/ failures' = failures + 1
      /\ lost' = lost \/ lost' = lost + 1
  BY <1>1, <1>2, <1>3, <1>4 DEF Next
<1> QED BY <1>n, <1>5 DEF Undisturbed

\* The invariant holds until the program is disturbed; the types hold for ever.
CommitInv == TypeInv /\ (Undisturbed => IInv)

THEOREM CommitInvariance == Spec => []CommitInv
<1>1. Init => CommitInv
  BY SafeInit, TypeInit DEF CommitInv
<1>2. CommitInv /\ [Next]_vars => CommitInv'
  BY TypeStep, SafeStep, UndisturbedBefore DEF CommitInv, TypeInv
<1> QED BY <1>1, <1>2, PTL DEF Spec

\* The newest commit can be read at every moment, whatever the deleter removes, which
\* ever reported I/O error strikes and wherever the program ends (IndexFileDeleter,
\* SegmentInfos::write), until an error is lost; where open files cannot be deleted, until
\* the program crashes or fails.
THEOREM CommitSafe == Spec => [](Undisturbed => CommitReadable)
<1>1. CommitInv => (Undisturbed => CommitReadable)
  BY DEF CommitInv, IInv, Safe
<1> QED BY <1>1, CommitInvariance, PTL

\* Nothing the deleter will try to remove again belongs to the newest commit, where
\* open files cannot be deleted as well (IndexFileDeleter::deletePendingFiles).
THEOREM RememberedStayDead == Spec => []RememberedAreDead
<1>1. CommitInv => RememberedAreDead
  BY DEF CommitInv, IInv, Safe, PendingAreDead, RememberedAreDead
<1> QED BY <1>1, CommitInvariance, PTL

\* After any number of reported errors and ends of the program, a start finds the
\* newest commit or throws (FindSegmentsFile::doRun).
THEOREM RestartForward == Spec => [](Undisturbed => RestartNeverGoesBack)
<1>1. IInv => RestartNeverGoesBack
  <2> SUFFICES ASSUME IInv PROVE RestartNeverGoesBack
    OBVIOUS
  <2>1. TypeOK /\ CommitReadable /\ Ordered
    BY DEF IInv, TypeInv, Safe
  <2>2. Found \in Nat
    BY FoundType, <2>1
  <2> QED BY <2>1, <2>2, FoundIsLast DEF RestartNeverGoesBack
<1>2. CommitInv => (Undisturbed => RestartNeverGoesBack)
  BY <1>1 DEF CommitInv
<1> QED BY <1>2, CommitInvariance, PTL


-----------------------------------------------------------------------------
(* A search sees one commit                                                 *)

\* What segments_N holds once it is complete is never written again.
LEMMA CommitsStay ==
  ASSUME lost' = 0, IInv, [Next]_vars, NEW g, Complete(g)
  PROVE  Complete(g)' /\ log'[g] = log[g]
<1> USE DEF dirVars, memVars, workVars, delVars, boundVars
<1>1. CASE CompleteSegments
  <2>1. gen > published /\ published \in Int /\ gen \in Int
    BY <1>1, BoundAssumption DEF CompleteSegments, IInv, TypeInv, TypeOK, Safe, Ahead
  <2>2. g \in Gens /\ g <= published
    BY DEF Complete, IInv, Safe, Ordered
  <2>3. g # gen
    BY <2>1, <2>2 DEF Gens
  <2>4. log'[g] = log[g]
    BY <1>1, <2>2, <2>3 DEF CompleteSegments, IInv, TypeInv, TypeOK
  <2> QED BY <2>4 DEF Complete
<1>2. CASE TruncateSegments
  BY <1>2, BoundAssumption DEF TruncateSegments, IInv, TypeInv, TypeOK
<1>3. CASE log' = log
  BY <1>3 DEF Complete
<1>4. Write => CompleteSegments \/ TruncateSegments \/ log' = log
  BY DEF Write, CreateSegments, UnlinkPointer, CreatePointer, FillPointer, SkipPointer, FailCommit
<1>5. Modify => log' = log
  BY DEF Modify, CreateIndex, OpenWriter, OpenReader, Flush, Merge, Compound, StartDeletions,
         WriteDeletions, CloseWriter, CloseReader, FinishClose, TurnOff
<1>6. (DeleteFile \/ Crash \/ GiveUp \/ UNCHANGED vars) => log' = log
  BY DEF DeleteFile, Crash, GiveUp, Stop, vars
<1>7. (\E r \in Readers : Search(r)) => log' = log
  BY DEF Search, Open, BeginOpening, ListFiles, ReadPointer, OpenSegments, ReadSegments,
         OpenData, CloseSearch
<1> QED BY <1>1, <1>2, <1>3, <1>4, <1>5, <1>6, <1>7 DEF Next

\* The files a search has open, and those it will open, are the files of one commit.
Whole(x) ==
  /\ x.at = "data" => Complete(x.target) /\ x.held \cup x.todo = DataFiles(log[x.target].infos)
  /\ x.at = "open" => Complete(x.target) /\ x.held = DataFiles(log[x.target].infos)

WholeViews == \A r \in Readers : Whole(reader[r])

LEMMA NotWhole ==
  ASSUME NEW x \in SearchState, NEW g \in Int
  PROVE  /\ Try(x, g).at \in {"try", "failed"}
         /\ Missed(x).at \in {"try", "failed", "list"}
<1>1. \A y \in SearchState, h \in Int : Try(y, h).at \in {"try", "failed"}
  BY DEF Try, SearchState
<1> DEFINE y == [x EXCEPT !.todo = {}, !.held = {}]
<1>2. y \in SearchState /\ x.gen \in Int
  BY DEF SearchState
<1>3. Try(y, x.gen).at \in {"try", "failed"}
  BY <1>1, <1>2
<1>4. [y EXCEPT !.at = "try", !.target = x.gen - 1].at = "try" /\ [y EXCEPT !.at = "list"].at = "list"
  BY DEF SearchState
<1> QED BY <1>1, <1>3, <1>4 DEF Missed

\* A search that has a whole commit in view, or none, goes on to such a view.
LEMMA SearchWhole ==
  ASSUME TypeOK, NEW r \in Readers, Search(r), Whole(reader[r])
  PROVE  /\ Whole(reader'[r])
         /\ \A q \in Readers : q # r => reader'[q] = reader[q]
         /\ log' = log
<1> USE DEF dirVars
<1> DEFINE x == reader[r]
<1>1. x \in SearchState /\ reader \in [Readers -> SearchState] /\ Pointed \in Int
  BY FoundType DEF TypeOK
<1>2. log' = log /\ \A q \in Readers : q # r => reader'[q] = reader[q]
  BY <1>1 DEF Search, Open, BeginOpening, ListFiles, ReadPointer, OpenSegments, ReadSegments,
              OpenData, CloseSearch
<1>3. CASE BeginOpening(r)
  BY <1>1, <1>3 DEF BeginOpening, Whole, Idle
<1>4. CASE ListFiles(r)
  <2>1. reader'[r].at = "pointer"
    BY <1>1, <1>4 DEF ListFiles, SearchState
  <2> QED BY <1>2, <2>1 DEF Whole
<1>5. CASE ReadPointer(r)
  <2> DEFINE g == IF x.listed > Pointed THEN x.listed ELSE Pointed
  <2>1. g \in Int
    BY <1>1 DEF SearchState
  <2>2. Try(x, g).at \in {"try", "failed"} /\ [x EXCEPT !.at = "failed"].at = "failed"
    BY <1>1, <2>1, NotWhole DEF SearchState
  <2>3. reader'[r] = IF g = -1 THEN [x EXCEPT !.at = "failed"] ELSE Try(x, g)
    BY <1>1, <1>5 DEF ReadPointer
  <2>4. reader'[r].at \in {"try", "failed"}
    <3> HIDE DEF g, x
    <3> QED BY <2>2, <2>3
  <2> QED BY <1>2, <2>4 DEF Whole
<1>6. CASE OpenSegments(r)
  <2>1. Missed(x).at \in {"try", "failed", "list"}
    BY <1>1, NotWhole
  <2>2. [x EXCEPT !.at = "read", !.held = {Segments(x.target)}].at = "read"
    BY <1>1 DEF SearchState
  <2>3. reader'[r] = IF Segments(x.target) \in disk
                     THEN [x EXCEPT !.at = "read", !.held = {Segments(x.target)}]
                     ELSE Missed(x)
    BY <1>1, <1>6 DEF OpenSegments
  <2>4. reader'[r].at \in {"try", "failed", "list", "read"}
    <3> HIDE DEF x
    <3> QED BY <2>1, <2>2, <2>3
  <2> QED BY <1>2, <2>4 DEF Whole
<1>7. CASE ReadSegments(r)
  <2> DEFINE y == [x EXCEPT !.held = {}, !.todo = DataFiles(log[x.target].infos)]
  <2>1. CASE Complete(x.target)
    <3>1. reader'[r] = Got(y)
      BY <1>1, <1>7, <2>1 DEF ReadSegments
    <3>2. y.held = {} /\ y.todo = DataFiles(log[x.target].infos) /\ y.target = x.target
      BY <1>1 DEF SearchState
    <3>3. CASE y.todo = {}
      <4>1. reader'[r] = [Idle EXCEPT !.at = "open", !.target = y.target, !.held = y.held]
        BY <3>1, <3>3 DEF Got
      <4>2. /\ reader'[r].at = "open" /\ reader'[r].target = y.target
            /\ reader'[r].held = y.held
        BY <4>1 DEF Idle
      <4> QED BY <1>2, <2>1, <3>2, <3>3, <4>2 DEF Whole, Complete
    <3>4. CASE y.todo # {}
      <4>1. reader'[r] = [y EXCEPT !.at = "data"]
        BY <3>1, <3>4 DEF Got
      <4>2. /\ reader'[r].at = "data" /\ reader'[r].target = y.target
            /\ reader'[r].held = y.held /\ reader'[r].todo = y.todo
        BY <1>1, <4>1 DEF SearchState
      <4> QED BY <1>2, <2>1, <3>2, <4>2 DEF Whole, Complete
    <3> QED BY <3>3, <3>4
  <2>2. CASE ~Complete(x.target)
    <3>1. reader'[r].at \in {"try", "failed", "list"}
      BY <1>1, <1>7, <2>2, NotWhole DEF ReadSegments
    <3> QED BY <1>2, <3>1 DEF Whole
  <2> QED BY <2>1, <2>2
<1>8. CASE OpenData(r)
  <2>1. PICK f \in x.todo :
          reader'[r] = IF f \in disk
                       THEN Got([x EXCEPT !.todo = @ \ {f}, !.held = @ \cup {f}])
                       ELSE Missed(x)
    BY <1>1, <1>8 DEF OpenData
  <2> DEFINE y == [x EXCEPT !.todo = @ \ {f}, !.held = @ \cup {f}]
  <2>2. Complete(x.target) /\ x.held \cup x.todo = DataFiles(log[x.target].infos)
    BY <1>8 DEF OpenData, Whole
  <2>3. y.target = x.target /\ y.held \cup y.todo = DataFiles(log[x.target].infos)
    BY <1>1, <2>2 DEF SearchState
  <2>4. y \in SearchState
    BY <1>1 DEF SearchState
  <2>5. CASE f \in disk
    <3>1. CASE y.todo = {}
      <4>1. reader'[r] = [Idle EXCEPT !.at = "open", !.target = y.target, !.held = y.held]
        BY <2>1, <2>5, <3>1 DEF Got
      <4>2. /\ reader'[r].at = "open" /\ reader'[r].target = y.target
            /\ reader'[r].held = y.held
        BY <4>1 DEF Idle
      <4> HIDE DEF y
      <4> QED BY <1>2, <2>2, <2>3, <3>1, <4>2 DEF Whole, Complete
    <3>2. CASE y.todo # {}
      <4>1. reader'[r] = [y EXCEPT !.at = "data"]
        BY <2>1, <2>5, <3>2 DEF Got
      <4> HIDE DEF y
      <4>2. /\ reader'[r].at = "data" /\ reader'[r].target = y.target
            /\ reader'[r].held = y.held /\ reader'[r].todo = y.todo
        BY <2>4, <4>1 DEF SearchState
      <4> QED BY <1>2, <2>2, <2>3, <4>2 DEF Whole, Complete
    <3> QED BY <3>1, <3>2
  <2>6. CASE f \notin disk
    <3>1. reader'[r].at \in {"try", "failed", "list"}
      BY <1>1, <2>1, <2>6, NotWhole
    <3> QED BY <1>2, <3>1 DEF Whole
  <2> QED BY <2>5, <2>6
<1>9. CASE CloseSearch(r)
  BY <1>1, <1>9 DEF CloseSearch, Whole, Idle
<1> QED BY <1>2, <1>3, <1>4, <1>5, <1>6, <1>7, <1>8, <1>9 DEF Search, Open

LEMMA WholeStep ==
  ASSUME Undisturbed', IInv, WholeViews, [Next]_vars
  PROVE  WholeViews'
<1>t. TypeOK
  BY DEF IInv, TypeInv
<1>1. ASSUME reader' = reader PROVE WholeViews'
  <2> SUFFICES ASSUME NEW r \in Readers PROVE Whole(reader[r])'
    BY DEF WholeViews
  <2>1. Whole(reader[r])
    BY DEF WholeViews
  <2>2. Complete(reader[r].target) =>
          Complete(reader[r].target)' /\ log'[reader[r].target] = log[reader[r].target]
    BY CommitsStay, <1>1 DEF Complete, Undisturbed
  <2> QED BY <1>1, <2>1, <2>2 DEF Whole
<1>2. ASSUME NEW r \in Readers, Search(r) PROVE WholeViews'
  <2>1. Whole(reader[r])
    BY DEF WholeViews
  <2>2. /\ log' = log /\ Whole(reader'[r])
        /\ \A q \in Readers : q # r => reader'[q] = reader[q]
    BY <1>t, <1>2, <2>1, SearchWhole
  <2>3. \A q \in Readers : Whole(reader'[q])
    BY <2>2 DEF WholeViews
  <2> QED BY <2>2, <2>3 DEF WholeViews, Whole, Complete
<1>3. CASE Stop
  <2>1. \A r \in Readers : reader'[r].at = "idle"
    BY <1>3 DEF Stop, Idle
  <2> QED BY <2>1 DEF WholeViews, Whole
<1>4. Write \/ Modify \/ DeleteFile \/ UNCHANGED vars => reader' = reader
  BY DEF Write, CreateSegments, CompleteSegments, TruncateSegments, UnlinkPointer, CreatePointer,
         FillPointer, SkipPointer, FailCommit, Modify, CreateIndex, OpenWriter, OpenReader, Flush,
         Merge, Compound, StartDeletions, WriteDeletions, CloseWriter, CloseReader, FinishClose,
         TurnOff, DeleteFile, vars
<1> QED BY <1>1, <1>2, <1>3, <1>4 DEF Next, Crash, GiveUp

\* The files a search has open are those of one commit, whatever the writer wrote and the
\* deleter removed while it opened them (FindSegmentsFile::doRun, MultiSegmentReader).
THEOREM SearchesSeeOneCommit == Spec => [](Undisturbed => SeesOneCommit)
<1> DEFINE Views == Undisturbed => WholeViews
<1>1. CommitInv /\ Views => (Undisturbed => SeesOneCommit)
  BY DEF WholeViews, Whole, SeesOneCommit
<1>2. Init => Views
  BY DEF Init, WholeViews, Whole, Idle
<1>3. CommitInv /\ Views /\ [Next]_vars => Views'
  BY WholeStep, UndisturbedBefore DEF CommitInv, TypeInv
<1> QED BY <1>1, <1>2, <1>3, CommitInvariance, PTL DEF Spec


-----------------------------------------------------------------------------
(* A start finds the newest commit                                          *)

\* As long as no commit has failed, the numbers of segments_N have no gaps: there is one
\* beyond the newest commit at most, and segments.gen is not ahead of it.
Near ==
  /\ published > 0 => \A g \in SegGens : g <= published + 1
  /\ pointer <= published
  /\ step = "data" => /\ \A g \in SegGens : g <= gen + 1
                      /\ published > 0 => gen = published
  /\ step = "segments" => \A g \in SegGens : g <= gen
  /\ step = "clean" /\ mode # "off" /\ after # "off" => gen = published

LEMMA FoundIsNewest ==
  ASSUME IInv, Near
  PROVE  /\ Found = published
         /\ published > 0 => LastRead = published
         /\ published = 0 => \A g \in SegGens : g <= LastRead
<1>t. TypeOK /\ CommitReadable /\ Ordered
  BY DEF IInv, TypeInv, Safe
<1>n. /\ published \in Nat /\ Newest \in Int /\ Found \in Nat /\ Pointed \in Int
      /\ Listed \in Int /\ Pointed <= published
  BY <1>t, FoundType, ListedIsMax, BoundAssumption DEF TypeOK, Near, Pointed
<1>1. Found > 0 => Found = published
  BY <1>t, FoundIsLast
<1>2. published > 0 => Found = published
  <2> SUFFICES ASSUME published > 0 PROVE Found = published
    OBVIOUS
  <2>1. Segments(published) \in disk /\ Complete(published) /\ published \in SegGens
    BY <1>t, BoundAssumption DEF CommitReadable, FilesOf, SegGens, TypeOK
  <2>2. Listed \in SegGens /\ Listed >= published /\ Listed <= published + 1
    BY <1>n, <2>1, ListedIsMax DEF Near
  <2>3. Newest = Listed
    BY <1>n, <2>2 DEF Newest
  <2>4. CASE Newest = published
    BY <2>1, <2>4 DEF Found
  <2>5. CASE Newest = published + 1
    <3>1. ~Complete(Newest)
      <4>1. Complete(Newest) => Newest <= published
        BY <1>t DEF Ordered, Complete
      <4> QED BY <1>n, <2>5, <4>1
    <3> QED BY <1>n, <2>1, <2>5, <3>1 DEF Found
  <2> QED BY <1>n, <2>2, <2>3, <2>4, <2>5
<1>3. published = 0 => \A g \in SegGens : g <= LastRead
  <2> SUFFICES ASSUME published = 0, NEW g \in SegGens PROVE g <= LastRead
    OBVIOUS
  <2>1. Found = 0
    BY <1>1, <1>n
  <2>2. g \in Nat /\ g <= Listed /\ Listed \in SegGens /\ Listed > 0
    BY ListedIsMax, BoundAssumption DEF SegGens
  <2>3. Newest >= Listed
    BY <1>n, <2>2 DEF Newest
  <2> QED BY <1>n, <2>1, <2>2, <2>3 DEF LastRead
<1>4. published > 0 => LastRead = published
  BY <1>2, <1>n DEF LastRead
<1> QED BY <1>1, <1>2, <1>3, <1>4, <1>n

\* Data files are no segments_N: the listing is the same.
LEMMA BeginNear ==
  ASSUME IInv, Near, step = "clean", mode # "off", after # "off",
         NEW S, NEW F, \A f \in F : f.kind # "segments", NEW what, Begin(what, S, F),
         UNCHANGED <<pointer, published, gen>>
  PROVE  Near'
<1>1. SegGens' = SegGens
  BY DEF SegGens, Begin, Segments
<1>2. gen = published /\ published \in Nat
  BY BoundAssumption DEF Near, IInv, TypeInv, TypeOK
<1>3. published > 0
  BY DEF IInv, Safe, AtRest
<1> QED BY <1>1, <1>2, <1>3 DEF Near, Begin

LEMMA NearStep ==
  ASSUME Undisturbed', IInv, Near, [Next]_vars, failures' = 0
  PROVE  Near'
<1> USE DEF dirVars, memVars, workVars, delVars, boundVars, Ready
<1>t. TypeOK /\ Safe
  BY DEF IInv, TypeInv
<1>n. published \in Nat /\ gen \in Nat /\ pointer \in Int /\ failures \in Nat
  BY <1>t, BoundAssumption DEF TypeOK
<1>f. Found = published /\ (published > 0 => LastRead = published)
  BY FoundIsNewest
<1>0. ASSUME UNCHANGED <<disk, published, pointer, gen, step, mode>>,
             after' = after \/ after' = "off" \/ step # "clean" \/ mode = "off"
                \/ (after # "off" /\ mode # "off")
      PROVE  Near'
  BY <1>0 DEF Near, SegGens
<1>1. CASE CreateIndex
  <2>1. \A g \in SegGens : g <= LastRead + 1
    BY <1>n, <1>f, FoundIsNewest, BoundAssumption, FoundType, <1>t DEF Near, SegGens
  <2>2. SegGens' = SegGens /\ gen' = LastRead /\ step' = "data" /\ published' = published
        /\ pointer' = pointer
    BY <1>1 DEF CreateIndex, SegGens
  <2> QED BY <1>f, <2>1, <2>2 DEF Near
<1>2. CASE OpenWriter
  BY <1>f, <1>2 DEF OpenWriter, Near, SegGens
<1>3. CASE OpenReader
  BY <1>f, <1>3 DEF OpenReader, Near, SegGens
<1>4. CASE Flush
  <2>1. Parts(counter).kind # "segments"
    BY DEF Parts
  <2> QED BY <1>4, <2>1, BeginNear DEF Flush
<1>5. CASE Merge
  <2>1. Parts(counter).kind # "segments"
    BY DEF Parts
  <2>2. PICK S : Begin("merge", S, {Parts(counter)})
    BY <1>5 DEF Merge
  <2> QED BY <1>5, <2>1, <2>2, BeginNear DEF Merge
<1>6. CASE Compound
  <2>1. Cfs(counter - 1).kind # "segments"
    BY DEF Cfs
  <2>2. PICK S : Begin("compound", S, {Cfs(counter - 1)})
    BY <1>6 DEF Compound
  <2> QED BY <1>6, <2>1, <2>2, BeginNear DEF Compound
<1>7. CASE StartDeletions
  BY <1>0, <1>7 DEF StartDeletions
<1>8. CASE WriteDeletions
  <2>1. PICK S, F : Begin("delete", S, F) /\ \A f \in F : f.kind # "segments"
    <3>1. PICK S \in (SUBSET infos) \ {{}} :
            LET del == {[s EXCEPT !.del = s.del + 1] : s \in S}
            IN  Begin("delete", (infos \ S) \cup del, {Del(s.name, s.del) : s \in del})
      BY <1>8 DEF WriteDeletions
    <3> DEFINE del == {[s EXCEPT !.del = s.del + 1] : s \in S}
    <3> HIDE DEF del
    <3>2. Begin("delete", (infos \ S) \cup del, {Del(s.name, s.del) : s \in del})
      BY <3>1 DEF del
    <3>3. \A f \in {Del(s.name, s.del) : s \in del} : f.kind # "segments"
      BY DEF Del
    <3> QED BY <3>2, <3>3
  <2>2. mode # "off"
    BY <1>8 DEF WriteDeletions, IInv, TypeInv, Room
  <2> QED BY <1>8, <2>1, <2>2, BeginNear DEF WriteDeletions
<1>9. ASSUME NEW next \in {"reader", "writer", "off"}, CloseWriter(next)
      PROVE  Near'
  <2>1. CASE pending
    <3>1. Begin("close", infos, {}) /\ UNCHANGED <<pointer, published, gen>>
          /\ step = "clean" /\ mode # "off" /\ after # "off"
      BY <1>9, <2>1 DEF CloseWriter
    <3> QED BY <3>1, BeginNear
  <2>2. CASE ~pending
    BY <1>0, <1>9, <2>2 DEF CloseWriter
  <2> QED BY <1>t, <2>1, <2>2 DEF TypeOK
<1>10. ASSUME NEW next \in {"writer", "off"}, CloseReader(next)
       PROVE  Near'
  BY <1>0, <1>10 DEF CloseReader
<1>11. CASE FinishClose
  BY <1>0, <1>11 DEF FinishClose
<1>12. CASE TurnOff
  BY <1>12 DEF TurnOff, Near, SegGens
<1>13. CASE CreateSegments
  <2>1. SegGens' \subseteq SegGens \cup {gen + 1}
    BY <1>n, <1>13 DEF CreateSegments, SegGens, Segments
  <2>2. SegGens \subseteq Nat
    BY BoundAssumption DEF SegGens
  <2>3. /\ step = "data" /\ step' = "segments" /\ gen' = gen + 1
        /\ published' = published /\ pointer' = pointer
    BY <1>13 DEF CreateSegments
  <2>4. \A g \in SegGens' : g <= gen + 1
    BY <1>n, <2>1, <2>2, <2>3 DEF Near
  <2>5. published > 0 => gen = published
    BY <2>3 DEF Near
  <2> QED BY <1>n, <2>3, <2>4, <2>5 DEF Near
<1>14. CASE CompleteSegments
  <2>1. SegGens' = SegGens /\ \A g \in SegGens : g <= gen /\ g \in Nat
    BY <1>14, BoundAssumption DEF CompleteSegments, SegGens, Near
  <2>2. gen > published /\ pointer <= published
    BY <1>t, <1>14 DEF CompleteSegments, Safe, Ahead, Near
  <2>3. /\ published' = gen /\ gen' = gen /\ pointer' = pointer /\ step' = "pointer"
    BY <1>14 DEF CompleteSegments
  <2>4. \A g \in SegGens' : g <= gen + 1
    BY <1>n, <2>1
  <2> QED BY <1>n, <2>2, <2>3, <2>4 DEF Near
<1>15. CASE UnlinkPointer
  BY <1>n, <1>15 DEF UnlinkPointer, Near, SegGens
<1>16. CASE CreatePointer
  BY <1>n, <1>16 DEF CreatePointer, Near, SegGens
<1>17. CASE FillPointer
  <2>1. published = gen
    BY <1>t, <1>17 DEF FillPointer, Safe, Writing
  <2> QED BY <1>n, <1>17, <2>1 DEF FillPointer, Checkpoint, Near, SegGens
<1>18. CASE TruncateSegments \/ SkipPointer \/ FailCommit
  <2>1. ~TruncateSegments
    BY <1>t, BoundAssumption DEF TruncateSegments, TypeOK, Undisturbed
  <2>2. ~Blocked
    BY NewNames DEF Blocked
  <2>3. failures' = failures + 1
    BY <1>18, <2>1, <2>2 DEF SkipPointer, FailCommit
  <2> QED BY <1>n, <2>3
<1>19. CASE DeleteFile
  <2>1. SegGens' \subseteq SegGens
    BY <1>19 DEF DeleteFile, SegGens
  <2>2. UNCHANGED <<published, pointer, gen, step, mode, after>>
    BY <1>19 DEF DeleteFile
  <2> QED BY <2>1, <2>2 DEF Near
<1>20. ASSUME NEW r \in Readers, Search(r) PROVE Near'
  BY <1>0, <1>20 DEF Search, Open, BeginOpening, ListFiles, ReadPointer, OpenSegments,
                     ReadSegments, OpenData, CloseSearch
<1>21. CASE Stop
  BY <1>21 DEF Stop, Near, SegGens
<1>22. CASE UNCHANGED vars
  BY <1>0, <1>22 DEF vars
<1> QED BY <1>1, <1>2, <1>3, <1>4, <1>5, <1>6, <1>7, <1>8, <1>9, <1>10, <1>11, <1>12, <1>13,
           <1>14, <1>15, <1>16, <1>17, <1>18, <1>19, <1>20, <1>21, <1>22
        DEF Next, Write, Modify, Crash, GiveUp

\* Errors are never forgotten.
LEMMA FailuresGrow ==
  ASSUME TypeOK, [Next]_vars, failures' = 0
  PROVE  failures = 0
<1> USE DEF dirVars, memVars, workVars, delVars, boundVars
<1>n. failures \in Nat
  BY DEF TypeOK
<1>1. Write => failures' = failures \/ failures' = failures + 1
  BY DEF Write, CreateSegments, CompleteSegments, TruncateSegments, UnlinkPointer, CreatePointer,
         FillPointer, SkipPointer, FailCommit
<1>2. Modify \/ DeleteFile \/ Crash \/ GiveUp \/ UNCHANGED vars => failures' = failures
  BY DEF Modify, CreateIndex, OpenWriter, OpenReader, Flush, Merge, Compound, StartDeletions,
         WriteDeletions, CloseWriter, CloseReader, FinishClose, TurnOff, DeleteFile, Crash, GiveUp,
         Stop, vars
<1>3. (\E r \in Readers : Search(r)) => failures' = failures
  BY DEF Search, Open, BeginOpening, ListFiles, ReadPointer, OpenSegments, ReadSegments,
         OpenData, CloseSearch
<1> QED BY <1>n, <1>1, <1>2, <1>3 DEF Next

\* As long as no error has struck.
NearInv == IInv /\ (failures = 0 => Near)

LEMMA NearInit == Init => NearInv
BY SafeInit DEF Init, NearInv, Near, SegGens

LEMMA NearInvStep ==
  ASSUME Undisturbed', NearInv, [Next]_vars
  PROVE  NearInv'
BY SafeStep, NearStep, FailuresGrow DEF NearInv, IInv, TypeInv

\* Wherever the program ends, the next start finds the newest commit, unless an I/O error
\* has struck (FindSegmentsFile on what IndexFileDeleter and SegmentInfos::write have left).
THEOREM RestartSafe == Spec => [](Undisturbed => RestartFindsLastCommit)
<1> DEFINE Inv == Undisturbed => NearInv
<1>1. Inv => (Undisturbed => RestartFindsLastCommit)
  BY FoundIsNewest DEF NearInv, RestartFindsLastCommit
<1>2. Init => Inv
  BY NearInit
<1>3. TypeInv /\ Inv /\ [Next]_vars => Inv'
  BY NearInvStep, UndisturbedBefore DEF TypeInv
<1>4. Init => TypeInv
  BY TypeInit
<1>5. TypeInv /\ [Next]_vars => TypeInv'
  BY TypeStep
<1> QED BY <1>1, <1>2, <1>3, <1>4, <1>5, PTL DEF Spec

===========================================================================
