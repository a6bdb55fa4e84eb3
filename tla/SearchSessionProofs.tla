------------------------ MODULE SearchSessionProofs ------------------------
(***************************************************************************)
(* Proofs about SearchSession, for any number of directories, Directory    *)
(* objects and commits.                                                    *)
(***************************************************************************)
EXTENDS SearchSession, TLAPS

-----------------------------------------------------------------------------
(* The inductive invariant.                                                 *)

\* While removeIndex waits, nothing of its index is open in the search window.
RemovalInv == ui = "removing" => subject \in Dirs /\ DOMAIN readers = {}

\* Who uses the object of an index has it in the table and is counted in it.
UseInv == /\ \A d, e \in Dirs : table[d] = table[e] /\ table[d] # NoObject => d = e
          /\ \A d \in Dirs : worker[d] = "open" => workerDir[d] # NoObject
          /\ \A d \in Dirs : workerDir[d] # NoObject => /\ table[d] = workerDir[d]
                                                        /\ refCount[workerDir[d]] >= 1
          /\ fieldsDir # NoObject => /\ ui = "fields" /\ subject \in Dirs
                                     /\ table[subject] = fieldsDir
                                     /\ refCount[fieldsDir] >= 1
                                     /\ workerDir[subject] = fieldsDir => refCount[fieldsDir] >= 2

IInv == TypeOK /\ HitsAreOfReaders /\ LockFileIsOwn /\ RemovalInv /\ UseInv

-----------------------------------------------------------------------------
(* What getDirectory and close do to the table.                             *)

\* getDirectory leaves the objects in use where they are and counts the new user.
LEMMA GetDirectoriesFacts ==
  ASSUME IInv, NEW D \in SUBSET Dirs, NEW got \in [D -> Objects], GetDirectories(D, got)
  PROVE  /\ table' \in [Dirs -> Objects \cup {NoObject}]
         /\ refCount' \in [Objects -> 0..MaxRefs]
         /\ alive \subseteq alive' /\ alive' \subseteq Objects
         /\ \A d \in Dirs : table'[d] = IF d \in D THEN got[d] ELSE table[d]
         /\ \A d, e \in Dirs : table'[d] = table'[e] /\ table'[d] # NoObject => d = e
         /\ \A d \in D : /\ refCount'[got[d]] >= 1
                         /\ table[d] # NoObject => got[d] = table[d]
                                                /\ refCount'[got[d]] = refCount[got[d]] + 1
                         /\ table[d] = NoObject => got[d] \in Fresh
         /\ \A d \in Dirs \ D : table[d] # NoObject => refCount'[table[d]] = refCount[table[d]]
<1>1. \A d \in D : IF table[d] = NoObject THEN got[d] \in Fresh ELSE got[d] = table[d]
  BY DEF GetDirectories
<1>2. table' = [d \in Dirs |-> IF d \in D THEN got[d] ELSE table[d]]
  BY DEF GetDirectories
<1>3. \A d, e \in D : got[d] = got[e] => d = e
  BY DEF GetDirectories
<1>4. \A d \in D : refCount[got[d]] < MaxRefs
  BY DEF GetDirectories
<1>5. refCount' = [o \in Objects |->
                     IF \E d \in D : got[d] = o
                     THEN IF o \in {table[d] : d \in D} THEN refCount[o] + 1 ELSE 1
                     ELSE refCount[o]]
  BY DEF GetDirectories
<1>6. /\ table \in [Dirs -> Objects \cup {NoObject}]
      /\ refCount \in [Objects -> 0..MaxRefs]
      /\ alive \subseteq Objects
      /\ \A d, e \in Dirs : table[d] = table[e] /\ table[d] # NoObject => d = e
      /\ MaxRefs \in Nat \ {0} /\ NoObject \notin Objects
  BY NamesAssumption, BoundAssumption DEF IInv, TypeOK, UseInv
<1>7. \A d \in D : /\ table[d] # NoObject => refCount'[got[d]] = refCount[got[d]] + 1
                   /\ table[d] = NoObject => refCount'[got[d]] = 1
  <2> TAKE d \in D
  <2>1. ASSUME table[d] # NoObject PROVE got[d] \in {table[e] : e \in D}
    BY <1>1, <2>1
  <2>2. ASSUME table[d] = NoObject PROVE got[d] \notin {table[e] : e \in D}
    BY <1>1, <2>2 DEF Fresh
  <2> QED
    BY <1>5, <2>1, <2>2
<1>8. refCount' \in [Objects -> 0..MaxRefs]
  <2> SUFFICES ASSUME NEW o \in Objects
               PROVE  /\ refCount'[o] \in 0..MaxRefs
    BY <1>5
  <2>1. CASE \E d \in D : got[d] = o
    BY <2>1, <1>4, <1>6, <1>7
  <2>2. CASE ~ \E d \in D : got[d] = o
    BY <2>2, <1>5, <1>6
  <2> QED
    BY <2>1, <2>2
<1>9. \A d, e \in Dirs : table'[d] = table'[e] /\ table'[d] # NoObject => d = e
  <2> SUFFICES ASSUME NEW d \in Dirs, NEW e \in Dirs,
                      table'[d] = table'[e], table'[d] # NoObject
               PROVE  d = e
    OBVIOUS
  <2>1. CASE d \in D /\ e \in D
    BY <2>1, <1>2, <1>3
  <2>2. CASE d \in D /\ e \notin D
    BY <2>2, <1>1, <1>2, <1>6 DEF Fresh
  <2>3. CASE d \notin D /\ e \in D
    BY <2>3, <1>1, <1>2, <1>6 DEF Fresh
  <2>4. CASE d \notin D /\ e \notin D
    BY <2>4, <1>2, <1>6
  <2> QED
    BY <2>1, <2>2, <2>3, <2>4
<1>10. \A d \in Dirs \ D : table[d] # NoObject => refCount'[table[d]] = refCount[table[d]]
  <2> SUFFICES ASSUME NEW d \in Dirs \ D, table[d] # NoObject
               PROVE  ~ \E e \in D : got[e] = table[d]
    BY <1>5, <1>6
  <2> QED
    BY <1>1, <1>6 DEF Fresh
<1>11. alive \subseteq alive' /\ alive' \subseteq Objects
  BY <1>6 DEF GetDirectories
<1>12. \A d \in D : /\ refCount'[got[d]] >= 1
                    /\ refCount[got[d]] \in Nat
  BY <1>6, <1>7
<1> QED
  BY <1>1, <1>2, <1>6, <1>7, <1>8, <1>9, <1>10, <1>11, <1>12
\* The same for one directory.
LEMMA GetDirectoryFacts ==
  ASSUME IInv, NEW d \in Dirs, NEW o \in Objects, GetDirectories({d}, [e \in {d} |-> o])
  PROVE  /\ table' \in [Dirs -> Objects \cup {NoObject}]
         /\ refCount' \in [Objects -> 0..MaxRefs]
         /\ alive' \subseteq Objects
         /\ table'[d] = o
         /\ \A e \in Dirs : e # d => table'[e] = table[e]
         /\ \A c, e \in Dirs : table'[c] = table'[e] /\ table'[c] # NoObject => c = e
         /\ refCount'[o] >= 1
         /\ table[d] # NoObject => o = table[d] /\ refCount'[o] = refCount[o] + 1
         /\ table[d] = NoObject => o \in Fresh
         /\ \A e \in Dirs : e # d /\ table[e] # NoObject => refCount'[table[e]] = refCount[table[e]]
<1> DEFINE got == [e \in {d} |-> o]
<1>1. got[d] = o /\ got \in [{d} -> Objects] /\ GetDirectories({d}, got)
  OBVIOUS
<1>2. {d} \in SUBSET Dirs
  OBVIOUS
<1> HIDE DEF got
<1>3. /\ table' \in [Dirs -> Objects \cup {NoObject}]
      /\ refCount' \in [Objects -> 0..MaxRefs]
      /\ alive \subseteq alive' /\ alive' \subseteq Objects
      /\ \A e \in Dirs : table'[e] = IF e \in {d} THEN got[e] ELSE table[e]
      /\ \A c, e \in Dirs : table'[c] = table'[e] /\ table'[c] # NoObject => c = e
      /\ \A e \in {d} : /\ refCount'[got[e]] >= 1
                        /\ table[e] # NoObject => got[e] = table[e]
                                               /\ refCount'[got[e]] = refCount[got[e]] + 1
                        /\ table[e] = NoObject => got[e] \in Fresh
      /\ \A e \in Dirs \ {d} : table[e] # NoObject => refCount'[table[e]] = refCount[table[e]]
  BY <1>1, <1>2, GetDirectoriesFacts
<1> QED
  BY <1>1, <1>3

\* closing counts one user less and leaves the objects of others in the table.
LEMMA CloseDirectoryFacts ==
  ASSUME IInv, NEW d \in Dirs, NEW o \in Objects, table[d] = o, refCount[o] >= 1,
         CloseDirectory(d, o)
  PROVE  /\ table' \in [Dirs -> Objects \cup {NoObject}]
         /\ refCount' \in [Objects -> 0..MaxRefs]
         /\ refCount' = [refCount EXCEPT ![o] = @ - 1]
         /\ \A e \in Dirs \ {d} : table'[e] = table[e]
         /\ refCount[o] > 1 => table' = table
         /\ table'[d] \in {o, NoObject}
<1>1. /\ table \in [Dirs -> Objects \cup {NoObject}]
      /\ refCount \in [Objects -> 0..MaxRefs]
      /\ MaxRefs \in Nat
  BY BoundAssumption DEF IInv, TypeOK
<1>2. refCount[o] \in 1..MaxRefs
  BY <1>1
<1>3. refCount' = [refCount EXCEPT ![o] = @ - 1]
  <2>1. refCount' = [refCount EXCEPT ![o] = IF @ > 0 THEN @ - 1 ELSE 0]
    BY DEF CloseDirectory
  <2>2. refCount[o] > 0
    BY <1>2
  <2> QED
    BY <2>1, <2>2
<1>4. /\ table' \in {table, [table EXCEPT ![d] = NoObject]}
      /\ refCount[o] > 1 => table' = table
  BY <1>2 DEF CloseDirectory
<1>5. refCount' \in [Objects -> 0..MaxRefs]
  BY <1>1, <1>2, <1>3
<1> QED
  BY <1>1, <1>3, <1>4, <1>5

-----------------------------------------------------------------------------
(* The indexer threads.                                                     *)

\* Opening an index.
LEMMA OpenStep ==
  ASSUME IInv, NEW d \in Dirs, Open(d)
  PROVE  IInv'
<1>1. PICK o \in Objects : /\ GetDirectories({d}, [e \in {d} |-> o])
                           /\ workerDir' = [workerDir EXCEPT ![d] = o]
  BY DEF Open
<1>3. /\ table' \in [Dirs -> Objects \cup {NoObject}]
      /\ refCount' \in [Objects -> 0..MaxRefs]
      /\ alive' \subseteq Objects
      /\ table'[d] = o
      /\ \A e \in Dirs : e # d => table'[e] = table[e]
      /\ \A c, e \in Dirs : table'[c] = table'[e] /\ table'[c] # NoObject => c = e
      /\ refCount'[o] >= 1
      /\ table[d] # NoObject => o = table[d] /\ refCount'[o] = refCount[o] + 1
      /\ table[d] = NoObject => o \in Fresh
      /\ \A e \in Dirs : e # d /\ table[e] # NoObject => refCount'[table[e]] = refCount[table[e]]
  BY <1>1, GetDirectoryFacts
<1>4. /\ worker' = [worker EXCEPT ![d] = "open"]
      /\ holds' = holds \cup {d} /\ lockFile' = lockFile \cup {d}
      /\ commits' = [commits EXCEPT ![d] = IF @ = 0 THEN 1 ELSE @]
      /\ UNCHANGED <<cfgDirs, uiVars, stop, fieldsDir, searchVars>>
  BY DEF Open
<1>5. TypeOK'
  BY <1>1, <1>3, <1>4, BoundAssumption DEF IInv, TypeOK, uiVars, searchVars
<1>6. HitsAreOfReaders' /\ LockFileIsOwn' /\ RemovalInv'
  BY <1>4 DEF IInv, TypeOK, HitsAreOfReaders, LockFileIsOwn, RemovalInv, uiVars, searchVars
<1>7. UseInv'
  <2>1. \A e \in Dirs : worker'[e] = "open" => workerDir'[e] # NoObject
    BY <1>1, <1>4, NamesAssumption DEF IInv, TypeOK, UseInv
  <2>2. \A e \in Dirs : workerDir'[e] # NoObject => /\ table'[e] = workerDir'[e]
                                                    /\ refCount'[workerDir'[e]] >= 1
    BY <1>1, <1>3 DEF IInv, TypeOK, UseInv
  <2>3. ASSUME fieldsDir # NoObject
        PROVE  /\ ui = "fields" /\ subject \in Dirs /\ table'[subject] = fieldsDir
               /\ refCount'[fieldsDir] >= 1
               /\ workerDir'[subject] = fieldsDir => refCount'[fieldsDir] >= 2
    <3>1. /\ ui = "fields" /\ subject \in Dirs /\ table[subject] = fieldsDir
          /\ refCount[fieldsDir] >= 1
          /\ workerDir[subject] = fieldsDir => refCount[fieldsDir] >= 2
          /\ refCount \in [Objects -> 0..MaxRefs] /\ fieldsDir \in Objects
          /\ MaxRefs \in Nat /\ workerDir \in [Dirs -> Objects \cup {NoObject}]
      BY <2>3, BoundAssumption DEF IInv, TypeOK, UseInv
    <3>2. CASE subject = d
      BY <1>3, <2>3, <3>1, <3>2
    <3>3. CASE subject # d
      BY <1>1, <1>3, <2>3, <3>1, <3>3
    <3> QED
      BY <3>2, <3>3
  <2> QED
    BY <1>3, <1>4, <2>1, <2>2, <2>3 DEF UseInv, uiVars
<1> QED
  BY <1>5, <1>6, <1>7 DEF IInv

\* The lock and the commits of an open index.
LEMMA LockStep ==
  ASSUME IInv, NEW d \in Dirs, Release(d) \/ Obtain(d)
  PROVE  IInv'
<1>1. TypeOK'
  BY DEF Release, Obtain, IInv, TypeOK, uiVars, dirVars, useVars, searchVars
<1>2. HitsAreOfReaders' /\ RemovalInv' /\ UseInv'
  BY DEF Release, Obtain, IInv, HitsAreOfReaders, RemovalInv, UseInv, uiVars, dirVars,
         useVars, searchVars
<1>3. LockFileIsOwn'
  BY DEF Release, Obtain, IInv, LockFileIsOwn
<1> QED
  BY <1>1, <1>2, <1>3 DEF IInv

\* Whoever closes an index was counted in its object.
LEMMA CloseFacts ==
  ASSUME IInv, NEW d \in Dirs, Close(d)
  PROVE  /\ workerDir[d] \in Objects /\ table[d] = workerDir[d] /\ refCount[workerDir[d]] >= 1
         /\ table' \in [Dirs -> Objects \cup {NoObject}]
         /\ refCount' \in [Objects -> 0..MaxRefs]
         /\ refCount' = [refCount EXCEPT ![workerDir[d]] = @ - 1]
         /\ \A e \in Dirs \ {d} : table'[e] = table[e]
         /\ refCount[workerDir[d]] > 1 => table' = table
         /\ table'[d] \in {workerDir[d], NoObject}
<1>1. workerDir[d] \in Objects /\ table[d] = workerDir[d] /\ refCount[workerDir[d]] >= 1
  BY DEF Close, IInv, TypeOK, UseInv
<1>2. CloseDirectory(d, workerDir[d])
  BY DEF Close
<1> QED
  BY <1>1, <1>2, CloseDirectoryFacts

\* Closing an index.
LEMMA CloseStep ==
  ASSUME IInv, NEW d \in Dirs, Close(d)
  PROVE  IInv'
<1> DEFINE o == workerDir[d]
<1>1. /\ o \in Objects /\ table[d] = o /\ refCount[o] >= 1
      /\ table' \in [Dirs -> Objects \cup {NoObject}]
      /\ refCount' \in [Objects -> 0..MaxRefs]
      /\ refCount' = [refCount EXCEPT ![o] = @ - 1]
      /\ \A e \in Dirs \ {d} : table'[e] = table[e]
      /\ refCount[o] > 1 => table' = table
      /\ table'[d] \in {o, NoObject}
  BY CloseFacts
<1>2. /\ workerDir' = [workerDir EXCEPT ![d] = NoObject]
      /\ worker' = [worker EXCEPT ![d] = "closed"]
      /\ alive' = alive \ {o}
      /\ holds' = holds \ {d} /\ lockFile' \in {lockFile, lockFile \ {d}}
      /\ UNCHANGED <<cfgDirs, uiVars, stop, fieldsDir, searchVars>>
  BY DEF Close
<1>3. commits' \in [Dirs -> 0..MaxCommit]
  BY DEF Close, IInv, TypeOK
<1>4. TypeOK'
  BY <1>1, <1>2, <1>3 DEF IInv, TypeOK, uiVars, searchVars
<1>5. HitsAreOfReaders' /\ LockFileIsOwn' /\ RemovalInv'
  BY <1>2 DEF IInv, TypeOK, HitsAreOfReaders, LockFileIsOwn, RemovalInv, uiVars, searchVars
<1>6. UseInv'
  <2> HIDE DEF o
  <2>1. \A c, e \in Dirs : table'[c] = table'[e] /\ table'[c] # NoObject => c = e
    BY <1>1 DEF IInv, UseInv
  <2>2. \A e \in Dirs : worker'[e] = "open" => workerDir'[e] # NoObject
    BY <1>2 DEF IInv, TypeOK, UseInv
  <2>3. ASSUME NEW e \in Dirs, workerDir'[e] # NoObject
        PROVE  table'[e] = workerDir'[e] /\ refCount'[workerDir'[e]] >= 1
    <3>1. e # d /\ workerDir'[e] = workerDir[e] /\ table[e] = workerDir[e]
          /\ refCount[workerDir[e]] >= 1 /\ workerDir[e] \in Objects
      BY <1>2, <2>3 DEF IInv, TypeOK, UseInv
    <3>2. workerDir[e] # o
      BY <1>1, <3>1, NamesAssumption DEF IInv, UseInv
    <3> QED
      BY <1>1, <3>1, <3>2 DEF IInv, TypeOK
  <2>4. ASSUME fieldsDir # NoObject
        PROVE  /\ ui = "fields" /\ subject \in Dirs /\ table'[subject] = fieldsDir
               /\ refCount'[fieldsDir] >= 1
               /\ workerDir'[subject] = fieldsDir => refCount'[fieldsDir] >= 2
    <3>1. /\ ui = "fields" /\ subject \in Dirs /\ table[subject] = fieldsDir
          /\ refCount[fieldsDir] >= 1
          /\ workerDir[subject] = fieldsDir => refCount[fieldsDir] >= 2
          /\ fieldsDir \in Objects /\ refCount[fieldsDir] \in Nat
          /\ refCount \in [Objects -> 0..MaxRefs]
          /\ workerDir \in [Dirs -> Objects \cup {NoObject}]
      BY <2>4, BoundAssumption DEF IInv, TypeOK, UseInv
    <3>2. CASE subject = d
      <4>1. fieldsDir = o /\ refCount[o] >= 2
        BY <1>1, <3>1, <3>2 DEF o
      <4>2. workerDir'[subject] = NoObject
        BY <1>2, <3>1, <3>2
      <4> QED
        BY <1>1, <3>1, <3>2, <4>1, <4>2, NamesAssumption
    <3>3. CASE subject # d
      <4>1. fieldsDir # o
        BY <1>1, <2>4, <3>1, <3>3 DEF IInv, UseInv
      <4> QED
        BY <1>1, <1>2, <3>1, <3>3, <4>1
    <3> QED
      BY <3>2, <3>3
  <2> QED
    BY <1>2, <2>1, <2>2, <2>3, <2>4 DEF UseInv, uiVars
<1> QED
  BY <1>4, <1>5, <1>6 DEF IInv

-----------------------------------------------------------------------------
(* The UI thread.                                                           *)

\* Whatever ends the process, nothing of it is left.
LEMMA ProcessEndsStep ==
  ASSUME IInv, NEW how, ProcessEnds(how),
         how \in {"done", "killed", "noIndex", "syntax", "deletedDirectory"}
  PROVE  IInv'
<1>1. readers' \in [{} -> Reader] /\ {} \in SUBSET Dirs
  BY DEF ProcessEnds, NoReaders
<1>2. TypeOK'
  <2>1. refCount' \in [Objects -> 0..MaxRefs]
    BY BoundAssumption DEF ProcessEnds
  <2> QED
    BY <1>1, <2>1 DEF ProcessEnds, diskVars, IInv, TypeOK
<1>3. HitsAreOfReaders' /\ LockFileIsOwn' /\ RemovalInv' /\ UseInv'
  BY DEF ProcessEnds, HitsAreOfReaders, LockFileIsOwn, RemovalInv, UseInv
<1> QED
  BY <1>2, <1>3 DEF IInv

\* Closing the readers of the last search.
LEMMA CleanupFacts ==
  ASSUME Cleanup
  PROVE  /\ readers' \in [{} -> Reader] /\ DOMAIN readers' = {}
         /\ hits' = NoHits
BY DEF Cleanup, NoReaders

\* Steps that leave the objects and the readers alone, or close the readers.
LEMMA WindowStep ==
  ASSUME IInv,
         \/ Launch \/ Clear \/ EndRemoval \/ FieldsTimer \/ FieldsEnd \/ Quit
         \/ \E d \in Dirs : Add(d) \/ Del(d)
  PROVE  IInv'
<1>1. \/ UNCHANGED searchVars
      \/ readers' \in [{} -> Reader] /\ DOMAIN readers' = {} /\ hits' = NoHits
  BY CleanupFacts DEF Launch, Clear, EndRemoval, FieldsTimer, FieldsEnd, Quit, Add, Del
<1>2. TypeOK'
  <2>1. /\ \E D \in SUBSET Dirs : readers' \in [D -> Reader]
        /\ hits' # NoHits => \E D \in SUBSET Dirs : hits' \in [D -> 1..MaxCommit]
    <3>1. CASE UNCHANGED searchVars
      BY <3>1 DEF searchVars, IInv, TypeOK
    <3>2. CASE readers' \in [{} -> Reader] /\ hits' = NoHits
      <4>1. {} \in SUBSET Dirs
        OBVIOUS
      <4> QED
        BY <3>2, <4>1
    <3> QED
      BY <1>1, <3>1, <3>2
  <2>2. CASE Launch
    <3>1. worker' \in [Dirs -> {"none", "starting", "open", "closed"}]
      BY <2>2 DEF Launch
    <3> QED
      BY <2>1, <2>2, <3>1 DEF Launch, diskVars, dirVars, useVars, IInv, TypeOK
  <2>3. CASE Clear \/ FieldsTimer \/ FieldsEnd \/ Quit
    BY <2>1, <2>3 DEF Clear, FieldsTimer, FieldsEnd, Quit, Idle, Known, diskVars, uiVars,
       threadVars, dirVars, useVars, IInv, TypeOK
  <2>4. CASE EndRemoval
    <3>1. /\ commits' \in [Dirs -> 0..MaxCommit]
          /\ lockFile' \subseteq Dirs
      BY <2>4, BoundAssumption DEF EndRemoval, IInv, TypeOK
    <3>2. worker' \in [Dirs -> {"none", "starting", "open", "closed"}]
      BY <2>4 DEF EndRemoval, IInv, TypeOK
    <3> QED
      BY <2>1, <2>4, <3>1, <3>2 DEF EndRemoval, dirVars, useVars, IInv, TypeOK
  <2>5. ASSUME NEW d \in Dirs, Add(d) \/ Del(d) PROVE TypeOK'
    <3>1. worker' \in [Dirs -> {"none", "starting", "open", "closed"}]
      BY <2>5 DEF Add, Del, IInv, TypeOK
    <3>2. /\ cfgDirs' \subseteq Dirs /\ stop' \subseteq Dirs
          /\ ui' \in {"off", "loop", "removing", "fields"} /\ subject' \in Dirs \cup {NoDir}
      BY <2>5 DEF Add, Del, uiVars, IInv, TypeOK
    <3>3. UNCHANGED <<commits, lockFile, unread, quitting, exit, holds, dirVars, useVars>>
      BY <2>5 DEF Add, Del, uiVars
    <3> QED
      BY <2>1, <3>1, <3>2, <3>3 DEF dirVars, useVars, IInv, TypeOK
  <2> QED
    BY <2>2, <2>3, <2>4, <2>5
<1>3. HitsAreOfReaders'
  BY <1>1 DEF searchVars, IInv, HitsAreOfReaders
<1>4. LockFileIsOwn'
  BY DEF Launch, Clear, EndRemoval, FieldsTimer, FieldsEnd, Quit, Add, Del, diskVars,
     threadVars, IInv, TypeOK, LockFileIsOwn
<1>5. RemovalInv'
  BY <1>1 DEF Launch, Clear, EndRemoval, FieldsTimer, FieldsEnd, Quit, Add, Del, Cleanup,
     NoReaders, Idle, uiVars, searchVars, IInv, RemovalInv
<1>6. UseInv'
  <2>1. UNCHANGED <<table, refCount, workerDir, fieldsDir>>
    BY DEF Launch, Clear, EndRemoval, FieldsTimer, FieldsEnd, Quit, Add, Del, dirVars, useVars
  <2>2. \A d \in Dirs : worker'[d] = "open" => worker[d] = "open"
    BY DEF Launch, Clear, EndRemoval, FieldsTimer, FieldsEnd, Quit, Add, Del, threadVars,
       IInv, TypeOK
  <2>3. fieldsDir # NoObject => UNCHANGED <<ui, subject>>
    BY DEF Launch, Clear, EndRemoval, FieldsTimer, FieldsEnd, Quit, Add, Del, Idle, uiVars,
       IInv, UseInv
  <2> QED
    BY <2>1, <2>2, <2>3 DEF IInv, UseInv
<1> QED
  BY <1>2, <1>3, <1>4, <1>5, <1>6 DEF IInv

\* Sorting.
LEMMA SortStep ==
  ASSUME IInv, Sort
  PROVE  IInv'
<1>1. PICK D \in SUBSET Dirs : readers \in [D -> Reader]
  BY DEF IInv, TypeOK
<1>2. hits' \in [D -> 1..MaxCommit]
  BY <1>1 DEF Sort, Reader
<1>3. TypeOK'
  BY <1>2 DEF Sort, diskVars, uiVars, threadVars, dirVars, useVars, IInv, TypeOK
<1>4. HitsAreOfReaders' /\ LockFileIsOwn' /\ RemovalInv' /\ UseInv'
  BY DEF Sort, diskVars, uiVars, threadVars, dirVars, useVars, IInv, HitsAreOfReaders,
     LockFileIsOwn, RemovalInv, UseInv
<1> QED
  BY <1>3, <1>4 DEF IInv

\* Searching.
LEMMA SearchStep ==
  ASSUME IInv, Search
  PROVE  IInv'
<1>1. PICK got \in [Known -> Objects] :
        /\ GetDirectories(Known, got)
        /\ readers' = [d \in Known |-> [dir |-> got[d], at |-> commits[d]]]
  BY DEF Search
<1>2. Known \in SUBSET Dirs
  BY DEF Known
<1>3. /\ table' \in [Dirs -> Objects \cup {NoObject}]
      /\ refCount' \in [Objects -> 0..MaxRefs]
      /\ alive' \subseteq Objects
      /\ \A d \in Dirs : table'[d] = IF d \in Known THEN got[d] ELSE table[d]
      /\ \A d, e \in Dirs : table'[d] = table'[e] /\ table'[d] # NoObject => d = e
      /\ \A d \in Known : table[d] # NoObject => got[d] = table[d]
                                              /\ refCount'[got[d]] = refCount[got[d]] + 1
      /\ \A d \in Dirs \ Known : table[d] # NoObject => refCount'[table[d]] = refCount[table[d]]
  BY <1>1, <1>2, GetDirectoriesFacts
<1>4. \A d \in Known : commits[d] \in 1..MaxCommit
  BY <1>2, BoundAssumption DEF Search, IInv, TypeOK
<1>5. /\ hits' = [d \in Known |-> commits[d]]
      /\ lockFile' = lockFile \ Known
      /\ ui = "loop"
      /\ UNCHANGED <<cfgDirs, commits, uiVars, threadVars, useVars>>
  BY DEF Search, Idle
<1>6. TypeOK'
  <2>1. readers' \in [Known -> Reader]
    BY <1>1, <1>4 DEF Reader
  <2>2. hits' \in [Known -> 1..MaxCommit]
    BY <1>4, <1>5
  <2> QED
    BY <1>2, <1>3, <1>5, <2>1, <2>2 DEF uiVars, threadVars, useVars, IInv, TypeOK
<1>7. HitsAreOfReaders'
  BY <1>1, <1>5 DEF HitsAreOfReaders
<1>8. LockFileIsOwn' /\ RemovalInv'
  BY <1>5 DEF uiVars, threadVars, IInv, LockFileIsOwn, RemovalInv
<1>9. UseInv'
  <2>1. fieldsDir' = NoObject
    BY <1>5 DEF useVars, IInv, UseInv
  <2>2. ASSUME NEW d \in Dirs, workerDir[d] # NoObject
        PROVE  table'[d] = workerDir[d] /\ refCount'[workerDir[d]] >= 1
    <3>1. table[d] = workerDir[d] /\ refCount[workerDir[d]] >= 1 /\ refCount[workerDir[d]] \in Nat
      BY <2>2, BoundAssumption DEF IInv, TypeOK, UseInv
    <3> QED
      BY <1>3, <2>2, <3>1
  <2> QED
    BY <1>3, <1>5, <2>1, <2>2 DEF threadVars, useVars, IInv, UseInv
<1> QED
  BY <1>6, <1>7, <1>8, <1>9 DEF IInv

\* Opening the next index to read its field names.
LEMMA FieldsOpenStep ==
  ASSUME IInv, NEW d \in Dirs, FieldsOpen(d)
  PROVE  IInv'
<1>1. PICK o \in Objects : /\ GetDirectories({d}, [e \in {d} |-> o])
                           /\ fieldsDir' = o
  BY DEF FieldsOpen
<1>2. /\ table' \in [Dirs -> Objects \cup {NoObject}]
      /\ refCount' \in [Objects -> 0..MaxRefs]
      /\ alive' \subseteq Objects
      /\ table'[d] = o
      /\ \A e \in Dirs : e # d => table'[e] = table[e]
      /\ \A c, e \in Dirs : table'[c] = table'[e] /\ table'[c] # NoObject => c = e
      /\ refCount'[o] >= 1
      /\ table[d] # NoObject => o = table[d] /\ refCount'[o] = refCount[o] + 1
      /\ table[d] = NoObject => o \in Fresh
      /\ \A e \in Dirs : e # d /\ table[e] # NoObject => refCount'[table[e]] = refCount[table[e]]
  BY <1>1, GetDirectoryFacts
<1>3. /\ ui = "fields" /\ fieldsDir = NoObject
      /\ subject' = d /\ unread' \subseteq unread
      /\ UNCHANGED <<diskVars, ui, quitting, exit, threadVars, workerDir, searchVars>>
  BY DEF FieldsOpen
<1>4. TypeOK'
  BY <1>1, <1>2, <1>3 DEF diskVars, threadVars, searchVars, IInv, TypeOK
<1>5. HitsAreOfReaders' /\ LockFileIsOwn' /\ RemovalInv'
  BY <1>3 DEF diskVars, threadVars, searchVars, IInv, HitsAreOfReaders, LockFileIsOwn, RemovalInv
<1>6. UseInv'
  <2>1. ASSUME NEW e \in Dirs, workerDir[e] # NoObject
        PROVE  table'[e] = workerDir[e] /\ refCount'[workerDir[e]] >= 1
    <3>1. table[e] = workerDir[e] /\ refCount[workerDir[e]] >= 1 /\ refCount[workerDir[e]] \in Nat
      BY <2>1, BoundAssumption DEF IInv, TypeOK, UseInv
    <3> QED
      BY <1>2, <2>1, <3>1
  <2>2. workerDir[d] = o => refCount'[o] >= 2
    <3>1. ASSUME workerDir[d] = o PROVE refCount'[o] = refCount[o] + 1 /\ refCount[o] >= 1
      BY <1>2, <3>1, NamesAssumption DEF IInv, UseInv
    <3>2. refCount[o] \in Nat
      BY BoundAssumption DEF IInv, TypeOK
    <3> QED
      BY <3>1, <3>2
  <2> QED
    BY <1>1, <1>2, <1>3, <2>1, <2>2 DEF threadVars, IInv, UseInv
<1> QED
  BY <1>4, <1>5, <1>6 DEF IInv

\* Closing it leaves a thread's object in the table: it is counted there, too.
LEMMA FieldsCloseFacts ==
  ASSUME IInv, FieldsClose
  PROVE  /\ subject \in Dirs /\ fieldsDir \in Objects /\ table[subject] = fieldsDir
         /\ refCount[fieldsDir] \in Nat
         /\ table' \in [Dirs -> Objects \cup {NoObject}]
         /\ refCount' \in [Objects -> 0..MaxRefs]
         /\ refCount' = [refCount EXCEPT ![fieldsDir] = @ - 1]
         /\ \A e \in Dirs \ {subject} : table'[e] = table[e]
         /\ refCount[fieldsDir] > 1 => table' = table
         /\ table'[subject] \in {fieldsDir, NoObject}
         /\ \A e \in Dirs : workerDir[e] = fieldsDir => refCount[fieldsDir] >= 2
<1>1. /\ subject \in Dirs /\ fieldsDir \in Objects /\ table[subject] = fieldsDir
      /\ refCount[fieldsDir] >= 1 /\ refCount[fieldsDir] \in Nat
  BY BoundAssumption DEF FieldsClose, IInv, TypeOK, UseInv
<1>2. CloseDirectory(subject, fieldsDir)
  BY DEF FieldsClose
<1>3. ASSUME NEW e \in Dirs, workerDir[e] = fieldsDir PROVE e = subject
  BY <1>1, <1>3, NamesAssumption DEF IInv, UseInv
<1>4. workerDir[subject] = fieldsDir => refCount[fieldsDir] >= 2
  BY <1>1, NamesAssumption DEF IInv, UseInv
<1> QED
  BY <1>1, <1>2, <1>3, <1>4, CloseDirectoryFacts

LEMMA FieldsCloseStep ==
  ASSUME IInv, FieldsClose
  PROVE  IInv'
<1> DEFINE o == fieldsDir
<1>1. /\ subject \in Dirs /\ o \in Objects /\ table[subject] = o
      /\ refCount[o] \in Nat
      /\ table' \in [Dirs -> Objects \cup {NoObject}]
      /\ refCount' \in [Objects -> 0..MaxRefs]
      /\ refCount' = [refCount EXCEPT ![o] = @ - 1]
      /\ \A e \in Dirs \ {subject} : table'[e] = table[e]
      /\ refCount[o] > 1 => table' = table
      /\ table'[subject] \in {o, NoObject}
      /\ \A e \in Dirs : workerDir[e] = o => refCount[o] >= 2
  BY FieldsCloseFacts
<1>2. /\ fieldsDir' = NoObject /\ subject' = NoDir /\ ui = "fields"
      /\ alive' \subseteq alive
      /\ UNCHANGED <<diskVars, ui, unread, quitting, exit, threadVars, workerDir, searchVars>>
  BY DEF FieldsClose
<1>3. TypeOK'
  BY <1>1, <1>2 DEF diskVars, threadVars, searchVars, IInv, TypeOK
<1>4. HitsAreOfReaders' /\ LockFileIsOwn' /\ RemovalInv'
  BY <1>2 DEF diskVars, threadVars, searchVars, IInv, HitsAreOfReaders, LockFileIsOwn, RemovalInv
<1>5. UseInv'
  <2> HIDE DEF o
  <2>1. \A c, e \in Dirs : table'[c] = table'[e] /\ table'[c] # NoObject => c = e
    BY <1>1 DEF IInv, UseInv
  <2>2. ASSUME NEW e \in Dirs, workerDir[e] # NoObject
        PROVE  table'[e] = workerDir[e] /\ refCount'[workerDir[e]] >= 1
    <3>1. /\ table[e] = workerDir[e] /\ refCount[workerDir[e]] >= 1
          /\ workerDir[e] \in Objects /\ refCount \in [Objects -> 0..MaxRefs]
      BY <2>2 DEF IInv, TypeOK, UseInv
    <3>2. CASE workerDir[e] = o
      BY <1>1, <3>1, <3>2
    <3>3. CASE workerDir[e] # o
      BY <1>1, <3>1, <3>3
    <3> QED
      BY <3>2, <3>3
  <2> QED
    BY <1>2, <2>1, <2>2 DEF threadVars, IInv, UseInv
<1> QED
  BY <1>3, <1>4, <1>5 DEF IInv

-----------------------------------------------------------------------------
(* The invariant and what follows from it.                                  *)

LEMMA InitIInv == Init => IInv
<1> SUFFICES ASSUME Init PROVE IInv
  OBVIOUS
<1>1. readers \in [{} -> Reader] /\ {} \in SUBSET Dirs
  BY DEF Init, NoReaders
<1>2. refCount \in [Objects -> 0..MaxRefs] /\ commits \in [Dirs -> 0..MaxCommit]
  BY BoundAssumption DEF Init
<1>3. TypeOK
  BY <1>1, <1>2 DEF Init, TypeOK
<1>4. HitsAreOfReaders /\ LockFileIsOwn /\ RemovalInv /\ UseInv
  BY DEF Init, HitsAreOfReaders, LockFileIsOwn, RemovalInv, UseInv
<1> QED
  BY <1>3, <1>4 DEF IInv

\* The steps that end the process.
LEMMA EndsFacts ==
  ASSUME SearchThrows \/ FieldsThrows \/ EndQuit \/ Crash
  PROVE  \E how \in {"done", "killed", "noIndex", "syntax", "deletedDirectory"} : ProcessEnds(how)
BY DEF SearchThrows, FieldsThrows, EndQuit, Crash

LEMMA NextIInv == IInv /\ [Next]_vars => IInv'
<1> SUFFICES ASSUME IInv, [Next]_vars PROVE IInv'
  OBVIOUS
<1>1. CASE UNCHANGED vars
  BY <1>1 DEF vars, diskVars, uiVars, threadVars, dirVars, useVars, searchVars, IInv, TypeOK,
     HitsAreOfReaders, LockFileIsOwn, RemovalInv, UseInv
<1>2. ASSUME NEW d \in Dirs, Thread(d) PROVE IInv'
  BY <1>2, OpenStep, LockStep, CloseStep DEF Thread
<1>3. CASE Window
  <2>1. CASE \/ Launch \/ Clear \/ EndRemoval \/ FieldsTimer \/ FieldsEnd \/ Quit
             \/ \E d \in Dirs : Add(d) \/ Del(d)
    BY <2>1, WindowStep
  <2>2. CASE SearchThrows \/ FieldsThrows \/ EndQuit \/ Crash
    BY <2>2, EndsFacts, ProcessEndsStep
  <2>3. CASE Search \/ Sort \/ FieldsClose \/ \E d \in Dirs : FieldsOpen(d)
    BY <2>3, SearchStep, SortStep, FieldsCloseStep, FieldsOpenStep
  <2> QED
    BY <1>3, <2>1, <2>2, <2>3 DEF Window
<1> QED
  BY <1>1, <1>2, <1>3 DEF Next

\* The inductive invariant holds (searcher, lucy, FSDirectory).
THEOREM Invariance == Spec => []IInv
BY InitIInv, NextIInv, PTL DEF Spec

\* Every variable keeps its type.
THEOREM TypeCorrect == Spec => []TypeOK
<1>1. IInv => TypeOK
  BY DEF IInv
<1> QED
  BY <1>1, Invariance, PTL

\* The rows are always those of the readers that are open, at their commit.
THEOREM HitsBelongToReaders == Spec => []HitsAreOfReaders
<1>1. IInv => HitsAreOfReaders
  BY DEF IInv
<1> QED
  BY <1>1, Invariance, PTL

\* A lock file left by a crash never keeps a thread from its index.
THEOREM LocksAreOwn == Spec => []LockFileIsOwn
<1>1. IInv => LockFileIsOwn
  BY DEF IInv
<1> QED
  BY <1>1, Invariance, PTL

\* A removal that returns has erased the index, since no reader was open in it.
THEOREM RemovalsErase == Spec => RemovalErases
<1>1. ASSUME IInv, Next, ui = "removing", ui' = "loop" PROVE commits'[subject] = 0
  <2>1. EndRemoval
    BY <1>1 DEF Next, Thread, Window, Open, Release, Obtain, Close, ProcessEnds, Launch, Clear,
       Search, SearchThrows, Sort, FieldsTimer, FieldsThrows, FieldsClose, FieldsEnd, Quit, EndQuit,
       Crash, Add, Del, FieldsOpen, Idle, uiVars
  <2>2. subject \in Dirs /\ subject \notin DOMAIN readers
    BY <1>1 DEF IInv, RemovalInv
  <2> QED
    BY <1>1, <2>1, <2>2 DEF EndRemoval, IInv, TypeOK
<1>2. IInv /\ [Next]_vars => [ui = "removing" /\ ui' = "loop" => commits'[subject] = 0]_vars
  BY <1>1
<1> QED
  BY <1>2, Invariance, PTL DEF Spec, RemovalErases

\* An object is deleted only when no thread uses it any more.
LEMMA DeletionStep ==
  ASSUME IInv, Next, NEW o \in alive \ alive', NEW d \in Dirs
  PROVE  workerDir'[d] # o
<1>1. o \in Objects /\ o # NoObject
  BY NamesAssumption DEF IInv, TypeOK
<1>2. ASSUME NEW e \in Dirs, Close(e) PROVE workerDir'[d] # o
  <2>1. /\ o = workerDir[e] /\ workerDir' = [workerDir EXCEPT ![e] = NoObject]
    BY <1>2 DEF Close
  <2> QED
    BY <1>1, <2>1 DEF IInv, TypeOK, UseInv
<1>3. CASE FieldsClose
  <2>1. o = fieldsDir /\ refCount[fieldsDir] <= 1 /\ workerDir' = workerDir
    BY <1>3 DEF FieldsClose
  <2> QED
    BY <1>3, <2>1, FieldsCloseFacts
<1>4. ASSUME NEW how, ProcessEnds(how) PROVE workerDir'[d] # o
  BY <1>1, <1>4 DEF ProcessEnds
<1>5. \/ FieldsClose \/ \E e \in Dirs : Close(e)
      \/ \E how : ProcessEnds(how)
  <2>1. ASSUME \/ Launch \/ Clear \/ EndRemoval \/ Sort \/ FieldsTimer \/ FieldsEnd \/ Quit
               \/ \E e \in Dirs : Add(e) \/ Del(e) \/ Release(e) \/ Obtain(e)
        PROVE FALSE
    BY <2>1 DEF Launch, Clear, EndRemoval, Sort, FieldsTimer, FieldsEnd, Quit, Add, Del, Release,
       Obtain, dirVars
  <2>2. ASSUME Search \/ \E e \in Dirs : Open(e) \/ FieldsOpen(e)
        PROVE FALSE
    BY <2>2 DEF Search, Open, FieldsOpen, GetDirectories
  <2> QED
    BY <2>1, <2>2, EndsFacts DEF Next, Thread, Window
<1> QED
  BY <1>2, <1>3, <1>4, <1>5

\* Reading the field names, or the end of another thread, never deletes the Directory
\* a thread is using.
THEOREM WorkersAreNotDisturbed == Spec => WorkersKeepDirectory
<1>1. IInv /\ [Next]_vars
        => [\A o \in alive \ alive' : \A d \in Dirs : workerDir'[d] # o]_vars
  BY DeletionStep
<1> QED
  BY <1>1, Invariance, PTL DEF Spec, WorkersKeepDirectory
=============================================================================
