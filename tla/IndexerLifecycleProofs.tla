----------------------- MODULE IndexerLifecycleProofs -----------------------
(***************************************************************************)
(* Proofs about IndexerLifecycle, for any number of directories, threads   *)
(* and rounds and any index directories.                                   *)
(***************************************************************************)
EXTENDS IndexerLifecycle, TLAPS

-----------------------------------------------------------------------------
(* The inductive invariant.                                                 *)

\* A program that does not run has no threads and waits for nothing.
OffInv == ui = "off" => /\ \A d \in Dirs : workers[d] = NoThread
                        /\ \A t \in Threads : pc[t] = "none"
                        /\ subject = NoThread /\ ~quitting /\ opened = {}

\* m_pWorkers and the thread objects agree; only the one removeIndex waits for and those
\* that onQuit has given up on are in no map.
MapInv == /\ \A d \in Dirs : workers[d] \in Threads => /\ pc[workers[d]] # "none"
                                                       /\ dirOf[workers[d]] = d
          /\ \A t \in Threads : pc[t] # "none" =>
               \/ workers[dirOf[t]] = t
               \/ ui = "removing" /\ subject = t /\ workers[dirOf[t]] = NoThread
               \/ ui = "lost"
          /\ ui = "removing" => /\ subject \in Threads
                                /\ workers[dirOf[subject]] = NoThread

\* onQuit and its rounds.
RoundInv == /\ ui \in {"check", "cleanup"} => quitting
            /\ ~quitting => round = 0
            /\ ui = "check" => round <= GiveUpAfter

IInv == TypeOK /\ OffInv /\ MapInv /\ RoundInv

\* What a step must leave alone for the map to stay as it is.
SameObjects == /\ workers' = workers /\ dirOf' = dirOf
               /\ \A t \in Threads : pc'[t] = "none" <=> pc[t] = "none"

-----------------------------------------------------------------------------
(* Steps of the indexer threads.                                            *)

\* A thread that moves stays the object it is.
LEMMA MovesFacts ==
  ASSUME IInv, NEW t \in Threads, NEW from, NEW to, Moves(t, from, to),
         from \notin {"none", "finished", "killed"}, to # "none"
  PROVE  /\ pc' = [pc EXCEPT ![t] = to]
         /\ pc[t] = from /\ ui # "off"
         /\ \A u \in Threads : pc'[u] = "none" <=> pc[u] = "none"
         /\ \A u \in Threads : Running(u)' => Running(u)
BY DEF Moves, IInv, TypeOK, Running

\* A step of a thread preserves the invariant.
LEMMA WorksStep ==
  ASSUME IInv, NEW t \in Threads, Works(t)
  PROVE  IInv'
<1>1. /\ UNCHANGED <<cfgDirs, uiVars, objVars>>
      /\ lock' \in {lock, t, NoThread} /\ stop' \subseteq stop
  BY DEF Works, NewIndexer, OpenIndex, BeginStore, EndStore, WantText, Ask, WantFlush,
         Finish, Lock, EndFlush, EndCount, EndClose, diskVars, lockVars
<1>2. \E from, to : /\ Moves(t, from, to)
                    /\ from \notin {"none", "finished", "killed"} /\ to # "none"
                    /\ to \in Place
  BY DEF Works, NewIndexer, OpenIndex, BeginStore, EndStore, WantText, Ask, WantFlush,
         Finish, Lock, EndFlush, EndCount, EndClose, Place
<1>3. SameObjects /\ ui # "off" /\ \A u \in Threads : Running(u)' => Running(u)
  BY <1>1, <1>2, MovesFacts DEF SameObjects, objVars
<1>4. TypeOK'
  <2>1. pc' \in [Threads -> Place]
      BY <1>2 DEF Moves, IInv, TypeOK, Place
  <2>2. Idx(t) \in IdxDirs
    BY DEF Idx, IdxDirs, IInv, TypeOK
  <2>3. index' \subseteq IdxDirs /\ calls' \subseteq Threads
    BY <2>2 DEF Works, NewIndexer, OpenIndex, BeginStore, EndStore, WantText, Ask,
       WantFlush,
         Finish, Lock, EndFlush, EndCount, EndClose, diskVars, IInv, TypeOK
  <2>4. store' \in [IdxDirs -> Threads \cup {NoThread}]
    BY <2>2 DEF Works, NewIndexer, OpenIndex, BeginStore, EndStore, WantText, Ask,
       WantFlush,
         Finish, Lock, EndFlush, EndCount, EndClose, lockVars, IInv, TypeOK
  <2>5. opened' \subseteq opened \cup {t}
    BY DEF Works, NewIndexer, OpenIndex, BeginStore, EndStore, WantText, Ask, WantFlush,
         Finish, Lock, EndFlush, EndCount, EndClose
  <2>6. opened' \subseteq {u \in Threads : pc'[u] # "none"}
    BY <1>2, <1>3, <2>5 DEF SameObjects, Moves, IInv, TypeOK
  <2> QED
    BY <1>1, <2>1, <2>3, <2>4, <2>6 DEF uiVars, objVars, IInv, TypeOK
<1>5. OffInv' /\ MapInv' /\ RoundInv'
  BY <1>1, <1>3, <1>4 DEF SameObjects, uiVars, objVars, IInv, OffInv, MapInv, RoundInv, TypeOK
<1> QED
  BY <1>4, <1>5 DEF IInv

-----------------------------------------------------------------------------
(* The end and the start of threads.                                        *)

\* AnyDir is a directory.
LEMMA AnyDirFacts == AnyDir \in Dirs
BY DirsAssumption DEF AnyDir

\* Whatever ends the process, nothing of it is left.
LEMMA ProcessEndsStep ==
  ASSUME IInv, NEW how, ProcessEnds(how),
         how \in {"done", "gaveUp", "nullThread", "nullIndexer", "noIndex", "deadCaller"}
  PROVE  IInv'
<1>1. TypeOK'
  <2>1. pc' \in [Threads -> Place] /\ round' \in 0..(GiveUpAfter + 1)
    BY PatienceAssumption DEF ProcessEnds, Place
  <2>2. /\ workers' \in [Dirs -> Threads \cup {NoThread, NullThread}]
        /\ store' \in [IdxDirs -> Threads \cup {NoThread}]
        /\ dirOf' \in [Threads -> Dirs]
    BY AnyDirFacts DEF ProcessEnds
  <2> QED
    BY <2>1, <2>2 DEF ProcessEnds, diskVars, IInv, TypeOK
<1>2. OffInv' /\ MapInv' /\ RoundInv'
  BY ThreadsAssumption DEF ProcessEnds, OffInv, MapInv, RoundInv, Running
<1> QED
  BY <1>1, <1>2 DEF IInv

\* New threads get objects of their own and are found under their directory.
LEMMA StartThreadsFacts ==
  ASSUME IInv, NEW D \in SUBSET Dirs, StartThreads(D),
         \A d \in D : workers[d] = NoThread, ui \in {"off", "loop"}, ui' = "loop"
  PROVE  /\ workers' \in [Dirs -> Threads \cup {NoThread, NullThread}]
         /\ dirOf' \in [Threads -> Dirs]
         /\ pc' \in [Threads -> Place]
         /\ \A t \in Threads : pc[t] # "none" => pc'[t] = pc[t]
         /\ MapInv'
<1>1. PICK new \in [D -> {t \in Threads : pc[t] = "none" /\ t \notin calls}] :
        /\ \A d, e \in D : new[d] = new[e] => d = e
        /\ workers' = [d \in Dirs |-> IF d \in D THEN new[d] ELSE workers[d]]
        /\ dirOf' = [t \in Threads |->
             IF \E d \in D : new[d] = t THEN CHOOSE d \in D : new[d] = t ELSE dirOf[t]]
        /\ pc' = [t \in Threads |-> IF \E d \in D : new[d] = t THEN "starting" ELSE pc[t]]
  BY DEF StartThreads
<1>2. \A d \in D : new[d] \in Threads /\ pc[new[d]] = "none" /\ pc'[new[d]] = "starting"
  BY <1>1
<1>3. \A d \in D : dirOf'[new[d]] = d
  <2>1. TAKE d \in D
  <2>2. dirOf'[new[d]] = CHOOSE e \in D : new[e] = new[d]
    BY <1>1, <1>2
  <2>3. /\ (CHOOSE e \in D : new[e] = new[d]) \in D
        /\ new[CHOOSE e \in D : new[e] = new[d]] = new[d]
    OBVIOUS
  <2> QED
    BY <1>1, <2>2, <2>3
<1>4. \A t \in Threads : pc[t] # "none" => dirOf'[t] = dirOf[t] /\ pc'[t] = pc[t]
  BY <1>1, <1>2
<1>5. workers' \in [Dirs -> Threads \cup {NoThread, NullThread}]
  BY <1>1 DEF IInv, TypeOK
<1>6. dirOf' \in [Threads -> Dirs]
  <2>1. \A t \in Threads : (\E d \in D : new[d] = t) => (CHOOSE d \in D : new[d] = t) \in Dirs
    OBVIOUS
  <2> QED
    BY <1>1, <2>1 DEF IInv, TypeOK
<1>7. \A d \in Dirs : workers'[d] \in Threads =>
        pc'[workers'[d]] # "none" /\ dirOf'[workers'[d]] = d
  BY <1>1, <1>2, <1>3, <1>4 DEF IInv, MapInv, TypeOK
<1>8. \A t \in Threads : pc'[t] # "none" => workers'[dirOf'[t]] = t
  <2>1. TAKE t \in Threads
  <2>2. CASE \E d \in D : new[d] = t
    BY <1>1, <1>3, <2>2
  <2>3. CASE ~\E d \in D : new[d] = t
    <3>1. HAVE pc'[t] # "none"
    <3>2. pc[t] # "none" /\ dirOf'[t] = dirOf[t]
      BY <1>1, <2>3, <3>1
    <3>3. workers[dirOf[t]] = t /\ dirOf[t] \in Dirs
      BY <3>2 DEF IInv, MapInv, TypeOK
    <3>4. dirOf[t] \notin D
      BY <3>3, ThreadsAssumption
    <3> QED
      BY <1>1, <3>2, <3>3, <3>4
  <2> QED
    BY <2>2, <2>3
<1>9. pc' \in [Threads -> Place]
  BY <1>1 DEF IInv, TypeOK, Place
<1> QED
  BY <1>4, <1>5, <1>6, <1>7, <1>8, <1>9 DEF MapInv

\* indexer::init gives each directory a thread of its own.
LEMMA LaunchStep ==
  ASSUME IInv, Launch
  PROVE  IInv'
<1>1. PICK D \in SUBSET cfgDirs : StartThreads(D)
  BY DEF Launch
<1>2. /\ ui = "off" /\ ui' = "loop" /\ exit' = "none"
      /\ UNCHANGED <<diskVars, subject, quitting, round, stop, opened, calls, lockVars>>
  BY DEF Launch, UiGoes
<1>3. D \in SUBSET Dirs /\ \A d \in D : workers[d] = NoThread
  BY <1>2 DEF IInv, TypeOK, OffInv
<1>4. /\ workers' \in [Dirs -> Threads \cup {NoThread, NullThread}]
      /\ dirOf' \in [Threads -> Dirs]
      /\ pc' \in [Threads -> Place]
      /\ \A t \in Threads : pc[t] # "none" => pc'[t] = pc[t]
      /\ MapInv'
  BY <1>1, <1>2, <1>3, StartThreadsFacts
<1>5. TypeOK'
  BY <1>2, <1>4 DEF diskVars, lockVars, IInv, TypeOK
<1>6. OffInv' /\ RoundInv'
  BY <1>2 DEF IInv, OffInv, RoundInv
<1> QED
  BY <1>4, <1>5, <1>6 DEF IInv

\* indexer::add gives the directory a thread only if it has none.
LEMMA AddStep ==
  ASSUME IInv, NEW d \in Dirs, Add(d)
  PROVE  IInv'
<1>1. /\ ui = "loop" /\ ui' = "loop"
      /\ cfgDirs' = cfgDirs \cup {d}
      /\ UNCHANGED <<index, subject, quitting, round, exit, stop, opened, calls, lockVars>>
  BY DEF Add, UiGoes
<1>2. CASE UNCHANGED <<objVars, pc>>
  BY <1>1, <1>2 DEF objVars, lockVars, IInv, TypeOK, OffInv, MapInv, RoundInv, Running
<1>3. CASE workers[d] = NoThread /\ StartThreads({d})
  <2>1. /\ workers' \in [Dirs -> Threads \cup {NoThread, NullThread}]
        /\ dirOf' \in [Threads -> Dirs]
        /\ pc' \in [Threads -> Place]
        /\ \A t \in Threads : pc[t] # "none" => pc'[t] = pc[t]
        /\ MapInv'
    BY <1>1, <1>3, StartThreadsFacts
  <2>2. TypeOK'
    BY <1>1, <2>1 DEF lockVars, IInv, TypeOK
  <2>3. OffInv' /\ RoundInv'
    BY <1>1 DEF IInv, OffInv, RoundInv
  <2> QED
    BY <2>1, <2>2, <2>3 DEF IInv
<1> QED
  BY <1>2, <1>3 DEF Add

-----------------------------------------------------------------------------
(* The UI thread.                                                           *)

\* removeIndex takes the thread from the map and waits for it.
LEMMA DelStep ==
  ASSUME IInv, NEW d \in Dirs, Del(d)
  PROVE  IInv'
<1>1. TypeOK'
  BY ThreadsAssumption DEF Del, UiGoes, diskVars, objVars, lockVars, uiVars, IInv,
     TypeOK, RoundInv
<1>2. OffInv' /\ MapInv' /\ RoundInv'
  BY <1>1, ThreadsAssumption DEF Del, UiGoes, diskVars, objVars, lockVars, uiVars,
     IInv, TypeOK, OffInv, MapInv, RoundInv, Running
<1> QED
  BY <1>1, <1>2 DEF IInv

\* A directory without thread leaves the settings only.
LEMMA DelUnknownStep ==
  ASSUME IInv, NEW d \in Dirs, DelUnknown(d)
  PROVE  IInv'
<1>1. TypeOK'
  BY DEF DelUnknown, UiGoes, diskVars, objVars, lockVars, uiVars, IInv, TypeOK, RoundInv
<1>2. OffInv' /\ MapInv' /\ RoundInv'
  BY <1>1 DEF DelUnknown, UiGoes, diskVars, objVars, lockVars, uiVars, IInv, TypeOK,
     OffInv, MapInv, RoundInv, Running
<1> QED
  BY <1>1, <1>2 DEF IInv

\* The thread removeIndex waited for is no longer in the map when it is deleted.
LEMMA EndRemovalStep ==
  ASSUME IInv, EndRemoval
  PROVE  IInv'
<1>1. subject \in Threads /\ workers[dirOf[subject]] = NoThread /\ ui = "removing"
  BY DEF EndRemoval, UiGoes, IInv, MapInv
<1>2. /\ ui' = "loop" /\ subject' = NoThread
      /\ dirOf' = [dirOf EXCEPT ![subject] = AnyDir]
      /\ pc' = [pc EXCEPT ![subject] = "none"]
      /\ index' \subseteq index
      /\ opened' = opened \ {subject}
      /\ UNCHANGED <<cfgDirs, quitting, round, exit, workers, stop, calls, lockVars>>
  BY DEF EndRemoval, UiGoes
<1>3. TypeOK'
  <2>1. pc' \in [Threads -> Place]
    BY <1>2 DEF IInv, TypeOK, Place
  <2>2. opened' \subseteq {t \in Threads : pc'[t] # "none"}
    BY <1>1, <1>2 DEF IInv, TypeOK
  <2>3. dirOf' \in [Threads -> Dirs]
    BY <1>2, AnyDirFacts DEF IInv, TypeOK
  <2> QED
    BY <1>2, <2>1, <2>2, <2>3 DEF lockVars, IInv, TypeOK
<1>4. MapInv'
  <2>1. \A d \in Dirs : workers[d] # subject
    BY <1>1, ThreadsAssumption DEF IInv, MapInv
  <2> QED
    BY <1>1, <1>2, <2>1 DEF IInv, MapInv, TypeOK
<1>5. OffInv' /\ RoundInv'
  BY <1>1, <1>2 DEF IInv, OffInv, RoundInv
<1> QED
  BY <1>3, <1>4, <1>5 DEF IInv

\* The null pointer in the map is not a thread.
LEMMA InfoUnknownStep ==
  ASSUME IInv, NEW d \in Dirs, InfoUnknown(d)
  PROVE  IInv'
<1>1. TypeOK'
  BY ThreadsAssumption DEF InfoUnknown, UiGoes, diskVars, objVars, lockVars, uiVars,
     IInv, TypeOK, RoundInv
<1>2. OffInv' /\ MapInv' /\ RoundInv'
  BY <1>1, ThreadsAssumption DEF InfoUnknown, UiGoes, diskVars, objVars, lockVars,
     uiVars, IInv, TypeOK, OffInv, MapInv, RoundInv, Running
<1> QED
  BY <1>1, <1>2 DEF IInv

\* getIdxInfo only looks.
LEMMA InfoStep ==
  ASSUME IInv, NEW d \in Dirs, Info(d)
  PROVE  IInv'
<1>1. TypeOK'
  BY DEF Info, UiGoes, diskVars, objVars, lockVars, uiVars, IInv, TypeOK, RoundInv
<1>2. OffInv' /\ MapInv' /\ RoundInv'
  BY <1>1 DEF Info, UiGoes, diskVars, objVars, lockVars, uiVars, IInv, TypeOK, OffInv,
     MapInv, RoundInv, Running
<1> QED
  BY <1>1, <1>2 DEF IInv

\* The timer of fillFields changes nothing yet.
LEMMA FieldsTimerStep ==
  ASSUME IInv, FieldsTimer
  PROVE  IInv'
<1>1. TypeOK'
  BY DEF FieldsTimer, UiGoes, diskVars, objVars, lockVars, uiVars, IInv, TypeOK, RoundInv
<1>2. OffInv' /\ MapInv' /\ RoundInv'
  BY <1>1 DEF FieldsTimer, UiGoes, diskVars, objVars, lockVars, uiVars, IInv, TypeOK,
     OffInv, MapInv, RoundInv, Running
<1> QED
  BY <1>1, <1>2 DEF IInv

\* The UI thread takes the mutex.
LEMMA UiLockStep ==
  ASSUME IInv, UiLock
  PROVE  IInv'
<1>1. TypeOK'
  BY DEF UiLock, UiGoes, diskVars, objVars, lockVars, uiVars, IInv, TypeOK, RoundInv
<1>2. OffInv' /\ MapInv' /\ RoundInv'
  BY <1>1 DEF UiLock, UiGoes, diskVars, objVars, lockVars, uiVars, IInv, TypeOK,
     OffInv, MapInv, RoundInv, Running
<1> QED
  BY <1>1, <1>2 DEF IInv

\* It gives the mutex back.
LEMMA EndInfoStep ==
  ASSUME IInv, EndInfo
  PROVE  IInv'
<1>1. TypeOK'
  BY DEF EndInfo, UiGoes, diskVars, objVars, lockVars, uiVars, IInv, TypeOK, RoundInv
<1>2. OffInv' /\ MapInv' /\ RoundInv'
  BY <1>1 DEF EndInfo, UiGoes, diskVars, objVars, lockVars, uiVars, IInv, TypeOK,
     OffInv, MapInv, RoundInv, Running
<1> QED
  BY <1>1, <1>2 DEF IInv

\* It gives the mutex back.
LEMMA EndFieldsStep ==
  ASSUME IInv, EndFields
  PROVE  IInv'
<1>1. TypeOK'
  BY DEF EndFields, UiGoes, diskVars, objVars, lockVars, uiVars, IInv, TypeOK, RoundInv
<1>2. OffInv' /\ MapInv' /\ RoundInv'
  BY <1>1 DEF EndFields, UiGoes, diskVars, objVars, lockVars, uiVars, IInv, TypeOK,
     OffInv, MapInv, RoundInv, Running
<1> QED
  BY <1>1, <1>2 DEF IInv

\* A served call wakes a thread that was running anyway.
LEMMA ServeStep ==
  ASSUME IInv, NEW t \in Threads, Serve(t)
  PROVE  IInv'
<1>1. /\ ui = "loop" /\ ui' = "loop" /\ pc[t] = "ask"
      /\ pc' = [pc EXCEPT ![t] = "pass"] /\ calls' = calls \ {t}
      /\ UNCHANGED <<diskVars, subject, quitting, round, exit, objVars, stop, opened, lockVars>>
  BY DEF Serve, UiGoes
<1>2. \A u \in Threads : /\ pc'[u] = "none" <=> pc[u] = "none"
                         /\ Running(u)' => Running(u)
  BY <1>1 DEF Running, IInv, TypeOK
<1>3. TypeOK'
  <2>1. pc' \in [Threads -> Place]
    BY <1>1 DEF IInv, TypeOK, Place
  <2> QED
    BY <1>1, <1>2, <2>1 DEF diskVars, objVars, lockVars, IInv, TypeOK
<1>4. OffInv' /\ MapInv' /\ RoundInv'
  BY <1>1, <1>2 DEF objVars, IInv, OffInv, MapInv, RoundInv, TypeOK
<1> QED
  BY <1>3, <1>4 DEF IInv

\* requestStopAll sets flags only.
LEMMA QuitStep ==
  ASSUME IInv, Quit
  PROVE  IInv'
<1>1. /\ ui = "loop" /\ ui' = "check" /\ ~quitting /\ quitting' = TRUE /\ round = 0
      /\ stop' = stop \cup {t \in Threads : Running(t) /\ \E d \in Dirs : workers[d] = t}
      /\ UNCHANGED <<diskVars, subject, round, exit, objVars, pc, opened, calls, lockVars>>
  BY DEF Quit, UiGoes, IInv, RoundInv
<1>2. TypeOK' /\ OffInv' /\ MapInv'
  BY <1>1 DEF diskVars, objVars, lockVars, IInv, TypeOK, OffInv, MapInv
<1>3. RoundInv'
  BY <1>1, PatienceAssumption DEF RoundInv
<1> QED
  BY <1>2, <1>3 DEF IInv

\* The cleanup begins when no thread runs.
LEMMA AllStoppedStep ==
  ASSUME IInv, AllStopped
  PROVE  IInv'
<1>1. TypeOK'
  BY DEF AllStopped, UiGoes, diskVars, objVars, lockVars, uiVars, IInv, TypeOK, RoundInv
<1>2. OffInv' /\ MapInv' /\ RoundInv'
  BY <1>1 DEF AllStopped, UiGoes, diskVars, objVars, lockVars, uiVars, IInv, TypeOK,
     OffInv, MapInv, RoundInv, Running
<1> QED
  BY <1>1, <1>2 DEF IInv

\* A terminated thread stays in the map.
LEMMA NotStoppedStep ==
  ASSUME IInv, NotStopped
  PROVE  IInv'
<1>1. /\ ui = "check" /\ ui' = "loop" /\ round' = round + 1
      /\ stop' \subseteq stop
      /\ UNCHANGED <<diskVars, subject, quitting, exit, objVars, opened, calls, lockVars>>
  BY DEF NotStopped, UiGoes
<1>2. PICK d \in StillRunning : pc' \in {[pc EXCEPT ![workers[d]] = "killed"], pc}
  BY DEF NotStopped
<1>3. workers[d] \in Threads /\ Running(workers[d])
  BY DEF StillRunning
<1>4. /\ pc' \in [Threads -> Place]
      /\ \A u \in Threads : /\ pc'[u] = "none" <=> pc[u] = "none"
                            /\ Running(u)' => Running(u)
  BY <1>2, <1>3 DEF Running, IInv, TypeOK, Place
<1>5. round' \in 0..(GiveUpAfter + 1) /\ quitting
  BY <1>1, PatienceAssumption DEF IInv, RoundInv, TypeOK
<1>6. TypeOK'
  BY <1>1, <1>4, <1>5 DEF diskVars, objVars, lockVars, IInv, TypeOK
<1>7. OffInv' /\ MapInv' /\ RoundInv'
  BY <1>1, <1>4, <1>5 DEF objVars, IInv, OffInv, MapInv, RoundInv, TypeOK
<1> QED
  BY <1>6, <1>7 DEF IInv

\* processEvents returns.
LEMMA EndEventsStep ==
  ASSUME IInv, EndEvents
  PROVE  IInv'
<1>1. TypeOK'
  BY DEF EndEvents, UiGoes, diskVars, objVars, lockVars, uiVars, IInv, TypeOK, RoundInv
<1>2. OffInv' /\ MapInv' /\ RoundInv'
  BY <1>1 DEF EndEvents, UiGoes, diskVars, objVars, lockVars, uiVars, IInv, TypeOK,
     OffInv, MapInv, RoundInv, Running
<1> QED
  BY <1>1, <1>2 DEF IInv

\* Deleting a thread that does not run loses none that does.
LEMMA DeleteThreadStep ==
  ASSUME IInv, NEW d \in Dirs, DeleteThread(d)
  PROVE  IInv'
<1>1. /\ ui = "cleanup" /\ ui' = "cleanup" /\ workers[d] \in Threads
      /\ workers' = [workers EXCEPT ![d] = NoThread]
      /\ dirOf' = [dirOf EXCEPT ![workers[d]] = AnyDir]
      /\ pc' = [pc EXCEPT ![workers[d]] = "none"]
      /\ opened' = opened \ {workers[d]}
      /\ UNCHANGED <<diskVars, subject, quitting, round, exit, stop, calls, lockVars>>
  BY DEF DeleteThread, UiGoes
<1>2. TypeOK'
  <2>1. pc' \in [Threads -> Place] /\ workers' \in [Dirs -> Threads \cup {NoThread, NullThread}]
    BY <1>1 DEF IInv, TypeOK, Place
  <2>2. opened' \subseteq {t \in Threads : pc'[t] # "none"}
    BY <1>1 DEF IInv, TypeOK
  <2>3. dirOf' \in [Threads -> Dirs]
    BY <1>1, AnyDirFacts DEF IInv, TypeOK
  <2> QED
    BY <1>1, <2>1, <2>2, <2>3 DEF diskVars, lockVars, IInv, TypeOK
<1>3. MapInv'
  BY <1>1, ThreadsAssumption DEF IInv, MapInv, TypeOK
<1>4. OffInv' /\ RoundInv'
  BY <1>1 DEF IInv, OffInv, RoundInv, Running, TypeOK
<1> QED
  BY <1>2, <1>3, <1>4 DEF IInv

\* A program that goes on after onQuit has variables of the same types.
LEMMA GoesOnType ==
  ASSUME IInv, NEW to, GoesOn(to), to \in {"loop", "lost"}, exit' \in {exit, "gaveUp"}
  PROVE  TypeOK'
<1>1. round' \in 0..(GiveUpAfter + 1)
  BY PatienceAssumption DEF GoesOn
<1>2. workers' \in [Dirs -> Threads \cup {NoThread, NullThread}]
  BY DEF GoesOn
<1>3. /\ UNCHANGED <<cfgDirs, index, subject, dirOf, pc, stop, opened, calls, lock, store>>
      /\ ui' = to /\ quitting' = FALSE
  BY DEF GoesOn, diskVars, lockVars
<1> QED
  BY <1>1, <1>2, <1>3 DEF IInv, TypeOK

\* At the regular end of onQuit there is no thread object left that could be lost.
LEMMA EndQuitStep ==
  ASSUME IInv, EndQuit
  PROVE  IInv'
<1>1. CASE ProcessEnds("done")
  BY <1>1, ProcessEndsStep
<1>2. CASE GoesOn("loop") /\ UNCHANGED exit
  <2>1. \A t \in Threads : pc[t] = "none"
    BY ThreadsAssumption DEF EndQuit, IInv, MapInv, TypeOK
  <2>2. TypeOK'
    BY <1>2, GoesOnType
  <2>3. OffInv' /\ MapInv' /\ RoundInv'
    BY <1>2, <2>1, ThreadsAssumption DEF GoesOn, OffInv, MapInv, RoundInv
  <2> QED
    BY <2>2, <2>3 DEF IInv
<1> QED
  BY <1>1, <1>2 DEF EndQuit

\* The threads that onQuit gives up on are in no map.
LEMMA GiveUpStep ==
  ASSUME IInv, GiveUp
  PROVE  IInv'
<1>1. CASE ProcessEnds("gaveUp")
  BY <1>1, ProcessEndsStep
<1>2. CASE GoesOn("lost") /\ exit' = "gaveUp"
  <2>1. TypeOK'
    BY <1>2, GoesOnType
  <2>2. OffInv' /\ MapInv' /\ RoundInv'
    BY <1>2, ThreadsAssumption DEF GoesOn, OffInv, MapInv, RoundInv
  <2> QED
    BY <2>1, <2>2 DEF IInv
<1> QED
  BY <1>1, <1>2 DEF GiveUp

\* What the program does to the disk beside them does not matter to its objects.
LEMMA AstrayStep ==
  ASSUME IInv, Astray
  PROVE  IInv'
<1>1. CASE ProcessEnds("gaveUp")
  BY <1>1, ProcessEndsStep
<1>2. CASE /\ cfgDirs' \in SUBSET Dirs /\ index' \in SUBSET IdxDirs
           /\ UNCHANGED <<uiVars, objVars, pc, stop, opened, calls, lockVars>>
  BY <1>2 DEF uiVars, objVars, lockVars, IInv, TypeOK, OffInv, MapInv, RoundInv
<1> QED
  BY <1>1, <1>2 DEF Astray

\* The call of a dead thread changes nothing but the queue.
LEMMA ServeKilledStep ==
  ASSUME IInv, NEW t \in Threads, ServeKilled(t)
  PROVE  IInv'
<1>1. CASE ProcessEnds("deadCaller")
  BY <1>1, ProcessEndsStep
<1>2. CASE /\ calls' = calls \ {t}
           /\ UNCHANGED <<diskVars, uiVars, objVars, pc, stop, opened, lockVars>>
  BY <1>2 DEF diskVars, uiVars, objVars, lockVars, IInv, TypeOK, OffInv, MapInv,
     RoundInv, Running
<1> QED
  BY <1>1, <1>2 DEF ServeKilled

-----------------------------------------------------------------------------
(* The invariant of the specification.                                      *)

\* The invariant holds at first.
LEMMA InitInv == Init => IInv
<1> SUFFICES ASSUME Init PROVE IInv
  OBVIOUS
<1>1. TypeOK
  <2>1. dirOf \in [Threads -> Dirs]
    BY AnyDirFacts DEF Init
  <2>2. pc \in [Threads -> Place] /\ round \in 0..(GiveUpAfter + 1)
    BY PatienceAssumption DEF Init, Place
  <2> QED
    BY <2>1, <2>2 DEF Init, TypeOK
<1>2. OffInv /\ MapInv /\ RoundInv
  BY ThreadsAssumption DEF Init, OffInv, MapInv, RoundInv, Running
<1> QED
  BY <1>1, <1>2 DEF IInv

\* Every step preserves the invariant.
LEMMA NextInv == IInv /\ [Next]_vars => IInv'
<1> SUFFICES ASSUME IInv, [Next]_vars PROVE IInv'
  OBVIOUS
<1>1. ASSUME NEW t \in Threads, Works(t) \/ Call(t) PROVE IInv'
  BY <1>1, WorksStep, ServeStep, ServeKilledStep DEF Call
<1>2. CASE UiStep
  <2>1. CASE FieldsWithoutIndex
    BY <2>1, ProcessEndsStep DEF FieldsWithoutIndex
  <2>2. CASE InfoOfClosed \/ CheckNullThread
    BY <2>2, ProcessEndsStep DEF InfoOfClosed, CheckNullThread
  <2> QED
    BY <1>2, <2>1, <2>2, EndRemovalStep, UiLockStep, EndInfoStep, EndFieldsStep,
       AllStoppedStep, NotStoppedStep, DeleteThreadStep, EndQuitStep DEF UiStep
<1>3. CASE EndEvents \/ GiveUp
  BY <1>3, EndEventsStep, GiveUpStep
<1>4. CASE User
  <2>1. CASE UseNullThread
    BY <2>1, ProcessEndsStep DEF UseNullThread
  <2>2. ASSUME NEW d \in Dirs, InfoNoIndexer(d) PROVE IInv'
    BY <2>2, ProcessEndsStep DEF InfoNoIndexer
  <2> QED
    BY <1>4, <2>1, <2>2, LaunchStep, AstrayStep, QuitStep, FieldsTimerStep, AddStep, DelStep,
       DelUnknownStep, InfoUnknownStep, InfoStep DEF User
<1>5. CASE UNCHANGED vars
  BY <1>5 DEF vars, diskVars, uiVars, objVars, lockVars, IInv, TypeOK, OffInv, MapInv,
       RoundInv, Running
<1> QED
  BY <1>1, <1>2, <1>3, <1>4, <1>5 DEF Next

\* The invariant holds in every state that UI thread and workers can bring about.
THEOREM Invariance == Spec => []IInv
BY InitInv, NextInv, PTL DEF Spec

\* The variables keep their types (indexer, indexerThread, indexerWorker).
THEOREM TypeCorrect == Spec => []TypeOK
<1>1. IInv => TypeOK
  BY DEF IInv
<1> QED
  BY <1>1, Invariance, PTL

\* No running thread is lost, be it added while onQuit waits: m_pWorkers has it, or
\* removeIndex is waiting for it, until onQuit gives up on the threads.
THEOREM NoThreadIsLost == Spec => []ThreadsAreKept
<1>1. IInv => ThreadsAreKept
  BY DEF IInv, MapInv, ThreadsAreKept, Running
<1> QED
  BY <1>1, Invariance, PTL

-----------------------------------------------------------------------------
(* One index, one thread.                                                   *)

\* Two thread objects never share a directory.
LEMMA OneThreadPerDir ==
  ASSUME IInv, NEW t \in Threads, NEW u \in Threads,
         pc[t] # "none", pc[u] # "none", dirOf[t] = dirOf[u], ui # "lost"
  PROVE  t = u
BY ThreadsAssumption DEF IInv, MapInv

\* Two open workers of an index directory that belongs to one directory are the same.
LEMMA SameIndexSameThread ==
  ASSUME IInv
  PROVE  OneModifierPerIndex
<1> SUFFICES ASSUME NEW t \in opened, NEW u \in opened, Idx(t) = Idx(u),
                    OwnIndex(dirOf[t]), ui # "lost"
             PROVE  t = u
  BY DEF OneModifierPerIndex
<1>1. /\ t \in Threads /\ u \in Threads /\ pc[t] # "none" /\ pc[u] # "none"
      /\ dirOf[t] \in Dirs /\ dirOf[u] \in Dirs
  BY DEF IInv, TypeOK
<1>2. dirOf[t] = dirOf[u]
  BY <1>1 DEF Idx, OwnIndex
<1> QED
  BY <1>1, <1>2, OneThreadPerDir

\* An index that no two directories share never has two IndexModifiers, however
\* directories are added, removed and added again.
THEOREM OneModifier == Spec => []OneModifierPerIndex
<1>1. IInv => OneModifierPerIndex
  BY SameIndexSameThread
<1> QED
  BY <1>1, Invariance, PTL

\* An open worker keeps its directory.
LEMMA OpenedStep ==
  ASSUME IInv, [Next]_vars
  PROVE  \A t \in opened : t \in opened' => dirOf'[t] = dirOf[t]
<1> SUFFICES ASSUME NEW t \in opened, t \in opened' PROVE dirOf'[t] = dirOf[t]
  OBVIOUS
<1>1. t \in Threads /\ pc[t] # "none"
  BY DEF IInv, TypeOK
<1>2. ASSUME NEW D, StartThreads(D) PROVE dirOf'[t] = dirOf[t]
  <2>1. PICK new \in [D -> {u \in Threads : pc[u] = "none" /\ u \notin calls}] :
          dirOf' = [u \in Threads |->
            IF \E d \in D : new[d] = u THEN CHOOSE d \in D : new[d] = u ELSE dirOf[u]]
    BY <1>2 DEF StartThreads
  <2>2. ~\E d \in D : new[d] = t
    BY <1>1
  <2> QED
    BY <1>1, <2>1, <2>2
<1>3. \/ \E D : StartThreads(D)
      \/ UNCHANGED dirOf
      \/ opened' = {}
      \/ EndRemoval
      \/ \E d \in Dirs : DeleteThread(d)
  BY DEF Next, vars, objVars, Works, NewIndexer, OpenIndex, BeginStore, EndStore,
     WantText, Ask,
     WantFlush, Finish, Lock, EndFlush, EndCount, EndClose, UiStep, EndInfo, EndFields,
     FieldsWithoutIndex, ProcessEnds, AllStopped, NotStopped, EndQuit, UiLock,
     Call, Serve, ServeKilled, EndEvents, GiveUp, GoesOn, User, Launch, Astray, Quit,
     UseNullThread, FieldsTimer, Add, Del, DelUnknown, InfoUnknown, InfoNoIndexer, Info,
     InfoOfClosed, CheckNullThread
<1>4. CASE EndRemoval
  BY <1>1, <1>4 DEF EndRemoval, IInv, TypeOK
<1>5. ASSUME NEW d \in Dirs, DeleteThread(d) PROVE t \in opened' => dirOf'[t] = dirOf[t]
  BY <1>1, <1>5 DEF DeleteThread, IInv, TypeOK
<1> QED
  BY <1>2, <1>3, <1>4, <1>5

\* A program that has lost threads goes on beside them until it ends.
LEMMA LostStep ==
  ASSUME [Next]_vars, ui = "lost"
  PROVE  ui' = "lost" \/ opened' = {}
BY DEF Next, vars, uiVars, Works, NewIndexer, OpenIndex, BeginStore, EndStore, WantText, Ask,
     WantFlush, Finish, Lock, EndFlush, EndCount, EndClose, UiStep, EndRemoval, EndInfo, EndFields,
     FieldsWithoutIndex, ProcessEnds, AllStopped, NotStopped, EndQuit, DeleteThread, UiLock,
     UiGoes, Call, Serve, ServeKilled, EndEvents, GiveUp, User, Launch, Astray, Quit,
     UseNullThread, FieldsTimer, Add, Del, DelUnknown, InfoUnknown, InfoNoIndexer, Info,
     InfoOfClosed, CheckNullThread

\* Only openIndex opens an index, and only removeIndex deletes one.
LEMMA IndexStep ==
  ASSUME IInv, [Next]_vars
  PROVE  \/ opened' \subseteq opened /\ index \subseteq index'
         \/ \E t \in Threads : OpenIndex(t)
         \/ EndRemoval
         \/ opened' = {}
         \/ ui' = "lost"
<1>1. ASSUME NEW t \in Threads, Works(t), ~OpenIndex(t)
      PROVE  opened' \subseteq opened /\ index \subseteq index'
  BY <1>1 DEF Works, NewIndexer, BeginStore, EndStore, WantText, Ask, WantFlush, Finish,
     Lock, EndFlush, EndCount, EndClose, diskVars
<1>2. ASSUME NEW t \in Threads, Call(t)
      PROVE  \/ opened' \subseteq opened /\ index \subseteq index'
             \/ opened' = {}
  BY <1>2 DEF Call, Serve, ServeKilled, ProcessEnds, diskVars
<1>3. CASE UiStep
  BY <1>3 DEF UiStep, UiLock, EndInfo, InfoOfClosed, EndFields, FieldsWithoutIndex,
     CheckNullThread, AllStopped, NotStopped, EndQuit, GoesOn, DeleteThread, ProcessEnds,
     diskVars
<1>4. CASE EndEvents \/ GiveUp
  BY <1>4 DEF EndEvents, GiveUp, GoesOn, ProcessEnds, diskVars
<1>5. CASE User
  BY <1>5 DEF User, Launch, Astray, Quit, UseNullThread, FieldsTimer, Add, Del, DelUnknown,
     InfoUnknown, InfoNoIndexer, Info, ProcessEnds, diskVars, uiVars
<1> QED
  BY <1>1, <1>2, <1>3, <1>4, <1>5 DEF Next, vars, diskVars

\* Every step keeps the index directories of open workers.
LEMMA OpenIndexNext ==
  ASSUME IInv, OpenIndexExists, [Next]_vars
  PROVE  OpenIndexExists'
<1>1. \A t \in opened : t \in opened' => dirOf'[t] = dirOf[t]
  BY OpenedStep
<1>2. CASE opened' \subseteq opened /\ index \subseteq index' /\ ui # "lost"
  BY <1>1, <1>2 DEF OpenIndexExists, Idx
<1>3. ASSUME NEW t \in Threads, OpenIndex(t) PROVE OpenIndexExists'
  BY <1>3 DEF OpenIndex, OpenIndexExists, Idx, uiVars, objVars
<1>4. CASE EndRemoval
  <2>1. /\ index \ {Idx(subject)} \subseteq index' /\ opened' = opened \ {subject}
        /\ ui # "lost"
    BY <1>4 DEF EndRemoval, UiGoes
  <2>2. ASSUME NEW t \in opened', OwnIndex(dirOf[t]) PROVE Idx(t) # Idx(subject)
    <3>1. /\ t \in Threads /\ pc[t] # "none" /\ t # subject
          /\ subject \in Threads
          /\ dirOf[t] \in Dirs /\ dirOf[subject] \in Dirs
      BY <1>4, <2>1, <2>2 DEF EndRemoval, UiGoes, IInv, MapInv, TypeOK
    <3>2. dirOf[t] # dirOf[subject]
      BY <1>4, <3>1, ThreadsAssumption DEF EndRemoval, UiGoes, IInv, MapInv
    <3> QED
      BY <2>2, <3>1, <3>2 DEF Idx, OwnIndex
  <2> QED
    BY <1>1, <2>1, <2>2 DEF OpenIndexExists, Idx
<1>5. CASE opened' = {} \/ ui' = "lost"
  BY <1>5 DEF OpenIndexExists
<1> QED
  BY <1>2, <1>3, <1>4, <1>5, IndexStep, LostStep

\* Removing a directory never takes away the index that another thread has open, unless
\* the two directories have the same hash.
THEOREM OpenIndexIsKept == Spec => []OpenIndexExists
<1>1. Init => OpenIndexExists
  BY DEF Init, OpenIndexExists
<1>2. IInv /\ OpenIndexExists /\ [Next]_vars => OpenIndexExists'
  BY OpenIndexNext
<1> QED
  BY <1>1, <1>2, Invariance, PTL DEF Spec

-----------------------------------------------------------------------------
(* The regular end.                                                         *)

\* The cleanup of onQuit ends with its last thread only.
LEMMA CleanupStep ==
  ASSUME IInv, [Next]_vars, ui = "cleanup", ui' # "cleanup"
  PROVE  EndQuit
BY DEF Next, vars, uiVars, Works, NewIndexer, OpenIndex, BeginStore, EndStore,
   WantText, Ask,
     WantFlush, Finish, Lock, EndFlush, EndCount, EndClose, UiStep, EndRemoval, EndInfo, EndFields,
     FieldsWithoutIndex, AllStopped, NotStopped, DeleteThread, UiLock, UiGoes,
     Call, Serve, ServeKilled, EndEvents, GiveUp, User, Launch, Astray, Quit,
     UseNullThread, FieldsTimer, Add, Del, DelUnknown, InfoUnknown, InfoNoIndexer, Info,
     InfoOfClosed, CheckNullThread

\* When it ends, every thread object is gone.
LEMMA EndQuitClosed ==
  ASSUME IInv, EndQuit
  PROVE  opened = {} /\ \A t \in Threads : ~Running(t)
<1>1. \A t \in Threads : pc[t] = "none"
  BY ThreadsAssumption DEF EndQuit, IInv, MapInv, TypeOK
<1> QED
  BY <1>1 DEF IInv, TypeOK, Running

\* An onQuit that comes to its regular end leaves no thread running and no index open,
\* whatever was added meanwhile: the threads closed theirs themselves, or their workers
\* were closed after they had been terminated.
THEOREM QuitLeavesNothingOpen == Spec => QuitClosesIndexes
<1>1. IInv /\ [Next]_vars => [ui = "cleanup" /\ ui' # "cleanup" =>
                                opened = {} /\ \A t \in Threads : ~Running(t)]_vars
  BY CleanupStep, EndQuitClosed
<1> QED
  BY <1>1, Invariance, PTL DEF Spec, QuitClosesIndexes
=============================================================================
