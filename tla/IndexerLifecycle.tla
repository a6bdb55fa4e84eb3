-------------------------- MODULE IndexerLifecycle --------------------------
(***************************************************************************)
(* The UI thread and the indexer threads: the class indexer with its map   *)
(* m_pWorkers, adding and removing a directory, the Info window, the timer *)
(* that reads the field names, quitting, and what each indexerWorker does  *)
(* that others can notice: the locks it takes, its calls to the JVM on the *)
(* UI thread (Qt::BlockingQueuedConnection) and its end.  What a pass does *)
(* to the documents is the subject of IndexPass.                           *)
(*                                                                         *)
(* QThread::terminate is modelled as it works on Windows, where the        *)
(* program is deployed: the thread stops where it is and unlocks nothing.  *)
(***************************************************************************)
EXTENDS Naturals, FiniteSets

CONSTANTS Dirs,         \* directories, numbered in the order of QMap
          Threads,      \* bound: the indexerThread objects there may be at once
          NoThread,     \* no thread; also the owner of a free mutex
          NullThread,   \* the null pointer in m_pWorkers
          UiThread,
          IdxDir,       \* lucy::idxDir4Dir2Index: qHash of each directory
          KillAfter,    \* rounds onQuit waits before it terminates threads (99)
          GiveUpAfter   \* rounds after which it leaves them alone (333)

ASSUME DirsAssumption == Dirs \subseteq Nat /\ Dirs # {}
ASSUME ThreadsAssumption == /\ {NoThread, NullThread, UiThread} \cap Threads = {}
                            /\ NoThread # NullThread /\ NoThread # UiThread
ASSUME PatienceAssumption == /\ KillAfter \in Nat /\ GiveUpAfter \in Nat
                             /\ KillAfter < GiveUpAfter

AnyDir == CHOOSE d \in Dirs : TRUE

\* No other directory has the index directory of d.
OwnIndex(d) == \A e \in Dirs : IdxDir[e] = IdxDir[d] => e = d

VARIABLES
  cfgDirs,   \* DIRS2INDEX in the settings file
  index,     \* the index directories that hold an index
  ui,        \* where the UI thread is; "off" while the program does not run, "lost" if
             \* onQuit has given up on threads and the program goes on
  subject,   \* the thread that removeIndex waits for or Info asks about
  quitting,  \* inside onQuit
  round,     \* its iLoop
  exit,      \* how the program ended last
  workers,   \* m_pWorkers: the thread of each directory
  dirOf,     \* m_sDir2Index of each thread's worker, AnyDir if there is none
  pc,        \* where each thread is, "none" if there is no such object
  stop,      \* the threads whose interruption is requested
  opened,    \* those whose lucyindexer has an IndexModifier (m_pIndexWriter)
  calls,     \* those whose getMetaContents call is in the UI thread's queue
  lock,      \* who holds the mutex getIndexerLock
  store      \* who holds the lock of each Directory (THIS_LOCK)

diskVars   == <<cfgDirs, index>>
uiVars     == <<ui, subject, quitting, round, exit>>
objVars    == <<workers, dirOf>>
lockVars   == <<lock, store>>
vars       == <<diskVars, uiVars, objVars, pc, stop, opened, calls, lockVars>>

IdxDirs == {IdxDir[d] : d \in Dirs}

\* The index directory of t.
Idx(t) == IdxDir[dirOf[t]]

\* QThread::isRunning
Running(t) == pc[t] \notin {"none", "finished", "killed"}

Moves(t, from, to) == /\ ui # "off"
                      /\ pc[t] = from
                      /\ pc' = [pc EXCEPT ![t] = to]

-----------------------------------------------------------------------------
(* An indexer thread                                                        *)

\* openIndex: the lucyindexer is there before its index is open.
NewIndexer(t) == /\ Moves(t, "starting", "opening")
                 /\ UNCHANGED <<diskVars, uiVars, objVars, stop, opened, calls, lockVars>>

\* lucyindexer::open: CLucene creates the index if there is none.
OpenIndex(t) == /\ Moves(t, "opening", "pass")
                /\ store[Idx(t)] = NoThread
                /\ opened' = opened \cup {t}
                /\ index' = index \cup {Idx(t)}
                /\ UNCHANGED <<cfgDirs, uiVars, objVars, stop, calls, lockVars>>

\* An IndexModifier operation of isIndexed, index or the purge.
BeginStoreUnchecked(t) == /\ Moves(t, "pass", "store")  \* mutant: a loop that ignores the flag
                          /\ store[Idx(t)] = NoThread
                          /\ store' = [store EXCEPT ![Idx(t)] = t]
                          /\ UNCHANGED <<diskVars, uiVars, objVars, stop, opened, calls, lock>>

BeginStore(t) == /\ Moves(t, "pass", "store")
                 /\ t \notin stop
                 /\ store[Idx(t)] = NoThread
                 /\ store' = [store EXCEPT ![Idx(t)] = t]
                 /\ UNCHANGED <<diskVars, uiVars, objVars, stop, opened, calls, lock>>

\* Every so many documents lucyindexer::index goes on to flush at once.
EndStore(t) == /\ Moves(t, "store", "pass") \/ Moves(t, "store", "wantFlush")
               /\ store' = [store EXCEPT ![Idx(t)] = NoThread]
               /\ UNCHANGED <<diskVars, uiVars, objVars, stop, opened, calls, lock>>

\* file: the last look at the flag before the text is extracted.
WantText(t) == /\ Moves(t, "pass", "extract")
               /\ t \notin stop
               /\ UNCHANGED <<diskVars, uiVars, objVars, stop, opened, calls, lockVars>>

\* emit getMetaContents: the thread waits until the UI thread has made the call.
Ask(t) == /\ Moves(t, "extract", "ask")
          /\ calls' = calls \cup {t}
          /\ UNCHANGED <<diskVars, uiVars, objVars, stop, opened, lockVars>>

\* onIndexerThreadFinished at the end of a scan.
WantFlush(t) == /\ Moves(t, "pass", "wantFlush")
                /\ t \notin stop
                /\ UNCHANGED <<diskVars, uiVars, objVars, stop, opened, calls, lockVars>>

\* finishIndexing: the log line needs the number of documents once more.
Finish(t) == /\ Moves(t, "pass", "wantCount")
             /\ t \in stop
             /\ UNCHANGED <<diskVars, uiVars, objVars, stop, opened, calls, lockVars>>

\* The mutex first, then the lock of the Directory.
Lock(t) == /\ \/ Moves(t, "wantFlush", "flush")
              \/ Moves(t, "wantLog", "log")
              \/ Moves(t, "wantCount", "count")
           /\ lock = NoThread /\ store[Idx(t)] = NoThread
           /\ lock' = t
           /\ store' = [store EXCEPT ![Idx(t)] = t]
           /\ UNCHANGED <<diskVars, uiVars, objVars, stop, opened, calls>>

\* mutant: an early return leaves the mutex locked
EndFlushLocked(t) == /\ Moves(t, "flush", "pass")
                     /\ store' = [store EXCEPT ![Idx(t)] = NoThread]
                     /\ UNCHANGED <<diskVars, uiVars, objVars, stop, opened, calls, lock>>

\* At the end of a pass the number of documents is asked for the log, without a look at
\* the flag.
EndFlush(t) == /\ \/ Moves(t, "flush", "pass")
                  \/ Moves(t, "flush", "wantLog")
                  \/ Moves(t, "log", "pass")
               /\ lock' = NoThread
               /\ store' = [store EXCEPT ![Idx(t)] = NoThread]
               /\ UNCHANGED <<diskVars, uiVars, objVars, stop, opened, calls>>

\* lucyindexer::close follows, under the lock of the Directory.
EndCount(t) == /\ Moves(t, "count", "closing")
               /\ lock' = NoThread
               /\ UNCHANGED <<diskVars, uiVars, objVars, stop, opened, calls, store>>

\* The thread quits and terminates itself; QThread forgets the request then.
EndClose(t) == /\ Moves(t, "closing", "finished")
               /\ opened' = opened \ {t}
               /\ stop' = stop \ {t}
               /\ store' = [store EXCEPT ![Idx(t)] = NoThread]
               /\ UNCHANGED <<diskVars, uiVars, objVars, calls, lock>>

Works(t) == \/ NewIndexer(t) \/ OpenIndex(t) \/ BeginStore(t) \/ EndStore(t) \/ WantText(t) \/ Ask(t)
            \/ WantFlush(t) \/ Finish(t) \/ Lock(t) \/ EndFlush(t) \/ EndCount(t) \/ EndClose(t)

-----------------------------------------------------------------------------
(* The UI thread.  What the user does is served in onQuit, too: the main    *)
(* window is closed then, but the tray or a second start shows it again.    *)

UiGoes(from, to) == /\ ui = from
                    /\ ui' = to

\* The process is gone and all its threads with it.
ProcessEnds(how) ==
  /\ ui' = "off" /\ exit' = how
  /\ subject' = NoThread /\ quitting' = FALSE /\ round' = 0
  /\ workers' = [d \in Dirs |-> NoThread]
  /\ dirOf' = [t \in Threads |-> AnyDir]
  /\ pc' = [t \in Threads |-> "none"]
  /\ stop' = {} /\ opened' = {} /\ calls' = {}
  /\ lock' = NoThread /\ store' = [x \in IdxDirs |-> NoThread]
  /\ UNCHANGED diskVars

\* indexer::add of each directory in D, all existing and without a thread.
StartThreads(D) ==
  \E new \in [D -> {t \in Threads : pc[t] = "none" /\ t \notin calls}] :
    /\ \A d, e \in D : new[d] = new[e] => d = e
    /\ workers' = [d \in Dirs |-> IF d \in D THEN new[d] ELSE workers[d]]
    /\ dirOf' = [t \in Threads |->
                   IF \E d \in D : new[d] = t THEN CHOOSE d \in D : new[d] = t ELSE dirOf[t]]
    /\ pc' = [t \in Threads |-> IF \E d \in D : new[d] = t THEN "starting" ELSE pc[t]]

\* main: indexer::init adds what the settings name, but not the directories that
\* do not exist at this moment.
Launch == \E D \in SUBSET cfgDirs :
            /\ UiGoes("off", "loop")
            /\ StartThreads(D)
            /\ exit' = "none"
            /\ UNCHANGED <<diskVars, subject, quitting, round, stop, opened, calls, lockVars>>

\* wSettings::on_toolButtonAdd_clicked; the directory may be gone again.
Add(d) == /\ UiGoes("loop", "loop")
          /\ d \notin cfgDirs
          /\ cfgDirs' = cfgDirs \cup {d}
          /\ \/ UNCHANGED <<objVars, pc>>
             \/ workers[d] = NoThread /\ StartThreads({d})
          /\ UNCHANGED <<index, subject, quitting, round, exit, stop, opened, calls, lockVars>>

\* mutant: the index directory is emptied before the thread has ended
DelErasing(d) == /\ ui = "loop"
                 /\ d \in cfgDirs /\ workers[d] \in Threads
                 /\ cfgDirs' = cfgDirs \ {d}
                 /\ index' = index \ {IdxDir[d]}
                 /\ ui' = "removing"
                 /\ subject' = workers[d]
                 /\ workers' = [workers EXCEPT ![d] = NoThread]
                 /\ stop' = stop \cup {t \in {workers[d]} : Running(t)}
                 /\ UNCHANGED <<quitting, round, exit, dirOf, pc, opened, calls, lockVars>>

\* wSettings::on_toolButtonDel_clicked and indexer::removeIndex.
Del(d) == /\ ui = "loop"
          /\ d \in cfgDirs /\ workers[d] \in Threads
          /\ cfgDirs' = cfgDirs \ {d}
          /\ ui' = "removing"
          /\ subject' = workers[d]
          /\ workers' = [workers EXCEPT ![d] = NoThread]
          /\ stop' = stop \cup {t \in {workers[d]} : Running(t)}
          /\ UNCHANGED <<index, quitting, round, exit, dirOf, pc, opened, calls, lockVars>>

\* A directory that has no thread only leaves the settings.
DelUnknown(d) == /\ ui = "loop"
                 /\ d \in cfgDirs /\ workers[d] = NoThread
                 /\ cfgDirs' = cfgDirs \ {d}
                 /\ UNCHANGED <<index, uiVars, objVars, pc, stop, opened, calls, lockVars>>

\* removeIndex or onQuit calls requestInterruption on the null pointer.
UseNullThread == /\ ui = "loop"
                 /\ \E d \in Dirs : workers[d] = NullThread
                 /\ ProcessEnds("nullThread")

\* mutant: removeIndex does not wait for the thread
EndRemovalAtOnce == /\ UiGoes("removing", "loop")
                    /\ index' = index \ {Idx(subject)}
                    /\ subject' = NoThread
                    /\ UNCHANGED <<cfgDirs, quitting, round, exit, objVars, pc, stop, opened, calls, lockVars>>

\* The thread has ended: its objects are deleted and its index directory with them, if
\* no search holds a file of it open.  A worker whose thread onQuit has terminated is
\* closed first, under the lock of its Directory.
EndRemoval == /\ UiGoes("removing", "loop")
              /\ ~Running(subject)
              /\ subject \in opened => store[Idx(subject)] = NoThread
              /\ index' \in {index, index \ {Idx(subject)}}
              /\ dirOf' = [dirOf EXCEPT ![subject] = AnyDir]
              /\ pc' = [pc EXCEPT ![subject] = "none"]
              /\ opened' = opened \ {subject}
              /\ subject' = NoThread
              /\ UNCHANGED <<cfgDirs, quitting, round, exit, workers, stop, calls, lockVars>>

\* getIdxInfo: operator[] of QMap inserts what it does not find.
InfoUnknown(d) == /\ ui = "loop"
                  /\ d \in cfgDirs /\ workers[d] = NoThread
                  /\ workers' = [workers EXCEPT ![d] = NullThread]
                  /\ UNCHANGED <<diskVars, uiVars, dirOf, pc, stop, opened, calls, lockVars>>

\* The worker has no lucyindexer yet or, in onQuit, no longer: fillIdxInfo is called on
\* the null pointer.
InfoNoIndexer(d) == /\ ui = "loop"
                    /\ d \in cfgDirs /\ workers[d] \in Threads \ opened
                    /\ pc[workers[d]] \in {"starting", "finished", "killed"}
                    /\ ProcessEnds("nullIndexer")

\* Before the index is open getNrOfFilesInIndex returns 0 without any lock.
Info(d) == /\ UiGoes("loop", "wantInfo")
           /\ d \in cfgDirs /\ workers[d] \in opened
           /\ subject' = workers[d]
           /\ UNCHANGED <<diskVars, quitting, round, exit, objVars, pc, stop, opened, calls, lockVars>>

\* The timer of wSearch::fillFields, which processEvents of onQuit may serve, too.
FieldsTimer == /\ UiGoes("loop", "wantFields")
               /\ UNCHANGED <<diskVars, subject, quitting, round, exit, objVars, pc, stop, opened, calls, lockVars>>

UiLock == /\ UiGoes("wantInfo", "info") \/ UiGoes("wantFields", "fields")
          /\ lock = NoThread
          /\ lock' = UiThread
          /\ UNCHANGED <<diskVars, subject, quitting, round, exit, objVars, pc, stop, opened, calls, store>>

\* docCount waits for the lock of the Directory.
EndInfo == /\ UiGoes("info", "loop")
           /\ store[Idx(subject)] = NoThread
           /\ lock' = NoThread
           /\ subject' = NoThread
           /\ UNCHANGED <<diskVars, quitting, round, exit, objVars, pc, stop, opened, calls, store>>

\* Meanwhile the thread, interrupted by onQuit, has deleted its lucyindexer.
InfoOfClosed == /\ ui = "info"
                /\ subject \notin opened
                /\ ProcessEnds("nullIndexer")

\* searcher::fields opens the index of every configured directory.
EndFields == /\ UiGoes("fields", "loop")
             /\ \A d \in cfgDirs : IdxDir[d] \in index
             /\ lock' = NoThread
             /\ UNCHANGED <<diskVars, subject, quitting, round, exit, objVars, pc, stop, opened, calls, store>>

\* IndexReader::open throws; nothing catches it.
FieldsWithoutIndex == /\ ui = "fields"
                      /\ \E d \in cfgDirs : IdxDir[d] \notin index
                      /\ ProcessEnds("noIndex")

\* jvm::getMetaContents is run and the thread that waits for it is woken.
Serve(t) == /\ UiGoes("loop", "loop")
            /\ t \in calls /\ pc[t] = "ask"
            /\ pc' = [pc EXCEPT ![t] = "pass"]
            /\ calls' = calls \ {t}
            /\ UNCHANGED <<diskVars, subject, quitting, round, exit, objVars, stop, opened, lockVars>>

\* The semaphore of the call lay on the stack of a thread that was terminated, whose
\* object may be deleted, too: nothing happens or the program crashes.
ServeKilled(t) == /\ ui = "loop"
                  /\ t \in calls /\ pc[t] \in {"killed", "none"}
                  /\ \/ /\ calls' = calls \ {t}
                        /\ UNCHANGED <<diskVars, uiVars, objVars, pc, stop, opened, lockVars>>
                     \/ ProcessEnds("deadCaller")

-----------------------------------------------------------------------------
(* Quitting                                                                 *)

\* onQuit: requestStopAll.  Qt closes no window that is being closed, so that onQuit is
\* not called within itself.
Quit == /\ UiGoes("loop", "check") /\ ~quitting
        /\ \A d \in Dirs : workers[d] # NullThread
        /\ stop' = stop \cup {t \in Threads : Running(t) /\ \E d \in Dirs : workers[d] = t}
        /\ quitting' = TRUE
        /\ UNCHANGED <<diskVars, subject, round, exit, objVars, pc, opened, calls, lockVars>>

\* The directories whose thread isStoppedAll finds running.
StillRunning == {d \in Dirs : workers[d] \in Threads /\ Running(workers[d])}

NullDirs == {d \in Dirs : workers[d] = NullThread}

\* isStoppedAll comes to a null pointer that the Info window has left in the map.
CheckNullThread == /\ ui = "check"
                   /\ \E d \in NullDirs : \A e \in StillRunning : d < e
                   /\ ProcessEnds("nullThread")

\* isStoppedAll(iLoop) is true.
AllStopped == /\ UiGoes("check", "cleanup")
              /\ StillRunning = {} /\ NullDirs = {}
              /\ UNCHANGED <<diskVars, subject, quitting, round, exit, objVars, pc, stop, opened, calls, lockVars>>

\* It is false; after KillAfter rounds it terminates the first thread that runs.
NotStopped == /\ UiGoes("check", "loop")
              /\ \E d \in StillRunning :
                   /\ \A e \in StillRunning \cup NullDirs : d <= e
                   /\ IF round > KillAfter
                      THEN /\ pc' = [pc EXCEPT ![workers[d]] = "killed"]
                           /\ stop' = stop \ {workers[d]}
                      ELSE UNCHANGED <<pc, stop>>
              /\ round' = round + 1
              /\ UNCHANGED <<diskVars, subject, quitting, exit, objVars, opened, calls, lockVars>>

\* processEvents returns when no event is left.
EndEvents == /\ quitting /\ calls = {}
             /\ round <= GiveUpAfter
             /\ UiGoes("loop", "check")
             /\ UNCHANGED <<diskVars, subject, quitting, round, exit, objVars, pc, stop, opened, calls, lockVars>>

\* onQuit returns, m_pWorkers is cleared.  If the main window has been shown again, Qt
\* does not quit.
GoesOn(to) == /\ round > 0
              /\ ui' = to /\ quitting' = FALSE /\ round' = 0
              /\ workers' = [d \in Dirs |-> NoThread]
              /\ UNCHANGED <<diskVars, subject, dirOf, pc, stop, opened, calls, lockVars>>

\* bErrorWhileStopping: the threads are not deleted.
GiveUp == /\ quitting /\ calls = {}
          /\ round > GiveUpAfter
          /\ ui = "loop"
          /\ \/ ProcessEnds("gaveUp")
             \/ GoesOn("lost") /\ exit' = "gaveUp"

\* A program that goes on beside threads it has lost is not followed: it may do anything
\* to the settings and the indexes until it ends.
Astray == /\ ui = "lost"
          /\ \/ /\ cfgDirs' \in SUBSET Dirs
                /\ index' \in SUBSET IdxDirs
                /\ UNCHANGED <<uiVars, objVars, pc, stop, opened, calls, lockVars>>
             \/ ProcessEnds("gaveUp")

\* mutant: m_pWorkers.remove without delete
ForgetThread(d) == /\ UiGoes("cleanup", "cleanup")
                   /\ workers[d] \in Threads
                   /\ workers' = [workers EXCEPT ![d] = NoThread]
                   /\ UNCHANGED <<diskVars, subject, quitting, round, exit, dirOf, pc, stop, opened, calls, lockVars>>

\* mutant: the worker of a thread that was terminated is not closed
DeleteThreadOnly(d) == /\ UiGoes("cleanup", "cleanup")
                       /\ workers[d] \in Threads
                       /\ workers' = [workers EXCEPT ![d] = NoThread]
                       /\ pc' = [pc EXCEPT ![workers[d]] = "none"]
                       /\ UNCHANGED <<diskVars, subject, quitting, round, exit, dirOf, stop, opened, calls, lockVars>>

\* delete of the thread: a worker that was terminated is closed here, if the lock
\* of its Directory is free.
DeleteThread(d) == /\ UiGoes("cleanup", "cleanup")
                   /\ workers[d] \in Threads
                   /\ workers[d] \in opened => store[IdxDir[d]] = NoThread
                   /\ workers' = [workers EXCEPT ![d] = NoThread]
                   /\ dirOf' = [dirOf EXCEPT ![workers[d]] = AnyDir]
                   /\ pc' = [pc EXCEPT ![workers[d]] = "none"]
                   /\ opened' = opened \ {workers[d]}
                   /\ UNCHANGED <<diskVars, subject, quitting, round, exit, stop, calls, lockVars>>

EndQuit == /\ ui = "cleanup"
           /\ \A d \in Dirs : workers[d] = NoThread
           /\ \/ ProcessEnds("done")
              \/ GoesOn("loop") /\ UNCHANGED exit

-----------------------------------------------------------------------------

Init == /\ cfgDirs = {} /\ index = {}
        /\ ui = "off" /\ subject = NoThread /\ quitting = FALSE /\ round = 0 /\ exit = "none"
        /\ workers = [d \in Dirs |-> NoThread]
        /\ dirOf = [t \in Threads |-> AnyDir]
        /\ pc = [t \in Threads |-> "none"]
        /\ stop = {} /\ opened = {} /\ calls = {}
        /\ lock = NoThread /\ store = [x \in IdxDirs |-> NoThread]

\* What the UI thread does by itself once it has begun something.
UiStep == \/ EndRemoval \/ UiLock \/ EndInfo \/ InfoOfClosed \/ EndFields \/ FieldsWithoutIndex
          \/ CheckNullThread \/ AllStopped \/ NotStopped \/ EndQuit
          \/ \E d \in Dirs : DeleteThread(d)

\* What processEvents does before it returns.
Call(t) == Serve(t) \/ ServeKilled(t)

User == \/ Launch \/ Astray \/ Quit \/ UseNullThread \/ FieldsTimer
        \/ \E d \in Dirs : \/ Add(d) \/ Del(d) \/ DelUnknown(d)
                           \/ InfoUnknown(d) \/ InfoNoIndexer(d) \/ Info(d)

Next == \/ \E t \in Threads : Works(t) \/ Call(t)
        \/ UiStep \/ EndEvents \/ GiveUp
        \/ User

Spec == Init /\ [][Next]_vars

\* Threads are scheduled, the event loop runs, a lock that is free again and again
\* is not denied for ever, a call in the queue is made in its turn and the end
\* of processEvents comes, whatever other events there are; the user owes nothing.
FairSpec == /\ Spec
            /\ \A t \in Threads : SF_vars(Works(t)) /\ SF_vars(Call(t))
            /\ SF_vars(UiStep)
            /\ SF_vars(EndEvents \/ GiveUp)
-----------------------------------------------------------------------------
(* Properties                                                               *)

Place == {"none", "starting", "opening", "pass", "store", "extract", "ask", "wantFlush",
          "flush", "wantLog", "log", "wantCount", "count", "closing", "finished", "killed"}

\* Every variable has its type; an open worker belongs to a thread object
\* (indexer, indexerThread, indexerWorker).
TypeOK ==
  /\ cfgDirs \subseteq Dirs /\ index \subseteq IdxDirs
  /\ ui \in {"off", "loop", "removing", "wantInfo", "info", "wantFields", "fields",
             "check", "cleanup", "lost"}
  /\ subject \in Threads \cup {NoThread}
  /\ quitting \in BOOLEAN
  /\ round \in 0..(GiveUpAfter + 1)
  /\ exit \in {"none", "done", "gaveUp", "nullThread", "nullIndexer", "noIndex", "deadCaller"}
  /\ workers \in [Dirs -> Threads \cup {NoThread, NullThread}]
  /\ dirOf \in [Threads -> Dirs]
  /\ pc \in [Threads -> Place]
  /\ stop \subseteq Threads /\ calls \subseteq Threads
  /\ opened \subseteq {t \in Threads : pc[t] # "none"}
  /\ lock \in Threads \cup {NoThread, UiThread}
  /\ store \in [IdxDirs -> Threads \cup {NoThread}]

\* No running thread gets lost, be it added while onQuit waits: it is the one m_pWorkers
\* has for its directory, where onQuit finds it, or the one removeIndex waits for, until
\* onQuit gives up on the threads.
ThreadsAreKept ==
  ui # "lost" =>
    \A t \in Threads : Running(t) => \/ workers[dirOf[t]] = t
                                     \/ ui = "removing" /\ subject = t

\* lucyindexer.cpp:21 "you cannot create more than one IndexModifier object on the
\* same directory at the same time", if no two directories share an index and the
\* program does not go on beside threads that onQuit has given up on.
OneModifierPerIndex ==
  ui # "lost" => \A t, u \in opened : Idx(t) = Idx(u) /\ OwnIndex(dirOf[t]) => t = u

\* No thread works on an index that removeIndex has deleted from the disk, if it is not
\* the index of another directory, too, and the program does not go on beside threads
\* that onQuit has given up on.
OpenIndexExists ==
  ui # "lost" => \A t \in opened : OwnIndex(dirOf[t]) => Idx(t) \in index

\* When onQuit comes to its regular end, no thread runs and no index is left open, even
\* of a directory added after requestStopAll: each thread closed its own, or it was
\* terminated and its worker closed by indexer::onQuit.
QuitClosesIndexes ==
  [][ ui = "cleanup" /\ ui' # "cleanup" =>
        opened = {} /\ \A t \in Threads : ~Running(t) ]_vars

\* A terminated thread holds a lock, for ever.
Abandoned == \E t \in Threads : /\ pc[t] = "killed"
                                /\ lock = t \/ \E x \in IdxDirs : store[x] = t

\* removeIndex returns unless the thread it waits for is itself waiting for the UI
\* thread to extract a file, or a thread that onQuit terminated has left a lock.
RemovalEndsUnlessAsked ==
  ui = "removing" ~> \/ ui # "removing"
                     \/ subject \in Threads /\ pc[subject] = "ask"
                     \/ Abandoned

\* Threads that are not asked to stop: the user added them after requestStopAll.
Unasked == {t \in Threads : Running(t) /\ t \notin stop}

\* onQuit comes to an end, whatever the user does meanwhile and whatever it terminates,
\* unless it removes a directory and hangs there, a terminated thread has left a lock, or
\* the calls of several threads added meanwhile keep processEvents busy.
QuitEnds == quitting ~> \/ ~quitting
                        \/ ui = "removing" /\ pc[subject] = "ask"
                        \/ Abandoned
                        \/ Cardinality(Unasked) > 1

\* removeIndex always returns.  indexerworker.cpp:21 says BlockingQueuedConnection
\* "works only if target is in another thread", as it is here.
RemovalEnds == ui = "removing" ~> ui # "removing"

=============================================================================
