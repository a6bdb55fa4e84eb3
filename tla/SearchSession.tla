--------------------------- MODULE SearchSession ---------------------------
(***************************************************************************)
(* The search window beside the indexer: the readers and hits of the last  *)
(* search, the timer that reads the field names, the settings that close   *)
(* the readers before an index is deleted, and what the window shares with *)
(* the indexer threads: the FSDirectory objects that CLucene keeps in one  *)
(* table for the whole process (DIRECTORIES), and the file write.lock.     *)
(*                                                                         *)
(* An indexer thread is reduced to opening, committing, locking and        *)
(* closing its index; IndexerLifecycle has the rest of it.  An index is    *)
(* its number of commits: a reader sees the commit it was opened at.       *)
(***************************************************************************)
EXTENDS Naturals, FiniteSets

CONSTANTS Dirs,       \* directories
          Objects,    \* bound: FSDirectory objects there may be at once
          NoObject,   \* the null pointer
          NoDir,      \* no directory
          NoHits,     \* m_hits is null
          MaxCommit,  \* bound: commits of an index
          MaxRefs     \* bound: FSDirectory::refCount

ASSUME NamesAssumption == /\ NoObject \notin Objects
                          /\ NoDir \notin Dirs
ASSUME BoundAssumption == MaxCommit \in Nat \ {0} /\ MaxRefs \in Nat \ {0}
ASSUME NoHitsAssumption == \A D \in SUBSET Dirs : NoHits \notin [D -> 0..MaxCommit]

VARIABLES
  cfgDirs,    \* DIRS2INDEX in the settings file
  commits,    \* the commits of each index, 0 if the directory has none
  lockFile,   \* the indexes with a file write.lock
  ui,         \* where the UI thread is, "off" while the program does not run
  subject,    \* the directory removeIndex or fields is about
  unread,     \* the directories fields has not come to
  quitting,   \* inside onQuit
  exit,       \* how the program ended last
  worker,     \* the thread of each directory
  stop,       \* the directories whose thread is asked to stop
  holds,      \* those whose IndexModifier has obtained write.lock
  table,      \* DIRECTORIES: the object for each directory's index
  refCount,   \* of each object
  alive,      \* the objects that have not been deleted
  workerDir,  \* m_pDirectory of each worker
  fieldsDir,  \* the Directory of the reader fields has open
  readers,    \* the readers of the last search: their Directory and commit
  hits        \* m_hits: the commit of each index they were found in

diskVars   == <<cfgDirs, commits, lockFile>>
uiVars     == <<ui, subject, unread, quitting, exit>>
threadVars == <<worker, stop, holds>>
dirVars    == <<table, refCount, alive>>
useVars    == <<workerDir, fieldsDir>>
searchVars == <<readers, hits>>
vars       == <<diskVars, uiVars, threadVars, dirVars, useVars, searchVars>>

Known == {d \in Dirs : worker[d] # "none"}   \* the keys of m_pWorkers

NoReaders == [d \in {} |-> NoObject]

-----------------------------------------------------------------------------
(* FSDirectory                                                              *)

\* An address that nobody remembers.
Fresh == {o \in Objects \ alive : /\ \A d \in Dirs : table[d] # o /\ workerDir[d] # o
                                  /\ \A d \in DOMAIN readers : readers[d].dir # o
                                  /\ fieldsDir # o}

\* mutant: getDirectory does not count who asks for an object in the table
GetDirectoriesUncounted(D, got) ==
  /\ \A d \in D : IF table[d] = NoObject THEN got[d] \in Fresh ELSE got[d] = table[d]
  /\ \A d, e \in D : got[d] = got[e] => d = e
  /\ table' = [d \in Dirs |-> IF d \in D THEN got[d] ELSE table[d]]
  /\ alive' = alive \cup {got[d] : d \in {e \in D : table[e] = NoObject}}
  /\ refCount' = [o \in Objects |-> IF \E d \in D : got[d] = o THEN 1 ELSE refCount[o]]

\* FSDirectory::getDirectory for the index of every directory in D: got[d] is the
\* object in the table, or a new one that is entered there.
GetDirectories(D, got) ==
  /\ \A d \in D : IF table[d] = NoObject THEN got[d] \in Fresh ELSE got[d] = table[d]
  /\ \A d, e \in D : got[d] = got[e] => d = e
  /\ \A d \in D : refCount[got[d]] < MaxRefs
  /\ table' = [d \in Dirs |-> IF d \in D THEN got[d] ELSE table[d]]
  /\ alive' = alive \cup {got[d] : d \in {e \in D : table[e] = NoObject}}
  /\ refCount' = [o \in Objects |->
                    IF \E d \in D : got[d] = o
                    THEN IF o \in {table[d] : d \in D} THEN refCount[o] + 1 ELSE 1
                    ELSE refCount[o]]

\* FSDirectory::close of the object of d: the last one takes it out of the table.
CloseDirectory(d, o) ==
  /\ refCount' = [refCount EXCEPT ![o] = IF @ > 0 THEN @ - 1 ELSE 0]
  /\ table' = IF refCount[o] <= 1 THEN [table EXCEPT ![d] = NoObject] ELSE table

-----------------------------------------------------------------------------
(* An indexer thread                                                        *)

\* mutant: lucy::open leaves a lock file where it is
OpenUnlocked(d) ==
  /\ ui # "off"
  /\ worker[d] = "starting"
  /\ \E o \in Objects : /\ GetDirectories({d}, [e \in {d} |-> o])
                        /\ workerDir' = [workerDir EXCEPT ![d] = o]
  /\ worker' = [worker EXCEPT ![d] = "open"]
  /\ commits' = [commits EXCEPT ![d] = IF @ = 0 THEN 1 ELSE @]
  /\ lockFile' = lockFile \cup {d}
  /\ holds' = IF d \in lockFile THEN holds ELSE holds \cup {d}
  /\ UNCHANGED <<cfgDirs, uiVars, stop, fieldsDir, searchVars>>

\* lucyindexer::open: lucy::open removes write.lock, the new IndexWriter makes it again
\* and, if there is none, an empty index.
Open(d) ==
  /\ ui # "off"
  /\ worker[d] = "starting"
  /\ \E o \in Objects : /\ GetDirectories({d}, [e \in {d} |-> o])
                        /\ workerDir' = [workerDir EXCEPT ![d] = o]
  /\ worker' = [worker EXCEPT ![d] = "open"]
  /\ commits' = [commits EXCEPT ![d] = IF @ = 0 THEN 1 ELSE @]
  /\ lockFile' = lockFile \cup {d}
  /\ holds' = holds \cup {d}
  /\ UNCHANGED <<cfgDirs, uiVars, stop, fieldsDir, searchVars>>

\* createIndexReader, or a flush by the reader: the lock is released after a commit.
Release(d) ==
  /\ ui # "off"
  /\ worker[d] = "open" /\ d \in holds
  /\ \E n \in {commits[d], commits[d] + 1} :
       /\ n <= MaxCommit
       /\ commits' = [commits EXCEPT ![d] = n]
  /\ lockFile' = lockFile \ {d}
  /\ holds' = holds \ {d}
  /\ UNCHANGED <<cfgDirs, uiVars, worker, stop, dirVars, useVars, searchVars>>

\* createIndexWriter, or the first deletion by a reader: FSLock::obtain makes the file.
Obtain(d) ==
  /\ ui # "off"
  /\ worker[d] = "open" /\ d \notin holds
  /\ d \notin lockFile
  /\ lockFile' = lockFile \cup {d}
  /\ holds' = holds \cup {d}
  /\ UNCHANGED <<cfgDirs, commits, uiVars, worker, stop, dirVars, useVars, searchVars>>

\* finishIndexing: lucyindexer::close and lucy::close, which calls FSDirectory::close
\* and then deletes the object, whoever else may use it.
Close(d) ==
  /\ ui # "off"
  /\ worker[d] = "open" /\ d \in stop
  /\ worker' = [worker EXCEPT ![d] = "closed"]
  /\ \E n \in {commits[d], commits[d] + 1} :
       /\ n <= MaxCommit
       /\ commits' = [commits EXCEPT ![d] = n]
  /\ lockFile' = IF d \in holds THEN lockFile \ {d} ELSE lockFile
  /\ holds' = holds \ {d}
  /\ CloseDirectory(d, workerDir[d])
  /\ alive' = alive \ {workerDir[d]}
  /\ workerDir' = [workerDir EXCEPT ![d] = NoObject]
  /\ UNCHANGED <<cfgDirs, uiVars, stop, fieldsDir, searchVars>>

-----------------------------------------------------------------------------
(* The UI thread                                                            *)

\* The process ends: its memory is gone, its files stay as they are.
ProcessEnds(how) ==
  /\ ui' = "off" /\ exit' = how
  /\ subject' = NoDir /\ unread' = {} /\ quitting' = FALSE
  /\ worker' = [d \in Dirs |-> "none"] /\ stop' = {} /\ holds' = {}
  /\ table' = [d \in Dirs |-> NoObject] /\ refCount' = [o \in Objects |-> 0] /\ alive' = {}
  /\ workerDir' = [d \in Dirs |-> NoObject] /\ fieldsDir' = NoObject
  /\ readers' = NoReaders /\ hits' = NoHits
  /\ UNCHANGED diskVars

Idle == ui = "loop" /\ ~quitting

\* main: indexer::init, for the directories that exist at this moment.
Launch == /\ ui = "off"
          /\ ui' = "loop" /\ exit' = "none"
          /\ \E D \in SUBSET cfgDirs :
               worker' = [d \in Dirs |-> IF d \in D THEN "starting" ELSE "none"]
          /\ UNCHANGED <<diskVars, subject, unread, quitting, stop, holds, dirVars, useVars, searchVars>>

\* mutant: the hits outlive their readers
CleanupReaders == readers' = NoReaders /\ UNCHANGED hits

\* searcher::cleanup: closes the readers; as setDirectory(nullptr) comes before close, the
\* references to their Directory objects are not given back.
Cleanup == readers' = NoReaders /\ hits' = NoHits

\* on_commandLinkButtonClear_clicked: wsearchresultModel::reset.
Clear == /\ Idle
         /\ Cleanup
         /\ UNCHANGED <<diskVars, uiVars, threadVars, dirVars, useVars>>

\* wSettings::on_toolButtonAdd_clicked: OnCfgChanged resets the results, then indexer::add
\* starts a thread, if the directory exists.
Add(d) == /\ Idle
          /\ d \notin cfgDirs /\ worker[d] = "none"
          /\ cfgDirs' = cfgDirs \cup {d}
          /\ Cleanup
          /\ worker' \in {worker, [worker EXCEPT ![d] = "starting"]}
          /\ UNCHANGED <<commits, lockFile, uiVars, stop, holds, dirVars, useVars>>

\* mutant: the results are not reset
DelKeepingHits(d) == /\ Idle
                     /\ d \in cfgDirs
                     /\ cfgDirs' = cfgDirs \ {d}
                     /\ IF worker[d] = "none"
                        THEN UNCHANGED <<ui, subject, stop>>
                        ELSE ui' = "removing" /\ subject' = d /\ stop' = stop \cup {d}
                     /\ UNCHANGED <<commits, lockFile, unread, quitting, exit, worker, holds, dirVars,
                                    useVars, searchVars>>

\* wSettings::on_toolButtonDel_clicked: the same reset, then removeIndex.
Del(d) == /\ Idle
          /\ d \in cfgDirs
          /\ cfgDirs' = cfgDirs \ {d}
          /\ Cleanup
          /\ IF worker[d] = "none"
             THEN UNCHANGED <<ui, subject, stop>>
             ELSE ui' = "removing" /\ subject' = d /\ stop' = stop \cup {d}
          /\ UNCHANGED <<commits, lockFile, unread, quitting, exit, worker, holds, dirVars, useVars>>

\* removeIndex goes on when the thread has ended.  Windows deletes no file that a reader
\* holds open.
EndRemoval == /\ ui = "removing" /\ worker[subject] = "closed"
              /\ ui' = "loop" /\ subject' = NoDir
              /\ worker' = [worker EXCEPT ![subject] = "none"]
              /\ stop' = stop \ {subject}
              /\ IF subject \in DOMAIN readers
                 THEN UNCHANGED <<commits, lockFile>>
                 ELSE /\ commits' = [commits EXCEPT ![subject] = 0]
                      /\ lockFile' = lockFile \ {subject}
              /\ UNCHANGED <<cfgDirs, unread, quitting, exit, holds, dirVars, useVars, searchVars>>

\* mutant: an index that is not there is searched as an empty one
SearchAnyway ==
  /\ Idle
  /\ \E got \in [Known -> Objects] :
       /\ GetDirectories(Known, got)
       /\ readers' = [d \in Known |-> [dir |-> got[d], at |-> commits[d]]]
  /\ lockFile' = lockFile \ Known
  /\ hits' = [d \in Known |-> commits[d]]
  /\ UNCHANGED <<cfgDirs, commits, uiVars, threadVars, useVars>>

\* searcher::search: cleanup, then lucysearcher::open for every key of m_pWorkers, which
\* removes write.lock, too.
Search ==
  /\ Idle
  /\ \A d \in Known : commits[d] > 0
  /\ \E got \in [Known -> Objects] :
       /\ GetDirectories(Known, got)
       /\ readers' = [d \in Known |-> [dir |-> got[d], at |-> commits[d]]]
  /\ lockFile' = lockFile \ Known
  /\ hits' = [d \in Known |-> commits[d]]
  /\ UNCHANGED <<cfgDirs, commits, uiVars, threadVars, useVars>>

\* IndexSearcher throws where there is no index, QueryParser when it cannot parse the
\* query; nobody catches it.
SearchThrows == /\ Idle
                /\ \E how \in {"noIndex", "syntax"} :
                     /\ how = "noIndex" => \E d \in Known : commits[d] = 0
                     /\ ProcessEnds(how)

\* mutant: the index is opened again to sort
SortAfresh == /\ Idle /\ hits # NoHits
              /\ hits' = [d \in DOMAIN readers |-> commits[d]]
              /\ UNCHANGED <<diskVars, uiVars, threadVars, dirVars, useVars, readers>>

\* searcher::sortBy searches the same readers again.
Sort == /\ Idle /\ hits # NoHits
        /\ hits' = [d \in DOMAIN readers |-> readers[d].at]
        /\ UNCHANGED <<diskVars, uiVars, threadVars, dirVars, useVars, readers>>

\* The timer of wSearch::fillFields; processEvents of onQuit serves it, too.
FieldsTimer == /\ ui = "loop"
               /\ ui' = "fields" /\ unread' = cfgDirs
               /\ UNCHANGED <<diskVars, subject, quitting, exit, threadVars, dirVars, useVars, searchVars>>

\* searcher::fields: IndexReader::open(path) of the next directory.
FieldsOpen(d) ==
  /\ ui = "fields" /\ fieldsDir = NoObject
  /\ d \in unread /\ commits[d] > 0
  /\ \E o \in Objects : /\ GetDirectories({d}, [e \in {d} |-> o])
                        /\ fieldsDir' = o
  /\ subject' = d
  /\ unread' = unread \ {d}
  /\ UNCHANGED <<diskVars, ui, quitting, exit, threadVars, workerDir, searchVars>>

FieldsThrows == /\ ui = "fields" /\ fieldsDir = NoObject
                /\ \E d \in unread : commits[d] = 0
                /\ ProcessEnds("noIndex")

\* reader->close() with closeDirectoryOnCleanup: the last reference deletes the object.
FieldsClose ==
  /\ ui = "fields" /\ fieldsDir # NoObject
  /\ CloseDirectory(subject, fieldsDir)
  /\ alive' = IF refCount[fieldsDir] <= 1 THEN alive \ {fieldsDir} ELSE alive
  /\ fieldsDir' = NoObject /\ subject' = NoDir
  /\ UNCHANGED <<diskVars, ui, unread, quitting, exit, threadVars, workerDir, searchVars>>

FieldsEnd == /\ ui = "fields" /\ fieldsDir = NoObject /\ unread = {}
             /\ ui' = "loop"
             /\ UNCHANGED <<diskVars, subject, unread, quitting, exit, threadVars, dirVars, useVars, searchVars>>

Quit == /\ Idle
        /\ quitting' = TRUE
        /\ stop' = Known
        /\ UNCHANGED <<diskVars, ui, subject, unread, exit, worker, holds, dirVars, useVars, searchVars>>

EndQuit == /\ ui = "loop" /\ quitting
           /\ \A d \in Known : worker[d] = "closed"
           /\ ProcessEnds("done")

\* What a thread, a search or fields does with an object that was deleted is undefined:
\* the other actions go on as if it were there, or the program ends.
UsesDeleted == \/ \E d \in Known : worker[d] = "starting" /\ table[d] \in Objects \ alive
               \/ \E d \in DOMAIN readers : readers[d].dir \notin alive
               \/ fieldsDir \in Objects \ alive
               \/ \E d \in unread : table[d] \in Objects \ alive
               \/ \E d \in Dirs : workerDir[d] \in Objects \ alive

Crash == /\ ui # "off"
         /\ \/ ProcessEnds("killed")
            \/ UsesDeleted /\ ProcessEnds("deletedDirectory")

-----------------------------------------------------------------------------

Init == /\ cfgDirs = {} /\ commits = [d \in Dirs |-> 0] /\ lockFile = {}
        /\ ui = "off" /\ subject = NoDir /\ unread = {} /\ quitting = FALSE /\ exit = "none"
        /\ worker = [d \in Dirs |-> "none"] /\ stop = {} /\ holds = {}
        /\ table = [d \in Dirs |-> NoObject] /\ refCount = [o \in Objects |-> 0] /\ alive = {}
        /\ workerDir = [d \in Dirs |-> NoObject] /\ fieldsDir = NoObject
        /\ readers = NoReaders /\ hits = NoHits

Thread(d) == Open(d) \/ Release(d) \/ Obtain(d) \/ Close(d)

Window == \/ Launch \/ Clear \/ EndRemoval \/ Search \/ SearchThrows \/ Sort
          \/ FieldsTimer \/ FieldsThrows \/ FieldsClose \/ FieldsEnd
          \/ Quit \/ EndQuit \/ Crash
          \/ \E d \in Dirs : Add(d) \/ Del(d) \/ FieldsOpen(d)

Next == Window \/ \E d \in Dirs : Thread(d)

Spec == Init /\ [][Next]_vars
-----------------------------------------------------------------------------
(* Properties                                                               *)

Reader == [dir : Objects, at : 1..MaxCommit]

\* Every variable has its type (searcher, indexer, FSDirectory).
TypeOK ==
  /\ cfgDirs \subseteq Dirs /\ commits \in [Dirs -> 0..MaxCommit] /\ lockFile \subseteq Dirs
  /\ ui \in {"off", "loop", "removing", "fields"}
  /\ subject \in Dirs \cup {NoDir} /\ unread \subseteq Dirs /\ quitting \in BOOLEAN
  /\ exit \in {"none", "done", "killed", "noIndex", "syntax", "deletedDirectory"}
  /\ worker \in [Dirs -> {"none", "starting", "open", "closed"}]
  /\ stop \subseteq Dirs /\ holds \subseteq Dirs
  /\ table \in [Dirs -> Objects \cup {NoObject}]
  /\ refCount \in [Objects -> 0..MaxRefs]
  /\ alive \subseteq Objects
  /\ workerDir \in [Dirs -> Objects \cup {NoObject}]
  /\ fieldsDir \in Objects \cup {NoObject}
  /\ \E D \in SUBSET Dirs : readers \in [D -> Reader]
  /\ hits # NoHits => \E D \in SUBSET Dirs : hits \in [D -> 1..MaxCommit]

\* The rows of the result list belong to the readers that are open, and to the commit
\* each of them was opened at, also after sorting and however far the index has moved on
\* (Hits reads its documents from the readers when a row is painted).
HitsAreOfReaders ==
  hits # NoHits => hits = [d \in DOMAIN readers |-> readers[d].at]

\* removeIndex always gets rid of the index: the readers of the last search are closed by
\* the signal cfgChanged before (wsettings.cpp:69), or Windows would keep their files.
RemovalErases ==
  [][ ui = "removing" /\ ui' = "loop" => commits'[subject] = 0 ]_vars

\* A write.lock that a killed process left behind never keeps an indexer thread from its
\* index (lucy.cpp:68 "file is there if app crashed").
LockFileIsOwn == \A d \in Dirs : worker[d] = "open" /\ d \in lockFile => d \in holds

\* When the Directory object of an index is deleted, no indexer thread is using it: the
\* field names come and go without disturbing it.
WorkersKeepDirectory ==
  [][ \A o \in alive \ alive' : \A d \in Dirs : workerDir'[d] # o ]_vars

=============================================================================
