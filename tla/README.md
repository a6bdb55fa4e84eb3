# qDesktopSearch: a TLA+ model

qDesktopSearch is a Qt 5 desktop program that indexes directories of the local
machine with CLucene (a C++ Lucene), extracts text with Apache Tika in an
embedded JVM, and searches what it has indexed. The modules here model its core,
TLC checks them on small instances, and TLAPS proves the most important
properties for every size.

The program's own code is about 5,700 lines, headers included, of the 250,000 of
the repository; `clucene/`, `clucene-contrib-lib/`, `boost/`, `zlib/`, `java/` and
`qt-solutions/` are vendored. The modules cover the program's own code and the
parts of the vendored code its correctness rests on: how CLucene commits and finds
an index, and how `QtLocalPeer` keeps a second instance away.

## 1. Inventory

| Component | State | Operations | Interacts with |
|---|---|---|---|
| Index pass: `indexer/indexerworker.cpp`, `lucy/lucyindexer.cpp`, `lucy/qindexmodifier.cpp` | the index of one directory, `m_bNewIndex`, `m_bDocDeletionCalled`, the file in hand | `doWork`: open, scan, look up, extract, replace, flush, purge, sleep, end | file system; CLucene's `IndexModifier`; UI thread through `getMetaContents` |
| Indexer and threads: `indexer/indexer.cpp`, `indexer/indexerthread.cpp` | `m_pWorkers`, one `QThread` per directory | `init`, `add`, `removeIndex`, `getIdxInfo`, `onQuit` | settings window (slots), workers (interruption flag, `isRunning`, `terminate`), one mutex for all indexes |
| Settings window: `wsettings.cpp`, `wsettings/` | the entry `DIRS2INDEX` | Add, Del, Info | indexer, configuration |
| JVM: `indexer/jvm.cpp` | the JVM, its local references | `getMetaContents` | called by workers, run on the UI thread (`BlockingQueuedConnection`) |
| Search: `searcher/`, `lucy/lucysearcher.cpp`, `wsearch.cpp`, `wsearch/` | open readers, the hits, the table model | search, sort, reset, field names by a timer | the map `m_pWorkers`; the index directories; `cfgChanged` |
| Configuration: `cfg.cpp` | `QSettings` | get, set with signal `cfgChanged` | all windows |
| Start, single instance: `main.cpp`, `QtLocalPeer` | lock file, local socket | start, hand over, activate | windows |
| Log: `logger.cpp`, `emitter.cpp`, `logwnd.cpp` | queue of lines | log from any thread | log window (queued signal) |
| Text analysis: `lucy/Q*Tokenizer.cpp`, `lucy/Q*Analyzer.cpp` | a character buffer | next token | CLucene |
| Helpers: `util/`, `indexer/idxinfo.cpp` | none | paths, sizes, emptying a directory | all |
| Main window, tray, delegates | display | show, hide, quit | the single instance brings the window back |
| Commits: CLucene's `SegmentInfos`, `IndexFileDeleter`, `IndexWriter`, `FSDirectory` | the files of an index, the `SegmentInfos` in memory | flush, merge, delete, commit, find, remove files | the index pass writes, searches read, the process ends |

What is hard in this program:

* **Interleaving.** Each directory has a thread; the UI thread adds, removes and
  asks about directories while the threads run, and each thread makes blocking
  calls back to the UI thread.
* **A file system that moves.** A file is looked at, looked up, read, deleted and
  added to the index in separate steps; it may change or vanish between any two.
* **Crashes.** CLucene commits when a writer or reader is closed. What a pass had
  done since the last commit is lost when the process dies. A commit itself is a
  dozen steps on the file system, and the process may end between any two.
* **Readers beside the writer.** A search finds a commit by listing files, opens them
  one by one, and the writer replaces and removes them meanwhile.
* **Shared objects.** CLucene keeps one `FSDirectory` for a path; a search, the field
  names and the thread use it, and the first of them to close its `lucy` deletes it.
* **Two processes.** A second start of the program hands over to the first, which may
  be starting, busy, ending or dead.
* **Reader and writer take turns.** `IndexModifier` deletes through a reader and
  adds through a writer, and each switch commits; a merge drops deleted documents
  and renumbers the others.
* **Patience with a limit.** Quitting waits, then terminates threads, then gives up.

What makes each part correct: a search sees each file once, in a state it really
had, and again in its last state after a while; a document is not lost while its
file stays as it is; an index is opened by one thread at a time and not deleted
under it; adding, removing and quitting come to an end; the windows never use what
is gone. `PROJECT.json` lists the hazards at their lines.

## 2. Modules

| Module | Subject | Composition | State |
|---|---|---|---|
| `FileCatalog` | abstract: what an index promises | | done |
| `IndexPass` | one thread on its index | implements `FileCatalog` | checked, proved |
| `IndexerLifecycle` | UI thread, threads, map, locks, quitting | abstracts `IndexPass` to its locks, calls and end | checked, proved |
| `SearchSession` | search window, settings, indexer threads, their `FSDirectory` objects and `write.lock` | abstracts the threads of `IndexerLifecycle` to opening and closing, and an index to its number of commits | checked, proved |
| `CommittedIndex` | abstract: what a commit promises to searches | | done |
| `IndexCommit` | the files of an index: writer, deleter, searches, restarts | implements `CommittedIndex`; a commit here is one assignment of `savedDocs` in `IndexPass` | checked, proved |
| `SingleInstance` | starts of the program, lock file, local socket, hand-over | what `IndexerLifecycle` and `IndexCommit` assume: one process | checked, proved |

Each component has its `MC` module for TLC and its `Proofs` module for TLAPS (`IndexCommit`
has three: `IndexCommitProofs`, `IndexRestProofs`, `IndexSearchProofs`). What
was planned and is not written: the JNI references of `getMetaContents`, the log's
queue, the tokenizers and the helpers; section 10 says why.

## 3. `IndexPass`

One `indexerWorker` with its `lucyindexer`, the files of its directory, and the
index it writes.

| Model | Code |
|---|---|
| `file`, `last` | the file system; a file's state is the number of its version |
| `pc`, `todo`, `cur` | where `doWork` is, what `QDirIterator` still has to return, the arguments of `file()` |
| `stop`, `removing` | the interruption flag; whose thread the UI thread waits for in `removeIndex` |
| `unseen`, `victims` | the loop of `delDeletedFilesFromIdx` and `docs2BeDeleted` |
| `newIndex`, `deletionCalled` | `m_bNewIndex`, `m_bDocDeletionCalled` |
| `mode` | which of `IndexModifier::indexWriter` and `indexReader` is open |
| `docs`, `deleted` | what the open writer or reader holds, and which of it is deleted |
| `savedDocs`, `savedDeleted`, `created` | the last commit; `segments.gen` exists |

A document has two versions: the one its modification date was taken from
(`stat`) and the one its text was read from (`text`, 0 for none). `Hash` and
`Date` are parameters, since the code identifies a file by `qHash` of its path
and by that with the date in seconds. The code assumes that "qHash does not create
duplicates" (`lucyindexer.cpp:51`); the model does not. The properties that depend on it
speak of a file whose hash no other has (`Unique`) or of a version that is alone in its
second (`OwnSecond`), and hold for it whichever other files and versions collide.

The operators of the index follow the code: `ReaderDelete` closes the writer,
which commits it; `AddDocument` closes the reader, which commits its deletions;
`Flush` commits with the reader if a deletion was flagged and then closes and
opens again whatever is open. Closing a writer that has buffered documents may
merge, several times at once, and a merge drops the deleted documents of its segments: the
model drops any of the deleted ones. A writer that reaches its limit of memory
commits at an addition, and merges (`AddAndCommit`); the model lets it happen at any
addition. The flush after every so many documents (`FlushMany`) may follow any addition, too.

The text of a file comes from the UI thread: `Ask` queues the blocking call, and the
thread waits until the UI thread answers (`Answer`), which it does not while it sleeps in
`removeIndex`: for this thread (`BeginRemoval`, `Erase`) or for another directory's
(`RemoveOther`). The constant `Removals` says which of the two an instance has.

Each commit unlinks `segments.gen` before it writes it again, and `lucyindexer::open`
creates the index anew where the file is missing. So the process may die with a whole
commit on the disk that the next `Open` throws away (finding 3): `CrashInCommit`, at every
step that commits something (`Commits`) and at an addition that fills the buffer. `Crash`
is the end anywhere else. `CurrentDocStays` says that nothing else takes the document of an
unchanged file: it speaks of all steps of a thread and its process, and of those between two
threads at which `segments.gen` is there before and after, so it excepts `Erase`, and
`Open` where the file is missing.

`DocCount` is the code's: all stored documents while a writer is open, live ones
while a reader is. The purge's loop over document numbers below it is `unseen`,
with the rank of a document among the stored ones as its number.

Left out: paths that contain `/idx/` (never indexed); the counters shown in the
log; exceptions of CLucene; `CleanUp`, which deletes Tika's temporary files;
numbers 0 to 9 of the flush counter; an erasure that fails or succeeds in part; a thread that
`onQuit` terminates and the program goes on without. That nobody has the index open at
`Erase` is established by `IndexerLifecycle`.

**`FileCatalog`** says what a search may rely on: a set of entries, at most one
per file, each describing something the file really was; an entry may go only when
its file has moved on or is gone, when the whole directory is taken out, or when its
file is one of those that may be `Confused` with another. `IndexPass` implements it with
the live committed documents as the entries and the files that share a hash as `Confused`.
The whole directory may be taken out at any time there, so the refinement says nothing
against the loss of finding 3; `CurrentDocStays` does.

### Runs

| Run | Instance | Shows |
|---|---|---|
| `pass_safety` | 2 files, 2 versions, 4 document numbers, second flush after more than 1 deletion, the index may be removed; 1,302,663 states | the safety properties and the refinement |
| `pass_liveness` | 1 file, 3 versions, second flush after any deletion, this index and others may be removed; 28,000 states | the file becomes searchable; an interruption ends the thread, but for finding 2 |
| `pass_collisions` | 3 files, two of them with the same hash, 2 versions, 2 document numbers, no removals; 4,267,808 states up to the exchange of the two | each of the two deletes the other's documents, but neither gets two of its own and the third file loses none; only here the purge's second loop finds a document the first one left (`FlushIds`) |
| `purge_misses` | 2 files, 1 version | `DeletedFilesLeave` fails: finding 1 |

Bounds. Two files are needed for one file's documents to be in the way of the
other's (numbers, merges, the purge); two versions for an old document to be
replaced; a third version, for liveness, lets a file change while the pass is
replacing it, after it had been replaced once. Four document numbers let a
file have a live and a deleted document for each version; an addition that would
need a higher number does not happen in the instance. In the liveness run the
numbers never run out, or `EveryFileSearchable` would fail. `FlushOver` stands for
999 deletions: 0 and 1 make both branches happen.

Fairness: weak fairness of the thread's own steps together (`Worker`), because the
operating system schedules it, and strong fairness of `UIThread`: the call in its queue is
made in its turn if the UI thread serves events again and again, not while it is in
`removeIndex`. Nothing is assumed of the user, of the file system or of crashes, nor that a
removal ends. `EveryFileSearchable` therefore speaks of behaviours in which the thread runs
for ever from some point on and the UI thread comes back from removals again and again, and
of files that are left alone from some point on; versions are bounded, so every file is.
`InterruptEndsUnlessAsked` supposes only that the UI thread does not stay in the removal of
other directories, and excepts the hang of finding 2: the thread waits for its text, and
`removeIndex` for the thread.

## 4. `IndexerLifecycle`

The UI thread with `indexer`, the directories and all threads.

| Model | Code |
|---|---|
| `cfgDirs`, `index` | `DIRS2INDEX`; which directories below `idx/` hold an index |
| `ui`, `subject`, `quitting`, `round`, `exit` | where the UI thread is, the thread it deals with, `onQuit` and its `iLoop`, how the program ended |
| `workers`, `dirOf` | `m_pWorkers`; `m_sDir2Index` |
| `pc`, `stop`, `opened` | where a thread is, its interruption flag, whether its `lucyindexer` has an `IndexModifier` |
| `calls` | events of `getMetaContents` in the UI thread's queue |
| `lock`, `store` | the mutex `getIndexerLock`; `THIS_LOCK` of each `Directory` |

A slot of the UI thread is one action up to where it waits: `Del` ends where
`removeIndex` waits for the thread and `EndRemoval` goes on from there; `Info` waits
for the mutex (`UiLock`) and then for the directory's lock (`EndInfo`); `Quit`,
`NotStopped`, `EndEvents`, `AllStopped`, `DeleteThread`, `EndQuit` and `GiveUp` are
the loop of `onQuit`, with `processEvents` between two looks at the threads. It serves
whatever comes: calls, the timer of the field names, and the user, since the main window is
only closed, and the tray (`tray.cpp:76`) or a second start (`main.cpp:68`) shows it again. So
`Add`, `Del` and `Info` happen there, too: a directory's thread may be started after
`requestStopAll` and is then never asked to stop, but waited for and terminated; a removal
may hang there; the map may get a null pointer (`CheckNullThread`); and the Info window may
ask a worker that has closed its index (`InfoNoIndexer`, `InfoOfClosed`). Only `Quit` itself
is not served within `onQuit`: Qt closes no window that is being closed.

When `onQuit` returns, Qt does not quit if a window has been shown again: the program ends or
goes on with an empty map (`GoesOn`). If it had given up on threads, it goes on beside them
(`ui = "lost"`); what happens then is not followed, except that settings and indexes may
become anything until the program ends (`Astray`). `OneModifierPerIndex`, `OpenIndexExists`
and `ThreadsAreKept` end there, and would be false.

A thread does what `IndexPass` describes, reduced to what others can notice:
`BeginStore`/`EndStore` (an operation of `IndexModifier`), `WantText`/`Ask` (the call to the UI
thread), `WantFlush`/`Lock`/`EndFlush` (a flush under the mutex, and the count for the log at the
end of a pass), `Finish` to `EndClose`.

Outside `src/`, from how the code uses it: `QThread::isRunning`, `requestInterruption`
(no effect on a thread that does not run) and `terminate`. The program is deployed
on Windows, where a terminated thread stops where it is and unlocks nothing; a
thread that terminates itself at the end of `finishIndexing` is taken to be over,
as Qt documents; the request to interrupt is forgotten with the thread's end. A call queued by a thread that was terminated is undefined
behaviour when it is served: nothing happens or the program ends (`ServeKilled`).

Left out: the text of log lines; whether a directory exists is a choice when it is
added and when the program starts; killing the process (its effect on the index is
in `IndexPass`); the time a round takes; threads that go on while the process is
being torn down after `GiveUp`; a deletion of the index directory that succeeds in
part. A directory's index is deleted or kept whole.

### Runs

| Run | Instance | Shows |
|---|---|---|
| `lifecycle_threads` | 2 directories, 2 threads, terminate after round 0, give up after round 2; 63,232 states | the safety properties; removal and quitting end, but for the cases named |
| `lifecycle_removal` | 2 directories, 2 threads | `RemovalEnds` fails: finding 2 |

Bounds. Two directories let two threads compete for the mutex while the UI thread
waits for one of them, and `onQuit` terminate both. There is at most one thread object for
each directory, and a removal deletes it before the directory can be added again, so two are
enough until the program has lost some; an object is not used again while a call of its
predecessor is queued, which delays such an addition. `KillAfter` and
`GiveUpAfter` stand for 99 and 333: with 0 and 2 there are rounds in which nothing
is terminated, rounds in which a thread is, and rounds after which `onQuit` gives up.
Directories have different index directories in the runs (`MCIdxDir`).
Deadlock is not checked: a removal may really block for ever (finding 2), and then
no thread may have anything left to do.

Fairness, in `FairSpec`: strong fairness of each thread's steps and of what the UI thread has
begun, so that a mutex or lock that is free again and again is got: a thread takes the mutex
at most once in 1,000,000 documents or twice in a pass, with more than five minutes of sleep
between two passes. Strong fairness of each call in the queue and of the end of
`processEvents`: a timer of 50 seconds and a user's clicks do not keep the event loop from
them for ever. The user owes nothing.

What the liveness properties except is what the code does not prevent. A thread that was
terminated while it held a lock keeps it (`Abandoned`), and whoever needs the lock hangs.
`onQuit` hangs in a removal the user asks for meanwhile as any removal may (finding 2).
And if several directories are added while it waits (`Unasked`), their threads, which are not
asked to stop, may call the UI thread in turn so that `processEvents` never finds its queue
empty. One such thread does not: it is terminated in the end.

## 5. `SearchSession`

The UI thread with the search window, the timer of the field names and the settings,
and the indexer threads as far as they share something with them.

| Model | Code |
|---|---|
| `commits`, `lockFile` | how often each index was committed; which have a file `write.lock` |
| `table`, `refCount`, `alive` | CLucene's `DIRECTORIES`, `FSDirectory::refCount`, the objects not yet deleted |
| `workerDir`, `fieldsDir` | `m_pDirectory` of each worker's `lucyindexer` and of the reader `fields` has open |
| `readers`, `hits` | the readers of the last search, `m_hits` |
| `worker`, `stop`, `holds` | the threads, and which of them has its `IndexModifier`'s lock |

`GetDirectories` is `FSDirectory::getDirectory`: it counts an object of the table or
makes one. `Open` is `lucyindexer::open` with `lucy::open`, which removes
`write.lock`; `Search` is `searcher::search` with the same `lucy::open` for every key of
`m_pWorkers`. `Del` sends `cfgChanged`, whose slot closes the readers of the last search,
before `removeIndex` waits (`EndRemoval`). `fields` opens one index after the other
(`FieldsOpen`, `FieldsClose`). What a use of a deleted object does is undefined:
everything goes on, or the program ends (`Crash` with `deletedDirectory`).

The model ignores the mutex for all indexes and so has more interleavings than the
code; it leaves out the null entries of `m_pWorkers` (`IndexerLifecycle` has them), and
how many objects there may be is a bound.

| Run | Instance | Shows |
|---|---|---|
| `search_window` | 2 directories, 2 objects, 2 commits, 3 references | the rows belong to the open readers; a removal erases the index; a lock file left by a killed process stops no thread; the field names take no `Directory` from a thread |

Bounds. Two directories let one be removed while the other is searched; two objects
let a directory be removed and added again under a new object while the old one is
still referenced; two commits let the index move on under open readers. There is no
liveness property: that removals and quitting end is in `IndexerLifecycle`.

## 6. `IndexCommit`

One index as files: its one modifier (`QIndexModifier`), the deleter of that modifier's
writer or reader, and the searches that open it.

| Model | Code |
|---|---|
| `disk`, `log`, `pointer` | the files; what each `segments_N` says; `segments.gen` |
| `mode`, `step`, `after`, `job` | what the modifier has open, where it is in `SegmentInfos::write` or in the removal of files, what comes after, what is committed |
| `infos`, `old`, `gen`, `counter`, `pending` | `SegmentInfos`, its clone for a roll-back, `generation`, `counter`, `commitPending` |
| `kept`, `doomed`, `deletable` | what `IndexFileDeleter` keeps, removes and could not remove |
| `reader` | each `FindSegmentsFile::run` and the files its readers have open |

A commit is the steps of the code on the file system: data files (`Flush`, `Merge`,
`Compound`, `WriteDeletions`), `segments_N` created and completed, `segments.gen`
unlinked, created and filled, `Checkpoint`, then the files that are no longer needed one
after the other (`DeleteFile`). Any of them may fail with an error that is reported
(`FailCommit`; `segments.gen` is given up silently, `SkipPointer`), and the close of
`segments_N` may fail unnoticed (`TruncateSegments`). The program may end between any
two (`Crash`). A search lists the directory, reads `segments.gen`, chooses, opens
`segments_N`, reads it and opens the data files in separate steps, each interleaved with
the writer, with the code's retries: once for the same generation, then `Lookahead`
generations ahead, then the one before.

Abstractions: the loose files of a segment are one file; a commit is a set of segments,
any `MergeFactor` of which may be merged; documents are counted by nothing, a commit
says which segments and which `.del` files it has. The deleter removes older commits
first and `segments_N` before the files it names, otherwise in any order. A reader that
failed to commit leaves a modifier that only throws (`broken`), and the user ends the
program; `DirectoryIndexReader::doCommit` rolls back, so a further try might succeed.
`FailCommit` advances the generation wherever the error strikes; in the code an error that
comes before `SegmentInfos::write`, in the data files, does not, so the model has more gaps.
On Windows a search that is just reading `segments.gen` could keep the writer from unlinking
it; it is read in one step here. A crash is one of the process: what was written stays. `optimize`,
`addIndexes`, shared doc stores and separate norms are never used by the program.
Two processes that write the same index are excluded here: `SingleInstance` says when
that may happen, `SearchSession` what `write.lock` is worth then.

**`CommittedIndex`** is the promise: commits follow each other and never change, a search
sees one whole commit, not older than the newest when it began (one older on Windows),
and is refused only if there was none or an I/O error has struck the writer (`struck`,
`failures > 0` in `IndexCommit`). The promise ends when the disk breaks its own (`broken`):
when `IndexCommit` is no longer `Undisturbed`, because an error was lost or, on Windows, the
program crashed or met an error.

| Run | Instance | Shows |
|---|---|---|
| `commit_disk` | no search, 7 commits, 3 segments, 2 crashes, 1 reported error | the newest commit is readable at every moment; a start never goes back to an earlier one; a writer at rest leaves nothing behind |
| `commit_search` | 1 search, 5 commits, 3 segments, 1 crash, 1 reported error | until an error strikes a start finds the newest commit and a search succeeds; it always sees one commit; `CommittedIndex` is implemented |
| `commit_opening` | 1 search, 4 commits, 1 segment, Windows, 1 reported and 1 lost error | every opening ends; until an error, what the deleter remembers is never in use again |
| `commit_restart` | no search, 4 commits, 1 crash | `RestartKeepsIndex` fails: finding 3 |

Bounds. Three segments let two be merged while a third is new; seven commits are a
creation, three flushes, a merge, its compound file and a deletion; five with a search leave
room for the writer to be ahead by more than the look-ahead of 2 (10 in the code); with four
on Windows a search holds files which later commits share or the deleter must remember.
Two crashes make a crash hit the restart after a crash. `commit_disk` and `commit_restart`
do not check for deadlock: when the commits are used up, or the index cannot be
opened any more after an error and a crash, nothing is left to do.
Fairness: a search goes on opening (`Open`); nothing is assumed of the writer.

## 7. `SingleInstance`

Every process is one start of the program.

| Model | Code |
|---|---|
| `at` | where `main()` is: `QtLocalPeer::isClient`, `sendMessage`, start-up, event loop, `onQuit`, `~QtLocalPeer` |
| `lock`, `file`, `server` | `lockFile`'s lock; whose server the socket's file leads to; the open `QLocalServer`s |
| `queue`, `serves`, `got` | pending connections; the one `receiveConnection` is busy with; messages emitted |
| `peer`, `sent`, `acked`, `tries` | the client's side |
| `hidden` | the window is minimised to the tray |

Outside `src/`, from how it is used: the lock of `fcntl` goes with its process; a
socket's file stays when its process is killed; `QLocalServer::close` removes the file
with its name, whoever made it; a connection is made by the system before the server
looks at it. The order at the end is the language's: `lockFile` is a member of
`QtLocalPeer`, the server a child of the object, so the lock is released first.
Messages are accepted by the event loop, by the repaint of the splash screen, before
the signal is connected, and by `onQuit`.

Times are left out: an answer may be late at any time (`NoAck`). Only that the holder
of the lock listens before the client's second try, 250 ms later, is assumed (the guard
of `Refused`). Pending connections are taken in any order. Windows' named pipes and its
lock of the file are not modelled, nor a `listen` that fails for another reason than a name in
use (`qtlocalpeer.cpp:129` warns and goes on without a server, and later starts run beside it),
nor a lock file that cannot be opened (`qtlocalpeer.cpp:108`: `lock` then returns false,
`qtlockedfile_unix.cpp:50`, and every start takes itself for a client).

`single_instance` has three starts, one of which may be ended or killed (92,117
states): a holder of the lock, a client and a third process that finds what the two left.
`OneInstance` and `HolderReachable` except exactly what the code does not prevent;
without either exception TLC finds a violation (section 8). `StartShows` excepts
processes that end. All starts may have ended, so deadlock is not checked. Fairness:
a process takes its next step; starting, minimising, quitting and killing owe nothing.

## 8. Findings

1. **`purge_misses`.** `delDeletedFilesFromIdx` takes `docCount()` for "maxDoc"
   (`indexerworker.cpp:289`), but that is the number of live documents while a reader
   is open (`IndexModifier.cpp:136-143`). With deleted documents still stored,
   documents at the end are never visited, and a deleted file stays searchable. With
   the number of stored documents instead, the property holds in the same instance.
2. **`lifecycle_removal`.** `removeIndex` waits on the UI thread without serving
   events (`indexer.cpp:173`) for a thread that may wait for the UI thread
   (`indexerworker.cpp:157`). Both wait for ever. `RemovalEndsUnlessAsked` shows that
   this is the only way a removal hangs, unless it is asked for in `onQuit` after a thread was
   terminated with a lock; `InterruptEndsUnlessAsked`, that it is the only way an interrupted
   thread does not end.
3. **`commit_restart`.** `lucyindexer::open` creates the index anew if `segments.gen` is
   absent (`lucyindexer.cpp:15`), and every commit unlinks that file before it creates it
   again (`FSDirectory.cpp:678`). If the program ends in between, the next start empties
   an index whose newest commit is whole. The next pass indexes everything again.
   `CurrentDocStays` shows that this is the only crash that takes a current document.

The models also contain the following behaviour. No run is spent on it, since the
property that excludes it is short and fails at once; each is reached by changing
the constant or the property named.

* `getIdxInfo` inserts a null pointer into `m_pWorkers` for a directory without thread
  (`indexer.cpp:200`), and quitting or removing uses it: `IndexerLifecycle`, `exit = "nullThread"`.
* Information about a directory just added may be asked for before its thread has
  made a `lucyindexer` (`indexer.cpp:207`), or in `onQuit` after it has deleted it, even while
  `docCount` waits for it (`lucyindexer.cpp:198`): `exit = "nullIndexer"`.
* A directory added while `onQuit` waits gets a thread that is not asked to stop
  (`indexer.cpp:116`): while `quitting`, not every running thread is in `stop`. `onQuit` then
  waits ten seconds and terminates it.
* `lucy::open` removes `write.lock` because the "file is there if app crashed" (`lucy.cpp:68`),
  but a search calls it, too, while a thread holds the lock: `SearchSession`, `Search` with a
  directory in `lockFile` and `holds`. From then on nothing keeps a second writer out.
* The first `lucy` that closes deletes the `FSDirectory` others use (`lucy.cpp:20`; CLucene's
  header says "Do not delete this instance, only use close"): after a search, a removal and
  an addition the table leads to a deleted object, and quitting with results shown deletes
  the one of the open readers: `SearchSession`, `exit = "deletedDirectory"`.
* `SegmentInfos::write` advances `generation` before it can fail, so that after an error the
  fallback to the generation before finds nothing while a later commit is written:
  `OpenSucceeds` fails in `commit_search` without its exception of errors.
* `checkpoint` deletes the names it could not delete before without a look at their count
  (`IndexFileDeleter.cpp:370`), where the header says a file goes when no commit refers to it
  any more (`_IndexFileDeleter.h:29`). A crash leaves a torn `segments_2`; at the next start a
  search has it open while the deleter's constructor tries to remove it, on Windows in vain;
  the next commit writes `segments_2` anew, and then deletes it: with `Windows`, a search and a
  crash `CommitReadable` fails. `RememberedAreDead` says that it takes a crash or an error.
* `FSIndexOutput::close` ignores the error of the last flush (`FSDirectory.cpp:309`): with
  `MaxLost` = 1, `CommitReadable` fails.
* `main()` takes a message that was not answered as the absence of another instance
  (`main.cpp:20`), where `QtSingleApplication` says it is "an indication that the running
  instance is frozen" (`qtsingleapplication.cpp:88`): a UI thread busy for five seconds, with
  the JVM or a large file, leads to two programs on the same indexes (`SingleInstance`, `OneInstance`
  without `Unanswered`).
* An instance that starts while another ends loses its socket's name to it
  (`HolderReachable` without its exception), and the next start runs beside it.

## 9. Proofs

`IndexPassProofs` and `IndexerLifecycleProofs` prove every safety property the runs
check, for every value of the constants that meets the assumptions of the modules
(`PathsAssumption`, `BoundAssumption`; `DirsAssumption`, `ThreadsAssumption`,
`PatienceAssumption`). No theorem of theirs has another hypothesis: hashes and dates are
any functions.

**`IndexPassProofs`.** The inductive invariant `IInv` has five parts. `TypeOK`.
`StoreInv` relates the open index to the last commit: equal when closed; the same
deletions under a writer; the same documents under a reader. `VersionInv`: no
document is ahead of its file. `HandInv` is what the pass has found out about the
file in hand: after a negative lookup no live document has its date; after the
deletion none has its path; while the index is new, none has the path of a file
still to come. `OneDocPerFile`. `HandInv` is what makes `OneDocPerFile` inductive:
`Add` is safe only because no live document has the path. Three lemmas
(`SaveFacts`, `ReaderDeleteFacts`, `AddFacts`) say what the index's operations do, so
that the lemmas about the actions need not look into merges. `CurrentDocStays` needs
`DeletionInv` besides: of a file whose hash no other has, only outdated documents are
deleted. For the purge, which deletes by date id, that needs an argument of its own, since
the version that is there now may share its second with the one that was deleted: a file
whose document the purge took has none left (`VictimsStayAway`), because additions wait
until the purge is over (`LiveSteps`), so the id finds only other files. `SavedSteps`
reduces each step to what it does to the committed documents; from it come
`CurrentDocumentsStay` and, with `VersionInv`, the refinement `IndexImplementsCatalog`.

**`IndexerLifecycleProofs`.** `IInv` is `TypeOK` with `OffInv` (nothing is left when
the program is off), `MapInv` (which thread is whose: each thread object is in the
map under its own directory, or is the one a removal waits for, unless the program goes on
beside threads it has lost) and `RoundInv` (rounds are counted in `onQuit` only). Nothing is
proved of who is asked to stop: `onQuit` does not reach a directory added while it waits.
`ThreadsAreKept` is a consequence of `MapInv`, and so is `QuitClosesIndexes`: when the cleanup
ends the map is empty, and no thread object is outside it;
`OneModifierPerIndex` and `OpenIndexExists` follow for each directory whose index
directory no other has (`OwnIndex`), whatever the others share.

**`SearchSessionProofs`** proves the five properties of `search_window` for any number of
directories, objects, commits and references. Its invariant says which object a worker
has (the one of the table, counted once for it), that the hits are those of the readers,
and that while a removal waits no reader of its directory is open.

**`IndexCommitProofs`.** The theorems about commits hold while the program is `Undisturbed`: no
error has been lost so far, and where open files cannot be deleted (`Windows`) it has neither
crashed nor met an error. Beyond that they are false (section 8); elsewhere they hold through
any number of crashes and reported errors. There is no other hypothesis: `CommitInvariance` is
that the types hold for ever and the invariant `IInv` while `Undisturbed` does, which is never
true again once it is false (`UndisturbedBefore`). `IInv` is `TypeInv`, `Safe` and `NamesOnce`.
`Safe`: `CommitReadable`; `Ordered`, that commits have the order of their generations;
`DoomedAreDead`, that nothing being removed belongs to the newest commit; what `infos`, `gen`
and `kept` are at rest (`AtRest`), when the next generation is ahead of the disk (`Ahead`), in
each step of a commit (`Writing`, `Deleting`); and `PendingAreDead`, that nothing the deleter
remembers belongs to the newest commit or to the one being written. `NamesOnce` is what makes
that inductive on Windows: every name on the disk or remembered lies behind the counters new
names come from (`Used`), so that a commit writes no name that is still to be deleted
(`NewNames`). A crash or a failed commit puts a `segments_N` on the disk that the counters do
not know of, which is how a remembered name gets into use again. The key lemma `FoundIsLast`
says that what a start finds is the newest commit or nothing, which is `RestartForward`:
listing and `segments.gen` cannot both miss it. `SearchesSeeOneCommit` adds that a complete
`segments_N` never changes (`CommitsStay`) and that what a search has opened so far belongs to
its target (`WholeViews`); `RestartSafe` adds that until an error strikes the newest generation
on the disk is at most one ahead of the newest commit (`Near`).

**`IndexRestProofs`** proves `IdleWriterIsClean` without any assumption on errors or undeletable
files. Its invariant `Tidy` accounts for every file while a writer is open: between commits those
of the commit kept, those being removed and those pending (`RestFiles`); during a commit the files
of the new segments and, once begun, its `segments_N` besides (`CommitFiles`). `LastSegment` says
that the segment to be packed is still in memory: without it the `.cfs` would belong to nobody.

**`IndexSearchProofs`** proves `OpenSucceeds` while `Undisturbed` holds, and the refinement
`ImplementsCommittedIndex`, again without a hypothesis: each step is one of the promise, or
disturbs the program and so ends it. About the disk, where files can be
deleted (`Trail`): the deleter goes from the oldest commit to the newest (`OldestFirst`), and
whatever is complete but not the newest is on its list (`Keeping`), which is what makes
`OldestFirst` inductive; this survives errors. Until an error strikes the commits have no gaps
(`NoHoles`). About a search (`Fresh`): its generation is not older than the commit it began
with, and it falls back by one only where that does not go below that commit, or on Windows by
one commit at most (`Aimed`); this is all the refinement needs, so that a search that succeeds
after an error still sees a whole commit, new enough. Until an error strikes it is also never
without a next generation (`Patient`): each time it lists the directory again the generation it
missed has been committed, and the second time one after it has, so it never finds the same
generation a third time, which is how it would give up.

**`SingleInstanceProofs`.** The invariant is `Roles` (the holder of the lock is about to listen
or has its server open, and nobody else serves; who is connected to whom) and `Alone`
(while nobody ends: who runs without having timed out holds the lock, the name is its own,
and a client has a holder to connect to). The step that matters is the second refusal: the
holder does not listen, so it has the name, so the client was not refused.

Only model-checked: the liveness properties under fairness (`EveryFileSearchable`,
`InterruptEndsUnlessAsked`, `RemovalEndsUnlessAsked`, `QuitEnds`, `OpeningEnds`, `StartShows`,
`SendEnds`, `ReceiveEnds`), and the findings.

## 10. Not modelled

* The JNI references and exceptions of `getMetaContents`, the log's queue of lines, the
  tokenizers and analyzers, and the helpers for paths and sizes: the first two touch no
  state of another part, the others are sequential functions of one call, which tests reach.
* How CLucene's `Hits` fetches documents in pages, scoring, query parsing, the format of the
  files, the choice of segments to merge.
* Drawing, dialogs, item delegates, the configuration's placeholders.
* The rest of the vendored libraries, which are 98 % of the repository's lines: the program
  does not call most of it, and examples, tests and generated tables hold no behaviour of
  this system. A share of the whole repository near a third is therefore out of reach; of the
  program's own code the index, its threads, the search and the start are modelled.
