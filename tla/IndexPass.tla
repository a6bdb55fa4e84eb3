----------------------------- MODULE IndexPass -----------------------------
(***************************************************************************)
(* One indexer thread at work on the CLucene index of its directory:       *)
(* indexerWorker::doWork with the lucyindexer, QIndexModifier and          *)
(* IndexModifier calls it makes, while the file system changes under it,   *)
(* the user interrupts it and the process may die.                         *)
(*                                                                         *)
(* A document carries the version of the file its date was taken from      *)
(* ("stat", QFileInfo) and the version its text was read from ("text",     *)
(* Tika); its two ids are qHash(path) and qHash(path)_mtime.  Documents    *)
(* are numbered in the order of their creation; CLucene's number of a      *)
(* document is its rank among those still stored, deleted or not.          *)
(***************************************************************************)
EXTENDS Naturals, FiniteSets

CONSTANTS Paths,       \* the files below the directory, its own index excluded
          NoPath,      \* no file in hand
          MaxVersion,  \* bound: how often a file may be written
          DocNrs,      \* bound: the numbers documents may get
          Hash,        \* qHash of each path
          Date,        \* the modification date, in seconds, of each version
          FlushOver,   \* deletions after which a pass flushes once more (999)
          Removals     \* bound: whose indexes the user removes, of "this" and "other"

ASSUME PathsAssumption == NoPath \notin Paths
ASSUME BoundAssumption == /\ MaxVersion \in Nat \ {0}
                          /\ DocNrs \subseteq Nat
                          /\ FlushOver \in Nat
                          /\ Removals \subseteq {"this", "other"}

\* lucyindexer.cpp:51 "assumption: qHash does not create duplicates", for one file.
Unique(p) == \A q \in Paths : Hash[q] = Hash[p] => q = p

\* No other version falls into the second of v.
OwnSecond(v) == \A w \in 1..MaxVersion : Date[w] = Date[v] => w = v

VARIABLES
  file,          \* the version of each file that exists now, 0 if none
  last,          \* the latest version each file ever had
  pc,            \* where the thread is
  stop,          \* QThread::isInterruptionRequested
  removing,      \* whose thread the UI thread waits for in removeIndex, "none" if it serves events
  todo,          \* the files QDirIterator has not returned yet
  cur,           \* the file in hand: its QFileInfo and the text extracted
  unseen,        \* documents the running loop of the purge still has to visit
  victims,       \* docs2BeDeleted
  newIndex,      \* lucyindexer::m_bNewIndex
  deletionCalled,\* QIndexModifier::m_bDocDeletionCalled
  mode,          \* which of indexWriter and indexReader is open
  docs,          \* the documents the open index holds, deleted ones included
  deleted,       \* those of them it has deleted
  created,       \* segments.gen exists
  savedDocs,     \* docs as of the last commit: what a search and a restart see
  savedDeleted   \* deleted as of the last commit

envVars   == <<file, last>>
uiVars    == <<stop, removing>>
passVars  == <<todo, cur>>
purgeVars == <<unseen, victims>>
savedVars == <<created, savedDocs, savedDeleted>>
indexVars == <<deletionCalled, mode, docs, deleted, savedVars>>
vars      == <<envVars, pc, uiVars, passVars, purgeVars, newIndex, indexVars>>

Version == 1..MaxVersion
NoText  == 0
Text    == Version \cup {NoText}
NoFile  == [path |-> NoPath, stat |-> 0, text |-> NoText]
File    == [path : Paths, stat : Version, text : Text]
Doc     == [nr : DocNrs, path : Paths, stat : Version, text : Text]

\* getIdFNandDATE
IdFnAndDate(f) == <<Hash[f.path], Date[f.stat]>>

Live      == docs \ deleted
SavedLive == savedDocs \ savedDeleted

-----------------------------------------------------------------------------
(* QIndexModifier and IndexModifier                                         *)

\* Only a writer that commits buffered documents may merge; a merge drops the deleted
\* documents of its segments, and one commit may merge many times.
Merges == IF mode = "writer" /\ docs # savedDocs THEN SUBSET deleted ELSE {{}}

\* Closing or committing the writer or the reader.
Save == \E gone \in Merges :
          /\ docs' = docs \ gone
          /\ deleted' = deleted \ gone
          /\ savedDocs' = docs \ gone
          /\ savedDeleted' = deleted \ gone

\* createIndexReader closes the writer, then the reader deletes S.
ReaderDelete(S) ==
  /\ mode' = "reader"
  /\ UNCHANGED created
  /\ \/ /\ mode = "reader"
        /\ deleted' = deleted \cup S
        /\ UNCHANGED <<docs, savedDocs, savedDeleted>>
     \/ /\ mode = "writer"
        /\ \E gone \in Merges :
             /\ docs' = docs \ gone
             /\ deleted' = (deleted \ gone) \cup S
             /\ savedDocs' = docs \ gone
             /\ savedDeleted' = deleted \ gone

\* deleteDocuments(term): every document that has the term and is not deleted.
DeleteDocumentsUnflagged(S) == ReaderDelete(S) /\ UNCHANGED deletionCalled  \* mutant

DeleteDocuments(S) ==
  /\ ReaderDelete(S)
  /\ deletionCalled' = (deletionCalled \/ S # {})

\* The number of the next document: addDocument appends.
IsNextNr(n) == /\ \A d \in docs : d.nr < n
               /\ \A m \in DocNrs : (\A d \in docs : d.nr < m) => n <= m

\* The RAM buffer is full: d is committed with all others, and merged.
AddAndCommit(d) == \E gone \in SUBSET deleted :
                     /\ docs' = (docs \ gone) \cup {d}
                     /\ deleted' = deleted \ gone
                     /\ savedDocs' = docs'
                     /\ savedDeleted' = deleted'

\* addDocument: createIndexWriter closes the reader, which commits what it
\* deleted; the new document is buffered or committed at once.
AddDocument(d) ==
  /\ mode' = "writer"
  /\ UNCHANGED <<deletionCalled, created>>
  /\ \/ /\ docs' = docs \cup {d}
        /\ savedDocs' = IF mode = "reader" THEN docs ELSE savedDocs
        /\ savedDeleted' = deleted
        /\ UNCHANGED deleted
     \/ AddAndCommit(d)

\* QIndexModifier::flush: a commit by the reader if documents were deleted, then
\* writer or reader are closed and opened again.
Flush == /\ Save
         /\ mode' = IF deletionCalled THEN "reader" ELSE mode
         /\ deletionCalled' = FALSE
         /\ UNCHANGED created

\* docCount: the writer counts deleted documents, the reader does not.
DocCount == IF mode = "writer" THEN Cardinality(docs) ELSE Cardinality(Live)

\* The document number CLucene knows d by.
Rank(d) == Cardinality({e \in docs : e.nr < d.nr})

-----------------------------------------------------------------------------
(* indexerWorker::doWork.  Each of its steps but the commit and the addition *)
(* of a file already taken in hand first looks at the interruption flag.     *)

Goes(from, to) == /\ pc = from
                  /\ pc' = to

GoesAlways(from, to) == Goes(from, to) /\ UNCHANGED uiVars  \* mutant

GoesUnlessStopped(from, to) == /\ ~stop
                               /\ Goes(from, to)
                               /\ UNCHANGED uiVars

\* openIndex: IndexModifier starts with a writer; where segments.gen is missing the
\* index is created, that is, committed empty, whatever it held.
Open == /\ removing # "this"
        /\ Goes("closed", "scan")
        /\ newIndex' = ~created
        /\ mode' = "writer"
        /\ deletionCalled' = FALSE
        /\ created' = TRUE
        /\ todo' = Paths
        /\ IF created THEN UNCHANGED <<docs, deleted, savedDocs, savedDeleted>>
                      ELSE /\ docs' = {} /\ deleted' = {}
                           /\ savedDocs' = {} /\ savedDeleted' = {}
        /\ UNCHANGED <<envVars, uiVars, cur, purgeVars>>

VisitBlindly(p) == /\ GoesUnlessStopped("scan", "lookup")  \* mutant: the file may be gone
                   /\ p \in todo
                   /\ todo' = todo \ {p}
                   /\ cur' = [path |-> p, stat |-> file[p], text |-> NoText]
                   /\ UNCHANGED <<envVars, purgeVars, newIndex, indexVars>>

\* dir: QDirIterator returns an entry and QFileInfo looks at it once.
Visit(p) == /\ GoesUnlessStopped("scan", "lookup")
            /\ p \in todo
            /\ file[p] # 0
            /\ todo' = todo \ {p}
            /\ cur' = [path |-> p, stat |-> file[p], text |-> NoText]
            /\ UNCHANGED <<envVars, purgeVars, newIndex, indexVars>>

\* The iterator does not return a file that is not there.
SkipMissing(p) == /\ GoesUnlessStopped("scan", "scan")
                  /\ p \in todo
                  /\ file[p] = 0
                  /\ todo' = todo \ {p}
                  /\ UNCHANGED <<envVars, cur, purgeVars, newIndex, indexVars>>

HasAnyVersion(f) == \E d \in Live : Hash[d.path] = Hash[f.path]  \* mutant

HasDoc(f) == \E d \in Live : IdFnAndDate(d) = IdFnAndDate(f)

\* lucyindexer::isIndexed; a new index is not even asked.
SkipIndexed == /\ GoesUnlessStopped("lookup", "scan")
               /\ ~newIndex /\ HasDoc(cur)
               /\ ReaderDelete({})
               /\ cur' = NoFile
               /\ UNCHANGED <<envVars, todo, purgeVars, newIndex, deletionCalled>>

NotIndexed == /\ GoesUnlessStopped("lookup", "extract")
              /\ \/ newIndex /\ UNCHANGED <<mode, docs, deleted, savedVars>>
                 \/ ~newIndex /\ ~HasDoc(cur) /\ ReaderDelete({})
              /\ UNCHANGED <<envVars, passVars, purgeVars, newIndex, deletionCalled>>

\* A file of more than 99 MB is indexed without text.
TooBig == /\ GoesUnlessStopped("extract", "index")
          /\ UNCHANGED <<envVars, passVars, purgeVars, newIndex, indexVars>>

\* getMetaContents is a blocking call to the UI thread ...
Ask == /\ GoesUnlessStopped("extract", "ask")
       /\ UNCHANGED <<envVars, passVars, purgeVars, newIndex, indexVars>>

\* ... which answers when it serves events: the text as it is now; none if the file
\* is held open by another program, is gone or cannot be parsed.
Answer(t) == /\ removing = "none"
             /\ Goes("ask", "index")
             /\ t \in {NoText, file[cur.path]}
             /\ cur' = [cur EXCEPT !.text = t]
             /\ UNCHANGED <<envVars, uiVars, todo, purgeVars, newIndex, indexVars>>

OldSameDate == {d \in Live : IdFnAndDate(d) = IdFnAndDate(cur)}  \* mutant

OldVersions == {d \in Live : Hash[d.path] = Hash[cur.path]}

\* index: the old versions are deleted and, if there are any, the deletion is
\* committed before the new version is added.
DeleteOld == /\ ~newIndex
             /\ GoesUnlessStopped("index", IF OldVersions = {} THEN "add" ELSE "flushOld")
             /\ DeleteDocuments(OldVersions)
             /\ UNCHANGED <<envVars, passVars, purgeVars, newIndex>>

KeepOld == /\ newIndex
           /\ GoesUnlessStopped("index", "add")
           /\ UNCHANGED <<envVars, passVars, purgeVars, newIndex, indexVars>>

FlushOld == /\ Goes("flushOld", "add")
            /\ Flush
            /\ UNCHANGED <<envVars, uiVars, passVars, purgeVars, newIndex>>

\* mutant: the date is taken when the document is built
RestatDoc(n) == [nr |-> n, path |-> cur.path, text |-> cur.text,
                 stat |-> IF file[cur.path] = 0 THEN cur.stat ELSE file[cur.path]]

NewDoc(n) == [nr |-> n, path |-> cur.path, stat |-> cur.stat, text |-> cur.text]

\* After every OPTIMIZE_AFTER_INDEXED_FILES-th document the index is flushed.
Add == /\ pc = "add"
       /\ pc' \in {"scan", "flushMany"}
       /\ \E n \in DocNrs :
            /\ IsNextNr(n)
            /\ AddDocument(NewDoc(n))
       /\ cur' = NoFile
       /\ UNCHANGED <<envVars, uiVars, todo, purgeVars, newIndex>>

FlushMany == /\ Goes("flushMany", "scan")
             /\ Flush
             /\ UNCHANGED <<envVars, uiVars, passVars, purgeVars, newIndex>>

\* mutant: m_bNewIndex outlives the first pass
EndScanStillNew == /\ GoesUnlessStopped("scan", "purge")
                   /\ todo = {}
                   /\ Flush
                   /\ UNCHANGED <<envVars, passVars, purgeVars, newIndex>>

\* onIndexerThreadFinished(true)
EndScan == /\ GoesUnlessStopped("scan", "purge")
           /\ todo = {}
           /\ Flush
           /\ newIndex' = FALSE
           /\ UNCHANGED <<envVars, passVars, purgeVars>>

-----------------------------------------------------------------------------
(* delDeletedFilesFromIdx                                                   *)

\* The document numbers below docCount are visited from the highest down.
BeginPurge == /\ GoesUnlessStopped("purge", "examine")
              /\ unseen' = {d \in docs : Rank(d) < DocCount}
              /\ victims' = {}
              /\ IF unseen' = {} THEN UNCHANGED <<mode, docs, deleted, savedVars>>
                                 ELSE ReaderDelete({})
              /\ UNCHANGED <<envVars, passVars, newIndex, deletionCalled>>

IsHighest(d) == /\ d \in unseen
                /\ \A e \in unseen : e.nr <= d.nr

Keep(d) == /\ GoesUnlessStopped("examine", "examine")
           /\ IsHighest(d)
           /\ d \in deleted \/ file[d.path] # 0
           /\ unseen' = unseen \ {d}
           /\ UNCHANGED <<envVars, passVars, victims, newIndex, indexVars>>

FindAny(d) == /\ GoesUnlessStopped("examine", "deleteDoc")  \* mutant: no QFile::exists
              /\ IsHighest(d)
              /\ d \notin deleted
              /\ UNCHANGED <<envVars, passVars, purgeVars, newIndex, indexVars>>

FindMissing(d) == /\ GoesUnlessStopped("examine", "deleteDoc")
                  /\ IsHighest(d)
                  /\ d \notin deleted /\ file[d.path] = 0
                  /\ UNCHANGED <<envVars, passVars, purgeVars, newIndex, indexVars>>

\* deleteDocument(i); nothing is committed here.
DeleteMissing(d) == /\ GoesUnlessStopped("deleteDoc", "examine")
                    /\ IsHighest(d)
                    /\ unseen' = unseen \ {d}
                    /\ victims' = victims \cup {d}
                    /\ ReaderDelete({d})
                    /\ deletionCalled' = TRUE
                    /\ UNCHANGED <<envVars, passVars, newIndex>>

\* The second loop takes every document with the date id of a victim.
BeginSecondLoop == /\ GoesUnlessStopped("examine", "deleteIds")
                   /\ unseen = {}
                   /\ unseen' = victims
                   /\ UNCHANGED <<envVars, passVars, victims, newIndex, indexVars>>

SameId(v) == {d \in Live : IdFnAndDate(d) = IdFnAndDate(v)}

DeleteId(v) == /\ GoesUnlessStopped("deleteIds", IF SameId(v) = {} THEN "deleteIds" ELSE "flushIds")
               /\ IsHighest(v)
               /\ DeleteDocuments(SameId(v))
               /\ unseen' = unseen \ {v}
               /\ UNCHANGED <<envVars, passVars, victims, newIndex>>

FlushIds == /\ Goes("flushIds", "deleteIds")
            /\ Flush
            /\ UNCHANGED <<envVars, uiVars, passVars, purgeVars, newIndex>>

\* A pass that deleted many documents flushes again; then the thread sleeps.
EndPurge == /\ unseen = {}
            /\ GoesUnlessStopped("deleteIds", "sleep")
            /\ IF Cardinality(victims) > FlushOver
               THEN Flush
               ELSE UNCHANGED <<deletionCalled, mode, docs, deleted, savedVars>>
            /\ victims' = {}
            /\ UNCHANGED <<envVars, passVars, unseen, newIndex>>

NextPass == /\ GoesUnlessStopped("sleep", "scan")
            /\ todo' = Paths
            /\ UNCHANGED <<envVars, cur, purgeVars, newIndex, indexVars>>

\* finishIndexing, at the next look at the interruption flag: close commits.
CheckPoints == {"scan", "lookup", "extract", "index", "purge", "examine",
                "deleteDoc", "deleteIds", "sleep"}

FinishIndexing == /\ stop
                  /\ pc \in CheckPoints
                  /\ pc' = "closed"
                  /\ stop' = FALSE
                  /\ Save
                  /\ mode' = "closed"
                  /\ todo' = {} /\ cur' = NoFile
                  /\ unseen' = {} /\ victims' = {}
                  /\ newIndex' = FALSE
                  /\ deletionCalled' = FALSE
                  /\ UNCHANGED <<envVars, removing, created>>

-----------------------------------------------------------------------------
(* The user, the process, the file system                                   *)

\* onQuit: requestInterruption does nothing to a thread that does not run.
Interrupt == /\ removing = "none"
             /\ pc # "closed" /\ ~stop
             /\ stop' = TRUE
             /\ UNCHANGED <<envVars, pc, removing, passVars, purgeVars, newIndex, indexVars>>

\* removeIndex interrupts the thread and serves no event until it has ended ...
BeginRemoval == /\ "this" \in Removals /\ removing = "none"
                /\ pc # "closed"
                /\ stop' = TRUE
                /\ removing' = "this"
                /\ UNCHANGED <<envVars, pc, passVars, purgeVars, newIndex, indexVars>>

\* ... and then empties the index directory.
Erase == /\ removing = "this"
         /\ pc = "closed"
         /\ removing' = "none"
         /\ created' = FALSE
         /\ docs' = {} /\ deleted' = {}
         /\ savedDocs' = {} /\ savedDeleted' = {}
         /\ UNCHANGED <<envVars, pc, stop, passVars, purgeVars, newIndex, deletionCalled, mode>>

\* Meanwhile the UI thread may wait so for the thread of another directory.
RemoveOther == /\ "other" \in Removals
               /\ \/ removing = "none" /\ removing' = "other"
                  \/ removing = "other" /\ removing' = "none"
               /\ UNCHANGED <<envVars, pc, stop, passVars, purgeVars, newIndex, indexVars>>

\* All but the committed index is gone.
Die == /\ pc' = "closed"
       /\ stop' = FALSE /\ removing' = "none"
       /\ mode' = "closed"
       /\ docs' = savedDocs'
       /\ deleted' = savedDeleted'
       /\ todo' = {} /\ cur' = NoFile
       /\ unseen' = {} /\ victims' = {}
       /\ newIndex' = FALSE
       /\ deletionCalled' = FALSE
       /\ UNCHANGED envVars

\* The process dies: what was not committed is lost.
Crash == /\ pc # "closed" \/ removing # "none"
         /\ UNCHANGED savedVars
         /\ Die

\* Where the thread commits what it has written so far, if anything.
Commits ==
  /\ \/ mode = "writer" /\ docs # savedDocs
     \/ mode = "reader" /\ deleted # savedDeleted
  /\ \/ stop /\ pc \in CheckPoints
     \/ pc = "scan" /\ todo = {}
     \/ pc = "lookup" /\ ~newIndex /\ mode = "writer"
     \/ pc = "add" /\ mode = "reader"
     \/ pc = "deleteIds" /\ unseen = {} /\ Cardinality(victims) > FlushOver
     \/ pc \in {"flushOld", "flushMany", "flushIds"}

\* A commit ends by unlinking segments.gen and writing it anew: the process dies in
\* between.
CrashInCommit ==
  /\ \/ Commits /\ \E gone \in Merges : /\ savedDocs' = docs \ gone
                                        /\ savedDeleted' = deleted \ gone
     \/ /\ pc = "add"
        /\ \E n \in DocNrs, gone \in SUBSET deleted :
             /\ IsNextNr(n)
             /\ savedDocs' = (docs \ gone) \cup {NewDoc(n)}
             /\ savedDeleted' = deleted \ gone
  /\ created' = FALSE
  /\ Die

Write(p) == /\ last[p] < MaxVersion
            /\ last' = [last EXCEPT ![p] = @ + 1]
            /\ file' = [file EXCEPT ![p] = last[p] + 1]
            /\ UNCHANGED <<pc, uiVars, passVars, purgeVars, newIndex, indexVars>>

Remove(p) == /\ file[p] # 0
             /\ file' = [file EXCEPT ![p] = 0]
             /\ UNCHANGED <<last, pc, uiVars, passVars, purgeVars, newIndex, indexVars>>

-----------------------------------------------------------------------------

Init == /\ file \in [Paths -> {0, 1}]
        /\ last = file
        /\ pc = "closed" /\ stop = FALSE /\ removing = "none"
        /\ todo = {} /\ cur = NoFile
        /\ unseen = {} /\ victims = {}
        /\ newIndex = FALSE /\ deletionCalled = FALSE
        /\ mode = "closed"
        /\ docs = {} /\ deleted = {}
        /\ created = FALSE /\ savedDocs = {} /\ savedDeleted = {}

Pass == \/ \E p \in Paths : Visit(p) \/ SkipMissing(p)
        \/ SkipIndexed \/ NotIndexed \/ TooBig \/ Ask
        \/ DeleteOld \/ KeepOld \/ FlushOld \/ Add \/ FlushMany \/ EndScan

Purge == \/ BeginPurge \/ BeginSecondLoop \/ FlushIds \/ EndPurge
         \/ \E d \in unseen : Keep(d) \/ FindMissing(d) \/ DeleteMissing(d) \/ DeleteId(d)

Worker == Pass \/ Purge \/ NextPass \/ FinishIndexing

UIThread == \E t \in Text : Answer(t)

User == Open \/ Interrupt \/ BeginRemoval \/ Erase \/ RemoveOther

Environment == Crash \/ CrashInCommit \/ \E p \in Paths : Write(p) \/ Remove(p)

Next == Worker \/ UIThread \/ User \/ Environment

Spec == Init /\ [][Next]_vars

\* The thread is scheduled, and the UI thread answers if it serves events again and
\* again; nobody else owes a step.
FairSpec == Spec /\ WF_vars(Worker) /\ SF_vars(UIThread)

-----------------------------------------------------------------------------
(* Properties                                                               *)

\* Every variable has its type: the index holds documents of files under the
\* directory, and what is deleted is part of it (lucyindexer, indexerWorker).
TypeOK ==
  /\ file \in [Paths -> Version \cup {0}]
  /\ last \in [Paths -> Version \cup {0}]
  /\ pc \in CheckPoints \cup {"closed", "ask", "flushOld", "add", "flushMany", "flushIds"}
  /\ stop \in BOOLEAN /\ removing \in {"none", "this", "other"}
  /\ todo \subseteq Paths
  /\ cur \in File \cup {NoFile}
  /\ unseen \subseteq Doc /\ victims \subseteq Doc
  /\ newIndex \in BOOLEAN /\ deletionCalled \in BOOLEAN /\ created \in BOOLEAN
  /\ mode \in {"closed", "writer", "reader"}
  /\ docs \subseteq Doc /\ deleted \subseteq docs
  /\ savedDocs \subseteq Doc /\ savedDeleted \subseteq savedDocs

\* A file has at most one document, in the open index and in what a search or a
\* restart sees, whatever was interrupted or lost (lucyindexer::index deletes the
\* old version first).
OneDocPerFile ==
  /\ \A d, e \in Live : d.path = e.path => d = e
  /\ \A d, e \in SavedLive : d.path = e.path => d = e

\* A document with the date of the file as it is now never has an older text, unless
\* the file was written twice within that second: isIndexed may skip the file
\* (indexerWorker::file stats before it extracts).
DateImpliesText ==
  \A d \in Live : /\ file[d.path] # 0 /\ Date[d.stat] = Date[file[d.path]]
                  /\ OwnSecond(d.stat)
                  => d.text \in {NoText, file[d.path]}

\* lucyindexer.cpp:51 "if(newIndex) -> there is no old version for sure": while
\* m_bNewIndex skips the lookup and the deletion, the file in hand has no document,
\* and the term of its path finds none but those of files with the same hash.
NewIndexHasNoOldVersion ==
  newIndex /\ cur # NoFile =>
    \A d \in docs : d.path # cur.path /\ (Unique(cur.path) => Hash[d.path] # Hash[cur.path])

\* m_bDocDeletionCalled is set whenever the reader holds a deletion that no commit
\* has written, so that QIndexModifier::flush commits it.
UncommittedDeletionIsFlagged ==
  mode = "reader" /\ ~deletionCalled => deleted = savedDeleted

\* The document of a file that has not changed since is never taken from the
\* searches, by no race of the pass with the file system, no merge, and by no crash
\* as such.  Only removing the whole index does that, a file with the same hash, or
\* the opening of an index that has lost its segments.gen, as a crash within a commit
\* may leave it (lucyindexer::open creates it anew).
CurrentDocStays ==
  [][ pc # "closed" \/ (created /\ created') =>
        \A d \in SavedLive :
          file[d.path] = d.stat /\ Unique(d.path) => d \in SavedLive' ]_vars

-----------------------------------------------------------------------------
(* The index of the directory is a file catalogue.                          *)

AsEntry(d) == [path |-> d.path, version |-> d.stat, text |-> d.text]

Catalog == INSTANCE FileCatalog WITH entries <- {AsEntry(d) : d \in SavedLive},
                                     Confused <- {p \in Paths : ~Unique(p)}

\* What searches see changes as FileCatalog allows.
ImplementsCatalog == Catalog!Spec

\* Unless the thread ends, or the UI thread stays in removeIndex, every file that is
\* left alone becomes searchable in its latest version (indexerWorker::doWork loops for
\* ever).
EveryFileSearchable ==
  <>[](pc # "closed") /\ []<>(removing = "none") =>
    \A p \in Paths : <>[](file[p] # 0 => \E d \in SavedLive : d.path = p /\ d.stat = file[p])

\* Unless the thread ends, the documents of a file that stays away leave the
\* searches (indexerWorker::delDeletedFilesFromIdx visits every number below
\* its "maxDoc", indexerworker.cpp:289).
DeletedFilesLeave ==
  <>[](pc # "closed") /\ []<>(removing = "none") =>
    \A p \in Paths : <>[](file[p] = 0 => \A d \in SavedLive : d.path # p)

\* Every loop of doWork looks at the flag: an interrupted thread ends, be it
\* interrupted by onQuit or by removeIndex, as long as the UI thread returns from the
\* removal of other directories; but not if removeIndex waits for it while it waits
\* for the text of a file from the UI thread (indexerworker.cpp:157).
InterruptEndsUnlessAsked ==
  []<>(removing # "other") =>
    (stop ~> pc = "closed" \/ (pc = "ask" /\ removing = "this"))
=============================================================================
