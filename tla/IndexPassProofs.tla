-------------------------- MODULE IndexPassProofs --------------------------
(***************************************************************************)
(* Proofs about IndexPass, for any number of files, versions and documents *)
(* and any hash and date functions: where two files share a hash or two    *)
(* versions a second, the properties say what is left of them.             *)
(***************************************************************************)
EXTENDS IndexPass, TLAPS

-----------------------------------------------------------------------------
(* The inductive invariant.                                                 *)

\* What is open, what is committed and how the two differ.
StoreInv ==
  /\ pc = "closed" <=> mode = "closed"
  /\ mode = "closed" => docs = savedDocs /\ deleted = savedDeleted
  /\ mode = "writer" => savedDocs \subseteq docs /\ deleted = savedDeleted
  /\ mode = "reader" => docs = savedDocs /\ savedDeleted \subseteq deleted
  /\ mode # "closed" => created
  /\ pc = "purge" => docs = savedDocs
  /\ \A d, e \in docs : d.nr = e.nr => d = e
  /\ pc \in {"examine", "deleteDoc"} =>
       unseen \subseteq docs /\ (unseen # {} => mode = "reader")

Outdated(d) == file[d.path] # d.stat

\* Versions only grow, and no document is ahead of its file.
VersionInv ==
  /\ \A p \in Paths : file[p] \in {0, last[p]}
  /\ \A d \in docs \cup unseen \cup victims : d.stat <= last[d.path]
  /\ \A d \in docs : d.text # NoText => d.stat <= d.text /\ d.text <= last[d.path]
  /\ cur # NoFile => /\ cur.stat <= last[cur.path]
                     /\ cur.text # NoText => /\ cur.stat <= cur.text
                                             /\ cur.text <= last[cur.path]

\* What is known of the file in hand.
HandInv ==
  /\ cur # NoFile <=> pc \in {"lookup", "extract", "ask", "index", "flushOld", "add"}
  /\ cur # NoFile =>
       /\ cur.path \notin todo
       /\ \A d \in docs : d.path = cur.path => d.stat <= cur.stat
  /\ pc \in {"extract", "ask", "index"} =>
       \A d \in Live : d.path = cur.path => d.stat # cur.stat
  /\ pc \in {"flushOld", "add"} => \A d \in Live : d.path # cur.path
  /\ newIndex =>
       /\ pc \in {"scan", "lookup", "extract", "ask", "index", "add", "flushMany"}
       /\ \A d \in docs : d.path \notin todo \cup {cur.path}

\* Only documents of files that moved on are deleted, or of files that share their
\* hash.  Once the purge has deleted a document, its file has none left, so that the
\* ids of the second loop find only documents of other files.
DeletionInv ==
  /\ \A d \in deleted : Outdated(d) \/ ~Unique(d.path)
  /\ \A v \in victims, d \in Live : d.path # v.path
  /\ victims # {} => pc \in {"examine", "deleteDoc", "deleteIds", "flushIds"}
  /\ pc = "deleteDoc" => \A d \in unseen : IsHighest(d) => d \notin deleted /\ Outdated(d)
  /\ pc \in {"deleteIds", "flushIds"} => unseen \subseteq victims

IInv == TypeOK /\ StoreInv /\ VersionInv /\ HandInv /\ OneDocPerFile

-----------------------------------------------------------------------------
(* What the operations of QIndexModifier do to the documents.               *)

\* A commit changes no live document and leaves nothing uncommitted.
Committed == /\ docs' \subseteq docs
             /\ deleted' \subseteq deleted
             /\ deleted' \subseteq docs'
             /\ docs' \ deleted' = docs \ deleted
             /\ savedDocs' = docs' /\ savedDeleted' = deleted'
             /\ (mode = "reader" \/ docs = savedDocs) => docs' = docs

\* A deletion by the reader takes exactly the documents in S from the live ones,
\* and commits at most what the writer had buffered.
ReaderDeleted(S) ==
  /\ mode' = "reader" /\ created' = created
  /\ docs' \subseteq docs
  /\ S \subseteq deleted' /\ deleted' \subseteq deleted \cup S
  /\ deleted' \subseteq docs'
  /\ docs' \ deleted' = (docs \ deleted) \ S
  /\ savedDocs' = docs' /\ savedDeleted' \subseteq deleted'
  /\ savedDocs' \ savedDeleted' \in {docs \ deleted, savedDocs \ savedDeleted}
  /\ S = {} => \/ deleted' = savedDeleted'
               \/ deleted' = deleted /\ savedDeleted' = savedDeleted
  /\ (mode = "reader" \/ docs = savedDocs) => docs' = docs

\* A merge drops deleted documents only.
LEMMA MergesDropDeleted ==
  ASSUME NEW gone \in Merges
  PROVE  gone \subseteq deleted
BY DEF Merges

\* Closing or committing: what Committed says.
LEMMA SaveFacts ==
  ASSUME Save, deleted \subseteq docs
  PROVE  Committed
<1>1. PICK gone \in Merges : /\ docs' = docs \ gone
                             /\ deleted' = deleted \ gone
                             /\ savedDocs' = docs \ gone
                             /\ savedDeleted' = deleted \ gone
  BY DEF Save
<1>2. gone \subseteq deleted
  BY MergesDropDeleted
<1>3. (mode = "reader" \/ docs = savedDocs) => gone = {}
  BY DEF Merges
<1> QED
  BY <1>1, <1>2, <1>3 DEF Committed

\* What ReaderDelete does to a set of live documents is what ReaderDeleted says.
LEMMA ReaderDeleteFacts ==
  ASSUME IInv, NEW S, ReaderDelete(S),
         S \subseteq Live \/ (S \subseteq docs /\ mode = "reader")
  PROVE  ReaderDeleted(S)
<1>1. deleted \subseteq docs /\ S \subseteq docs
  BY DEF IInv, TypeOK, Live
<1>2. CASE mode = "reader"
  BY <1>1, <1>2 DEF ReaderDelete, ReaderDeleted, IInv, StoreInv
<1>3. CASE mode = "writer"
  <2>1. PICK gone \in Merges : /\ docs' = docs \ gone
                               /\ deleted' = (deleted \ gone) \cup S
                               /\ savedDocs' = docs \ gone
                               /\ savedDeleted' = deleted \ gone
    BY <1>3 DEF ReaderDelete
  <2>2. gone \subseteq deleted /\ (docs = savedDocs => gone = {})
    BY MergesDropDeleted DEF Merges
  <2>3. mode' = "reader" /\ created' = created
    BY DEF ReaderDelete
  <2> QED
    BY <1>1, <1>3, <2>1, <2>2, <2>3 DEF ReaderDeleted, Live
<1> QED
  BY <1>2, <1>3 DEF ReaderDelete

\* An addition adds one live document and commits, at most, everything.
Added(d) ==
  /\ mode' = "writer" /\ created' = created
  /\ docs' \subseteq docs \cup {d}
  /\ deleted' \subseteq deleted /\ deleted' \subseteq docs'
  /\ docs' \ deleted' = (docs \ deleted) \cup {d}
  /\ savedDocs' \subseteq docs' /\ savedDeleted' = deleted'
  /\ savedDeleted' \subseteq savedDocs'
  /\ \/ savedDocs' \ savedDeleted' = docs' \ deleted'
     \/ savedDocs' \ savedDeleted' \in {docs \ deleted, savedDocs \ savedDeleted}

\* addDocument adds one document to the live ones and commits all of them or what was
\* there.
LEMMA AddFacts ==
  ASSUME IInv, NEW n \in DocNrs, NEW d, d.nr = n, IsNextNr(n), AddDocument(d), mode # "closed"
  PROVE  Added(d)
<1>1. d \notin docs
  BY BoundAssumption DEF IsNextNr
<1>2. deleted \subseteq docs
  BY DEF IInv, TypeOK
<1>3. CASE /\ docs' = docs \cup {d}
           /\ savedDocs' = IF mode = "reader" THEN docs ELSE savedDocs
           /\ savedDeleted' = deleted
           /\ deleted' = deleted
  BY <1>1, <1>2, <1>3 DEF AddDocument, Added, IInv, StoreInv, TypeOK
<1>4. ASSUME NEW gone \in SUBSET deleted,
             docs' = (docs \ gone) \cup {d},
             deleted' = deleted \ gone,
             savedDocs' = docs', savedDeleted' = deleted'
      PROVE  Added(d)
  BY <1>1, <1>2, <1>4 DEF AddDocument, Added
<1> QED
  BY <1>3, <1>4 DEF AddDocument, AddAndCommit

-----------------------------------------------------------------------------
(* Every action preserves the invariant.                                    *)

\* openIndex: a new index has no documents, so none of a file still to come.
LEMMA OpenStep ==
  ASSUME IInv, Open
  PROVE  IInv'
<1> USE BoundAssumption, PathsAssumption DEF IInv, GoesUnlessStopped, Goes
<1>1. TypeOK'
  BY DEF Open, envVars, uiVars, passVars, purgeVars, indexVars, savedVars, TypeOK, Doc, File,
     NoFile, Version, Text, NoText, CheckPoints
<1>2. StoreInv'
  BY DEF Open, envVars, uiVars, passVars, purgeVars, indexVars, savedVars, TypeOK, StoreInv
<1>3. VersionInv'
  BY DEF Open, envVars, uiVars, passVars, purgeVars, indexVars, savedVars, TypeOK, VersionInv,
     Doc, File, NoFile, Version, Text, NoText
<1>4. HandInv'
  BY DEF Open, envVars, uiVars, passVars, purgeVars, indexVars, savedVars, TypeOK, HandInv,
     Doc, File, NoFile, Version, Text, NoText, Live, StoreInv
<1>5. OneDocPerFile'
  BY DEF Open, envVars, uiVars, passVars, purgeVars, indexVars, savedVars, TypeOK, StoreInv,
     OneDocPerFile, Live, SavedLive
<1> QED
  BY <1>1, <1>2, <1>3, <1>4, <1>5

\* dir: a file taken in hand is no longer to be visited.
LEMMA VisitStep ==
  ASSUME IInv, NEW p \in Paths, Visit(p)
  PROVE  IInv'
<1> USE BoundAssumption, PathsAssumption DEF IInv, GoesUnlessStopped, Goes
<1>1. TypeOK'
  BY DEF Visit, envVars, uiVars, passVars, purgeVars, indexVars, savedVars, TypeOK, Doc, File,
     NoFile, Version, Text, NoText, CheckPoints
<1>2. StoreInv'
  BY DEF Visit, envVars, uiVars, passVars, purgeVars, indexVars, savedVars, TypeOK, StoreInv
<1>3. VersionInv'
  BY DEF Visit, envVars, uiVars, passVars, purgeVars, indexVars, savedVars, TypeOK,
     VersionInv, Doc, File, NoFile, Version, Text, NoText
<1>4. HandInv'
  BY DEF Visit, envVars, uiVars, passVars, purgeVars, indexVars, savedVars, TypeOK, HandInv,
     Doc, File, NoFile, Version, Text, NoText, Live, VersionInv
<1>5. OneDocPerFile'
  BY DEF Visit, envVars, uiVars, passVars, purgeVars, indexVars, savedVars, TypeOK, StoreInv,
     OneDocPerFile, Live, SavedLive
<1> QED
  BY <1>1, <1>2, <1>3, <1>4, <1>5

\* dir: a file that is not there changes nothing else.
LEMMA SkipMissingStep ==
  ASSUME IInv, NEW p \in Paths, SkipMissing(p)
  PROVE  IInv'
<1> USE BoundAssumption, PathsAssumption DEF IInv, GoesUnlessStopped, Goes
<1>1. TypeOK'
  BY DEF SkipMissing, envVars, uiVars, passVars, purgeVars, indexVars, savedVars, TypeOK, Doc,
     File, NoFile, Version, Text, NoText, CheckPoints
<1>2. StoreInv'
  BY DEF SkipMissing, envVars, uiVars, passVars, purgeVars, indexVars, savedVars, TypeOK,
     StoreInv
<1>3. VersionInv'
  BY DEF SkipMissing, envVars, uiVars, passVars, purgeVars, indexVars, savedVars, TypeOK,
     VersionInv, Doc, File, NoFile, Version, Text, NoText
<1>4. HandInv'
  BY DEF SkipMissing, envVars, uiVars, passVars, purgeVars, indexVars, savedVars, TypeOK,
     HandInv, Doc, File, NoFile, Version, Text, NoText, Live
<1>5. OneDocPerFile'
  BY DEF SkipMissing, envVars, uiVars, passVars, purgeVars, indexVars, savedVars, TypeOK,
     StoreInv, OneDocPerFile, Live, SavedLive
<1> QED
  BY <1>1, <1>2, <1>3, <1>4, <1>5

\* isIndexed: a file with a document of its date is left alone.
LEMMA SkipIndexedStep ==
  ASSUME IInv, SkipIndexed
  PROVE  IInv'
<1>a. ReaderDelete({})
  BY DEF SkipIndexed
<1>b. {} \subseteq Live
  BY DEF Live
<1>r. ReaderDeleted({})
  BY <1>a, <1>b, ReaderDeleteFacts
<1> USE BoundAssumption, PathsAssumption DEF IInv, GoesUnlessStopped, Goes
<1>1. TypeOK'
  BY <1>r DEF SkipIndexed, envVars, uiVars, passVars, purgeVars, indexVars, savedVars, Live,
     ReaderDeleted, TypeOK, Doc, File, NoFile, Version, Text, NoText, CheckPoints
<1>2. StoreInv'
  BY <1>r DEF SkipIndexed, envVars, uiVars, passVars, purgeVars, indexVars, savedVars, Live,
     ReaderDeleted, TypeOK, StoreInv
<1>3. VersionInv'
  BY <1>r DEF SkipIndexed, envVars, uiVars, passVars, purgeVars, indexVars, savedVars, Live,
     ReaderDeleted, TypeOK, VersionInv, Doc, File, NoFile, Version, Text, NoText
<1>4. HandInv'
  BY <1>r DEF SkipIndexed, envVars, uiVars, passVars, purgeVars, indexVars, savedVars, Live,
     ReaderDeleted, TypeOK, HandInv, Doc, File, NoFile, Version, Text, NoText, Live
<1>5. OneDocPerFile'
  BY <1>r DEF SkipIndexed, envVars, uiVars, passVars, purgeVars, indexVars, savedVars, Live,
     ReaderDeleted, TypeOK, StoreInv, OneDocPerFile, Live, SavedLive
<1> QED
  BY <1>1, <1>2, <1>3, <1>4, <1>5

\* isIndexed: after a negative answer no live document has the date of the file in
\* hand.
LEMMA NotIndexedStep ==
  ASSUME IInv, NotIndexed
  PROVE  IInv'
<1>0. ASSUME ~newIndex PROVE ReaderDeleted({})
  <2>1. ReaderDelete({}) /\ {} \subseteq Live
    BY <1>0 DEF NotIndexed
  <2> QED
    BY <2>1, ReaderDeleteFacts
<1> USE DEF IInv, NotIndexed, GoesUnlessStopped, Goes, envVars, uiVars, passVars, purgeVars, savedVars
<1>1. CASE newIndex
  BY <1>1 DEF TypeOK, StoreInv, VersionInv, HandInv, OneDocPerFile, Live, SavedLive,
              CheckPoints, IsHighest
<1>2. CASE ~newIndex
  <2> USE <1>0, <1>2 DEF ReaderDeleted
  <2>1. TypeOK'
    BY DEF TypeOK, Doc, File, NoFile, Version, Text, NoText, CheckPoints
  <2>2. StoreInv'
    BY DEF TypeOK, StoreInv
  <2>3. VersionInv'
    BY DEF TypeOK, VersionInv
  <2>4. HandInv'
    BY DEF HandInv, Live, HasDoc, IdFnAndDate
  <2>5. OneDocPerFile'
    BY DEF OneDocPerFile, Live, SavedLive
  <2> QED
    BY <2>1, <2>2, <2>3, <2>4, <2>5
<1> QED
  BY <1>1, <1>2

\* A file that is too big keeps the text it has, none.
LEMMA TooBigStep ==
  ASSUME IInv, TooBig
  PROVE  IInv'
<1> USE BoundAssumption, PathsAssumption DEF IInv, GoesUnlessStopped, Goes
<1>1. TypeOK'
  BY DEF TooBig, envVars, uiVars, passVars, purgeVars, indexVars, savedVars, TypeOK, Doc,
     File, NoFile, Version, Text, NoText, CheckPoints, HandInv
<1>2. StoreInv'
  BY DEF TooBig, envVars, uiVars, passVars, purgeVars, indexVars, savedVars, TypeOK, StoreInv
<1>3. VersionInv'
  BY DEF TooBig, envVars, uiVars, passVars, purgeVars, indexVars, savedVars, TypeOK,
     VersionInv, Doc, File, NoFile, Version, Text, NoText, HandInv
<1>4. HandInv'
  BY DEF TooBig, envVars, uiVars, passVars, purgeVars, indexVars, savedVars, TypeOK, HandInv,
     Doc, File, NoFile, Version, Text, NoText, Live
<1>5. OneDocPerFile'
  BY DEF TooBig, envVars, uiVars, passVars, purgeVars, indexVars, savedVars, TypeOK,
     StoreInv, OneDocPerFile, Live, SavedLive
<1> QED
  BY <1>1, <1>2, <1>3, <1>4, <1>5

\* The call to the UI thread changes nothing yet.
LEMMA AskStep ==
  ASSUME IInv, Ask
  PROVE  IInv'
<1> USE BoundAssumption, PathsAssumption DEF IInv, GoesUnlessStopped, Goes
<1>1. TypeOK'
  BY DEF Ask, envVars, uiVars, passVars, purgeVars, indexVars, savedVars, TypeOK, Doc,
     File, NoFile, Version, Text, NoText, CheckPoints, HandInv
<1>2. StoreInv'
  BY DEF Ask, envVars, uiVars, passVars, purgeVars, indexVars, savedVars, TypeOK, StoreInv
<1>3. VersionInv'
  BY DEF Ask, envVars, uiVars, passVars, purgeVars, indexVars, savedVars, TypeOK,
     VersionInv, Doc, File, NoFile, Version, Text, NoText, HandInv
<1>4. HandInv'
  BY DEF Ask, envVars, uiVars, passVars, purgeVars, indexVars, savedVars, TypeOK, HandInv,
     Doc, File, NoFile, Version, Text, NoText, Live
<1>5. OneDocPerFile'
  BY DEF Ask, envVars, uiVars, passVars, purgeVars, indexVars, savedVars, TypeOK,
     StoreInv, OneDocPerFile, Live, SavedLive
<1> QED
  BY <1>1, <1>2, <1>3, <1>4, <1>5

\* getMetaContents: the text is not older than the date.
LEMMA AnswerStep ==
  ASSUME IInv, NEW t \in Text, Answer(t)
  PROVE  IInv'
<1> USE BoundAssumption, PathsAssumption DEF IInv, GoesUnlessStopped, Goes
<1>1. TypeOK'
  BY DEF Answer, envVars, uiVars, passVars, purgeVars, indexVars, savedVars, TypeOK, Doc,
     File, NoFile, Version, Text, NoText, CheckPoints, HandInv
<1>2. StoreInv'
  BY DEF Answer, envVars, uiVars, passVars, purgeVars, indexVars, savedVars, TypeOK, StoreInv
<1>3. VersionInv'
  BY DEF Answer, envVars, uiVars, passVars, purgeVars, indexVars, savedVars, TypeOK,
     VersionInv, Doc, File, NoFile, Version, Text, NoText, HandInv
<1>4. HandInv'
  BY DEF Answer, envVars, uiVars, passVars, purgeVars, indexVars, savedVars, TypeOK, HandInv,
     Doc, File, NoFile, Version, Text, NoText, Live
<1>5. OneDocPerFile'
  BY DEF Answer, envVars, uiVars, passVars, purgeVars, indexVars, savedVars, TypeOK,
     StoreInv, OneDocPerFile, Live, SavedLive
<1> QED
  BY <1>1, <1>2, <1>3, <1>4, <1>5

\* index: after the deletion no live document is one of the file in hand.
LEMMA DeleteOldStep ==
  ASSUME IInv, DeleteOld
  PROVE  IInv'
<1>a. ReaderDelete(OldVersions)
  BY DEF DeleteOld, DeleteDocuments
<1>b. OldVersions \subseteq Live
  BY DEF DeleteDocuments, OldVersions, Live
<1>r. ReaderDeleted(OldVersions)
  BY <1>a, <1>b, ReaderDeleteFacts
<1> USE BoundAssumption, PathsAssumption DEF IInv, GoesUnlessStopped, Goes
<1>1. TypeOK'
  BY <1>r DEF DeleteOld, envVars, uiVars, passVars, purgeVars, indexVars, savedVars,
     DeleteDocuments, OldVersions, Live, ReaderDeleted, TypeOK, Doc, File, NoFile,
     Version, Text, NoText, CheckPoints
<1>2. StoreInv'
  BY <1>r DEF DeleteOld, envVars, uiVars, passVars, purgeVars, indexVars, savedVars,
     DeleteDocuments, OldVersions, Live, ReaderDeleted, TypeOK, StoreInv
<1>3. VersionInv'
  BY <1>r DEF DeleteOld, envVars, uiVars, passVars, purgeVars, indexVars, savedVars,
     DeleteDocuments, OldVersions, Live, ReaderDeleted, TypeOK, VersionInv, Doc, File,
     NoFile, Version, Text, NoText
<1>4. HandInv'
  BY <1>r DEF DeleteOld, envVars, uiVars, passVars, purgeVars, indexVars, savedVars,
     DeleteDocuments, OldVersions, Live, ReaderDeleted, TypeOK, HandInv, Doc, File,
     NoFile, Version, Text, NoText, Live
<1>5. OneDocPerFile'
  BY <1>r DEF DeleteOld, envVars, uiVars, passVars, purgeVars, indexVars, savedVars,
     DeleteDocuments, OldVersions, Live, ReaderDeleted, TypeOK, StoreInv, OneDocPerFile,
     Live, SavedLive
<1> QED
  BY <1>1, <1>2, <1>3, <1>4, <1>5

\* index, new index: there was none to delete.
LEMMA KeepOldStep ==
  ASSUME IInv, KeepOld
  PROVE  IInv'
<1> USE BoundAssumption, PathsAssumption DEF IInv, GoesUnlessStopped, Goes
<1>1. TypeOK'
  BY DEF KeepOld, envVars, uiVars, passVars, purgeVars, indexVars, savedVars, TypeOK, Doc,
     File, NoFile, Version, Text, NoText, CheckPoints
<1>2. StoreInv'
  BY DEF KeepOld, envVars, uiVars, passVars, purgeVars, indexVars, savedVars, TypeOK, StoreInv
<1>3. VersionInv'
  BY DEF KeepOld, envVars, uiVars, passVars, purgeVars, indexVars, savedVars, TypeOK,
     VersionInv, Doc, File, NoFile, Version, Text, NoText
<1>4. HandInv'
  BY DEF KeepOld, envVars, uiVars, passVars, purgeVars, indexVars, savedVars, TypeOK, HandInv,
     Doc, File, NoFile, Version, Text, NoText, Live
<1>5. OneDocPerFile'
  BY DEF KeepOld, envVars, uiVars, passVars, purgeVars, indexVars, savedVars, TypeOK,
     StoreInv, OneDocPerFile, Live, SavedLive
<1> QED
  BY <1>1, <1>2, <1>3, <1>4, <1>5

\* index: committing the deletion brings no document back.
LEMMA FlushOldStep ==
  ASSUME IInv, FlushOld
  PROVE  IInv'
<1>s. Committed
  BY SaveFacts DEF FlushOld, Flush, TypeOK, IInv
<1> USE BoundAssumption, PathsAssumption DEF IInv, GoesUnlessStopped, Goes
<1>1. TypeOK'
  BY <1>s DEF FlushOld, envVars, uiVars, passVars, purgeVars, indexVars, savedVars, Flush,
     TypeOK, Committed, TypeOK, Doc, File, NoFile, Version, Text, NoText, CheckPoints
<1>2. StoreInv'
  BY <1>s DEF FlushOld, envVars, uiVars, passVars, purgeVars, indexVars, savedVars, Flush,
     TypeOK, Committed, TypeOK, StoreInv
<1>3. VersionInv'
  BY <1>s DEF FlushOld, envVars, uiVars, passVars, purgeVars, indexVars, savedVars, Flush,
     TypeOK, Committed, TypeOK, VersionInv, Doc, File, NoFile, Version, Text, NoText
<1>4. HandInv'
  BY <1>s DEF FlushOld, envVars, uiVars, passVars, purgeVars, indexVars, savedVars, Flush,
     TypeOK, Committed, TypeOK, HandInv, Doc, File, NoFile, Version, Text, NoText, Live
<1>5. OneDocPerFile'
  BY <1>s DEF FlushOld, envVars, uiVars, passVars, purgeVars, indexVars, savedVars, Flush,
     TypeOK, Committed, TypeOK, StoreInv, OneDocPerFile, Live, SavedLive
<1> QED
  BY <1>1, <1>2, <1>3, <1>4, <1>5

\* index: the file in hand had no live document, so it has one now.
LEMMA AddStep ==
  ASSUME IInv, Add
  PROVE  IInv'
<1> USE BoundAssumption, PathsAssumption
     DEF IInv, Add, envVars, uiVars, purgeVars
<1>1. PICK n \in DocNrs : IsNextNr(n) /\ AddDocument(NewDoc(n))
  OBVIOUS
<1>2. cur \in File /\ NewDoc(n) \in Doc /\ NewDoc(n).nr = n
  BY DEF TypeOK, HandInv, NewDoc, Doc, File
<1>3. Added(NewDoc(n))
  BY <1>1, <1>2, AddFacts DEF StoreInv
<1> USE <1>2, <1>3 DEF Added, NewDoc
<1>4. TypeOK'
  BY <1>1 DEF AddDocument, TypeOK, Doc, File, NoFile, Version, Text, NoText, CheckPoints
<1>5. StoreInv'
  BY <1>1, BoundAssumption DEF TypeOK, StoreInv, IsNextNr, Doc
<1>6. VersionInv'
  BY DEF TypeOK, VersionInv, HandInv, NoFile, Doc, File, Version, Text, NoText
<1>7. HandInv'
  BY DEF TypeOK, HandInv, NoFile, Doc, File, Live
<1>8. OneDocPerFile'
  BY DEF HandInv, OneDocPerFile, Live, SavedLive
<1> QED
  BY <1>4, <1>5, <1>6, <1>7, <1>8

\* index: the periodic commit changes no live document.
LEMMA FlushManyStep ==
  ASSUME IInv, FlushMany
  PROVE  IInv'
<1>s. Committed
  BY SaveFacts DEF FlushMany, Flush, TypeOK, IInv
<1> USE BoundAssumption, PathsAssumption DEF IInv, GoesUnlessStopped, Goes
<1>1. TypeOK'
  BY <1>s DEF FlushMany, envVars, uiVars, passVars, purgeVars, indexVars, savedVars, Flush,
     TypeOK, Committed, TypeOK, Doc, File, NoFile, Version, Text, NoText, CheckPoints
<1>2. StoreInv'
  BY <1>s DEF FlushMany, envVars, uiVars, passVars, purgeVars, indexVars, savedVars, Flush,
     TypeOK, Committed, TypeOK, StoreInv
<1>3. VersionInv'
  BY <1>s DEF FlushMany, envVars, uiVars, passVars, purgeVars, indexVars, savedVars, Flush,
     TypeOK, Committed, TypeOK, VersionInv, Doc, File, NoFile, Version, Text, NoText
<1>4. HandInv'
  BY <1>s DEF FlushMany, envVars, uiVars, passVars, purgeVars, indexVars, savedVars, Flush,
     TypeOK, Committed, TypeOK, HandInv, Doc, File, NoFile, Version, Text, NoText, Live
<1>5. OneDocPerFile'
  BY <1>s DEF FlushMany, envVars, uiVars, passVars, purgeVars, indexVars, savedVars, Flush,
     TypeOK, Committed, TypeOK, StoreInv, OneDocPerFile, Live, SavedLive
<1> QED
  BY <1>1, <1>2, <1>3, <1>4, <1>5

\* onIndexerThreadFinished: everything is committed and the index is no longer new.
LEMMA EndScanStep ==
  ASSUME IInv, EndScan
  PROVE  IInv'
<1>s. Committed
  BY SaveFacts DEF EndScan, Flush, TypeOK, IInv
<1> USE BoundAssumption, PathsAssumption DEF IInv, GoesUnlessStopped, Goes
<1>1. TypeOK'
  BY <1>s DEF EndScan, envVars, uiVars, passVars, purgeVars, indexVars, savedVars, Flush,
     TypeOK, Committed, TypeOK, Doc, File, NoFile, Version, Text, NoText, CheckPoints
<1>2. StoreInv'
  BY <1>s DEF EndScan, envVars, uiVars, passVars, purgeVars, indexVars, savedVars, Flush,
     TypeOK, Committed, TypeOK, StoreInv
<1>3. VersionInv'
  BY <1>s DEF EndScan, envVars, uiVars, passVars, purgeVars, indexVars, savedVars, Flush,
     TypeOK, Committed, TypeOK, VersionInv, Doc, File, NoFile, Version, Text, NoText
<1>4. HandInv'
  BY <1>s DEF EndScan, envVars, uiVars, passVars, purgeVars, indexVars, savedVars, Flush,
     TypeOK, Committed, TypeOK, HandInv, Doc, File, NoFile, Version, Text, NoText, Live
<1>5. OneDocPerFile'
  BY <1>s DEF EndScan, envVars, uiVars, passVars, purgeVars, indexVars, savedVars, Flush,
     TypeOK, Committed, TypeOK, StoreInv, OneDocPerFile, Live, SavedLive
<1> QED
  BY <1>1, <1>2, <1>3, <1>4, <1>5

\* delDeletedFilesFromIdx: what the purge visits is stored in the index.
LEMMA BeginPurgeStep ==
  ASSUME IInv, BeginPurge
  PROVE  IInv'
<1>0. ASSUME unseen' # {} PROVE ReaderDeleted({})
  <2>1. ReaderDelete({}) /\ {} \subseteq Live
    BY <1>0 DEF BeginPurge
  <2> QED
    BY <2>1, ReaderDeleteFacts
<1> USE DEF IInv, BeginPurge, GoesUnlessStopped, Goes, envVars, uiVars, passVars, savedVars
<1>1. CASE unseen' = {}
  BY <1>1 DEF TypeOK, StoreInv, VersionInv, HandInv, OneDocPerFile, Live, SavedLive,
     CheckPoints
<1>2. CASE unseen' # {}
  <2> USE <1>0, <1>2 DEF ReaderDeleted
  <2>1. TypeOK'
    BY DEF TypeOK, CheckPoints
  <2>2. StoreInv'
    BY DEF TypeOK, StoreInv
  <2>3. VersionInv'
    BY DEF TypeOK, VersionInv
  <2>4. HandInv'
    BY DEF HandInv, Live
  <2>5. OneDocPerFile'
    BY DEF OneDocPerFile, Live, SavedLive
  <2> QED
    BY <2>1, <2>2, <2>3, <2>4, <2>5
<1> QED
  BY <1>1, <1>2

\* The purge passes over a deleted document or one whose file exists.
LEMMA KeepStep ==
  ASSUME IInv, NEW d \in unseen, Keep(d)
  PROVE  IInv'
<1> USE BoundAssumption, PathsAssumption DEF IInv, GoesUnlessStopped, Goes
<1>1. TypeOK'
  BY DEF Keep, envVars, uiVars, passVars, purgeVars, indexVars, savedVars, TypeOK, Doc, File,
     NoFile, Version, Text, NoText, CheckPoints
<1>2. StoreInv'
  BY DEF Keep, envVars, uiVars, passVars, purgeVars, indexVars, savedVars, TypeOK, StoreInv
<1>3. VersionInv'
  BY DEF Keep, envVars, uiVars, passVars, purgeVars, indexVars, savedVars, TypeOK, VersionInv,
     Doc, File, NoFile, Version, Text, NoText
<1>4. HandInv'
  BY DEF Keep, envVars, uiVars, passVars, purgeVars, indexVars, savedVars, TypeOK, HandInv,
     Doc, File, NoFile, Version, Text, NoText, Live
<1>5. OneDocPerFile'
  BY DEF Keep, envVars, uiVars, passVars, purgeVars, indexVars, savedVars, TypeOK, StoreInv,
     OneDocPerFile, Live, SavedLive
<1> QED
  BY <1>1, <1>2, <1>3, <1>4, <1>5

\* The purge finds a document without file.
LEMMA FindMissingStep ==
  ASSUME IInv, NEW d \in unseen, FindMissing(d)
  PROVE  IInv'
<1> USE BoundAssumption, PathsAssumption DEF IInv, GoesUnlessStopped, Goes
<1>1. TypeOK'
  BY DEF FindMissing, envVars, uiVars, passVars, purgeVars, indexVars, savedVars, TypeOK, Doc,
     File, NoFile, Version, Text, NoText, CheckPoints
<1>2. StoreInv'
  BY DEF FindMissing, envVars, uiVars, passVars, purgeVars, indexVars, savedVars, TypeOK,
     StoreInv
<1>3. VersionInv'
  BY DEF FindMissing, envVars, uiVars, passVars, purgeVars, indexVars, savedVars, TypeOK,
     VersionInv, Doc, File, NoFile, Version, Text, NoText
<1>4. HandInv'
  BY DEF FindMissing, envVars, uiVars, passVars, purgeVars, indexVars, savedVars, TypeOK,
     HandInv, Doc, File, NoFile, Version, Text, NoText, Live
<1>5. OneDocPerFile'
  BY DEF FindMissing, envVars, uiVars, passVars, purgeVars, indexVars, savedVars, TypeOK,
     StoreInv, OneDocPerFile, Live, SavedLive
<1> QED
  BY <1>1, <1>2, <1>3, <1>4, <1>5

\* The purge deletes it by its number.
LEMMA DeleteMissingStep ==
  ASSUME IInv, NEW d \in unseen, DeleteMissing(d)
  PROVE  IInv'
<1>a. ReaderDelete({d})
  BY DEF DeleteMissing
<1>b. {d} \subseteq docs /\ mode = "reader"
  BY DEF IInv, StoreInv, DeleteMissing, GoesUnlessStopped, Goes
<1>r. ReaderDeleted({d})
  BY <1>a, <1>b, ReaderDeleteFacts
<1> USE BoundAssumption, PathsAssumption DEF IInv, GoesUnlessStopped, Goes
<1>1. TypeOK'
  BY <1>r DEF DeleteMissing, envVars, uiVars, passVars, purgeVars, indexVars, savedVars,
     StoreInv, ReaderDeleted, TypeOK, Doc, File, NoFile, Version, Text, NoText,
     CheckPoints
<1>2. StoreInv'
  BY <1>r DEF DeleteMissing, envVars, uiVars, passVars, purgeVars, indexVars, savedVars,
     StoreInv, ReaderDeleted, TypeOK, StoreInv
<1>3. VersionInv'
  BY <1>r DEF DeleteMissing, envVars, uiVars, passVars, purgeVars, indexVars, savedVars,
     StoreInv, ReaderDeleted, TypeOK, VersionInv, Doc, File, NoFile, Version, Text,
     NoText
<1>4. HandInv'
  BY <1>r DEF DeleteMissing, envVars, uiVars, passVars, purgeVars, indexVars, savedVars,
     StoreInv, ReaderDeleted, TypeOK, HandInv, Doc, File, NoFile, Version, Text, NoText,
     Live
<1>5. OneDocPerFile'
  BY <1>r DEF DeleteMissing, envVars, uiVars, passVars, purgeVars, indexVars, savedVars,
     StoreInv, ReaderDeleted, TypeOK, StoreInv, OneDocPerFile, Live, SavedLive
<1> QED
  BY <1>1, <1>2, <1>3, <1>4, <1>5

\* The second loop starts over with the victims of the first.
LEMMA BeginSecondLoopStep ==
  ASSUME IInv, BeginSecondLoop
  PROVE  IInv'
<1> USE BoundAssumption, PathsAssumption DEF IInv, GoesUnlessStopped, Goes
<1>1. TypeOK'
  BY DEF BeginSecondLoop, envVars, uiVars, passVars, purgeVars, indexVars, savedVars, TypeOK,
     Doc, File, NoFile, Version, Text, NoText, CheckPoints
<1>2. StoreInv'
  BY DEF BeginSecondLoop, envVars, uiVars, passVars, purgeVars, indexVars, savedVars, TypeOK,
     StoreInv
<1>3. VersionInv'
  BY DEF BeginSecondLoop, envVars, uiVars, passVars, purgeVars, indexVars, savedVars, TypeOK,
     VersionInv, Doc, File, NoFile, Version, Text, NoText
<1>4. HandInv'
  BY DEF BeginSecondLoop, envVars, uiVars, passVars, purgeVars, indexVars, savedVars, TypeOK,
     HandInv, Doc, File, NoFile, Version, Text, NoText, Live
<1>5. OneDocPerFile'
  BY DEF BeginSecondLoop, envVars, uiVars, passVars, purgeVars, indexVars, savedVars, TypeOK,
     StoreInv, OneDocPerFile, Live, SavedLive
<1> QED
  BY <1>1, <1>2, <1>3, <1>4, <1>5

\* delDoc: every document with the date id of a victim is deleted.
LEMMA DeleteIdStep ==
  ASSUME IInv, NEW d \in unseen, DeleteId(d)
  PROVE  IInv'
<1>a. ReaderDelete(SameId(d))
  BY DEF DeleteId, DeleteDocuments
<1>b. SameId(d) \subseteq Live
  BY DEF DeleteDocuments, SameId, Live
<1>r. ReaderDeleted(SameId(d))
  BY <1>a, <1>b, ReaderDeleteFacts
<1> USE BoundAssumption, PathsAssumption DEF IInv, GoesUnlessStopped, Goes
<1>1. TypeOK'
  BY <1>r DEF DeleteId, envVars, uiVars, passVars, purgeVars, indexVars, savedVars,
     DeleteDocuments, SameId, Live, ReaderDeleted, TypeOK, Doc, File, NoFile, Version,
     Text, NoText, CheckPoints
<1>2. StoreInv'
  BY <1>r DEF DeleteId, envVars, uiVars, passVars, purgeVars, indexVars, savedVars,
     DeleteDocuments, SameId, Live, ReaderDeleted, TypeOK, StoreInv
<1>3. VersionInv'
  BY <1>r DEF DeleteId, envVars, uiVars, passVars, purgeVars, indexVars, savedVars,
     DeleteDocuments, SameId, Live, ReaderDeleted, TypeOK, VersionInv, Doc, File, NoFile,
     Version, Text, NoText
<1>4. HandInv'
  BY <1>r DEF DeleteId, envVars, uiVars, passVars, purgeVars, indexVars, savedVars,
     DeleteDocuments, SameId, Live, ReaderDeleted, TypeOK, HandInv, Doc, File, NoFile,
     Version, Text, NoText, Live
<1>5. OneDocPerFile'
  BY <1>r DEF DeleteId, envVars, uiVars, passVars, purgeVars, indexVars, savedVars,
     DeleteDocuments, SameId, Live, ReaderDeleted, TypeOK, StoreInv, OneDocPerFile, Live,
     SavedLive
<1> QED
  BY <1>1, <1>2, <1>3, <1>4, <1>5

\* delDoc: its commit changes no live document.
LEMMA FlushIdsStep ==
  ASSUME IInv, FlushIds
  PROVE  IInv'
<1>s. Committed
  BY SaveFacts DEF FlushIds, Flush, TypeOK, IInv
<1> USE BoundAssumption, PathsAssumption DEF IInv, GoesUnlessStopped, Goes
<1>1. TypeOK'
  BY <1>s DEF FlushIds, envVars, uiVars, passVars, purgeVars, indexVars, savedVars, Flush,
     TypeOK, Committed, TypeOK, Doc, File, NoFile, Version, Text, NoText, CheckPoints
<1>2. StoreInv'
  BY <1>s DEF FlushIds, envVars, uiVars, passVars, purgeVars, indexVars, savedVars, Flush,
     TypeOK, Committed, TypeOK, StoreInv
<1>3. VersionInv'
  BY <1>s DEF FlushIds, envVars, uiVars, passVars, purgeVars, indexVars, savedVars, Flush,
     TypeOK, Committed, TypeOK, VersionInv, Doc, File, NoFile, Version, Text, NoText
<1>4. HandInv'
  BY <1>s DEF FlushIds, envVars, uiVars, passVars, purgeVars, indexVars, savedVars, Flush,
     TypeOK, Committed, TypeOK, HandInv, Doc, File, NoFile, Version, Text, NoText, Live
<1>5. OneDocPerFile'
  BY <1>s DEF FlushIds, envVars, uiVars, passVars, purgeVars, indexVars, savedVars, Flush,
     TypeOK, Committed, TypeOK, StoreInv, OneDocPerFile, Live, SavedLive
<1> QED
  BY <1>1, <1>2, <1>3, <1>4, <1>5

\* The end of the purge and its last commit.
LEMMA EndPurgeStep ==
  ASSUME IInv, EndPurge
  PROVE  IInv'
<1> USE DEF IInv, EndPurge, GoesUnlessStopped, Goes, envVars, uiVars, passVars, savedVars
<1>1. CASE UNCHANGED <<deletionCalled, mode, docs, deleted, savedVars>>
  BY <1>1 DEF TypeOK, StoreInv, VersionInv, HandInv, OneDocPerFile, Live, SavedLive,
     CheckPoints
<1>2. CASE Flush
  <2>s. Committed
    BY <1>2, SaveFacts DEF Flush, TypeOK
  <2> USE <1>2, <2>s DEF Committed, Flush
  <2>1. TypeOK'
    BY DEF TypeOK, CheckPoints
  <2>2. StoreInv'
    BY DEF TypeOK, StoreInv
  <2>3. VersionInv'
    BY DEF TypeOK, VersionInv
  <2>4. HandInv'
    BY DEF HandInv, Live
  <2>5. OneDocPerFile'
    BY DEF OneDocPerFile, Live, SavedLive
  <2> QED
    BY <2>1, <2>2, <2>3, <2>4, <2>5
<1> QED
  BY <1>1, <1>2

\* The next scan begins with all files.
LEMMA NextPassStep ==
  ASSUME IInv, NextPass
  PROVE  IInv'
<1> USE BoundAssumption, PathsAssumption DEF IInv, GoesUnlessStopped, Goes
<1>1. TypeOK'
  BY DEF NextPass, envVars, uiVars, passVars, purgeVars, indexVars, savedVars, TypeOK, Doc,
     File, NoFile, Version, Text, NoText, CheckPoints
<1>2. StoreInv'
  BY DEF NextPass, envVars, uiVars, passVars, purgeVars, indexVars, savedVars, TypeOK, StoreInv
<1>3. VersionInv'
  BY DEF NextPass, envVars, uiVars, passVars, purgeVars, indexVars, savedVars, TypeOK,
     VersionInv, Doc, File, NoFile, Version, Text, NoText
<1>4. HandInv'
  BY DEF NextPass, envVars, uiVars, passVars, purgeVars, indexVars, savedVars, TypeOK,
     HandInv, Doc, File, NoFile, Version, Text, NoText, Live
<1>5. OneDocPerFile'
  BY DEF NextPass, envVars, uiVars, passVars, purgeVars, indexVars, savedVars, TypeOK,
     StoreInv, OneDocPerFile, Live, SavedLive
<1> QED
  BY <1>1, <1>2, <1>3, <1>4, <1>5

\* finishIndexing: closing commits, so the disk has what the open index had.
LEMMA FinishIndexingStep ==
  ASSUME IInv, FinishIndexing
  PROVE  IInv'
<1>s. Committed
  BY SaveFacts DEF FinishIndexing, TypeOK, IInv
<1> USE BoundAssumption, PathsAssumption DEF IInv, GoesUnlessStopped, Goes
<1>1. TypeOK'
  BY <1>s DEF FinishIndexing, envVars, uiVars, passVars, purgeVars, indexVars, savedVars,
     TypeOK, Committed, TypeOK, Doc, File, NoFile, Version, Text, NoText, CheckPoints
<1>2. StoreInv'
  BY <1>s DEF FinishIndexing, envVars, uiVars, passVars, purgeVars, indexVars, savedVars,
     TypeOK, Committed, TypeOK, StoreInv
<1>3. VersionInv'
  BY <1>s DEF FinishIndexing, envVars, uiVars, passVars, purgeVars, indexVars, savedVars,
     TypeOK, Committed, TypeOK, VersionInv, Doc, File, NoFile, Version, Text, NoText
<1>4. HandInv'
  BY <1>s DEF FinishIndexing, envVars, uiVars, passVars, purgeVars, indexVars, savedVars,
     TypeOK, Committed, TypeOK, HandInv, Doc, File, NoFile, Version, Text, NoText, Live
<1>5. OneDocPerFile'
  BY <1>s DEF FinishIndexing, envVars, uiVars, passVars, purgeVars, indexVars, savedVars,
     TypeOK, Committed, TypeOK, StoreInv, OneDocPerFile, Live, SavedLive
<1> QED
  BY <1>1, <1>2, <1>3, <1>4, <1>5

\* An interruption only sets the flag.
LEMMA InterruptStep ==
  ASSUME IInv, Interrupt
  PROVE  IInv'
<1> USE BoundAssumption, PathsAssumption DEF IInv, GoesUnlessStopped, Goes
<1>1. TypeOK'
  BY DEF Interrupt, envVars, uiVars, passVars, purgeVars, indexVars, savedVars, TypeOK, Doc,
     File, NoFile, Version, Text, NoText, CheckPoints
<1>2. StoreInv'
  BY DEF Interrupt, envVars, uiVars, passVars, purgeVars, indexVars, savedVars, TypeOK, StoreInv
<1>3. VersionInv'
  BY DEF Interrupt, envVars, uiVars, passVars, purgeVars, indexVars, savedVars, TypeOK,
     VersionInv, Doc, File, NoFile, Version, Text, NoText
<1>4. HandInv'
  BY DEF Interrupt, envVars, uiVars, passVars, purgeVars, indexVars, savedVars, TypeOK,
     HandInv, Doc, File, NoFile, Version, Text, NoText, Live
<1>5. OneDocPerFile'
  BY DEF Interrupt, envVars, uiVars, passVars, purgeVars, indexVars, savedVars, TypeOK,
     StoreInv, OneDocPerFile, Live, SavedLive
<1> QED
  BY <1>1, <1>2, <1>3, <1>4, <1>5

\* removeIndex sets the flag, too.
LEMMA BeginRemovalStep ==
  ASSUME IInv, BeginRemoval
  PROVE  IInv'
<1> USE BoundAssumption, PathsAssumption DEF IInv, GoesUnlessStopped, Goes
<1>1. TypeOK'
  BY DEF BeginRemoval, envVars, uiVars, passVars, purgeVars, indexVars, savedVars, TypeOK, Doc,
     File, NoFile, Version, Text, NoText, CheckPoints, HandInv
<1>2. StoreInv'
  BY DEF BeginRemoval, envVars, uiVars, passVars, purgeVars, indexVars, savedVars, TypeOK, StoreInv
<1>3. VersionInv'
  BY DEF BeginRemoval, envVars, uiVars, passVars, purgeVars, indexVars, savedVars, TypeOK,
     VersionInv, Doc, File, NoFile, Version, Text, NoText, HandInv
<1>4. HandInv'
  BY DEF BeginRemoval, envVars, uiVars, passVars, purgeVars, indexVars, savedVars, TypeOK, HandInv,
     Doc, File, NoFile, Version, Text, NoText, Live
<1>5. OneDocPerFile'
  BY DEF BeginRemoval, envVars, uiVars, passVars, purgeVars, indexVars, savedVars, TypeOK,
     StoreInv, OneDocPerFile, Live, SavedLive
<1> QED
  BY <1>1, <1>2, <1>3, <1>4, <1>5

\* The removal of another directory leaves this one alone.
LEMMA RemoveOtherStep ==
  ASSUME IInv, RemoveOther
  PROVE  IInv'
<1> USE BoundAssumption, PathsAssumption DEF IInv, GoesUnlessStopped, Goes
<1>1. TypeOK'
  BY DEF RemoveOther, envVars, uiVars, passVars, purgeVars, indexVars, savedVars, TypeOK, Doc,
     File, NoFile, Version, Text, NoText, CheckPoints, HandInv
<1>2. StoreInv'
  BY DEF RemoveOther, envVars, uiVars, passVars, purgeVars, indexVars, savedVars, TypeOK, StoreInv
<1>3. VersionInv'
  BY DEF RemoveOther, envVars, uiVars, passVars, purgeVars, indexVars, savedVars, TypeOK,
     VersionInv, Doc, File, NoFile, Version, Text, NoText, HandInv
<1>4. HandInv'
  BY DEF RemoveOther, envVars, uiVars, passVars, purgeVars, indexVars, savedVars, TypeOK, HandInv,
     Doc, File, NoFile, Version, Text, NoText, Live
<1>5. OneDocPerFile'
  BY DEF RemoveOther, envVars, uiVars, passVars, purgeVars, indexVars, savedVars, TypeOK,
     StoreInv, OneDocPerFile, Live, SavedLive
<1> QED
  BY <1>1, <1>2, <1>3, <1>4, <1>5

\* A crash leaves what was committed.
LEMMA CrashStep ==
  ASSUME IInv, Crash
  PROVE  IInv'
<1> USE BoundAssumption, PathsAssumption DEF IInv, GoesUnlessStopped, Goes
<1>1. TypeOK'
  BY DEF Crash, Die, envVars, uiVars, passVars, purgeVars, indexVars, savedVars, TypeOK, Doc, File,
     NoFile, Version, Text, NoText, CheckPoints
<1>2. StoreInv'
  BY DEF Crash, Die, envVars, uiVars, passVars, purgeVars, indexVars, savedVars, TypeOK, StoreInv
<1>3. VersionInv'
  BY DEF Crash, Die, envVars, uiVars, passVars, purgeVars, indexVars, savedVars, TypeOK,
     VersionInv, Doc, File, NoFile, Version, Text, NoText, StoreInv
<1>4. HandInv'
  BY DEF Crash, Die, envVars, uiVars, passVars, purgeVars, indexVars, savedVars, TypeOK, HandInv,
     Doc, File, NoFile, Version, Text, NoText, Live
<1>5. OneDocPerFile'
  BY DEF Crash, Die, envVars, uiVars, passVars, purgeVars, indexVars, savedVars, TypeOK, StoreInv,
     OneDocPerFile, Live, SavedLive
<1> QED
  BY <1>1, <1>2, <1>3, <1>4, <1>5

\* A crash within a commit leaves the documents of the commit, without segments.gen.
LEMMA CrashInCommitFacts ==
  ASSUME IInv, CrashInCommit
  PROVE  /\ savedDeleted' \subseteq savedDocs'
         /\ \/ savedDocs' \subseteq docs /\ SavedLive' = Live
            \/ \E n \in DocNrs : /\ pc = "add" /\ IsNextNr(n)
                                /\ savedDocs' \subseteq docs \cup {NewDoc(n)}
                                /\ SavedLive' = Live \cup {NewDoc(n)}
<1>0. deleted \subseteq docs
  BY DEF IInv, TypeOK
<1>1. ASSUME NEW gone \in Merges, savedDocs' = docs \ gone, savedDeleted' = deleted \ gone
      PROVE  /\ savedDeleted' \subseteq savedDocs'
             /\ savedDocs' \subseteq docs /\ SavedLive' = Live
  BY <1>0, <1>1, MergesDropDeleted DEF SavedLive, Live
<1>2. ASSUME NEW n \in DocNrs, NEW gone \in SUBSET deleted, IsNextNr(n),
             savedDocs' = (docs \ gone) \cup {NewDoc(n)}, savedDeleted' = deleted \ gone
      PROVE  /\ savedDeleted' \subseteq savedDocs'
             /\ savedDocs' \subseteq docs \cup {NewDoc(n)}
             /\ SavedLive' = Live \cup {NewDoc(n)}
  <2>1. NewDoc(n) \notin docs
    BY <1>2, BoundAssumption DEF IsNextNr, NewDoc
  <2> QED
    BY <1>0, <1>2, <2>1 DEF SavedLive, Live
<1> QED
  BY <1>1, <1>2 DEF CrashInCommit

\* A crash within a commit keeps what the commit and the invariant say.
LEMMA CrashInCommitStep ==
  ASSUME IInv, CrashInCommit
  PROVE  IInv'
<1> USE BoundAssumption, PathsAssumption DEF IInv, CrashInCommit, Die, envVars
<1>0. savedDeleted' \subseteq savedDocs'
  BY CrashInCommitFacts
<1>1. PICK D : /\ savedDocs' \subseteq docs \cup D
               /\ SavedLive' = Live \cup D
               /\ D = {} \/ \E n \in DocNrs : D = {NewDoc(n)} /\ pc = "add" /\ IsNextNr(n)
  BY CrashInCommitFacts
<1>2. ASSUME NEW d \in D
      PROVE  /\ d \in Doc /\ pc = "add" /\ IsNextNr(d.nr)
             /\ d.path = cur.path /\ d.stat = cur.stat /\ d.text = cur.text
             /\ cur # NoFile /\ D = {d}
  BY <1>1 DEF TypeOK, HandInv, NewDoc, Doc, File
<1>3. TypeOK'
  BY <1>0, <1>1, <1>2 DEF TypeOK, CheckPoints
<1>4. StoreInv'
  <2>0. ASSUME NEW d \in D, NEW e \in docs PROVE d.nr # e.nr
    <3>1. e.nr < d.nr /\ e.nr \in Nat /\ d.nr \in Nat
      BY <1>2 DEF TypeOK, Doc, IsNextNr
    <3> QED
      BY <3>1
  <2>1. \A d, e \in docs \cup D : d.nr = e.nr => d = e
    BY <1>2, <2>0 DEF StoreInv
  <2> QED
    BY <1>1, <2>1 DEF StoreInv
<1>5. VersionInv'
  BY <1>1, <1>2 DEF TypeOK, VersionInv
<1>6. HandInv'
  BY DEF HandInv
<1>7. OneDocPerFile'
  <2>1. \A d, e \in Live \cup D : d.path = e.path => d = e
    BY <1>2 DEF OneDocPerFile, HandInv
  <2>2. Live' = Live \cup D /\ SavedLive' = Live \cup D
    BY <1>1 DEF Live, SavedLive
  <2> QED
    BY <2>1, <2>2 DEF OneDocPerFile
<1> QED
  BY <1>3, <1>4, <1>5, <1>6, <1>7

\* removeIndex leaves no document.
LEMMA EraseStep ==
  ASSUME IInv, Erase
  PROVE  IInv'
<1> USE BoundAssumption, PathsAssumption DEF IInv, GoesUnlessStopped, Goes
<1>1. TypeOK'
  BY DEF Erase, envVars, uiVars, passVars, purgeVars, indexVars, savedVars, TypeOK, Doc, File,
     NoFile, Version, Text, NoText, CheckPoints
<1>2. StoreInv'
  BY DEF Erase, envVars, uiVars, passVars, purgeVars, indexVars, savedVars, TypeOK, StoreInv
<1>3. VersionInv'
  BY DEF Erase, envVars, uiVars, passVars, purgeVars, indexVars, savedVars, TypeOK,
     VersionInv, Doc, File, NoFile, Version, Text, NoText
<1>4. HandInv'
  BY DEF Erase, envVars, uiVars, passVars, purgeVars, indexVars, savedVars, TypeOK, HandInv,
     Doc, File, NoFile, Version, Text, NoText, Live
<1>5. OneDocPerFile'
  BY DEF Erase, envVars, uiVars, passVars, purgeVars, indexVars, savedVars, TypeOK, StoreInv,
     OneDocPerFile, Live, SavedLive
<1> QED
  BY <1>1, <1>2, <1>3, <1>4, <1>5

\* A new version of a file is larger than any before.
LEMMA WriteStep ==
  ASSUME IInv, NEW p \in Paths, Write(p)
  PROVE  IInv'
<1> USE BoundAssumption, PathsAssumption DEF IInv, GoesUnlessStopped, Goes
<1>1. TypeOK'
  BY DEF Write, envVars, uiVars, passVars, purgeVars, indexVars, savedVars, TypeOK, Doc, File,
     NoFile, Version, Text, NoText, CheckPoints
<1>2. StoreInv'
  BY DEF Write, envVars, uiVars, passVars, purgeVars, indexVars, savedVars, TypeOK, StoreInv
<1>3. VersionInv'
  BY DEF Write, envVars, uiVars, passVars, purgeVars, indexVars, savedVars, TypeOK,
     VersionInv, Doc, File, NoFile, Version, Text, NoText
<1>4. HandInv'
  BY DEF Write, envVars, uiVars, passVars, purgeVars, indexVars, savedVars, TypeOK, HandInv,
     Doc, File, NoFile, Version, Text, NoText, Live
<1>5. OneDocPerFile'
  BY DEF Write, envVars, uiVars, passVars, purgeVars, indexVars, savedVars, TypeOK, StoreInv,
     OneDocPerFile, Live, SavedLive
<1> QED
  BY <1>1, <1>2, <1>3, <1>4, <1>5

\* A file that is removed keeps its last version in mind.
LEMMA RemoveStep ==
  ASSUME IInv, NEW p \in Paths, Remove(p)
  PROVE  IInv'
<1> USE BoundAssumption, PathsAssumption DEF IInv, GoesUnlessStopped, Goes
<1>1. TypeOK'
  BY DEF Remove, envVars, uiVars, passVars, purgeVars, indexVars, savedVars, TypeOK, Doc,
     File, NoFile, Version, Text, NoText, CheckPoints
<1>2. StoreInv'
  BY DEF Remove, envVars, uiVars, passVars, purgeVars, indexVars, savedVars, TypeOK, StoreInv
<1>3. VersionInv'
  BY DEF Remove, envVars, uiVars, passVars, purgeVars, indexVars, savedVars, TypeOK,
     VersionInv, Doc, File, NoFile, Version, Text, NoText
<1>4. HandInv'
  BY DEF Remove, envVars, uiVars, passVars, purgeVars, indexVars, savedVars, TypeOK, HandInv,
     Doc, File, NoFile, Version, Text, NoText, Live
<1>5. OneDocPerFile'
  BY DEF Remove, envVars, uiVars, passVars, purgeVars, indexVars, savedVars, TypeOK, StoreInv,
     OneDocPerFile, Live, SavedLive
<1> QED
  BY <1>1, <1>2, <1>3, <1>4, <1>5

-----------------------------------------------------------------------------
(* Invariance.                                                              *)

\* The invariant holds at first.
LEMMA InitInv == Init => IInv
<1> SUFFICES ASSUME Init PROVE IInv
  OBVIOUS
<1> USE DEF Init
<1>1. TypeOK
  <2>1. 1 \in Version
    BY BoundAssumption DEF Version
  <2>2. file \in [Paths -> Version \cup {0}]
    BY <2>1
  <2> QED
    BY <2>2 DEF TypeOK, CheckPoints
<1>2. StoreInv /\ OneDocPerFile
  BY DEF StoreInv, OneDocPerFile, Live, SavedLive
<1>3. VersionInv
  BY DEF VersionInv
<1>4. HandInv
  BY DEF HandInv
<1> QED
  BY <1>1, <1>2, <1>3, <1>4 DEF IInv

\* Every step of the thread, the user and the environment preserves the invariant.
LEMMA NextInv == IInv /\ [Next]_vars => IInv'
<1> SUFFICES ASSUME IInv, [Next]_vars
             PROVE  IInv'
  OBVIOUS
<1>1. CASE Pass
  BY <1>1, VisitStep, SkipMissingStep, SkipIndexedStep, NotIndexedStep, TooBigStep, AskStep,
     DeleteOldStep, KeepOldStep, FlushOldStep, AddStep, FlushManyStep, EndScanStep DEF Pass
<1>2. CASE Purge
  BY <1>2, BeginPurgeStep, BeginSecondLoopStep, FlushIdsStep, EndPurgeStep, KeepStep,
     FindMissingStep, DeleteMissingStep, DeleteIdStep DEF Purge
<1>3. CASE NextPass \/ FinishIndexing \/ UIThread
  BY <1>3, NextPassStep, FinishIndexingStep, AnswerStep DEF UIThread
<1>4. CASE User
  BY <1>4, OpenStep, InterruptStep, BeginRemovalStep, EraseStep, RemoveOtherStep DEF User
<1>5. CASE Environment
  BY <1>5, CrashStep, CrashInCommitStep, WriteStep, RemoveStep DEF Environment
<1>6. CASE UNCHANGED vars
  BY <1>6 DEF vars, envVars, uiVars, passVars, purgeVars, indexVars, savedVars, IInv, TypeOK,
     StoreInv,
              VersionInv, HandInv, OneDocPerFile, Live, SavedLive, IsHighest
<1> QED
  BY <1>1, <1>2, <1>3, <1>4, <1>5, <1>6 DEF Next, Worker

\* The inductive invariant holds at all times.
THEOREM Invariance == Spec => []IInv
BY InitInv, NextInv, PTL DEF Spec

\* Whatever the hash, the dates and the bounds, every variable has its type.
THEOREM TypeCorrect == Spec => []TypeOK
<1>1. IInv => TypeOK
  BY DEF IInv
<1> QED
  BY <1>1, Invariance, PTL

\* A file never has two live documents, in the open index or in the committed one:
\* not after a crash between the deletion of the old version and the addition of the
\* new one, nor after an interruption.  No assumption on the hash is needed.
THEOREM OneDocument == Spec => []OneDocPerFile
<1>1. IInv => OneDocPerFile
  BY DEF IInv
<1> QED
  BY <1>1, Invariance, PTL

\* A document with the current date of its file has the current text or none, if
\* no other version has that date.
THEOREM FreshText == Spec => []DateImpliesText
<1>1. IInv => DateImpliesText
  <2> SUFFICES ASSUME IInv, NEW d \in Live,
                      file[d.path] # 0, Date[d.stat] = Date[file[d.path]],
                      OwnSecond(d.stat)
               PROVE  d.text \in {NoText, file[d.path]}
    BY DEF DateImpliesText
  <2>1. d \in Doc /\ d \in docs
    BY DEF IInv, TypeOK, Live
  <2>2. file[d.path] \in Version /\ last[d.path] = file[d.path]
    BY <2>1 DEF IInv, TypeOK, VersionInv, Doc
  <2>3. d.stat = file[d.path]
    BY <2>2 DEF OwnSecond, Version
  <2> QED
    BY <2>1, <2>2, <2>3 DEF IInv, VersionInv, Doc, Version, Text, NoText
<1> QED
  BY <1>1, Invariance, PTL

\* The assumption of lucyindexer.cpp:51 is enough for the claim it is made for, and
\* needed only of the file in hand.
THEOREM NewIndexIsNew == Spec => []NewIndexHasNoOldVersion
<1>1. IInv => NewIndexHasNoOldVersion
  <2> SUFFICES ASSUME IInv, newIndex, cur # NoFile, NEW d \in docs
               PROVE  d.path # cur.path /\ (Unique(cur.path) => Hash[d.path] # Hash[cur.path])
    BY DEF NewIndexHasNoOldVersion
  <2>1. d.path \in Paths /\ d.path # cur.path
    BY DEF IInv, TypeOK, HandInv, Doc
  <2> QED
    BY <2>1 DEF Unique
<1> QED
  BY <1>1, Invariance, PTL

-----------------------------------------------------------------------------
(* What no step takes from the searches.  A document is found by its hashed *)
(* path, so this is about the files whose hash no other file has.           *)

\* A version that a file has left behind never comes back.
LEMMA OutdatedStays ==
  ASSUME IInv, [Next]_vars, NEW d \in docs \cup unseen \cup victims, Outdated(d)
  PROVE  Outdated(d)'
<1>1. d \in Doc /\ d.stat \in Version /\ d.path \in Paths /\ d.stat <= last[d.path]
  BY DEF IInv, TypeOK, VersionInv, Doc
<1>2. ASSUME NEW p \in Paths, Write(p) PROVE Outdated(d)'
  BY <1>1, <1>2 DEF Write, Outdated, IInv, TypeOK, Version
<1>3. ASSUME NEW p \in Paths, Remove(p) PROVE Outdated(d)'
  BY <1>1, <1>3 DEF Remove, Outdated, IInv, TypeOK, Version
<1>4. CASE UNCHANGED envVars
  BY <1>4 DEF envVars, Outdated
<1>5. Worker \/ UIThread \/ User \/ Crash \/ CrashInCommit => UNCHANGED envVars
  BY DEF Worker, Pass, Purge, User, Crash, CrashInCommit, Die, Visit, SkipMissing, SkipIndexed,
     NotIndexed, TooBig, Ask, Answer, UIThread,
         DeleteOld, KeepOld, FlushOld, Add, FlushMany, EndScan, BeginPurge, BeginSecondLoop,
         FlushIds, EndPurge, Keep, FindMissing, DeleteMissing, DeleteId, NextPass,
         FinishIndexing, Open, Interrupt, BeginRemoval, RemoveOther, Erase
<1> QED
  BY <1>2, <1>3, <1>4, <1>5 DEF Next, Environment, vars

\* Every document a step deletes is outdated or of a file that shares its hash.
LEMMA NewlyDeleted ==
  ASSUME IInv, DeletionInv, [Next]_vars, NEW d \in deleted'
  PROVE  d \in docs \cup unseen /\ (Outdated(d) \/ ~Unique(d.path))
<1> USE DEF IInv, DeletionInv
<1>0. deleted \subseteq docs /\ unseen \subseteq Doc
  BY DEF TypeOK
<1>a. CASE deleted' \subseteq deleted
  BY <1>0, <1>a
<1>1. CASE Save
  BY <1>1, <1>a, SaveFacts DEF Committed, TypeOK
<1>2. CASE ReaderDelete({})
  BY <1>2, <1>a DEF ReaderDelete
<1>3. CASE DeleteOld
  <2>1. ReaderDelete(OldVersions) /\ pc = "index" /\ ~newIndex
    BY <1>3 DEF DeleteOld, DeleteDocuments, GoesUnlessStopped, Goes
  <2>2. deleted' \subseteq deleted \cup OldVersions
    BY <2>1 DEF ReaderDelete
  <2>3. ASSUME d \in OldVersions, Unique(d.path) PROVE Outdated(d) /\ d \in docs
    <3>1. d \in docs /\ d \in Live /\ d \in Doc /\ cur \in File /\ Hash[d.path] = Hash[cur.path]
      BY <2>1, <2>3 DEF TypeOK, HandInv, OldVersions, Live
    <3>2. d.path = cur.path /\ d.stat # cur.stat /\ d.stat <= cur.stat
      BY <2>1, <2>3, <3>1 DEF Unique, HandInv, Doc, File
    <3>3. cur.stat <= last[cur.path] /\ file[cur.path] \in {0, last[cur.path]}
      BY <2>1, <3>1 DEF VersionInv, HandInv, File
    <3> QED
      BY <3>1, <3>2, <3>3 DEF Outdated, TypeOK, Doc, File, Version
  <2>4. OldVersions \subseteq docs
    BY DEF OldVersions, Live
  <2> QED
    BY <1>0, <2>2, <2>3, <2>4
<1>4. ASSUME NEW e \in unseen, DeleteMissing(e)
      PROVE  d \in docs \cup unseen /\ (Outdated(d) \/ ~Unique(d.path))
  BY <1>0, <1>4 DEF DeleteMissing, GoesUnlessStopped, Goes, ReaderDelete
<1>5. ASSUME NEW e \in unseen, DeleteId(e)
      PROVE  d \in docs \cup unseen /\ (Outdated(d) \/ ~Unique(d.path))
  <2>1. ReaderDelete(SameId(e)) /\ e \in victims
    BY <1>5 DEF DeleteId, DeleteDocuments, GoesUnlessStopped, Goes
  <2>2. deleted' \subseteq deleted \cup SameId(e)
    BY <2>1 DEF ReaderDelete
  <2>3. ASSUME d \in SameId(e) PROVE ~Unique(d.path) /\ d \in docs
    <3>1. d \in docs /\ d \in Live /\ e \in Doc /\ IdFnAndDate(d) = IdFnAndDate(e)
      BY <2>1, <2>3 DEF TypeOK, SameId, Live
    <3>2. d.path # e.path /\ Hash[d.path] = Hash[e.path] /\ e.path \in Paths
      BY <2>1, <3>1 DEF IdFnAndDate, Doc
    <3> QED
      BY <3>1, <3>2 DEF Unique
  <2> QED
    BY <1>0, <2>2, <2>3
<1>6. CASE Add \/ Crash \/ CrashInCommit \/ Erase \/ Open
  <2>0. CrashInCommit => deleted' \subseteq deleted
    BY DEF CrashInCommit, Die
  <2>1. deleted' \subseteq deleted
    BY <1>6, <2>0 DEF Add, AddDocument, AddAndCommit, Crash, Die, Erase, Open, savedVars,
       StoreInv, TypeOK
  <2> QED
    BY <1>a, <2>1
<1>7. CASE FlushOld \/ FlushMany \/ EndScan \/ FlushIds \/ FinishIndexing
  BY <1>7, <1>1 DEF FlushOld, FlushMany, EndScan, FlushIds, FinishIndexing, Flush
<1>8. CASE BeginPurge \/ NotIndexed \/ SkipIndexed \/ EndPurge
  BY <1>8, <1>1, <1>2, <1>a DEF BeginPurge, NotIndexed, SkipIndexed, EndPurge, Flush,
     ReaderDelete
<1>9. CASE UNCHANGED deleted
  BY <1>9, <1>a
<1>10. ASSUME NEW p \in Paths, Visit(p) \/ SkipMissing(p) \/ Write(p) \/ Remove(p)
       PROVE  UNCHANGED deleted
  BY <1>10 DEF Visit, SkipMissing, Write, Remove, indexVars
<1>11. ASSUME NEW e \in unseen, Keep(e) \/ FindMissing(e)
       PROVE  UNCHANGED deleted
  BY <1>11 DEF Keep, FindMissing, indexVars
<1>12. ASSUME NEW t \in Text, Answer(t)
       PROVE  UNCHANGED deleted
  BY <1>12 DEF Answer, indexVars
<1>13. CASE \/ KeepOld \/ BeginSecondLoop \/ NextPass \/ Interrupt \/ BeginRemoval
            \/ RemoveOther \/ TooBig \/ Ask \/ UNCHANGED vars
  BY <1>13, <1>9 DEF KeepOld, BeginSecondLoop, NextPass, Interrupt, BeginRemoval,
     RemoveOther, TooBig, Ask, vars, indexVars
<1> QED
  BY <1>3, <1>4, <1>5, <1>6, <1>7, <1>8, <1>9, <1>10, <1>11, <1>12, <1>13
     DEF Next, Worker, Pass, Purge, UIThread, User, Environment

\* Only the addition of a document makes one live that was not; a crash may, too, but
\* ends the purge.
LEMMA LiveSteps ==
  ASSUME IInv, [Next]_vars
  PROVE  Live' \subseteq Live \/ Add \/ Crash \/ CrashInCommit
<1> USE DEF Live
<1>1. CASE Save
  BY <1>1, SaveFacts DEF Committed, IInv, TypeOK
<1>2. ASSUME NEW S, S \subseteq Live \/ (S \subseteq docs /\ mode = "reader"), ReaderDelete(S)
      PROVE  Live' \subseteq Live
  BY <1>2, ReaderDeleteFacts DEF ReaderDeleted
<1>3. CASE DeleteOld
  BY <1>2, <1>3 DEF DeleteOld, DeleteDocuments, OldVersions
<1>4. ASSUME NEW e \in unseen, DeleteId(e) PROVE Live' \subseteq Live
  BY <1>2, <1>4 DEF DeleteId, DeleteDocuments, SameId
<1>5. ASSUME NEW e \in unseen, DeleteMissing(e) PROVE Live' \subseteq Live
  <2>1. ReaderDelete({e}) /\ {e} \subseteq docs /\ mode = "reader"
    BY <1>5 DEF DeleteMissing, GoesUnlessStopped, Goes, IInv, StoreInv
  <2> QED
    BY <1>2, <2>1
<1>6. CASE FlushOld \/ FlushMany \/ EndScan \/ FlushIds \/ FinishIndexing
  BY <1>6, <1>1 DEF FlushOld, FlushMany, EndScan, FlushIds, FinishIndexing, Flush
<1>7. CASE UNCHANGED <<docs, deleted>>
  BY <1>7
<1>8. CASE BeginPurge \/ NotIndexed \/ SkipIndexed \/ EndPurge
  <2>1. UNCHANGED <<docs, deleted>> \/ ReaderDelete({}) \/ Save
    BY <1>8 DEF BeginPurge, NotIndexed, SkipIndexed, EndPurge, Flush
  <2> QED
    BY <1>1, <1>2, <1>7, <2>1
<1>9. ASSUME NEW p \in Paths, Visit(p) \/ SkipMissing(p) \/ Write(p) \/ Remove(p)
      PROVE  UNCHANGED <<docs, deleted>>
  BY <1>9 DEF Visit, SkipMissing, Write, Remove, indexVars
<1>10. ASSUME NEW e \in unseen, Keep(e) \/ FindMissing(e)
       PROVE  UNCHANGED <<docs, deleted>>
  BY <1>10 DEF Keep, FindMissing, indexVars
<1>11. ASSUME NEW t \in Text, Answer(t)
       PROVE  UNCHANGED <<docs, deleted>>
  BY <1>11 DEF Answer, indexVars
<1>12. CASE \/ KeepOld \/ BeginSecondLoop \/ NextPass \/ Interrupt \/ BeginRemoval
            \/ RemoveOther \/ TooBig \/ Ask \/ UNCHANGED vars
  BY <1>12, <1>7 DEF KeepOld, BeginSecondLoop, NextPass, Interrupt, BeginRemoval,
     RemoveOther, TooBig, Ask, vars, indexVars
<1>13. CASE Erase \/ Open
  BY <1>13 DEF Erase, Open
<1> QED
  BY <1>3, <1>4, <1>5, <1>6, <1>7, <1>8, <1>9, <1>10, <1>11, <1>12, <1>13
     DEF Next, Worker, Pass, Purge, UIThread, User, Environment

\* Where the purge's list of deleted documents changes.
LEMMA VictimSteps ==
  ASSUME [Next]_vars
  PROVE  \/ victims' \subseteq victims /\ ~Crash /\ ~CrashInCommit
         \/ victims' = {}
         \/ \E e \in unseen : DeleteMissing(e) /\ victims' = victims \cup {e}
BY DEF Next, Worker, Pass, Purge, User, Environment, Visit, SkipMissing, SkipIndexed,
   NotIndexed, TooBig, Ask, Answer, UIThread, DeleteOld, KeepOld, FlushOld, Add, FlushMany, EndScan, BeginPurge,
   BeginSecondLoop, FlushIds, EndPurge, Keep, FindMissing, DeleteMissing, DeleteId, NextPass,
   FinishIndexing, Open, Interrupt, BeginRemoval, RemoveOther, Erase, Crash,
   CrashInCommit, Die, Write, Remove, vars, purgeVars

\* A file whose document the purge has deleted gets no other while the purge lasts.
LEMMA VictimsStayAway ==
  ASSUME IInv, DeletionInv, [Next]_vars, NEW v \in victims', NEW d \in Live'
  PROVE  d.path # v.path
<1>1. CASE Add
  BY <1>1 DEF Add, purgeVars, DeletionInv
<1>2. CASE victims' \subseteq victims /\ ~Crash /\ ~CrashInCommit /\ ~Add
  BY <1>2, LiveSteps DEF DeletionInv
<1>3. ASSUME NEW e \in unseen, DeleteMissing(e), victims' = victims \cup {e}
      PROVE  d.path # v.path
  <2>1. /\ ReaderDelete({e}) /\ mode = "reader" /\ e \in docs
        /\ e \notin deleted
    BY <1>3 DEF DeleteMissing, GoesUnlessStopped, Goes, IInv, StoreInv, DeletionInv
  <2>2. Live' = Live \ {e} /\ e \in Live
    BY <2>1, ReaderDeleteFacts DEF ReaderDeleted, Live
  <2>3. d.path # e.path
    BY <2>2 DEF IInv, OneDocPerFile
  <2> QED
    BY <1>3, <2>2, <2>3 DEF DeletionInv
<1> QED
  BY <1>1, <1>2, <1>3, VictimSteps

\* Every step keeps to deleting documents that are outdated or collide.
LEMMA DeletionNext ==
  ASSUME IInv, DeletionInv, [Next]_vars
  PROVE  DeletionInv'
<1>1. \A d \in deleted' : Outdated(d)' \/ ~Unique(d.path)
  BY NewlyDeleted, OutdatedStays
<1>2. ASSUME pc' = "deleteDoc", NEW d \in unseen', IsHighest(d)'
      PROVE  d \notin deleted' /\ Outdated(d)'
  <2>1. \/ \E e \in unseen : FindMissing(e)
        \/ pc = "deleteDoc" /\ UNCHANGED <<unseen, deleted>>
    BY <1>2 DEF Next, Worker, Pass, Purge, User, Environment, Visit, SkipMissing,
       SkipIndexed,
       NotIndexed, TooBig, Ask, Answer, UIThread, DeleteOld, KeepOld, FlushOld, Add, FlushMany, EndScan, BeginPurge,
       BeginSecondLoop, FlushIds, EndPurge, Keep, DeleteMissing, DeleteId, NextPass,
       FinishIndexing, Open, Interrupt, BeginRemoval, RemoveOther, Erase, Crash,
   CrashInCommit, Die, Write, Remove, GoesUnlessStopped, Goes,
       vars, purgeVars, indexVars
  <2>2. ASSUME NEW e \in unseen, FindMissing(e)
        PROVE  d \notin deleted' /\ Outdated(d) /\ d \in unseen
    <3>0. UNCHANGED <<unseen, deleted>>
      BY <2>2 DEF FindMissing, purgeVars, indexVars
    <3>1. /\ IsHighest(d) /\ IsHighest(e) /\ file[e.path] = 0 /\ unseen \subseteq docs
          /\ e \notin deleted
      BY <1>2, <2>2, <3>0 DEF FindMissing, GoesUnlessStopped, Goes, IsHighest,
         IInv, StoreInv
    <3>2. d \in Doc /\ e \in Doc /\ d.nr <= e.nr /\ e.nr <= d.nr
      BY <3>1 DEF IsHighest, IInv, TypeOK
    <3>3. d = e
      <4>1. d.nr = e.nr
        <5>1. d.nr \in Nat /\ e.nr \in Nat
          BY <3>2, BoundAssumption DEF Doc
        <5> QED
          BY <3>2, <5>1
      <4>2. d \in docs /\ e \in docs
        BY <3>1 DEF IsHighest
      <4> QED
        BY <4>1, <4>2 DEF IInv, StoreInv
    <3> QED
      BY <3>0, <3>1, <3>2, <3>3 DEF Outdated, Doc, Version
  <2>3. pc = "deleteDoc" /\ UNCHANGED <<unseen, deleted>> =>
          d \notin deleted' /\ Outdated(d) /\ d \in unseen
    BY <1>2 DEF DeletionInv, IsHighest
  <2> QED
    BY <2>1, <2>2, <2>3, OutdatedStays
<1>3. pc' \in {"deleteIds", "flushIds"} => unseen' \subseteq victims'
  BY DEF Next, Worker, Pass, Purge, User, Environment, Visit, SkipMissing, SkipIndexed,
     NotIndexed, TooBig, Ask, Answer, UIThread, DeleteOld, KeepOld, FlushOld, Add, FlushMany, EndScan, BeginPurge,
     BeginSecondLoop, FlushIds, EndPurge, Keep, FindMissing, DeleteMissing, DeleteId, NextPass,
     FinishIndexing, Open, Interrupt, BeginRemoval, RemoveOther, Erase, Crash,
   CrashInCommit, Die, Write, Remove, GoesUnlessStopped, Goes,
     vars, purgeVars, DeletionInv
<1>4. victims' # {} => pc' \in {"examine", "deleteDoc", "deleteIds", "flushIds"}
  BY DEF Next, Worker, Pass, Purge, User, Environment, Visit, SkipMissing, SkipIndexed,
     NotIndexed, TooBig, Ask, Answer, UIThread, DeleteOld, KeepOld, FlushOld, Add, FlushMany, EndScan, BeginPurge,
     BeginSecondLoop, FlushIds, EndPurge, Keep, FindMissing, DeleteMissing, DeleteId, NextPass,
     FinishIndexing, Open, Interrupt, BeginRemoval, RemoveOther, Erase, Crash,
   CrashInCommit, Die, Write, Remove, GoesUnlessStopped, Goes,
     vars, purgeVars, DeletionInv
<1>5. \A v \in victims', d \in Live' : d.path # v.path
  BY VictimsStayAway
<1> QED
  BY <1>1, <1>2, <1>3, <1>4, <1>5 DEF DeletionInv

\* At all times only documents that are outdated or collide are deleted.
LEMMA DeletionInvariance == Spec => [](IInv /\ DeletionInv)
<1>1. Init => DeletionInv
  BY DEF Init, DeletionInv
<1>2. IInv /\ DeletionInv /\ [Next]_vars => DeletionInv'
  BY DeletionNext
<1> QED
  BY <1>1, <1>2, InitInv, NextInv, PTL DEF Spec

\* What a search can find changes in one of four ways: not at all, to what is live,
\* to what is live and the document being added, or to nothing with the index removed
\* or created anew.
LEMMA SavedSteps ==
  ASSUME IInv, [Next]_vars
  PROVE  \/ SavedLive' \in {SavedLive, Live}
         \/ \E n \in DocNrs : SavedLive' = Live \cup {NewDoc(n)}
         \/ Erase
         \/ Open /\ ~created
<1> USE DEF SavedLive, Live
<1>1. CASE Save
  BY <1>1, SaveFacts DEF Committed, IInv, TypeOK
<1>2. ASSUME NEW S, S \subseteq Live \/ (S \subseteq docs /\ mode = "reader"), ReaderDelete(S)
      PROVE  SavedLive' \in {SavedLive, Live}
  BY <1>2, ReaderDeleteFacts DEF ReaderDeleted
<1>3. CASE DeleteOld
  BY <1>2, <1>3 DEF DeleteOld, DeleteDocuments, OldVersions
<1>4. ASSUME NEW e \in unseen, DeleteId(e) PROVE SavedLive' \in {SavedLive, Live}
  BY <1>2, <1>4 DEF DeleteId, DeleteDocuments, SameId
<1>5. ASSUME NEW e \in unseen, DeleteMissing(e) PROVE SavedLive' \in {SavedLive, Live}
  <2>1. ReaderDelete({e}) /\ {e} \subseteq docs /\ mode = "reader"
    BY <1>5 DEF DeleteMissing, GoesUnlessStopped, Goes, IInv, StoreInv
  <2> QED
    BY <1>2, <2>1
<1>6. CASE Add
  <2>1. PICK n \in DocNrs : IsNextNr(n) /\ AddDocument(NewDoc(n))
    BY <1>6 DEF Add
  <2>2. NewDoc(n).nr = n /\ mode # "closed"
    BY <1>6 DEF NewDoc, Add, IInv, StoreInv
  <2>3. Added(NewDoc(n))
    BY <2>1, <2>2, AddFacts
  <2> QED
    BY <1>6, <2>3 DEF Added
<1>7. CASE FlushOld \/ FlushMany \/ EndScan \/ FlushIds \/ FinishIndexing
  BY <1>7, <1>1 DEF FlushOld, FlushMany, EndScan, FlushIds, FinishIndexing, Flush
<1>8. CASE BeginPurge \/ NotIndexed \/ SkipIndexed \/ EndPurge
  <2>1. UNCHANGED savedVars \/ ReaderDelete({}) \/ Save
    BY <1>8 DEF BeginPurge, NotIndexed, SkipIndexed, EndPurge, Flush
  <2> QED
    BY <1>1, <1>2, <2>1 DEF savedVars
<1>9. CASE UNCHANGED savedVars \/ UNCHANGED <<savedDocs, savedDeleted>>
  BY <1>9 DEF savedVars
<1>10. ASSUME NEW p \in Paths, Visit(p) \/ SkipMissing(p) \/ Write(p) \/ Remove(p)
       PROVE  UNCHANGED savedVars
  BY <1>10 DEF Visit, SkipMissing, Write, Remove, indexVars
<1>11. ASSUME NEW e \in unseen, Keep(e) \/ FindMissing(e)
       PROVE  UNCHANGED savedVars
  BY <1>11 DEF Keep, FindMissing, indexVars
<1>12. ASSUME NEW t \in Text, Answer(t)
       PROVE  UNCHANGED savedVars
  BY <1>12 DEF Answer, indexVars
<1>13. CASE \/ KeepOld \/ BeginSecondLoop \/ NextPass \/ Interrupt \/ BeginRemoval
            \/ RemoveOther \/ TooBig \/ Ask \/ Crash \/ UNCHANGED vars
  BY <1>13, <1>9 DEF KeepOld, BeginSecondLoop, NextPass, Interrupt, BeginRemoval,
     RemoveOther, TooBig, Ask, Crash, vars, indexVars
<1>14. CASE Open /\ created
  BY <1>14, <1>9 DEF Open
<1>15. ASSUME CrashInCommit
       PROVE  SavedLive' = Live \/ \E n \in DocNrs : SavedLive' = Live \cup {NewDoc(n)}
  BY <1>15, CrashInCommitFacts
<1> QED
  BY <1>14, <1>15, <1>3, <1>4, <1>5, <1>6, <1>7, <1>8, <1>9, <1>10, <1>11, <1>12, <1>13
     DEF Next, Worker, Pass, Purge, UIThread, User, Environment

\* The document of a file that has not changed is not lost to the searches.
LEMMA CurrentStays ==
  ASSUME IInv, DeletionInv, [Next]_vars, pc # "closed" \/ (created /\ created'),
         NEW d \in SavedLive, file[d.path] = d.stat, Unique(d.path)
  PROVE  d \in SavedLive'
<1>1. d \in Live
  BY DEF SavedLive, Live, IInv, TypeOK, StoreInv, DeletionInv, Outdated
<1>2. ~Erase /\ ~(Open /\ ~created)
  BY DEF Erase, Open, Goes
<1> QED
  BY <1>1, <1>2, SavedSteps

\* A file that does not change and shares its hash with no other keeps its document,
\* whatever the purge, the merges, crashes and interruptions do, and whichever other
\* files collide, until its index is removed or, segments.gen lost by a crash within a
\* commit, created anew.
THEOREM CurrentDocumentsStay == Spec => CurrentDocStays
<1>1. IInv /\ DeletionInv /\ [Next]_vars =>
        [pc # "closed" \/ (created /\ created') =>
           \A d \in SavedLive :
             file[d.path] = d.stat /\ Unique(d.path) => d \in SavedLive']_vars
  BY CurrentStays
<1> QED
  BY <1>1, DeletionInvariance, PTL DEF Spec, CurrentDocStays

-----------------------------------------------------------------------------
(* The flag of QIndexModifier.                                              *)

\* Every step keeps uncommitted deletions flagged.
LEMMA FlagNext ==
  ASSUME IInv, UncommittedDeletionIsFlagged, [Next]_vars
  PROVE  UncommittedDeletionIsFlagged'
<1> USE DEF UncommittedDeletionIsFlagged
<1>1. CASE Save
  BY <1>1, SaveFacts DEF Committed, IInv, TypeOK
<1>2. CASE ReaderDelete({}) /\ UNCHANGED deletionCalled
  <2>1. \/ deleted' = savedDeleted'
        \/ mode = "reader" /\ deleted' = deleted /\ savedDeleted' = savedDeleted
    BY <1>2 DEF ReaderDelete
  <2> QED
    BY <1>2, <2>1
<1>3. ASSUME NEW S, DeleteDocuments(S) PROVE UncommittedDeletionIsFlagged'
  <2>1. CASE S = {}
    <3>1. ReaderDelete({}) /\ UNCHANGED deletionCalled
      <4>1. ReaderDelete({})
        BY <1>3, <2>1 DEF DeleteDocuments
      <4>2. UNCHANGED deletionCalled
        BY <1>3, <2>1 DEF DeleteDocuments, IInv, TypeOK
      <4> QED
        BY <4>1, <4>2
    <3> QED
      BY <1>2, <3>1
  <2>2. CASE S # {}
    BY <1>3, <2>2 DEF DeleteDocuments
  <2> QED
    BY <2>1, <2>2
<1>4. CASE DeleteOld
  BY <1>3, <1>4 DEF DeleteOld
<1>5. ASSUME NEW e \in unseen, DeleteId(e) \/ DeleteMissing(e)
      PROVE  UncommittedDeletionIsFlagged'
  BY <1>3, <1>5 DEF DeleteId, DeleteMissing
<1>6. CASE mode' # "reader"
  BY <1>6
<1>7. CASE Add \/ Open \/ Crash \/ CrashInCommit
  BY <1>6, <1>7 DEF Add, AddDocument, Open, Crash, CrashInCommit, Die
<1>8. CASE FlushOld \/ FlushMany \/ EndScan \/ FlushIds \/ FinishIndexing
  BY <1>8, <1>1 DEF FlushOld, FlushMany, EndScan, FlushIds, FinishIndexing, Flush
<1>9. CASE UNCHANGED indexVars
  BY <1>9 DEF indexVars, savedVars
<1>10. CASE BeginPurge \/ NotIndexed \/ SkipIndexed \/ EndPurge
  <2>1. \/ UNCHANGED indexVars
        \/ ReaderDelete({}) /\ UNCHANGED deletionCalled
        \/ Save
    BY <1>10 DEF BeginPurge, NotIndexed, SkipIndexed, EndPurge, Flush, indexVars
  <2> QED
    BY <1>1, <1>2, <1>9, <2>1
<1>11. ASSUME NEW p \in Paths, Visit(p) \/ SkipMissing(p) \/ Write(p) \/ Remove(p)
       PROVE  UNCHANGED indexVars
  BY <1>11 DEF Visit, SkipMissing, Write, Remove
<1>12. ASSUME NEW e \in unseen, Keep(e) \/ FindMissing(e)
       PROVE  UNCHANGED indexVars
  BY <1>12 DEF Keep, FindMissing
<1>13. ASSUME NEW t \in Text, Answer(t)
       PROVE  UNCHANGED indexVars
  BY <1>13 DEF Answer
<1>14. CASE \/ KeepOld \/ BeginSecondLoop \/ NextPass \/ Interrupt \/ BeginRemoval
            \/ RemoveOther \/ TooBig \/ Ask \/ UNCHANGED vars
  BY <1>14, <1>9 DEF KeepOld, BeginSecondLoop, NextPass, Interrupt, BeginRemoval,
     RemoveOther, TooBig, Ask, vars
<1>15. CASE Erase
  BY <1>15 DEF Erase
<1> QED
  BY <1>4, <1>5, <1>7, <1>8, <1>9, <1>10, <1>11, <1>12, <1>13, <1>14, <1>15
     DEF Next, Worker, Pass, Purge, UIThread, User, Environment

\* QIndexModifier::flush never misses a deletion.
THEOREM DeletionsFlagged == Spec => []UncommittedDeletionIsFlagged
<1>1. Init => UncommittedDeletionIsFlagged
  BY DEF Init, UncommittedDeletionIsFlagged
<1>2. IInv /\ UncommittedDeletionIsFlagged /\ [Next]_vars => UncommittedDeletionIsFlagged'
  BY FlagNext
<1> QED
  BY <1>1, <1>2, Invariance, PTL DEF Spec

-----------------------------------------------------------------------------
(* The index implements the catalogue.                                      *)

\* The empty index is the empty catalogue.
LEMMA CatalogInit ==
  ASSUME Init
  PROVE  Catalog!Init
<1>1. {0, 1} \cap (0..MaxVersion) = {0, 1}
  BY BoundAssumption
<1> QED
  BY <1>1 DEF Init, Catalog!Init, SavedLive

\* A commit of the index is a commit of the catalogue.
LEMMA CatalogCommit ==
  ASSUME IInv, IInv', DeletionInv, UNCHANGED <<file, last>>,
         \A d \in SavedLive : file[d.path] = d.stat /\ Unique(d.path) => d \in SavedLive'
  PROVE  Catalog!Commit
<1>1. ASSUME NEW d \in SavedLive'
      PROVE  AsEntry(d) \in Catalog!Entry /\ Catalog!Witnessed(AsEntry(d))
  <2>1. d \in docs' /\ d \in Doc
    BY DEF SavedLive, IInv, TypeOK, StoreInv
  <2>2. d.stat <= last[d.path] /\ (d.text # NoText => d.stat <= d.text /\ d.text <= last[d.path])
    BY <2>1 DEF IInv, VersionInv
  <2> QED
    BY <2>1, <2>2 DEF AsEntry, Catalog!Entry, Catalog!Version, Catalog!NoText,
       Catalog!Witnessed,
                      Doc, Version, Text, NoText
<1>2. \A d, e \in SavedLive' : AsEntry(d).path = AsEntry(e).path => d = e
  BY DEF IInv, OneDocPerFile, AsEntry
<1>3. ASSUME NEW d \in SavedLive, AsEntry(d) \notin {AsEntry(e) : e \in SavedLive'}
      PROVE  ~Catalog!Current(AsEntry(d)) \/ AsEntry(d).path \in {p \in Paths : ~Unique(p)}
  <2>1. d.path \in Paths
    BY DEF SavedLive, IInv, TypeOK, Doc
  <2> QED
    BY <1>3, <2>1 DEF AsEntry, Catalog!Current
<1> QED
  BY <1>1, <1>2, <1>3 DEF Catalog!Commit, Catalog!OneEntryPerPath

\* Every step of the indexer is a step of the catalogue or leaves it alone.
LEMMA CatalogNext ==
  ASSUME IInv, IInv', DeletionInv, [Next]_vars
  PROVE  [Catalog!Next]_(Catalog!cvars)
<1>1. ASSUME NEW p \in Paths, Write(p) \/ Remove(p) PROVE Catalog!Next
  BY <1>1 DEF Write, Remove, indexVars, savedVars, SavedLive,
              Catalog!Next, Catalog!Write, Catalog!Remove
<1>2. CASE Erase \/ (Open /\ ~created)
  <2>1. SavedLive' = {} /\ UNCHANGED <<file, last>>
    BY <1>2 DEF Erase, Open, envVars, SavedLive
  <2> QED
    BY <2>1 DEF Catalog!Next, Catalog!Erase
<1>3. CASE UNCHANGED envVars /\ ~Erase /\ ~(Open /\ ~created)
  <2>1. \A d \in SavedLive : file[d.path] = d.stat /\ Unique(d.path) => d \in Live
    BY DEF SavedLive, Live, IInv, TypeOK, StoreInv, DeletionInv, Outdated
  <2>2. \A d \in SavedLive : file[d.path] = d.stat /\ Unique(d.path) => d \in SavedLive'
    BY <1>3, <2>1, SavedSteps
  <2> QED
    BY <1>3, <2>2, CatalogCommit DEF envVars, Catalog!Next
<1>4. \/ UNCHANGED envVars
      \/ \E p \in Paths : Write(p) \/ Remove(p)
  BY DEF Next, Environment, vars, Worker, Pass, Purge, User, Crash, CrashInCommit, Die, Visit,
         SkipMissing, SkipIndexed, NotIndexed, TooBig, Ask, Answer, UIThread, DeleteOld, KeepOld, FlushOld, Add, FlushMany, EndScan,
         BeginPurge, BeginSecondLoop, FlushIds, EndPurge, Keep, FindMissing, DeleteMissing,
         DeleteId, NextPass, FinishIndexing, Open, Interrupt, BeginRemoval, RemoveOther, Erase
<1> QED
  BY <1>1, <1>2, <1>3, <1>4

\* The catalogue is what a search of a directory may rely on, for any number of
\* files, changes, crashes and interruptions; files whose hashes collide are confused.
THEOREM IndexImplementsCatalog == Spec => ImplementsCatalog
<1>1. Init => Catalog!Init
  BY CatalogInit
<1>2. IInv /\ DeletionInv /\ IInv' /\ [Next]_vars => [Catalog!Next]_(Catalog!cvars)
  BY CatalogNext
<1> QED
  BY <1>1, <1>2, DeletionInvariance, PTL
     DEF Spec, ImplementsCatalog, Catalog!Spec
=============================================================================
