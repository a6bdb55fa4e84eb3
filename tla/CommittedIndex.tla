-------------------------- MODULE CommittedIndex --------------------------
(***************************************************************************)
(* What an index on disk promises to the searches beside its one writer:   *)
(* commits follow each other, a search that opens the index gets one       *)
(* whole commit, all of its files and no others, and it may be refused     *)
(* only if the index had no commit when it began, or once an I/O error has *)
(* struck the writer.  Lag is how many commits older than the newest at    *)
(* its start a search may see.  All this is promised until the disk breaks *)
(* its own promise.                                                        *)
(***************************************************************************)
EXTENDS Integers

CONSTANTS Readers, MaxGen, Lag

VARIABLES version,   \* the newest commit, 0 if there is none
          files,     \* the files of every commit
          opening,   \* the newest commit when the search began, -1 if it has not
          view,      \* what the search sees: a commit and its files
          struck,    \* an I/O error has struck the writer
          broken     \* the disk is not what the writer takes it for

vars == <<version, files, opening, view, struck>>

NoView == [commit |-> 0, files |-> {}]

Init == /\ version = 0
        /\ files = [g \in 1..MaxGen |-> {}]
        /\ opening = [r \in Readers |-> -1]
        /\ view = [r \in Readers |-> NoView]
        /\ struck = FALSE
        /\ broken = FALSE

\* The writer: a later commit, the earlier ones are what they were.
Commit == /\ version' \in (version + 1)..MaxGen
          /\ \A g \in 1..MaxGen : g # version' => files'[g] = files[g]
          /\ DOMAIN files' = 1..MaxGen
          /\ UNCHANGED <<opening, view, struck>>

Begin(r) == /\ opening[r] = -1 /\ view[r] = NoView
            /\ opening' = [opening EXCEPT ![r] = version]
            /\ UNCHANGED <<version, files, view, struck>>

Deliver(r) == /\ opening[r] # -1
              /\ \E g \in (opening[r] - Lag)..version :
                   /\ g > 0
                   /\ view' = [view EXCEPT ![r] = [commit |-> g, files |-> files[g]]]
              /\ opening' = [opening EXCEPT ![r] = -1]
              /\ UNCHANGED <<version, files, struck>>

Refuse(r) == /\ opening[r] = 0 \/ (struck /\ opening[r] # -1)
             /\ opening' = [opening EXCEPT ![r] = -1]
             /\ UNCHANGED <<version, files, view, struck>>

Close(r) == /\ view' = [view EXCEPT ![r] = NoView]
            /\ UNCHANGED <<version, files, opening, struck>>

\* The program ends: the index keeps its commits.
Crash == /\ opening' = [r \in Readers |-> -1]
         /\ view' = [r \in Readers |-> NoView]
         /\ UNCHANGED <<version, files, struck>>

\* An I/O error: the commit fails, those before it are what they were.
Strike == /\ struck' = TRUE
          /\ UNCHANGED <<version, files, opening, view>>

Step == \/ Commit \/ Crash \/ Strike
        \/ \E r \in Readers : Begin(r) \/ Deliver(r) \/ Refuse(r) \/ Close(r)

\* From the step that breaks it on, anything may happen, and it stays broken.
Next == \/ Step /\ UNCHANGED broken
        \/ broken' = TRUE

Spec == Init /\ [][Next]_<<vars, broken>>
===========================================================================
