---------------------------- MODULE FileCatalog ----------------------------
(***************************************************************************)
(* What the index of one directory promises to a search: a catalogue with  *)
(* at most one entry for each file.  An entry holds the version of the     *)
(* file that its modification date stands for and the text that was        *)
(* extracted.  The catalogue may lag behind the file system, but an entry  *)
(* is given up only when the file has moved on or is gone, unless it is    *)
(* confused with that of another file or the user takes the whole          *)
(* directory out of the index.                                             *)
(***************************************************************************)
EXTENDS Naturals

CONSTANTS Paths,        \* the files below the indexed directory
          MaxVersion,   \* how often a file may be written
          Confused      \* files whose entry may be taken for that of another file

VARIABLES file,         \* the version of each file that exists now, 0 if none
          last,         \* the latest version each file ever had
          entries       \* the entries a search can find

cvars == <<file, last, entries>>

Version == 1..MaxVersion

NoText == 0

Entry == [path : Paths, version : Version, text : Version \cup {NoText}]

Current(e) == file[e.path] = e.version

\* The entry describes something the file really was: the date was taken from
\* one version and the text, if any, from that version or a later one.
Witnessed(e) == /\ e.version <= last[e.path]
                /\ e.text # NoText => e.version <= e.text /\ e.text <= last[e.path]

OneEntryPerPath(S) == \A a, b \in S : a.path = b.path => a = b

-----------------------------------------------------------------------------

Init == /\ file \in [Paths -> {0, 1} \cap (0..MaxVersion)]
        /\ last = file
        /\ entries = {}

\* A program creates the file or changes it: a version it never had before.
Write(p) == /\ last[p] < MaxVersion
            /\ last' = [last EXCEPT ![p] = @ + 1]
            /\ file' = [file EXCEPT ![p] = last[p] + 1]
            /\ UNCHANGED entries

Remove(p) == /\ file[p] # 0
             /\ file' = [file EXCEPT ![p] = 0]
             /\ UNCHANGED <<last, entries>>

\* One commit of the index.
Commit == /\ entries' \in SUBSET Entry
          /\ \A e \in entries \ entries' : ~Current(e) \/ e.path \in Confused
          /\ \A e \in entries' \ entries : Witnessed(e)
          /\ OneEntryPerPath(entries')
          /\ UNCHANGED <<file, last>>

\* The user removes the directory from the index.
Erase == /\ entries' = {}
         /\ UNCHANGED <<file, last>>

Next == \/ \E p \in Paths : Write(p) \/ Remove(p)
        \/ Commit
        \/ Erase

Spec == Init /\ [][Next]_cvars
=============================================================================
