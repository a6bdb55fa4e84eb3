--------------------------- MODULE SingleInstance ---------------------------
(***************************************************************************)
(* How the program starts while another instance of it may be running:     *)
(* main() and QtLocalPeer, on Unix.  A lock on a file decides who is the   *)
(* instance, a local socket takes the others' message to it, and its event *)
(* loop shows the window.  The operating system's part is the lock, which  *)
(* a process loses when it ends, and the name of the socket, a file that   *)
(* stays when the process is killed.                                       *)
(*                                                                         *)
(* A process is one start of the program.  Times are abstracted: an answer *)
(* may always be late, but an instance that holds the lock listens within  *)
(* the 250 ms a client waits between its two tries.                        *)
(***************************************************************************)
EXTENDS Naturals, FiniteSets

CONSTANTS Procs,   \* the starts of the program
          NoProc,  \* none of them
          MaxEnds  \* bound: the processes that quit or are killed

ASSUME NoProcAssumption == NoProc \notin Procs
ASSUME BoundAssumption == MaxEnds \in Nat

VARIABLES
  at,       \* where main() is, see Places
  tries,    \* failed calls of connectToServer
  hidden,   \* the processes whose window is minimised to the tray
  lock,     \* the process that holds lockFile
  file,     \* the process whose server the socket's name leads to, dead or not
  server,   \* the processes whose QLocalServer is open
  queue,    \* pending connections of each server
  serves,   \* the connection receiveConnection is busy with
  got,      \* the clients each process has emitted messageReceived for
  peer,     \* the server a client is connected to
  sent,     \* clients that have written the message
  acked     \* clients whose ack has been written

mainVars   == <<at, tries, hidden>>
nameVars   == <<lock, file, server>>
serverVars == <<queue, serves, got>>
clientVars == <<peer, sent, acked>>
vars       == <<mainVars, nameVars, serverVars, clientVars>>

Places == {"none",      \* not started
           "lock",      \* in isClient, before the lock is tried
           "listen",    \* it has the lock
           "connect", "send", "wait",   \* a client in sendMessage
           "start",     \* the program starts: JVM, indexer, main window
           "loop",      \* in the event loop
           "quit",      \* in onQuit, which processes events
           "close",     \* lockFile is destroyed, the server is not
           "woke",      \* ended: another instance notified
           "exited", "killed"}

Running  == {p \in Procs : at[p] \in {"listen", "start", "loop", "quit"}}
Changing == {p \in Procs : at[p] \in {"quit", "close", "exited", "killed"}}

MayEnd(p) == p \in Changing \/ Cardinality(Changing) < MaxEnds

-----------------------------------------------------------------------------
Init ==
  /\ at = [p \in Procs |-> "none"] /\ tries = [p \in Procs |-> 0] /\ hidden = {}
  /\ lock = NoProc /\ file = NoProc /\ server = {}
  /\ queue = [p \in Procs |-> {}] /\ serves = [p \in Procs |-> NoProc]
  /\ got = [p \in Procs |-> {}]
  /\ peer = [p \in Procs |-> NoProc] /\ sent = {} /\ acked = {}

Goto(p, place) == at' = [at EXCEPT ![p] = place]

(* The user starts the program: QtLocalPeer opens lockFile. *)
Start(p) ==
  /\ at[p] = "none"
  /\ Goto(p, "lock")
  /\ UNCHANGED <<tries, hidden, nameVars, serverVars, clientVars>>

(* isClient: whoever gets the lock is the instance, the others are clients. *)
TryLock(p) ==
  /\ at[p] = "lock"
  /\ \/ lock = NoProc /\ lock' = p /\ Goto(p, "listen")
     \/ lock # NoProc /\ lock' = lock /\ Goto(p, "connect")
  /\ UNCHANGED <<tries, hidden, file, server, serverVars, clientVars>>

\* mutant: a name that is there already is left as it is
ListenOnce(p) ==
  /\ at[p] = "listen"
  /\ file' = (IF file = NoProc THEN p ELSE file) /\ server' = server \cup {p}
  /\ Goto(p, "start")
  /\ UNCHANGED <<tries, hidden, lock, serverVars, clientVars>>

(* listen fails if the socket's file exists; the file is then removed, *)
(* whoever made it, and listen called again.  main() goes on.          *)
Listen(p) ==
  /\ at[p] = "listen"
  /\ file' = p /\ server' = server \cup {p}
  /\ Goto(p, "start")
  /\ UNCHANGED <<tries, hidden, lock, serverVars, clientVars>>

(* cfg, logger, JVM, indexer and window are made, the window is shown. *)
Show(p) ==
  /\ at[p] = "start" /\ serves[p] = NoProc
  /\ Goto(p, "loop")
  /\ UNCHANGED <<tries, hidden, nameVars, serverVars, clientVars>>

Hide(p) ==
  /\ at[p] = "loop" /\ serves[p] = NoProc
  /\ hidden' = hidden \cup {p}
  /\ UNCHANGED <<at, tries, nameVars, serverVars, clientVars>>

(* connectToServer and waitForConnected: the connection is made by the *)
(* system, even while the instance does not look at it.                *)
Connect(c) ==
  /\ at[c] = "connect" /\ file \in server
  /\ queue' = [queue EXCEPT ![file] = @ \cup {c}]
  /\ peer' = [peer EXCEPT ![c] = file]
  /\ Goto(c, "send")
  /\ UNCHANGED <<tries, hidden, nameVars, serves, got, sent, acked>>

\* mutant: no second try
RefusedOnce(c) ==
  /\ at[c] = "connect" /\ file \notin server
  /\ Goto(c, "start")
  /\ UNCHANGED <<tries, hidden, nameVars, serverVars, clientVars>>

\* mutant: the last failure is counted, too
RefusedCounted(c) ==
  /\ at[c] = "connect" /\ file \notin server
  /\ tries' = [tries EXCEPT ![c] = @ + 1]
  /\ \/ tries[c] = 0 /\ at' = at
     \/ tries[c] = 1 /\ (\A p \in Procs : at[p] # "listen") /\ Goto(c, "start")
  /\ UNCHANGED <<hidden, nameVars, serverVars, clientVars>>

(* "Try twice, in case the other instance is just starting up": the second *)
(* try comes 250 ms later.  A message that cannot be sent does not keep    *)
(* main() from starting the program.                                       *)
Refused(c) ==
  /\ at[c] = "connect" /\ file \notin server
  /\ \/ /\ tries[c] = 0
        /\ tries' = [tries EXCEPT ![c] = 1] /\ at' = at
     \/ /\ tries[c] = 1 /\ \A p \in Procs : at[p] # "listen"
        /\ tries' = tries /\ Goto(c, "start")
  /\ UNCHANGED <<hidden, nameVars, serverVars, clientVars>>

Send(c) ==
  /\ at[c] = "send"
  /\ sent' = sent \cup {c}
  /\ Goto(c, "wait")
  /\ UNCHANGED <<tries, hidden, nameVars, serverVars, peer, acked>>

(* sendMessage returns true, main() returns. *)
GetAck(c) ==
  /\ at[c] = "wait" /\ c \in acked
  /\ Goto(c, "woke")
  /\ UNCHANGED <<tries, hidden, nameVars, serverVars, clientVars>>

\* mutant: the client waits as long as the connection stands
NoAckIfLost(c) ==
  /\ at[c] = "wait" /\ c \notin acked /\ peer[c] \notin server
  /\ Goto(c, "start")
  /\ UNCHANGED <<tries, hidden, nameVars, serverVars, clientVars>>

(* The connection is lost, or waitForReadyRead gives up after 5 seconds: *)
(* sendMessage returns false and main() starts the program.              *)
NoAck(c) ==
  /\ at[c] = "wait" /\ c \notin acked
  /\ Goto(c, "start")
  /\ UNCHANGED <<tries, hidden, nameVars, serverVars, clientVars>>

(* Events are processed by the splash screen's repaint, in the event loop *)
(* and in onQuit; a connection brings newConnection to receiveConnection. *)
Accept(p) ==
  /\ at[p] \in {"start", "loop", "quit"} /\ serves[p] = NoProc
  /\ \E c \in queue[p] :
       /\ queue' = [queue EXCEPT ![p] = @ \ {c}]
       /\ serves' = [serves EXCEPT ![p] = c]
  /\ UNCHANGED <<mainVars, nameVars, got, clientVars>>

\* mutant: only a client that still waits is answered
AckWaiting(p) ==
  /\ \E c \in sent \ acked : serves[p] = c /\ at[c] = "wait" /\ acked' = acked \cup {c}
  /\ UNCHANGED <<mainVars, nameVars, serverVars, peer, sent>>

(* receiveConnection reads the message, or waits for it, and writes the ack. *)
Ack(p) ==
  /\ serves[p] \in sent \ acked
  /\ acked' = acked \cup {serves[p]}
  /\ UNCHANGED <<mainVars, nameVars, serverVars, peer, sent>>

\* mutant: messageReceived is not connected to showIfHidden
EmitHidden(p) ==
  /\ serves[p] \in acked
  /\ got' = [got EXCEPT ![p] = @ \cup {serves[p]}]
  /\ serves' = [serves EXCEPT ![p] = NoProc]
  /\ UNCHANGED <<mainVars, nameVars, queue, clientVars>>

(* Then it waits a second for the client to go and emits messageReceived:  *)
(* the window of an instance that has one is shown and comes to the front. *)
Emit(p) ==
  /\ serves[p] \in acked
  /\ got' = [got EXCEPT ![p] = @ \cup {serves[p]}]
  /\ serves' = [serves EXCEPT ![p] = NoProc]
  /\ hidden' = hidden \ {p}
  /\ UNCHANGED <<at, tries, nameVars, queue, clientVars>>

(* The main window is closed: onQuit, in which events are processed. *)
Quit(p) ==
  /\ at[p] = "loop" /\ serves[p] = NoProc /\ MayEnd(p)
  /\ Goto(p, "quit")
  /\ UNCHANGED <<tries, hidden, nameVars, serverVars, clientVars>>

(* exec returns and ~QtLocalPeer runs.  lockFile is a member and goes first ... *)
Unlock(p) ==
  /\ at[p] = "quit" /\ serves[p] = NoProc
  /\ lock' = IF lock = p THEN NoProc ELSE lock
  /\ Goto(p, "close")
  /\ UNCHANGED <<tries, hidden, file, server, serverVars, clientVars>>

(* ... the server is a child and closed after it: it drops the connections *)
(* and removes the file with its name, whoever made that.                  *)
Close(p) ==
  /\ at[p] = "close"
  /\ IF p \in server
     THEN file' = NoProc /\ server' = server \ {p}
     ELSE UNCHANGED <<file, server>>
  /\ queue' = [queue EXCEPT ![p] = {}]
  /\ Goto(p, "exited")
  /\ UNCHANGED <<tries, hidden, lock, serves, got, clientVars>>

(* The process dies or is killed: the lock is released, the file stays. *)
Kill(p) ==
  /\ at[p] \notin {"none", "woke", "exited", "killed"} /\ MayEnd(p)
  /\ Goto(p, "killed")
  /\ lock' = IF lock = p THEN NoProc ELSE lock
  /\ server' = server \ {p}
  /\ queue' = [queue EXCEPT ![p] = {}]
  /\ serves' = [serves EXCEPT ![p] = NoProc]
  /\ UNCHANGED <<tries, hidden, file, got, clientVars>>

-----------------------------------------------------------------------------
Next == \E p \in Procs :
  \/ Start(p) \/ TryLock(p) \/ Listen(p) \/ Show(p) \/ Hide(p)
  \/ Connect(p) \/ Refused(p) \/ Send(p) \/ GetAck(p) \/ NoAck(p)
  \/ Accept(p) \/ Ack(p) \/ Emit(p)
  \/ Quit(p) \/ Unlock(p) \/ Close(p) \/ Kill(p)

Spec == Init /\ [][Next]_vars

(* A process that runs takes its next step; the user does nothing for sure. *)
Go(p) ==
  \/ TryLock(p) \/ Listen(p) \/ Show(p)
  \/ Connect(p) \/ Refused(p) \/ Send(p) \/ GetAck(p) \/ NoAck(p)
  \/ Accept(p) \/ Ack(p) \/ Emit(p) \/ Unlock(p) \/ Close(p)

FairSpec == Spec /\ \A p \in Procs : WF_vars(Go(p))

-----------------------------------------------------------------------------
TypeOK ==
  /\ at \in [Procs -> Places] /\ tries \in [Procs -> 0..1]
  /\ hidden \in SUBSET Procs /\ server \in SUBSET Procs
  /\ lock \in Procs \cup {NoProc} /\ file \in Procs \cup {NoProc}
  /\ queue \in [Procs -> SUBSET Procs] /\ got \in [Procs -> SUBSET Procs]
  /\ serves \in [Procs -> Procs \cup {NoProc}]
  /\ peer \in [Procs -> Procs \cup {NoProc}]
  /\ sent \in SUBSET Procs /\ acked \in SUBSET Procs

Unanswered == {c \in Procs : peer[c] # NoProc}   \* of those in Running: they timed out

(* Two instances run at once, on the same indexes, only if one has been      *)
(* waiting in vain for the other's answer or some process is ending or has   *)
(* ended: the lock, the order of lock and listen and the second try see to   *)
(* it for any order in which the user's starts arrive (QtLocalPeer::isClient,*)
(* sendMessage, main.cpp:18).                                                *)
OneInstance ==
  \/ \A p, q \in Running \ Unanswered : p = q
  \/ Changing # {}

(* The socket's name leads to the instance that holds the lock, also after *)
(* another was killed and left the name behind; only an instance that ends *)
(* in an orderly way can take it away.                                     *)
HolderReachable ==
  \A p \in server : lock = p => file = p \/ \E q \in Procs \ {p} : at[q] = "exited"

(* Whoever starts the program sees a window: its own, or that of an instance *)
(* which got its message, brought back from the tray -- unless a process     *)
(* ends: one that quits still takes messages and shows nothing.              *)
Shown(c) == \/ at[c] = "loop"
            \/ \E p \in Procs : c \in got[p] /\ at[p] = "loop" /\ p \notin hidden
StartShows == \A c \in Procs : at[c] = "lock" ~> Shown(c) \/ Changing # {}

(* sendMessage ends, whatever becomes of the instance it talks to. *)
Asking(c) == at[c] \in {"lock", "connect", "send", "wait"}
SendEnds == \A c \in Procs : Asking(c) ~> ~Asking(c)

(* receiveConnection, which blocks the window, ends -- unless a client was    *)
(* killed before it had written: its loop for the first four bytes has no end.*)
Frozen(p) == \E c \in Procs : serves[p] = c /\ at[c] = "killed" /\ c \notin sent
ReceiveEnds == \A p \in Procs :
  serves[p] # NoProc ~> serves[p] = NoProc \/ Frozen(p)
=============================================================================
