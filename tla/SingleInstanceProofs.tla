------------------------ MODULE SingleInstanceProofs ------------------------
(***************************************************************************)
(* Proofs about SingleInstance, for every number of starts and ends.  The  *)
(* invariant says which role the lock gives a process (Roles) and, while   *)
(* no process ends, what a client that is refused would need (Alone).      *)
(***************************************************************************)
EXTENDS SingleInstance, TLAPS

\* The lock's holder is about to listen or has its server open, and no other has.
Roles ==
  \A p \in Procs :
    /\ p \in server => at[p] \in {"start", "loop", "quit", "close"}
    /\ p \in server /\ at[p] # "close" => lock = p
    /\ at[p] = "listen" => lock = p
    /\ lock = p => \/ at[p] = "listen"
                   \/ at[p] \in {"start", "loop", "quit"} /\ p \in server
    /\ at[p] \in {"none", "lock", "listen", "connect"} => peer[p] = NoProc
    /\ at[p] \in {"send", "wait"} => peer[p] # NoProc

Alone ==
  Changing = {} => \A p \in Procs :
    /\ at[p] \in {"start", "loop"} /\ peer[p] = NoProc => lock = p
    /\ p \in server => file = p
    /\ at[p] = "connect" => lock # NoProc

IInv == TypeOK /\ Roles /\ HolderReachable /\ Alone

-----------------------------------------------------------------------------
LEMMA InitHolds == Init => IInv
BY NoProcAssumption DEF Init, IInv, TypeOK, Roles, HolderReachable, Alone, Changing, Places

LEMMA TypeStays == TypeOK /\ [Next]_vars => TypeOK'
<1> SUFFICES ASSUME TypeOK, [Next]_vars PROVE TypeOK'
  OBVIOUS
<1> USE DEF TypeOK, Places, Goto, vars, mainVars, nameVars, serverVars, clientVars
<1>1. ASSUME NEW p \in Procs, Start(p) PROVE TypeOK'
  BY <1>1 DEF Start
<1>2. ASSUME NEW p \in Procs, TryLock(p) PROVE TypeOK'
  BY <1>2 DEF TryLock
<1>3. ASSUME NEW p \in Procs, Listen(p) PROVE TypeOK'
  BY <1>3 DEF Listen
<1>4. ASSUME NEW p \in Procs, Show(p) PROVE TypeOK'
  BY <1>4 DEF Show
<1>5. ASSUME NEW p \in Procs, Hide(p) PROVE TypeOK'
  BY <1>5 DEF Hide
<1>6. ASSUME NEW p \in Procs, Connect(p) PROVE TypeOK'
  BY <1>6 DEF Connect
<1>7. ASSUME NEW p \in Procs, Refused(p) PROVE TypeOK'
  BY <1>7 DEF Refused
<1>8. ASSUME NEW p \in Procs, Send(p) PROVE TypeOK'
  BY <1>8 DEF Send
<1>9. ASSUME NEW p \in Procs, GetAck(p) PROVE TypeOK'
  BY <1>9 DEF GetAck
<1>10. ASSUME NEW p \in Procs, NoAck(p) PROVE TypeOK'
  BY <1>10 DEF NoAck
<1>11. ASSUME NEW p \in Procs, Accept(p) PROVE TypeOK'
  BY <1>11 DEF Accept
<1>12. ASSUME NEW p \in Procs, Ack(p) PROVE TypeOK'
  BY <1>12 DEF Ack
<1>13. ASSUME NEW p \in Procs, Emit(p) PROVE TypeOK'
  <2>1. serves[p] \in Procs
    BY <1>13 DEF Emit
  <2> QED
    BY <1>13, <2>1 DEF Emit
<1>14. ASSUME NEW p \in Procs, Quit(p) PROVE TypeOK'
  BY <1>14 DEF Quit
<1>15. ASSUME NEW p \in Procs, Unlock(p) PROVE TypeOK'
  BY <1>15 DEF Unlock
<1>16. ASSUME NEW p \in Procs, Close(p) PROVE TypeOK'
  BY <1>16 DEF Close
<1>17. ASSUME NEW p \in Procs, Kill(p) PROVE TypeOK'
  BY <1>17 DEF Kill
<1>18. CASE UNCHANGED vars
  BY <1>18
<1> QED
  BY <1>1, <1>2, <1>3, <1>4, <1>5, <1>6, <1>7, <1>8, <1>9, <1>10, <1>11, <1>12,
     <1>13, <1>14, <1>15, <1>16, <1>17, <1>18 DEF Next

\* Steps that leave main()'s place, the names and the connections alone.
LEMMA OthersStay ==
  ASSUME IInv, UNCHANGED <<at, nameVars, peer>>
  PROVE  (Roles /\ HolderReachable /\ Alone)'
BY DEF IInv, Roles, HolderReachable, Alone, Changing, nameVars

-----------------------------------------------------------------------------
LEMMA StepHolds == IInv /\ [Next]_vars => IInv'
<1> SUFFICES ASSUME IInv, [Next]_vars PROVE IInv'
  OBVIOUS
<1>t. TypeOK /\ TypeOK'
  BY TypeStays DEF IInv
<1> SUFFICES (Roles /\ HolderReachable /\ Alone)'
  BY <1>t DEF IInv
<1> USE NoProcAssumption DEF Goto, nameVars, serverVars, clientVars
<1>a. Roles /\ HolderReachable /\ Alone
  BY DEF IInv
<1>y. /\ at \in [Procs -> Places] /\ peer \in [Procs -> Procs \cup {NoProc}]
      /\ lock \in Procs \cup {NoProc} /\ file \in Procs \cup {NoProc}
      /\ server \in SUBSET Procs
  BY <1>t DEF TypeOK
<1>1. ASSUME NEW p \in Procs, Start(p) PROVE (Roles /\ HolderReachable /\ Alone)'
  BY <1>1, <1>a, <1>y DEF Start, Roles, HolderReachable, Alone, Changing
<1>2. ASSUME NEW p \in Procs, TryLock(p) PROVE (Roles /\ HolderReachable /\ Alone)'
  BY <1>2, <1>a, <1>y DEF TryLock, Roles, HolderReachable, Alone, Changing
<1>3. ASSUME NEW p \in Procs, Listen(p) PROVE (Roles /\ HolderReachable /\ Alone)'
  BY <1>3, <1>a, <1>y DEF Listen, Roles, HolderReachable, Alone, Changing
<1>4. ASSUME NEW p \in Procs, Show(p) PROVE (Roles /\ HolderReachable /\ Alone)'
  BY <1>4, <1>a, <1>y DEF Show, Roles, HolderReachable, Alone, Changing
<1>5. ASSUME NEW p \in Procs, Connect(p) PROVE (Roles /\ HolderReachable /\ Alone)'
  BY <1>5, <1>a, <1>y DEF Connect, Roles, HolderReachable, Alone, Changing
<1>6. ASSUME NEW c \in Procs, Refused(c) PROVE (Roles /\ HolderReachable /\ Alone)'
  <2>1. CASE at' = at
    BY <1>6, <2>1, OthersStay DEF Refused
  <2>2. CASE /\ \A p \in Procs : at[p] # "listen"
             /\ Goto(c, "start")
    <3>1. Changing # {}
      \* otherwise the holder of the lock has its server open under the name
      BY <1>6, <2>2, <1>a, <1>y DEF Refused, Roles, Alone, Changing
    <3>2. Changing' # {}
      BY <1>6, <2>2, <3>1, <1>y DEF Refused, Changing
    <3> QED
      BY <1>6, <2>2, <3>2, <1>a, <1>y DEF Refused, Roles, HolderReachable, Alone
  <2> QED
    BY <1>6, <2>1, <2>2 DEF Refused
<1>7. ASSUME NEW p \in Procs, Send(p) PROVE (Roles /\ HolderReachable /\ Alone)'
  BY <1>7, <1>a, <1>y DEF Send, Roles, HolderReachable, Alone, Changing
<1>8. ASSUME NEW p \in Procs, GetAck(p) PROVE (Roles /\ HolderReachable /\ Alone)'
  BY <1>8, <1>a, <1>y DEF GetAck, Roles, HolderReachable, Alone, Changing
<1>9. ASSUME NEW p \in Procs, NoAck(p) PROVE (Roles /\ HolderReachable /\ Alone)'
  BY <1>9, <1>a, <1>y DEF NoAck, Roles, HolderReachable, Alone, Changing
<1>10. ASSUME NEW p \in Procs, Hide(p) \/ Accept(p) \/ Ack(p) \/ Emit(p)
       PROVE  (Roles /\ HolderReachable /\ Alone)'
  BY <1>10, OthersStay DEF Hide, Accept, Ack, Emit, mainVars
<1>11. ASSUME NEW p \in Procs, Quit(p) PROVE (Roles /\ HolderReachable /\ Alone)'
  BY <1>11, <1>a, <1>y DEF Quit, Roles, HolderReachable, Alone, Changing
<1>12. ASSUME NEW p \in Procs, Unlock(p) PROVE (Roles /\ HolderReachable /\ Alone)'
  BY <1>12, <1>a, <1>y DEF Unlock, Roles, HolderReachable, Alone, Changing
<1>13. ASSUME NEW p \in Procs, Close(p) PROVE (Roles /\ HolderReachable /\ Alone)'
  BY <1>13, <1>a, <1>y DEF Close, Roles, HolderReachable, Alone, Changing
<1>14. ASSUME NEW p \in Procs, Kill(p) PROVE (Roles /\ HolderReachable /\ Alone)'
  BY <1>14, <1>a, <1>y DEF Kill, Roles, HolderReachable, Alone, Changing
<1>15. CASE UNCHANGED vars
  BY <1>15, OthersStay DEF vars, mainVars
<1> QED
  BY <1>1, <1>2, <1>3, <1>4, <1>5, <1>6, <1>7, <1>8, <1>9, <1>10, <1>11, <1>12,
     <1>13, <1>14, <1>15 DEF Next

THEOREM Invariance == Spec => []IInv
<1>1. Init => IInv
  BY InitHolds
<1>2. IInv /\ [Next]_vars => IInv'
  BY StepHolds
<1> QED
  BY <1>1, <1>2, PTL DEF Spec

\* Every variable keeps its type.
THEOREM TypeCorrect == Spec => []TypeOK
<1>1. IInv => TypeOK
  BY DEF IInv
<1> QED
  BY <1>1, Invariance, PTL

\* While no process ends and no answer is late, there is one instance (isClient,
\* sendMessage, main.cpp:18), however many are started and in whatever order.
THEOREM OnlyOneInstance == Spec => []OneInstance
<1>1. IInv => OneInstance
  BY DEF IInv, TypeOK, Roles, Alone, OneInstance, Running, Unanswered, Changing
<1> QED
  BY <1>1, Invariance, PTL

\* The name leads to the holder of the lock unless an instance has ended in an
\* orderly way (isClient's workaround for a name that was left behind).
THEOREM HolderIsReachable == Spec => []HolderReachable
<1>1. IInv => HolderReachable
  BY DEF IInv
<1> QED
  BY <1>1, Invariance, PTL
=============================================================================
