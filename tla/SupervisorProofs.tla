---------------------------- MODULE SupervisorProofs ----------------------------
(***************************************************************************)
(* Type correctness of the Supervisor, and that the assertions and the     *)
(* exception behind ChildProcess::waitable and ::wait are never met, for   *)
(* any number of children and of stops.                                    *)
(*                                                                         *)
(* Neither property is inductive.  That a wait finds something to take     *)
(* holds because the event that waitable() saw may be overwritten by a     *)
(* later one but is taken by nobody else (Expected).                       *)
(***************************************************************************)
EXTENDS Supervisor, TLAPS

\* What waitable() reported is still there when wait() is called.
Expected == pc = "wait" => event[at] # "none"

SupervisorInv == TypeOK /\ Expected /\ WaitFindsChild /\ NoneReapedInLoop

\* The supervisor starts with its children running and nothing to wait for.
LEMMA InvInitially == Init => SupervisorInv
<1> SUFFICES ASSUME Init PROVE SupervisorInv
  OBVIOUS
<1>1. running \in [Child -> BOOLEAN] /\ terminated \in [Child -> BOOLEAN] /\ suspended \in BOOLEAN
  BY Zenon DEF Init
<1>2. \A c \in Child : ~terminated[c]
  BY Zenon DEF Init
<1>3. at \in Child /\ stops \in 0 .. MaxStops
  BY SupervisorAssumption DEF Init, Child
<1>4. child \in [Child -> {"running", "stopped"} \cup Exited]
  BY DEF Init
<1>5. event \in [Child -> {"none", "stopped", "continued"} \cup Exited]
  BY DEF Init
<1>6. pc = "poll" /\ result = "none" /\ pending = {} /\ hup = {}
  BY DEF Init
<1> QED BY <1>1, <1>2, <1>3, <1>4, <1>5, <1>6
           DEF SupervisorInv, TypeOK, Expected, WaitFindsChild, NoneReapedInLoop

\* handle_signal, up to the wait for a child.
LEMMA SignalKeepsInv ==
    ASSUME SupervisorInv, HandleTerm \/ HandleCont \/ HandleChld
    PROVE  SupervisorInv'
<1> USE DEF SupervisorInv, TypeOK, Expected, WaitFindsChild, NoneReapedInLoop, Looping, objects, Exited
<1>1. CASE HandleTerm
  BY <1>1, SupervisorAssumption DEF HandleTerm, Reads, Leave, Child
<1>2. CASE HandleCont
  BY <1>2 DEF HandleCont
<1>3. CASE HandleChld
  BY <1>3 DEF HandleChld, Reads, Waitable
<1> QED BY <1>1, <1>2, <1>3

\* wait: the flags of the child stay Boolean and its event is used up; a child that
\* has not ended is not taken for one that has.
LEMMA TakeKeepsTypes ==
    ASSUME TypeOK, Take(at)
    PROVE  /\ event' \in [Child -> {"none", "stopped", "continued"} \cup Exited]
           /\ running' \in [Child -> BOOLEAN] /\ terminated' \in [Child -> BOOLEAN]
           /\ event[at] \notin Exited =>
                \A c \in Child : ~terminated[c] => ~terminated'[c]
<1> DEFINE t == event[at] \in Exited
           r == IF event[at] \in {"stopped", "continued"} THEN event[at] = "continued" ELSE running[at]
<1>1. event' \in [Child -> {"none", "stopped", "continued"} \cup Exited]
  BY DEF TypeOK, Take
<1>2. t \in BOOLEAN
  OBVIOUS
<1>3. r \in BOOLEAN
  <2>1. running[at] \in BOOLEAN
    BY Zenon DEF TypeOK
  <2> QED BY <2>1, Zenon
<1>4. terminated' = [terminated EXCEPT ![at] = t] /\ running' = [running EXCEPT ![at] = r]
  BY Zenon DEF Take
<1>5. ~t => \A c \in Child : ~terminated[c] => ~terminated'[c]
  BY <1>4, Zenon DEF TypeOK
<1> HIDE DEF t, r
<1>6. running' \in [Child -> BOOLEAN] /\ terminated' \in [Child -> BOOLEAN]
  BY <1>2, <1>3, <1>4 DEF TypeOK
<1> QED BY <1>1, <1>5, <1>6 DEF t

\* ChildProcess::wait, called from the loop and from the destructor.
LEMMA WaitKeepsInv ==
    ASSUME SupervisorInv, WaitExit \/ WaitStop \/ WaitContinue \/ DestroyWait
    PROVE  SupervisorInv'
<1>0. /\ event' \in [Child -> {"none", "stopped", "continued"} \cup Exited]
      /\ running' \in [Child -> BOOLEAN] /\ terminated' \in [Child -> BOOLEAN]
  BY TakeKeepsTypes DEF SupervisorInv, WaitExit, WaitStop, WaitContinue, DestroyWait
<1> USE DEF SupervisorInv, TypeOK, Expected, WaitFindsChild, NoneReapedInLoop, Looping
<1>1. CASE WaitExit
  BY <1>0, <1>1, SupervisorAssumption DEF WaitExit, Leave, Child
<1>2. CASE WaitStop
  <2>1. \A c \in Child : ~terminated'[c]
    BY <1>2, TakeKeepsTypes DEF WaitStop, Exited
  <2> QED BY <1>0, <1>2, <2>1 DEF WaitStop
<1>3. CASE WaitContinue
  <2>1. event[at] = "continued"
    BY <1>3 DEF WaitContinue
  <2>2. \A c \in Child : ~terminated'[c]
    BY <1>3, <2>1, TakeKeepsTypes DEF WaitContinue, Exited
  <2> QED BY <1>0, <1>3, <2>1, <2>2 DEF WaitContinue
<1>4. CASE DestroyWait
  BY <1>0, <1>4 DEF DestroyWait
<1> QED BY <1>1, <1>2, <1>3, <1>4

\* The rest of the destructor.
LEMMA DestroyKeepsInv ==
    ASSUME SupervisorInv, DestroySignal \/ DestroyNext
    PROVE  SupervisorInv'
<1> USE DEF SupervisorInv, TypeOK, Expected, WaitFindsChild, NoneReapedInLoop, Looping, objects, Exited
<1>1. CASE DestroySignal
  BY <1>1 DEF DestroySignal
<1>2. CASE DestroyNext
  BY <1>2, SupervisorAssumption DEF DestroyNext, Child
<1> QED BY <1>1, <1>2

\* A child that changes state overwrites its event and never removes it.
LEMMA ChildKeepsInv ==
    ASSUME SupervisorInv, NEW c \in Child,
           ChildExits(c) \/ ChildStops(c) \/ ChildContinues(c) \/ ChildKilled(c)
    PROVE  SupervisorInv'
<1> USE SupervisorAssumption
    DEF SupervisorInv, TypeOK, Expected, WaitFindsChild, NoneReapedInLoop, Looping, objects, Exited, Changes
<1>1. CASE ChildExits(c)
  BY <1>1 DEF ChildExits
<1>2. CASE ChildStops(c)
  BY <1>2 DEF ChildStops
<1>3. CASE ChildContinues(c)
  BY <1>3 DEF ChildContinues
<1>4. CASE ChildKilled(c)
  BY <1>4 DEF ChildKilled
<1> QED BY <1>1, <1>2, <1>3, <1>4

\* The inductive invariant holds of the supervisor of any number of children.
THEOREM InvHolds == Spec => []SupervisorInv
<1>1. Init => SupervisorInv
  BY InvInitially
<1>2. SupervisorInv /\ [Next]_vars => SupervisorInv'
  <2> SUFFICES ASSUME SupervisorInv, [Next]_vars
               PROVE  SupervisorInv'
    OBVIOUS
  <2>1. CASE Step
    BY <2>1, SignalKeepsInv, WaitKeepsInv, DestroyKeepsInv DEF Step
  <2>2. CASE UserContinues \/ UserEnds
    BY <2>2 DEF UserContinues, UserEnds, SupervisorInv, TypeOK, Expected, WaitFindsChild,
                NoneReapedInLoop, Looping, objects
  <2>3. CASE \E c \in Child : ChildExits(c) \/ ChildStops(c) \/ ChildContinues(c) \/ ChildKilled(c)
    BY <2>3, ChildKeepsInv
  <2>4. CASE UNCHANGED vars
    BY <2>4 DEF vars, SupervisorInv, TypeOK, Expected, WaitFindsChild, NoneReapedInLoop, Looping
  <2> QED BY <2>1, <2>2, <2>3, <2>4 DEF Next
<1> QED BY <1>1, <1>2, PTL DEF Spec

\* The types of EventLoop and its children are kept: in particular the search and
\* the destructors never run past the last child.
THEOREM TypeCorrect == Spec => []TypeOK
  BY InvHolds, PTL DEF SupervisorInv

\* A child may stop, continue or end between waitable() and wait(), and a SIGCHLD may
\* stand for several changes or for one already taken: wait() never throws for want
\* of something to take.
THEOREM WaitNeverInVain == Spec => []WaitFindsChild
  BY InvHolds, PTL DEF SupervisorInv

\* handle_signal never asks about a child that was reaped: the assertions of waitable,
\* wait and signal hold.
THEOREM ReapedOnce == Spec => []NoneReapedInLoop
  BY InvHolds, PTL DEF SupervisorInv
=============================================================================
