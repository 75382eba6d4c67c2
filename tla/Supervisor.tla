------------------------------- MODULE Supervisor -------------------------------
(***************************************************************************)
(* EventLoop and ChildProcess: a process that starts children, learns from *)
(* signals what becomes of them, suspends and resumes with them, and in    *)
(* its destructors ends and reaps those that are left.  koho-client is     *)
(* two of them, one inside the other; koho-server is one.                  *)
(*                                                                         *)
(* The kernel keeps at most one pending signal of each kind and, for each  *)
(* child, only its last change of state.  Children, the user who stops and *)
(* continues them, and the user who ends koho are the environment.         *)
(***************************************************************************)
EXTENDS Naturals

CONSTANTS
    N,          \* children, in the order of child_processes_
    MaxStops    \* how often children are stopped from outside

ASSUME SupervisorAssumption == N \in Nat \ {0} /\ MaxStops \in Nat

Child == 1 .. N

VARIABLES
    child,      \* the processes: running, stopped, or ended with success or failure
    event,      \* the change of state that waitid would report
    hup,        \* the children that a SIGHUP is pending for
    running,    \* running_ of each ChildProcess
    terminated, \* terminated_ of each ChildProcess
    pending,    \* signals pending for the supervisor
    suspended,  \* the supervisor is stopped
    pc,         \* what it is doing
    at,         \* the child it is doing it to
    result,     \* how the loop ended
    stops       \* stops so far

vars == <<child, event, hup, running, terminated, pending, suspended, pc, at, result, stops>>
objects == <<running, terminated>>

Exited == {"success", "failure"}

Init ==
    /\ child = [c \in Child |-> "running"]
    /\ event = [c \in Child |-> "none"]
    /\ hup = {}
    /\ running = [c \in Child |-> TRUE]
    /\ terminated = [c \in Child |-> FALSE]
    /\ pending = {}
    /\ suspended = FALSE
    /\ pc = "poll" /\ at = 1 /\ result = "none"
    /\ stops = 0

-----------------------------------------------------------------------------
(* EventLoop::handle_signal.                                               *)

\* The signalfd delivers the lowest signal first: an ending signal (HUP, INT,
\* QUIT, TERM), then CHLD, then CONT.
NextSignal == CASE "TERM" \in pending -> "TERM"
                [] "TERM" \notin pending /\ "CHLD" \in pending -> "CHLD"
                [] OTHER -> "CONT"

Reads(sig) ==
    /\ pc = "poll" /\ ~suspended
    /\ sig \in pending /\ sig = NextSignal
    /\ pending' = pending \ {sig}

\* The loop returns or throws; the destructors take over.
Leave(why) == pc' = "destroy" /\ at' = 1 /\ result' = why

HandleTerm ==
    /\ Reads("TERM")
    /\ Leave("exit")
    /\ UNCHANGED <<child, event, hup, objects, suspended, stops>>

\* Fault: only the first child is resumed.
ResumesFirst(c) == c = 1 /\ ~running[c] /\ ~terminated[c]

\* resume: SIGCONT for a child that was seen to stop.
Resumes(c) == ~running[c] /\ ~terminated[c]

\* SIGCONT starts the stopped children among S again; each reports that.
Continued(S) == {c \in S : child[c] = "stopped"}

HandleCont ==
    /\ pc = "poll" /\ ~suspended
    /\ "CONT" \in pending /\ NextSignal = "CONT"
    /\ LET S == Continued({c \in Child : Resumes(c)})
       IN  /\ child' = [c \in Child |-> IF c \in S THEN "running" ELSE child[c]]
           /\ event' = [c \in Child |-> IF c \in S THEN "continued" ELSE event[c]]
           /\ pending' = (pending \ {"CONT"}) \cup (IF S # {} THEN {"CHLD"} ELSE {})
    /\ UNCHANGED <<hup, objects, suspended, pc, at, result, stops>>

IsFirst(c, S) == \A d \in S : c <= d

Waitable == {c \in Child : event[c] # "none"}

\* Fault: the child after the waitable one is waited for.
HandleChldNext ==
    /\ Reads("CHLD")
    /\ \/ Waitable = {} /\ UNCHANGED <<pc, at>>
       \/ \E c \in Waitable : IsFirst(c, Waitable) /\ pc' = "wait" /\ at' = c + 1
    /\ UNCHANGED <<child, event, hup, objects, suspended, result, stops>>

\* SIGCHLD: search for the first child that waitable() reports.
HandleChld ==
    /\ Reads("CHLD")
    /\ \/ Waitable = {} /\ UNCHANGED <<pc, at>>
       \/ \E c \in Waitable : IsFirst(c, Waitable) /\ pc' = "wait" /\ at' = c
    /\ UNCHANGED <<child, event, hup, objects, suspended, result, stops>>

\* ChildProcess::wait takes the child's last change of state.
Take(c) ==
    /\ event' = [event EXCEPT ![c] = "none"]
    /\ terminated' = [terminated EXCEPT ![c] = event[c] \in Exited]
    /\ running' = [running EXCEPT ![c] = IF event[c] \in {"stopped", "continued"}
                                         THEN event[c] = "continued" ELSE @]

\* Fault: the loop goes on after a child that ended with success.
WaitExitIgnored ==
    /\ pc = "wait" /\ ~suspended
    /\ event[at] \in Exited
    /\ Take(at)
    /\ IF event[at] = "success" THEN pc' = "poll" /\ UNCHANGED <<at, result>> ELSE Leave("threw")
    /\ UNCHANGED <<child, hup, pending, suspended, stops>>

\* The child has ended: so does the loop.
WaitExit ==
    /\ pc = "wait" /\ ~suspended
    /\ event[at] \in Exited
    /\ Take(at)
    /\ Leave(IF event[at] = "success" THEN "exit" ELSE "threw")
    /\ UNCHANGED <<child, hup, pending, suspended, stops>>

\* The child has stopped: the supervisor stops itself, which discards a pending
\* SIGCONT.  The search ends with this child.
WaitStop ==
    /\ pc = "wait" /\ ~suspended
    /\ event[at] = "stopped"
    /\ Take(at)
    /\ suspended' = TRUE
    /\ pending' = pending \ {"CONT"}
    /\ pc' = "poll"
    /\ UNCHANGED <<child, hup, at, result, stops>>

\* The child has been continued, and the search ends with it; or a wait that does
\* not block finds nothing to take and throws.
WaitContinue ==
    /\ pc = "wait" /\ ~suspended
    /\ event[at] \in {"continued", "none"}
    /\ Take(at)
    /\ IF event[at] = "none" THEN Leave("unwaitable") ELSE pc' = "poll" /\ UNCHANGED <<at, result>>
    /\ UNCHANGED <<child, hup, pending, suspended, stops>>

-----------------------------------------------------------------------------
(* ~ChildProcess, for each child in turn.                                  *)

\* Fault: the destructor does not resume a stopped child.
DestroySignalOnly ==
    /\ pc = "destroy" /\ ~suspended /\ at \in Child
    /\ ~terminated[at]
    /\ hup' = IF child[at] \in Exited THEN hup ELSE hup \cup {at}
    /\ pc' = "reap"
    /\ UNCHANGED <<child, event, objects, pending, suspended, at, result, stops>>

\* A child that has not ended is resumed, and sent its termination signal.
DestroySignal ==
    /\ pc = "destroy" /\ ~suspended /\ at \in Child
    /\ ~terminated[at]
    /\ IF Resumes(at) /\ child[at] = "stopped"
       THEN /\ child' = [child EXCEPT ![at] = "running"]
            /\ event' = [event EXCEPT ![at] = "continued"]
            /\ pending' = pending \cup {"CHLD"}
       ELSE UNCHANGED <<child, event, pending>>
    /\ hup' = IF child[at] \in Exited THEN hup ELSE hup \cup {at}
    /\ pc' = "reap"
    /\ UNCHANGED <<objects, suspended, at, result, stops>>

\* Then it is waited for, until it changes state.
DestroyWait ==
    /\ pc = "reap" /\ ~suspended
    /\ event[at] # "none"
    /\ Take(at)
    /\ pc' = "destroy"
    /\ UNCHANGED <<child, hup, pending, suspended, at, result, stops>>

DestroyNext ==
    /\ pc = "destroy" /\ ~suspended /\ at \in Child
    /\ terminated[at]
    /\ IF at = N THEN pc' = "gone" /\ at' = at ELSE pc' = pc /\ at' = at + 1
    /\ UNCHANGED <<child, event, hup, objects, pending, suspended, result, stops>>

-----------------------------------------------------------------------------
(* The environment.                                                        *)

Changes(c, state, ev) ==
    /\ child' = [child EXCEPT ![c] = state]
    /\ event' = [event EXCEPT ![c] = ev]
    /\ pending' = pending \cup {"CHLD"}
    /\ UNCHANGED <<objects, suspended, pc, at, result>>

ChildExits(c) ==
    /\ child[c] = "running"
    /\ \E how \in Exited : Changes(c, how, how)
    /\ hup' = hup \ {c}
    /\ stops' = stops

ChildStops(c) ==
    /\ child[c] = "running" /\ stops < MaxStops
    /\ stops' = stops + 1
    /\ Changes(c, "stopped", "stopped")
    /\ hup' = hup

ChildContinues(c) ==
    /\ child[c] = "stopped"
    /\ Changes(c, "running", "continued")
    /\ UNCHANGED <<hup, stops>>

ChildKilled(c) ==
    /\ child[c] = "stopped"
    /\ Changes(c, "failure", "failure")
    /\ hup' = hup \ {c}
    /\ stops' = stops

\* The user brings the suspended supervisor back.
UserContinues ==
    /\ suspended
    /\ suspended' = FALSE
    /\ pending' = pending \cup {"CONT"}
    /\ UNCHANGED <<child, event, hup, objects, pc, at, result, stops>>

UserEnds ==
    /\ pc = "poll"
    /\ "TERM" \notin pending
    /\ pending' = pending \cup {"TERM"}
    /\ UNCHANGED <<child, event, hup, objects, suspended, pc, at, result, stops>>

-----------------------------------------------------------------------------

Step ==
    \/ HandleTerm \/ HandleCont \/ HandleChld
    \/ WaitExit \/ WaitStop \/ WaitContinue
    \/ DestroySignal \/ DestroyWait \/ DestroyNext

Next ==
    \/ Step \/ UserContinues \/ UserEnds
    \/ \E c \in Child : ChildExits(c) \/ ChildStops(c) \/ ChildContinues(c) \/ ChildKilled(c)

Spec == Init /\ [][Next]_vars

\* The supervisor runs unless it is suspended; a child that runs and has been sent
\* its termination signal ends.
FairSpec ==
    /\ Spec
    /\ WF_vars(Step)
    /\ \A c \in Child : WF_vars(c \in hup /\ ChildExits(c))

-----------------------------------------------------------------------------
(* Properties.                                                             *)

Looping == pc \in {"poll", "wait"}

\* Every variable has its type; the search and the destructors stay with the children.
TypeOK ==
    /\ child \in [Child -> {"running", "stopped"} \cup Exited]
    /\ event \in [Child -> {"none", "stopped", "continued"} \cup Exited]
    /\ hup \subseteq Child
    /\ running \in [Child -> BOOLEAN] /\ terminated \in [Child -> BOOLEAN]
    /\ pending \subseteq {"TERM", "CHLD", "CONT"}
    /\ suspended \in BOOLEAN
    /\ pc \in {"poll", "wait", "destroy", "reap", "gone"}
    /\ at \in Child
    /\ result \in {"none", "exit", "threw", "unwaitable"}
    /\ stops \in 0 .. MaxStops

\* Although a child may change state again between waitable() and wait(), the wait
\* always finds something to take.
WaitFindsChild == result # "unwaitable"

\* waitable() and wait() are never called for a child that has been reaped (their
\* assertions hold): the loop never outlives the first child it sees to end.
NoneReapedInLoop == Looping => \A c \in Child : ~terminated[c]

\* A child that was seen to stop is started again once the user continues the
\* supervisor, unless another stop or the end of the loop comes first.
ResumedTogether ==
    \A c \in Child :
        ("CONT" \in pending /\ ~running[c]) ~> (child[c] # "stopped" \/ suspended \/ ~Looping)

\* The destructors come to an end, whatever state the children are in, and leave
\* no child behind.
AllReaped == ~Looping ~> (suspended \/ (pc = "gone" /\ \A c \in Child : child[c] \in Exited))

\* A child that has ended is noticed: the loop does not go on without it.
ExitNoticed == \A c \in Child : child[c] \in Exited ~> (suspended \/ ~Looping)
=============================================================================
