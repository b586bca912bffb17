--------------------------- MODULE SuspendedThread ---------------------------
(***************************************************************************)
(* Suspending, resuming and stopping a ppl7::Thread: the flags, the mutex  *)
(* with its condition variable (ppl7::Mutex), and the callers' side.       *)
(*                                                                         *)
(* Neither program of the repository suspends its threads, so run() is     *)
(* that of a client of the library, in the order its documentation asks    *)
(* for: threadShouldStop(), threadWaitSuspended(), threadSleep(msec).      *)
(* ThreadPool has what the programs use: start, stop and destruction.      *)
(***************************************************************************)
EXTENDS Naturals

CONSTANTS
    Callers,   \* threads that suspend, resume and stop this one
    NULL       \* nobody

VARIABLES
    flags,       \* bits of Thread::flags: "stop" (1), "suspend" (2)
    IsRunning, IsSuspended,
    threadmutex, \* who holds it between two steps, or NULL
    inWait,      \* the thread is blocked in pthread_cond_wait()
    tpc,         \* where the thread is
    cpc          \* where a caller is

state  == <<flags, IsRunning, IsSuspended>>
thread == <<inWait, tpc>>
vars   == <<state, threadmutex, thread, cpc>>

TPc == {"none", "created", "check", "suspend", "waitSuspended", "nap", "sleep", "exiting"}
CPc == {"idle", "resume", "stopping", "exception"}

Init ==
    /\ flags = {} /\ IsRunning = FALSE /\ IsSuspended = FALSE
    /\ threadmutex = NULL /\ inWait = FALSE
    /\ tpc = "none" /\ cpc = [c \in Callers |-> "idle"]

\* lock() goes through.  Every critical section is a single step, except those
\* that end with the mutex held.
Unlocked == threadmutex = NULL

Suspending == flags = {"suspend"}   \* (flags&3)==2

-----------------------------------------------------------------------------
(* The thread                                                              *)

threadKeeps == UNCHANGED <<threadmutex, cpc>>

\* threadStart(): by a client that does not start what another one stops.
threadStart ==
    /\ tpc = "none" /\ ~IsRunning /\ Unlocked
    /\ \A c \in Callers : cpc[c] # "stopping"
    /\ tpc' = "created" /\ IsSuspended' = FALSE /\ IsRunning' = FALSE
    /\ threadKeeps /\ UNCHANGED <<flags, inWait>>

\* The head of threadStartUp().
threadStartUp ==
    /\ tpc = "created" /\ Unlocked
    /\ tpc' = "check" /\ IsRunning' = TRUE /\ IsSuspended' = FALSE
    /\ threadKeeps /\ UNCHANGED <<flags, inWait>>

threadShouldStop ==
    /\ tpc = "check" /\ Unlocked
    /\ tpc' = IF "stop" \in flags THEN "exiting" ELSE "suspend"
    /\ threadKeeps /\ UNCHANGED <<state, inWait>>

\* The loop of threadWaitSuspended(): wait again, or return.
WaitOrReturn ==
    IF Suspending
    THEN IsSuspended' = TRUE /\ inWait' = TRUE /\ tpc' = "waitSuspended"
    ELSE IsSuspended' = FALSE /\ inWait' = FALSE /\ tpc' = "nap"

threadWaitSuspended ==
    /\ tpc = "suspend" /\ Unlocked
    /\ WaitOrReturn
    /\ threadKeeps /\ UNCHANGED <<flags, IsRunning>>

\* Mutant of Wakened: an `if' in place of the `while'.
WakenedOnce ==
    /\ tpc = "waitSuspended" /\ ~inWait /\ Unlocked
    /\ IsSuspended' = FALSE /\ tpc' = "nap"
    /\ threadKeeps /\ UNCHANGED <<flags, IsRunning, inWait>>

\* wait() has returned with the mutex.
Wakened ==
    /\ tpc = "waitSuspended" /\ ~inWait /\ Unlocked
    /\ WaitOrReturn
    /\ threadKeeps /\ UNCHANGED <<flags, IsRunning>>

\* A wakeup that nobody has sent; pthread_cond_wait() may do that.
SpuriousWakeup ==
    /\ inWait
    /\ inWait' = FALSE
    /\ threadKeeps /\ UNCHANGED <<state, tpc>>

threadSleep ==
    /\ tpc = "nap" /\ Unlocked
    /\ tpc' = "sleep" /\ IsSuspended' = TRUE /\ inWait' = TRUE
    /\ threadKeeps /\ UNCHANGED <<flags, IsRunning>>

\* Mutant of SleepEnds: IsSuspended stays set.
SleepEndsSuspended ==
    /\ tpc = "sleep" /\ Unlocked
    /\ tpc' = "check" /\ inWait' = FALSE
    /\ threadKeeps /\ UNCHANGED <<flags, IsRunning, IsSuspended>>

\* A signal has come, or msec are over.
SleepEnds ==
    /\ tpc = "sleep" /\ Unlocked
    /\ tpc' = "check" /\ IsSuspended' = FALSE /\ inWait' = FALSE
    /\ threadKeeps /\ UNCHANGED <<flags, IsRunning>>

\* The tail of threadStartUp().
threadExit ==
    /\ tpc = "exiting" /\ Unlocked
    /\ tpc' = "none" /\ flags' = {} /\ IsRunning' = FALSE /\ IsSuspended' = FALSE
    /\ threadKeeps /\ UNCHANGED inWait

Thread ==
    \/ threadStartUp \/ threadShouldStop \/ threadWaitSuspended \/ Wakened \/ threadSleep
    \/ SleepEnds \/ threadExit

-----------------------------------------------------------------------------
(* The callers                                                             *)

callerKeeps == UNCHANGED <<IsRunning, IsSuspended, tpc>>

Call(c) == cpc[c] = "idle" /\ Unlocked

Goto(c, pc) == cpc' = [cpc EXCEPT ![c] = pc]

\* Mutex::signal(): pthread_cond_signal() wakes the one thread that waits.
signal == inWait' = FALSE

threadSuspend(c) ==
    /\ Call(c)
    /\ flags' = flags \cup {"suspend"}
    /\ callerKeeps /\ UNCHANGED <<threadmutex, inWait, cpc>>

\* Mutant of threadResume: no signal.
threadResumeSilent(c) ==
    /\ Call(c)
    /\ flags' = flags \ {"suspend"}
    /\ callerKeeps /\ UNCHANGED <<threadmutex, inWait, cpc>>

\* The signal is sent after the mutex has been unlocked ...
threadResume(c) ==
    /\ Call(c)
    /\ flags' = flags \ {"suspend"}
    /\ IF IsSuspended THEN Goto(c, "resume") ELSE UNCHANGED cpc
    /\ callerKeeps /\ UNCHANGED <<threadmutex, inWait>>

\* ... by a step of its own.
ResumeSignal(c) ==
    /\ cpc[c] = "resume"
    /\ signal
    /\ Goto(c, "idle")
    /\ callerKeeps /\ UNCHANGED <<flags, threadmutex>>

\* threadSignalStop(): in the branch with the signal there is no unlock().
threadSignalStop(c) ==
    /\ Call(c)
    /\ flags' = flags \cup {"stop"}
    /\ IF IsSuspended THEN signal /\ threadmutex' = c ELSE UNCHANGED <<inWait, threadmutex>>
    /\ callerKeeps /\ UNCHANGED cpc

\* Mutant of threadStop: a suspended thread is not woken.
threadStopSilent(c) ==
    /\ Call(c)
    /\ IF IsRunning THEN flags' = flags \cup {"stop"} /\ Goto(c, "stopping")
       ELSE flags' = flags \ {"stop"} /\ UNCHANGED cpc
    /\ callerKeeps /\ UNCHANGED <<threadmutex, inWait>>

\* threadStop(): the flag, the signal, and the first look at IsRunning.
threadStop(c) ==
    /\ Call(c)
    /\ IF IsRunning THEN flags' = flags \cup {"stop"} /\ Goto(c, "stopping")
       ELSE flags' = flags \ {"stop"} /\ UNCHANGED cpc
    /\ IF IsSuspended THEN signal ELSE UNCHANGED inWait
    /\ callerKeeps /\ UNCHANGED threadmutex

\* It sleeps and looks again.
StopPoll(c) ==
    /\ cpc[c] = "stopping" /\ Unlocked
    /\ IF IsRunning THEN UNCHANGED <<flags, cpc>> ELSE flags' = flags \ {"stop"} /\ Goto(c, "idle")
    /\ callerKeeps /\ UNCHANGED <<threadmutex, inWait>>

\* The next lock() of a caller that still holds the mutex: DeadlockException.
LockAgain(c) ==
    /\ threadmutex = c /\ cpc[c] = "idle"
    /\ Goto(c, "exception")
    /\ callerKeeps /\ UNCHANGED <<flags, threadmutex, inWait>>

Caller(c) ==
    \/ threadSuspend(c) \/ threadResume(c) \/ ResumeSignal(c) \/ threadSignalStop(c)
    \/ threadStop(c) \/ StopPoll(c) \/ LockAgain(c)

Next == threadStart \/ Thread \/ SpuriousWakeup \/ \E c \in Callers : Caller(c)

Spec == Init /\ [][Next]_vars

(***************************************************************************)
(* The thread runs whenever it is not blocked, and so does a caller inside *)
(* a call; nobody has to make a call, and spurious wakeups are not owed.   *)
(***************************************************************************)
FairSpec ==
    /\ Spec
    /\ WF_vars(Thread)
    /\ \A c \in Callers : WF_vars(ResumeSignal(c)) /\ WF_vars(StopPoll(c))

-----------------------------------------------------------------------------
(* Properties                                                              *)

\* Every variable keeps its type, and each flag belongs to a place in the code.
TypeOK ==
    /\ flags \subseteq {"stop", "suspend"}
    /\ IsRunning \in BOOLEAN /\ IsSuspended \in BOOLEAN /\ inWait \in BOOLEAN
    /\ threadmutex \in Callers \cup {NULL}
    /\ tpc \in TPc /\ cpc \in [Callers -> CPc]
    /\ IsRunning <=> tpc \notin {"none", "created"}
    /\ IsSuspended <=> tpc \in {"waitSuspended", "sleep"}
    /\ inWait => IsSuspended

\* A suspended thread goes on only when it was resumed or stopped, not because
\* of a wakeup that was meant for an earlier wait or for nobody
\* (threadWaitSuspended: "wartet sie solange, bis ...").
SuspendObeyed ==
    [][(tpc \in {"suspend", "waitSuspended"} /\ tpc' = "nap") => ~Suspending]_vars

\* No wakeup is lost: when the reason to wait has gone, the thread is awake or
\* some caller is about to send the signal, although threadResume() sends it
\* without the mutex.
NoLostWakeup ==
    tpc = "waitSuspended" /\ inWait /\ ~Suspending => \E c \in Callers : cpc[c] = "resume"

\* threadStop() returns, also for a suspended or sleeping thread and when other
\* callers suspend and resume it meanwhile; unless a caller keeps the mutex.
StopReturns == \A c \in Callers : cpc[c] = "stopping" ~> cpc[c] = "idle" \/ ~Unlocked

\* "wartet die Funktion so lange, bis entweder die Funktion ThreadResume,
\* TheadSignalStop, ThreadStop ... aufgerufen wird" (threadWaitSuspended): a
\* stopped thread does not stay suspended.
StopWakes == "stop" \in flags /\ tpc = "waitSuspended" ~> tpc # "waitSuspended"

=============================================================================
