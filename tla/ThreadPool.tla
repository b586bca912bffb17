----------------------------- MODULE ThreadPool -----------------------------
(***************************************************************************)
(* The life of the worker threads of both programs: ppl7::ThreadPool and   *)
(* ppl7::Thread, driven by the one thread that owns the pool.  The owner   *)
(* is UDPSender::main, which starts the same thread objects once per load  *)
(* level, or bouncer.cpp's main, which starts them once; both may be       *)
(* interrupted by a signal, and destroy the threads in the end.            *)
(*                                                                         *)
(* An object's pthread is detached.  All the owner knows of it is          *)
(* IsRunning, which the new thread sets when it first runs and clears      *)
(* before it has left the object.  Every access takes the object's         *)
(* threadmutex, so each critical section is one step.  No thread of the    *)
(* programs is ever suspended.                                             *)
(***************************************************************************)
EXTENDS Integers, FiniteSets

CONSTANTS
    Threads,     \* the objects in the pool
    Levels,      \* how often startThreads() is called
    SelfEnding,  \* run() returns by itself (sender), not only on request (bouncer)
    StopRounds,  \* calls of stopThreads() after an interrupt: sender 3, bouncer 1
    Settles,     \* the sleep after startThreads() outlasts the start of all threads
    MayFail      \* pthread_create() may fail

ASSUME PoolAssumption ==
    /\ Levels \in Nat \ {0} /\ StopRounds \in Nat \ {0}
    /\ SelfEnding \in BOOLEAN /\ Settles \in BOOLEAN /\ MayFail \in BOOLEAN

\* The pthread created for an object in a level.
Pthreads == Threads \X (1..Levels)

VARIABLES
    at,        \* where a pthread is: "born": created, has not run yet; "run":
               \* in run(); "out": run() has returned; "left": threadStartUp()
               \* is over; "ended": ThreadProc() is over
    running,   \* objects with IsRunning=1
    stopFlag,  \* objects with bit 0 of flags set
    deleted,   \* objects that have been deleted
    poolMutex, \* the pool's mutex is held (by the owner)
    opc,       \* where the owner is
    todo,      \* threads its loop over the pool has still to visit
    level,     \* calls of startThreads()
    rounds,    \* calls of stopThreads() before the threads are deleted
    cur        \* the thread being deleted

thread == <<at, running, stopFlag, deleted>>
owner  == <<poolMutex, opc, todo, level, rounds, cur>>
vars   == <<thread, owner>>

Init ==
    /\ at = [p \in Pthreads |-> "none"]
    /\ running = {} /\ stopFlag = {} /\ deleted = {}
    /\ poolMutex = FALSE
    /\ opc = "ready" /\ todo = {} /\ level = 0 /\ rounds = 1
    /\ cur \in Threads

Go(p, s) == at' = [at EXCEPT ![p] = s]

\* The owner visits t in a loop over the pool, and does `next' after the last.
Visit(t, next) ==
    /\ t \in todo
    /\ todo' = todo \ {t}
    /\ IF todo = {t} THEN opc' = next ELSE UNCHANGED opc

-----------------------------------------------------------------------------
(* Thread::threadStartUp and ThreadProc                                    *)

\* Mutant of StartUp: IsRunning is not set.
StartUpSilent(p) ==
    /\ at[p] = "born" /\ p[1] \notin deleted
    /\ Go(p, "run")
    /\ UNCHANGED <<running, stopFlag, deleted, owner>>

\* The new thread runs for the first time: IsRunning=1.
StartUp(p) ==
    /\ at[p] = "born" /\ p[1] \notin deleted
    /\ Go(p, "run")
    /\ running' = running \cup {p[1]}
    /\ UNCHANGED <<stopFlag, deleted, owner>>

\* run() returns: its work is done, or it has seen the stop flag.
Return(p) ==
    /\ at[p] = "run"
    /\ SelfEnding \/ p[1] \in stopFlag
    /\ Go(p, "out")
    /\ UNCHANGED <<running, stopFlag, deleted, owner>>

\* flags=0; IsRunning=0.
Exit(p) ==
    /\ at[p] = "out"
    /\ Go(p, "left")
    /\ running' = running \ {p[1]}
    /\ stopFlag' = stopFlag \ {p[1]}
    /\ UNCHANGED <<deleted, owner>>

\* Back in ThreadProc(): threadShouldDeleteOnExit() reads the object, deleteMe
\* is 0.
Leave(p) ==
    /\ at[p] = "left"
    /\ Go(p, "ended")
    /\ UNCHANGED <<running, stopFlag, deleted, owner>>

Pthread(p) ==
    /\ opc # "terminated"
    /\ StartUp(p) \/ Return(p) \/ Exit(p) \/ Leave(p)

-----------------------------------------------------------------------------
(* Starting the threads                                                    *)

\* startThreads() of the next level locks the pool.
StartThreads ==
    /\ opc = "ready" /\ level < Levels
    /\ ~poolMutex
    /\ poolMutex' = TRUE
    /\ level' = level + 1
    /\ opc' = "start" /\ todo' = Threads
    /\ UNCHANGED <<thread, rounds, cur>>

\* threadStart() of every thread that is not running.
StartThread(t) ==
    /\ opc = "start"
    /\ Visit(t, "settle")
    /\ IF t \in running THEN UNCHANGED at ELSE Go(<<t, level>>, "born")
    /\ poolMutex' = (todo # {t})
    /\ UNCHANGED <<running, stopFlag, deleted, level, rounds, cur>>

\* pthread_create() fails: the exception leaves startThreads() past unlock().
StartFails(t) ==
    /\ MayFail
    /\ opc = "start" /\ t \in todo
    /\ t \notin running
    /\ opc' = "failed"
    /\ UNCHANGED <<thread, poolMutex, todo, level, rounds, cur>>

\* The sleep after startThreads(): 500 ms in the sender, 100 ms in the bouncer
\* unless a signal has arrived already.
Settle ==
    /\ opc = "settle"
    /\ Settles => \A p \in Pthreads : at[p] # "born"
    /\ opc' = "wait" /\ todo' = Threads
    /\ UNCHANGED <<thread, poolMutex, level, rounds, cur>>

-----------------------------------------------------------------------------
(* Waiting and stopping                                                    *)

\* Mutant of Poll: one thread that has stopped is taken for all.
PollAny(t) ==
    /\ opc \in {"wait", "poll"} /\ t \in todo
    /\ IF t \in running
       THEN todo' = Threads /\ UNCHANGED opc
       ELSE /\ todo' = {}
            /\ opc' = IF opc = "wait" THEN "ready" ELSE "stopped"
    /\ UNCHANGED <<thread, poolMutex, level, rounds, cur>>

\* running() asks thread by thread, and is called again after a sleep as long
\* as one is running: the sender's wait for the end of a level, and the loop of
\* stopThreads().  The bouncer does not ask in its main loop.
Poll(t) ==
    /\ opc = "poll" \/ (opc = "wait" /\ SelfEnding)
    /\ IF t \in running
       THEN t \in todo /\ todo' = Threads /\ UNCHANGED opc
       ELSE Visit(t, IF opc = "wait" THEN "ready" ELSE "stopped")
    /\ UNCHANGED <<thread, poolMutex, level, rounds, cur>>

\* stopThreads() locks the pool to signal all threads.
BeginStop(n) ==
    /\ ~poolMutex
    /\ poolMutex' = TRUE
    /\ rounds' = n
    /\ opc' = "signal" /\ todo' = Threads

\* The loop in run() sees the program's stopFlag.
Interrupt ==
    /\ opc = "wait"
    /\ BeginStop(StopRounds)
    /\ UNCHANGED <<thread, level, cur>>

\* All levels are done: destroyAllThreads().
AllLevelsDone ==
    /\ opc = "ready" /\ level = Levels
    /\ BeginStop(1)
    /\ UNCHANGED <<thread, level, cur>>

\* Mutant of SignalStop: the flag is not set.
SignalNothing(t) ==
    /\ opc = "signal"
    /\ IF todo = {t} THEN opc' = "poll" /\ todo' = Threads ELSE Visit(t, "poll")
    /\ poolMutex' = (todo # {t})
    /\ UNCHANGED <<thread, level, rounds, cur>>

\* threadSignalStop(): flags|=1; then stopThreads() begins to poll.
SignalStop(t) ==
    /\ opc = "signal" /\ t \in todo
    /\ stopFlag' = stopFlag \cup {t}
    /\ IF todo = {t} THEN opc' = "poll" /\ todo' = Threads ELSE Visit(t, "poll")
    /\ poolMutex' = (todo # {t})
    /\ UNCHANGED <<at, running, deleted, level, rounds, cur>>

\* Mutant of StopAgain: a round too many.
StopAgainOnceMore ==
    /\ opc = "stopped" /\ rounds >= 1
    /\ BeginStop(rounds - 1)
    /\ UNCHANGED <<thread, level, cur>>

\* stopThreads() has returned; the destructor and destroyAllThreads() call it
\* again.
StopAgain ==
    /\ opc = "stopped" /\ rounds > 1
    /\ BeginStop(rounds - 1)
    /\ UNCHANGED <<thread, level, cur>>

-----------------------------------------------------------------------------
(* Deleting the threads                                                    *)

\* The loop of destroyAllThreads().
BeginDelete ==
    /\ opc = "stopped" /\ rounds = 1
    /\ ~poolMutex
    /\ poolMutex' = TRUE
    /\ opc' = "delete" /\ todo' = Threads
    /\ UNCHANGED <<thread, level, rounds, cur>>

\* Thread::~Thread: threadStop() sets the flag ...
Destroy(t) ==
    /\ opc = "delete"
    /\ t \in todo
    /\ todo' = todo \ {t}
    /\ stopFlag' = stopFlag \cup {t}
    /\ cur' = t
    /\ opc' = "join"
    /\ UNCHANGED <<at, running, deleted, poolMutex, level, rounds>>

\* ... waits until IsRunning is 0 and clears the flag; then the object is gone.
Delete ==
    /\ opc = "join"
    /\ cur \notin running
    /\ stopFlag' = stopFlag \ {cur}
    /\ deleted' = deleted \cup {cur}
    /\ opc' = IF todo = {} THEN "gone" ELSE "delete"
    /\ poolMutex' = (todo # {})
    /\ UNCHANGED <<at, running, todo, level, rounds, cur>>

\* After a failed start the exception unwinds to ~ThreadPool, whose
\* stopThreads() locks the pool: if the owner holds it, that throws once more,
\* out of a destructor, and the program is terminated.
Unwind ==
    /\ opc = "failed"
    /\ IF poolMutex
       THEN opc' = "terminated" /\ UNCHANGED <<poolMutex, todo, rounds>>
       ELSE BeginStop(2)
    /\ UNCHANGED <<thread, level, cur>>

OwnerStep ==
    \/ StartThreads \/ Settle \/ AllLevelsDone \/ StopAgain \/ BeginDelete \/ Delete \/ Unwind
    \/ \E t \in Threads : StartThread(t) \/ Poll(t) \/ SignalStop(t) \/ Destroy(t)

\* The program is over.
Over ==
    /\ opc \in {"gone", "terminated"}
    /\ opc = "gone" => \A p \in Pthreads : at[p] # "left"
    /\ UNCHANGED vars

Next ==
    \/ \E p \in Pthreads : Pthread(p)
    \/ OwnerStep
    \/ Interrupt
    \/ \E t \in Threads : StartFails(t)
    \/ Over

Spec == Init /\ [][Next]_vars

(***************************************************************************)
(* The kernel schedules the owner and every pthread; a run() that sees the *)
(* stop flag returns.  That a sender's run() returns by itself is not      *)
(* assumed, nor that a signal ever arrives.                                *)
(***************************************************************************)
ReturnOnRequest(p) == p[1] \in stopFlag /\ Return(p)

FairSpec ==
    /\ Spec
    /\ \A p \in Pthreads :
          WF_vars(opc # "terminated" /\ (StartUp(p) \/ ReturnOnRequest(p) \/ Exit(p) \/ Leave(p)))
    /\ WF_vars(OwnerStep)

-----------------------------------------------------------------------------
(* Properties                                                              *)

\* Every variable keeps its type.
TypeOK ==
    /\ at \in [Pthreads -> {"none", "born", "run", "out", "left", "ended"}]
    /\ running \subseteq Threads /\ stopFlag \subseteq Threads /\ deleted \subseteq Threads
    /\ poolMutex \in BOOLEAN
    /\ opc \in {"ready", "start", "failed", "settle", "wait", "signal", "poll", "stopped",
                "delete", "join", "gone", "terminated"}
    /\ todo \subseteq Threads /\ cur \in Threads
    /\ level \in 0..Levels /\ rounds \in Nat \ {0}

\* The pthread may still execute run().
Active(p) == at[p] \in {"born", "run", "out"}

\* When the sender goes on after a level, when stopThreads() has returned and
\* while the threads are deleted, no thread executes run() or is about to.
NoneLeft ==
    opc \in {"ready", "stopped", "delete", "join", "gone"} => \A p \in Pthreads : ~Active(p)

\* An object is never executed by two threads, whatever stop and start of
\* later levels do.
OneBody ==
    \A t \in Threads, j, k \in 1..Levels :
        at[<<t, j>>] \in {"run", "out"} /\ at[<<t, k>>] \in {"run", "out"} => j = k

\* Once stopThreads() has been called, it returns and all threads are deleted.
StopEnds == opc = "signal" ~> opc = "gone"

\* "kehrt erst dann zurueck, wenn alle Threads gestoppt sind" (stopThreads).
StopThreadsStops == opc = "stopped" => \A p \in Pthreads : ~Active(p)

\* "Anschliessend werden die internen Variablen wieder freigegeben" (~Thread):
\* when an object is freed its thread has been stopped and has left it.
DeletedUnused == \A p \in Pthreads : p[1] \in deleted => at[p] \in {"none", "ended"}

\* "Falls noch Threads im Pool vorhanden sind, werden diese gestoppt und
\* geloescht" (~ThreadPool), here after a failed start.
DestructorStops == opc = "failed" ~> deleted = Threads

=============================================================================
