--------------------------- MODULE PrefetchWorkers ---------------------------
(***************************************************************************)
(* PrefetchWorker threads (preloader.py).  An activation creates at most   *)
(* one worker, so a worker is named by the process that creates it.  The   *)
(* worker shares two things with the service: its stop event, and the      *)
(* service's _sync_reload_lock, which the on_pass callback                 *)
(* (RemotePfsService._record_prefetch) takes.                              *)
(***************************************************************************)
EXTENDS Naturals

CONSTANTS
    Procs,          \* threads of the service that can create a worker
    Free,           \* the lock's owner when nobody holds it
    MaxPasses       \* bound: recorded passes after which no preload succeeds

ASSUME MaxPassesAssumption == MaxPasses \in Nat

VARIABLES
    wpc,            \* where each worker's thread is
    stopEvent,      \* its stop_event
    enabled,        \* some category of its prefetch policy is enabled
    done,           \* passes it has completed and recorded
    seen,           \* prefetch_passes as read by a worker inside the callback
    passes,         \* RemotePfsService.prefetch_passes (and the byte counter)
    lock            \* RemotePfsService._sync_reload_lock: its owner

workerVars == <<wpc, stopEvent, enabled, done, seen, passes, lock>>

\* A lock owner: a thread of the service, or the worker it created.
ByService(p) == <<"service", p>>
ByWorker(w)  == <<"worker", w>>
Owners == {ByService(p) : p \in Procs} \cup {ByWorker(w) : w \in Procs} \cup {Free}

ASSUME FreeAssumption == \A p \in Procs : Free # ByService(p) /\ Free # ByWorker(p)

WorkerTypeOK ==
    /\ wpc \in [Procs -> {"none", "created", "preload", "on_pass", "record", "wait", "exited"}]
    /\ stopEvent \in [Procs -> BOOLEAN]
    /\ enabled \in [Procs -> BOOLEAN]
    /\ done \in [Procs -> Nat]
    /\ seen \in [Procs -> Nat]
    /\ passes \in Nat
    /\ lock \in Owners

WorkerInit ==
    /\ wpc = [w \in Procs |-> "none"]
    /\ stopEvent = [w \in Procs |-> FALSE]
    /\ enabled = [w \in Procs |-> FALSE]
    /\ done = [w \in Procs |-> 0]
    /\ seen = [w \in Procs |-> 0]
    /\ passes = 0
    /\ lock = Free

\* The process that runs the threads is gone: its threads, counters and lock too.
WorkersVanish ==
    /\ wpc' = [w \in Procs |-> "none"]
    /\ stopEvent' = [w \in Procs |-> FALSE]
    /\ enabled' = [w \in Procs |-> FALSE]
    /\ done' = [w \in Procs |-> 0]
    /\ seen' = [w \in Procs |-> 0]
    /\ passes' = 0
    /\ lock' = Free

Goto(w, label) == wpc' = [wpc EXCEPT ![w] = label]

-----------------------------------------------------------------------------
(* Operations the service performs on a worker                             *)

\* PrefetchWorker(...)
Create(w, on) ==
    /\ Goto(w, "created")
    /\ enabled' = [enabled EXCEPT ![w] = on]
    /\ UNCHANGED <<stopEvent, done, seen, passes, lock>>

\* start(): the thread runs; without an enabled category _run returns at once.
StartThread(w) ==
    /\ wpc[w] = "created"
    /\ Goto(w, IF enabled[w] THEN "preload" ELSE "exited")
    /\ UNCHANGED <<stopEvent, enabled, done, seen, passes, lock>>

\* stop(), first half: the event is set; thread.join(timeout=5) follows.
SetStop(w) ==
    /\ stopEvent' = [stopEvent EXCEPT ![w] = TRUE]
    /\ UNCHANGED <<wpc, enabled, done, seen, passes, lock>>

\* join() of a thread that was never started raises RuntimeError.
JoinRaises(w) == wpc[w] = "created"
\* join() returns: the thread has exited ...
JoinExited(w) == wpc[w] = "exited"
\* (mutant: join() without a timeout)
JoinTimedOut_Never(w) == FALSE
\* ... or five seconds have passed.
JoinTimedOut(w) == wpc[w] \notin {"created", "exited"}

-----------------------------------------------------------------------------
(* The worker's own steps: _run and preload                                *)

\* The nbdsh poll loop, or the check after it, sees the stop event.
PreloadStopped(w) ==
    /\ wpc[w] = "preload" /\ stopEvent[w]
    /\ Goto(w, "exited")
    /\ UNCHANGED <<stopEvent, enabled, done, seen, passes, lock>>

\* nbdsh succeeded and the event was not set: on_pass is called.
PreloadSucceeds(w) ==
    /\ wpc[w] = "preload" /\ ~stopEvent[w]
    /\ passes < MaxPasses
    /\ Goto(w, "on_pass")
    /\ UNCHANGED <<stopEvent, enabled, done, seen, passes, lock>>

\* nbdsh failed, could not be run, or passed its 60 second deadline: logged.
PreloadFails(w) ==
    /\ wpc[w] = "preload"
    /\ Goto(w, "wait")
    /\ UNCHANGED <<stopEvent, enabled, done, seen, passes, lock>>

\* (mutant: _record_prefetch updates the counters without the lock)
RecordEnter_NoLock(w) ==
    /\ wpc[w] = "on_pass"
    /\ seen' = [seen EXCEPT ![w] = passes]
    /\ Goto(w, "record")
    /\ UNCHANGED <<stopEvent, enabled, done, passes, lock>>

\* _record_prefetch: enter the lock and read the counters ...
RecordEnter(w) ==
    /\ wpc[w] = "on_pass"
    /\ lock = Free
    /\ lock' = ByWorker(w)
    /\ seen' = [seen EXCEPT ![w] = passes]
    /\ Goto(w, "record")
    /\ UNCHANGED <<stopEvent, enabled, done, passes>>

\* ... write them back and leave it.
RecordLeave(w) ==
    /\ wpc[w] = "record"
    /\ passes' = seen[w] + 1
    /\ done' = [done EXCEPT ![w] = @ + 1]
    /\ seen' = [seen EXCEPT ![w] = 0]
    /\ lock' = IF lock = ByWorker(w) THEN Free ELSE lock
    /\ Goto(w, "wait")
    /\ UNCHANGED <<stopEvent, enabled>>

\* (mutant: the result of stop_event.wait is not looked at)
WaitStopped_Retries(w) ==
    /\ wpc[w] = "wait" /\ stopEvent[w]
    /\ Goto(w, "preload")
    /\ UNCHANGED <<stopEvent, enabled, done, seen, passes, lock>>

\* stop_event.wait(interval): the event ends the thread, the timer a new pass.
WaitStopped(w) ==
    /\ wpc[w] = "wait" /\ stopEvent[w]
    /\ Goto(w, "exited")
    /\ UNCHANGED <<stopEvent, enabled, done, seen, passes, lock>>

WaitElapsed(w) ==
    /\ wpc[w] = "wait" /\ ~stopEvent[w]
    /\ Goto(w, "preload")
    /\ UNCHANGED <<stopEvent, enabled, done, seen, passes, lock>>

WorkerStep(w) ==
    \/ PreloadStopped(w) \/ PreloadSucceeds(w) \/ PreloadFails(w)
    \/ RecordEnter(w) \/ RecordLeave(w)
    \/ WaitStopped(w) \/ WaitElapsed(w)

=============================================================================
