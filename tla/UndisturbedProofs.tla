-------------------------- MODULE UndisturbedProofs --------------------------
(***************************************************************************)
(* Two promises of the service, for every set of requests and              *)
(* configurations: as long as nobody ejects, no prefetch worker gets out   *)
(* of its reach; and, ejects or not, a status of "running" means that the  *)
(* console has its disk, unless a request has failed after taking it away. *)
(*                                                                         *)
(* NoOrphanWorker speaks of workers that run.  The invariant follows one   *)
(* through _stop_prefetch_worker and _start_prefetch_worker: the field is  *)
(* not cleared before its worker has been told to stop, not overwritten    *)
(* before it is clear, and start() finds the worker that was just created. *)
(* Each of these needs that nobody else is in either method, which holds   *)
(* as long as only cutovers and shutdown call them.                        *)
(*                                                                         *)
(* RunningServes needs that whoever is past its bind keeps the gadget      *)
(* bound, and that a request between its unbind and its bind is on record  *)
(* as having taken the disk away, so that it may raise anywhere in there.  *)
(***************************************************************************)
EXTENDS ServiceProofs

NoEject == \A r \in Requests : op[r] # "eject"

\* A request that has not arrived has no operation.
Fresh == \A r \in Requests : pc[r] = "idle" => op[r] = "none"

Unstopped(w) == wpc[w] \in {"preload", "on_pass", "record", "wait"} /\ ~stopEvent[w]

\* Lines at which the worker field, or what was read from it, matters.
FieldLabels == {"set_stop", "join", "clear_worker", "new_worker", "start_worker"}

StartsOwn      == \A p \in Procs : pc[p] = "start_worker" => prefetchWorker = p
RunsReachable  == \A w \in Procs : Unstopped(w) => prefetchWorker = w
CreatesInEmpty == \A p \in Procs : pc[p] = "new_worker" => prefetchWorker = NoWorker
VictimCurrent  ==
    \A p \in Procs : pc[p] \in {"set_stop", "join", "clear_worker"} =>
        victim[p] \in Procs /\ prefetchWorker = victim[p]
VictimTold     == \A p \in Procs : pc[p] \in {"join", "clear_worker"} => stopEvent[victim[p]]

FieldParts ==
    StartsOwn /\ RunsReachable /\ CreatesInEmpty /\ VictimCurrent /\ VictimTold

FieldInv == Fresh /\ (NoEject => FieldParts)

-----------------------------------------------------------------------------
(* Facts                                                                   *)

\* The types of the variables the proof speaks of.
LEMMA FieldTypes ==
    CtlInv => /\ pc \in [Procs -> Labels] /\ op \in [Procs -> AllOps \cup {"none"}]
              /\ victim \in [Procs -> Procs \cup {NoWorker}]
              /\ prefetchWorker \in Procs \cup {NoWorker}
              /\ wpc \in [Procs -> {"none", "created", "preload", "on_pass", "record", "wait", "exited"}]
              /\ stopEvent \in [Procs -> BOOLEAN]
BY DEF CtlInv, ServiceTypeOK, WorkerTypeOK

\* One thread at a time stops, creates or starts a worker.
LEMMA AloneAtField ==
    ASSUME IInv, ShutdownAlone, NoEject, NEW p \in Procs, NEW q \in Procs,
           pc[p] \in FieldLabels, pc[q] \in FieldLabels
    PROVE  p = q
<1>1. \A x \in Procs : pc[x] \in FieldLabels => InCutover(x) \/ (x = Main /\ op[Main] = "shutdown")
  BY ProcsAssumption, OpsAssumption
     DEF IInv, CtlInv, CallInv, Fits, NoEject, FieldLabels, InCutover, CutoverLabels, StopLabels, Activating
<1>2. CASE op[Main] = "shutdown"
  BY <1>2, ProcsAssumption DEF ShutdownAlone, FieldLabels
<1>3. CASE op[Main] # "shutdown"
  BY <1>1, <1>3, AloneInCutover
<1>4. QED
  BY <1>2, <1>3

\* A step that touches neither the field nor a worker, to another line.
LEMMA FieldCalm ==
    ASSUME NEW p \in Procs, NEW label, CtlInv, FieldParts,
           pc' = [pc EXCEPT ![p] = label], label \notin FieldLabels,
           UNCHANGED <<wpc, stopEvent, prefetchWorker>>,
           \A q \in Procs \ {p} : victim'[q] = victim[q]
    PROVE  FieldParts'
<1>1. pc'[p] = label /\ \A q \in Procs \ {p} : pc'[q] = pc[q]
  BY FieldTypes
<1>2. StartsOwn' /\ CreatesInEmpty'
  BY <1>1 DEF FieldParts, StartsOwn, CreatesInEmpty, FieldLabels
<1>3. RunsReachable'
  BY DEF FieldParts, RunsReachable, Unstopped
<1>4. VictimCurrent' /\ VictimTold'
  BY <1>1 DEF FieldParts, VictimCurrent, VictimTold, FieldLabels
<1>5. QED
  BY <1>2, <1>3, <1>4 DEF FieldParts

-----------------------------------------------------------------------------
(* The steps                                                               *)

\* _stop_prefetch_worker
LEMMA FieldStop ==
    ASSUME NEW p \in Procs, IInv, ShutdownAlone, NoEject, FieldParts, StopStep(p)
    PROVE  FieldParts'
<1>t. CtlInv
  BY DEF IInv
<1>1. CASE ReadWorker(p)
  <2>1. PICK label : /\ pc' = [pc EXCEPT ![p] = label]
                     /\ \/ prefetchWorker = NoWorker /\ label \in {"new_worker", "eject", "shutdown_unbind"}
                        \/ prefetchWorker # NoWorker /\ label = "set_stop"
    BY <1>1 DEF ReadWorker, Jump, AfterStop
  <2>2. /\ UNCHANGED <<wpc, stopEvent, prefetchWorker>>
        /\ victim'[p] = prefetchWorker /\ \A q \in Procs \ {p} : victim'[q] = victim[q]
    BY <1>t, <1>1, FieldTypes DEF ReadWorker, workerVars
  <2>3. pc'[p] = label /\ (\A q \in Procs \ {p} : pc'[q] = pc[q]) /\ pc[p] = "read_worker"
    BY <1>t, <1>1, <2>1, FieldTypes DEF ReadWorker
  <2>4. StartsOwn' /\ CreatesInEmpty'
    BY <2>1, <2>2, <2>3 DEF FieldParts, StartsOwn, CreatesInEmpty
  <2>5. RunsReachable'
    BY <2>2 DEF FieldParts, RunsReachable, Unstopped
  <2>6. VictimCurrent' /\ VictimTold'
    BY <1>t, <2>1, <2>2, <2>3, FieldTypes DEF FieldParts, VictimCurrent, VictimTold
  <2>7. QED
    BY <2>4, <2>5, <2>6 DEF FieldParts
<1>2. CASE StopWorker(p)
  <2>1. pc[p] = "set_stop" /\ pc'[p] = "join" /\ \A q \in Procs \ {p} : pc'[q] = pc[q]
    BY <1>t, <1>2, FieldTypes DEF StopWorker, Step, Jump
  <2>2. UNCHANGED <<wpc, prefetchWorker, victim>>
    BY <1>2 DEF StopWorker, SetStop, Step, callVars
  <2>3. victim[p] \in Procs /\ prefetchWorker = victim[p]
    BY <2>1 DEF FieldParts, VictimCurrent
  <2>4. stopEvent'[victim[p]] = TRUE /\ \A w \in Procs : stopEvent[w] => stopEvent'[w]
    BY <1>t, <1>2, <2>3, FieldTypes DEF StopWorker, SetStop
  <2>5. StartsOwn' /\ CreatesInEmpty'
    BY <2>1, <2>2 DEF FieldParts, StartsOwn, CreatesInEmpty
  <2>6. RunsReachable'
    BY <2>2, <2>4 DEF FieldParts, RunsReachable, Unstopped
  <2>7. VictimCurrent' /\ VictimTold'
    BY <2>1, <2>2, <2>3, <2>4 DEF FieldParts, VictimCurrent, VictimTold
  <2>8. QED
    BY <2>5, <2>6, <2>7 DEF FieldParts
<1>3. CASE JoinReturns(p)
  <2>1. pc[p] = "join" /\ pc'[p] = "clear_worker" /\ \A q \in Procs \ {p} : pc'[q] = pc[q]
    BY <1>t, <1>3, FieldTypes DEF JoinReturns, Step, Jump
  <2>2. UNCHANGED <<wpc, stopEvent, prefetchWorker, victim>>
    BY <1>3 DEF JoinReturns, Step, callVars, workerVars
  <2>3. StartsOwn' /\ CreatesInEmpty'
    BY <2>1, <2>2 DEF FieldParts, StartsOwn, CreatesInEmpty
  <2>4. RunsReachable'
    BY <2>2 DEF FieldParts, RunsReachable, Unstopped
  <2>5. VictimCurrent' /\ VictimTold'
    BY <2>1, <2>2 DEF FieldParts, VictimCurrent, VictimTold
  <2>6. QED
    BY <2>3, <2>4, <2>5 DEF FieldParts
<1>4. CASE JoinFails(p)
  BY <1>t, <1>4, FieldCalm, FieldTypes DEF JoinFails, Raise, Return, Jump, FieldLabels
<1>5. CASE ClearWorker(p)
  <2>1. pc[p] = "clear_worker" /\ prefetchWorker' = NoWorker /\ UNCHANGED <<wpc, stopEvent, victim>>
    BY <1>5 DEF ClearWorker, callVars, workerVars
  <2>2. pc'[p] \in {"new_worker", "eject", "shutdown_unbind"} /\ \A q \in Procs \ {p} : pc'[q] = pc[q]
    BY <1>t, <1>5, FieldTypes DEF ClearWorker, Jump, AfterStop
  <2>3. \A q \in Procs \ {p} : pc'[q] \notin FieldLabels
    BY <2>1, <2>2, AloneAtField DEF FieldLabels
  <2>4. \A w \in Procs : ~Unstopped(w)
    BY <2>1 DEF FieldParts, RunsReachable, VictimCurrent, VictimTold, Unstopped
  <2>5. QED
    BY <2>1, <2>2, <2>3, <2>4
       DEF FieldParts, StartsOwn, RunsReachable, CreatesInEmpty, VictimCurrent, VictimTold,
           Unstopped, FieldLabels
<1>6. QED
  BY <1>1, <1>2, <1>3, <1>4, <1>5 DEF StopStep

\* _start_prefetch_worker
LEMMA FieldStart ==
    ASSUME NEW p \in Procs, IInv, ShutdownAlone, NoEject, FieldParts,
           NewWorker(p) \/ StartWorker(p) \/ StartWorkerFails(p)
    PROVE  FieldParts'
<1>t. CtlInv
  BY DEF IInv
<1>1. CASE NewWorker(p)
  <2>1. pc[p] = "new_worker" /\ prefetchWorker' = p /\ UNCHANGED <<stopEvent, victim>>
    BY <1>1 DEF NewWorker, Create, callVars
  <2>2. pc'[p] = "start_worker" /\ \A q \in Procs \ {p} : pc'[q] = pc[q]
    BY <1>t, <1>1, FieldTypes DEF NewWorker, Jump
  <2>3. wpc'[p] = "created" /\ \A w \in Procs \ {p} : wpc'[w] = wpc[w]
    BY <1>t, <1>1, FieldTypes DEF NewWorker, Create, Goto
  <2>4. \A q \in Procs \ {p} : pc'[q] \notin FieldLabels
    BY <2>1, <2>2, AloneAtField DEF FieldLabels
  <2>5. \A w \in Procs : ~Unstopped(w)
    BY <2>1, NoWorkerAssumption DEF FieldParts, RunsReachable, CreatesInEmpty
  <2>6. StartsOwn' /\ CreatesInEmpty'
    BY <2>1, <2>2, <2>3, <2>4 DEF FieldParts, StartsOwn, CreatesInEmpty, FieldLabels
  <2>7. RunsReachable'
    BY <2>1, <2>3, <2>5 DEF RunsReachable, Unstopped
  <2>8. VictimCurrent' /\ VictimTold'
    BY <2>2, <2>4 DEF VictimCurrent, VictimTold, FieldLabels
  <2>9. QED
    BY <2>6, <2>7, <2>8 DEF FieldParts
<1>2. CASE StartWorker(p)
  <2>1. pc[p] = "start_worker" /\ prefetchWorker = p /\ UNCHANGED <<stopEvent, victim, prefetchWorker>>
    BY <1>2 DEF StartWorker, StartThread, Step, callVars, FieldParts, StartsOwn
  <2>2. pc'[p] = "commit" /\ \A q \in Procs \ {p} : pc'[q] = pc[q]
    BY <1>t, <1>2, FieldTypes DEF StartWorker, Step, Jump
  <2>3. wpc'[p] \in {"preload", "exited"} /\ \A w \in Procs \ {p} : wpc'[w] = wpc[w]
    BY <1>t, <1>2, <2>1, FieldTypes DEF StartWorker, StartThread, Goto
  <2>4. StartsOwn' /\ CreatesInEmpty'
    BY <2>1, <2>2, <2>3 DEF FieldParts, StartsOwn, CreatesInEmpty
  <2>5. RunsReachable'
    BY <2>1, <2>3 DEF FieldParts, RunsReachable, Unstopped
  <2>6. VictimCurrent' /\ VictimTold'
    BY <2>1, <2>2 DEF FieldParts, VictimCurrent, VictimTold
  <2>7. QED
    BY <2>4, <2>5, <2>6 DEF FieldParts
<1>3. CASE StartWorkerFails(p)
  BY <1>t, <1>3, FieldCalm, FieldTypes DEF StartWorkerFails, Raise, Return, Jump, FieldLabels
<1>4. QED
  BY <1>1, <1>2, <1>3

\* The rest of a handler leaves field and workers alone.
LEMMA FieldRun ==
    ASSUME NEW p \in Procs, IInv, ShutdownAlone, NoEject, FieldParts, Run(p)
    PROVE  FieldParts'
<1>t. CtlInv
  BY DEF IInv
<1>1. CASE CompileStep(p)
  BY <1>t, <1>1, FieldCalm, FieldTypes
     DEF CompileStep, Load, LoadFails, MountAndBuild, CompileFails, TakeNumber, Publish, Step, Raise, Return, Jump,
         callVars, workerVars, FieldLabels
<1>2. CASE ActivateStep(p)
  BY <1>t, <1>2, FieldCalm, FieldTypes
     DEF ActivateStep, Lookup, LookupFails, Acquire, AcquireFails, Step, Raise, Return, Jump,
         callVars, workerVars, FieldLabels
<1>3. CASE \/ Unbind(p) \/ UnbindFails(p) \/ StopNbdkit(p) \/ WriteState(p) \/ WriteStateFails(p)
           \/ StartNbdkit(p) \/ AwaitSocket(p) \/ AwaitSocketTimesOut(p)
  BY <1>t, <1>3, FieldCalm, FieldTypes
     DEF Unbind, UnbindFails, StopNbdkit, WriteState, WriteStateFails, StartNbdkit, AwaitSocket,
         AwaitSocketTimesOut, Step, DiskStep, Raise, Return, Jump, callVars, workerVars, FieldLabels
<1>4. CASE Connect(p) \/ ConnectFails(p) \/ Bind(p) \/ BindFails(p) \/ Commit(p)
  BY <1>t, <1>4, FieldCalm, FieldTypes
     DEF Connect, ConnectFails, Bind, BindFails, Commit, Step, DiskStep, Raise, Return, Jump, callVars, workerVars, FieldLabels
<1>5. CASE NewWorker(p) \/ StartWorker(p) \/ StartWorkerFails(p)
  BY <1>5, FieldStart
<1>6. CASE StopStep(p)
  BY <1>6, FieldStop
<1>7. CASE EjectStep(p)
  BY <1>t, <1>7, FieldCalm, FieldTypes
     DEF EjectStep, Eject, EjectFails, EjectUnbind, EjectUnbindFails, Step, DiskStep, Raise, Return, Jump,
         callVars, workerVars, FieldLabels
<1>8. QED
  BY <1>1, <1>2, <1>3, <1>4, <1>5, <1>6, <1>7 DEF Run, CutoverStep

\* A worker's own steps do not revive it.
LEMMA FieldPrefetch ==
    ASSUME NEW w \in Procs, CtlInv, FieldParts, Prefetch(w)
    PROVE  FieldParts'
<1>1. UNCHANGED <<pc, prefetchWorker, victim, stopEvent>>
  BY DEF Prefetch, serviceVars, callVars, WorkerStep, PreloadStopped, PreloadSucceeds, PreloadFails,
         RecordEnter, RecordLeave, WaitStopped, WaitElapsed
<1>2. /\ wpc[w] \in {"preload", "on_pass", "record", "wait"} /\ wpc'[w] # "created"
      /\ \A x \in Procs \ {w} : wpc'[x] = wpc[x]
  BY FieldTypes DEF Prefetch, WorkerStep, PreloadStopped, PreloadSucceeds, PreloadFails, RecordEnter, RecordLeave,
                    WaitStopped, WaitElapsed, Goto
<1>3. RunsReachable'
  BY <1>1, <1>2 DEF FieldParts, RunsReachable, Unstopped
<1>4. StartsOwn' /\ CreatesInEmpty' /\ VictimCurrent' /\ VictimTold'
  BY <1>1 DEF FieldParts, StartsOwn, CreatesInEmpty, VictimCurrent, VictimTold
<1>5. QED
  BY <1>3, <1>4 DEF FieldParts

\* The service starts, and starts again, without workers.
LEMMA FieldBegins == (Init => FieldInv) /\ (CtlInv /\ Fresh /\ Restart => FieldInv')
<1>1. ASSUME Init PROVE FieldInv
  BY <1>1, ProcsAssumption
     DEF Init, WorkerInit, FieldInv, Fresh, FieldParts, StartsOwn, RunsReachable, CreatesInEmpty,
         VictimCurrent, VictimTold, Unstopped
<1>2. ASSUME CtlInv, Fresh, Restart PROVE FieldInv'
  <2>1. \A w \in Procs : wpc'[w] = "none" /\ pc'[w] \in {"load", "done", "idle"}
    BY <1>2, FieldTypes DEF Restart, WorkersVanish
  <2>2. Fresh'
    BY <1>2, FieldTypes, ProcsAssumption DEF Fresh, Restart
  <2>3. FieldParts'
    BY <2>1 DEF FieldParts, StartsOwn, RunsReachable, CreatesInEmpty, VictimCurrent, VictimTold,
                Unstopped
  <2>4. QED
    BY <2>2, <2>3 DEF FieldInv
<1>3. QED
  BY <1>1, <1>2

\* A request arrives, or is refused.
LEMMA FieldArrival ==
    ASSUME NEW r \in Requests, CtlInv, FieldInv, Arrival(r)
    PROVE  FieldInv'
<1>1. PICK label \in {"done", "mount", "lookup", "read_worker"} : pc' = [pc EXCEPT ![r] = label]
  BY DEF Arrival, Refuse, SubmitCompile, SubmitReplace, SubmitActivate, SubmitEject, Submit, Return, Jump
<1>2. /\ pc[r] = "idle" /\ UNCHANGED <<wpc, stopEvent, prefetchWorker>>
      /\ \A q \in Procs \ {r} : victim'[q] = victim[q]
  BY FieldTypes DEF Arrival, Refuse, SubmitCompile, SubmitReplace, SubmitActivate, SubmitEject, Submit,
                    Return, workerVars
<1>3. \A q \in Procs \ {r} : op'[q] = op[q]
  BY FieldTypes DEF Arrival, Refuse, SubmitCompile, SubmitReplace, SubmitActivate, SubmitEject, Submit, Return
<1>4. Fresh'
  BY <1>1, <1>3, FieldTypes, ProcsAssumption DEF FieldInv, Fresh
<1>5. NoEject' => NoEject
  BY <1>2, <1>3, ProcsAssumption DEF FieldInv, Fresh, NoEject
<1>6. NoEject => FieldParts'
  BY <1>1, <1>2, FieldCalm, ProcsAssumption DEF FieldInv, FieldLabels
<1>7. QED
  BY <1>4, <1>5, <1>6 DEF FieldInv

\* The invariant is inductive.
LEMMA FieldNext == IInv /\ ShutdownAlone /\ FieldInv /\ [Next]_vars => FieldInv'
<1>. SUFFICES ASSUME IInv, ShutdownAlone, FieldInv, [Next]_vars PROVE FieldInv'
  OBVIOUS
<1>t. CtlInv
  BY DEF IInv
<1>1. CASE \E r \in Requests : Arrival(r)
  BY <1>t, <1>1, FieldArrival
<1>2. ASSUME NEW p \in Procs, Run(p) PROVE FieldInv'
  <2>1. op' = op /\ pc[p] \notin {"idle", "done"} /\ \A q \in Procs \ {p} : pc'[q] = pc[q]
    BY <1>t, <1>2, RunFrame
  <2>2. pc'[p] # "idle"
    BY <1>t, <1>2, FieldTypes
       DEF Run, CompileStep, Load, LoadFails, MountAndBuild, CompileFails, TakeNumber, Publish, ActivateStep, Lookup, LookupFails,
           Acquire, AcquireFails, CutoverStep, Unbind, UnbindFails, StopNbdkit, WriteState, WriteStateFails,
           StartNbdkit, AwaitSocket, AwaitSocketTimesOut, Connect, ConnectFails, Bind, BindFails, NewWorker,
           StartWorker, StartWorkerFails, Commit, StopStep, ReadWorker, StopWorker, JoinReturns, JoinFails,
           ClearWorker, AfterStop, EjectStep, Eject, EjectFails, EjectUnbind, EjectUnbindFails, Step, DiskStep, Raise,
           Return, Jump
  <2>3. Fresh'
    BY <2>1, <2>2, ProcsAssumption DEF FieldInv, Fresh
  <2>4. NoEject => FieldParts'
    BY <1>2, FieldRun DEF FieldInv
  <2>5. QED
    BY <2>1, <2>3, <2>4 DEF FieldInv, NoEject
<1>3. CASE ShutdownStep
  <2>1. PICK label \in {"read_worker", "shutdown_nbd", "done"} : pc' = [pc EXCEPT ![Main] = label]
    BY <1>3 DEF ShutdownStep, BeginShutdown, ShutdownUnbind, ShutdownNbd, Step, Jump
  <2>2. pc[Main] # "start_worker" /\ UNCHANGED <<wpc, stopEvent, prefetchWorker, victim>>
    BY <1>3 DEF ShutdownStep, BeginShutdown, ShutdownUnbind, ShutdownNbd, Step, Accepting, callVars, workerVars
  <2>3. \A r \in Requests : op'[r] = op[r]
    BY <1>t, <1>3, FieldTypes, ProcsAssumption
       DEF ShutdownStep, BeginShutdown, ShutdownUnbind, ShutdownNbd, Step, callVars
  <2>4. Fresh'
    BY <1>t, <2>1, <2>3, FieldTypes, ProcsAssumption DEF FieldInv, Fresh
  <2>5. NoEject => FieldParts'
    BY <1>t, <2>1, <2>2, FieldCalm, ProcsAssumption DEF FieldInv, FieldLabels
  <2>6. QED
    BY <2>3, <2>4, <2>5 DEF FieldInv, NoEject
<1>4. CASE \E w \in Procs : Prefetch(w)
  <2>1. UNCHANGED <<pc, op>>
    BY <1>4 DEF Prefetch, serviceVars, callVars
  <2>2. QED
    BY <1>t, <1>4, <2>1, FieldPrefetch DEF FieldInv, Fresh, NoEject
<1>5. CASE Restart
  BY <1>t, <1>5, FieldBegins DEF FieldInv
<1>6. CASE Systemd \/ Ended \/ UNCHANGED vars
  BY <1>6 DEF Systemd, Ended, vars, serviceVars, callVars, workerVars, FieldInv, Fresh, NoEject, FieldParts,
              StartsOwn, RunsReachable, CreatesInEmpty, VictimCurrent, VictimTold, Unstopped
<1>7. QED
  BY <1>1, <1>2, <1>3, <1>4, <1>5, <1>6 DEF Next

\* As long as nobody ejects, the next cutover or shutdown can stop every worker
\* that has not been told to stop: no activation, failure, timeout of a join or
\* restart makes the service forget one.
THEOREM WorkersStayReachable == Spec => []NoOrphanWorker
<1>1. Init => ShutdownAlone /\ FieldInv
  BY FieldBegins, ProcsAssumption DEF Init, ShutdownAlone
<1>2. IInv /\ ShutdownAlone /\ FieldInv /\ [Next]_vars => (ShutdownAlone /\ FieldInv)'
  BY FieldNext, ShutdownAloneNext DEF IInv
<1>3. FieldInv => NoOrphanWorker
  BY DEF FieldInv, NoEject, FieldParts, RunsReachable, Unstopped, NoOrphanWorker
<1>4. QED
  BY <1>1, <1>2, <1>3, Invariance, PTL DEF Spec

-----------------------------------------------------------------------------
(* "running" means that the console has its disk                           *)

\* Labels that only follow a bind in a cutover.
AfterBind == StopLabels \cup {"new_worker", "start_worker", "commit"}

\* The lines of a request's cutover between its unbind and its bind.
Exchanging == {"nbd_stop", "write", "start", "await_socket", "connect", "bind"}

PastBind(p) == Activating(p) /\ pc[p] \in AfterBind

Served == gadget = "bound" /\ nbd0 # NotConnected

\* A request between its unbind and its bind has taken the disk away.
AwayInv == \A p \in Procs : op[p] # "startup" /\ pc[p] \in Exchanging => takenAway

\* Who has come past its bind keeps the disk attached, and leaves it so.
ServeInv ==
    op[Main] = "startup" /\ ~takenAway /\ (state = "running" \/ \E p \in Procs : PastBind(p)) => Served

\* Only a bind ends it: every other step of a handler keeps the record, and
\* a request that comes between unbind and bind has just been recorded.
LEMMA AwayFrame ==
    ASSUME NEW p \in Procs, CtlInv, Run(p), ~Bind(p)
    PROVE  /\ takenAway => takenAway'
           /\ op[p] # "startup" /\ pc'[p] \in Exchanging => pc[p] \in Exchanging \/ takenAway'
<1>t. pc \in [Procs -> Labels] /\ takenAway \in BOOLEAN
  BY DEF CtlInv, ServiceTypeOK
<1>r. ASSUME NEW error, Raise(p, error)
      PROVE  (takenAway => takenAway') /\ pc'[p] \notin Exchanging
  BY <1>t, <1>r DEF Raise, Return, Jump, Exchanging
<1>1. CASE \/ LoadFails(p) \/ CompileFails(p) \/ LookupFails(p) \/ AcquireFails(p) \/ UnbindFails(p)
           \/ WriteStateFails(p) \/ AwaitSocketTimesOut(p) \/ ConnectFails(p) \/ BindFails(p)
           \/ StartWorkerFails(p) \/ JoinFails(p) \/ EjectFails(p) \/ EjectUnbindFails(p)
  BY <1>1, <1>r DEF LoadFails, CompileFails, LookupFails, AcquireFails, UnbindFails, WriteStateFails,
                    AwaitSocketTimesOut, ConnectFails, BindFails, StartWorkerFails, JoinFails, EjectFails, EjectUnbindFails
<1>2. CASE Unbind(p) \/ Eject(p) \/ EjectUnbind(p)
  <2>1. takenAway' = TRUE
    BY <1>2 DEF Unbind, Eject, EjectUnbind, DiskStep
  <2>2. QED
    BY <2>1
<1>3. CASE StopNbdkit(p) \/ WriteState(p) \/ StartNbdkit(p) \/ AwaitSocket(p) \/ Connect(p)
  BY <1>3 DEF StopNbdkit, WriteState, StartNbdkit, AwaitSocket, Connect, Step, Exchanging
<1>4. CASE Publish(p)
  BY <1>t, <1>4 DEF Publish, Return, Jump, Exchanging
<1>5. CASE Load(p) \/ MountAndBuild(p) \/ TakeNumber(p) \/ Lookup(p) \/ Acquire(p) \/ NewWorker(p) \/ StartWorker(p) \/ Commit(p)
  BY <1>t, <1>5 DEF Load, MountAndBuild, TakeNumber, Lookup, Acquire, NewWorker, StartWorker, Commit, Return, Step, Jump,
                    Exchanging
<1>6. CASE ReadWorker(p) \/ StopWorker(p) \/ JoinReturns(p) \/ ClearWorker(p)
  BY <1>t, <1>6 DEF ReadWorker, StopWorker, JoinReturns, ClearWorker, AfterStop, Step, Jump, Exchanging
<1>7. QED
  BY <1>1, <1>2, <1>3, <1>4, <1>5, <1>6 DEF Run, CompileStep, ActivateStep, CutoverStep, StopStep, EjectStep

\* A handler's step keeps the record of who has taken the disk away.
LEMMA AwayRun ==
    ASSUME NEW p \in Procs, IInv, AwayInv, Run(p)
    PROVE  AwayInv'
<1>t. CtlInv /\ pc \in [Procs -> Labels] /\ Fits(p, pc[p])
  BY DEF IInv, CtlInv, ServiceTypeOK, CallInv
<1>f. op' = op /\ \A q \in Procs \ {p} : pc'[q] = pc[q]
  BY <1>t, RunFrame
<1>1. CASE Bind(p)
  <2>1. pc'[p] \notin Exchanging
    BY <1>t, <1>1 DEF Bind, DiskStep, Jump, Exchanging
  <2>2. \A q \in Procs \ {p} : pc[q] \notin Exchanging
    BY <1>1, AloneInCutover DEF Bind, InCutover, CutoverLabels, Exchanging
  <2>3. QED
    BY <1>f, <2>1, <2>2 DEF AwayInv
<1>2. CASE ~Bind(p)
  BY <1>t, <1>f, <1>2, AwayFrame DEF AwayInv
<1>3. QED
  BY <1>1, <1>2

\* So does every other step.
LEMMA AwayNext == IInv /\ AwayInv /\ [Next]_vars => AwayInv'
<1>. SUFFICES ASSUME IInv, AwayInv, [Next]_vars PROVE AwayInv'
  OBVIOUS
<1>. USE ProcsAssumption DEF AwayInv, Exchanging
<1>t. pc \in [Procs -> Labels] /\ op \in [Procs -> AllOps \cup {"none"}]
  BY DEF IInv, CtlInv, ServiceTypeOK
<1>1. CASE \E r \in Requests : Arrival(r)
  BY <1>1, <1>t DEF Arrival, Refuse, SubmitCompile, SubmitReplace, SubmitActivate, SubmitEject, Submit, Return, Jump
<1>2. CASE \E p \in Procs : Run(p)
  BY <1>2, AwayRun
<1>3. CASE ShutdownStep
  BY <1>3, <1>t DEF ShutdownStep, BeginShutdown, ShutdownUnbind, ShutdownNbd, Step, Jump, callVars
<1>4. CASE Restart
  BY <1>4, <1>t DEF Restart
<1>5. CASE (\E w \in Procs : Prefetch(w)) \/ Systemd \/ Ended \/ UNCHANGED vars
  BY <1>5 DEF Prefetch, Systemd, Ended, vars, serviceVars, callVars
<1>6. QED
  BY <1>1, <1>2, <1>3, <1>4, <1>5 DEF Next

\* A step of a handler that leaves the disk alone, and neither comes past its
\* bind nor makes the service "running".
LEMMA ServeStays ==
    ASSUME NEW p \in Procs, CtlInv, ServeInv, Run(p), ~Bind(p), Served => Served',
           PastBind(p)' => PastBind(p),
           state' = "running" => state = "running" \/ PastBind(p)
    PROVE  ServeInv'
<1>1. op' = op /\ (\A q \in Procs \ {p} : pc'[q] = pc[q]) /\ (takenAway => takenAway')
  BY RunFrame, AwayFrame
<1>2. \A q \in Procs \ {p} : PastBind(q)' = PastBind(q)
  BY <1>1 DEF PastBind, Activating
<1>3. QED
  BY <1>1, <1>2 DEF ServeInv

\* A handler that raises has kept its hands off the disk, or has the loss on
\* record, or was startup, which reports it.
LEMMA ServeRaises ==
    ASSUME NEW p \in Procs, IInv, AwayInv, ServeInv, Run(p), ~Bind(p), NEW error \in Errors, Raise(p, error),
           (Served => Served') \/ pc[p] \in {"unbind", "bind"} \cup EjectLabels
    PROVE  ServeInv'
<1>t. CtlInv /\ pc \in [Procs -> Labels] /\ op[Main] \in {"startup", "shutdown"} /\ Fits(p, pc[p]) /\ takenAway \in BOOLEAN
  BY DEF IInv, CtlInv, ServiceTypeOK, CallInv
<1>f. op' = op /\ (\A q \in Procs \ {p} : pc'[q] = pc[q]) /\ (takenAway => takenAway')
  BY <1>t, RunFrame, AwayFrame
<1>r. pc'[p] = "done" /\ state' = StateAfter(p, error) /\ takenAway' = (takenAway \/ TakesAway(p)) /\ ~PastBind(p)'
  BY <1>t DEF Raise, Return, Jump, PastBind, AfterBind, StopLabels
<1>1. CASE Served => Served'
  BY <1>t, <1>1, <1>r, ServeStays DEF StateAfter
<1>2. CASE pc[p] \in {"unbind"} \cup EjectLabels
  BY <1>2, <1>r DEF ServeInv, TakesAway
<1>3. CASE pc[p] = "bind" /\ op[p] # "startup"
  BY <1>3, <1>f DEF AwayInv, ServeInv, Exchanging
<1>4. CASE pc[p] = "bind" /\ op[p] = "startup"
  <2>1. state' # "running"
    BY <1>4, <1>r DEF StateAfter
  <2>2. \A q \in Procs \ {p} : ~PastBind(q)'
    BY <1>4, <1>f, AloneInCutover DEF InCutover, CutoverLabels, PastBind, AfterBind, Activating
  <2>3. QED
    BY <1>r, <2>1, <2>2 DEF ServeInv
<1>5. QED
  BY <1>1, <1>2, <1>3, <1>4

\* A step of a handler.
LEMMA ServeRun ==
    ASSUME NEW p \in Procs, IInv, DeviceInv, AwayInv, ServeInv, Run(p)
    PROVE  ServeInv'
<1>t. CtlInv /\ pc \in [Procs -> Labels] /\ op[Main] \in {"startup", "shutdown"} /\ Fits(p, pc[p])
  BY DEF IInv, CtlInv, ServiceTypeOK, CallInv
<1>f. op' = op /\ \A q \in Procs \ {p} : pc'[q] = pc[q]
  BY <1>t, RunFrame
<1>a. Activating(p)' = Activating(p)
  BY <1>f DEF Activating
<1>1. CASE Bind(p)
  BY <1>1 DEF DeviceInv, ServeInv, Served, Bind, GadgetBind
<1>2. CASE \/ LoadFails(p) \/ CompileFails(p) \/ LookupFails(p) \/ AcquireFails(p) \/ UnbindFails(p)
           \/ WriteStateFails(p) \/ AwaitSocketTimesOut(p) \/ ConnectFails(p) \/ BindFails(p)
           \/ StartWorkerFails(p) \/ JoinFails(p) \/ EjectFails(p) \/ EjectUnbindFails(p)
  <2>1. PICK error \in Errors : Raise(p, error)
    BY <1>2 DEF LoadFails, CompileFails, LookupFails, AcquireFails, UnbindFails, WriteStateFails, AwaitSocketTimesOut,
                ConnectFails, BindFails, StartWorkerFails, JoinFails, EjectFails, EjectUnbindFails, Errors
  <2>2. (Served => Served') \/ pc[p] \in {"unbind", "bind"} \cup EjectLabels
    BY <1>2 DEF LoadFails, CompileFails, LookupFails, AcquireFails, UnbindFails, WriteStateFails, AwaitSocketTimesOut,
                ConnectFails, BindFails, StartWorkerFails, JoinFails, EjectFails, EjectUnbindFails, Served, hwVars, EjectLabels
  <2>3. pc'[p] = "done"
    BY <1>t, <2>1 DEF Raise, Return, Jump
  <2>4. ~Bind(p)
    BY <1>t, <2>3 DEF Bind, DiskStep, Jump
  <2>5. QED
    BY <2>1, <2>2, <2>4, ServeRaises
<1>3. CASE Unbind(p) \/ Eject(p) \/ EjectUnbind(p)
  <2>1. takenAway' = TRUE
    BY <1>3 DEF Unbind, Eject, EjectUnbind, DiskStep
  <2>2. QED
    BY <2>1 DEF ServeInv
<1>4. CASE StopNbdkit(p)
  <2>1. pc[p] \in Exchanging /\ op[p] # "startup" /\ takenAway' = takenAway
    BY <1>t, <1>4 DEF StopNbdkit, Step, Exchanging, Fits
  <2>2. QED
    BY <2>1 DEF AwayInv, ServeInv
<1>5. CASE Connect(p)
  <2>1. gadget' = gadget /\ nbd0' # NotConnected /\ pc'[p] = "bind" /\ state' = state
    BY <1>t, <1>5, LinksAssumption DEF IInv, HwInv, ServerLoaded, Connect, NbdConnect, Links, Step, Jump
  <2>2. ~Bind(p)
    BY <1>5 DEF Bind, Connect
  <2>3. QED
    BY <1>t, <2>1, <2>2, ServeStays DEF Served, PastBind, AfterBind, StopLabels
<1>6. CASE WriteState(p) \/ StartNbdkit(p) \/ AwaitSocket(p)
  <2>1. /\ gadget' = gadget /\ nbd0' = nbd0 /\ pc'[p] \in {"start", "await_socket", "connect"} /\ state' = state
        /\ pc[p] # "bind"
    BY <1>t, <1>6 DEF WriteState, StartNbdkit, AwaitSocket, ReplaceMapperState, SystemctlStart, hwVars, Step, Jump
  <2>2. QED
    BY <1>t, <2>1, ServeStays DEF Bind, Served, PastBind, AfterBind, StopLabels
<1>7. CASE Load(p) \/ MountAndBuild(p) \/ TakeNumber(p) \/ Publish(p) \/ Lookup(p) \/ Acquire(p)
  <2>1. /\ gadget' = gadget /\ nbd0' = nbd0 /\ state' = state /\ pc[p] # "bind"
        /\ pc'[p] \in {"mount", "build", "publish", "done", "lookup", "acquire", "write", "unbind"}
    BY <1>t, <1>7 DEF Load, MountAndBuild, TakeNumber, Publish, Lookup, Acquire, Return, hwVars, Step, Jump
  <2>2. QED
    BY <1>t, <2>1, ServeStays DEF Bind, Served, PastBind, AfterBind, StopLabels
<1>8. CASE NewWorker(p) \/ StartWorker(p) \/ Commit(p)
  <2>1. gadget' = gadget /\ nbd0' = nbd0 /\ pc[p] \in {"new_worker", "start_worker", "commit"}
    BY <1>8 DEF NewWorker, StartWorker, Commit, hwVars
  <2>2. PastBind(p)
    BY <1>t, <2>1 DEF PastBind, AfterBind, Fits, CutoverLabels
  <2>3. QED
    BY <1>t, <2>1, <2>2, ServeStays DEF Bind, Served
<1>9. CASE ReadWorker(p) \/ StopWorker(p) \/ JoinReturns(p) \/ ClearWorker(p)
  <2>1. gadget' = gadget /\ nbd0' = nbd0 /\ state' = state /\ pc[p] \in StopLabels
    BY <1>9 DEF ReadWorker, StopWorker, JoinReturns, ClearWorker, hwVars, Step, StopLabels
  <2>2. PastBind(p)' => PastBind(p)
    BY <1>a, <2>1 DEF PastBind, AfterBind
  <2>3. QED
    BY <1>t, <2>1, <2>2, ServeStays DEF Bind, Served, StopLabels
<1>10. QED
  BY <1>1, <1>2, <1>3, <1>4, <1>5, <1>6, <1>7, <1>8, <1>9
     DEF Run, CompileStep, ActivateStep, CutoverStep, StopStep, EjectStep

\* A request arrives, or is refused: it is in no cutover yet.
LEMMA ServeArrival ==
    ASSUME NEW r \in Requests, CtlInv, ServeInv, Arrival(r)
    PROVE  ServeInv'
<1>t. pc \in [Procs -> Labels] /\ op \in [Procs -> AllOps \cup {"none"}]
  BY DEF CtlInv, ServiceTypeOK
<1>1. /\ UNCHANGED <<gadget, nbd0, state, takenAway>> /\ op'[Main] = op[Main]
      /\ \A q \in Procs \ {r} : pc'[q] = pc[q] /\ op'[q] = op[q]
  BY <1>t, ProcsAssumption
     DEF Arrival, Refuse, SubmitCompile, SubmitReplace, SubmitActivate, SubmitEject, Submit, Return, Jump, hwVars
<1>2. \/ pc'[r] \in {"done", "mount", "lookup"}
      \/ pc'[r] = "read_worker" /\ op'[r] = "eject"
  BY <1>t, ProcsAssumption
     DEF Arrival, Refuse, SubmitCompile, SubmitReplace, SubmitActivate, SubmitEject, Submit, Return, Jump
<1>3. ~PastBind(r)' /\ \A q \in Procs \ {r} : PastBind(q)' = PastBind(q)
  BY <1>1, <1>2 DEF PastBind, Activating, AfterBind, StopLabels
<1>4. Served' = Served
  BY <1>1 DEF Served
<1>5. QED
  BY <1>1, <1>3, <1>4 DEF ServeInv

\* The invariant is inductive.
LEMMA ServeNext == IInv /\ DeviceInv /\ AwayInv /\ ServeInv /\ [Next]_vars => ServeInv'
<1>. SUFFICES ASSUME IInv, DeviceInv, AwayInv, ServeInv, [Next]_vars PROVE ServeInv'
  OBVIOUS
<1>t. CtlInv /\ pc \in [Procs -> Labels] /\ op \in [Procs -> AllOps \cup {"none"}]
  BY DEF IInv, CtlInv, ServiceTypeOK
<1>1. CASE \E r \in Requests : Arrival(r)
  BY <1>t, <1>1, ServeArrival
<1>2. CASE \E p \in Procs : Run(p)
  BY <1>2, ServeRun
<1>3. CASE ShutdownStep
  <2>1. op'[Main] = "shutdown"
    BY <1>t, <1>3, ProcsAssumption
       DEF CtlInv, CallInv, Fits, ShutdownLabels, ShutdownStep, BeginShutdown, ShutdownUnbind, ShutdownNbd, Step, callVars
  <2>2. QED
    BY <2>1 DEF ServeInv
<1>4. CASE Restart
  <2>1. state' # "running" /\ \A p \in Procs : pc'[p] \in {"load", "done", "idle"}
    BY <1>t, <1>4 DEF Restart
  <2>2. QED
    BY <2>1 DEF ServeInv, PastBind, AfterBind, StopLabels
<1>5. CASE (\E w \in Procs : Prefetch(w)) \/ Systemd \/ Ended \/ UNCHANGED vars
  <2>1. UNCHANGED <<pc, op, state, gadget, takenAway>> /\ (nbd0 # NotConnected => nbd0' # NotConnected)
    BY <1>5 DEF Prefetch, Systemd, NbdkitServe, NbdkitExit, NbdkitCrash, LostLink, Dead, NotConnected, Ended, vars,
                serviceVars, callVars, hwVars
  <2>2. QED
    BY <2>1 DEF ServeInv, Served, PastBind, Activating
<1>6. QED
  BY <1>1, <1>2, <1>3, <1>4, <1>5 DEF Next

\* A service that is "running" and has not taken the disk away since it last
\* attached one has its gadget bound over a device that is connected or whose
\* server has died, whatever failed, was ejected or was killed before.
THEOREM RunningHasDisk == Spec => []RunningServes
<1>. DEFINE Inv == ShutdownAlone /\ DeviceInv /\ AwayInv /\ ServeInv
<1>1. Init => Inv
  <2>. SUFFICES ASSUME Init PROVE Inv
    OBVIOUS
  <2>1. ShutdownAlone /\ DeviceInv
    BY ProcsAssumption DEF Init, ShutdownAlone, DeviceInv
  <2>2. AwayInv /\ ServeInv
    BY ProcsAssumption DEF Init, AwayInv, Exchanging, ServeInv, PastBind, AfterBind, StopLabels
  <2>3. QED
    BY <2>1, <2>2
<1>2. IInv /\ Inv /\ [Next]_vars => Inv'
  BY ShutdownAloneNext, DeviceNext, AwayNext, ServeNext DEF IInv
<1>3. Inv => RunningServes
  BY DEF ServeInv, Served, RunningServes
<1>4. QED
  BY <1>1, <1>2, <1>3, Invariance, PTL DEF Spec

=============================================================================
