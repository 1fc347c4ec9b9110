---------------------------- MODULE ServiceProofs ----------------------------
(***************************************************************************)
(* Proofs about the control plane, for every set of configurations and of  *)
(* concurrent requests.                                                    *)
(*                                                                         *)
(* OneCutover and NoLockLeak are not inductive: they say nothing about who *)
(* may be where.  LockInv adds that a thread of a request is in a cutover  *)
(* exactly when it owns the lock, and StartupAlone that startup, which     *)
(* takes no lock, has the service to itself; both rest on CallInv, which   *)
(* ties the line a thread executes to the operation it is serving.         *)
(***************************************************************************)
EXTENDS ServiceProperties, TLAPS, FiniteSetTheorems

\* A thread at this label is where its operation can take it.
Fits(p, label) ==
    /\ label = "load" => op[p] = "startup"
    /\ label \in CompileLabels => op[p] \in {"compile", "replace", "startup"}
    /\ label \in {"lookup", "acquire", "unbind", "nbd_stop"} => op[p] \in {"activate", "replace"}
    /\ label \in CutoverLabels => Activating(p)
    /\ label \in StopLabels => Activating(p) \/ op[p] \in {"eject", "shutdown"}
    /\ label \in ShutdownLabels => op[p] = "shutdown"

\* The label belongs to a cutover of p; InCutover(p) is Inside(p, pc[p]).
Inside(p, label) == label \in CutoverLabels \/ (label \in StopLabels /\ Activating(p))

\* What a thread can be doing, given what it was called for.
CallInv ==
    /\ op[Main] \in {"startup", "shutdown"}
    /\ \A r \in Requests : op[r] \in Ops \cup {"none"}
    /\ \A p \in Procs : Fits(p, pc[p])
    /\ \A p \in Procs : pc[p] \in {"publish", "lookup"} => gid[p] \in Gens

\* startup runs before any request of its process; shutdown after the last.
StartupAlone ==
    op[Main] = "startup" /\ pc[Main] # "done" => \A r \in Requests : pc[r] \in {"idle", "done"}

\* The lock is owned by a request exactly while that request is in a cutover,
\* and by a worker exactly while that worker is in the callback.
LockInv ==
    /\ \A r \in Requests : InCutover(r) <=> lock = ByService(r)
    /\ lock # ByService(Main)
    /\ \A w \in Procs : wpc[w] = "record" <=> lock = ByWorker(w)

\* The worker of startup does not exist before startup creates it.
NoWorkerYet ==
    op[Main] = "startup" /\ pc[Main] \notin {"start_worker", "commit", "done"} => wpc[Main] = "none"

\* Whoever answers on the socket has loaded a state file.
ServerLoaded == SocketExists => server \in Configs

\* The hardware's part of the invariant and the threads' part.
HwInv  == HardwareTypeOK /\ ServerLoaded
CtlInv == WorkerTypeOK /\ ServiceTypeOK /\ CallInv /\ StartupAlone /\ LockInv
IInv   == HwInv /\ CtlInv /\ NoWorkerYet

-----------------------------------------------------------------------------
(* The hardware: every operation of the managers and of systemd keeps HwInv *)

\* A step that leaves the hardware alone keeps its invariant.
LEMMA HwUnchanged == HwInv /\ UNCHANGED hwVars => HwInv'
BY DEF HwInv, HardwareTypeOK, ServerLoaded, SocketExists, hwVars

\* nbdkit starting, exiting or crashing: a served image was loaded from a state file.
LEMMA HwSystemd == HwInv /\ (NbdkitServe \/ NbdkitExit \/ NbdkitCrash) => HwInv'
BY DEF HwInv, HardwareTypeOK, ServerLoaded, SocketExists, NbdkitServe, NbdkitExit, NbdkitCrash,
       LostLink, Links

\* stop, start and connect of NbdkitManager keep the hardware invariant.
LEMMA HwNbd == HwInv /\ (NbdStop \/ SystemctlStart \/ NbdConnect) => HwInv'
BY DEF HwInv, HardwareTypeOK, ServerLoaded, SocketExists, NbdStop, SystemctlStart, NbdConnect, Links

\* So does moving a new mapper.state into place.
LEMMA HwReplace ==
    ASSUME NEW c \in Configs \cup {NoCfg}, HwInv, ReplaceMapperState(c)
    PROVE  HwInv'
BY DEF HwInv, HardwareTypeOK, ServerLoaded, SocketExists, ReplaceMapperState

\* bind and unbind, successful or not, touch only the gadget tree.
LEMMA HwGadget ==
    HwInv /\ (GadgetUnbind \/ GadgetUnbindFails \/ GadgetBind \/ GadgetBindFails) => HwInv'
BY DEF HwInv, HardwareTypeOK, ServerLoaded, SocketExists, GadgetUnbind, GadgetUnbindFails,
       GadgetBind, GadgetBindFails

\* Every state in which the service can find the hardware satisfies it.
LEMMA HwSpec == HardwareInit => HwInv
BY ConfigsAssumption
   DEF HardwareInit, HwInv, HardwareTypeOK, ServerLoaded, SocketExists, Links

\* The end of the service process leaves the hardware well formed.
LEMMA HwDies == HwInv /\ ServiceDies /\ (GadgetTorn \/ UNCHANGED gadget) => HwInv'
BY DEF HwInv, HardwareTypeOK, ServerLoaded, SocketExists, ServiceDies, GadgetTorn, LostLink, Links

-----------------------------------------------------------------------------
(* The threads                                                             *)

\* Service threads, workers and Free are distinct owners of the lock.
LEMMA OwnerFacts ==
    /\ \A p, q \in Procs : ByService(p) = ByService(q) => p = q
    /\ \A p, q \in Procs : ByWorker(p) = ByWorker(q) => p = q
    /\ \A p, q \in Procs : ByService(p) # ByWorker(q)
    /\ \A p \in Procs : ByService(p) \in Owners /\ ByWorker(p) \in Owners
    /\ \A p \in Procs : Free # ByService(p) /\ Free # ByWorker(p)
    /\ Free \in Owners
BY FreeAssumption DEF ByService, ByWorker, Owners

\* An exception out of any handler gives back what the handler held.
LEMMA CtlRaise ==
    ASSUME NEW p \in Procs, NEW error \in Errors,
           CtlInv, pc[p] \notin {"idle", "done"}, Raise(p, error)
    PROVE  CtlInv'
<1>. USE ProcsAssumption, MaxGenAssumption, OwnerFacts DEF CtlInv, Raise, Return, Jump, ReleaseIfHeld
<1>1. WorkerTypeOK'
  BY DEF WorkerTypeOK
<1>2. ServiceTypeOK'
  <2>1. takenAway' \in BOOLEAN
    BY DEF ServiceTypeOK, TakesAway
  <2>2. QED
    BY <2>1 DEF ServiceTypeOK, StateAfter, Labels
<1>3. CallInv'
  BY DEF CallInv, Fits, ServiceTypeOK, CompileLabels, CutoverLabels, Activating, StopLabels, ShutdownLabels
<1>4. StartupAlone'
  BY DEF StartupAlone, ServiceTypeOK
<1>5. LockInv'
  BY DEF LockInv, ServiceTypeOK, WorkerTypeOK, InCutover, CutoverLabels, StopLabels, Activating
<1>6. QED
  BY <1>1, <1>2, <1>3, <1>4, <1>5

\* A step that moves p from one label to another, and leaves the lock and what
\* p was called for as they are, keeps CtlInv when both labels are inside the
\* cutover or both outside, and the new one fits.
LEMMA CtlMove ==
    ASSUME NEW p \in Procs, NEW label \in Labels \ {"idle"},
           CtlInv, pc[p] \notin {"idle", "done"}, Jump(p, label),
           op' = op, lock' = lock,
           ServiceTypeOK', WorkerTypeOK',
           \A w \in Procs : wpc'[w] = "record" <=> wpc[w] = "record",
           \A q \in Procs \ {p} : gid'[q] = gid[q],
           Fits(p, label), label \in {"publish", "lookup"} => gid'[p] \in Gens,
           Inside(p, label) <=> Inside(p, pc[p])
    PROVE  CtlInv'
<1>. USE ProcsAssumption DEF CtlInv, Jump
<1>1. CallInv'
  BY DEF CallInv, Fits, ServiceTypeOK, Activating
<1>2. StartupAlone'
  BY DEF StartupAlone, ServiceTypeOK
<1>3. LockInv'
  BY DEF LockInv, ServiceTypeOK, InCutover, Inside, Activating
<1>4. QED
  BY <1>1, <1>2, <1>3

\* The common case: a step of the form Step(p, label) or DiskStep(p, label, away).
LEMMA CtlStep ==
    ASSUME NEW p \in Procs, NEW label \in Labels \ {"idle", "publish", "lookup"},
           CtlInv, pc[p] \notin {"idle", "done"}, Step(p, label) \/ \E away \in BOOLEAN : DiskStep(p, label, away),
           WorkerTypeOK', lock' = lock,
           \A w \in Procs : wpc'[w] = "record" <=> wpc[w] = "record",
           Fits(p, label), Inside(p, label) <=> Inside(p, pc[p])
    PROVE  CtlInv'
<1>1. ServiceTypeOK'
  BY DEF CtlInv, ServiceTypeOK, Step, DiskStep, Jump, callVars
<1>2. Jump(p, label) /\ op' = op /\ gid' = gid
  BY DEF Step, DiskStep, callVars
<1>3. QED
  BY <1>1, <1>2, CtlMove

-----------------------------------------------------------------------------
(* One lemma per group of actions                                          *)

\* The steps of _compile.
LEMMA CtlCompile ==
    ASSUME NEW p \in Procs, CtlInv, CompileStep(p)
    PROVE  CtlInv'
<1>0. CASE Load(p)
  <2>1. WorkerTypeOK' /\ lock' = lock /\ wpc' = wpc /\ op' = op /\ gid' = gid
    BY <1>0 DEF CtlInv, WorkerTypeOK, Load, workerVars
  <2>2. ServiceTypeOK'
    BY <1>0 DEF CtlInv, ServiceTypeOK, Load, Jump, Labels, CompileLabels
  <2>3. Fits(p, "mount") /\ (Inside(p, "mount") <=> Inside(p, pc[p])) /\ "mount" \in Labels
    BY <1>0 DEF CtlInv, CallInv, Fits, Inside, Load, CompileLabels, CutoverLabels, StopLabels, Labels, ShutdownLabels
  <2>4. QED
    BY <1>0, <2>1, <2>2, <2>3, CtlMove DEF Load
<1>f. CASE LoadFails(p)
  BY <1>f, CtlRaise DEF LoadFails, Errors
<1>1. CASE MountAndBuild(p)
  <2>1. WorkerTypeOK' /\ lock' = lock /\ wpc' = wpc
    BY <1>1 DEF CtlInv, WorkerTypeOK, MountAndBuild, workerVars
  <2>2. Fits(p, "build") /\ (Inside(p, "build") <=> Inside(p, pc[p])) /\ "build" \in Labels
    BY <1>1 DEF CtlInv, CallInv, Fits, Inside, MountAndBuild, CompileLabels, CutoverLabels, StopLabels, Labels, ShutdownLabels
  <2>3. QED
    BY <1>1, <2>1, <2>2, CtlStep DEF MountAndBuild
<1>2. CASE CompileFails(p)
  BY <1>2, CtlRaise DEF CompileFails
<1>3. CASE TakeNumber(p)
  <2>1. ServiceTypeOK' /\ WorkerTypeOK' /\ lock' = lock /\ wpc' = wpc
    BY <1>3, MaxGenAssumption
       DEF CtlInv, ServiceTypeOK, WorkerTypeOK, TakeNumber, workerVars, Jump, Gens, Labels, CompileLabels
  <2>2. Fits(p, "publish") /\ (Inside(p, "publish") <=> Inside(p, pc[p])) /\ "publish" \in Labels
    BY <1>3 DEF CtlInv, CallInv, Fits, Inside, TakeNumber, CompileLabels, CutoverLabels, StopLabels, Labels, ShutdownLabels
  <2>3. gid'[p] \in Gens /\ \A q \in Procs \ {p} : gid'[q] = gid[q]
    BY <1>3 DEF CtlInv, ServiceTypeOK, TakeNumber
  <2>4. QED
    BY <1>3, <2>1, <2>2, <2>3, CtlMove DEF TakeNumber
<1>4. CASE Publish(p)
  <2>1. ServiceTypeOK' /\ WorkerTypeOK' /\ lock' = lock /\ wpc' = wpc /\ op' = op
    <3>1. WorkerTypeOK' /\ lock' = lock /\ wpc' = wpc
      BY <1>4 DEF CtlInv, WorkerTypeOK, Publish, workerVars
    <3>2. op' = op
      BY <1>4 DEF Publish, Return, callVars
    <3>3. /\ compiled' \in [Gens -> Configs \cup {NoCfg}] /\ nextGeneration' \in Nat \ {0}
          /\ UNCHANGED <<state, active, prefetchWorker, restarts, takenAway>>
      <4>1. nextGeneration' = nextGeneration + 1 /\ nextGeneration \in Nat \ {0}
        BY <1>4 DEF CtlInv, ServiceTypeOK, Publish
      <4>2. compiled' = [compiled EXCEPT ![gid[p]] = cfg[p]] /\ cfg[p] \in Configs \cup {NoCfg}
        BY <1>4 DEF CtlInv, ServiceTypeOK, Publish
      <4>3. compiled \in [Gens -> Configs \cup {NoCfg}]
        BY DEF CtlInv, ServiceTypeOK
      <4>4. compiled' \in [Gens -> Configs \cup {NoCfg}]
        BY <4>2, <4>3
      <4>5. QED
        BY <1>4, <4>1, <4>4 DEF Publish
    <3>4. /\ pc' \in [Procs -> Labels] /\ gid' \in [Procs -> 0..MaxGen]
          /\ cfg' \in [Procs -> Configs \cup {NoCfg}] /\ victim' \in [Procs -> Procs \cup {NoWorker}]
      BY <1>4, MaxGenAssumption
         DEF CtlInv, ServiceTypeOK, Publish, Return, Jump, callVars, Labels, CutoverLabels
    <3>5. QED
      BY <3>1, <3>2, <3>3, <3>4 DEF CtlInv, ServiceTypeOK
  <2>2. CASE op[p] = "compile"
    <3>1. Jump(p, "done") /\ \A q \in Procs \ {p} : gid'[q] = gid[q]
      BY <1>4, <2>2 DEF CtlInv, ServiceTypeOK, Publish, Return
    <3>2. Fits(p, "done") /\ (Inside(p, "done") <=> Inside(p, pc[p])) /\ "done" \in Labels
      BY <1>4 DEF Fits, Inside, Publish, CompileLabels, CutoverLabels, StopLabels, Labels, ShutdownLabels
    <3>3. QED
      BY <1>4, <2>1, <3>1, <3>2, CtlMove DEF Publish
  <2>3. CASE op[p] = "replace"
    <3>1. Jump(p, "lookup") /\ gid' = gid
      BY <1>4, <2>3 DEF Publish, callVars
    <3>2. Fits(p, "lookup") /\ (Inside(p, "lookup") <=> Inside(p, pc[p])) /\ "lookup" \in Labels
      BY <1>4, <2>3 DEF Fits, Inside, Publish, CompileLabels, CutoverLabels, StopLabels, Labels, ShutdownLabels
    <3>3. gid[p] \in Gens
      BY <1>4 DEF CtlInv, CallInv, Publish
    <3>4. QED
      BY <1>4, <2>1, <3>1, <3>2, <3>3, CtlMove DEF Publish
  <2>4. CASE op[p] = "startup"
    <3>1. p = Main
      BY <2>4, ProcsAssumption, OpsAssumption DEF CtlInv, CallInv
    <3>2. Jump(p, "write") /\ gid' = gid
      BY <1>4, <2>4 DEF Publish, callVars
    <3>3. CallInv' /\ StartupAlone'
      BY <1>4, <2>1, <2>4, <3>1, <3>2, ProcsAssumption
         DEF CtlInv, CallInv, Fits, StartupAlone, ServiceTypeOK, Publish, Jump, Activating, CompileLabels, CutoverLabels, StopLabels, ShutdownLabels
    <3>4. LockInv'
      BY <2>1, <3>1, <3>2, ProcsAssumption
         DEF CtlInv, LockInv, InCutover, Activating, ServiceTypeOK, Jump
    <3>5. QED
      BY <2>1, <3>3, <3>4 DEF CtlInv
  <2>5. QED
    BY <1>4, <2>2, <2>3, <2>4 DEF Publish
<1>5. QED
  BY <1>0, <1>f, <1>1, <1>2, <1>3, <1>4 DEF CompileStep

\* The lookup and the try-lock of activate_generation.
LEMMA CtlActivate ==
    ASSUME NEW p \in Procs, CtlInv, ActivateStep(p)
    PROVE  CtlInv'
<1>1. CASE Lookup(p)
  <2>1. WorkerTypeOK' /\ lock' = lock /\ wpc' = wpc /\ op' = op /\ gid' = gid
    BY <1>1 DEF CtlInv, WorkerTypeOK, Lookup, workerVars
  <2>2. gid[p] \in Gens
    BY <1>1 DEF CtlInv, CallInv, Lookup
  <2>3. ServiceTypeOK'
    BY <1>1, <2>2 DEF CtlInv, ServiceTypeOK, Lookup, Jump, Labels
  <2>4. Fits(p, "acquire") /\ (Inside(p, "acquire") <=> Inside(p, pc[p])) /\ "acquire" \in Labels
    BY <1>1 DEF CtlInv, CallInv, Fits, Inside, Lookup, CompileLabels, CutoverLabels, StopLabels, Labels, ShutdownLabels
  <2>5. QED
    BY <1>1, <2>1, <2>3, <2>4, CtlMove DEF Lookup
<1>2. CASE LookupFails(p)
  BY <1>2, CtlRaise DEF LookupFails, Errors
<1>3. CASE Acquire(p)
  <2>1. p \in Requests /\ op[p] \in {"activate", "replace"}
    BY <1>3, ProcsAssumption DEF CtlInv, CallInv, Fits, Acquire
  <2>2. WorkerTypeOK' /\ ServiceTypeOK' /\ wpc' = wpc /\ lock' = ByService(p) /\ op' = op /\ gid' = gid
    BY <1>3, OwnerFacts
       DEF CtlInv, WorkerTypeOK, ServiceTypeOK, Acquire, Step, Jump, callVars, Labels, CutoverLabels
  <2>3. CallInv' /\ StartupAlone'
    BY <1>3, <2>1, <2>2, ProcsAssumption
       DEF CtlInv, CallInv, Fits, StartupAlone, ServiceTypeOK, Acquire, Step, Jump, Activating, CompileLabels, CutoverLabels, StopLabels, ShutdownLabels
  <2>4. LockInv'
    BY <1>3, <2>1, <2>2, ProcsAssumption, OwnerFacts
       DEF CtlInv, LockInv, ServiceTypeOK, WorkerTypeOK, InCutover, Acquire, Step, Jump, Activating, CutoverLabels, StopLabels
  <2>5. QED
    BY <2>2, <2>3, <2>4 DEF CtlInv
<1>4. CASE AcquireFails(p)
  BY <1>4, CtlRaise DEF AcquireFails, Errors
<1>5. QED
  BY <1>1, <1>2, <1>3, <1>4 DEF ActivateStep

\* The steps of _activate_hardware and the commit after it.
LEMMA CtlCutover ==
    ASSUME NEW p \in Procs, CtlInv, NoWorkerYet, CutoverStep(p)
    PROVE  CtlInv'
<1>1. CASE Unbind(p)
  <2>1. WorkerTypeOK' /\ lock' = lock /\ wpc' = wpc
    BY <1>1 DEF CtlInv, WorkerTypeOK, Unbind, workerVars
  <2>2. Fits(p, "nbd_stop") /\ (Inside(p, "nbd_stop") <=> Inside(p, pc[p])) /\ "nbd_stop" \in Labels
    BY <1>1 DEF CtlInv, CallInv, Fits, Inside, Unbind, Activating, CompileLabels, CutoverLabels, StopLabels, EjectLabels, Labels, ShutdownLabels
  <2>3. QED
    BY <1>1, <2>1, <2>2, CtlStep DEF Unbind
<1>2. CASE UnbindFails(p)
  BY <1>2, CtlRaise DEF UnbindFails, Errors
<1>3. CASE StopNbdkit(p)
  <2>1. WorkerTypeOK' /\ lock' = lock /\ wpc' = wpc
    BY <1>3 DEF CtlInv, WorkerTypeOK, StopNbdkit, workerVars
  <2>2. Fits(p, "write") /\ (Inside(p, "write") <=> Inside(p, pc[p])) /\ "write" \in Labels
    BY <1>3 DEF CtlInv, CallInv, Fits, Inside, StopNbdkit, Activating, CompileLabels, CutoverLabels, StopLabels, EjectLabels, Labels, ShutdownLabels
  <2>3. QED
    BY <1>3, <2>1, <2>2, CtlStep DEF StopNbdkit
<1>4. CASE WriteState(p)
  <2>1. WorkerTypeOK' /\ lock' = lock /\ wpc' = wpc
    BY <1>4 DEF CtlInv, WorkerTypeOK, WriteState, workerVars
  <2>2. Fits(p, "start") /\ (Inside(p, "start") <=> Inside(p, pc[p])) /\ "start" \in Labels
    BY <1>4 DEF CtlInv, CallInv, Fits, Inside, WriteState, Activating, CompileLabels, CutoverLabels, StopLabels, EjectLabels, Labels, ShutdownLabels
  <2>3. QED
    BY <1>4, <2>1, <2>2, CtlStep DEF WriteState
<1>5. CASE WriteStateFails(p)
  BY <1>5, CtlRaise DEF WriteStateFails, Errors
<1>6. CASE StartNbdkit(p)
  <2>1. WorkerTypeOK' /\ lock' = lock /\ wpc' = wpc
    BY <1>6 DEF CtlInv, WorkerTypeOK, StartNbdkit, workerVars
  <2>2. Fits(p, "await_socket") /\ (Inside(p, "await_socket") <=> Inside(p, pc[p])) /\ "await_socket" \in Labels
    BY <1>6 DEF CtlInv, CallInv, Fits, Inside, StartNbdkit, Activating, CompileLabels, CutoverLabels, StopLabels, EjectLabels, Labels, ShutdownLabels
  <2>3. QED
    BY <1>6, <2>1, <2>2, CtlStep DEF StartNbdkit
<1>7. CASE AwaitSocket(p)
  <2>1. WorkerTypeOK' /\ lock' = lock /\ wpc' = wpc
    BY <1>7 DEF CtlInv, WorkerTypeOK, AwaitSocket, workerVars
  <2>2. Fits(p, "connect") /\ (Inside(p, "connect") <=> Inside(p, pc[p])) /\ "connect" \in Labels
    BY <1>7 DEF CtlInv, CallInv, Fits, Inside, AwaitSocket, Activating, CompileLabels, CutoverLabels, StopLabels, EjectLabels, Labels, ShutdownLabels
  <2>3. QED
    BY <1>7, <2>1, <2>2, CtlStep DEF AwaitSocket
<1>8. CASE AwaitSocketTimesOut(p)
  BY <1>8, CtlRaise DEF AwaitSocketTimesOut, Errors
<1>9. CASE Connect(p)
  <2>1. WorkerTypeOK' /\ lock' = lock /\ wpc' = wpc
    BY <1>9 DEF CtlInv, WorkerTypeOK, Connect, workerVars
  <2>2. Fits(p, "bind") /\ (Inside(p, "bind") <=> Inside(p, pc[p])) /\ "bind" \in Labels
    BY <1>9 DEF CtlInv, CallInv, Fits, Inside, Connect, Activating, CompileLabels, CutoverLabels, StopLabels, EjectLabels, Labels, ShutdownLabels
  <2>3. QED
    BY <1>9, <2>1, <2>2, CtlStep DEF Connect
<1>10. CASE ConnectFails(p)
  BY <1>10, CtlRaise DEF ConnectFails, Errors
<1>11. CASE Bind(p)
  <2>1. WorkerTypeOK' /\ lock' = lock /\ wpc' = wpc
    BY <1>11 DEF CtlInv, WorkerTypeOK, Bind, workerVars
  <2>2. Fits(p, "read_worker") /\ (Inside(p, "read_worker") <=> Inside(p, pc[p])) /\ "read_worker" \in Labels
    BY <1>11 DEF CtlInv, CallInv, Fits, Inside, Bind, Activating, CompileLabels, CutoverLabels, StopLabels, EjectLabels, Labels, ShutdownLabels
  <2>3. QED
    BY <1>11, <2>1, <2>2, CtlStep DEF Bind
<1>12. CASE BindFails(p)
  BY <1>12, CtlRaise DEF BindFails, Errors
<1>13. CASE NewWorker(p)
  <2>1. op' = op /\ gid' = gid /\ lock' = lock
    BY <1>13 DEF NewWorker, Create, callVars
  <2>2. WorkerTypeOK' /\ \A w \in Procs : wpc'[w] = "record" <=> wpc[w] = "record"
    <3>1. wpc[p] # "record"
      <4>1. CASE p = Main
        BY <1>13, <4>1 DEF NewWorker, NoWorkerYet, CtlInv, CallInv, Fits, Activating, CutoverLabels, StopLabels, ShutdownLabels
      <4>2. CASE p \in Requests
        <5>1. lock = ByService(p)
          BY <1>13, <4>2 DEF CtlInv, LockInv, InCutover, NewWorker, CutoverLabels
        <5>2. QED
          BY <5>1, OwnerFacts DEF CtlInv, LockInv
      <4>3. QED
        BY <4>1, <4>2, ProcsAssumption
    <3>2. (cfg[p] \in PrefetchOn) \in BOOLEAN
      OBVIOUS
    <3>3. WorkerTypeOK'
      BY <1>13, <3>2 DEF CtlInv, WorkerTypeOK, NewWorker, Create, Goto
    <3>4. QED
      BY <1>13, <3>1, <3>3 DEF CtlInv, WorkerTypeOK, NewWorker, Create, Goto
  <2>3. ServiceTypeOK'
    BY <1>13 DEF CtlInv, ServiceTypeOK, NewWorker, Jump, callVars, Labels, CutoverLabels
  <2>4. Fits(p, "start_worker") /\ (Inside(p, "start_worker") <=> Inside(p, pc[p])) /\ "start_worker" \in Labels
    BY <1>13 DEF CtlInv, CallInv, Fits, Inside, NewWorker, CompileLabels, CutoverLabels, StopLabels, Labels, ShutdownLabels
  <2>5. QED
    BY <1>13, <2>1, <2>2, <2>3, <2>4, CtlMove DEF NewWorker
<1>14. CASE StartWorker(p)
  <2>1. WorkerTypeOK' /\ lock' = lock /\ \A w \in Procs : wpc'[w] = "record" <=> wpc[w] = "record"
    BY <1>14 DEF CtlInv, WorkerTypeOK, StartWorker, StartThread, Goto
  <2>2. Fits(p, "commit") /\ (Inside(p, "commit") <=> Inside(p, pc[p])) /\ "commit" \in Labels
    BY <1>14 DEF CtlInv, CallInv, Fits, Inside, StartWorker, CompileLabels, CutoverLabels, StopLabels, Labels, ShutdownLabels
  <2>3. QED
    BY <1>14, <2>1, <2>2, CtlStep DEF StartWorker
<1>15. CASE StartWorkerFails(p)
  BY <1>15, CtlRaise DEF StartWorkerFails, Errors
<1>16. CASE Commit(p)
  <2>1. WorkerTypeOK'
    BY <1>16, OwnerFacts DEF CtlInv, WorkerTypeOK, Commit, ReleaseIfHeld
  <2>2. ServiceTypeOK'
    BY <1>16, MaxGenAssumption
       DEF CtlInv, ServiceTypeOK, Commit, Return, Jump, Generation, Labels
  <2>3. CallInv' /\ StartupAlone'
    BY <1>16, ProcsAssumption
       DEF CtlInv, CallInv, Fits, StartupAlone, ServiceTypeOK, Commit, Return, Jump, Activating, CompileLabels, CutoverLabels, StopLabels, ShutdownLabels
  <2>4. LockInv'
    BY <1>16, ProcsAssumption, OwnerFacts
       DEF CtlInv, LockInv, ServiceTypeOK, WorkerTypeOK, InCutover, Commit, Return, ReleaseIfHeld, Jump,
           Activating, CutoverLabels, StopLabels
  <2>5. QED
    BY <2>1, <2>2, <2>3, <2>4 DEF CtlInv
<1>17. QED
  BY <1>1, <1>2, <1>3, <1>4, <1>5, <1>6, <1>7, <1>8, <1>9, <1>10, <1>11, <1>12, <1>13, <1>14,
     <1>15, <1>16 DEF CutoverStep

\* The steps of _stop_prefetch_worker, whoever calls it.
LEMMA CtlStop ==
    ASSUME NEW p \in Procs, CtlInv, StopStep(p)
    PROVE  CtlInv'
<1>. DEFINE after == AfterStop(p)
<1>0. pc[p] \in StopLabels =>
        /\ Fits(p, after) /\ (Inside(p, after) <=> Inside(p, pc[p]))
        /\ after \in Labels \ {"idle", "publish", "lookup"}
  BY DEF CtlInv, CallInv, AfterStop, Fits, Inside, Activating, CompileLabels, CutoverLabels, StopLabels, Labels,
         EjectLabels, ShutdownLabels
<1>1. CASE ReadWorker(p)
  <2>1. WorkerTypeOK' /\ lock' = lock /\ wpc' = wpc /\ op' = op /\ gid' = gid
    BY <1>1 DEF CtlInv, WorkerTypeOK, ReadWorker, workerVars
  <2>2. PICK label \in {after, "set_stop"} : Jump(p, label)
    BY <1>1 DEF ReadWorker
  <2>3. Fits(p, label) /\ (Inside(p, label) <=> Inside(p, pc[p])) /\ label \in Labels \ {"idle", "publish", "lookup"}
    BY <1>0, <1>1 DEF CtlInv, CallInv, ReadWorker, Fits, Inside, Activating, CompileLabels, CutoverLabels, StopLabels, Labels, ShutdownLabels
  <2>4. ServiceTypeOK'
    BY <1>1, <2>2, <2>3 DEF CtlInv, ServiceTypeOK, ReadWorker, Jump
  <2>5. QED
    BY <1>1, <2>1, <2>2, <2>3, <2>4, CtlMove DEF ReadWorker
<1>2. CASE StopWorker(p)
  <2>1. WorkerTypeOK' /\ lock' = lock /\ wpc' = wpc
    BY <1>2 DEF CtlInv, WorkerTypeOK, StopWorker, SetStop
  <2>2. Fits(p, "join") /\ (Inside(p, "join") <=> Inside(p, pc[p])) /\ "join" \in Labels
    BY <1>2 DEF CtlInv, CallInv, Fits, Inside, StopWorker, CompileLabels, CutoverLabels, StopLabels, Labels, ShutdownLabels
  <2>3. QED
    BY <1>2, <2>1, <2>2, CtlStep DEF StopWorker
<1>3. CASE JoinReturns(p)
  <2>1. WorkerTypeOK' /\ lock' = lock /\ wpc' = wpc
    BY <1>3 DEF CtlInv, WorkerTypeOK, JoinReturns, workerVars
  <2>2. Fits(p, "clear_worker") /\ (Inside(p, "clear_worker") <=> Inside(p, pc[p])) /\ "clear_worker" \in Labels
    BY <1>3 DEF CtlInv, CallInv, Fits, Inside, JoinReturns, CompileLabels, CutoverLabels, StopLabels, Labels, ShutdownLabels
  <2>3. QED
    BY <1>3, <2>1, <2>2, CtlStep DEF JoinReturns
<1>4. CASE JoinFails(p)
  BY <1>4, CtlRaise DEF JoinFails, Errors
<1>5. CASE ClearWorker(p)
  <2>1. WorkerTypeOK' /\ lock' = lock /\ wpc' = wpc /\ op' = op /\ gid' = gid
    BY <1>5 DEF CtlInv, WorkerTypeOK, ClearWorker, workerVars, callVars
  <2>2. pc[p] \in StopLabels /\ Jump(p, after)
    BY <1>5 DEF ClearWorker, StopLabels
  <2>3. ServiceTypeOK'
    BY <1>0, <1>5, <2>2 DEF CtlInv, ServiceTypeOK, ClearWorker, Jump, callVars
  <2>4. QED
    BY <1>0, <1>5, <2>1, <2>2, <2>3, CtlMove DEF ClearWorker
<1>6. QED
  BY <1>1, <1>2, <1>3, <1>4, <1>5 DEF StopStep

\* The steps of eject after the worker has been stopped.
LEMMA CtlEject ==
    ASSUME NEW p \in Procs, CtlInv, EjectStep(p)
    PROVE  CtlInv'
<1>1. CASE Eject(p)
  <2>1. WorkerTypeOK' /\ lock' = lock /\ wpc' = wpc
    BY <1>1 DEF CtlInv, WorkerTypeOK, Eject, workerVars
  <2>2. Fits(p, "eject_unbind") /\ (Inside(p, "eject_unbind") <=> Inside(p, pc[p])) /\ "eject_unbind" \in Labels
    BY <1>1 DEF Fits, Inside, Eject, CompileLabels, CutoverLabels, StopLabels, EjectLabels, Labels, ShutdownLabels
  <2>3. QED
    BY <1>1, <2>1, <2>2, CtlStep DEF Eject
<1>2. CASE EjectFails(p)
  BY <1>2, CtlRaise DEF EjectFails, Errors
<1>3. CASE EjectUnbind(p)
  <2>1. WorkerTypeOK' /\ lock' = lock /\ wpc' = wpc /\ op' = op
    BY <1>3 DEF CtlInv, WorkerTypeOK, EjectUnbind, Return, workerVars
  <2>2. ServiceTypeOK' /\ \A q \in Procs \ {p} : gid'[q] = gid[q]
    BY <1>3, MaxGenAssumption DEF CtlInv, ServiceTypeOK, EjectUnbind, Return, Jump, Labels
  <2>3. Fits(p, "done") /\ (Inside(p, "done") <=> Inside(p, pc[p])) /\ "done" \in Labels
    BY <1>3 DEF Fits, Inside, EjectUnbind, CompileLabels, CutoverLabels, StopLabels, Labels, ShutdownLabels
  <2>4. QED
    BY <1>3, <2>1, <2>2, <2>3, CtlMove DEF EjectUnbind, Return
<1>4. CASE EjectUnbindFails(p)
  BY <1>4, CtlRaise DEF EjectUnbindFails, Errors
<1>5. QED
  BY <1>1, <1>2, <1>3, <1>4 DEF EjectStep

\* A request is refused or begins its handler.
LEMMA CtlArrival ==
    ASSUME NEW r \in Requests, CtlInv, Arrival(r)
    PROVE  CtlInv'
<1>. USE ProcsAssumption
<1>1. WorkerTypeOK' /\ lock' = lock /\ wpc' = wpc
  BY DEF CtlInv, WorkerTypeOK, workerVars, Arrival, Refuse, SubmitCompile, SubmitReplace, SubmitActivate, SubmitEject, Submit
<1>2. /\ Accepting /\ pc[r] = "idle" /\ op[Main] = "startup" /\ pc[Main] = "done"
  BY DEF Arrival, Refuse, SubmitCompile, SubmitReplace, SubmitActivate, SubmitEject, Submit, Accepting
<1>3. CASE Refuse(r)
  <2>1. op' = op /\ gid' = [gid EXCEPT ![r] = 0] /\ Jump(r, "done")
    BY <1>3 DEF Refuse, Return
  <2>2. ServiceTypeOK'
    BY <1>3, MaxGenAssumption DEF CtlInv, ServiceTypeOK, Refuse, Return, Jump, Labels
  <2>3. CallInv' /\ StartupAlone'
    BY <1>2, <2>1 DEF CtlInv, CallInv, Fits, StartupAlone, ServiceTypeOK, Jump, Activating, CompileLabels, CutoverLabels, StopLabels, ShutdownLabels
  <2>4. LockInv'
    BY <1>1, <1>2, <2>1 DEF CtlInv, LockInv, ServiceTypeOK, InCutover, Jump, Activating, CutoverLabels, StopLabels
  <2>5. QED
    BY <1>1, <2>2, <2>3, <2>4 DEF CtlInv
<1>4. ASSUME NEW o \in Ops, NEW c \in Configs \cup {NoCfg}, NEW g \in 0..MaxGen, NEW label \in Labels,
             Submit(r, o, c, g, label),
             \/ o \in {"compile", "replace"} /\ label = "mount"
             \/ o = "activate" /\ label = "lookup" /\ g \in Gens
             \/ o = "eject" /\ label = "read_worker"
      PROVE  CtlInv'
  <2>1. op' = [op EXCEPT ![r] = o] /\ gid' = [gid EXCEPT ![r] = g] /\ Jump(r, label)
    BY <1>4 DEF Submit
  <2>2. ServiceTypeOK'
    BY <1>4, OpsAssumption DEF CtlInv, ServiceTypeOK, Submit, Jump, AllOps
  <2>3. CallInv' /\ StartupAlone'
    BY <1>2, <1>4, <2>1
       DEF CtlInv, CallInv, Fits, StartupAlone, ServiceTypeOK, Jump, Activating, CompileLabels, CutoverLabels, StopLabels, ShutdownLabels
  <2>4. LockInv'
    BY <1>1, <1>2, <1>4, <2>1
       DEF CtlInv, LockInv, ServiceTypeOK, InCutover, Jump, Activating, CutoverLabels, StopLabels
  <2>5. QED
    BY <1>1, <2>2, <2>3, <2>4 DEF CtlInv
<1>5. {"mount", "lookup", "read_worker"} \subseteq Labels /\ 0 \in 0..MaxGen /\ Gens \subseteq 0..MaxGen
  BY MaxGenAssumption DEF Labels, CompileLabels, StopLabels, Gens
<1>6. CASE SubmitCompile(r)
  BY <1>4, <1>5, <1>6 DEF SubmitCompile, Submit
<1>7. CASE SubmitReplace(r)
  BY <1>4, <1>5, <1>7 DEF SubmitReplace, Submit
<1>8. CASE SubmitActivate(r)
  BY <1>4, <1>5, <1>8 DEF SubmitActivate, Submit
<1>9. CASE SubmitEject(r)
  BY <1>4, <1>5, <1>9 DEF SubmitEject, Submit
<1>10. QED
  BY <1>3, <1>6, <1>7, <1>8, <1>9 DEF Arrival

\* The steps of shutdown.
LEMMA CtlShutdown ==
    ASSUME CtlInv, ShutdownStep
    PROVE  CtlInv'
<1>. USE ProcsAssumption
<1>1. CASE BeginShutdown
  <2>1. WorkerTypeOK' /\ lock' = lock /\ wpc' = wpc /\ gid' = gid
    BY <1>1 DEF CtlInv, WorkerTypeOK, BeginShutdown, workerVars
  <2>2. ServiceTypeOK'
    BY <1>1 DEF CtlInv, ServiceTypeOK, BeginShutdown, Jump, AllOps, Labels, StopLabels
  <2>3. CallInv' /\ StartupAlone'
    BY <1>1, <2>1
       DEF CtlInv, CallInv, Fits, StartupAlone, ServiceTypeOK, BeginShutdown, Jump, Activating,
           CompileLabels, CutoverLabels, StopLabels, ShutdownLabels
  <2>4. LockInv'
    BY <1>1, <2>1
       DEF CtlInv, LockInv, ServiceTypeOK, InCutover, BeginShutdown, Jump, Activating, CutoverLabels, StopLabels
  <2>5. QED
    BY <2>1, <2>2, <2>3, <2>4 DEF CtlInv
<1>2. CASE ShutdownUnbind
  <2>1. WorkerTypeOK' /\ lock' = lock /\ wpc' = wpc
    BY <1>2 DEF CtlInv, WorkerTypeOK, ShutdownUnbind, workerVars
  <2>2. /\ Fits(Main, "shutdown_nbd") /\ (Inside(Main, "shutdown_nbd") <=> Inside(Main, pc[Main]))
        /\ "shutdown_nbd" \in Labels
    BY <1>2 DEF CtlInv, CallInv, Fits, Inside, ShutdownUnbind, CompileLabels, CutoverLabels, StopLabels, ShutdownLabels, Labels
  <2>3. QED
    BY <1>2, <2>1, <2>2, CtlStep DEF ShutdownUnbind
<1>3. CASE ShutdownNbd
  <2>1. WorkerTypeOK' /\ lock' = lock /\ wpc' = wpc /\ op' = op /\ gid' = gid
    BY <1>3 DEF CtlInv, WorkerTypeOK, ShutdownNbd, workerVars, callVars
  <2>2. ServiceTypeOK'
    BY <1>3 DEF CtlInv, ServiceTypeOK, ShutdownNbd, Jump, callVars, Labels
  <2>3. Fits(Main, "done") /\ (Inside(Main, "done") <=> Inside(Main, pc[Main])) /\ "done" \in Labels
    BY <1>3 DEF Fits, Inside, ShutdownNbd, CompileLabels, CutoverLabels, StopLabels, Labels, ShutdownLabels
  <2>4. QED
    BY <1>3, <2>1, <2>2, <2>3, CtlMove DEF ShutdownNbd
<1>4. QED
  BY <1>1, <1>2, <1>3 DEF ShutdownStep

\* A worker's own steps: it takes and gives back the lock in _record_prefetch.
LEMMA CtlPrefetch ==
    ASSUME NEW w \in Procs, CtlInv, Prefetch(w)
    PROVE  CtlInv'
<1>1. ServiceTypeOK' /\ CallInv' /\ StartupAlone'
  BY DEF CtlInv, ServiceTypeOK, CallInv, Fits, StartupAlone, Activating, Prefetch, serviceVars, callVars
<1>2. pc' = pc /\ op' = op
  BY DEF Prefetch, serviceVars, callVars
<1>3. CASE RecordEnter(w)
  <2>1. WorkerTypeOK'
    BY <1>3, OwnerFacts DEF CtlInv, WorkerTypeOK, RecordEnter, Goto
  <2>2. LockInv'
    BY <1>2, <1>3, OwnerFacts, ProcsAssumption
       DEF CtlInv, LockInv, WorkerTypeOK, RecordEnter, Goto, InCutover, Activating
  <2>3. QED
    BY <1>1, <2>1, <2>2 DEF CtlInv
<1>4. CASE RecordLeave(w)
  <2>1. WorkerTypeOK'
    BY <1>4, OwnerFacts DEF CtlInv, WorkerTypeOK, RecordLeave, Goto
  <2>2. LockInv'
    BY <1>2, <1>4, OwnerFacts, ProcsAssumption
       DEF CtlInv, LockInv, WorkerTypeOK, RecordLeave, Goto, InCutover, Activating
  <2>3. QED
    BY <1>1, <2>1, <2>2 DEF CtlInv
<1>5. CASE PreloadStopped(w) \/ PreloadSucceeds(w) \/ PreloadFails(w) \/ WaitStopped(w) \/ WaitElapsed(w)
  <2>1. WorkerTypeOK' /\ lock' = lock /\ \A x \in Procs : wpc'[x] = "record" <=> wpc[x] = "record"
    BY <1>5 DEF CtlInv, WorkerTypeOK, PreloadStopped, PreloadSucceeds, PreloadFails, WaitStopped, WaitElapsed, Goto
  <2>2. LockInv'
    BY <1>2, <2>1 DEF CtlInv, LockInv, InCutover, Activating
  <2>3. QED
    BY <1>1, <2>1, <2>2 DEF CtlInv
<1>6. QED
  BY <1>3, <1>4, <1>5 DEF Prefetch, WorkerStep

\* A new process finds no thread of the old one.
LEMMA CtlRestart == CtlInv /\ Restart => CtlInv'
<1>. SUFFICES ASSUME CtlInv, Restart PROVE CtlInv'
  OBVIOUS
<1>. USE ProcsAssumption, OwnerFacts DEF CtlInv, Restart, WorkersVanish
<1>1. WorkerTypeOK'
  BY DEF WorkerTypeOK
<1>2. ServiceTypeOK'
  <2>1. /\ active' \in Generation /\ nextGeneration' \in Nat \ {0}
        /\ gid' \in [Procs -> 0..MaxGen] /\ restarts' \in 0..MaxRestarts
    BY MaxGenAssumption, MaxRestartsAssumption DEF ServiceTypeOK, Generation, NoGeneration
  <2>2. /\ pc' \in [Procs -> Labels] /\ cfg' \in [Procs -> Configs \cup {NoCfg}]
        /\ state' = "starting" /\ takenAway' \in BOOLEAN
    BY DEF ServiceTypeOK, Labels, CompileLabels
  <2>3. victim' \in [Procs -> Procs \cup {NoWorker}] /\ op' \in [Procs -> AllOps \cup {"none"}]
    BY DEF AllOps
  <2>4. compiled' \in [Gens -> Configs \cup {NoCfg}] /\ prefetchWorker' \in Procs \cup {NoWorker}
    OBVIOUS
  <2>5. QED
    BY <2>1, <2>2, <2>3, <2>4 DEF ServiceTypeOK
<1>3. pc'[Main] = "load" /\ \A r \in Requests : pc'[r] \in {"idle", "done"}
  BY DEF ServiceTypeOK
<1>4. CallInv' /\ StartupAlone'
  BY <1>3 DEF CallInv, Fits, StartupAlone, Activating, CompileLabels, CutoverLabels, StopLabels, ShutdownLabels
<1>5. LockInv'
  BY <1>3 DEF LockInv, InCutover, Activating, CutoverLabels, StopLabels
<1>6. QED
  BY <1>1, <1>2, <1>4, <1>5

\* Steps of systemd leave the threads' invariant alone.
LEMMA CtlUnchanged == CtlInv /\ UNCHANGED <<workerVars, serviceVars>> => CtlInv'
BY DEF CtlInv, WorkerTypeOK, ServiceTypeOK, CallInv, Fits, StartupAlone, LockInv, InCutover, Activating,
       workerVars, serviceVars, callVars

-----------------------------------------------------------------------------
(* The hardware under a step of the whole system                           *)

\* A handler's step keeps the hardware invariant.
LEMMA HwRun ==
    ASSUME NEW p \in Procs, HwInv, CtlInv, Run(p)
    PROVE  HwInv'
<1>1. CASE CompileStep(p)
  BY <1>1, HwUnchanged DEF CompileStep, Load, LoadFails, MountAndBuild, CompileFails, TakeNumber, Publish
<1>2. CASE ActivateStep(p)
  BY <1>2, HwUnchanged DEF ActivateStep, Lookup, LookupFails, Acquire, AcquireFails
<1>3. CASE CutoverStep(p)
  <2>1. CASE WriteState(p)
    BY <2>1, HwReplace DEF WriteState, CtlInv, ServiceTypeOK
  <2>2. CASE Unbind(p) \/ UnbindFails(p) \/ Bind(p) \/ BindFails(p)
    BY <2>2, HwGadget DEF Unbind, UnbindFails, Bind, BindFails
  <2>3. CASE StopNbdkit(p) \/ StartNbdkit(p) \/ Connect(p)
    BY <2>3, HwNbd DEF StopNbdkit, StartNbdkit, Connect
  <2>4. CASE \/ WriteStateFails(p) \/ AwaitSocket(p) \/ AwaitSocketTimesOut(p) \/ ConnectFails(p)
             \/ NewWorker(p) \/ StartWorker(p) \/ StartWorkerFails(p) \/ Commit(p)
    BY <2>4, HwUnchanged
       DEF WriteStateFails, AwaitSocket, AwaitSocketTimesOut, ConnectFails, NewWorker, StartWorker,
           StartWorkerFails, Commit
  <2>5. QED
    BY <1>3, <2>1, <2>2, <2>3, <2>4 DEF CutoverStep
<1>4. CASE StopStep(p)
  BY <1>4, HwUnchanged DEF StopStep, ReadWorker, StopWorker, JoinReturns, JoinFails, ClearWorker
<1>5. CASE EjectStep(p)
  BY <1>5, HwUnchanged, HwGadget DEF EjectStep, Eject, EjectFails, EjectUnbind, EjectUnbindFails
<1>6. QED
  BY <1>1, <1>2, <1>3, <1>4, <1>5 DEF Run

\* Every step keeps the hardware invariant.
LEMMA HwNext == HwInv /\ CtlInv /\ [Next]_vars => HwInv'
<1>. SUFFICES ASSUME HwInv, CtlInv, [Next]_vars PROVE HwInv'
  OBVIOUS
<1>1. CASE \E r \in Requests : Arrival(r)
  BY <1>1, HwUnchanged
     DEF Arrival, Refuse, SubmitCompile, SubmitReplace, SubmitActivate, SubmitEject, Submit
<1>2. CASE \E p \in Procs : Run(p)
  BY <1>2, HwRun
<1>3. CASE ShutdownStep
  BY <1>3, HwUnchanged, HwGadget, HwNbd DEF ShutdownStep, BeginShutdown, ShutdownUnbind, ShutdownNbd
<1>4. CASE \E w \in Procs : Prefetch(w)
  BY <1>4, HwUnchanged DEF Prefetch
<1>5. CASE Systemd
  BY <1>5, HwSystemd DEF Systemd
<1>6. CASE Restart
  BY <1>6, HwDies DEF Restart
<1>7. CASE Ended \/ UNCHANGED vars
  BY <1>7, HwUnchanged DEF Ended, vars
<1>8. QED
  BY <1>1, <1>2, <1>3, <1>4, <1>5, <1>6, <1>7 DEF Next

\* Every step keeps the threads' invariant.
LEMMA CtlNext == CtlInv /\ NoWorkerYet /\ [Next]_vars => CtlInv'
<1>. SUFFICES ASSUME CtlInv, NoWorkerYet, [Next]_vars PROVE CtlInv'
  OBVIOUS
<1>1. CASE \E r \in Requests : Arrival(r)
  BY <1>1, CtlArrival
<1>2. CASE \E p \in Procs : Run(p)
  BY <1>2, CtlCompile, CtlActivate, CtlCutover, CtlStop, CtlEject DEF Run
<1>3. CASE ShutdownStep
  BY <1>3, CtlShutdown
<1>4. CASE \E w \in Procs : Prefetch(w)
  BY <1>4, CtlPrefetch
<1>5. CASE Restart
  BY <1>5, CtlRestart
<1>6. CASE Systemd \/ Ended \/ UNCHANGED vars
  BY <1>6, CtlUnchanged DEF Systemd, Ended, vars
<1>7. QED
  BY <1>1, <1>2, <1>3, <1>4, <1>5, <1>6 DEF Next

\* Only startup creates the worker that bears its name.
LEMMA NoWorkerYetNext == CtlInv /\ NoWorkerYet /\ [Next]_vars => NoWorkerYet'
<1>. SUFFICES ASSUME CtlInv, NoWorkerYet, [Next]_vars PROVE NoWorkerYet'
  OBVIOUS
<1>. USE ProcsAssumption DEF NoWorkerYet
<1>t. /\ pc \in [Procs -> Labels] /\ op \in [Procs -> AllOps \cup {"none"}]
      /\ wpc \in [Procs -> {"none", "created", "preload", "on_pass", "record", "wait", "exited"}]
  BY DEF CtlInv, ServiceTypeOK, WorkerTypeOK
<1>1. CASE \E r \in Requests : Arrival(r)
  BY <1>1, <1>t DEF Arrival, Refuse, SubmitCompile, SubmitReplace, SubmitActivate, SubmitEject, Submit,
              Return, Jump, workerVars
<1>2. ASSUME NEW p \in Procs, Run(p) PROVE NoWorkerYet'
  <2>1. CASE CompileStep(p)
    BY <1>t, <2>1 DEF CompileStep, Load, LoadFails, MountAndBuild, CompileFails, TakeNumber, Publish, Step, Raise, Return, Jump,
                workerVars, callVars
  <2>2. CASE ActivateStep(p)
    BY <1>t, <2>2 DEF ActivateStep, Lookup, LookupFails, Acquire, AcquireFails, Step, Raise, Return, Jump,
                workerVars, callVars
  <2>3. CASE NewWorker(p) \/ StartWorker(p)
    BY <1>t, <2>3 DEF NewWorker, StartWorker, Create, StartThread, Goto, Step, Jump, callVars
  <2>4. CASE \/ UnbindFails(p) \/ WriteStateFails(p) \/ AwaitSocketTimesOut(p) \/ ConnectFails(p)
             \/ BindFails(p) \/ StartWorkerFails(p) \/ Commit(p)
    BY <1>t, <2>4 DEF UnbindFails, WriteStateFails, AwaitSocketTimesOut, ConnectFails, BindFails,
                StartWorkerFails, Commit, Raise, Return, Jump
  <2>5. CASE \/ Unbind(p) \/ StopNbdkit(p) \/ WriteState(p) \/ StartNbdkit(p) \/ AwaitSocket(p)
             \/ Connect(p) \/ Bind(p)
    BY <1>t, <2>5 DEF Unbind, StopNbdkit, WriteState, StartNbdkit, AwaitSocket, Connect, Bind, Step, DiskStep, Jump,
                workerVars, callVars
  <2>6. CASE StopStep(p)
    BY <1>t, <2>6 DEF StopStep, ReadWorker, StopWorker, SetStop, JoinReturns, JoinFails, ClearWorker, Step, Raise,
                Return, Jump, workerVars, callVars
  <2>7. CASE EjectStep(p)
    BY <1>t, <2>7 DEF EjectStep, Eject, EjectFails, EjectUnbind, EjectUnbindFails, Step, DiskStep, Raise, Return, Jump,
                workerVars, callVars
  <2>8. QED
    BY <1>2, <2>1, <2>2, <2>3, <2>4, <2>5, <2>6, <2>7 DEF Run, CutoverStep
<1>3. CASE ShutdownStep
  BY <1>t, <1>3 DEF ShutdownStep, BeginShutdown, ShutdownUnbind, ShutdownNbd, Step, Jump, workerVars, callVars
<1>4. CASE \E w \in Procs : Prefetch(w)
  BY <1>t, <1>4 DEF Prefetch, WorkerStep, PreloadStopped, PreloadSucceeds, PreloadFails, RecordEnter, RecordLeave,
              WaitStopped, WaitElapsed, Goto, serviceVars, callVars
<1>5. CASE Restart
  BY <1>5 DEF Restart, WorkersVanish
<1>6. CASE Systemd \/ Ended \/ UNCHANGED vars
  BY <1>6 DEF Systemd, Ended, vars, workerVars, serviceVars, callVars
<1>7. QED
  BY <1>1, <1>2, <1>3, <1>4, <1>5, <1>6 DEF Next

-----------------------------------------------------------------------------
(* The theorems                                                            *)

\* The initial states satisfy the inductive invariant.
LEMMA InitIInv == Init => IInv
<1>. SUFFICES ASSUME Init PROVE IInv
  OBVIOUS
<1>. USE ProcsAssumption
<1>1. HwInv
  BY HwSpec DEF Init
<1>2. WorkerTypeOK
  BY OwnerFacts DEF Init, WorkerInit, WorkerTypeOK
<1>3. ServiceTypeOK
  <2>1. takenAway \in BOOLEAN
    BY DEF Init
  <2>2. QED
    BY <2>1, MaxGenAssumption, MaxRestartsAssumption DEF Init, ServiceTypeOK, Generation, NoGeneration, AllOps, Labels
<1>4. CallInv /\ StartupAlone /\ NoWorkerYet
  BY DEF Init, WorkerInit, CallInv, Fits, StartupAlone, NoWorkerYet, Activating, CompileLabels, CutoverLabels, StopLabels, ShutdownLabels
<1>5. LockInv
  BY OwnerFacts DEF Init, WorkerInit, LockInv, InCutover, Activating, CutoverLabels, StopLabels
<1>6. QED
  BY <1>1, <1>2, <1>3, <1>4, <1>5 DEF IInv, CtlInv

\* The invariant holds in every reachable state.
THEOREM Invariance == Spec => []IInv
<1>1. Init => IInv
  BY InitIInv
<1>2. IInv /\ [Next]_vars => IInv'
  BY HwNext, CtlNext, NoWorkerYetNext DEF IInv
<1>3. QED
  BY <1>1, <1>2, PTL DEF Spec

\* The state of the service, its workers and its hardware stays well typed.
THEOREM TypeCorrect == Spec => []TypeOK
<1>1. IInv => TypeOK
  BY DEF IInv, HwInv, CtlInv, TypeOK
<1>2. QED
  BY <1>1, Invariance, PTL

\* One cutover at a time: nobody else stands where p does.
LEMMA AloneInCutover ==
    ASSUME IInv, NEW p \in Procs, NEW q \in Procs, InCutover(p), InCutover(q)
    PROVE  p = q
<1>1. CASE p \in Requests /\ q \in Requests
  BY <1>1, OwnerFacts, ProcsAssumption DEF IInv, CtlInv, LockInv
<1>2. ASSUME InCutover(Main) PROVE \A r \in Requests : ~InCutover(r)
  BY <1>2, ProcsAssumption
     DEF IInv, CtlInv, CallInv, StartupAlone, Fits, InCutover, Activating, CutoverLabels, StopLabels, ShutdownLabels
<1>3. QED
  BY <1>1, <1>2, ProcsAssumption

\* activate_generation's try-lock serialises cutovers: however many requests
\* run, whatever fails, at most one thread drives the hardware.
THEOREM CutoversExclusive == Spec => []OneCutover
<1>1. IInv => OneCutover
  BY AloneInCutover DEF OneCutover
<1>2. QED
  BY <1>1, Invariance, PTL

\* The finally clause and the with statement release the lock on every path.
THEOREM LockNeverLeaks == Spec => []NoLockLeak
<1>1. IInv => NoLockLeak
  BY ProcsAssumption DEF IInv, CtlInv, LockInv, NoLockLeak
<1>2. QED
  BY <1>1, Invariance, PTL

\* Of the steps of a handler only the commit touches the active generation.
LEMMA OnlyCommitSwaps ==
    ASSUME NEW p \in Procs, Run(p), active' # active
    PROVE  Commit(p)
<1>1. CASE CompileStep(p)
  BY <1>1 DEF CompileStep, Load, LoadFails, MountAndBuild, CompileFails, TakeNumber, Publish, Step, Raise
<1>2. CASE ActivateStep(p)
  BY <1>2 DEF ActivateStep, Lookup, LookupFails, Acquire, AcquireFails, Step, Raise
<1>3. CASE CutoverStep(p)
  BY <1>3 DEF CutoverStep, Unbind, UnbindFails, StopNbdkit, WriteState, WriteStateFails, StartNbdkit,
              AwaitSocket, AwaitSocketTimesOut, Connect, ConnectFails, Bind, BindFails, NewWorker,
              StartWorker, StartWorkerFails, Step, DiskStep, Raise
<1>4. CASE StopStep(p)
  BY <1>4 DEF StopStep, ReadWorker, StopWorker, JoinReturns, JoinFails, ClearWorker, Step, Raise
<1>5. CASE EjectStep(p)
  BY <1>5 DEF EjectStep, Eject, EjectFails, EjectUnbind, EjectUnbindFails, Step, DiskStep, Raise
<1>6. QED
  BY <1>1, <1>2, <1>3, <1>4, <1>5 DEF Run

\* Only a commit under the lock (or startup's) replaces the active generation.
THEOREM ActiveSwapped == Spec => ActiveSwap
<1>1. ASSUME IInv, [Next]_vars, active' # active, restarts' = restarts
      PROVE  \E p \in Procs : /\ pc[p] = "commit" /\ pc'[p] = "done"
                              /\ active' = [id |-> gid[p], cfg |-> cfg[p]]
                              /\ lock = ByService(p) \/ p = Main
  <2>1. PICK p \in Procs : Commit(p)
    <3>1. CASE \E r \in Requests : Arrival(r)
      BY <1>1, <3>1 DEF Arrival, Refuse, SubmitCompile, SubmitReplace, SubmitActivate, SubmitEject, Submit
    <3>2. ASSUME NEW p \in Procs, Run(p) PROVE Commit(p)
      BY <1>1, <3>2, OnlyCommitSwaps
    <3>3. CASE ShutdownStep
      BY <1>1, <3>3 DEF ShutdownStep, BeginShutdown, ShutdownUnbind, ShutdownNbd, Step
    <3>4. CASE Restart
      BY <1>1, <3>4, MaxRestartsAssumption DEF Restart, IInv, CtlInv, ServiceTypeOK
    <3>5. CASE (\E w \in Procs : Prefetch(w)) \/ Systemd \/ Ended \/ UNCHANGED vars
      BY <1>1, <3>5 DEF Prefetch, Systemd, Ended, vars, serviceVars
    <3>6. QED
      BY <1>1, <3>1, <3>2, <3>3, <3>4, <3>5 DEF Next
  <2>2. pc[p] = "commit" /\ pc'[p] = "done" /\ active' = [id |-> gid[p], cfg |-> cfg[p]]
    BY <1>1, <2>1 DEF IInv, CtlInv, ServiceTypeOK, Commit, Return, Jump
  <2>3. lock = ByService(p) \/ p = Main
    BY <1>1, <2>2, ProcsAssumption DEF IInv, CtlInv, LockInv, InCutover, CutoverLabels
  <2>4. QED
    BY <2>2, <2>3
<1>2. QED
  BY <1>1, Invariance, PTL DEF Spec, ActiveSwap

-----------------------------------------------------------------------------
(* The device under the gadget                                             *)

\* shutdown begins when no request is in flight, and none is accepted after.
ShutdownAlone == op[Main] = "shutdown" => \A r \in Requests : pc[r] \in {"idle", "done"}

\* What the thread in the cutover has established: the gadget is unbound before
\* nbd.stop, and the device connected before bind.
DeviceInv ==
    /\ \A p \in Procs : pc[p] = "nbd_stop" => gadget # "bound"
    /\ \A p \in Procs : pc[p] = "bind" => nbd0 # NotConnected

\* A step of a running handler moves that thread alone.
LEMMA RunFrame ==
    ASSUME NEW p \in Procs, CtlInv, Run(p)
    PROVE  /\ pc[p] \notin {"idle", "done"} /\ op' = op
           /\ \A q \in Procs \ {p} : pc'[q] = pc[q]
<1>t. pc \in [Procs -> Labels]
  BY DEF CtlInv, ServiceTypeOK
<1>1. CASE CompileStep(p)
  BY <1>t, <1>1 DEF CompileStep, Load, LoadFails, MountAndBuild, CompileFails, TakeNumber, Publish, Step, Raise, Return,
                    Jump, callVars
<1>2. CASE ActivateStep(p)
  BY <1>t, <1>2 DEF ActivateStep, Lookup, LookupFails, Acquire, AcquireFails, Step, Raise, Return, Jump, callVars
<1>3. CASE CutoverStep(p)
  BY <1>t, <1>3 DEF CutoverStep, Unbind, UnbindFails, StopNbdkit, WriteState, WriteStateFails, StartNbdkit,
                    AwaitSocket, AwaitSocketTimesOut, Connect, ConnectFails, Bind, BindFails, NewWorker,
                    StartWorker, StartWorkerFails, Commit, Step, DiskStep, Raise, Return, Jump, callVars
<1>4. CASE StopStep(p)
  BY <1>t, <1>4 DEF StopStep, ReadWorker, StopWorker, JoinReturns, JoinFails, ClearWorker, Step, Raise, Return,
                    Jump, callVars
<1>5. CASE EjectStep(p)
  BY <1>t, <1>5 DEF EjectStep, Eject, EjectFails, EjectUnbind, EjectUnbindFails, Step, DiskStep, Raise, Return,
                    Jump, callVars
<1>6. QED
  BY <1>1, <1>2, <1>3, <1>4, <1>5 DEF Run

\* Once shutdown has begun no request handler is running.
LEMMA ShutdownAloneNext == CtlInv /\ ShutdownAlone /\ [Next]_vars => ShutdownAlone'
<1>. SUFFICES ASSUME CtlInv, ShutdownAlone, [Next]_vars PROVE ShutdownAlone'
  OBVIOUS
<1>. USE ProcsAssumption DEF ShutdownAlone
<1>t. pc \in [Procs -> Labels] /\ op \in [Procs -> AllOps \cup {"none"}]
  BY DEF CtlInv, ServiceTypeOK
<1>1. CASE \E r \in Requests : Arrival(r)
  BY <1>1, <1>t DEF Arrival, Refuse, SubmitCompile, SubmitReplace, SubmitActivate, SubmitEject, Submit, Accepting,
                    Return, Jump
<1>2. CASE \E p \in Procs : Run(p)
  BY <1>2, RunFrame
<1>3. CASE ShutdownStep
  BY <1>t, <1>3 DEF ShutdownStep, BeginShutdown, ShutdownUnbind, ShutdownNbd, Step, Jump, callVars
<1>4. CASE Restart
  BY <1>4 DEF Restart
<1>5. CASE (\E w \in Procs : Prefetch(w)) \/ Systemd \/ Ended \/ UNCHANGED vars
  BY <1>5 DEF Prefetch, Systemd, Ended, vars, serviceVars, callVars
<1>6. QED
  BY <1>1, <1>2, <1>3, <1>4, <1>5 DEF Next

\* A handler's step does not disconnect /dev/nbd0 under a bound gadget.
LEMMA DeviceRun ==
    ASSUME NEW p \in Procs, IInv, DeviceInv, Run(p)
    PROVE  DeviceInv'
<1>. USE DEF DeviceInv
<1>t. pc \in [Procs -> Labels] /\ CtlInv /\ HwInv
  BY DEF IInv, CtlInv, ServiceTypeOK
<1>f. op' = op /\ pc[p] \notin {"idle", "done"} /\ \A q \in Procs \ {p} : pc'[q] = pc[q]
  BY <1>t, RunFrame
<1>1. CASE CompileStep(p)
  BY <1>t, <1>f, <1>1 DEF CompileStep, Load, LoadFails, MountAndBuild, CompileFails, TakeNumber, Publish, Step, Raise, Return,
                    Jump, hwVars
<1>2. CASE ActivateStep(p)
  BY <1>t, <1>f, <1>2 DEF ActivateStep, Lookup, LookupFails, Acquire, AcquireFails, Step, Raise, Return, Jump, hwVars
<1>3. CASE Unbind(p)
  BY <1>t, <1>f, <1>3 DEF Unbind, GadgetUnbind, Step, DiskStep, Jump
<1>4. CASE UnbindFails(p) \/ BindFails(p)
  BY <1>t, <1>f, <1>4 DEF UnbindFails, BindFails, GadgetUnbindFails, GadgetBindFails, Raise, Return, Jump
<1>5. CASE StopNbdkit(p)
  <2>1. \A q \in Procs \ {p} : pc[q] # "bind"
    BY <1>5, AloneInCutover DEF StopNbdkit, InCutover, CutoverLabels
  <2>2. QED
    BY <1>t, <1>f, <1>5, <2>1 DEF StopNbdkit, NbdStop, Step, Jump
<1>6. CASE WriteState(p) \/ StartNbdkit(p)
  BY <1>t, <1>f, <1>6 DEF WriteState, StartNbdkit, ReplaceMapperState, SystemctlStart, Step, Jump
<1>7. CASE Connect(p)
  <2>1. nbd0' # NotConnected /\ gadget' = gadget
    BY <1>t, <1>7, LinksAssumption DEF Connect, NbdConnect, HwInv, ServerLoaded, Links
  <2>2. QED
    BY <1>t, <1>f, <1>7, <2>1 DEF Connect, Step, Jump
<1>8. CASE Bind(p)
  <2>1. \A q \in Procs \ {p} : pc[q] # "nbd_stop"
    BY <1>8, AloneInCutover DEF Bind, InCutover, CutoverLabels
  <2>2. QED
    BY <1>t, <1>f, <1>8, <2>1 DEF Bind, GadgetBind, Step, DiskStep, Jump
<1>9. CASE \/ WriteStateFails(p) \/ AwaitSocket(p) \/ AwaitSocketTimesOut(p) \/ ConnectFails(p)
           \/ NewWorker(p) \/ StartWorker(p) \/ StartWorkerFails(p) \/ Commit(p)
  BY <1>t, <1>f, <1>9
     DEF WriteStateFails, AwaitSocket, AwaitSocketTimesOut, ConnectFails, NewWorker, StartWorker,
         StartWorkerFails, Commit, Step, Raise, Return, Jump, hwVars
<1>10. CASE StopStep(p)
  BY <1>t, <1>f, <1>10 DEF StopStep, ReadWorker, StopWorker, JoinReturns, JoinFails, ClearWorker, AfterStop, Step,
                     Raise, Return, Jump, hwVars
<1>11. CASE EjectStep(p)
  BY <1>t, <1>f, <1>11 DEF EjectStep, Eject, EjectFails, EjectUnbind, EjectUnbindFails, GadgetUnbind, GadgetUnbindFails,
                     Step, DiskStep, Raise, Return, Jump, hwVars
<1>12. QED
  BY <1>1, <1>2, <1>3, <1>4, <1>5, <1>6, <1>7, <1>8, <1>9, <1>10, <1>11 DEF Run, CutoverStep

\* No step does, until shutdown.
LEMMA DeviceNext == IInv /\ ShutdownAlone /\ DeviceInv /\ [Next]_vars => DeviceInv'
<1>. SUFFICES ASSUME IInv, ShutdownAlone, DeviceInv, [Next]_vars PROVE DeviceInv'
  OBVIOUS
<1>. USE ProcsAssumption DEF DeviceInv
<1>t. pc \in [Procs -> Labels] /\ op \in [Procs -> AllOps \cup {"none"}]
  BY DEF IInv, CtlInv, ServiceTypeOK
<1>1. CASE \E r \in Requests : Arrival(r)
  BY <1>1, <1>t DEF Arrival, Refuse, SubmitCompile, SubmitReplace, SubmitActivate, SubmitEject, Submit,
                    Return, Jump, hwVars
<1>2. CASE \E p \in Procs : Run(p)
  BY <1>2, DeviceRun
<1>3. CASE BeginShutdown
  BY <1>t, <1>3 DEF BeginShutdown, Jump, hwVars
<1>4. CASE ShutdownUnbind
  BY <1>t, <1>4 DEF ShutdownUnbind, GadgetUnbind, GadgetUnbindFails, Step, Jump, callVars
<1>5. CASE ShutdownNbd
  <2>1. op[Main] = "shutdown"
    BY <1>5 DEF IInv, CtlInv, CallInv, Fits, ShutdownNbd, ShutdownLabels
  <2>2. QED
    BY <1>t, <1>5, <2>1 DEF ShutdownNbd, ShutdownAlone, NbdStop, Jump, callVars
<1>6. CASE \E w \in Procs : Prefetch(w)
  BY <1>6 DEF Prefetch, serviceVars, callVars, hwVars
<1>7. CASE Systemd
  BY <1>7 DEF Systemd, NbdkitServe, NbdkitExit, NbdkitCrash, LostLink, Dead, NotConnected, serviceVars, callVars
<1>8. CASE Restart
  BY <1>t, <1>8 DEF Restart, ServiceDies, GadgetTorn
<1>9. CASE Ended \/ UNCHANGED vars
  BY <1>9 DEF Ended, vars, serviceVars, callVars, hwVars
<1>10. QED
  BY <1>1, <1>2, <1>3, <1>4, <1>5, <1>6, <1>7, <1>8, <1>9 DEF Next, ShutdownStep

\* So no step of a handler leaves the gadget bound over a disconnected device.
LEMMA DeviceStepRun ==
    ASSUME NEW p \in Procs, IInv, DeviceInv, Run(p), BoundOverNothing'
    PROVE  BoundOverNothing
<1>. USE DEF BoundOverNothing
<1>1. CASE CompileStep(p) \/ ActivateStep(p) \/ StopStep(p)
  BY <1>1 DEF CompileStep, Load, LoadFails, MountAndBuild, CompileFails, TakeNumber, Publish, ActivateStep, Lookup,
              LookupFails, Acquire, AcquireFails, StopStep, ReadWorker, StopWorker, JoinReturns, JoinFails, ClearWorker, hwVars
<1>2. CASE Unbind(p) \/ UnbindFails(p) \/ BindFails(p) \/ EjectStep(p)
  BY <1>2 DEF Unbind, UnbindFails, BindFails, GadgetUnbind, GadgetUnbindFails, GadgetBindFails,
              EjectStep, Eject, EjectFails, EjectUnbind, EjectUnbindFails, hwVars
<1>3. CASE StopNbdkit(p) \/ Bind(p)
  BY <1>3 DEF DeviceInv, StopNbdkit, NbdStop, Bind, GadgetBind
<1>4. CASE Connect(p)
  BY <1>4, LinksAssumption DEF IInv, HwInv, ServerLoaded, Connect, NbdConnect, Links
<1>5. CASE \/ WriteState(p) \/ WriteStateFails(p) \/ StartNbdkit(p) \/ AwaitSocket(p) \/ AwaitSocketTimesOut(p)
           \/ ConnectFails(p) \/ NewWorker(p) \/ StartWorker(p) \/ StartWorkerFails(p) \/ Commit(p)
  BY <1>5 DEF WriteState, ReplaceMapperState, WriteStateFails, StartNbdkit, SystemctlStart, AwaitSocket,
              AwaitSocketTimesOut, ConnectFails, NewWorker, StartWorker, StartWorkerFails, Commit, hwVars
<1>6. QED
  BY <1>1, <1>2, <1>3, <1>4, <1>5 DEF Run, CutoverStep

\* Outside shutdown, no interleaving of activations, ejects, failures, kills and
\* nbdkit crashes disconnects /dev/nbd0 under a bound gadget, nor binds the
\* gadget over a disconnected device.
THEOREM DeviceStaysUnderGadget == Spec => BoundOverDevice
<1>1. Init => ShutdownAlone /\ DeviceInv
  BY ProcsAssumption, ConfigsAssumption, LinksAssumption
     DEF Init, HardwareInit, ShutdownAlone, DeviceInv, Links
<1>2. IInv /\ ShutdownAlone /\ DeviceInv /\ [Next]_vars => (ShutdownAlone /\ DeviceInv)'
  BY DeviceNext, ShutdownAloneNext DEF IInv
<1>3. IInv /\ DeviceInv /\ [Next]_vars => [BoundOverNothing' => BoundOverNothing \/ op[Main] = "shutdown"]_vars
  <2>. SUFFICES ASSUME IInv, DeviceInv, [Next]_vars, BoundOverNothing', op[Main] # "shutdown"
                PROVE  BoundOverNothing
    OBVIOUS
  <2>1. CASE \E p \in Procs : Run(p)
    BY <2>1, DeviceStepRun
  <2>2. CASE ShutdownUnbind \/ ShutdownNbd
    BY <2>2, ProcsAssumption DEF IInv, CtlInv, CallInv, Fits, ShutdownUnbind, ShutdownNbd, ShutdownLabels
  <2>3. CASE \/ \E r \in Requests : Arrival(r)
             \/ BeginShutdown \/ \E w \in Procs : Prefetch(w)
             \/ Ended \/ UNCHANGED vars
    BY <2>3 DEF BoundOverNothing, Arrival, Refuse, SubmitCompile, SubmitReplace, SubmitActivate, SubmitEject, Submit,
                BeginShutdown, Prefetch, Ended, vars, hwVars
  <2>4. CASE Systemd
    BY <2>4 DEF BoundOverNothing, Systemd, NbdkitServe, NbdkitExit, NbdkitCrash, LostLink, Dead, NotConnected
  <2>5. CASE Restart
    BY <2>5 DEF BoundOverNothing, Restart, ServiceDies, GadgetTorn, LostLink, Dead, NotConnected
  <2>6. QED
    BY <2>1, <2>2, <2>3, <2>4, <2>5 DEF Next, ShutdownStep
<1>4. QED
  BY <1>1, <1>2, <1>3, Invariance, PTL DEF Spec, BoundOverDevice

-----------------------------------------------------------------------------
(* The counters of the prefetch passes: what a callback has read is still   *)
(* current when it writes, because the lock keeps callbacks apart, so each  *)
(* recorded pass adds one to the counter.                                   *)

\* What a callback has read is still what prefetch_passes is.
SeenInv == \A w \in Procs : wpc[w] = "record" => seen[w] = passes

\* Only the workers themselves, and the end of the process, touch the counters.
LEMMA CountersFrame ==
    ASSUME IInv, [Next]_vars, ~Restart, \A w \in Procs : ~Prefetch(w)
    PROVE  /\ UNCHANGED <<passes, done, seen>>
           /\ \A w \in Procs : wpc'[w] = "record" => wpc[w] = "record"
<1>t. wpc \in [Procs -> {"none", "created", "preload", "on_pass", "record", "wait", "exited"}]
  BY DEF IInv, CtlInv, WorkerTypeOK
<1>1. CASE UNCHANGED workerVars
  BY <1>1 DEF workerVars
<1>2. CASE \E r \in Requests : Arrival(r)
  BY <1>2 DEF Arrival, Refuse, SubmitCompile, SubmitReplace, SubmitActivate, SubmitEject, Submit,
                Return, workerVars
<1>3. ASSUME NEW p \in Procs, Run(p)
      PROVE  /\ UNCHANGED <<passes, done, seen>>
             /\ \A w \in Procs : wpc'[w] = "record" => wpc[w] = "record"
  <2>1. CASE CompileStep(p) \/ ActivateStep(p) \/ EjectStep(p)
    BY <2>1 DEF CompileStep, Load, LoadFails, MountAndBuild, CompileFails, TakeNumber, Publish,
                ActivateStep, Lookup, LookupFails, Acquire, AcquireFails,
                EjectStep, Eject, EjectFails, EjectUnbind, EjectUnbindFails,
                Raise, Return, workerVars
  <2>2. CASE CutoverStep(p)
    BY <1>t, <2>2 DEF CutoverStep, Unbind, UnbindFails, StopNbdkit, WriteState, WriteStateFails,
                StartNbdkit, AwaitSocket, AwaitSocketTimesOut, Connect, ConnectFails, Bind, BindFails,
                NewWorker, StartWorker, StartWorkerFails, Commit, Create, StartThread, Goto,
                Raise, Return, workerVars
  <2>3. CASE StopStep(p)
    BY <2>3 DEF StopStep, ReadWorker, StopWorker, JoinReturns, JoinFails, ClearWorker, SetStop,
                Raise, Return, workerVars
  <2>4. QED
    BY <1>3, <2>1, <2>2, <2>3 DEF Run
<1>4. CASE ShutdownStep
  BY <1>4 DEF ShutdownStep, BeginShutdown, ShutdownUnbind, ShutdownNbd, workerVars
<1>5. CASE Systemd \/ Ended \/ UNCHANGED vars
  BY <1>1, <1>5 DEF Systemd, Ended, vars
<1>6. QED
  BY <1>2, <1>3, <1>4, <1>5 DEF Next

\* The lock keeps two callbacks apart.
LEMMA OneCallback ==
    ASSUME IInv, NEW v \in Procs, NEW w \in Procs, wpc[v] = "record", wpc[w] = "record"
    PROVE  v = w
BY OwnerFacts DEF IInv, CtlInv, LockInv

\* What the steps of a worker do to the counters.
LEMMA WorkerCounts ==
    ASSUME IInv, SeenInv, NEW w \in Procs, Prefetch(w)
    PROVE  /\ SeenInv'
           /\ \/ UNCHANGED <<passes, done>>
              \/ passes' = passes + 1 /\ done' = [done EXCEPT ![w] = @ + 1]
<1>t. /\ wpc \in [Procs -> {"none", "created", "preload", "on_pass", "record", "wait", "exited"}]
      /\ seen \in [Procs -> Nat]
  BY DEF IInv, CtlInv, WorkerTypeOK
<1>1. CASE PreloadStopped(w) \/ PreloadSucceeds(w) \/ PreloadFails(w) \/ WaitStopped(w) \/ WaitElapsed(w)
  BY <1>t, <1>1 DEF PreloadStopped, PreloadSucceeds, PreloadFails, WaitStopped, WaitElapsed, Goto, SeenInv
<1>2. CASE RecordEnter(w)
  BY <1>t, <1>2 DEF RecordEnter, Goto, SeenInv
<1>3. CASE RecordLeave(w)
  <2>1. wpc[w] = "record" /\ passes' = seen[w] + 1 /\ done' = [done EXCEPT ![w] = @ + 1]
        /\ wpc' = [wpc EXCEPT ![w] = "wait"]
    BY <1>3 DEF RecordLeave, Goto
  <2>2. \A v \in Procs : wpc'[v] # "record"
    BY <1>t, <2>1, OneCallback
  <2>3. passes' = passes + 1
    BY <2>1 DEF SeenInv
  <2>4. QED
    BY <2>1, <2>2, <2>3 DEF SeenInv
<1>4. QED
  BY <1>1, <1>2, <1>3 DEF Prefetch, WorkerStep

\* One more pass of w is one more element of Recorded.
LEMMA RecordedGrows ==
    ASSUME IInv, NEW w \in Procs, done' = [done EXCEPT ![w] = @ + 1]
    PROVE  /\ Recorded' = Recorded \cup {<<w, done[w] + 1>>}
           /\ <<w, done[w] + 1>> \notin Recorded
<1>t. done \in [Procs -> Nat]
  BY DEF IInv, CtlInv, WorkerTypeOK
<1>1. \A v, n : <<v, n>> \in Recorded <=> v \in Procs /\ n \in 1..done[v]
  BY DEF Recorded
<1>2. \A v, n : <<v, n>> \in Recorded' <=> v \in Procs /\ n \in 1..done'[v]
  BY DEF Recorded
<1>3. \A v \in Procs : \A n : n \in 1..done'[v] <=> n \in 1..done[v] \/ (v = w /\ n = done[w] + 1)
  BY <1>t
<1>4. \A v, n : <<v, n>> \in Recorded' <=> <<v, n>> \in Recorded \/ <<v, n>> = <<w, done[w] + 1>>
  BY <1>1, <1>2, <1>3
<1>5. \A x \in Recorded \cup Recorded' : x = <<x[1], x[2]>>
  BY DEF Recorded
<1>6. \A x : x \in Recorded' <=> x \in Recorded \/ x = <<w, done[w] + 1>>
  BY <1>4, <1>5
<1>7. done[w] + 1 \notin 1..done[w]
  BY <1>t
<1>8. <<w, done[w] + 1>> \notin Recorded
  BY <1>1, <1>7
<1>9. QED
  BY <1>6, <1>8

\* The counter is the number of recorded passes, and these are finitely many.
CountInv == SeenInv /\ IsFiniteSet(Recorded) /\ PassesCounted

\* Nobody has recorded anything in a new process.
LEMMA NothingRecorded ==
    ASSUME \A w \in Procs : done[w] = 0  PROVE Recorded = {}
BY DEF Recorded

\* No update of the counters is lost between two callbacks, whichever workers
\* run, old or new: prefetch_passes counts every recorded pass.
THEOREM EveryPassCounted == Spec => []PassesCounted
<1>1. Init => CountInv
  <2>. SUFFICES ASSUME Init PROVE CountInv
    OBVIOUS
  <2>1. passes = 0 /\ Recorded = {} /\ SeenInv
    BY NothingRecorded DEF Init, WorkerInit, SeenInv
  <2>2. QED
    BY <2>1, FS_EmptySet DEF CountInv, PassesCounted
<1>2. IInv /\ CountInv /\ [Next]_vars => CountInv'
  <2>. SUFFICES ASSUME IInv, CountInv, [Next]_vars PROVE CountInv'
    OBVIOUS
  <2>. USE DEF CountInv
  <2>1. CASE Restart
    <3>1. passes' = 0 /\ SeenInv' /\ \A w \in Procs : done'[w] = 0
      BY <2>1 DEF Restart, WorkersVanish, SeenInv
    <3>2. Recorded' = {}
      BY <3>1 DEF Recorded
    <3>3. QED
      BY <3>1, <3>2, FS_EmptySet DEF PassesCounted
  <2>2. CASE UNCHANGED <<passes, done>> /\ SeenInv'
    BY <2>2 DEF PassesCounted, Recorded
  <2>3. ASSUME NEW w \in Procs, SeenInv', passes' = passes + 1, done' = [done EXCEPT ![w] = @ + 1]
        PROVE  CountInv'
    <3>1. Recorded' = Recorded \cup {<<w, done[w] + 1>>} /\ <<w, done[w] + 1>> \notin Recorded
      BY <2>3, RecordedGrows
    <3>2. IsFiniteSet(Recorded') /\ Cardinality(Recorded') = Cardinality(Recorded) + 1
      BY <3>1, FS_AddElement
    <3>3. QED
      BY <2>3, <3>2 DEF PassesCounted
  <2>4. CASE \E w \in Procs : Prefetch(w)
    <3>1. PICK w \in Procs : Prefetch(w)
      BY <2>4
    <3>2. /\ SeenInv'
          /\ \/ UNCHANGED <<passes, done>>
             \/ passes' = passes + 1 /\ done' = [done EXCEPT ![w] = @ + 1]
      BY <3>1, WorkerCounts
    <3>3. QED
      BY <3>2, <2>2, <2>3
  <2>5. CASE ~Restart /\ \A w \in Procs : ~Prefetch(w)
    <3>1. UNCHANGED <<passes, done>> /\ SeenInv'
      BY <2>5, CountersFrame DEF SeenInv
    <3>2. QED
      BY <3>1, <2>2
  <2>6. QED
    BY <2>1, <2>4, <2>5
<1>3. CountInv => PassesCounted
  BY DEF CountInv
<1>4. QED
  BY <1>1, <1>2, <1>3, Invariance, PTL DEF Spec

=============================================================================
