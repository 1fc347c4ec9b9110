-------------------------- MODULE GenerationsProofs --------------------------
(***************************************************************************)
(* The control plane implements Generations, for every set of              *)
(* configurations and of concurrent requests and any number of crashes.    *)
(*                                                                         *)
(* Every step of a handler is classified by what it does to the four       *)
(* things Generations speaks of: the table, a client's choice, who         *)
(* installs, the disk.  Beyond IInv the mapping needs HandInv, what the    *)
(* handlers hold in their hands.                                           *)
(***************************************************************************)
EXTENDS ServiceProofs

\* A compilation holds a configuration, a cutover the number of a generation;
\* no generation is active before startup has ended.
HandInv ==
    /\ \A p \in Procs : pc[p] \in CompileLabels => cfg[p] \in Configs
    /\ \A p \in Procs : pc[p] = "acquire" \/ InCutover(p) => gid[p] \in Gens
    /\ op[Main] = "startup" /\ pc[Main] # "done" => active = NoGeneration

\* p is the only client whose choice or part in the exchange can change.
Alone(p) == \A q \in Procs \ {p} : ChoiceOf(q)' = ChoiceOf(q) /\ (InCutover(q)' <=> InCutover(q))

\* p neither chooses nor gives up, enters nor leaves.
Keeps(p) == ChoiceOf(p)' = ChoiceOf(p) /\ (InCutover(p)' <=> InCutover(p))

-----------------------------------------------------------------------------
(* What makes a step a step of Generations                                 *)

\* The clients' part of the mapping is unchanged.
LEMMA SameClients ==
    ASSUME \A p \in Procs : Keeps(p)
    PROVE  /\ [p \in Procs |-> ChoiceOf(p)]' = [p \in Procs |-> ChoiceOf(p)]
           /\ {p \in Procs : InCutover(p)}' = {p \in Procs : InCutover(p)}
BY DEF Keeps

\* A handler gives up, or fails outside a cutover.
LEMMA IsGiveUp ==
    ASSUME NEW p \in Procs, Alone(p), UNCHANGED <<compiled, active>>,
           ChoiceOf(p)' = NoGeneration, ~InCutover(p)', DiskSeen' \in {DiskSeen, "detached"}
    PROVE  Gen!Next
<1>1. Gen!GiveUp(p)
  BY DEF Gen!GiveUp, Alone
<1>2. QED
  BY <1>1 DEF Gen!Next

\* A step that changes nothing the clients do, only the disk.
LEMMA IsDisk ==
    ASSUME \A p \in Procs : Keeps(p), UNCHANGED <<compiled, active>>,
           DiskSeen' = DiskSeen \/ DiskSeen' = "detached" \/ (DiskSeen # "detached" /\ DiskSeen' = Dead)
    PROVE  [Gen!Next]_(Gen!gvars)
<1>1. CASE DiskSeen' = DiskSeen
  BY <1>1, SameClients DEF Gen!gvars
<1>2. CASE DiskSeen' = "detached"
  <2>1. Gen!Detach
    BY <1>2, SameClients DEF Gen!Detach
  <2>2. QED
    BY <2>1 DEF Gen!Next
<1>3. CASE DiskSeen # "detached" /\ DiskSeen' = Dead
  <2>1. Gen!Lose
    BY <1>3, SameClients DEF Gen!Lose
  <2>2. QED
    BY <2>1 DEF Gen!Next
<1>4. QED
  BY <1>1, <1>2, <1>3


\* A handler's step that keeps its own part keeps everybody's.
LEMMA AloneKeeps ==
    ASSUME NEW p \in Procs, Alone(p), Keeps(p)
    PROVE  \A q \in Procs : Keeps(q)
BY DEF Alone, Keeps

-----------------------------------------------------------------------------
(* What the handlers hold                                                  *)

\* A handler's step leaves the hands of the others alone.
LEMMA HandsFrame ==
    ASSUME NEW p \in Procs, CtlInv, Run(p)
    PROVE  \A q \in Procs \ {p} : gid'[q] = gid[q] /\ cfg'[q] = cfg[q]
<1>t. gid \in [Procs -> 0..MaxGen] /\ cfg \in [Procs -> Configs \cup {NoCfg}]
  BY DEF CtlInv, ServiceTypeOK
<1>1. CASE CompileStep(p)
  BY <1>t, <1>1 DEF CompileStep, Load, LoadFails, MountAndBuild, CompileFails, TakeNumber, Publish, Step, Raise, Return, callVars
<1>2. CASE ActivateStep(p)
  BY <1>t, <1>2 DEF ActivateStep, Lookup, LookupFails, Acquire, AcquireFails, Step, Raise, Return, callVars
<1>3. CASE CutoverStep(p)
  BY <1>t, <1>3 DEF CutoverStep, Unbind, UnbindFails, StopNbdkit, WriteState, WriteStateFails, StartNbdkit,
                    AwaitSocket, AwaitSocketTimesOut, Connect, ConnectFails, Bind, BindFails, NewWorker,
                    StartWorker, StartWorkerFails, Commit, Step, DiskStep, Raise, Return, callVars
<1>4. CASE StopStep(p)
  BY <1>t, <1>4 DEF StopStep, ReadWorker, StopWorker, JoinReturns, JoinFails, ClearWorker, Step, Raise, Return, callVars
<1>5. CASE EjectStep(p)
  BY <1>t, <1>5 DEF EjectStep, Eject, EjectFails, EjectUnbind, EjectUnbindFails, Step, DiskStep, Raise, Return, callVars
<1>6. QED
  BY <1>1, <1>2, <1>3, <1>4, <1>5 DEF Run

\* So no other client's choice or part in the exchange moves.
LEMMA RunAlone ==
    ASSUME NEW p \in Procs, CtlInv, Run(p)
    PROVE  Alone(p)
BY RunFrame, HandsFrame DEF Alone, ChoiceOf, InCutover, Activating

\* A running handler keeps what HandInv says of itself.
LEMMA HandRun ==
    ASSUME NEW p \in Procs, CtlInv, HandInv, Run(p)
    PROVE  /\ pc'[p] \in CompileLabels => cfg'[p] \in Configs
           /\ pc'[p] = "acquire" \/ InCutover(p)' => gid'[p] \in Gens
<1>. USE DEF HandInv, InCutover, Activating
<1>t. /\ pc \in [Procs -> Labels] /\ gid \in [Procs -> 0..MaxGen] /\ cfg \in [Procs -> Configs \cup {NoCfg}]
      /\ op' = op /\ (pc[p] \in {"publish", "lookup"} => gid[p] \in Gens)
  BY RunFrame DEF CtlInv, ServiceTypeOK, CallInv
<1>1. CASE CompileStep(p)
  BY <1>t, <1>1 DEF CompileStep, Load, LoadFails, MountAndBuild, CompileFails, TakeNumber, Publish, Step, Raise, Return, Jump,
                    callVars, CompileLabels, CutoverLabels, StopLabels
<1>2. CASE ActivateStep(p)
  BY <1>t, <1>2 DEF ActivateStep, Lookup, LookupFails, Acquire, AcquireFails, Step, Raise, Return, Jump, callVars,
                    CompileLabels, CutoverLabels, StopLabels
<1>3. CASE CutoverStep(p)
  <2>1. CASE \/ UnbindFails(p) \/ WriteStateFails(p) \/ AwaitSocketTimesOut(p) \/ ConnectFails(p)
             \/ BindFails(p) \/ StartWorkerFails(p) \/ Commit(p)
    BY <1>t, <2>1 DEF UnbindFails, WriteStateFails, AwaitSocketTimesOut, ConnectFails, BindFails,
                      StartWorkerFails, Commit, Raise, Return, Jump, CompileLabels, CutoverLabels, StopLabels
  <2>2. CASE \/ Unbind(p) \/ StopNbdkit(p) \/ WriteState(p) \/ StartNbdkit(p) \/ AwaitSocket(p)
             \/ Connect(p) \/ Bind(p) \/ NewWorker(p) \/ StartWorker(p)
    BY <1>t, <2>2 DEF Unbind, StopNbdkit, WriteState, StartNbdkit, AwaitSocket, Connect, Bind, NewWorker, StartWorker,
                      Step, DiskStep, Jump, callVars, CompileLabels, CutoverLabels
  <2>3. QED
    BY <1>3, <2>1, <2>2 DEF CutoverStep
<1>4. CASE StopStep(p)
  BY <1>t, <1>4 DEF StopStep, ReadWorker, StopWorker, JoinReturns, JoinFails, ClearWorker, AfterStop, Step, Raise,
                    Return, Jump, callVars, CompileLabels, CutoverLabels, StopLabels
<1>5. CASE EjectStep(p)
  BY <1>t, <1>5 DEF EjectStep, Eject, EjectFails, EjectUnbind, EjectUnbindFails, Step, DiskStep, Raise, Return, Jump,
                    callVars, CompileLabels, CutoverLabels, StopLabels
<1>6. QED
  BY <1>1, <1>2, <1>3, <1>4, <1>5 DEF Run

\* Every step keeps HandInv.
LEMMA HandNext == IInv /\ HandInv /\ [Next]_vars => HandInv'
<1>. SUFFICES ASSUME IInv, HandInv, [Next]_vars PROVE HandInv'
  OBVIOUS
<1>. USE ProcsAssumption
<1>t. /\ pc \in [Procs -> Labels] /\ op \in [Procs -> AllOps \cup {"none"}]
      /\ gid \in [Procs -> 0..MaxGen] /\ cfg \in [Procs -> Configs \cup {NoCfg}] /\ CtlInv
  BY DEF IInv, CtlInv, ServiceTypeOK
<1>1. CASE \E r \in Requests : Arrival(r)
  BY <1>t, <1>1 DEF HandInv, InCutover, Activating, Arrival, Refuse, SubmitCompile, SubmitReplace, SubmitActivate,
                    SubmitEject, Submit, Accepting, Return, Jump, CompileLabels, CutoverLabels, StopLabels
<1>2. ASSUME NEW p \in Procs, Run(p) PROVE HandInv'
  <2>1. \A q \in Procs : /\ pc'[q] \in CompileLabels => cfg'[q] \in Configs
                         /\ pc'[q] = "acquire" \/ InCutover(q)' => gid'[q] \in Gens
    <3>1. ASSUME NEW q \in Procs \ {p}
          PROVE  pc'[q] = pc[q] /\ gid'[q] = gid[q] /\ cfg'[q] = cfg[q] /\ op' = op
      BY <1>t, <1>2, RunFrame, HandsFrame
    <3>2. QED
      BY <1>t, <1>2, <3>1, HandRun DEF HandInv, InCutover, Activating
  <2>2. op'[Main] = "startup" /\ pc'[Main] # "done" => active' = NoGeneration
    <3>1. CASE active' = active
      BY <1>t, <1>2, <3>1, RunFrame DEF HandInv
    <3>2. CASE Commit(p)
      <4>1. pc[p] = "commit" /\ pc'[p] = "done" /\ op' = op
        BY <1>t, <3>2 DEF Commit, Return, Jump
      <4>2. p # Main => pc[Main] = "done" \/ op[Main] # "startup"
        BY <1>t, <4>1 DEF CtlInv, StartupAlone
      <4>3. QED
        BY <1>t, <1>2, <4>1, <4>2, RunFrame
    <3>3. QED
      BY <1>2, <3>1, <3>2, OnlyCommitSwaps
  <2>3. QED
    BY <2>1, <2>2 DEF HandInv
<1>3. CASE ShutdownStep
  BY <1>t, <1>3 DEF HandInv, InCutover, Activating, CtlInv, CallInv, Fits, ShutdownStep, BeginShutdown, ShutdownUnbind,
                    ShutdownNbd, Accepting, Step, Jump, callVars, CompileLabels, CutoverLabels, StopLabels, ShutdownLabels
<1>4. CASE Restart
  BY <1>t, <1>4, ConfigsAssumption
     DEF HandInv, InCutover, Activating, Restart, CompileLabels, CutoverLabels, StopLabels
<1>5. CASE (\E w \in Procs : Prefetch(w)) \/ Systemd \/ Ended \/ UNCHANGED vars
  BY <1>5 DEF HandInv, InCutover, Activating, Prefetch, Systemd, Ended, vars, serviceVars, callVars
<1>6. QED
  BY <1>1, <1>2, <1>3, <1>4, <1>5 DEF Next

\* It holds at the start.
LEMMA InitHandInv == Init => HandInv
BY ProcsAssumption DEF Init, HandInv, InCutover, Activating, CompileLabels, CutoverLabels, StopLabels

-----------------------------------------------------------------------------
(* Every step of a handler is a step of Generations, or none               *)

\* An exception ends the handler: its client gives up.
LEMMA GenRaise ==
    ASSUME NEW p \in Procs, NEW error, CtlInv, Run(p), Raise(p, error), DiskSeen' \in {DiskSeen, "detached"}
    PROVE  Gen!Next
<1>1. pc'[p] = "done" /\ UNCHANGED <<compiled, active>>
  BY DEF CtlInv, ServiceTypeOK, Raise, Return, Jump
<1>2. ChoiceOf(p)' = NoGeneration /\ ~InCutover(p)'
  BY <1>1 DEF ChoiceOf, InCutover, CutoverLabels, StopLabels, NoGeneration
<1>3. QED
  BY <1>1, <1>2, RunAlone, IsGiveUp

\* _compile publishes; at startup the new generation is installed at once.
LEMMA GenCompile ==
    ASSUME NEW p \in Procs, IInv, HandInv, CompileStep(p)
    PROVE  [Gen!Next]_(Gen!gvars)
<1>t. /\ CtlInv /\ Run(p) /\ Alone(p) /\ op' = op
      /\ pc \in [Procs -> Labels]
  BY RunAlone, RunFrame DEF IInv, CtlInv, ServiceTypeOK, Run
<1>1. CASE Load(p) \/ MountAndBuild(p) \/ TakeNumber(p)
  <2>1. Keeps(p)
    BY <1>t, <1>1 DEF Keeps, ChoiceOf, InCutover, Activating, Load, MountAndBuild, TakeNumber, Step, Jump,
                      CutoverLabels, StopLabels
  <2>2. UNCHANGED <<compiled, active>> /\ DiskSeen' = DiskSeen
    BY <1>1 DEF Load, MountAndBuild, TakeNumber, Step, DiskSeen, hwVars
  <2>3. QED
    BY <1>t, <2>1, <2>2, AloneKeeps, IsDisk
<1>2. CASE LoadFails(p) \/ CompileFails(p)
  BY <1>t, <1>2, GenRaise DEF LoadFails, CompileFails, DiskSeen, hwVars
<1>3. CASE Publish(p)
  <2>1. /\ gid[p] \in Gens /\ cfg[p] \in Configs /\ pc[p] = "publish"
        /\ compiled' = [compiled EXCEPT ![gid[p]] = cfg[p]] /\ active' = active /\ DiskSeen' = DiskSeen
    BY <1>t, <1>3 DEF CtlInv, CallInv, HandInv, Publish, CompileLabels, DiskSeen, hwVars
  <2>2. CASE op[p] # "startup"
    <3>1. Keeps(p)
      BY <1>t, <1>3, <2>2 DEF Keeps, ChoiceOf, InCutover, Activating, Publish, Return, Jump, callVars, CutoverLabels, StopLabels
    <3>2. Gen!Publish(gid[p], cfg[p])
      BY <1>t, <2>1, <3>1, AloneKeeps, SameClients DEF Gen!Publish
    <3>3. QED
      BY <2>1, <3>2 DEF Gen!Next
  <2>3. CASE op[p] = "startup"
    <3>1. p = Main /\ pc' = [pc EXCEPT ![p] = "write"] /\ gid' = gid /\ cfg' = cfg
      BY <1>t, <1>3, <2>3, ProcsAssumption, OpsAssumption DEF CtlInv, CallInv, Publish, Jump, callVars
    <3>2. active = NoGeneration
      BY <2>1, <2>3, <3>1 DEF HandInv
    <3>3. \A q \in Procs : ~InCutover(q)
      BY <1>t, <2>1, <2>3, <3>1, ProcsAssumption DEF CtlInv, StartupAlone, InCutover, CutoverLabels, StopLabels
    <3>4. InCutover(p)' /\ ChoiceOf(p)' = [id |-> gid[p], cfg |-> cfg[p]]
      BY <1>t, <3>1 DEF InCutover, ChoiceOf, CutoverLabels
    <3>5. /\ {q \in Procs : InCutover(q)}' = {Main}
          /\ [q \in Procs |-> ChoiceOf(q)]' =
                [[q \in Procs |-> ChoiceOf(q)] EXCEPT ![Main] = [id |-> gid[p], cfg |-> cfg[p]]]
      BY <1>t, <3>1, <3>3, <3>4 DEF Alone
    <3>6. Gen!ColdStart(gid[p], cfg[p])
      BY <2>1, <3>2, <3>3, <3>5 DEF Gen!ColdStart
    <3>7. QED
      BY <2>1, <3>6 DEF Gen!Next
  <2>4. QED
    BY <2>2, <2>3
<1>4. QED
  BY <1>1, <1>2, <1>3 DEF CompileStep

\* activate_generation chooses, then begins if nobody else installs.
LEMMA GenActivate ==
    ASSUME NEW p \in Procs, IInv, HandInv, ActivateStep(p)
    PROVE  [Gen!Next]_(Gen!gvars)
<1>t. /\ CtlInv /\ Run(p) /\ Alone(p) /\ op' = op
      /\ pc \in [Procs -> Labels] /\ cfg \in [Procs -> Configs \cup {NoCfg}]
  BY RunAlone, RunFrame DEF IInv, CtlInv, ServiceTypeOK, Run
<1>1. CASE LookupFails(p) \/ AcquireFails(p)
  BY <1>t, <1>1, GenRaise DEF LookupFails, AcquireFails, DiskSeen, hwVars
<1>2. CASE Lookup(p)
  <2>1. /\ gid[p] \in Gens /\ compiled[gid[p]] # NoCfg /\ UNCHANGED <<compiled, active>> /\ DiskSeen' = DiskSeen
        /\ pc[p] = "lookup" /\ pc'[p] = "acquire" /\ gid' = gid /\ cfg'[p] = compiled[gid[p]]
    BY <1>t, <1>2 DEF CtlInv, CallInv, Lookup, Jump, DiskSeen, hwVars
  <2>2. /\ ChoiceOf(p) = NoGeneration /\ ~InCutover(p) /\ ~InCutover(p)'
        /\ ChoiceOf(p)' = [id |-> gid[p], cfg |-> compiled[gid[p]]]
    BY <2>1 DEF ChoiceOf, InCutover, CutoverLabels, StopLabels
  <2>3. Gen!Choose(p, gid[p])
    BY <1>t, <2>1, <2>2 DEF Alone, Gen!Choose
  <2>4. QED
    BY <2>1, <2>3 DEF Gen!Next
<1>3. CASE Acquire(p)
  <2>1. /\ gid[p] \in Gens /\ lock = Free /\ UNCHANGED <<compiled, active>> /\ DiskSeen' = DiskSeen
        /\ pc[p] = "acquire" /\ pc'[p] = "unbind" /\ gid' = gid /\ cfg' = cfg
    BY <1>t, <1>3 DEF HandInv, Acquire, Step, Jump, callVars, DiskSeen, hwVars
  <2>2. \A q \in Procs : ~InCutover(q)
    <3>1. p # Main
      BY <1>t, <2>1, ProcsAssumption DEF CtlInv, CallInv, Fits
    <3>2. \A q \in Requests : ~InCutover(q)
      BY <1>t, <2>1, OwnerFacts, ProcsAssumption DEF CtlInv, LockInv
    <3>3. ~InCutover(Main)
      BY <1>t, <2>1, <3>1, ProcsAssumption
         DEF CtlInv, CallInv, Fits, StartupAlone, InCutover, Activating, CutoverLabels, StopLabels, ShutdownLabels
    <3>4. QED
      BY <3>2, <3>3, ProcsAssumption
  <2>3. InCutover(p)' /\ ChoiceOf(p)' = ChoiceOf(p) /\ ChoiceOf(p) # NoGeneration
    BY <2>1, MaxGenAssumption DEF InCutover, CutoverLabels, ChoiceOf, NoGeneration, Gens
  <2>4. /\ {q \in Procs : InCutover(q)}' = {p}
        /\ [q \in Procs |-> ChoiceOf(q)]' = [q \in Procs |-> ChoiceOf(q)]
    BY <1>t, <2>2, <2>3 DEF Alone
  <2>5. Gen!Begin(p)
    BY <2>1, <2>2, <2>3, <2>4 DEF Gen!Begin
  <2>6. QED
    BY <2>5 DEF Gen!Next
<1>4. QED
  BY <1>1, <1>2, <1>3 DEF ActivateStep

\* The one installer attaches an image, or one whose server has died.
LEMMA IsAttach ==
    ASSUME NEW p \in Procs, IInv, InCutover(p), \A q \in Procs : Keeps(q), UNCHANGED <<compiled, active>>,
           DiskSeen \in {"detached", Dead}, DiskSeen' \in Configs \cup {Dead}
    PROVE  Gen!Next
<1>1. {q \in Procs : InCutover(q)} = {p}
  BY AloneInCutover
<1>2. Gen!Attach(p)
  BY <1>1, SameClients DEF Gen!Attach
<1>3. QED
  BY <1>2 DEF Gen!Next

\* The hardware cutover exchanges the disk: detached, lost, attached again.
LEMMA GenCutover ==
    ASSUME NEW p \in Procs, IInv, HandInv, CutoverStep(p)
    PROVE  [Gen!Next]_(Gen!gvars)
<1>t. /\ CtlInv /\ HwInv /\ Run(p) /\ Alone(p) /\ op' = op
      /\ pc \in [Procs -> Labels]
  BY RunAlone, RunFrame DEF IInv, CtlInv, ServiceTypeOK, Run
<1>in. InCutover(p)
  BY DEF InCutover, CutoverLabels, CutoverStep, Unbind, UnbindFails, StopNbdkit, WriteState, WriteStateFails,
         StartNbdkit, AwaitSocket, AwaitSocketTimesOut, Connect, ConnectFails, Bind, BindFails, NewWorker,
         StartWorker, StartWorkerFails, Commit
<1>1. CASE \/ UnbindFails(p) \/ WriteStateFails(p) \/ AwaitSocketTimesOut(p) \/ ConnectFails(p)
           \/ BindFails(p) \/ StartWorkerFails(p)
  <2>1. DiskSeen' \in {DiskSeen, "detached"}
    BY <1>1 DEF UnbindFails, WriteStateFails, AwaitSocketTimesOut, ConnectFails, BindFails, StartWorkerFails,
                GadgetUnbindFails, GadgetBindFails, DiskSeen, hwVars
  <2>2. QED
    BY <1>t, <1>1, <2>1, GenRaise
       DEF UnbindFails, WriteStateFails, AwaitSocketTimesOut, ConnectFails, BindFails, StartWorkerFails
<1>2. CASE Commit(p)
  <2>1. /\ active' = [id |-> gid[p], cfg |-> cfg[p]] /\ compiled' = compiled /\ DiskSeen' = DiskSeen
        /\ ChoiceOf(p)' = NoGeneration /\ ~InCutover(p)'
    BY <1>t, <1>2 DEF Commit, Return, Jump, ChoiceOf, InCutover, CutoverLabels, StopLabels, DiskSeen, hwVars
  <2>2. ChoiceOf(p) = active' /\ {q \in Procs : InCutover(q)} = {p}
    BY <1>in, <2>1, AloneInCutover DEF ChoiceOf
  <2>3. /\ {q \in Procs : InCutover(q)}' = {}
        /\ [q \in Procs |-> ChoiceOf(q)]' = [[q \in Procs |-> ChoiceOf(q)] EXCEPT ![p] = NoGeneration]
    <3>1. \A q \in Procs : ~InCutover(q)'
      BY <1>t, <1>in, <2>1, AloneInCutover DEF Alone
    <3>2. QED
      BY <1>t, <2>1, <3>1 DEF Alone
  <2>4. Gen!Commit(p)
    BY <2>1, <2>2, <2>3 DEF Gen!Commit
  <2>5. QED
    BY <2>4 DEF Gen!Next
<1>3. CASE \/ Unbind(p) \/ StopNbdkit(p) \/ WriteState(p) \/ StartNbdkit(p) \/ AwaitSocket(p)
           \/ Connect(p) \/ Bind(p) \/ NewWorker(p) \/ StartWorker(p)
  <2>1. Keeps(p) /\ UNCHANGED <<compiled, active>>
    <3>1. Activating(p)
      BY <1>t, <1>in DEF CtlInv, CallInv, Fits, InCutover
    <3>2. gid' = gid /\ cfg' = cfg /\ UNCHANGED <<compiled, active>> /\ InCutover(p)'
      BY <1>t, <1>3, <3>1
         DEF Unbind, StopNbdkit, WriteState, StartNbdkit, AwaitSocket, Connect, Bind, NewWorker, StartWorker,
             Step, DiskStep, Jump, callVars, InCutover, CutoverLabels, StopLabels, Activating
    <3>3. QED
      BY <1>in, <3>2 DEF Keeps, ChoiceOf
  <2>2. \A q \in Procs : Keeps(q)
    BY <1>t, <2>1, AloneKeeps
  <2>3. CASE Connect(p)
    <3>1. server \in Configs /\ nbd0 \in Links /\ nbd0' = server /\ gadget' = gadget
      BY <1>t, <2>3 DEF Connect, NbdConnect, HwInv, ServerLoaded
    <3>2. CASE gadget = "bound"
      BY <1>in, <2>1, <2>2, <3>1, <3>2, LinksAssumption, IsAttach DEF DiskSeen
    <3>3. CASE gadget # "bound"
      BY <2>1, <2>2, <3>1, <3>3, IsDisk DEF DiskSeen
    <3>4. QED
      BY <3>2, <3>3
  <2>4. CASE Bind(p)
    <3>1. gadget' = "bound" /\ nbd0' = nbd0
      BY <2>4 DEF Bind, GadgetBind
    <3>2. CASE gadget = "bound"
      BY <2>1, <2>2, <3>1, <3>2, IsDisk DEF DiskSeen
    <3>3. CASE gadget # "bound"
      BY <1>in, <2>1, <2>2, <3>1, <3>3, IsAttach DEF DiskSeen
    <3>4. QED
      BY <3>2, <3>3
  <2>5. CASE StopNbdkit(p)
    <3>1. nbd0' = NotConnected /\ gadget' = gadget
      BY <2>5 DEF StopNbdkit, NbdStop
    <3>2. DiskSeen' = DiskSeen \/ (DiskSeen # "detached" /\ DiskSeen' = Dead)
      BY <3>1, LinksAssumption, DetachedAssumption DEF DiskSeen, Links, Dead
    <3>3. QED
      BY <2>1, <2>2, <3>2, IsDisk
  <2>6. CASE \/ Unbind(p) \/ WriteState(p) \/ StartNbdkit(p) \/ AwaitSocket(p) \/ NewWorker(p) \/ StartWorker(p)
    <3>1. DiskSeen' = DiskSeen \/ DiskSeen' = "detached"
      BY <2>6 DEF Unbind, WriteState, StartNbdkit, AwaitSocket, NewWorker, StartWorker, GadgetUnbind,
                  ReplaceMapperState, SystemctlStart, DiskSeen, hwVars
    <3>2. QED
      BY <2>1, <2>2, <3>1, IsDisk
  <2>7. QED
    BY <1>3, <2>3, <2>4, <2>5, <2>6
<1>4. QED
  BY <1>1, <1>2, <1>3 DEF CutoverStep

\* Stopping a worker changes nothing Generations speaks of, unless it fails.
LEMMA GenStop ==
    ASSUME NEW p \in Procs, IInv, HandInv, StopStep(p)
    PROVE  [Gen!Next]_(Gen!gvars)
<1>t. /\ CtlInv /\ Run(p) /\ Alone(p) /\ op' = op
      /\ pc \in [Procs -> Labels]
  BY RunAlone, RunFrame DEF IInv, CtlInv, ServiceTypeOK, Run
<1>1. CASE JoinFails(p)
  BY <1>t, <1>1, GenRaise DEF JoinFails, DiskSeen, hwVars
<1>2. CASE ReadWorker(p) \/ StopWorker(p) \/ JoinReturns(p) \/ ClearWorker(p)
  <2>1. /\ gid' = gid /\ cfg' = cfg /\ UNCHANGED <<compiled, active>> /\ DiskSeen' = DiskSeen
        /\ pc[p] \in StopLabels
        /\ pc'[p] \in StopLabels \cup {IF Activating(p) THEN "new_worker"
                                      ELSE IF op[p] = "eject" THEN "eject" ELSE "shutdown_unbind"}
    BY <1>t, <1>2 DEF ReadWorker, StopWorker, JoinReturns, ClearWorker, AfterStop, Step, Jump, callVars, StopLabels, DiskSeen, hwVars
  <2>2. Keeps(p)
    BY <1>t, <2>1 DEF Keeps, ChoiceOf, InCutover, Activating, CutoverLabels, StopLabels
  <2>3. QED
    BY <1>t, <2>1, <2>2, AloneKeeps, IsDisk
<1>3. QED
  BY <1>1, <1>2 DEF StopStep

\* An eject detaches the disk and holds no choice.
LEMMA GenEject ==
    ASSUME NEW p \in Procs, IInv, HandInv, EjectStep(p)
    PROVE  [Gen!Next]_(Gen!gvars)
<1>t. /\ CtlInv /\ Run(p) /\ Alone(p) /\ op' = op
      /\ pc \in [Procs -> Labels]
  BY RunAlone, RunFrame DEF IInv, CtlInv, ServiceTypeOK, Run
<1>1. CASE EjectFails(p) \/ EjectUnbindFails(p)
  BY <1>t, <1>1, GenRaise DEF EjectFails, EjectUnbindFails, GadgetUnbindFails, DiskSeen, hwVars
<1>2. CASE Eject(p) \/ EjectUnbind(p)
  <2>1. pc[p] \in EjectLabels /\ pc'[p] \in {"eject_unbind", "done"} /\ UNCHANGED <<compiled, active>>
    BY <1>t, <1>2 DEF Eject, EjectUnbind, DiskStep, Return, Jump, EjectLabels
  <2>2. Keeps(p)
    BY <2>1 DEF Keeps, ChoiceOf, InCutover, CutoverLabels, StopLabels, EjectLabels
  <2>3. DiskSeen' = DiskSeen \/ DiskSeen' = "detached"
    BY <1>2 DEF Eject, EjectUnbind, GadgetUnbind, DiskSeen, hwVars
  <2>4. QED
    BY <1>t, <2>1, <2>2, <2>3, AloneKeeps, IsDisk
<1>3. QED
  BY <1>1, <1>2 DEF EjectStep

-----------------------------------------------------------------------------
(* The other steps                                                         *)

\* A request that arrives has nothing in its hands.
LEMMA GenArrival ==
    ASSUME NEW r \in Requests, IInv, Arrival(r)
    PROVE  [Gen!Next]_(Gen!gvars)
<1>t. /\ CtlInv /\ pc \in [Procs -> Labels] /\ op \in [Procs -> AllOps \cup {"none"}]
      /\ gid \in [Procs -> 0..MaxGen] /\ cfg \in [Procs -> Configs \cup {NoCfg}] /\ r \in Procs
  BY ProcsAssumption DEF IInv, CtlInv, ServiceTypeOK
<1>1. /\ UNCHANGED <<compiled, active>> /\ DiskSeen' = DiskSeen /\ pc[r] = "idle"
      /\ pc'[r] \in {"mount", "lookup", "read_worker", "done"} /\ (pc'[r] = "read_worker" => op'[r] = "eject")
      /\ \A q \in Procs \ {r} : pc'[q] = pc[q] /\ op'[q] = op[q] /\ gid'[q] = gid[q] /\ cfg'[q] = cfg[q]
  BY <1>t DEF Arrival, Refuse, SubmitCompile, SubmitReplace, SubmitActivate, SubmitEject, Submit, Return, Jump, DiskSeen, hwVars
<1>2. Alone(r) /\ Keeps(r)
  BY <1>t, <1>1 DEF Alone, Keeps, ChoiceOf, InCutover, Activating, CutoverLabels, StopLabels
<1>3. QED
  BY <1>t, <1>1, <1>2, AloneKeeps, IsDisk

\* Shutdown detaches the disk, or loses it when the unbind has failed.
LEMMA GenShutdown ==
    ASSUME IInv, ShutdownStep
    PROVE  [Gen!Next]_(Gen!gvars)
<1>t. /\ CtlInv /\ pc \in [Procs -> Labels] /\ op \in [Procs -> AllOps \cup {"none"}] /\ Main \in Procs
  BY ProcsAssumption DEF IInv, CtlInv, ServiceTypeOK
<1>1. /\ UNCHANGED <<compiled, active, gid, cfg>>
      /\ \A q \in Procs \ {Main} : pc'[q] = pc[q] /\ op'[q] = op[q]
      /\ op'[Main] = "shutdown" /\ pc[Main] \in {"done", "shutdown_unbind", "shutdown_nbd"}
      /\ pc'[Main] \in {"read_worker", "shutdown_nbd", "done"}
  BY <1>t DEF ShutdownStep, BeginShutdown, ShutdownUnbind, ShutdownNbd, Accepting, Step, Jump, callVars, CtlInv, CallInv,
              Fits, ShutdownLabels
<1>2. Alone(Main) /\ Keeps(Main)
  BY <1>t, <1>1 DEF Alone, Keeps, ChoiceOf, InCutover, Activating, CutoverLabels, StopLabels
<1>3. DiskSeen' = DiskSeen \/ DiskSeen' = "detached" \/ (DiskSeen # "detached" /\ DiskSeen' = Dead)
  <2>1. CASE BeginShutdown \/ ShutdownUnbind
    BY <2>1 DEF BeginShutdown, ShutdownUnbind, GadgetUnbind, GadgetUnbindFails, DiskSeen, hwVars
  <2>2. CASE ShutdownNbd
    BY <2>2, LinksAssumption, DetachedAssumption DEF ShutdownNbd, NbdStop, DiskSeen, Links, Dead
  <2>3. QED
    BY <2>1, <2>2 DEF ShutdownStep
<1>4. QED
  BY <1>t, <1>1, <1>2, <1>3, AloneKeeps, IsDisk

\* nbdkit starts, stops or dies: the console's image stays or is lost.
LEMMA GenSystemd ==
    ASSUME Systemd
    PROVE  [Gen!Next]_(Gen!gvars)
<1>1. (\A p \in Procs : Keeps(p)) /\ UNCHANGED <<compiled, active>>
  BY DEF Systemd, serviceVars, callVars, Keeps, ChoiceOf, InCutover, Activating
<1>2. DiskSeen' = DiskSeen \/ (DiskSeen # "detached" /\ DiskSeen' = Dead)
  BY LinksAssumption, DetachedAssumption
     DEF Systemd, NbdkitServe, NbdkitExit, NbdkitCrash, LostLink, DiskSeen, Links, Dead
<1>3. QED
  BY <1>1, <1>2, IsDisk

\* A new process knows no generation; the console has lost its disk to the bind
\* or unbind that was interrupted, or the server behind it, or sees what it saw.
LEMMA GenRestart ==
    ASSUME IInv, Restart
    PROVE  Gen!Next
<1>1. /\ compiled' = [g \in Gens |-> NoCfg] /\ active' = NoGeneration
      /\ DiskSeen' = DiskSeen \/ DiskSeen' = "detached" \/ (DiskSeen # "detached" /\ DiskSeen' = Dead)
  BY LinksAssumption, DetachedAssumption DEF Restart, ServiceDies, GadgetTorn, LostLink, DiskSeen, Links, Dead
<1>2. \A p \in Procs : ~InCutover(p)' /\ ChoiceOf(p)' = NoGeneration
  BY DEF IInv, CtlInv, ServiceTypeOK, Restart, InCutover, ChoiceOf, CutoverLabels, StopLabels
<1>3. {p \in Procs : InCutover(p)}' = {} /\ [p \in Procs |-> ChoiceOf(p)]' = [p \in Procs |-> NoGeneration]
  BY <1>2
<1>4. Gen!Restart
  BY <1>1, <1>3 DEF Gen!Restart, Gen!Nothing, Gen!NoneChosen
<1>5. QED
  BY <1>4 DEF Gen!Next

-----------------------------------------------------------------------------
(* The theorem                                                             *)

\* Every step of the control plane is a step of Generations, or none.
LEMMA GenNext == IInv /\ HandInv /\ [Next]_vars => [Gen!Next]_(Gen!gvars)
<1>. SUFFICES ASSUME IInv, HandInv, [Next]_vars PROVE [Gen!Next]_(Gen!gvars)
  OBVIOUS
<1>1. CASE \E r \in Requests : Arrival(r)
  BY <1>1, GenArrival
<1>2. CASE \E p \in Procs : Run(p)
  BY <1>2, GenCompile, GenActivate, GenCutover, GenStop, GenEject DEF Run
<1>3. CASE ShutdownStep
  BY <1>3, GenShutdown
<1>4. CASE Systemd
  BY <1>4, GenSystemd
<1>5. CASE Restart
  BY <1>5, GenRestart
<1>6. CASE (\E w \in Procs : Prefetch(w)) \/ Ended \/ UNCHANGED vars
  <2>1. (\A p \in Procs : Keeps(p)) /\ UNCHANGED <<compiled, active>> /\ DiskSeen' = DiskSeen
    BY <1>6 DEF Prefetch, Ended, vars, serviceVars, callVars, hwVars, Keeps, ChoiceOf, InCutover, Activating, DiskSeen
  <2>2. QED
    BY <2>1, IsDisk
<1>7. QED
  BY <1>1, <1>2, <1>3, <1>4, <1>5, <1>6 DEF Next

\* A control plane that has just started is a Generations that has.
LEMMA GenInit == Init => Gen!Init
<1>. SUFFICES ASSUME Init PROVE Gen!Init
  OBVIOUS
<1>1. compiled = [g \in Gens |-> NoCfg] /\ active = NoGeneration /\ DiskSeen = "detached"
  BY DEF Init, HardwareInit, DiskSeen
<1>2. \A p \in Procs : ~InCutover(p) /\ ChoiceOf(p) = NoGeneration
  BY DEF Init, InCutover, ChoiceOf, CutoverLabels, StopLabels
<1>3. {p \in Procs : InCutover(p)} = {} /\ [p \in Procs |-> ChoiceOf(p)] = [p \in Procs |-> NoGeneration]
  BY <1>2
<1>4. QED
  BY <1>1, <1>3 DEF Gen!Init, Gen!Nothing, Gen!NoneChosen

\* Threads, try-lock, workers, failures, nbdkit's deaths and crashes of the
\* service included, the control plane does what Generations promises: an
\* active generation is a choice installed by one client alone, and an attached
\* image is never exchanged for another, only detached or lost.
THEOREM Refinement == Spec => ImplementsGenerations
<1>1. Init => Gen!Init /\ HandInv
  BY GenInit, InitHandInv
<1>2. IInv /\ HandInv /\ [Next]_vars => HandInv' /\ [Gen!Next]_(Gen!gvars)
  BY HandNext, GenNext
<1>3. QED
  BY <1>1, <1>2, Invariance, PTL DEF Spec, ImplementsGenerations, Gen!Spec

=============================================================================
