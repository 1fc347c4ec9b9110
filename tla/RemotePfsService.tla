--------------------------- MODULE RemotePfsService ---------------------------
(***************************************************************************)
(* The control plane: RemotePfsService (service.py) under the FastAPI      *)
(* handlers of api.py, with the hardware stack and the prefetch workers it *)
(* drives.                                                                 *)
(*                                                                         *)
(* A request is one HTTP call; its handler runs in a thread of the         *)
(* threadpool and takes one step for each call or assignment another       *)
(* thread can observe.  Main is the event loop's lifespan: startup before  *)
(* the first request, shutdown after the last.                             *)
(***************************************************************************)
EXTENDS HardwareStack, PrefetchWorkers, FiniteSets

CONSTANTS
    Requests,       \* the HTTP requests of a run, each served once
    Main,           \* the lifespan task
    MaxGen,         \* bound: generation numbers a run can hand out
    MaxRestarts,    \* bound: times the service process dies
    MaxLater,       \* bound: requests sent to a process that was started again
    Ops,            \* the mutating endpoints clients use in a run
    PrefetchOn,     \* configurations with an enabled prefetch category
    NoWorker        \* prefetch_worker is None

ASSUME ProcsAssumption == Main \notin Requests /\ Procs = Requests \cup {Main}
ASSUME MaxGenAssumption == MaxGen \in Nat
ASSUME MaxRestartsAssumption == MaxRestarts \in Nat
ASSUME MaxLaterAssumption == MaxLater \in Nat
ASSUME OpsAssumption == Ops \subseteq {"compile", "activate", "replace", "eject"}
ASSUME NoWorkerAssumption == NoWorker \notin Procs
ASSUME PrefetchOnAssumption == PrefetchOn \subseteq Configs

VARIABLES
    state,          \* RemotePfsService.state
    active,         \* RemotePfsService.active
    compiled,       \* RemotePfsService.compiled: generation number -> config
    nextGeneration, \* RemotePfsService.next_generation
    prefetchWorker, \* RemotePfsService.prefetch_worker
    pc,             \* the next line each thread executes
    op,             \* what it was called for
    gid, cfg,       \* the generation in its hands: number and configuration
    victim,         \* the worker _stop_prefetch_worker has read
    restarts,       \* how often systemd has started the process again
    takenAway       \* history: this process has begun to take the disk away, by
                    \* a cutover or an eject, and has not bound it since

callVars == <<op, gid, cfg, victim>>
serviceVars == <<state, active, compiled, nextGeneration, prefetchWorker, pc, callVars, restarts, takenAway>>
vars == <<hwVars, workerVars, serviceVars>>

Gens == 1..MaxGen
Generation == [id : 0..MaxGen, cfg : Configs \cup {NoCfg}]
NoGeneration == [id |-> 0, cfg |-> NoCfg]
AllOps == {"compile", "activate", "replace", "eject", "startup", "shutdown"}
Errors == {"config", "runtime", "os", "other"}

CompileLabels == {"mount", "build", "publish"}
\* _activate_hardware, and _start_prefetch_worker at its end
CutoverLabels == {"unbind", "nbd_stop", "write", "start", "await_socket", "connect", "bind",
                  "new_worker", "start_worker", "commit"}
StopLabels == {"read_worker", "set_stop", "join", "clear_worker"}
EjectLabels == {"eject", "eject_unbind"}
ShutdownLabels == {"shutdown_unbind", "shutdown_nbd"}
Labels == {"idle", "load", "lookup", "acquire", "done"}
          \cup CompileLabels \cup CutoverLabels \cup StopLabels \cup EjectLabels \cup ShutdownLabels

Activating(p) == op[p] \in {"activate", "replace", "startup"}
\* p is inside _activate_hardware or about to commit its outcome.
InCutover(p) == pc[p] \in CutoverLabels \/ (pc[p] \in StopLabels /\ Activating(p))

ServiceTypeOK ==
    /\ state \in {"starting", "running", "degraded", "crashed", "stopped"}
    /\ active \in Generation
    /\ compiled \in [Gens -> Configs \cup {NoCfg}]
    /\ nextGeneration \in Nat \ {0}
    /\ prefetchWorker \in Procs \cup {NoWorker}
    /\ pc \in [Procs -> Labels]
    /\ op \in [Procs -> AllOps \cup {"none"}]
    /\ gid \in [Procs -> 0..MaxGen]
    /\ cfg \in [Procs -> Configs \cup {NoCfg}]
    /\ victim \in [Procs -> Procs \cup {NoWorker}]
    /\ restarts \in 0..MaxRestarts
    /\ takenAway \in BOOLEAN

TypeOK == HardwareTypeOK /\ WorkerTypeOK /\ ServiceTypeOK

\* The machine has booted and the service is about to read its configuration.
Init ==
    /\ HardwareInit
    /\ WorkerInit
    /\ active = NoGeneration
    /\ compiled = [g \in Gens |-> NoCfg]
    /\ nextGeneration = 1
    /\ prefetchWorker = NoWorker
    /\ op = [p \in Procs |-> IF p = Main THEN "startup" ELSE "none"]
    /\ gid = [p \in Procs |-> 0]
    /\ victim = [p \in Procs |-> NoWorker]
    /\ state = "starting"
    /\ pc = [p \in Procs |-> IF p = Main THEN "load" ELSE "idle"]
    /\ cfg = [p \in Procs |-> NoCfg]
    /\ restarts = 0
    /\ takenAway = FALSE

-----------------------------------------------------------------------------
(* Leaving a handler                                                       *)

Jump(p, label) == pc' = [pc EXCEPT ![p] = label]

\* p is about to take the console's disk away.
TakesAway(p) == pc[p] \in {"unbind"} \cup EjectLabels

\* The handler returns or raises: its locals are gone.
Return(p) ==
    /\ Jump(p, "done")
    /\ gid' = [gid EXCEPT ![p] = 0]
    /\ cfg' = [cfg EXCEPT ![p] = NoCfg]
    /\ victim' = [victim EXCEPT ![p] = NoWorker]
    /\ UNCHANGED op

ReleaseIfHeld(p) == lock' = IF lock = ByService(p) THEN Free ELSE lock

\* startup catches ConfigError, OSError and RuntimeError; any other exception
\* ends the process.  A failed request leaves the service state alone.
StateAfter(p, error) ==
    IF op[p] # "startup" THEN state
    ELSE IF error = "other" THEN "crashed" ELSE "degraded"

\* (mutant: activate_generation without its finally clause)
Raise_KeepsLock(p, error) ==
    /\ Return(p)
    /\ state' = StateAfter(p, error)
    /\ takenAway' = (takenAway \/ TakesAway(p))
    /\ UNCHANGED <<active, compiled, nextGeneration, prefetchWorker, restarts>>
    /\ UNCHANGED <<wpc, stopEvent, enabled, done, seen, passes, lock>>

\* An exception leaves the handler: the finally clause releases the lock.
Raise(p, error) ==
    /\ Return(p)
    /\ ReleaseIfHeld(p)
    /\ state' = StateAfter(p, error)
    /\ takenAway' = (takenAway \/ TakesAway(p))
    /\ UNCHANGED <<active, compiled, nextGeneration, prefetchWorker, restarts>>
    /\ UNCHANGED <<wpc, stopEvent, enabled, done, seen, passes>>

\* p goes on to label, having begun to take the disk away or attached it.
DiskStep(p, label, away) ==
    /\ Jump(p, label)
    /\ takenAway' = away
    /\ UNCHANGED <<state, active, compiled, nextGeneration, prefetchWorker, callVars, restarts>>

\* What a step of p that moves on to label and touches no service field keeps.
Step(p, label) ==
    /\ Jump(p, label)
    /\ UNCHANGED <<state, active, compiled, nextGeneration, prefetchWorker, callVars, restarts, takenAway>>

-----------------------------------------------------------------------------
(* The API: a request arrives while the application is up                  *)

Accepting == op[Main] = "startup" /\ pc[Main] = "done" /\ state # "crashed"

\* Body too large, wrong content type, a text that cannot be decoded or read,
\* or a configuration that does not validate: answered (413, 422 or 500) without
\* touching the service's state.
Refuse(r) ==
    /\ Accepting /\ pc[r] = "idle"
    /\ Return(r)
    /\ UNCHANGED <<state, active, compiled, nextGeneration, prefetchWorker, restarts, takenAway>>
    /\ UNCHANGED <<hwVars, workerVars>>

Submit(r, o, c, g, label) ==
    /\ o \in Ops
    /\ Accepting /\ pc[r] = "idle"
    /\ Jump(r, label)
    /\ op' = [op EXCEPT ![r] = o]
    /\ cfg' = [cfg EXCEPT ![r] = c]
    /\ gid' = [gid EXCEPT ![r] = g]
    /\ UNCHANGED <<state, active, compiled, nextGeneration, prefetchWorker, victim, restarts, takenAway>>
    /\ UNCHANGED <<hwVars, workerVars>>

SubmitCompile(r)  == \E c \in Configs : Submit(r, "compile", c, 0, "mount")
\* PUT /api/config, or POST /api/config/reload with the file's contents
SubmitReplace(r)  == \E c \in Configs : Submit(r, "replace", c, 0, "mount")
SubmitActivate(r) == \E g \in Gens : Submit(r, "activate", NoCfg, g, "lookup")
SubmitEject(r)    == Submit(r, "eject", NoCfg, 0, "read_worker")

-----------------------------------------------------------------------------
(* startup: load(config_path), then the calls a replacement makes, and      *)
(* _compile                                                                *)

Load(p) ==
    /\ pc[p] = "load"
    /\ Jump(p, "mount")
    /\ \E c \in Configs : cfg' = [cfg EXCEPT ![p] = c]
    /\ UNCHANGED <<state, active, compiled, nextGeneration, prefetchWorker, op, gid, victim, restarts, takenAway>>
    /\ UNCHANGED <<hwVars, workerVars>>

\* The file cannot be read, or does not validate (ConfigError), or is not UTF-8.
LoadFails(p) ==
    /\ pc[p] = "load"
    /\ \E error \in {"config", "other"} : Raise(p, error)
    /\ UNCHANGED hwVars

\* Mount what is not mounted, check the entries, build the layout.  MountError
\* is a RuntimeError; a missing source a ConfigError; a layout that does not
\* fit a ValueError.
MountAndBuild(p) ==
    /\ pc[p] = "mount"
    /\ Step(p, "build")
    /\ UNCHANGED <<hwVars, workerVars>>

CompileFails(p) ==
    /\ pc[p] = "mount"
    /\ \E error \in Errors : Raise(p, error)
    /\ UNCHANGED hwVars

\* CompiledGeneration(self.next_generation, ...): the number is read, and the
\* interpreter may switch threads in the calls that follow ...
TakeNumber(p) ==
    /\ pc[p] = "build"
    /\ nextGeneration \in Gens
    /\ Jump(p, "publish")
    /\ gid' = [gid EXCEPT ![p] = nextGeneration]
    /\ UNCHANGED <<state, active, compiled, nextGeneration, prefetchWorker, op, cfg, victim, restarts, takenAway>>
    /\ UNCHANGED <<hwVars, workerVars>>

\* ... before the counter moves and the generation enters the table.
Publish(p) ==
    /\ pc[p] = "publish"
    /\ nextGeneration' = nextGeneration + 1
    /\ compiled' = [compiled EXCEPT ![gid[p]] = cfg[p]]
    /\ \/ op[p] = "compile" /\ Return(p)
       \/ op[p] = "replace" /\ Jump(p, "lookup") /\ UNCHANGED callVars
       \/ op[p] = "startup" /\ Jump(p, "write") /\ UNCHANGED callVars
    /\ UNCHANGED <<state, active, prefetchWorker, restarts, takenAway>>
    /\ UNCHANGED <<hwVars, workerVars>>

-----------------------------------------------------------------------------
(* activate_generation                                                     *)

Lookup(p) ==
    /\ pc[p] = "lookup"
    /\ compiled[gid[p]] # NoCfg
    /\ Jump(p, "acquire")
    /\ cfg' = [cfg EXCEPT ![p] = compiled[gid[p]]]
    /\ UNCHANGED <<state, active, compiled, nextGeneration, prefetchWorker, op, gid, victim, restarts, takenAway>>
    /\ UNCHANGED <<hwVars, workerVars>>

LookupFails(p) ==
    /\ pc[p] = "lookup"
    /\ compiled[gid[p]] = NoCfg
    /\ Raise(p, "config")
    /\ UNCHANGED hwVars

\* (mutant: the result of acquire is not looked at)
Acquire_Ignored(p) ==
    /\ pc[p] = "acquire"
    /\ lock' = ByService(p)
    /\ Step(p, "unbind")
    /\ UNCHANGED <<hwVars, wpc, stopEvent, enabled, done, seen, passes>>

\* (mutant: the active pointer is swapped before the hardware is)
Acquire_SwapsFirst(p) ==
    /\ pc[p] = "acquire"
    /\ lock = Free
    /\ lock' = ByService(p)
    /\ active' = [id |-> gid[p], cfg |-> cfg[p]]
    /\ Jump(p, "unbind")
    /\ UNCHANGED <<state, compiled, nextGeneration, prefetchWorker, callVars, restarts, takenAway>>
    /\ UNCHANGED <<hwVars, wpc, stopEvent, enabled, done, seen, passes>>

\* acquire(blocking=False)
Acquire(p) ==
    /\ pc[p] = "acquire"
    /\ lock = Free
    /\ lock' = ByService(p)
    /\ Step(p, "unbind")
    /\ UNCHANGED <<hwVars, wpc, stopEvent, enabled, done, seen, passes>>

AcquireFails(p) ==
    /\ pc[p] = "acquire"
    /\ lock # Free
    /\ Raise(p, "runtime")
    /\ UNCHANGED hwVars

-----------------------------------------------------------------------------
(* _activate_hardware, with _sync_reload_lock held (at startup: before the  *)
(* first request).  Startup is a cold start: it begins at the state file.   *)

\* (mutant: nbdkit is stopped under a bound gadget)
Unbind_Skipped(p) ==
    /\ pc[p] = "unbind"
    /\ DiskStep(p, "nbd_stop", TRUE)
    /\ UNCHANGED <<hwVars, workerVars>>

Unbind(p) ==
    /\ pc[p] = "unbind"
    /\ GadgetUnbind
    /\ DiskStep(p, "nbd_stop", TRUE)
    /\ UNCHANGED workerVars

UnbindFails(p) ==
    /\ pc[p] = "unbind"
    /\ GadgetUnbindFails
    /\ \E error \in {"runtime", "os"} : Raise(p, error)

StopNbdkit(p) ==
    /\ pc[p] = "nbd_stop"
    /\ NbdStop
    /\ Step(p, "write")
    /\ UNCHANGED workerVars

WriteState(p) ==
    /\ pc[p] = "write"
    /\ ReplaceMapperState(cfg[p])
    /\ Step(p, "start")
    /\ UNCHANGED workerVars

\* A full disk is an OSError, a missing group a KeyError.
WriteStateFails(p) ==
    /\ pc[p] = "write"
    /\ \E error \in {"os", "other"} : Raise(p, error)
    /\ UNCHANGED hwVars

StartNbdkit(p) ==
    /\ pc[p] = "start"
    /\ SystemctlStart
    /\ Step(p, "await_socket")
    /\ UNCHANGED workerVars

AwaitSocket(p) ==
    /\ pc[p] = "await_socket"
    /\ SocketExists
    /\ Step(p, "connect")
    /\ UNCHANGED <<hwVars, workerVars>>

\* Ten seconds without a socket.
AwaitSocketTimesOut(p) ==
    /\ pc[p] = "await_socket"
    /\ ~SocketExists
    /\ Raise(p, "runtime")
    /\ UNCHANGED hwVars

Connect(p) ==
    /\ pc[p] = "connect"
    /\ NbdConnect
    /\ Step(p, "bind")
    /\ UNCHANGED workerVars

ConnectFails(p) ==
    /\ pc[p] = "connect"
    /\ Raise(p, "runtime")
    /\ UNCHANGED hwVars

\* (mutant: the new worker is started without stopping the old one)
Bind_KeepsWorker(p) ==
    /\ pc[p] = "bind"
    /\ GadgetBind
    /\ DiskStep(p, "new_worker", FALSE)
    /\ UNCHANGED workerVars

Bind(p) ==
    /\ pc[p] = "bind"
    /\ GadgetBind
    /\ DiskStep(p, "read_worker", FALSE)
    /\ UNCHANGED workerVars

BindFails(p) ==
    /\ pc[p] = "bind"
    /\ GadgetBindFails
    /\ \E error \in {"runtime", "os"} : Raise(p, error)

\* _start_prefetch_worker, once the old worker has been stopped
NewWorker(p) ==
    /\ pc[p] = "new_worker"
    /\ Create(p, cfg[p] \in PrefetchOn)
    /\ prefetchWorker' = p
    /\ Jump(p, "start_worker")
    /\ UNCHANGED <<state, active, compiled, nextGeneration, callVars, restarts, takenAway>>
    /\ UNCHANGED hwVars

\* self.prefetch_worker.start(): the field is read again
StartWorker(p) ==
    /\ pc[p] = "start_worker"
    /\ prefetchWorker # NoWorker
    /\ StartThread(prefetchWorker)
    /\ Step(p, "commit")
    /\ UNCHANGED hwVars

\* AttributeError: an eject has set the field to None in between; or
\* RuntimeError: the thread cannot be started, and the field keeps the worker.
StartWorkerFails(p) ==
    /\ pc[p] = "start_worker"
    /\ IF prefetchWorker = NoWorker THEN Raise(p, "other") ELSE Raise(p, "runtime")
    /\ UNCHANGED hwVars

\* (mutant: the generation is looked up again by its number)
Commit_Rereads(p) ==
    /\ pc[p] = "commit"
    /\ active' = [id |-> gid[p], cfg |-> compiled[gid[p]]]
    /\ state' = "running"
    /\ ReleaseIfHeld(p)
    /\ Return(p)
    /\ UNCHANGED <<compiled, nextGeneration, prefetchWorker, restarts, takenAway>>
    /\ UNCHANGED <<hwVars, wpc, stopEvent, enabled, done, seen, passes>>

\* The new generation becomes the active one and the lock is released.
Commit(p) ==
    /\ pc[p] = "commit"
    /\ active' = [id |-> gid[p], cfg |-> cfg[p]]
    /\ state' = "running"
    /\ ReleaseIfHeld(p)
    /\ Return(p)
    /\ UNCHANGED <<compiled, nextGeneration, prefetchWorker, restarts, takenAway>>
    /\ UNCHANGED <<hwVars, wpc, stopEvent, enabled, done, seen, passes>>

-----------------------------------------------------------------------------
(* _stop_prefetch_worker, called by the cutover, by eject and by shutdown  *)

AfterStop(p) ==
    IF Activating(p) THEN "new_worker"
    ELSE IF op[p] = "eject" THEN "eject" ELSE "shutdown_unbind"

ReadWorker(p) ==
    /\ pc[p] = "read_worker"
    /\ victim' = [victim EXCEPT ![p] = prefetchWorker]
    /\ Jump(p, IF prefetchWorker = NoWorker THEN AfterStop(p) ELSE "set_stop")
    /\ UNCHANGED <<state, active, compiled, nextGeneration, prefetchWorker, op, gid, cfg, restarts, takenAway>>
    /\ UNCHANGED <<hwVars, workerVars>>

StopWorker(p) ==
    /\ pc[p] = "set_stop"
    /\ SetStop(victim[p])
    /\ Step(p, "join")
    /\ UNCHANGED hwVars

JoinReturns(p) ==
    /\ pc[p] = "join"
    /\ JoinExited(victim[p]) \/ JoinTimedOut(victim[p])
    /\ Step(p, "clear_worker")
    /\ UNCHANGED <<hwVars, workerVars>>

JoinFails(p) ==
    /\ pc[p] = "join"
    /\ JoinRaises(victim[p])
    /\ Raise(p, "runtime")
    /\ UNCHANGED hwVars

ClearWorker(p) ==
    /\ pc[p] = "clear_worker"
    /\ prefetchWorker' = NoWorker
    /\ Jump(p, AfterStop(p))
    /\ UNCHANGED <<state, active, compiled, nextGeneration, callVars, restarts, takenAway>>
    /\ UNCHANGED <<hwVars, workerVars>>

-----------------------------------------------------------------------------
(* eject: no lock is taken                                                 *)

\* forced_eject empties the LUN; the gadget stays bound until the unbind
Eject(p) ==
    /\ pc[p] = "eject"
    /\ DiskStep(p, "eject_unbind", TRUE)
    /\ UNCHANGED <<hwVars, workerVars>>

EjectFails(p) ==
    /\ pc[p] = "eject"
    /\ gadget # "absent"
    /\ Raise(p, "runtime")
    /\ UNCHANGED hwVars

EjectUnbind(p) ==
    /\ pc[p] = "eject_unbind"
    /\ GadgetUnbind
    /\ Return(p)
    /\ takenAway' = TRUE
    /\ UNCHANGED <<state, active, compiled, nextGeneration, prefetchWorker, restarts>>
    /\ UNCHANGED workerVars

EjectUnbindFails(p) ==
    /\ pc[p] = "eject_unbind"
    /\ GadgetUnbindFails
    /\ \E error \in {"runtime", "os"} : Raise(p, error)

-----------------------------------------------------------------------------
(* shutdown: after the last request, errors ignored                        *)

BeginShutdown ==
    /\ Accepting
    /\ \A r \in Requests : pc[r] \in {"idle", "done"}
    /\ op' = [op EXCEPT ![Main] = "shutdown"]
    /\ Jump(Main, "read_worker")
    /\ UNCHANGED <<state, active, compiled, nextGeneration, prefetchWorker, gid, cfg, victim, restarts, takenAway>>
    /\ UNCHANGED <<hwVars, workerVars>>

ShutdownUnbind ==
    /\ pc[Main] = "shutdown_unbind"
    /\ GadgetUnbind \/ GadgetUnbindFails
    /\ Step(Main, "shutdown_nbd")
    /\ UNCHANGED workerVars

ShutdownNbd ==
    /\ pc[Main] = "shutdown_nbd"
    /\ NbdStop
    /\ state' = "stopped"
    /\ Jump(Main, "done")
    /\ UNCHANGED <<active, compiled, nextGeneration, prefetchWorker, callVars, restarts, takenAway>>
    /\ UNCHANGED workerVars

-----------------------------------------------------------------------------
(* The process ends: killed at any line, by the exception that startup does *)
(* not catch, or after its shutdown.  A new one is started, for which there *)
(* are no threads, no workers, no lock and no generations.  The requests    *)
(* under way are lost, and so may be some that come while nobody listens.   *)

Restart ==
    /\ restarts < MaxRestarts
    /\ restarts' = restarts + 1
    /\ takenAway' = FALSE
    /\ ServiceDies
    /\ IF \E p \in Procs : pc[p] \in {"unbind", "bind", "eject_unbind", "shutdown_unbind"}
       THEN GadgetTorn ELSE UNCHANGED gadget
    /\ WorkersVanish
    /\ active' = NoGeneration
    /\ compiled' = [g \in Gens |-> NoCfg]
    /\ nextGeneration' = 1
    /\ prefetchWorker' = NoWorker
    /\ gid' = [p \in Procs |-> 0]
    /\ victim' = [p \in Procs |-> NoWorker]
    /\ op' = [p \in Procs |-> IF p = Main THEN "startup" ELSE "none"]
    /\ state' = "starting"
    /\ cfg' = [p \in Procs |-> NoCfg]
    /\ \E later \in SUBSET {r \in Requests : pc[r] = "idle"} :
          /\ Cardinality(later) =< MaxLater
          /\ pc' = [p \in Procs |-> IF p = Main THEN "load" ELSE IF p \in later THEN "idle" ELSE "done"]

-----------------------------------------------------------------------------
(* The specification                                                       *)

Arrival(r) == Refuse(r) \/ SubmitCompile(r) \/ SubmitReplace(r) \/ SubmitActivate(r) \/ SubmitEject(r)

CompileStep(p) ==
    \/ Load(p) \/ LoadFails(p)
    \/ MountAndBuild(p) \/ CompileFails(p) \/ TakeNumber(p) \/ Publish(p)

ActivateStep(p) == Lookup(p) \/ LookupFails(p) \/ Acquire(p) \/ AcquireFails(p)

CutoverStep(p) ==
    \/ Unbind(p) \/ UnbindFails(p) \/ StopNbdkit(p) \/ WriteState(p) \/ WriteStateFails(p)
    \/ StartNbdkit(p) \/ AwaitSocket(p) \/ AwaitSocketTimesOut(p)
    \/ Connect(p) \/ ConnectFails(p) \/ Bind(p) \/ BindFails(p)
    \/ NewWorker(p) \/ StartWorker(p) \/ StartWorkerFails(p) \/ Commit(p)

StopStep(p) == ReadWorker(p) \/ StopWorker(p) \/ JoinReturns(p) \/ JoinFails(p) \/ ClearWorker(p)

EjectStep(p) == Eject(p) \/ EjectFails(p) \/ EjectUnbind(p) \/ EjectUnbindFails(p)

\* A step of a handler that has begun.
Run(p) == CompileStep(p) \/ ActivateStep(p) \/ CutoverStep(p) \/ StopStep(p) \/ EjectStep(p)

ShutdownStep == BeginShutdown \/ ShutdownUnbind \/ ShutdownNbd

Prefetch(w) == WorkerStep(w) /\ UNCHANGED <<hwVars, serviceVars>>

Systemd == (NbdkitServe \/ NbdkitExit \/ NbdkitCrash) /\ UNCHANGED <<workerVars, serviceVars>>

\* The process has ended and nothing is pending below it.
Ended ==
    /\ state \in {"stopped", "crashed"} \/ (op[Main] = "shutdown" /\ pc[Main] = "done")
    /\ UNCHANGED vars

Next ==
    \/ \E r \in Requests : Arrival(r)
    \/ \E p \in Procs : Run(p)
    \/ ShutdownStep
    \/ \E w \in Procs : Prefetch(w)
    \/ Systemd
    \/ Restart
    \/ Ended

Spec == Init /\ [][Next]_vars

=============================================================================
