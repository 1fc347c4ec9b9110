-------------------------- MODULE ServiceProperties --------------------------
(***************************************************************************)
(* What RemotePfsService promises about its cutovers, its lock and its     *)
(* prefetch workers, and what its documents say it promises.               *)
(***************************************************************************)
EXTENDS RemotePfsService

-----------------------------------------------------------------------------
(* Safety                                                                  *)

\* Two hardware cutovers never overlap: whatever the requests and wherever
\* they fail, at most one thread is between the first and the last line of
\* activate_generation's try block (or in startup's _activate_hardware).
OneCutover == \A p, q \in Procs : InCutover(p) /\ InCutover(q) => p = q

\* No path out of a handler leaks _sync_reload_lock: whoever owns it is still
\* inside the region it guards, the cutover or the prefetch callback.
NoLockLeak ==
    \A p \in Procs :
        /\ lock = ByService(p) => InCutover(p)
        /\ lock = ByWorker(p)  => wpc[p] = "record"

\* The service does not pull the device from under the console: no step leaves
\* a bound gadget over a disconnected /dev/nbd0, neither by disconnecting it
\* nor by binding.  (shutdown ignores a failed unbind and goes on, so its steps
\* are exempt, and what it leaves behind is what the next process finds; a
\* dying nbdkit leaves the device Dead, not disconnected.)
BoundOverNothing == gadget = "bound" /\ nbd0 = NotConnected

BoundOverDevice ==
    [][BoundOverNothing' => BoundOverNothing \/ op[Main] = "shutdown"]_vars

\* The passes recorded by the workers of this process, each a worker's n-th.
Recorded == UNION {{w} \X (1..done[w]) : w \in Procs}

\* prefetch_passes counts every completed pass of every worker, old or new:
\* no update is lost between two callbacks.
PassesCounted == passes = Cardinality(Recorded)

\* A worker that runs and has not been told to stop is the one the service
\* can still reach through prefetch_worker, so the next cutover or shutdown
\* stops it.  An eject, which takes no lock, breaks this: see
\* ShutdownStopsWorkers.
NoOrphanWorker ==
    (\A r \in Requests : op[r] # "eject") =>
        \A w \in Procs :
            wpc[w] \in {"preload", "on_pass", "record", "wait"} /\ ~stopEvent[w]
                => prefetchWorker = w

\* The active generation is replaced only by the thread that owns the lock,
\* and only once its own gadget bind and worker start are behind it; startup,
\* before any request, is the one step that needs no lock.  (The end of the
\* process loses the generation.)
ActiveSwap ==
    [][active' # active /\ restarts' = restarts =>
         \E p \in Procs : /\ pc[p] = "commit" /\ pc'[p] = "done"
                          /\ active' = [id |-> gid[p], cfg |-> cfg[p]]
                          /\ lock = ByService(p) \/ p = Main]_vars

\* "running" means that the console has its disk, unless somebody has begun to
\* take it away and has not attached one since: the gadget is then bound over a
\* connected device (or one whose server has died).  A request that fails before
\* its cutover reaches the hardware, or after its bind, excuses nothing, nor does
\* a process killed in the middle of a cutover; an unbind that is followed by a
\* failure, or an eject, does leave "running" stale.
RunningServes ==
    state = "running" /\ op[Main] = "startup" /\ ~takenAway
        => gadget = "bound" /\ nbd0 # NotConnected

-----------------------------------------------------------------------------
(* The abstract specification                                              *)

\* A handler has a generation in its hands from the lookup to its return.
ChoiceOf(p) ==
    IF pc[p] = "acquire" \/ InCutover(p) THEN [id |-> gid[p], cfg |-> cfg[p]] ELSE NoGeneration

ASSUME DetachedAssumption == "detached" \notin Configs

\* What the console sees through the gadget.
DiskSeen ==
    IF gadget # "bound" THEN "detached" ELSE IF nbd0 \in Configs THEN nbd0 ELSE Dead

Gen == INSTANCE Generations WITH
    Clients <- Procs, Boot <- Main, Numbers <- Gens, Images <- Configs,
    NoImage <- NoCfg, NoChoice <- NoGeneration, Detached <- "detached", Lost <- Dead,
    published <- compiled, active <- active,
    choice <- [p \in Procs |-> ChoiceOf(p)],
    installers <- {p \in Procs : InCutover(p)},
    disk <- DiskSeen

\* The control plane, with its threads, its try-lock, its workers and its
\* failures, does what Generations promises: whatever fails or is killed, the
\* active generation is a choice that one installer has installed alone, and
\* the console's image is never exchanged under it, only detached or lost.
ImplementsGenerations == Gen!Spec

-----------------------------------------------------------------------------
(* Liveness                                                                *)

\* Handlers run until they return, and worker threads run.  Nothing is asked
\* of nbdkit, of systemd, of the arrival of requests or of shutdown.  Strong
\* fairness of a worker matters only at the callback's lock, the one place
\* where others can disable its step again and again: the lock is not fair,
\* but finitely many activations compete for it.
Fairness ==
    /\ \A r \in Requests : WF_vars(Run(r))
    /\ \A w \in Procs : SF_vars(Prefetch(w))

FairSpec == Spec /\ Fairness

\* Every request is answered, also the activation that joins, with the lock in
\* hand, a worker that is itself waiting for that lock in _record_prefetch.
Answered == \A r \in Requests : pc[r] # "idle" ~> pc[r] = "done"

\* A worker thread that has been told to stop does exit, even when the join
\* that should have awaited it timed out long before.
StopObeyed ==
    \A w \in Procs :
        (stopEvent[w] /\ wpc[w] \notin {"none", "created"}) ~> wpc[w] = "exited"

-----------------------------------------------------------------------------
(* Statements of the documents that the code does not keep                 *)

\* "Restart nbdkit with new plugin state / Reconnect NBD client": when a
\* request's activation succeeds, /dev/nbd0 is connected to a server of the
\* generation it makes active, or that server has died since.
CutoverServesNew ==
    [][\A r \in Requests :
         pc[r] = "commit" /\ active' # active => nbd0 \in {active'.cfg, Dead}]_vars

\* "A generation is an immutable snapshot": a published generation number
\* keeps naming the configuration it was given to.
GenerationImmutable ==
    [][\A g \in Gens : compiled[g] # NoCfg /\ restarts' = restarts => compiled'[g] = compiled[g]]_vars

\* "Stop active prefetch worker": after shutdown no worker is left unasked.
ShutdownStopsWorkers ==
    state = "stopped" =>
        \A w \in Procs : wpc[w] \notin {"preload", "on_pass", "record", "wait"} \/ stopEvent[w]

=============================================================================
