# RemotePFS in TLA+

RemotePFS turns game images on a NAS into a read-only exFAT disk on a USB port.
A service compiles a YAML configuration into a virtual disk layout, hands that
layout to nbdkit, connects the kernel's NBD client to nbdkit and exports
`/dev/nbd0` to the console as a USB mass-storage gadget. This directory models
the parts whose errors tests hardly reach: the **control plane**, where HTTP
requests, worker threads, systemd and the kernel interleave; the **managers**
under it, whose calls are sequences of mounts and ConfigFS writes that others may
interrupt; the **plugin**, whose connections share file descriptors; and the
**volume**, where sizes, cluster numbers and sector ranges have to fit together
for every tree of files. Paths below are relative to the repository; Python files are in
`src/remotepfs/`.

## 1. Inventory

| Component | State it keeps | Operations | What is hard |
|---|---|---|---|
| `RemotePfsService` (service.py) | `state`, `active`, `compiled`, `next_generation`, `prefetch_worker`, counters, `_sync_reload_lock` | startup, shutdown, compile, activate, replace, reload, eject | threadpool threads share all of it, one lock guards part of it, ten calls of a cutover can fail |
| HTTP API (api.py) | none | endpoints; exceptions to statuses | which exception becomes which status on which endpoint |
| `PrefetchWorker` (preloader.py) | stop event, thread | start, stop, `_run`, `preload` | callback takes the lock that the thread joining it holds; join gives up after 5 s |
| `NbdkitManager` and its unit | systemd unit, socket, `/dev/nbd0` | start, stop, connect, disconnect | `--no-block`; the socket path as sign of readiness; `Restart=on-failure` |
| `GadgetManager` | ConfigFS tree, UDC binding | bind, unbind, eject, status | fails or is killed half way; retries; called without a lock by eject |
| mapper state (service.py:94-102) | `mapper.state` | write and `os.replace`; read by the plugin | a crash between two writes, an nbdkit restart at any time |
| `ExfatBuilder` | tree, cluster runs, stored sectors | `_build_tree`, `_geometry`, `build` | boundaries; three formulas for the same size; no fixed point |
| `SectorMapper` | layout, open descriptors | map, read, extents, get_hot_ranges, close | metadata generated sector by sector; unaligned requests; sources that change |
| nbdkit plugin (remotepfs_nbd.py) | `image_size`, `sector_mapper` with its cache of descriptors | config, pread, extents, close | requests are serialized per connection, descriptors are shared by all; any connection that ends closes them |
| `MountManager` | kernel mounts | mount, unmount, is_mounted | check, then mount, from two threads; files are opened long after the scan |
| Configuration (config.py) | none | parse, validate, load | pure validation |

How they interact. A request handler runs in a thread of Starlette's threadpool
and calls the service, which calls the managers synchronously. The managers run
`systemctl`, `nbd-client` and file operations, whose effects (a unit that stops, a
server that dies) arrive later and on their own. A worker thread calls back into
the service. nbdkit reads `mapper.state` when it starts, whoever starts it. Startup
runs in the event loop before the first request, shutdown after the last.

What makes each part correct:

* *control plane*: one cutover at a time; no way out of a handler keeps the lock;
  the active generation changes only when its cutover is complete; every request
  is answered although threads wait for each other; workers that are replaced do
  stop; no completed pass is lost in the counters;
* *hardware*: no step leaves a bound gadget over nothing; a service that reports "running"
  has a bound gadget, unless it has begun to take the disk away and not attached one since;
  a console can never write; what a failed, interrupted or killed bind leaves does not
  obstruct the next;
* *sources*: mounts do not pile up; the share that was scanned stays the one in view; a read
  goes through a descriptor of its own file, and none is lost;
* *geometry*: the FAT ends before the heap and has an entry for each cluster of an image of
  whole GiB;
* *layout*: every cluster has one owner and lies in the image;
* *what is served*: FAT chains and bitmap agree with the layout; reads return the tree byte
  for byte, also while a source changes; a hole is reported only where there are zeros;
* *prefetch*: the ranges are bounded, disjoint, and exactly the metadata that is selected.

PROJECT.json lists the hazards with the line at which each of them bites and the
properties that would notice.

## 2. Modules

```
HardwareStack   PrefetchWorkers        Generations        MountManager   NbdPlugin
   |    \        /                         .                      \        /
   |  RemotePfsService                     .                     SourceAccess
   .         |                             .                      /        \
GadgetManager  ServiceProperties . . . . . .               MCSources   SourceProofs
   |            |        |      \
GadgetProofs  MCService  |  GenerationsProofs
                     ServiceProofs
                         |
                   UndisturbedProofs

   ExfatGeometry            ExfatBuilder
     |       \                |
MCGeometry  GeometryProofs  SectorMapper
                              |
                       VolumeProperties
                      /       |        \
              MCVolume  BuilderProofs  HotRanges
                                  \     /
                                VolumeProofs
```

Full lines are EXTENDS, dots INSTANCE: ServiceProperties instantiates Generations as the
abstract specification the control plane implements, GadgetManager instantiates
HardwareStack to say that its many steps amount to that module's single ones.

**HardwareStack** has the four things a cutover moves: `mapperState`, the systemd
`unit` with its pending start job, `/dev/nbd0` (`nbd0`: a configuration, not
connected, or dead) and the `gadget` tree (absent, built, bound). The image served
is identified with the configuration it was compiled from. `NbdStop` leaves a
serving unit *stopping*: the process and its socket go away in `NbdkitExit`, a step
of its own, because of `--no-block`. `NbdConnect` attaches to whichever nbdkit
answers on the socket. systemd, the kernel client and ConfigFS are modelled from the
commands the managers issue; each failing call has every outcome the code can leave.
Initially the machine has booted; the enabled unit may be starting by itself from an old state
file. `ServiceDies` is what the end of the service process leaves: everything, except
that systemd may be restarting nbdkit along with the service (`PartOf`), and that the
nbd-client which the service has forked is in its control group and killed with it (the unit
sets no KillMode), so that a connected device is `Dead`; `GadgetTorn` is the tree when the
process was inside bind or unbind.

**PrefetchWorkers** has one worker per thread that can create one (an activation
creates at most one). `_record_prefetch` is two steps inside the lock, so that the
lock and not the atomicity of the model protects the counters. `stop()` is
`SetStop` followed by a join that returns when the thread has exited or five seconds
have passed; time is abstracted to "may pass now".

**RemotePfsService** is the service under its handlers. Each thread (`Main`, and one
for each request) has a label naming the next line it executes, and one action for
each call or assignment that another thread can observe; an action includes all that
line does. Errors are classes (`config`, `runtime`, `os`, `other`) because that is
what startup tells apart. `Raise` is the way out of every handler: the `finally`
clause and, for startup, the `except` clause. The status an exception is answered with changes
nothing in the service and is left out. A reload is a
replace of the configuration on disk; startup begins with `load`, which may fail. `Restart` is
the end of the process at any line, shutdown's included, or after it, and the `startup` of the
next one: threads, workers, generations and the lock are
gone, requests under way are lost, the hardware is as `ServiceDies` leaves it. The history
variable `takenAway` says that this process has come to an unbind, of a cutover or an eject, or
to an eject's emptying of the LUN, and has not completed a bind since. Missing
executables (`systemctl`, `nbd-client`) are not modelled.

**ServiceProperties** states the properties, the fairness, and the statements of the
documents the code does not keep. **MCService** instantiates.

**Generations** is what the control plane promises, without threads, labels, lock, systemd
or workers: clients publish images under numbers and choose one of the published; one
client at a time installs its choice; the active generation is replaced, whole, by an
installed choice, or stays; the image the console sees is never exchanged under it, only
attached, detached or lost. In the mapping a thread's choice is the `generation` object it
holds between lookup and return, the installer is the thread in a cutover, and the disk is
what the bound gadget shows of `/dev/nbd0`.

**GadgetManager** is bind, unbind, `_remove_tree` and eject one ConfigFS operation at a
time. One thread holds the lock (or is startup or shutdown), others eject without it.
Directories are `root`, `config` and `function`, each with its default groups; attributes
are `ro`, `file` and UDC (`bound`). Writing an empty string is modelled both ways: on
ConfigFS `write_text("")` issues no write at all, on the plain files of the tests it
truncates (`truncates`, chosen in Init). Any operation may fail (`Raises`), and the process
may die (`Die`). `OneStepOperations` relates what a call has made of the tree by the time
it returns or raises to the action of HardwareStack for that outcome.

**MountManager** is `_compile`'s loop over the sources with `is_mounted` and `mount` as two
steps, several compilations at a time; `is_mounted` may also be unable to read /proc/mounts
and then denies that anything is mounted. The mounts of a mount point are a stack; several
sources may name the same mount point (config.py checks names only). The history variable
`past` keeps the worst that has happened to a mount point: two compilations about to mount
it at a time, an administrator's unmount, a mount over what was not seen. **NbdPlugin** has
the callbacks of several connections on one SectorMapper: `_fds` is a sequence of pairs in
insertion order, `table` the process' descriptors, numbers given lowest first. nbdkit
serializes the requests of a connection (THREAD_MODEL_SERIALIZE_REQUESTS), not those of
different ones; the unit's cache filter holds a lock of its own around a read (`MayRead`,
external); nothing makes `close` wait. Python's threads take turns where the interpreter
gives up its lock, in `os.open`, `os.pread` and `os.close`. The history variable
`overlapped` records that a close has run beside another callback. **SourceAccess** joins
the two: the image is scanned from what is visible at a mount point at compile time, a file
is opened from what is visible there when the console first reads it. **MCSources**
instantiates.

**ExfatGeometry** is the iteration of `_geometry`, one step per round, with the real
constants. **ExfatBuilder** is `build`: the scan grows a tree of nodes numbered in the order
of `_walk` (a name is its length), the two allocation loops give each node a run of
clusters, the fit check accepts or refuses, and the structures are stored sector by sector.
Sector and cluster sizes and the result of `_geometry` are parameters; the assumption on the
latter, as many FAT entries as clusters without counting the two reserved ones, is what
`_geometry` returns for every accepted size, `image_size_bytes` included (theorem
`BuilderIsGiven`); so the last two clusters of an image may lack an entry. Both the size
that `_directory_cluster_count` reserves (`counted`) and the one that `_directory_bytes`
writes (`encoded`) are kept. **SectorMapper** adds `map`, the generated FAT and bitmap
sectors, and the loops of `read` and `extents`; sources change their size between requests
and between two sectors of a read, and reading them may fail. The history variable `had`
keeps the sizes they have had since the read began. A byte is identified by what it belongs
to and its index there. **VolumeProperties** states what the console relies on.
**HotRanges** is `get_hot_ranges`: the ranges the policy selects (every stored sector,
directories at any depth, and of the root directory, which is not among `layout.entries`,
one cluster's FAT entry), then its merge and its split loop, a range or a piece a step.

Operators named `X_Y` with the comment "mutant" are faulty variants of `X`; they are
used only to confirm that the properties notice such a fault.

## 3. Runs

| Run | Question | Result |
|---|---|---|
| service_safety | do two arbitrary requests, startup, a kill and restart, shutdown, workers and systemd keep `OneCutover`, `NoLockLeak`, `BoundOverDevice`, `PassesCounted`, `RunningServes` (unless the disk was being taken away), `ActiveSwap`, and, without eject, `NoOrphanWorker`? Do they implement Generations (`ImplementsGenerations`)? | yes, 1.1 million states |
| service_liveness | is every request answered (`Answered`), and does a worker told to stop exit (`StopObeyed`)? | yes; the first because join has a timeout |
| gadget | one cutover thread and two ejects, write by write, failing and killed anywhere: `MediumReadOnly`, `Unobstructed`, and is each call one step of HardwareStack (`OneStepOperations`)? | yes |
| sources | two compilations and two connections: `StackBounded`, does what was scanned or opened stay the share in view (`SharesKept`), and, unless a close overlaps, `ReadsOwnFile` and `CacheExact` | yes, 1.6 million states |
| geometry | `FatBeforeHeap`, `WholeGiBFatComplete` for 1..1023 GiB and the critical sizes | yes |
| layout | `RunsDisjoint`, `RunsInImage`, `ChainsComplete`, `BitmapMatchesFat` for all trees of up to 4 entries on a FAT that lacks its last entry; `HotBounded`, `HotExact` for each of them under every policy | yes |
| reads | `ReadsTree`, `ExtentsExact` at all alignments, with sources that change before and during a read | yes |

Runs in which the code contradicts a document or a comment (details and quotations
in PROJECT.json, `findings`):

| Run | Statement | What happens |
|---|---|---|
| doc_cutover | activation restarts nbdkit and reconnects to the new one | stop and start do not block: the old socket still exists, nbd-client connects to the old server, the activation succeeds |
| doc_generation | a generation is an immutable snapshot | two compilations take the same number |
| doc_orphan | the active worker is stopped | an eject during an activation forgets the new worker without stopping it |
| doc_close | each file is opened once and closed only on service stop or reload | nbdsh's connection ends while the kernel's opens a file: the loop of `close` stops on the changed dictionary, closed numbers stay in the cache, and a read returns the bytes of another file |
| doc_directory | a mapping is backed by its source file | a directory larger than its reservation hides the sectors of a file |

Observations that can be read off the code and have no run of their own:

* `GET /api/health` answers "healthy" in every state, where specs/08-http-api.md:201 says it
  "Returns 503 if service is starting up or in degraded state".
* specs/04-caching-layer.md:259 and :305-306 (also :235) have only top-level directories
  preloaded: "Nested directories (game subfolders) are warmed lazily on first PS5 access". The
  code makes no difference: `build` stores the directories of every depth and `get_hot_ranges`
  takes all stored sectors and the FAT entries of all directories (sector_mapper.py:186-199), so
  that every pass reads them. `HotExact` is about the code: its `Wanted` asks for directories at
  every depth, and the run has trees with nested ones.
* Statuses (read off the code, not modelled): PUT and reload catch only ConfigError, so a
  second reload is answered with 500, where specs/08-http-api.md:589-590 says "second
  attempt returns 423". Conversely activate answers every RuntimeError with 423, a failure
  of nbdkit or of the gadget included, and also finds the lock taken when a worker is in its
  callback.
* When Thread.start raises (no thread can be created), `prefetch_worker` keeps a worker that
  never started, and its `join` raises: every later activation, eject and shutdown fails there
  until the process is restarted.
* The thread in `stop()` may hold the lock the worker waits for, so that `stop()` returns by
  its timeout and not at the "worker exit" of preloader.py:95; the counterexample to
  `Answered` without that timeout is this cycle.
* The FAT is sized with `cluster_count * 4` bytes, without its two reserved entries
  (exfat_builder.py:487). For some `image_size_bytes` (8392448 sectors: 32767 clusters,
  32768 entries) the last cluster has no entry; `WholeGiBFatComplete` says that
  `image_size_gib` never gives such a size. `ChainsComplete` and `BitmapMatchesFat` say what
  such an image still has, and `get_hot_ranges` asks for the sector after the FAT if a
  directory owns the last cluster.
* A cold start does not stop nbdkit (service.py:91-93): when the unit serves already,
  `systemctl start` does nothing and an old image stays.
* After an unbind, a cutover that fails (or an eject) leaves `state` "running" with no disk
  until the next bind: the premise of `RunningServes`.
* On ConfigFS `write_text("")` writes nothing, so the first two steps of unbind have no
  effect there, in spite of "clear backing media before unlinking ConfigFS"
  (gadget_manager.py:157): it is the unlink that unbinds.
* An eject between bind's write of `file` and that of UDC leaves, until the eject's own
  unbind comes, a gadget that is bound without a medium; an unbind concurrent with a bind
  may make either raise.
* `is_mounted` compares a mount point with the text of /proc/mounts: one with a space
  (escaped there) or through a symbolic link is never recognised and is mounted again by
  every reload (`Respelled`). It does not look at what is mounted, so a changed endpoint
  keeps the old share; specs/07-config-system.md:312-322 and specs/08-http-api.md:335 have
  old sources unmounted, and nothing calls `unmount`. And it answers "not mounted" when
  /proc/mounts cannot be read (mount_manager.py:106-107): the source is mounted once more, and
  what was scanned may be hidden (`misread`).
* `get_hot_ranges` takes the FAT entry of the root's first cluster only, because the root is
  not among `layout.entries` (sector_mapper.py:184-190, exfat_builder.py:354): the chain of
  a root with many clusters is not prefetched to its end, although
  tests/test_virtual_fs.py:265 speaks of the FAT sectors of directory chains. `HotExact` says
  so (`DirectoryClusters`).
* Several sources may name one mount point, mount points may be nested, and names that
  differ only in case are accepted although exFAT compares without it.

### Bounds

*Control plane.* Two requests (three threads with `Main`), two configurations, at most two
generation numbers (`MaxGen`; concurrent compilations may take the same one), one pass after
which no further preload succeeds (`MaxPasses`; a preload that has succeeded before is still
recorded, so that two callbacks can compete), and one restart (`MaxRestarts`; the state a
second kill leaves is one a first kill leaves too), after which one request may still come
(`MaxLater`; what is new after a restart is a startup, its worker and the leftovers of the
killed process, against a request). A request that was under way or answered when the
process died does not come again. Two requests are enough for each race in the hazard list:
activation against activation, eject, compilation or shutdown, with the worker of startup
and the worker of an earlier activation both alive. Requests and configurations are
interchangeable, so safety runs use symmetry; the liveness run does not, has no restart, and
has one configuration and activations only (they are the requests that hold the lock while
they wait for a worker). The proofs remove these bounds.

*Gadget.* One thread for the cutover side, because cutovers exclude one another
(`OneCutover`), two ejects, two attempts at the UDC (`Tries`; the code has ten, and what
matters is that the last fails). The number of calls is not bounded.

*Sources.* One mount point (mount points do not affect each other) for which sources name
two shares; one source to a configuration (`MaxSources`; a second one only repeats the loop
on the same mount point, and the proofs hold for any number); two compilations at a time,
any number in sequence; at most three mounts on a mount point (`MaxMounts`, one more than
`StackBounded` allows, so that a violation would show), at most two on one that was mounted
over unseen (`MaxMisread`, enough to hide a share; `StackBounded` does not speak of those);
two connections, two files, two descriptor numbers, requests of one sector (`MaxSectors`;
two connections are what opens two files side by side). `Respelled` is empty in the runs.
doc_close needs one compilation only. The proofs hold for any of these, `Respelled` mount
points included.

*Geometry.* Real constants; sizes up to 1023 GiB because TLC's integers are 32 bits wide,
around the sizes at which the FAT or the heap moves, among them 488570880 sectors, for
which the iteration finds no fixed point. The proofs cover all sizes.

*Volume.* Scaled so that boundaries are reached by trees of 2 to 4 entries: sectors of 32 or
64 bytes (so that a directory entry is a whole or half sector), clusters of 2 to 8 sectors,
names of one or two name entries, files that are empty, end inside a sector or span several
clusters (in `layout` empty or longer than a cluster), an image small enough that some trees
are refused. `fat_length` gives two or three FAT sectors, so that chains and directories
cross them. In `layout` the tree varies, no request is made, and the FAT has 24 entries for
the clusters 2 to 24, so that some trees own a cluster that has none. In `reads` the tree is
small; seven offsets with four lengths start and end inside, at and across sectors and
regions (boot, FAT, bitmap, directory, file, hole), and a source changes once, to nothing or
to more, before or during a read (`MaxResizes`; the proof has no such bound). ReadsTree
excludes trees with an overflowing directory, which doc_directory is about.

CHECK_DEADLOCK is off only where the modelled function returns (geometry, layout and hot
ranges, reads). In the service runs deadlock is checked: the only final states are a stopped
or a crashed process.

### Fairness

`Fairness` asks that the thread of a request that can run runs (threads of the pool are
scheduled by the interpreter and the kernel), and that worker threads run. Worker steps are
strongly fair, which matters only for the lock in the callback: `threading.Lock` is not
fair, but it is competed for by finitely many activations. Nothing is asked of nbdkit or
systemd: no unit has to start or stop, no request has to arrive, and no join has to succeed.

## 4. Proofs

`ServiceProofs` (for every set of requests, configurations and bound): `TypeCorrect`,
`CutoversExclusive`, `LockNeverLeaks`, `ActiveSwapped`, `DeviceStaysUnderGadget`,
`EveryPassCounted`. `OneCutover` and `NoLockLeak` are not inductive: they do not say who may
be where. The inductive invariant `IInv` adds that a request is in a cutover *exactly when*
it owns the lock, and a worker in its callback likewise (`LockInv`); that startup, which
takes no lock, has the service to itself (`StartupAlone`); that a thread's line fits the
operation it serves (`CallInv`); and, for types, that a server on the socket has loaded a
configuration. `BoundOverDevice` needs what the thread in the cutover has established
before: the gadget is not bound at `nbd.stop`, the device is connected at `bind`
(`DeviceInv`), and it needs exclusion, since another thread could undo either. It is a
property of steps, because a shutdown whose unbind has failed disconnects the device under
the gadget, and the next process finds it so. `PassesCounted` follows because what a
callback has read of the counter is still current when it writes (`SeenInv`), because the
lock keeps two callbacks apart: each pass recorded, which is one more element of `Recorded`,
adds one to the counter (`CountInv`).

`UndisturbedProofs`: `WorkersStayReachable`, that without eject no worker gets out of the
service's reach. `NoOrphanWorker` speaks of running workers only; the invariant
(`FieldParts`) follows one through _stop_prefetch_worker and _start_prefetch_worker: the
field is not cleared before its worker has been told to stop, not overwritten before it is
clear, and start() finds the worker that was just created. Each part needs that one thread
at a time is in these methods, which comes from `IInv` as long as only cutovers and
shutdown call them; an eject calls them without the lock, and doc_orphan shows what follows.
`RunningHasDisk`, that "running" means a bound gadget on a connected device unless the process
is, or was last, taking the disk away. A cutover is several calls and may raise between any
two, so the invariant (`ServeInv`) says that a service that is running, or a thread past its
bind, has the gadget bound unless `takenAway`; and (`AwayInv`) that a request between its unbind
and its bind has `takenAway` set, so that what it leaves when it raises is excused. That the
device is connected at the bind comes from `DeviceInv`; it is disconnected only by who has
unbound the gadget first, or by shutdown.

`GenerationsProofs`: `Refinement`, that the control plane implements Generations. Initial
states map to the initial state, and each action of RemotePfsService, ServiceDies and
systemd's included, maps to a step of Generations or to a stutter; one lemma per action. On
top of `IInv` it needs `HandInv`: a thread that compiles has a configuration, one that has
looked up a generation has a number, and until startup is over nothing is active. The
exclusion of cutovers is what makes `Begin` possible and what keeps `Attach` and `Commit`
to the installer.

`GadgetProofs`: `TypeCorrect` and `MediumNeverWritable`, for any number of ejects. The
medium stays read-only because (`LunInv`) a removed function takes its attributes with it,
and whoever is about to write `file` and still finds the function finds it with `ro` set:
an eject can take the function away, but it does not make one.
`NothingInTheWay` and `CallsAreOneStep`: the first needs what ConfigFS
guarantees of any tree, torn or not (`TreeInv`: a child has its parent, a link both its
ends, a bound gadget its link), and the prefix of the tree that each line of bind has built
(`BuiltInv`), which holds because unbind ends with nothing, whatever it began with, and
because an eject under way has overlapped the call (`AloneInv`). The second is the
refinement of HardwareStack: the tree is bound only if the last call that returned bound it
(also in `TreeInv`), so a call that raises, or is killed, leaves the gadget as it was or
not bound, and only bind returns from the write of UDC.

`SourceProofs` (any sources, shares, compilations, connections and files): `TypeCorrect`,
`StacksStayLow`, `SharesStayMounted`, `ReadsThroughOwnDescriptor`, `NoDescriptorLost`. For
the first of these bounds the invariant counts compilations about to run `mount` as if they
had (`StackInv`): while a stack is not empty none joins them. Shares stay in view because
a mount point that is mounted gets no second mount as long as nobody was about to mount it
beside another, and one where a share was found is mounted (`SettledInv`, `LoopInv`: a
compilation that scans has a mount for each source). For the
descriptors, as long as no close has overlapped another callback, one callback runs at a
time (`OneCallback`); what its loop has not come to is open, what it has passed is closed,
and a number just opened is in nobody's cache (`CacheParts`). The premise is the one that
doc_close shows to be necessary and that nothing in the code establishes.

`GeometryProofs`: `TypeCorrect`, `FatNeverOverlapsHeap` and `WholeGiBComplete`. The
iteration is an antitone function of the FAT's length started from the shortest one, so
lengths alternate around the fixed point; after an even number of rounds the FAT is no
longer than the one the heap was computed from. The loop of the code has eight rounds: with
seven the theorem is false (and TLC finds the size). For whole GiB the cluster count is
never within two of a full FAT, which makes up for the two entries the code forgets.
`BuilderIsGiven`: what is returned for any accepted size is what the modules of the layout
assume.

`BuilderProofs`: `ClustersOwnedOnce` and `LayoutInImage`, for every tree, sector size,
cluster size and image. The invariant adds the position of the loop: a placed node lies
before `next_cluster`, the node under the cursor is not placed yet, and the second loop
places exactly the nodes the first passed over. The module goes on to follow the stored
sectors through build (`BuildInv`): they lie in the boot regions or from the upcase table
on, hence not in the FAT or the bitmap (`SectorsInv`); a directory that has been written
covers all its clusters (`StoredInv`), because no name is counted for more entries than it
is encoded in (`ShapeInv`); and where no directory overflows, each stored sector is the one
its directory, the upcase table or the boot region has there (`ContentsInv`).

`VolumeProofs`, for every tree, size and request, on top of `BuildInv`:

* `FatDescribesTree` (`ChainsComplete`) and `BitmapAgreesWithFat` (`BitmapMatchesFat`):
  since runs are disjoint, one range alone holds a cluster of a node; since no sector is
  stored in the two regions, what the device shows there is generated. The FAT has at least
  `cluster_count` entries (`BuilderIsGiven`), so a cluster without one is among the last two
  (`FatLacks`); the others are shown (`FatHolds`).
* `ReadsReturnTree` (`ReadsTree`): each byte the loop has delivered is the byte of its place
  in the image with one of the sizes a source had during the read (`ReadInv`), a sector of a
  node's clusters maps to that node (`ServedFromTree`), and one of the FAT, the bitmap or a
  hole to what is generated there (`GeneratedBytes`). The premise, that no directory
  overflows, is the one doc_directory shows to be necessary; `OnlyOverflowHidesFiles` says
  that nothing else breaks `MappingsBacked`.
* `ExtentsDescribeImage` (`ExtentsExact`): the closed extents tile the image from the first
  sector to the open one, each is all holes or all data, and the open one differs from the
  last closed one (`ExtentsInv`); what is a hole for `map` belongs to no node and to no
  metadata (`Holes`), whether directories overflow or not.
* `PreloadBounded` (`HotBounded`) and `PreloadExact` (`HotExact`): at any time the ranges not
  yet seen, those merged and the pieces together cover the bytes of the sectors wanted
  and no others; what is merged is ascending with gaps between, not behind what is still to
  come, and behind the pieces (`HotInv`, `MergeInv`). That the ranges the policy selects
  cover those sectors to begin with is `CoversSelected`: the maximal runs of `_ranges` cover
  the stored sectors, and `FatRange` the sectors with the entries of a run.
* `ExportTypes` and `PreloadTypes`: `TypeOK`, whatever is called.

Assumptions: distinct model values (`FreeAssumption`, `ConfigsAssumption`,
`LinksAssumption`, `NoWorkerAssumption`, `DetachedAssumption`, `EmptyAssumption`,
`NoFileAssumption`, `CutoverAssumption`), `Main` is not a request, finitely many
compilations at a time, positive sizes and descriptor numbers, requests and file sizes that
are not negative (`RequestsAssumption`: nbdkit passes unsigned numbers), a positive
MAX_METADATA_PREFETCH_BYTES, the limits config.py puts on an image, and, for the builder,
what the geometry provides (`BuilderIsGiven` proves it of the geometry). TLC evaluates them
in every run.

Only model-checked: liveness (`Answered`, `StopObeyed`), which is out of the prover's reach;
every safety invariant and action property of the passing runs is a theorem. The invariants
`BuildInv` and `HotInv` were model-checked on the instance of `layout` before they were proved.

## 5. Not modelled

* Parsing and validation of configurations (config.py): pure functions of one document that
  keep nothing and run in one thread; the control plane sees a document accepted or refused.
  Their example-based tests are the better tool.
* Statuses and bodies of responses, read-only endpoints, `status` of the managers, the command
  line.
* Contents of directory entries, checksums, timestamps, upcase values: encodings without
  control, compared with reference data by the tests.
* UDC ranking and the gadget's serial number (which UDC is chosen changes nothing
  else), mount options, CIFS credentials other than that they may be refused.
* `MountManager.unmount`, `_fat_bytes` and `scan_directory`: nothing in the service calls them.
* What is external is modelled from how the code uses it: systemd, nbdkit's thread model and
  cache filter, the kernel's NBD client, ConfigFS, the mount table. `os.close` is taken
  not to fail on an open read-only descriptor; no client asks nbdkit for extents, so a
  connection's requests are reads.

## 6. Plan

Done: the inventory; the control plane with hardware, workers, crash and restart, its
safety, liveness, abstract specification and proofs; the gadget write by write; mounts and
descriptors; geometry, layout, mapper and hot ranges, each with the proofs of its safety.

Next, in this order:

1. Proofs: that a directory overflows only if it is encoded in more entries than its clusters
   hold, and from how many children on; `GenerationImmutable` and `CutoverServesNew` under the
   premises that make them true.
2. The plugin's connections and the systemd unit in one model: which end of connection
   can meet which read when a cutover stops nbdkit.
3. Name comparison: entries whose names are equal for exFAT.
