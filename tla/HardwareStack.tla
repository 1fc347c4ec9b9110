---------------------------- MODULE HardwareStack ----------------------------
(***************************************************************************)
(* What a hardware cutover moves: the pickled mapper state on disk, the    *)
(* systemd unit that runs nbdkit, the kernel block device /dev/nbd0 and    *)
(* the USB mass-storage gadget.                                            *)
(*                                                                         *)
(* Sources: nbdkit_manager.py, gadget_manager.py, the unit file            *)
(* remotepfs-nbdkit.service, remotepfs_nbd.py (config).  systemd, the      *)
(* kernel NBD client and ConfigFS are external; they are modelled from the *)
(* commands the managers issue.                                            *)
(*                                                                         *)
(* A configuration stands for everything compiled from it: the exFAT       *)
(* layout, the SectorMapper, the image nbdkit serves.                      *)
(***************************************************************************)
CONSTANTS
    Configs,        \* configurations a client can submit
    NoCfg           \* no configuration: nothing on disk, nothing served

ASSUME ConfigsAssumption == NoCfg \notin Configs

VARIABLES
    mapperState,    \* content of /var/lib/remotepfs/mapper.state
    unit,           \* remotepfs-nbdkit.service: its process and socket
    startQueued,    \* a start job (or an auto-restart) of the unit is pending
    server,         \* the configuration the running nbdkit loaded
    nbd0,           \* what /dev/nbd0 is connected to
    gadget          \* the ConfigFS gadget tree

hwVars == <<mapperState, unit, startQueued, server, nbd0, gadget>>

NotConnected == "not_connected"     \* nbd-client -d: no backing socket
Dead         == "dead"              \* the server went away under the device
Links        == {NotConnected, Dead}

ASSUME LinksAssumption == Links \cap Configs = {}

HardwareTypeOK ==
    /\ mapperState \in Configs \cup {NoCfg}
    /\ unit \in {"inactive", "serving", "stopping"}
    /\ startQueued \in BOOLEAN
    /\ server \in Configs \cup {NoCfg}
    /\ nbd0 \in Configs \cup Links
    /\ gadget \in {"absent", "built", "bound"}

-----------------------------------------------------------------------------
(* The hardware a service process finds, and what its end does to it.      *)

\* Boot: the unit is enabled (WantedBy=multi-user.target), so nbdkit may be
\* starting by itself from the state file of an earlier run.
HardwareInit ==
    /\ mapperState \in Configs \cup {NoCfg}
    /\ unit = "inactive" /\ startQueued \in BOOLEAN
    /\ server = NoCfg /\ nbd0 = NotConnected /\ gadget = "absent"

\* A connected device whose server, or whose nbd-client, is gone.
LostLink == IF nbd0 \in Configs THEN Dead ELSE nbd0

\* The service process dies: nothing is torn down.  When systemd restarts it, a
\* serving nbdkit is restarted along with it (PartOf=) or left as it is.  The
\* nbd-client it has forked is in its control group (no KillMode=, -L keeps the
\* client's process), and is killed before the new process starts.
ServiceDies ==
    /\ \/ UNCHANGED <<unit, startQueued>>
       \/ unit = "serving" /\ unit' = "stopping" /\ startQueued' = TRUE
    /\ nbd0' = LostLink
    /\ UNCHANGED <<mapperState, server>>

\* It dies inside bind or unbind.
GadgetTorn == gadget' \in {gadget, "absent", "built"}

-----------------------------------------------------------------------------
(* systemd and nbdkit                                                      *)

\* The Unix socket lives in the unit's RuntimeDirectory: it exists while the
\* process runs, also while the process is being stopped.
SocketExists == unit \in {"serving", "stopping"}

\* nbdkit starts, loads the state file in config() and listens.  Without a
\* readable state file it exits and Restart=on-failure tries again.
NbdkitServe ==
    /\ unit = "inactive" /\ startQueued
    /\ mapperState \in Configs
    /\ unit' = "serving" /\ startQueued' = FALSE /\ server' = mapperState
    /\ UNCHANGED <<mapperState, nbd0, gadget>>

\* The stop job completes: process gone, runtime directory removed.
NbdkitExit ==
    /\ unit = "stopping"
    /\ unit' = "inactive" /\ server' = NoCfg /\ nbd0' = LostLink
    /\ UNCHANGED <<mapperState, startQueued, gadget>>

\* nbdkit dies by itself; Restart=on-failure queues a start.
NbdkitCrash ==
    /\ unit = "serving"
    /\ unit' = "inactive" /\ startQueued' = TRUE /\ server' = NoCfg /\ nbd0' = LostLink
    /\ UNCHANGED <<mapperState, gadget>>

\* NbdkitManager.stop: nbd-client -d, then systemctl stop --no-block.  The
\* second command returns while the process is still shutting down.
NbdStop ==
    /\ nbd0' = NotConnected
    /\ unit' = IF unit = "serving" THEN "stopping" ELSE unit
    /\ startQueued' = FALSE
    /\ UNCHANGED <<mapperState, server, gadget>>

\* NbdkitManager.start up to the poll: systemctl start --no-block.  A no-op
\* on a running unit, queued behind a stop that is still running.
SystemctlStart ==
    /\ startQueued' = (unit # "serving")
    /\ UNCHANGED <<mapperState, unit, server, nbd0, gadget>>

\* (mutant: a connect that reports success without a server)
NbdConnect_Unchecked ==
    /\ nbd0 \in Links
    /\ nbd0' = server
    /\ UNCHANGED <<mapperState, unit, startQueued, server, gadget>>

\* NbdkitManager.connect, successful: whichever nbdkit still answers on the
\* socket path.  A device that is already connected is busy.
NbdConnect ==
    /\ SocketExists /\ nbd0 \in Links
    /\ nbd0' = server
    /\ UNCHANGED <<mapperState, unit, startQueued, server, gadget>>

-----------------------------------------------------------------------------
(* mapper.state: a temporary file is written, given its owner and mode, and *)
(* moved into place with os.replace, so a reader sees the old or the new.   *)

ReplaceMapperState(c) ==
    /\ mapperState' = c
    /\ UNCHANGED <<unit, startQueued, server, nbd0, gadget>>

-----------------------------------------------------------------------------
(* GadgetManager                                                           *)

\* unbind: UDC "", LUN file "", unlink, remove the tree; nothing to do when
\* there is no tree.  ConfigFS may refuse to remove the tree, which is ignored.
GadgetUnbind ==
    /\ gadget' \in {"absent"} \cup (IF gadget = "absent" THEN {} ELSE {"built"})
    /\ UNCHANGED <<mapperState, unit, startQueued, server, nbd0>>

\* unbind raises: the UDC write failed (still bound) or a later one did; or what
\* it was about to remove was gone, with a part of the tree or all of it, because
\* an eject was removing it or a bind building it at the same time.
GadgetUnbindFails ==
    /\ gadget' \in {gadget, "absent", "built"}
    /\ UNCHANGED <<mapperState, unit, startQueued, server, nbd0>>

\* (mutant: an existing tree is taken for a bound gadget)
GadgetBind_KeepsStale ==
    /\ gadget' = IF gadget = "absent" THEN "bound" ELSE gadget
    /\ UNCHANGED <<mapperState, unit, startQueued, server, nbd0>>

\* bind: unbind a stale tree, select the UDC, build the tree, write the UDC.
GadgetBind ==
    /\ gadget' = "bound"
    /\ UNCHANGED <<mapperState, unit, startQueued, server, nbd0>>

\* bind raises: the stale tree could not be unbound, no UDC was usable (the
\* stale tree is gone), an attribute write failed, or the UDC stayed busy
\* through all retries (a tree is left behind).
GadgetBindFails ==
    /\ gadget' \in {gadget, "absent", "built"}
    /\ UNCHANGED <<mapperState, unit, startQueued, server, nbd0>>

=============================================================================
