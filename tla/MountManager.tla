---------------------------- MODULE MountManager ----------------------------
(***************************************************************************)
(* MountManager (mount_manager.py) under the loop of                       *)
(* RemotePfsService._compile that uses it.  Compilations run in threadpool *)
(* threads without a lock; is_mounted and mount are two calls, and what    *)
(* is_mounted has seen may be old when mount runs.  Nothing that a         *)
(* compilation has mounted is unmounted by the service.                    *)
(*                                                                         *)
(* The mount table is external: the mounts of a mount point are a stack,   *)
(* the last one hides the others.                                          *)
(***************************************************************************)
EXTENDS Naturals, Sequences, FiniteSets

CONSTANTS
    Points,         \* mount points
    Shares,         \* endpoints
    Compilers,      \* threads that run _compile
    Empty,          \* the directory that is under a mount point
    Respelled,      \* mount points that /proc/mounts spells otherwise: a space
                    \* is escaped there, a symbolic link resolved
    MaxSources,     \* bound: sources of one configuration
    MaxMounts,      \* bound: mounts on one mount point
    MaxMisread      \* bound: the same, once is_mounted has not seen a mount there

ASSUME EmptyAssumption == Empty \notin Shares
ASSUME CompilersAssumption == IsFiniteSet(Compilers) /\ Compilers # {}

VARIABLES
    stack,          \* /proc/mounts: the shares mounted on each mount point
    past,           \* history: the worst that has happened to each mount point
    cpc,            \* where each compilation is
    sources,        \* the sources of its configuration
    left,           \* those the loop has not come to yet
    current,        \* the one at hand
    scanned         \* what it has found at the mount points when it built the tree

mountVars == <<stack, past, cpc, sources, left, current, scanned>>

\* SourceConfig: mount point and endpoint.  _validate_sources looks for
\* duplicate names, not for duplicate mount points.
Source == Points \X Shares

\* Nothing; two compilations were about to mount it at a time; an administrator
\* has unmounted it; something was mounted over it since /proc/mounts could not
\* be read.
Troubles == {"settled", "contested", "unmounted", "misread"}
Rank == [t \in Troubles |->
            IF t = "settled" THEN 0 ELSE IF t = "contested" THEN 1 ELSE IF t = "unmounted" THEN 2 ELSE 3]

Found == Points \X (Shares \cup {Empty})

MountTypeOK ==
    /\ stack \in [Points -> Seq(Shares)]
    /\ past \in [Points -> Troubles]
    /\ cpc \in [Compilers -> {"idle", "loop", "mount", "scan", "compiled"}]
    /\ sources \in [Compilers -> SUBSET Source]
    /\ left \in [Compilers -> SUBSET Source]
    /\ current \in [Compilers -> SUBSET Source]
    /\ scanned \in [Compilers -> SUBSET Found]

\* The process may have been restarted: its predecessor's mounts are still there.
MountInit ==
    /\ stack \in [Points -> {<<>>} \cup {<<share>> : share \in Shares}]
    /\ past = [m \in Points |-> "settled"]
    /\ cpc = [c \in Compilers |-> "idle"]
    /\ sources = [c \in Compilers |-> {}]
    /\ left = [c \in Compilers |-> {}]
    /\ current = [c \in Compilers |-> {}]
    /\ scanned = [c \in Compilers |-> {}]

\* What a path under the mount point leads to.
Visible(m) == IF stack[m] = <<>> THEN Empty ELSE stack[m][Len(stack[m])]

-----------------------------------------------------------------------------

\* MountError, ConfigError or OSError: the compilation and what it knew is gone.
Raise(c) ==
    /\ cpc' = [cpc EXCEPT ![c] = "idle"]
    /\ sources' = [sources EXCEPT ![c] = {}]
    /\ left' = [left EXCEPT ![c] = {}]
    /\ current' = [current EXCEPT ![c] = {}]
    /\ scanned' = [scanned EXCEPT ![c] = {}]
    /\ UNCHANGED <<stack, past>>

\* _compile: for source in config.sources
Compile(c) ==
    /\ cpc[c] \in {"idle", "compiled"}
    /\ \E S \in {T \in SUBSET Source : T # {} /\ Cardinality(T) =< MaxSources} :
          sources' = [sources EXCEPT ![c] = S] /\ left' = [left EXCEPT ![c] = S]
    /\ cpc' = [cpc EXCEPT ![c] = "loop"]
    /\ scanned' = [scanned EXCEPT ![c] = {}]
    /\ UNCHANGED <<stack, past, current>>

\* m is remembered for this trouble, unless it is for a worse one.
Worse(m, trouble) == [past EXCEPT ![m] = IF Rank[@] < Rank[trouble] THEN trouble ELSE @]

\* The compilations about to mount something on m.
Pending(m) == {c \in Compilers : cpc[c] = "mount" /\ \E s \in current[c] : s[1] = m}

\* (mutant: the table is not looked at)
IsMounted_Never(m) == FALSE

\* is_mounted compares names, and not what is mounted.
IsMounted(m) == m \notin Respelled /\ stack[m] # <<>>

PassOver(c) ==
    /\ cpc[c] = "loop"
    /\ \E s \in left[c] : IsMounted(s[1]) /\ left' = [left EXCEPT ![c] = @ \ {s}]
    /\ UNCHANGED <<stack, past, cpc, sources, current, scanned>>

\* It is not mounted; or it is, and /proc/mounts cannot be read (OSError), which
\* is_mounted takes for an empty table.
GoToMount(c) ==
    /\ cpc[c] = "loop"
    /\ \E s \in left[c] :
          /\ left' = [left EXCEPT ![c] = @ \ {s}]
          /\ current' = [current EXCEPT ![c] = {s}]
          /\ past' = IF IsMounted(s[1]) THEN Worse(s[1], "misread")
                     ELSE IF Pending(s[1]) # {} THEN Worse(s[1], "contested") ELSE past
    /\ cpc' = [cpc EXCEPT ![c] = "mount"]
    /\ UNCHANGED <<stack, sources, scanned>>

\* mount -t nfs4, mount -t cifs: on top of whatever is mounted there by now.
Mount(c) ==
    /\ cpc[c] = "mount"
    /\ \E s \in current[c] :
          /\ Len(stack[s[1]]) < (IF past[s[1]] = "misread" THEN MaxMisread ELSE MaxMounts)
          /\ stack' = [stack EXCEPT ![s[1]] = Append(@, s[2])]
    /\ cpc' = [cpc EXCEPT ![c] = "loop"]
    /\ current' = [current EXCEPT ![c] = {}]
    /\ UNCHANGED <<past, sources, left, scanned>>

\* (mutant: the return code is ignored)
MountFails_Ignored(c) ==
    /\ cpc[c] = "mount"
    /\ cpc' = [cpc EXCEPT ![c] = "loop"]
    /\ current' = [current EXCEPT ![c] = {}]
    /\ UNCHANGED <<stack, past, sources, left, scanned>>

\* The credentials file is missing, not root's or not 0600, or the command
\* fails (also with "already mounted"): MountError.  What this compilation has
\* mounted before stays mounted.
MountFails(c) == cpc[c] = "mount" /\ Raise(c)

\* The loop is over; the entries are validated and the tree is built.
Mounted(c) ==
    /\ cpc[c] = "loop" /\ left[c] = {}
    /\ cpc' = [cpc EXCEPT ![c] = "scan"]
    /\ left' = [left EXCEPT ![c] = sources[c]]
    /\ UNCHANGED <<stack, past, sources, current, scanned>>

\* The entries under one mount point are found and scanned.
Scan(c) ==
    /\ cpc[c] = "scan"
    /\ \E s \in left[c] :
          /\ left' = [left EXCEPT ![c] = {t \in @ : t[1] # s[1]}]
          /\ scanned' = [scanned EXCEPT ![c] = @ \cup {<<s[1], Visible(s[1])>>}]
    /\ UNCHANGED <<stack, past, cpc, sources, current>>

\* An entry is missing, has another type or cannot be read.
ScanFails(c) == cpc[c] = "scan" /\ Raise(c)

\* _compile returns a generation.
Compiled(c) ==
    /\ cpc[c] = "scan" /\ left[c] = {}
    /\ cpc' = [cpc EXCEPT ![c] = "compiled"]
    /\ sources' = [sources EXCEPT ![c] = {}]
    /\ UNCHANGED <<stack, past, left, current, scanned>>

\* External: an administrator unmounts, lazily if files are open.
Unmount(m) ==
    /\ stack[m] # <<>>
    /\ stack' = [stack EXCEPT ![m] = SubSeq(@, 1, Len(@) - 1)]
    /\ past' = Worse(m, "unmounted")
    /\ UNCHANGED <<cpc, sources, left, current, scanned>>

CompileStep(c) ==
    \/ Compile(c) \/ PassOver(c) \/ GoToMount(c) \/ Mount(c) \/ MountFails(c) \/ Mounted(c)
    \/ Scan(c) \/ ScanFails(c) \/ Compiled(c)

=============================================================================
