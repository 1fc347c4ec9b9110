------------------------------ MODULE NbdPlugin ------------------------------
(***************************************************************************)
(* The nbdkit process: the callbacks of remotepfs_nbd.py and the           *)
(* descriptors its SectorMapper opens (sector_mapper.py: map, _open, read, *)
(* close).  Every connection works on the same mapper: that of the         *)
(* kernel's client and those the preloader's nbdsh opens and closes.       *)
(*                                                                         *)
(* nbdkit is external.  THREAD_MODEL_SERIALIZE_REQUESTS makes the requests *)
(* of one connection wait for each other, not those of different ones; the *)
(* cache filter of the unit holds a lock of its own while it reads from    *)
(* the plugin; nothing makes close wait.  Python threads take turns where  *)
(* the interpreter gives up its lock: in os.open, os.pread and os.close.   *)
(* No client of the service asks for extents.                              *)
(***************************************************************************)
EXTENDS Naturals, Sequences, FiniteSets

CONSTANTS
    Conns,          \* connections (open touches nothing: after one the next)
    Paths,          \* source files of the image
    Fds,            \* file descriptor numbers
    NoFile,         \* a number that is not open
    MaxSectors      \* bound: sectors with source data that one request covers

ASSUME FdsAssumption == Fds \subseteq Nat \ {0}

VARIABLES
    running,        \* config has loaded the mapper; requests are served
    fds,            \* SectorMapper._fds: pairs <<path, number>>, oldest first
    table,          \* the process' table: the file each number stands for
    at,             \* where each connection's callback is
    paths,          \* source files of the sectors it has still to read
    fd,             \* the descriptor it holds, or 0
    passed, size,   \* close: values passed, and how many there were
    overlapped      \* history: a close has overlapped another callback

pluginVars == <<running, fds, table, at, paths, fd, passed, size, overlapped>>

Requests == UNION {[1 .. n -> Paths] : n \in 1 .. MaxSectors}

Open(n)    == table[n] # NoFile
Cached(p)  == \E i \in DOMAIN fds : fds[i][1] = p

ReadLabels == {"map", "store", "pread"}
Reads(c)   == at[c] \in ReadLabels
Closes(c)  == at[c] = "close"

PluginTypeOK ==
    /\ running \in BOOLEAN
    /\ fds \in Seq(Paths \X Fds)
    /\ at \in [Conns -> {"idle", "close"} \cup ReadLabels]
    /\ paths \in [Conns -> Seq(Paths)]
    /\ fd \in [Conns -> Fds \cup {0}]
    /\ passed \in [Conns -> Nat]
    /\ size \in [Conns -> Nat]
    /\ overlapped \in BOOLEAN

PluginInit ==
    /\ running = FALSE
    /\ fds = <<>>
    /\ table = [n \in Fds |-> NoFile]
    /\ at = [c \in Conns |-> "idle"]
    /\ paths = [c \in Conns |-> <<>>]
    /\ fd = [c \in Conns |-> 0]
    /\ passed = [c \in Conns |-> 0]
    /\ size = [c \in Conns |-> 0]
    /\ overlapped = FALSE

\* config, config_complete: the mapper of the state file, nothing open.
Load ==
    /\ ~running
    /\ running' = TRUE
    /\ UNCHANGED <<fds, table, at, paths, fd, passed, size, overlapped>>

\* The process ends, by systemctl stop or otherwise.
Exit ==
    /\ running
    /\ running' = FALSE
    /\ fds' = <<>>
    /\ table' = [n \in Fds |-> NoFile]
    /\ at' = [c \in Conns |-> "idle"]
    /\ paths' = [c \in Conns |-> <<>>]
    /\ fd' = [c \in Conns |-> 0]
    /\ passed' = [c \in Conns |-> 0]
    /\ size' = [c \in Conns |-> 0]
    /\ overlapped' = FALSE

-----------------------------------------------------------------------------
(* pread                                                                   *)

\* (mutant: the unit has no cache filter)
MayRead_NoFilter == TRUE

\* The lock of the cache filter.
MayRead == \A c \in Conns : ~Reads(c)

\* pread of a range with these files in it (others touch no descriptor)
Request(c) ==
    /\ running /\ at[c] = "idle" /\ MayRead
    /\ at' = [at EXCEPT ![c] = "map"]
    /\ \E r \in Requests : paths' = [paths EXCEPT ![c] = r]
    /\ overlapped' = (overlapped \/ \E d \in Conns : Closes(d))
    /\ UNCHANGED <<running, fds, table, fd, passed, size>>

\* _open: the path is in the cache
Lookup(c) ==
    /\ at[c] = "map"
    /\ \E i \in DOMAIN fds :
          fds[i][1] = Head(paths[c]) /\ fd' = [fd EXCEPT ![c] = fds[i][2]]
    /\ at' = [at EXCEPT ![c] = "pread"]
    /\ UNCHANGED <<running, fds, table, paths, passed, size, overlapped>>

\* _open: it is not; os.open gives the lowest number that is free.
OpenFile(c, share) ==
    /\ at[c] = "map" /\ ~Cached(Head(paths[c]))
    /\ \E n \in Fds :
          /\ ~Open(n) /\ \A m \in Fds : m < n => Open(m)
          /\ table' = [table EXCEPT ![n] = <<Head(paths[c]), share>>]
          /\ fd' = [fd EXCEPT ![c] = n]
    /\ at' = [at EXCEPT ![c] = "store"]
    /\ UNCHANGED <<running, fds, paths, passed, size, overlapped>>

\* (mutant: the descriptor is not kept)
Store_Skipped(c) ==
    /\ at[c] = "store"
    /\ at' = [at EXCEPT ![c] = "pread"]
    /\ UNCHANGED <<running, fds, table, paths, fd, passed, size, overlapped>>

\* self._fds[path] = ...: a new key, as only reads add keys.
Store(c) ==
    /\ at[c] = "store"
    /\ fds' = Append(fds, <<Head(paths[c]), fd[c]>>)
    /\ at' = [at EXCEPT ![c] = "pread"]
    /\ UNCHANGED <<running, table, paths, fd, passed, size, overlapped>>

\* os.pread goes through the descriptor; after the last file the request is answered.
Pread(c) ==
    /\ at[c] = "pread" /\ Open(fd[c])
    /\ at' = [at EXCEPT ![c] = IF Tail(paths[c]) = <<>> THEN "idle" ELSE "map"]
    /\ paths' = [paths EXCEPT ![c] = Tail(@)]
    /\ fd' = [fd EXCEPT ![c] = 0]
    /\ UNCHANGED <<running, fds, table, passed, size, overlapped>>

\* os.open or os.pread fails: the request fails, what is cached stays cached.
Fails(c) ==
    /\ \/ at[c] = "map" /\ ~Cached(Head(paths[c]))
       \/ at[c] = "pread"
    /\ at' = [at EXCEPT ![c] = "idle"]
    /\ paths' = [paths EXCEPT ![c] = <<>>]
    /\ fd' = [fd EXCEPT ![c] = 0]
    /\ UNCHANGED <<running, fds, table, passed, size, overlapped>>

-----------------------------------------------------------------------------
(* close: the end of any connection closes the descriptors of all          *)

BeginClose(c) ==
    /\ running /\ at[c] = "idle"
    /\ at' = [at EXCEPT ![c] = "close"]
    /\ passed' = [passed EXCEPT ![c] = 0]
    /\ size' = [size EXCEPT ![c] = Len(fds)]
    /\ overlapped' = (overlapped \/ \E d \in Conns : Reads(d) \/ Closes(d))
    /\ UNCHANGED <<running, fds, table, paths, fd>>

\* for fd in self._fds.values(): os.close(fd)
CloseNext(c) ==
    /\ Closes(c) /\ Len(fds) = size[c] /\ passed[c] < Len(fds)
    /\ LET n == fds[passed[c] + 1][2]
       IN  Open(n) /\ table' = [table EXCEPT ![n] = NoFile]
    /\ passed' = [passed EXCEPT ![c] = @ + 1]
    /\ UNCHANGED <<running, fds, at, paths, fd, size, overlapped>>

\* "dictionary changed size during iteration", or somebody else has closed the
\* number: an exception, and the cache is not cleared.
CloseRaises(c) ==
    /\ Closes(c)
    /\ \/ Len(fds) # size[c]
       \/ passed[c] < Len(fds) /\ ~Open(fds[passed[c] + 1][2])
    /\ at' = [at EXCEPT ![c] = "idle"]
    /\ passed' = [passed EXCEPT ![c] = 0] /\ size' = [size EXCEPT ![c] = 0]
    /\ UNCHANGED <<running, fds, table, paths, fd, overlapped>>

\* (mutant: _fds.clear() is forgotten)
Clear_Forgotten(c) ==
    /\ Closes(c) /\ Len(fds) = size[c] /\ passed[c] >= Len(fds)
    /\ at' = [at EXCEPT ![c] = "idle"]
    /\ passed' = [passed EXCEPT ![c] = 0] /\ size' = [size EXCEPT ![c] = 0]
    /\ UNCHANGED <<running, fds, table, paths, fd, overlapped>>

\* self._fds.clear()
Clear(c) ==
    /\ Closes(c) /\ Len(fds) = size[c] /\ passed[c] >= Len(fds)
    /\ fds' = <<>>
    /\ at' = [at EXCEPT ![c] = "idle"]
    /\ passed' = [passed EXCEPT ![c] = 0] /\ size' = [size EXCEPT ![c] = 0]
    /\ UNCHANGED <<running, table, paths, fd, overlapped>>

PluginStep(c) ==
    \/ Request(c) \/ Lookup(c) \/ Store(c) \/ Pread(c) \/ Fails(c)
    \/ BeginClose(c) \/ CloseNext(c) \/ CloseRaises(c) \/ Clear(c)

=============================================================================
