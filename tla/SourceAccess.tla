---------------------------- MODULE SourceAccess ----------------------------
(***************************************************************************)
(* Mount points and the nbdkit process together: a compilation fixes the   *)
(* layout of the image from what it finds at the mount points; the plugin  *)
(* opens the same paths much later, when the console reads them.           *)
(***************************************************************************)
EXTENDS MountManager, NbdPlugin

CONSTANT PointOf    \* the mount point a path is under

ASSUME PointOfAssumption == PointOf \in [Paths -> Points]
ASSUME NoFileAssumption == NoFile \notin Paths \X Shares

VARIABLE image      \* what the image in the state file was scanned from

vars == <<mountVars, pluginVars, image>>

TypeOK ==
    /\ MountTypeOK
    /\ PluginTypeOK
    /\ table \in [Fds -> (Paths \X Shares) \cup {NoFile}]
    /\ image \subseteq Found

Init == MountInit /\ PluginInit /\ image = {}

\* nbdkit starts with a generation that has been compiled, or again with the
\* one in the state file.
Start ==
    /\ Load
    /\ \/ \E c \in Compilers : cpc[c] = "compiled" /\ image' = scanned[c]
       \/ image # {} /\ UNCHANGED image
    /\ UNCHANGED mountVars

\* (mutant: O_CREAT makes the file that is not there)
OpenSource_Creates(c) ==
    /\ paths[c] # <<>>
    /\ OpenFile(c, Visible(PointOf[Head(paths[c])]))
    /\ UNCHANGED <<mountVars, image>>

\* The path is looked up in what is mounted now.
OpenSource(c) ==
    /\ paths[c] # <<>>
    /\ LET share == Visible(PointOf[Head(paths[c])])
       IN  share # Empty /\ OpenFile(c, share)
    /\ UNCHANGED <<mountVars, image>>

Next ==
    \/ \E c \in Compilers : CompileStep(c) /\ UNCHANGED <<pluginVars, image>>
    \/ \E m \in Points : Unmount(m) /\ UNCHANGED <<pluginVars, image>>
    \/ Start
    \/ Exit /\ UNCHANGED <<mountVars, image>>
    \/ \E c \in Conns : PluginStep(c) /\ UNCHANGED <<mountVars, image>>
    \/ \E c \in Conns : OpenSource(c)

Spec == Init /\ [][Next]_vars

-----------------------------------------------------------------------------

\* Compilations that find a source unmounted at the same time may mount it on
\* top of one another, but the stack of mounts does not grow from reload to
\* reload: it is never higher than the number of compilations that ran together.
\* (Where is_mounted does not recognise the mount point, or could not read the
\* table, it does grow.)
StackBounded ==
    \A m \in Points \ Respelled : past[m] # "misread" => Len(stack[m]) =< Cardinality(Compilers)

MountedOn(m) == {stack[m][i] : i \in 1 .. Len(stack[m])}

\* The share that a compilation has scanned, the one the image was scanned from
\* and the one a descriptor reads from are one and the same, the one in view: a
\* reload whose sources name another share for the mount point does not hide it.
\* Only where two compilations have mounted at a time may it be hidden, and then
\* it still stays mounted.  (An administrator who unmounts, or a mount table that
\* is_mounted cannot read or does not understand, ends the promise.)
SharesKept ==
    LET Kept(m, share) ==
            /\ past[m] = "settled" /\ m \notin Respelled => Visible(m) = share
            /\ past[m] \in {"settled", "contested"} => share \in MountedOn(m)
    IN  /\ \A c \in Compilers : \A f \in scanned[c] : Kept(f[1], f[2])
        /\ \A f \in image : Kept(f[1], f[2])
        /\ \A n \in Fds : Open(n) => Kept(PointOf[table[n][1]], table[n][2])

\* Unless a close overlaps them, os.pread goes through an open descriptor of the
\* file the sector belongs to, although any connection that ends closes the
\* descriptors of all of them and the next os.open is given their numbers.
ReadsOwnFile ==
    ~overlapped => \A c \in Conns :
        at[c] = "pread" => fd[c] \in Fds /\ Open(fd[c]) /\ table[fd[c]][1] = Head(paths[c])

\* Unless a close overlaps other callbacks, the cache holds every descriptor of
\* the process, each for its own file and none twice, whenever no connection is
\* about to store one or to close them: close leaves none open, and whatever
\* fails, none is lost.
CacheExact ==
    ~overlapped /\ (\A c \in Conns : at[c] \notin {"store", "close"}) =>
        /\ \A n \in Fds : Open(n) <=> \E i \in DOMAIN fds : fds[i][2] = n
        /\ \A i \in DOMAIN fds : table[fds[i][2]][1] = fds[i][1]
        /\ \A i, j \in DOMAIN fds : fds[i][1] = fds[j][1] => i = j

\* specs/07-config-system.md:262, on why keeping descriptors open "is safe":
\* "each file opened once, closed only on service stop or config reload".  A read
\* then never returns the bytes of another file.
ReadsNoOtherFile ==
    \A c \in Conns : at[c] = "pread" /\ Open(fd[c]) => table[fd[c]][1] = Head(paths[c])

=============================================================================
