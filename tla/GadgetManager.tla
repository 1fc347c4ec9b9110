---------------------------- MODULE GadgetManager ----------------------------
(***************************************************************************)
(* GadgetManager (gadget_manager.py), one ConfigFS operation at a time:    *)
(* bind, unbind and eject as the sequences of writes, links and removals   *)
(* that they are.  Cutovers exclude one another (_sync_reload_lock), but   *)
(* an eject takes no lock and may run between any two writes of a bind.    *)
(* Every operation may fail, and the process may die after any of them.    *)
(*                                                                         *)
(* ConfigFS is external, modelled from what the code does to it.  Unlinking *)
(* the function from its configuration unbinds the gadget; ro cannot be    *)
(* written while the LUN has a file; a directory with a link or a child    *)
(* cannot be removed; a removed function takes its LUN with it.  The       *)
(* default groups (strings, configs, functions, lun.0), whose removal is   *)
(* refused with EPERM and ignored, come and go with their parents.         *)
(***************************************************************************)
EXTENDS Naturals

CONSTANTS
    Cutover,        \* the thread that holds the lock, or startup, or shutdown
    Ejectors,       \* the requests that eject
    Tries           \* attempts to write the UDC

ASSUME CutoverAssumption == Cutover \notin Ejectors
ASSUME TriesAssumption == Tries \in Nat \ {0}

VARIABLES
    dirs,           \* directories that exist
    link,           \* configs/c.1/mass_storage.0
    ro, file,       \* attributes of lun.0
    bound,          \* UDC
    truncates,      \* opening an attribute for writing empties it
    pc,             \* the next line of each thread
    call,           \* what it executes
    todo,           \* what _remove_tree has still to remove
    tries,          \* failed attempts to write the UDC
    settled,        \* history: the gadget when a call last returned
    overlapped      \* history: an eject has overlapped the cutover's call

treeVars == <<dirs, link, ro, file, bound, truncates>>
vars == <<treeVars, pc, call, todo, tries, settled, overlapped>>

Threads == Ejectors \cup {Cutover}
Rest    == {"idle", "ok", "failed"}
UnbindLabels == {"exists", "clear_udc", "clear_file", "unlink", "rm", "rm_root"}
BindLabels   == {"check", "select", "mk_root", "mk_config", "mk_function", "attributes",
                 "write_ro", "write_file", "symlink", "write_udc"}

Active(t) == pc[t] \notin Rest

\* The gadget as HardwareStack speaks of it.
View(existing, isBound) ==
    IF "root" \notin existing THEN "absent" ELSE IF isBound THEN "bound" ELSE "built"

TypeOK ==
    /\ dirs \subseteq {"root", "config", "function"}
    /\ link \in BOOLEAN /\ ro \in BOOLEAN /\ file \in BOOLEAN /\ bound \in BOOLEAN
    /\ truncates \in BOOLEAN
    /\ pc \in [Threads -> Rest \cup UnbindLabels \cup BindLabels \cup {"force"}]
    /\ call \in [Threads -> {"none", "bind", "unbind", "eject"}]
    /\ todo \in [Threads -> SUBSET {"config", "function"}]
    /\ tries \in 0 .. Tries
    /\ settled \in {"absent", "built", "bound"}
    /\ overlapped \in BOOLEAN

\* ConfigFS ignores the truncation of open(path, "w"), and write_text("")
\* writes nothing; the plain files of the tests are emptied by it.
Init ==
    /\ dirs = {} /\ link = FALSE /\ ro = FALSE /\ file = FALSE /\ bound = FALSE
    /\ truncates \in BOOLEAN
    /\ pc = [t \in Threads |-> "idle"]
    /\ call = [t \in Threads |-> "none"]
    /\ todo = [t \in Threads |-> {}]
    /\ tries = 0
    /\ settled = "absent"
    /\ overlapped = FALSE

-----------------------------------------------------------------------------
(* Calls and returns                                                       *)

Goto(t, label) ==
    /\ pc' = [pc EXCEPT ![t] = label]
    /\ UNCHANGED <<call, settled, overlapped>>

\* The call returns or raises.
Return(t, outcome) ==
    /\ pc' = [pc EXCEPT ![t] = outcome]
    /\ todo' = [todo EXCEPT ![t] = {}]
    /\ settled' = View(dirs', bound')
    /\ UNCHANGED <<call, overlapped>>

Begin(t, operation, label) ==
    /\ ~Active(t)
    /\ pc' = [pc EXCEPT ![t] = label]
    /\ call' = [call EXCEPT ![t] = operation]
    /\ tries' = IF t = Cutover THEN 0 ELSE tries
    /\ overlapped' = IF t = Cutover THEN \E e \in Ejectors : Active(e) ELSE overlapped \/ Active(Cutover)
    /\ UNCHANGED <<treeVars, todo, settled>>

Calls ==
    \/ Begin(Cutover, "bind", "check")
    \/ Begin(Cutover, "unbind", "exists")
    \/ \E e \in Ejectors : Begin(e, "eject", "force")

\* Any operation of ConfigFS may fail, or find that what the line before has
\* seen is gone.  (An eject that fails at once has not come to its unbind.)
Raises(t) ==
    /\ Active(t) /\ pc[t] \notin {"check", "exists"}
    /\ UNCHANGED <<treeVars, tries>>
    /\ \/ pc[t] # "force" /\ Return(t, "failed")
       \/ pc[t] = "force" /\ Goto(t, "failed") /\ UNCHANGED todo

\* The service is killed; a new one finds the tree as it is.
Die ==
    /\ \E t \in Threads : Active(t)
    /\ pc' = [t \in Threads |-> "idle"]
    /\ call' = [t \in Threads |-> "none"]
    /\ todo' = [t \in Threads |-> {}]
    /\ tries' = 0
    /\ settled' = View(dirs, bound)
    /\ overlapped' = FALSE
    /\ UNCHANGED treeVars

-----------------------------------------------------------------------------
(* eject: forced_eject takes the medium out                                *)

ForceEject(t) ==
    /\ pc[t] = "force"
    /\ file' = (file /\ "function" \notin dirs)
    /\ Goto(t, "exists")
    /\ UNCHANGED <<dirs, link, ro, bound, truncates, todo, tries>>

-----------------------------------------------------------------------------
(* unbind and _remove_tree                                                 *)

\* unbind has come to its end: bind goes on.
Unbound(t) ==
    \/ call[t] = "bind" /\ Goto(t, "select") /\ UNCHANGED todo
    \/ call[t] # "bind" /\ Return(t, "ok")

RootMissing(t) ==
    /\ pc[t] = "exists" /\ "root" \notin dirs
    /\ UNCHANGED <<treeVars, tries>>
    /\ Unbound(t)

RootFound(t) ==
    /\ pc[t] = "exists" /\ "root" \in dirs
    /\ Goto(t, "clear_udc")
    /\ UNCHANGED <<treeVars, todo, tries>>

ClearUdc(t) ==
    /\ pc[t] = "clear_udc"
    /\ bound' = (bound /\ ~truncates)
    /\ Goto(t, "clear_file")
    /\ UNCHANGED <<dirs, link, ro, file, truncates, todo, tries>>

ClearFile(t) ==
    /\ pc[t] = "clear_file"
    /\ file' = (file /\ ~truncates)
    /\ Goto(t, "unlink")
    /\ UNCHANGED <<dirs, link, ro, bound, truncates, todo, tries>>

Unlinked == link' = FALSE /\ bound' = FALSE

\* The link is looked for and removed; _remove_tree begins.
Unlink(t) ==
    /\ pc[t] = "unlink"
    /\ \/ link /\ Unlinked
       \/ ~link /\ UNCHANGED <<link, bound>>
    /\ todo' = [todo EXCEPT ![t] = {"config", "function"}]
    /\ Goto(t, "rm")
    /\ UNCHANGED <<dirs, ro, file, truncates, tries>>

\* A link that has appeared in the meantime and is in the listing of c.1.
RemoveLink(t) ==
    /\ pc[t] = "rm" /\ "config" \in todo[t] /\ link
    /\ Unlinked
    /\ UNCHANGED <<dirs, ro, file, truncates, pc, call, todo, tries, settled, overlapped>>

\* c.1 and mass_storage.0 with what is below them, in the order of the listing.
\* One that is gone is passed over; a linked one cannot be removed.
RemoveDirectory(t) ==
    /\ pc[t] = "rm"
    /\ \E d \in todo[t] :
          /\ link => d \notin dirs
          /\ dirs' = dirs \ {d}
          /\ ro' = (ro /\ d # "function") /\ file' = (file /\ d # "function")
          /\ todo' = [todo EXCEPT ![t] = @ \ {d}]
          /\ Goto(t, IF todo'[t] = {} THEN "rm_root" ELSE "rm")
    /\ UNCHANGED <<link, bound, truncates, tries>>

RemoveRoot(t) ==
    /\ pc[t] = "rm_root"
    /\ dirs \subseteq {"root"}
    /\ dirs' = {}
    /\ UNCHANGED <<link, ro, file, bound, truncates, tries>>
    /\ Unbound(t)

UnbindStep(t) ==
    \/ RootMissing(t) \/ RootFound(t) \/ ClearUdc(t) \/ ClearFile(t) \/ Unlink(t)
    \/ RemoveLink(t) \/ RemoveDirectory(t) \/ RemoveRoot(t)

-----------------------------------------------------------------------------
(* bind                                                                    *)

\* (mutant: a stale tree is built upon)
CheckStale_KeepsTree ==
    /\ pc[Cutover] = "check"
    /\ Goto(Cutover, "select")
    /\ UNCHANGED <<treeVars, todo, tries>>

\* A stale tree is unbound first.
CheckStale ==
    /\ pc[Cutover] = "check"
    /\ Goto(Cutover, IF "root" \in dirs THEN "exists" ELSE "select")
    /\ UNCHANGED <<treeVars, todo, tries>>

\* _select_udc finds one.
SelectUdc ==
    /\ pc[Cutover] = "select"
    /\ Goto(Cutover, "mk_root")
    /\ UNCHANGED <<treeVars, todo, tries>>

\* mkdir(parents=True, exist_ok=True)
Mkdir(label, made, following) ==
    /\ pc[Cutover] = label
    /\ dirs' = dirs \cup made
    /\ Goto(Cutover, following)
    /\ UNCHANGED <<link, ro, file, bound, truncates, todo, tries>>

MakeTree ==
    \/ Mkdir("mk_root", {"root"}, "mk_config")
    \/ Mkdir("mk_config", {"root", "config"}, "mk_function")
    \/ Mkdir("mk_function", {"root", "function"}, "attributes")

\* idVendor ... configuration, of the gadget and of its configuration
WriteAttributes ==
    /\ pc[Cutover] = "attributes"
    /\ {"root", "config"} \subseteq dirs
    /\ Goto(Cutover, "write_ro")
    /\ UNCHANGED <<treeVars, todo, tries>>

\* (mutant: an error of the write is ignored)
WriteRo_Ignored ==
    /\ pc[Cutover] = "write_ro"
    /\ \/ "function" \in dirs /\ ~file /\ ro' = TRUE
       \/ UNCHANGED ro
    /\ Goto(Cutover, "write_file")
    /\ UNCHANGED <<dirs, link, file, bound, truncates, todo, tries>>

\* ro, nofua, stall
WriteRo ==
    /\ pc[Cutover] = "write_ro"
    /\ "function" \in dirs /\ ~file
    /\ ro' = TRUE
    /\ Goto(Cutover, "write_file")
    /\ UNCHANGED <<dirs, link, file, bound, truncates, todo, tries>>

WriteFile ==
    /\ pc[Cutover] = "write_file"
    /\ "function" \in dirs
    /\ file' = TRUE
    /\ Goto(Cutover, "symlink")
    /\ UNCHANGED <<dirs, link, ro, bound, truncates, todo, tries>>

Symlink ==
    /\ pc[Cutover] = "symlink"
    /\ link \/ ({"config", "function"} \subseteq dirs /\ ~bound)
    /\ link' = TRUE
    /\ Goto(Cutover, "write_udc")
    /\ UNCHANGED <<dirs, ro, file, bound, truncates, todo, tries>>

WriteUdc ==
    /\ pc[Cutover] = "write_udc"
    /\ link /\ ~bound
    /\ bound' = TRUE
    /\ UNCHANGED <<dirs, link, ro, file, truncates, tries>>
    /\ Return(Cutover, "ok")

\* (mutant: the loop ends without its else clause)
UdcBusy_GivesUpQuietly ==
    /\ pc[Cutover] = "write_udc"
    /\ tries' = tries + 1
    /\ UNCHANGED treeVars
    /\ \/ tries' < Tries /\ Goto(Cutover, "write_udc") /\ UNCHANGED todo
       \/ tries' = Tries /\ Return(Cutover, "ok")

\* (mutant: the loop does not count)
UdcBusy_Forever ==
    /\ pc[Cutover] = "write_udc"
    /\ tries' = tries + 1
    /\ UNCHANGED <<treeVars, todo>>
    /\ Goto(Cutover, "write_udc")

\* Errno 19: another attempt a second later, a GadgetError after the last.
UdcBusy ==
    /\ pc[Cutover] = "write_udc"
    /\ tries' = tries + 1
    /\ UNCHANGED treeVars
    /\ \/ tries' < Tries /\ Goto(Cutover, "write_udc") /\ UNCHANGED todo
       \/ tries' = Tries /\ Return(Cutover, "failed")

BindStep ==
    \/ CheckStale \/ SelectUdc \/ MakeTree \/ WriteAttributes \/ WriteRo \/ WriteFile
    \/ Symlink \/ WriteUdc \/ UdcBusy

-----------------------------------------------------------------------------

Next ==
    \/ Calls
    \/ BindStep
    \/ \E e \in Ejectors : ForceEject(e)
    \/ \E t \in Threads : UnbindStep(t) \/ Raises(t)
    \/ Die

Spec == Init /\ [][Next]_vars

-----------------------------------------------------------------------------

\* Whatever fails, overlaps or is killed: a LUN that has the device as its
\* medium has been made read-only before, so a console can never write to it.
MediumReadOnly == file => ro

\* The line that the cutover executes can succeed: its own remains, those of a
\* bind that failed or was killed half-way, or those of an eject before it never
\* stand in its way, whatever the file system does with an empty write.
Unobstructed ==
    ~overlapped =>
        CASE pc[Cutover] = "rm"         -> ~link
          [] pc[Cutover] = "rm_root"    -> dirs \subseteq {"root"}
          [] pc[Cutover] = "attributes" -> {"root", "config"} \subseteq dirs
          [] pc[Cutover] = "write_ro"   -> "function" \in dirs /\ ~file
          [] pc[Cutover] = "symlink"    -> {"config", "function"} \subseteq dirs /\ ~bound
          [] pc[Cutover] = "write_udc"  -> link /\ ~bound /\ file
          [] OTHER                      -> TRUE

\* The operations of HardwareStack on a gadget that is as it was when a call
\* last returned.
Stack == INSTANCE HardwareStack WITH
    Configs <- {}, NoCfg <- "none", mapperState <- "none", unit <- "inactive", startQueued <- FALSE,
    server <- "none", nbd0 <- "not_connected", gadget <- settled

Returns(t, outcome) == Active(t) /\ pc[t] # "force" /\ pc'[t] = outcome

\* What a call has made of the gadget when it returns or raises is what the
\* one-step operations of HardwareStack allow, also when an eject and a cutover
\* have taken turns write by write; nothing else counts as a change.
OneStepOperations ==
    [][\/ \E t \in Threads :
            \/ call[t] = "bind" /\ Returns(t, "ok")     /\ Stack!GadgetBind
            \/ call[t] = "bind" /\ Returns(t, "failed") /\ Stack!GadgetBindFails
            \/ call[t] # "bind" /\ Returns(t, "ok")     /\ Stack!GadgetUnbind
            \/ call[t] # "bind" /\ Returns(t, "failed") /\ Stack!GadgetUnbindFails
       \/ (\A t \in Threads : Active(t) => pc'[t] = "idle") /\ Stack!GadgetTorn
       \/ (\A t \in Threads : ~Returns(t, "ok") /\ ~Returns(t, "failed")) /\ settled' = settled]_vars

=============================================================================
