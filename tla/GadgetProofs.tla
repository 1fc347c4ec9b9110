---------------------------- MODULE GadgetProofs ----------------------------
(***************************************************************************)
(* The medium of the gadget is read-only, for any number of ejects that    *)
(* run between the writes of a bind, any failure and any crash.            *)
(*                                                                         *)
(* MediumReadOnly is not inductive: the line that writes the file does not *)
(* look at ro.  It rests on the order of bind's lines and on the fact that *)
(* only the cutover makes a function directory: if somebody has removed it *)
(* since ro was written, there is no file to write either.                 *)
(***************************************************************************)
EXTENDS GadgetManager, TLAPS

\* Attributes exist with their directory, and ro is behind the cutover when
\* it comes to write the file.
LunInv ==
    /\ "function" \notin dirs => ~ro /\ ~file
    /\ pc[Cutover] = "write_file" /\ "function" \in dirs => ro

ROInv == TypeOK /\ LunInv /\ MediumReadOnly

\* The labels, spelled out once.
AllLabels == Rest \cup UnbindLabels \cup BindLabels \cup {"force"}

-----------------------------------------------------------------------------
(* Type correctness                                                        *)

\* Nothing exists at the start.
LEMMA InitROInv == Init => ROInv
<1>. SUFFICES ASSUME Init PROVE ROInv
  OBVIOUS
<1>1. TypeOK
  <2>1. pc \in [Threads -> AllLabels]
    BY DEF Init, AllLabels, Rest
  <2>2. call \in [Threads -> {"none", "bind", "unbind", "eject"}]
    BY DEF Init
  <2>3. todo \in [Threads -> SUBSET {"config", "function"}]
    BY DEF Init
  <2>4. tries \in 0 .. Tries
    BY TriesAssumption DEF Init
  <2>5. QED
    BY <2>1, <2>2, <2>3, <2>4 DEF Init, TypeOK, AllLabels
<1>2. LunInv /\ MediumReadOnly
  BY DEF Init, LunInv, MediumReadOnly, Threads
<1>3. QED
  BY <1>1, <1>2 DEF ROInv

\* What Goto and Return do to the threads' variables.
LEMMA ThreadTypes ==
    ASSUME TypeOK, NEW t \in Threads, NEW label \in AllLabels,
           \/ Goto(t, label) /\ UNCHANGED todo
           \/ Return(t, label)
    PROVE  /\ pc' \in [Threads -> AllLabels]
           /\ call' \in [Threads -> {"none", "bind", "unbind", "eject"}]
           /\ todo' \in [Threads -> SUBSET {"config", "function"}]
           /\ settled' \in {"absent", "built", "bound"}
           /\ overlapped' \in BOOLEAN
BY DEF TypeOK, AllLabels, Goto, Return, View

\* A failure leaves the tree alone.
LEMMA TypeRaises ==
    ASSUME TypeOK, NEW t \in Threads, Raises(t)
    PROVE  TypeOK'
<1>1. "failed" \in AllLabels
  BY DEF AllLabels, Rest
<1>2. QED
  BY <1>1, ThreadTypes DEF Raises, TypeOK, treeVars, AllLabels

\* The lines of unbind.
LEMMA TypeUnbind ==
    ASSUME TypeOK, NEW t \in Threads, UnbindStep(t)
    PROVE  TypeOK'
<1>. USE DEF TypeOK, treeVars
<1>l. UnbindLabels \cup {"select", "ok"} \subseteq AllLabels
  BY DEF AllLabels, BindLabels, Rest
<1>1. CASE RootMissing(t)
  BY <1>1, <1>l, ThreadTypes DEF RootMissing, Unbound, AllLabels
<1>2. CASE RootFound(t)
  BY <1>2, <1>l, ThreadTypes DEF RootFound, UnbindLabels, AllLabels
<1>3. CASE ClearUdc(t)
  BY <1>3, <1>l, ThreadTypes DEF ClearUdc, UnbindLabels, AllLabels
<1>4. CASE ClearFile(t)
  BY <1>4, <1>l, ThreadTypes DEF ClearFile, UnbindLabels, AllLabels
<1>5. CASE Unlink(t)
  BY <1>5, <1>l DEF Unlink, Unlinked, Goto, UnbindLabels, AllLabels
<1>6. CASE RemoveLink(t)
  BY <1>6 DEF RemoveLink, Unlinked
<1>7. CASE RemoveDirectory(t)
  BY <1>7, <1>l DEF RemoveDirectory, Goto, UnbindLabels, AllLabels
<1>8. CASE RemoveRoot(t)
  BY <1>8, <1>l, ThreadTypes DEF RemoveRoot, Unbound, AllLabels
<1>9. QED
  BY <1>1, <1>2, <1>3, <1>4, <1>5, <1>6, <1>7, <1>8 DEF UnbindStep

\* The lines of bind.
LEMMA TypeBind ==
    ASSUME TypeOK, BindStep
    PROVE  TypeOK'
<1>. USE DEF TypeOK, treeVars, Threads
<1>l. BindLabels \cup Rest \cup {"exists"} \subseteq AllLabels
  BY DEF AllLabels, UnbindLabels
<1>c. Cutover \in Threads
  BY DEF Threads
<1>1. CASE CheckStale \/ SelectUdc \/ WriteAttributes
  BY <1>1, <1>c, <1>l, ThreadTypes DEF CheckStale, SelectUdc, WriteAttributes, BindLabels, AllLabels
<1>2. CASE MakeTree
  BY <1>2, <1>c, <1>l, ThreadTypes DEF MakeTree, Mkdir, BindLabels, AllLabels
<1>3. CASE WriteRo \/ WriteFile \/ Symlink
  BY <1>3, <1>c, <1>l, ThreadTypes DEF WriteRo, WriteFile, Symlink, BindLabels, AllLabels
<1>4. CASE WriteUdc
  BY <1>4, <1>c, <1>l, ThreadTypes DEF WriteUdc, Rest, AllLabels
<1>5. CASE UdcBusy
  <2>1. tries' \in 0 .. Tries
    BY <1>5, TriesAssumption DEF UdcBusy
  <2>2. QED
    BY <1>5, <2>1, <1>c, <1>l, ThreadTypes DEF UdcBusy, BindLabels, Rest, AllLabels
<1>6. QED
  BY <1>1, <1>2, <1>3, <1>4, <1>5 DEF BindStep

\* Every step keeps the types.
LEMMA TypeNext == TypeOK /\ [Next]_vars => TypeOK'
<1>. SUFFICES ASSUME TypeOK, [Next]_vars PROVE TypeOK'
  OBVIOUS
<1>1. CASE Calls
  <2>1. PICK t \in Threads, operation \in {"bind", "unbind", "eject"}, label \in AllLabels :
            Begin(t, operation, label)
    BY <1>1 DEF Calls, Threads, AllLabels, UnbindLabels, BindLabels
  <2>2. pc' \in [Threads -> AllLabels]
    BY <2>1 DEF Begin, TypeOK, AllLabels
  <2>3. call' \in [Threads -> {"none", "bind", "unbind", "eject"}]
    BY <2>1 DEF Begin, TypeOK
  <2>4. tries' \in 0 .. Tries
    BY <2>1, TriesAssumption DEF Begin, TypeOK
  <2>5. overlapped' \in BOOLEAN
    BY <2>1 DEF Begin, TypeOK, Active
  <2>6. QED
    BY <2>1, <2>2, <2>3, <2>4, <2>5 DEF Begin, TypeOK, treeVars, AllLabels
<1>2. CASE BindStep
  BY <1>2, TypeBind
<1>3. CASE \E e \in Ejectors : ForceEject(e)
  BY <1>3 DEF ForceEject, Goto, TypeOK, Threads, UnbindLabels
<1>4. CASE \E t \in Threads : UnbindStep(t) \/ Raises(t)
  BY <1>4, TypeUnbind, TypeRaises
<1>5. CASE Die
  <2>1. pc' \in [Threads -> AllLabels]
    BY <1>5 DEF Die, AllLabels, Rest
  <2>2. call' \in [Threads -> {"none", "bind", "unbind", "eject"}]
    BY <1>5 DEF Die
  <2>3. todo' \in [Threads -> SUBSET {"config", "function"}]
    BY <1>5 DEF Die
  <2>4. tries' \in 0 .. Tries
    BY <1>5, TriesAssumption DEF Die
  <2>5. settled' \in {"absent", "built", "bound"} /\ overlapped' \in BOOLEAN
    BY <1>5 DEF Die, View
  <2>6. QED
    BY <1>5, <2>1, <2>2, <2>3, <2>4, <2>5 DEF Die, TypeOK, treeVars, AllLabels
<1>6. CASE UNCHANGED vars
  BY <1>6 DEF TypeOK, vars, treeVars
<1>7. QED
  BY <1>1, <1>2, <1>3, <1>4, <1>5, <1>6 DEF Next

-----------------------------------------------------------------------------
(* The medium is read-only                                                 *)

\* Where nobody goes to the write of the file and nothing happens to the LUN.
LEMMA LunUntouched ==
    ASSUME ROInv, NEW t \in Threads, NEW label, label # "write_file",
           pc' = [pc EXCEPT ![t] = label],
           "function" \in dirs' <=> "function" \in dirs,
           ro' = ro, file' => file
    PROVE  LunInv' /\ MediumReadOnly'
BY CutoverAssumption DEF ROInv, TypeOK, LunInv, MediumReadOnly, Threads

\* The lines of unbind take the file out, or the function with its attributes.
LEMMA LunUnbind ==
    ASSUME ROInv, NEW t \in Threads, UnbindStep(t)
    PROVE  LunInv' /\ MediumReadOnly'
<1>1. CASE RootMissing(t)
  BY <1>1, LunUntouched DEF RootMissing, Unbound, Goto, Return, treeVars
<1>2. CASE RootFound(t)
  BY <1>2, LunUntouched DEF RootFound, Goto, treeVars
<1>3. CASE ClearUdc(t)
  BY <1>3, LunUntouched DEF ClearUdc, Goto
<1>4. CASE ClearFile(t)
  BY <1>4, LunUntouched DEF ClearFile, Goto
<1>5. CASE Unlink(t)
  BY <1>5, LunUntouched DEF Unlink, Goto
<1>6. CASE RemoveLink(t)
  BY <1>6 DEF RemoveLink, ROInv, LunInv, MediumReadOnly
<1>7. CASE RemoveDirectory(t)
  <2>1. PICK d \in todo[t] :
           /\ dirs' = dirs \ {d}
           /\ ro' = (ro /\ d # "function") /\ file' = (file /\ d # "function")
           /\ Goto(t, IF todo'[t] = {} THEN "rm_root" ELSE "rm")
    BY <1>7 DEF RemoveDirectory
  <2>2. CASE d = "function"
    BY <2>1, <2>2 DEF ROInv, LunInv, MediumReadOnly
  <2>3. CASE d # "function"
    BY <2>1, <2>3, LunUntouched DEF Goto, ROInv, TypeOK
  <2>4. QED
    BY <2>2, <2>3
<1>8. CASE RemoveRoot(t)
  <2>1. "function" \notin dirs /\ "function" \notin dirs'
    BY <1>8 DEF RemoveRoot
  <2>2. QED
    BY <1>8, <2>1 DEF RemoveRoot, ROInv, LunInv, MediumReadOnly
<1>9. QED
  BY <1>1, <1>2, <1>3, <1>4, <1>5, <1>6, <1>7, <1>8 DEF UnbindStep

\* The lines of bind write ro before the file.
LEMMA LunBind ==
    ASSUME ROInv, BindStep
    PROVE  LunInv' /\ MediumReadOnly'
<1>c. Cutover \in Threads
  BY DEF Threads
<1>1. CASE CheckStale \/ SelectUdc \/ WriteAttributes
  BY <1>1, <1>c, LunUntouched DEF CheckStale, SelectUdc, WriteAttributes, Goto, treeVars
<1>2. CASE MakeTree
  <2>1. CASE "function" \in dirs
    BY <1>2, <2>1, <1>c, LunUntouched DEF MakeTree, Mkdir, Goto
  <2>2. CASE "function" \notin dirs
    BY <1>2, <2>2, <1>c DEF MakeTree, Mkdir, Goto, ROInv, TypeOK, LunInv, MediumReadOnly
  <2>3. QED
    BY <2>1, <2>2
<1>3. CASE WriteRo
  BY <1>3 DEF WriteRo, ROInv, LunInv, MediumReadOnly
<1>4. CASE WriteFile
  BY <1>4, <1>c DEF WriteFile, Goto, ROInv, TypeOK, LunInv, MediumReadOnly
<1>5. CASE Symlink
  BY <1>5, <1>c, LunUntouched DEF Symlink, Goto
<1>6. CASE WriteUdc
  BY <1>6, <1>c, LunUntouched DEF WriteUdc, Return
<1>7. CASE UdcBusy
  BY <1>7, <1>c, LunUntouched DEF UdcBusy, Goto, Return, treeVars
<1>8. QED
  BY <1>1, <1>2, <1>3, <1>4, <1>5, <1>6, <1>7 DEF BindStep

\* The invariant is inductive.
LEMMA NextROInv == ROInv /\ [Next]_vars => ROInv'
<1>. SUFFICES ASSUME ROInv, [Next]_vars PROVE ROInv'
  OBVIOUS
<1>1. CASE Calls
  <2>1. PICK t \in Threads, label \in {"check", "exists", "force"} : pc' = [pc EXCEPT ![t] = label]
    BY <1>1 DEF Calls, Begin, Threads
  <2>2. dirs' = dirs /\ ro' = ro /\ file' = file
    BY <1>1 DEF Calls, Begin, treeVars
  <2>3. LunInv' /\ MediumReadOnly'
    BY <2>1, <2>2, LunUntouched
  <2>4. QED
    BY <2>3, TypeNext DEF ROInv
<1>2. CASE BindStep
  BY <1>2, LunBind, TypeNext DEF ROInv
<1>3. CASE \E e \in Ejectors : ForceEject(e)
  BY <1>3, LunUntouched, TypeNext DEF ForceEject, Goto, Threads, ROInv
<1>4. ASSUME NEW t \in Threads, UnbindStep(t) \/ Raises(t) PROVE LunInv' /\ MediumReadOnly'
  <2>1. CASE UnbindStep(t)
    BY <2>1, LunUnbind
  <2>2. CASE Raises(t)
    BY <2>2, LunUntouched DEF Raises, Goto, Return, treeVars
  <2>3. QED
    BY <1>4, <2>1, <2>2
<1>5. CASE Die
  BY <1>5, TypeNext DEF Die, treeVars, Threads, ROInv, LunInv, MediumReadOnly
<1>6. CASE UNCHANGED vars
  BY <1>6, TypeNext DEF vars, treeVars, ROInv, LunInv, MediumReadOnly
<1>7. QED
  BY <1>1, <1>2, <1>3, <1>4, <1>5, <1>6, TypeNext DEF Next, ROInv

\* The variables keep their types.
THEOREM TypeCorrect == Spec => []TypeOK
<1>1. ROInv => TypeOK
  BY DEF ROInv
<1>2. QED
  BY <1>1, InitROInv, NextROInv, PTL DEF Spec

\* However many ejects run between the writes of a bind, whatever fails and
\* whenever the process is killed: a LUN with a medium is read-only.
THEOREM MediumNeverWritable == Spec => []MediumReadOnly
<1>1. ROInv => MediumReadOnly
  BY DEF ROInv
<1>2. QED
  BY <1>1, InitROInv, NextROInv, PTL DEF Spec

-----------------------------------------------------------------------------
(***************************************************************************)
(* Nothing stands in the way of a bind that no eject overlaps, and each    *)
(* call of GadgetManager amounts to one operation of HardwareStack, for    *)
(* any number of ejects and of attempts at the UDC.                        *)
(*                                                                         *)
(* What ConfigFS guarantees of any tree, torn or not, is TreeInv; what the *)
(* lines of bind have built so far is BuiltInv.  Together they leave every *)
(* line the state it needs: unbind ends with nothing, whatever it began    *)
(* with, and bind begins with nothing.                                     *)
(***************************************************************************)

AllDirs == {"root", "config", "function"}

\* A child has its parent, a link its ends, a bound gadget its function; and
\* only a bind that returns binds.
TreeInv ==
    /\ dirs # {} => "root" \in dirs
    /\ link => {"config", "function"} \subseteq dirs
    /\ bound => link /\ settled = "bound"

\* Only the cutover binds.
CallInv ==
    /\ \A e \in Ejectors : call[e] # "bind"
    /\ pc[Cutover] \in BindLabels => call[Cutover] = "bind"

\* An eject under way has overlapped the cutover's call.
AloneInv == Active(Cutover) /\ ~overlapped => \A e \in Ejectors : ~Active(e)

Expected(label) ==
    CASE label \in {"select", "mk_root"} -> {}
      [] label = "mk_config"             -> {"root"}
      [] label = "mk_function"           -> {"root", "config"}
      [] OTHER                           -> AllDirs

\* The prefix of the tree that bind has built, or the rest that unbind has left,
\* when the cutover comes to a line.
BuiltAt(label, rest) ==
    /\ label \in BindLabels \ {"check"} => dirs = Expected(label)
    /\ label \in {"attributes", "write_ro"} => ~file
    /\ label \in {"attributes", "write_ro", "write_file", "symlink"} => ~link
    /\ label \in {"symlink", "write_udc"} => file
    /\ label = "write_udc" => link /\ ~bound
    /\ label \in {"rm", "rm_root"} => ~link /\ dirs \subseteq {"root"} \cup rest
    /\ label = "rm_root" => rest = {}

BuiltInv == ~overlapped => BuiltAt(pc[Cutover], todo[Cutover])

UInv == ROInv /\ TreeInv /\ CallInv /\ AloneInv /\ BuiltInv

-----------------------------------------------------------------------------
(* The tree                                                                *)

\* Nothing exists at the start.
LEMMA InitUInv == Init => UInv
<1>. SUFFICES ASSUME Init PROVE UInv
  OBVIOUS
<1>1. ROInv
  BY InitROInv
<1>2. TreeInv /\ CallInv /\ AloneInv /\ BuiltInv
  BY DEF Init, TreeInv, CallInv, AloneInv, BuiltInv, BuiltAt, Active, Rest, BindLabels, Threads
<1>3. QED
  BY <1>1, <1>2 DEF UInv

\* A call that returns has settled the gadget.
LEMMA Settles ==
    ASSUME NEW t \in Threads, NEW outcome, Return(t, outcome),
           dirs' # {} => "root" \in dirs',
           link' => {"config", "function"} \subseteq dirs',
           bound' => link'
    PROVE  TreeInv'
BY DEF Return, View, TreeInv

\* The lines of unbind keep the tree a tree.
LEMMA TreeUnbind ==
    ASSUME TypeOK, TreeInv, NEW t \in Threads, UnbindStep(t)
    PROVE  TreeInv'
<1>1. CASE RootMissing(t) \/ RemoveRoot(t)
  BY <1>1, Settles DEF RootMissing, RemoveRoot, Unbound, Goto, TreeInv, treeVars
<1>2. CASE RootFound(t) \/ ClearUdc(t) \/ ClearFile(t) \/ Unlink(t) \/ RemoveLink(t)
  <2>1. UNCHANGED <<dirs, settled>> /\ (bound' => bound /\ link') /\ (link' => link)
    BY <1>2 DEF RootFound, ClearUdc, ClearFile, Unlink, RemoveLink, Unlinked, Goto, TreeInv, treeVars, TypeOK
  <2>2. QED
    BY <2>1 DEF TreeInv
<1>3. CASE RemoveDirectory(t)
  <2>1. PICK d \in todo[t] : (link => d \notin dirs) /\ dirs' = dirs \ {d}
    BY <1>3 DEF RemoveDirectory
  <2>2. d # "root"
    BY <2>1 DEF TypeOK
  <2>3. UNCHANGED <<link, bound, settled>>
    BY <1>3 DEF RemoveDirectory, Goto
  <2>4. QED
    BY <2>1, <2>2, <2>3 DEF TreeInv
<1>4. QED
  BY <1>1, <1>2, <1>3 DEF UnbindStep

\* The lines of bind keep it one.
LEMMA TreeBind ==
    ASSUME TreeInv, BindStep
    PROVE  TreeInv'
<1>c. Cutover \in Threads
  BY DEF Threads
<1>1. CASE CheckStale \/ SelectUdc \/ MakeTree \/ WriteAttributes \/ WriteRo \/ WriteFile
  BY <1>1 DEF CheckStale, SelectUdc, MakeTree, Mkdir, WriteAttributes, WriteRo, WriteFile, Goto, TreeInv, treeVars
<1>2. CASE Symlink
  BY <1>2 DEF Symlink, Goto, TreeInv
<1>3. CASE WriteUdc \/ UdcBusy
  BY <1>3, <1>c, Settles DEF WriteUdc, UdcBusy, Goto, TreeInv, treeVars
<1>4. QED
  BY <1>1, <1>2, <1>3 DEF BindStep

\* Every step does.
LEMMA TreeNext == TypeOK /\ TreeInv /\ [Next]_vars => TreeInv'
<1>. SUFFICES ASSUME TypeOK, TreeInv, [Next]_vars PROVE TreeInv'
  OBVIOUS
<1>1. CASE Calls
  <2>1. UNCHANGED <<treeVars, settled>>
    BY <1>1 DEF Calls, Begin
  <2>2. QED
    BY <2>1 DEF TreeInv, treeVars
<1>2. CASE BindStep
  BY <1>2, TreeBind
<1>3. CASE \E e \in Ejectors : ForceEject(e)
  BY <1>3 DEF ForceEject, Goto, TreeInv
<1>4. ASSUME NEW t \in Threads, UnbindStep(t) \/ Raises(t) PROVE TreeInv'
  <2>1. CASE UnbindStep(t)
    BY <2>1, TreeUnbind
  <2>2. CASE Raises(t)
    BY <2>2, Settles DEF Raises, Goto, TreeInv, treeVars
  <2>3. QED
    BY <1>4, <2>1, <2>2
<1>5. CASE Die
  BY <1>5 DEF Die, View, TreeInv, treeVars
<1>6. CASE UNCHANGED vars
  BY <1>6 DEF vars, treeVars, TreeInv
<1>7. QED
  BY <1>1, <1>2, <1>3, <1>4, <1>5, <1>6 DEF Next

-----------------------------------------------------------------------------
(* The threads                                                             *)

\* A thread goes to another line of its call.
LEMMA CallsStay ==
    ASSUME TypeOK, CallInv, AloneInv, NEW t \in Threads, NEW label,
           pc' = [pc EXCEPT ![t] = label], UNCHANGED <<call, overlapped>>, Active(t),
           t = Cutover /\ label \in BindLabels => call[Cutover] = "bind"
    PROVE  CallInv' /\ AloneInv'
BY CutoverAssumption DEF TypeOK, CallInv, AloneInv, Active, Threads

\* Only a call of bind has lines of bind, and overlapped is what its name says.
LEMMA CallsNext == TypeOK /\ CallInv /\ AloneInv /\ [Next]_vars => CallInv' /\ AloneInv'
<1>. SUFFICES ASSUME TypeOK, CallInv, AloneInv, [Next]_vars PROVE CallInv' /\ AloneInv'
  OBVIOUS
<1>1. CASE Calls
  BY <1>1, CutoverAssumption DEF Calls, Begin, TypeOK, CallInv, AloneInv, Active, Threads, BindLabels, Rest
<1>2. CASE BindStep
  <2>1. PICK label : pc' = [pc EXCEPT ![Cutover] = label]
    BY <1>2 DEF BindStep, CheckStale, SelectUdc, MakeTree, Mkdir, WriteAttributes, WriteRo, WriteFile, Symlink,
                WriteUdc, UdcBusy, Goto, Return
  <2>2. UNCHANGED <<call, overlapped>> /\ pc[Cutover] \in BindLabels
    BY <1>2 DEF BindStep, CheckStale, SelectUdc, MakeTree, Mkdir, WriteAttributes, WriteRo, WriteFile, Symlink,
                WriteUdc, UdcBusy, Goto, Return, BindLabels
  <2>3. Active(Cutover) /\ call[Cutover] = "bind" /\ Cutover \in Threads
    BY <2>2 DEF CallInv, Active, BindLabels, Rest, Threads
  <2>4. QED
    BY <2>1, <2>2, <2>3, CallsStay
<1>3. CASE \E e \in Ejectors : ForceEject(e)
  BY <1>3, CallsStay, CutoverAssumption DEF ForceEject, Goto, Threads, Active, Rest
<1>4. ASSUME NEW t \in Threads, UnbindStep(t) PROVE CallInv' /\ AloneInv'
  <2>1. CASE RemoveLink(t)
    BY <2>1 DEF RemoveLink, CallInv, AloneInv, Active
  <2>2. CASE ~RemoveLink(t)
    <3>1. PICK label \in UnbindLabels \cup {"select", "ok"} :
             pc' = [pc EXCEPT ![t] = label] /\ (label = "select" => call[t] = "bind")
      BY <1>4, <2>2
         DEF UnbindStep, RootMissing, RootFound, ClearUdc, ClearFile, Unlink, RemoveDirectory, RemoveRoot, Unbound,
             Goto, Return, UnbindLabels
    <3>2. UNCHANGED <<call, overlapped>> /\ pc[t] \in UnbindLabels
      BY <1>4, <2>2
         DEF UnbindStep, RootMissing, RootFound, ClearUdc, ClearFile, Unlink, RemoveDirectory, RemoveRoot, Unbound,
             Goto, Return, UnbindLabels
    <3>3. QED
      BY <3>1, <3>2, CallsStay DEF Active, Rest, UnbindLabels, BindLabels
  <2>3. QED
    BY <2>1, <2>2
<1>5. ASSUME NEW t \in Threads, Raises(t) PROVE CallInv' /\ AloneInv'
  BY <1>5, CallsStay DEF Raises, Goto, Return, BindLabels
<1>6. CASE Die
  BY <1>6 DEF Die, CallInv, AloneInv, Active, Threads, Rest, BindLabels
<1>7. CASE UNCHANGED vars
  BY <1>7 DEF vars, CallInv, AloneInv, Active
<1>8. QED
  BY <1>1, <1>2, <1>3, <1>4, <1>5, <1>6, <1>7 DEF Next

-----------------------------------------------------------------------------
(* What bind finds                                                         *)

\* Where no line of the cutover has come to depends on the tree.
LEMMA BuiltNothing ==
    ASSUME pc'[Cutover] \notin (BindLabels \ {"check"}) \cup {"rm", "rm_root"}
    PROVE  BuiltInv'
BY DEF BuiltInv, BuiltAt, BindLabels

\* While an eject runs that has not overlapped the cutover, the cutover rests.
LEMMA BuiltElsewhere ==
    ASSUME TypeOK, AloneInv, NEW e \in Ejectors, Active(e), pc'[Cutover] = pc[Cutover], overlapped' = overlapped
    PROVE  BuiltInv'
BY DEF AloneInv, BuiltInv, BuiltAt, Active, Rest, BindLabels

\* unbind leaves nothing, whatever was there.
LEMMA BuiltUnbind ==
    ASSUME ROInv, TreeInv, BuiltInv, UnbindStep(Cutover)
    PROVE  BuiltInv'
<1>c. Cutover \in Threads /\ Cutover \in DOMAIN pc /\ Cutover \in DOMAIN todo /\ TypeOK
  BY DEF Threads, ROInv, TypeOK
<1>1. CASE RootMissing(Cutover) \/ RemoveRoot(Cutover)
  <2>1. pc'[Cutover] \in {"select", "ok"} /\ dirs' = {}
    BY <1>1, <1>c DEF RootMissing, RemoveRoot, Unbound, Goto, Return, treeVars, TreeInv
  <2>2. QED
    BY <2>1 DEF BuiltInv, BuiltAt, Expected, BindLabels
<1>2. CASE RootFound(Cutover) \/ ClearUdc(Cutover) \/ ClearFile(Cutover)
  <2>1. pc'[Cutover] \in {"clear_udc", "clear_file", "unlink"}
    BY <1>2, <1>c DEF RootFound, ClearUdc, ClearFile, Goto
  <2>2. QED
    BY <2>1, BuiltNothing DEF BindLabels
<1>3. CASE Unlink(Cutover)
  <2>1. pc'[Cutover] = "rm" /\ todo'[Cutover] = {"config", "function"} /\ ~link' /\ dirs' \subseteq AllDirs
    BY <1>3, <1>c DEF Unlink, Unlinked, Goto, TypeOK, AllDirs
  <2>2. QED
    BY <2>1 DEF BuiltInv, BuiltAt, AllDirs, BindLabels
<1>4. CASE RemoveLink(Cutover)
  BY <1>4 DEF RemoveLink, BuiltInv, BuiltAt, BindLabels
<1>5. CASE RemoveDirectory(Cutover)
  <2>1. PICK d \in todo[Cutover] :
           /\ dirs' = dirs \ {d} /\ todo' = [todo EXCEPT ![Cutover] = @ \ {d}]
           /\ Goto(Cutover, IF todo'[Cutover] = {} THEN "rm_root" ELSE "rm")
    BY <1>5 DEF RemoveDirectory
  <2>2. todo'[Cutover] = todo[Cutover] \ {d} /\ link' = link /\ overlapped' = overlapped
    BY <1>5, <2>1, <1>c DEF RemoveDirectory, Goto
  <2>3. pc[Cutover] = "rm" /\ pc'[Cutover] = (IF todo'[Cutover] = {} THEN "rm_root" ELSE "rm")
    BY <1>5, <2>1, <1>c DEF RemoveDirectory, Goto
  <2>4. QED
    BY <2>1, <2>2, <2>3 DEF BuiltInv, BuiltAt, BindLabels
<1>6. QED
  BY <1>1, <1>2, <1>3, <1>4, <1>5 DEF UnbindStep

\* Each line of bind leaves the next one what it needs.
LEMMA BuiltBind ==
    ASSUME ROInv, TreeInv, BuiltInv, BindStep
    PROVE  BuiltInv'
<1>c. Cutover \in DOMAIN pc
  BY DEF Threads, ROInv, TypeOK
<1>1. CASE CheckStale
  <2>1. pc'[Cutover] \in {"exists", "select"} /\ (pc'[Cutover] = "select" => dirs' = {})
    BY <1>1, <1>c DEF CheckStale, Goto, treeVars, TreeInv
  <2>2. QED
    BY <2>1 DEF BuiltInv, BuiltAt, Expected, BindLabels
<1>2. CASE SelectUdc
  <2>1. pc[Cutover] = "select" /\ pc'[Cutover] = "mk_root" /\ dirs' = dirs /\ overlapped' = overlapped
    BY <1>2, <1>c DEF SelectUdc, Goto, treeVars
  <2>2. QED
    BY <2>1 DEF BuiltInv, BuiltAt, Expected, BindLabels
<1>3. CASE MakeTree
  <2>1. /\ overlapped' = overlapped /\ link' = link /\ file' = file
        /\ \/ pc[Cutover] = "mk_root" /\ pc'[Cutover] = "mk_config" /\ dirs' = dirs \cup {"root"}
           \/ pc[Cutover] = "mk_config" /\ pc'[Cutover] = "mk_function" /\ dirs' = dirs \cup {"root", "config"}
           \/ pc[Cutover] = "mk_function" /\ pc'[Cutover] = "attributes" /\ dirs' = dirs \cup {"root", "function"}
    BY <1>3, <1>c DEF MakeTree, Mkdir, Goto
  <2>2. pc[Cutover] = "mk_function" /\ ~overlapped => dirs = {"root", "config"} /\ ~link /\ ~file
    BY DEF BuiltInv, BuiltAt, Expected, BindLabels, TreeInv, ROInv, LunInv
  <2>3. QED
    BY <2>1, <2>2 DEF BuiltInv, BuiltAt, Expected, BindLabels, AllDirs
<1>4. CASE WriteAttributes \/ WriteRo
  <2>1. /\ overlapped' = overlapped /\ link' = link /\ file' = file /\ dirs' = dirs
        /\ \/ pc[Cutover] = "attributes" /\ pc'[Cutover] = "write_ro"
           \/ pc[Cutover] = "write_ro" /\ pc'[Cutover] = "write_file"
    BY <1>4, <1>c DEF WriteAttributes, WriteRo, Goto, treeVars
  <2>2. QED
    BY <2>1 DEF BuiltInv, BuiltAt, Expected, BindLabels
<1>5. CASE WriteFile
  <2>1. /\ overlapped' = overlapped /\ link' = link /\ file' /\ dirs' = dirs
        /\ pc[Cutover] = "write_file" /\ pc'[Cutover] = "symlink"
    BY <1>5, <1>c DEF WriteFile, Goto
  <2>2. QED
    BY <2>1 DEF BuiltInv, BuiltAt, Expected, BindLabels
<1>6. CASE Symlink
  <2>1. /\ overlapped' = overlapped /\ link' /\ file' = file /\ dirs' = dirs /\ bound' = bound
        /\ pc[Cutover] = "symlink" /\ pc'[Cutover] = "write_udc"
    BY <1>6, <1>c DEF Symlink, Goto
  <2>2. QED
    BY <2>1 DEF BuiltInv, BuiltAt, Expected, BindLabels, TreeInv
<1>7. CASE WriteUdc \/ UdcBusy
  <2>1. pc[Cutover] = "write_udc" /\ pc'[Cutover] \in {"write_udc", "ok", "failed"} /\ overlapped' = overlapped
    BY <1>7, <1>c DEF WriteUdc, UdcBusy, Goto, Return
  <2>2. CASE pc'[Cutover] # "write_udc"
    BY <2>1, <2>2, BuiltNothing DEF BindLabels
  <2>3. CASE pc'[Cutover] = "write_udc"
    <3>1. UNCHANGED treeVars
      BY <1>7, <1>c, <2>3 DEF WriteUdc, UdcBusy, Return
    <3>2. QED
      BY <2>1, <2>3, <3>1 DEF BuiltInv, BuiltAt, Expected, BindLabels, treeVars
  <2>4. QED
    BY <2>2, <2>3
<1>8. QED
  BY <1>1, <1>2, <1>3, <1>4, <1>5, <1>6, <1>7 DEF BindStep

\* The invariant is inductive.
LEMMA NextUInv == UInv /\ [Next]_vars => UInv'
<1>. SUFFICES ASSUME UInv, [Next]_vars PROVE UInv'
  OBVIOUS
<1>. USE DEF UInv
<1>t. TypeOK
  BY DEF ROInv
<1>1. ROInv' /\ TreeInv' /\ CallInv' /\ AloneInv'
  BY <1>t, NextROInv, TreeNext, CallsNext
<1>2. BuiltInv'
  <2>1. CASE Calls
    <3>1. CASE Begin(Cutover, "bind", "check") \/ Begin(Cutover, "unbind", "exists")
      <4>1. pc'[Cutover] \in {"check", "exists"}
        BY <3>1, <1>t DEF Begin, TypeOK, Threads
      <4>2. QED
        BY <4>1, BuiltNothing DEF BindLabels
    <3>2. ASSUME NEW e \in Ejectors, Begin(e, "eject", "force") PROVE BuiltInv'
      <4>1. /\ pc'[Cutover] = pc[Cutover] /\ overlapped' = (overlapped \/ Active(Cutover))
            /\ UNCHANGED <<treeVars, todo>>
        BY <3>2, <1>t, CutoverAssumption DEF Begin, TypeOK, Threads
      <4>2. CASE Active(Cutover)
        BY <4>1, <4>2 DEF BuiltInv
      <4>3. CASE ~Active(Cutover)
        BY <4>1, <4>3, BuiltNothing DEF Active, Rest, BindLabels
      <4>4. QED
        BY <4>2, <4>3
    <3>3. QED
      BY <2>1, <3>1, <3>2 DEF Calls
  <2>2. CASE BindStep
    BY <2>2, BuiltBind
  <2>3. ASSUME NEW e \in Ejectors, ForceEject(e) PROVE BuiltInv'
    <3>1. Active(e) /\ pc'[Cutover] = pc[Cutover] /\ overlapped' = overlapped
      BY <2>3, <1>t, CutoverAssumption DEF ForceEject, Goto, Active, Rest, TypeOK, Threads
    <3>2. QED
      BY <1>t, <3>1, BuiltElsewhere
  <2>4. ASSUME NEW e \in Ejectors, UnbindStep(e) \/ Raises(e) PROVE BuiltInv'
    <3>1. Active(e)
      BY <2>4 DEF UnbindStep, RootMissing, RootFound, ClearUdc, ClearFile, Unlink, RemoveLink, RemoveDirectory,
                  RemoveRoot, Raises, Active, Rest
    <3>2. pc'[Cutover] = pc[Cutover] /\ overlapped' = overlapped
      BY <2>4, <1>t, CutoverAssumption
         DEF UnbindStep, RootMissing, RootFound, ClearUdc, ClearFile, Unlink, RemoveLink, RemoveDirectory,
             RemoveRoot, Unbound, Raises, Goto, Return, TypeOK, Threads
    <3>3. QED
      BY <1>t, <3>1, <3>2, BuiltElsewhere
  <2>5. CASE UnbindStep(Cutover)
    BY <2>5, BuiltUnbind
  <2>6. CASE Raises(Cutover)
    <3>1. pc'[Cutover] = "failed"
      BY <2>6, <1>t DEF Raises, Goto, Return, TypeOK, Threads
    <3>2. QED
      BY <3>1, BuiltNothing DEF BindLabels
  <2>7. CASE Die
    BY <2>7, BuiltNothing DEF Die, Threads, BindLabels
  <2>8. CASE UNCHANGED vars
    BY <2>8 DEF vars, treeVars, BuiltInv, BuiltAt
  <2>9. QED
    BY <2>1, <2>2, <2>3, <2>4, <2>5, <2>6, <2>7, <2>8 DEF Next, Threads
<1>3. QED
  BY <1>1, <1>2

\* What fails or is killed, in a bind, an unbind or an eject, never leaves the
\* gadget in a state that keeps the next bind from succeeding.
THEOREM NothingInTheWay == Spec => []Unobstructed
<1>1. UInv => Unobstructed
  BY DEF UInv, BuiltInv, BuiltAt, Expected, AllDirs, BindLabels, TreeInv, Unobstructed
<1>2. QED
  BY <1>1, InitUInv, NextUInv, PTL DEF Spec

-----------------------------------------------------------------------------
(* The operations of HardwareStack                                         *)

\* What no call has settled has not changed for HardwareStack.
Unsettled == (\A t \in Threads : ~Returns(t, "ok") /\ ~Returns(t, "failed")) /\ settled' = settled

OneStep ==
    \/ \E t \in Threads :
         \/ call[t] = "bind" /\ Returns(t, "ok")     /\ Stack!GadgetBind
         \/ call[t] = "bind" /\ Returns(t, "failed") /\ Stack!GadgetBindFails
         \/ call[t] # "bind" /\ Returns(t, "ok")     /\ Stack!GadgetUnbind
         \/ call[t] # "bind" /\ Returns(t, "failed") /\ Stack!GadgetUnbindFails
    \/ (\A t \in Threads : Active(t) => pc'[t] = "idle") /\ Stack!GadgetTorn
    \/ Unsettled

\* The operations, spelled out: a call that raises leaves the gadget as it was
\* or a tree that is not bound.
LEMMA Operations ==
    /\ settled' = "bound" => Stack!GadgetBind
    /\ settled' = "absent" => Stack!GadgetUnbind
    /\ settled' \in {settled, "absent", "built"} =>
          Stack!GadgetBindFails /\ Stack!GadgetUnbindFails /\ Stack!GadgetTorn
BY DEF Stack!GadgetBind, Stack!GadgetUnbind, Stack!GadgetBindFails, Stack!GadgetUnbindFails, Stack!GadgetTorn

\* A gadget that is bound now was bound by a call that returned.
LEMMA NothingNew ==
    ASSUME TreeInv, bound' = bound
    PROVE  View(dirs', bound') \in {settled, "absent", "built"}
BY DEF View, TreeInv

\* A thread goes on to another line of its call.
LEMMA GoesOn ==
    ASSUME TypeOK, NEW t \in Threads, NEW label, Goto(t, label), label \notin {"ok", "failed"}
    PROVE  Unsettled
<1>1. settled' = settled /\ \A u \in Threads : pc'[u] = pc[u] \/ pc'[u] = label
  BY DEF Goto, TypeOK
<1>2. QED
  BY <1>1 DEF Unsettled, Returns, Active, Rest

\* A call raises.
LEMMA CallRaises ==
    ASSUME TypeOK, TreeInv, NEW t \in Threads, Active(t), pc[t] # "force", Return(t, "failed"), bound' = bound
    PROVE  OneStep
<1>1. Returns(t, "failed")
  BY DEF Returns, Return, TypeOK
<1>2. settled' \in {settled, "absent", "built"}
  BY NothingNew DEF Return
<1>3. QED
  BY <1>1, <1>2, Operations DEF OneStep

\* unbind and eject return with nothing left.
LEMMA UnbindReturns ==
    ASSUME TypeOK, NEW t \in Threads, pc[t] \in {"exists", "rm_root"}, "root" \notin dirs', Unbound(t)
    PROVE  OneStep
<1>1. CASE call[t] = "bind"
  BY <1>1, GoesOn DEF Unbound, OneStep
<1>2. CASE call[t] # "bind"
  <2>1. Returns(t, "ok") /\ settled' = "absent"
    BY <1>2 DEF Unbound, Returns, Return, View, Active, Rest, TypeOK
  <2>2. QED
    BY <1>2, <2>1, Operations DEF OneStep
<1>3. QED
  BY <1>1, <1>2

\* A line of unbind.
LEMMA OneStepUnbind ==
    ASSUME TypeOK, NEW t \in Threads, UnbindStep(t)
    PROVE  OneStep
<1>1. CASE RootMissing(t) \/ RemoveRoot(t)
  BY <1>1, UnbindReturns DEF RootMissing, RemoveRoot, treeVars
<1>2. CASE RootFound(t) \/ ClearUdc(t) \/ ClearFile(t) \/ Unlink(t)
  BY <1>2, GoesOn DEF RootFound, ClearUdc, ClearFile, Unlink, OneStep
<1>3. CASE RemoveDirectory(t)
  BY <1>3, GoesOn DEF RemoveDirectory, OneStep
<1>4. CASE RemoveLink(t)
  <2>1. UNCHANGED <<pc, settled>>
    BY <1>4 DEF RemoveLink
  <2>2. QED
    BY <2>1 DEF OneStep, Unsettled, Returns, Active, Rest
<1>5. QED
  BY <1>1, <1>2, <1>3, <1>4 DEF UnbindStep

\* A line of bind.
LEMMA OneStepBind ==
    ASSUME TypeOK, TreeInv, TreeInv', CallInv, BindStep
    PROVE  OneStep
<1>c. Cutover \in Threads
  BY DEF Threads
<1>1. CASE CheckStale \/ SelectUdc \/ MakeTree \/ WriteAttributes \/ WriteRo \/ WriteFile \/ Symlink
  <2>1. PICK label \in BindLabels \cup {"exists"} : Goto(Cutover, label)
    BY <1>1 DEF CheckStale, SelectUdc, MakeTree, Mkdir, WriteAttributes, WriteRo, WriteFile, Symlink, BindLabels
  <2>2. QED
    BY <1>c, <2>1, GoesOn DEF BindLabels, OneStep
<1>2. CASE WriteUdc
  <2>1. Returns(Cutover, "ok") /\ call[Cutover] = "bind"
    BY <1>2, <1>c DEF WriteUdc, Returns, Return, Active, Rest, TypeOK, CallInv, BindLabels
  <2>2. settled' = "bound"
    BY <1>2 DEF WriteUdc, TreeInv
  <2>3. QED
    BY <1>c, <2>1, <2>2, Operations DEF OneStep
<1>3. CASE UdcBusy
  <2>1. Active(Cutover) /\ pc[Cutover] # "force" /\ bound' = bound
    BY <1>3 DEF UdcBusy, Active, Rest, treeVars
  <2>2. Goto(Cutover, "write_udc") \/ Return(Cutover, "failed")
    BY <1>3 DEF UdcBusy
  <2>3. QED
    BY <1>c, <2>1, <2>2, GoesOn, CallRaises DEF OneStep
<1>4. QED
  BY <1>1, <1>2, <1>3 DEF BindStep

\* Every step.
LEMMA OneStepNext == UInv /\ [Next]_vars => [OneStep]_vars
<1>. SUFFICES ASSUME UInv, Next PROVE OneStep
  OBVIOUS
<1>t. TypeOK /\ TreeInv /\ CallInv /\ TreeInv'
  BY TreeNext DEF UInv, ROInv
<1>1. CASE Calls
  <2>1. settled' = settled
    BY <1>1 DEF Calls, Begin
  <2>2. PICK t \in Threads, label \in {"check", "exists", "force"} : pc' = [pc EXCEPT ![t] = label]
    BY <1>1 DEF Calls, Begin, Threads
  <2>3. \A u \in Threads : pc'[u] = pc[u] \/ pc'[u] \in {"check", "exists", "force"}
    BY <1>t, <2>2 DEF TypeOK
  <2>4. QED
    BY <2>1, <2>3 DEF OneStep, Unsettled, Returns, Active, Rest
<1>2. CASE BindStep
  BY <1>t, <1>2, OneStepBind
<1>3. CASE \E e \in Ejectors : ForceEject(e)
  BY <1>t, <1>3, GoesOn DEF ForceEject, Threads, OneStep
<1>4. ASSUME NEW t \in Threads, UnbindStep(t) PROVE OneStep
  BY <1>t, <1>4, OneStepUnbind
<1>5. ASSUME NEW t \in Threads, Raises(t) PROVE OneStep
  <2>1. CASE pc[t] # "force"
    BY <1>t, <1>5, <2>1, CallRaises DEF Raises, treeVars
  <2>2. CASE pc[t] = "force"
    <3>1. settled' = settled /\ \A u \in Threads : pc'[u] = pc[u] \/ pc[u] = "force"
      BY <1>t, <1>5, <2>2 DEF Raises, Goto, TypeOK
    <3>2. QED
      BY <3>1 DEF OneStep, Unsettled, Returns, Active, Rest
  <2>3. QED
    BY <2>1, <2>2
<1>6. CASE Die
  <2>1. (\A t \in Threads : pc'[t] = "idle") /\ settled' = View(dirs', bound') /\ bound' = bound
    BY <1>6 DEF Die, treeVars
  <2>2. QED
    BY <1>t, <2>1, NothingNew, Operations DEF OneStep
<1>7. QED
  BY <1>1, <1>2, <1>3, <1>4, <1>5, <1>6 DEF Next

\* bind, unbind and eject, write by write and interleaved, failing or killed
\* anywhere, do to the gadget what the single steps of HardwareStack do.
THEOREM CallsAreOneStep == Spec => OneStepOperations
<1>1. UInv /\ [Next]_vars =>
        [\/ \E t \in Threads :
              \/ call[t] = "bind" /\ Returns(t, "ok")     /\ Stack!GadgetBind
              \/ call[t] = "bind" /\ Returns(t, "failed") /\ Stack!GadgetBindFails
              \/ call[t] # "bind" /\ Returns(t, "ok")     /\ Stack!GadgetUnbind
              \/ call[t] # "bind" /\ Returns(t, "failed") /\ Stack!GadgetUnbindFails
         \/ (\A t \in Threads : Active(t) => pc'[t] = "idle") /\ Stack!GadgetTorn
         \/ (\A t \in Threads : ~Returns(t, "ok") /\ ~Returns(t, "failed")) /\ settled' = settled]_vars
  BY OneStepNext DEF OneStep, Unsettled
<1>2. QED
  BY <1>1, InitUInv, NextUInv, PTL DEF Spec, OneStepOperations

=============================================================================
