---------------------------- MODULE SourceProofs ----------------------------
(***************************************************************************)
(* Mounts and descriptors, for any sources, shares, compilations,          *)
(* connections and files.                                                  *)
(*                                                                         *)
(* Four inductive invariants, one for each way things are shared: the      *)
(* mount of a compilation that is about to run counts towards the height   *)
(* of the stack (StackInv); where no two compilations have been about to   *)
(* mount at a time, one that is finds nothing mounted, so that nothing is  *)
(* ever mounted over anything (SettledInv); a compilation has all its      *)
(* sources mounted when it comes to scan them (LoopInv), and stacks only   *)
(* grow otherwise; as long as no close has overlapped another callback,    *)
(* the one callback that runs knows which descriptors are open (CacheInv). *)
(***************************************************************************)
EXTENDS SourceAccess, FiniteSetTheorems, TLAPS

StackInv ==
    \A m \in Points \ Respelled : past[m] # "misread" =>
        Len(stack[m]) + Cardinality(Pending(m)) =< Cardinality(Compilers)

SettledInv ==
    \A m \in Points \ Respelled : past[m] = "settled" =>
        /\ \A c, d \in Pending(m) : c = d
        /\ Pending(m) # {} => stack[m] = <<>>

HasMount(s) == past[s[1]] \in {"settled", "contested"} => stack[s[1]] # <<>>

LoopInv ==
    \A c \in Compilers :
        /\ cpc[c] = "loop" => \A s \in sources[c] \ left[c] : HasMount(s)
        /\ cpc[c] = "mount" => /\ \A s \in sources[c] \ (left[c] \cup current[c]) : HasMount(s)
                              /\ \A s, t \in current[c] : s = t
        /\ cpc[c] = "scan" => left[c] \subseteq sources[c] /\ \A s \in sources[c] : HasMount(s)

InCallback(c) == Reads(c) \/ Closes(c)

OneCallback == \A c, d \in Conns : InCallback(c) /\ InCallback(d) => c = d

DistinctPairs == \A i, j \in DOMAIN fds : i # j => fds[i][1] # fds[j][1] /\ fds[i][2] # fds[j][2]

\* What close has not come to yet is open, and what it has passed is not.
OpenAhead ==
    \A i \in DOMAIN fds :
        (\A c \in Conns : Closes(c) => passed[c] < i) => Open(fds[i][2]) /\ table[fds[i][2]][1] = fds[i][1]

ClosedBehind ==
    \A c \in Conns : Closes(c) =>
        size[c] = Len(fds) /\ passed[c] =< Len(fds) /\ \A i \in 1 .. passed[c] : ~Open(fds[i][2])

NoneLost ==
    \A n \in Fds : Open(n) =>
        (\E i \in DOMAIN fds : fds[i][2] = n) \/ (\E c \in Conns : at[c] = "store" /\ fd[c] = n)

Holds(c) == Open(fd[c]) /\ table[fd[c]][1] = Head(paths[c])

StoreReady ==
    \A c \in Conns : at[c] = "store" =>
        Holds(c) /\ \A i \in DOMAIN fds : fds[i][1] # Head(paths[c]) /\ fds[i][2] # fd[c]

PreadReady == \A c \in Conns : at[c] = "pread" => Holds(c)

CacheParts ==
    OneCallback /\ DistinctPairs /\ OpenAhead /\ ClosedBehind /\ NoneLost /\ StoreReady /\ PreadReady

CacheInv == ~overlapped => CacheParts

ReadInv ==
    /\ \A c, d \in Conns : Reads(c) /\ Reads(d) => c = d
    /\ \A c \in Conns : Reads(c) => paths[c] # <<>>
    /\ \A c \in Conns : at[c] \in {"store", "pread"} => fd[c] \in Fds

-----------------------------------------------------------------------------
(* Facts                                                                   *)

\* A sequence something was appended to is not empty.
LEMMA AppendNotEmpty ==
    ASSUME NEW S, NEW q \in Seq(S), NEW x \in S
    PROVE  Append(q, x) # <<>>
<1>1. Len(Append(q, x)) = Len(q) + 1 /\ Len(q) \in Nat
  OBVIOUS
<1>2. Len(<<>>) = 0
  OBVIOUS
<1>3. QED
  BY <1>1, <1>2

\* The share on top is one of those mounted.
LEMMA TopMounted ==
    ASSUME MountTypeOK, NEW m \in Points, stack[m] # <<>>
    PROVE  Visible(m) \in MountedOn(m) /\ Visible(m) \in Shares
BY DEF MountTypeOK, Visible, MountedOn

\* What a mount does to the stacks.
LEMMA MountGrows ==
    ASSUME MountTypeOK, NEW c \in Compilers, Mount(c)
    PROVE  \E s \in current[c] :
              /\ s[1] \in Points /\ s[2] \in Shares
              /\ stack' = [stack EXCEPT ![s[1]] = Append(@, s[2])]
              /\ stack'[s[1]] = Append(stack[s[1]], s[2])
              /\ stack'[s[1]] # <<>>
              /\ Len(stack'[s[1]]) = Len(stack[s[1]]) + 1
              /\ \A m \in Points : m # s[1] => stack'[m] = stack[m]
<1>1. PICK s \in current[c] : stack' = [stack EXCEPT ![s[1]] = Append(@, s[2])]
  BY DEF Mount
<1>2. s[1] \in Points /\ s[2] \in Shares
  BY DEF MountTypeOK, Source
<1>3. stack'[s[1]] = Append(stack[s[1]], s[2]) /\ \A m \in Points : m # s[1] => stack'[m] = stack[m]
  BY <1>1, <1>2 DEF MountTypeOK
<1>4. stack'[s[1]] # <<>> /\ Len(stack'[s[1]]) = Len(stack[s[1]]) + 1
  <2>1. stack[s[1]] \in Seq(Shares)
    BY <1>2 DEF MountTypeOK
  <2>2. stack'[s[1]] # <<>>
    BY <1>2, <1>3, <2>1, AppendNotEmpty
  <2>3. Len(Append(stack[s[1]], s[2])) = Len(stack[s[1]]) + 1
    BY <1>2, <2>1
  <2>4. QED
    BY <1>3, <2>2, <2>3
<1>5. QED
  BY <1>1, <1>2, <1>3, <1>4

-----------------------------------------------------------------------------
(* Mounts                                                                  *)

MountStep ==
    \/ \E c \in Compilers : CompileStep(c)
    \/ \E m \in Points : Unmount(m)

\* What has happened to a mount point only gets worse.
LEMMA PastWorsens ==
    ASSUME MountTypeOK, MountStep
    PROVE  /\ past' \in [Points -> Troubles]
           /\ \A m \in Points :
                 /\ past'[m] = "settled" => past[m] = "settled"
                 /\ past'[m] \in {"settled", "contested"} => past[m] \in {"settled", "contested"}
                 /\ past'[m] # "misread" => past[m] # "misread"
<1>. USE DEF Worse, Rank, Troubles
<1>t. past \in [Points -> Troubles]
  BY DEF MountTypeOK
<1>1. ASSUME NEW c \in Compilers, GoToMount(c)
      PROVE  /\ past' \in [Points -> Troubles]
             /\ \A m \in Points :
                   /\ past'[m] = "settled" => past[m] = "settled"
                   /\ past'[m] \in {"settled", "contested"} => past[m] \in {"settled", "contested"}
                   /\ past'[m] # "misread" => past[m] # "misread"
  <2>1. PICK s \in left[c] :
           \/ past' = past
           \/ past' = Worse(s[1], "misread")
           \/ past' = Worse(s[1], "contested")
    BY <1>1 DEF GoToMount
  <2>2. QED
    BY <1>t, <2>1
<1>2. ASSUME NEW c \in Compilers, CompileStep(c), ~GoToMount(c) PROVE past' = past
  BY <1>2 DEF CompileStep, Compile, PassOver, Mount, MountFails, ScanFails, Raise, Mounted, Scan, Compiled
<1>3. ASSUME NEW t \in Points, Unmount(t)
      PROVE  /\ past' \in [Points -> Troubles]
             /\ \A m \in Points :
                   /\ past'[m] = "settled" => past[m] = "settled"
                   /\ past'[m] \in {"settled", "contested"} => past[m] \in {"settled", "contested"}
                   /\ past'[m] # "misread" => past[m] # "misread"
  BY <1>t, <1>3 DEF Unmount
<1>4. QED
  BY <1>t, <1>1, <1>2, <1>3 DEF MountStep

\* An unmount is remembered, and changes no other mount point.
LEMMA UnmountSeen ==
    ASSUME MountTypeOK, NEW t \in Points, Unmount(t)
    PROVE  /\ past'[t] \in {"unmounted", "misread"}
           /\ \A m \in Points \ {t} : stack'[m] = stack[m] /\ past'[m] = past[m]
BY DEF Unmount, Worse, Rank, Troubles, MountTypeOK

\* Compilations and unmounts keep the types.
LEMMA TypeMount ==
    ASSUME MountTypeOK, MountStep
    PROVE  MountTypeOK'
<1>p. past' \in [Points -> Troubles]
  BY PastWorsens
<1>1. ASSUME NEW c \in Compilers, CompileStep(c) PROVE MountTypeOK'
  <2>. USE DEF MountTypeOK
  <2>1. CASE Compile(c)
    BY <2>1 DEF Compile
  <2>2. CASE PassOver(c) \/ Mounted(c) \/ Compiled(c)
    BY <2>2 DEF PassOver, Mounted, Compiled
  <2>7. CASE GoToMount(c)
    <3>1. PICK s \in left[c] : left' = [left EXCEPT ![c] = @ \ {s}] /\ current' = [current EXCEPT ![c] = {s}]
      BY <2>7 DEF GoToMount
    <3>2. left[c] \subseteq Source
      OBVIOUS
    <3>3. {s} \in SUBSET Source
      BY <3>2
    <3>4. left' \in [Compilers -> SUBSET Source] /\ current' \in [Compilers -> SUBSET Source]
      BY <3>1, <3>3
    <3>5. QED
      BY <1>p, <2>7, <3>4 DEF GoToMount
  <2>3. CASE Mount(c)
    <3>1. PICK s \in current[c] :
             s[1] \in Points /\ s[2] \in Shares /\ stack' = [stack EXCEPT ![s[1]] = Append(@, s[2])]
      BY <2>3, MountGrows
    <3>2. stack' \in [Points -> Seq(Shares)]
      BY <3>1
    <3>3. QED
      BY <2>3, <3>2 DEF Mount
  <2>4. CASE MountFails(c) \/ ScanFails(c)
    BY <2>4 DEF MountFails, ScanFails, Raise
  <2>5. CASE Scan(c)
    <3>1. PICK s \in left[c] :
             /\ left' = [left EXCEPT ![c] = {t \in @ : t[1] # s[1]}]
             /\ scanned' = [scanned EXCEPT ![c] = @ \cup {<<s[1], Visible(s[1])>>}]
      BY <2>5 DEF Scan
    <3>2. s[1] \in Points
      BY <3>1 DEF Source
    <3>3. <<s[1], Visible(s[1])>> \in Found
      BY <3>2, TopMounted DEF Visible, Found
    <3>4. scanned' \in [Compilers -> SUBSET Found]
      BY <3>1, <3>3
    <3>5. QED
      BY <2>5, <3>1, <3>4 DEF Scan
  <2>6. QED
    BY <1>1, <2>1, <2>2, <2>3, <2>4, <2>5, <2>7 DEF CompileStep
<1>2. ASSUME NEW m \in Points, Unmount(m) PROVE MountTypeOK'
  <2>1. SubSeq(stack[m], 1, Len(stack[m]) - 1) \in Seq(Shares)
    BY <1>2 DEF Unmount, MountTypeOK
  <2>2. stack' \in [Points -> Seq(Shares)]
    BY <1>2, <2>1 DEF Unmount, MountTypeOK
  <2>3. QED
    BY <1>p, <1>2, <2>2 DEF Unmount, MountTypeOK
<1>3. QED
  BY <1>1, <1>2 DEF MountStep

\* A source that has a mount keeps it, or somebody has unmounted it.
LEMMA HasMountKept ==
    ASSUME MountTypeOK, MountStep, NEW s \in Source, HasMount(s)
    PROVE  HasMount(s)'
<1>0. s[1] \in Points
  BY DEF Source
<1>1. ASSUME NEW c \in Compilers, Mount(c) PROVE HasMount(s)'
  <2>1. past' = past /\ (stack'[s[1]] # <<>> \/ stack'[s[1]] = stack[s[1]])
    BY <1>0, <1>1, MountGrows DEF Mount
  <2>2. QED
    BY <2>1 DEF HasMount
<1>2. ASSUME NEW c \in Compilers, CompileStep(c), ~Mount(c) PROVE HasMount(s)'
  <2>1. stack' = stack
    BY <1>2 DEF CompileStep, Compile, PassOver, GoToMount, MountFails, ScanFails, Raise, Mounted, Scan, Compiled
  <2>2. QED
    BY <1>0, <2>1, PastWorsens DEF HasMount
<1>3. ASSUME NEW m \in Points, Unmount(m) PROVE HasMount(s)'
  BY <1>0, <1>3, UnmountSeen DEF HasMount
<1>4. QED
  BY <1>1, <1>2, <1>3 DEF MountStep

\* What one compilation knows of its sources does not depend on the others.
LEMMA LoopOthers ==
    ASSUME MountTypeOK, LoopInv, MountStep, NEW d \in Compilers,
           cpc'[d] = cpc[d], sources'[d] = sources[d], left'[d] = left[d], current'[d] = current[d]
    PROVE  /\ cpc'[d] = "loop" => \A s \in sources'[d] \ left'[d] : HasMount(s)'
           /\ cpc'[d] = "mount" => /\ \A s \in sources'[d] \ (left'[d] \cup current'[d]) : HasMount(s)'
                                  /\ \A s, t \in current'[d] : s = t
           /\ cpc'[d] = "scan" => left'[d] \subseteq sources'[d] /\ \A s \in sources'[d] : HasMount(s)'
BY HasMountKept DEF LoopInv, MountTypeOK

\* A compilation has a mount for each of its sources when it scans them.
LEMMA LoopMount ==
    ASSUME MountTypeOK, LoopInv, MountStep
    PROVE  LoopInv'
<1>1. ASSUME NEW c \in Compilers, CompileStep(c) PROVE LoopInv'
  <2>0. \A d \in Compilers \ {c} :
           cpc'[d] = cpc[d] /\ sources'[d] = sources[d] /\ left'[d] = left[d] /\ current'[d] = current[d]
    BY <1>1 DEF CompileStep, Compile, PassOver, GoToMount, Mount, MountFails, ScanFails, Raise, Mounted,
                Scan, Compiled, MountTypeOK
  <2>k. \A s \in Source : HasMount(s) => HasMount(s)'
    BY HasMountKept
  <2>s. sources[c] \subseteq Source /\ left[c] \subseteq Source /\ current[c] \subseteq Source
    BY DEF MountTypeOK
  <2>g. SUFFICES
           /\ cpc'[c] = "loop" => \A s \in sources'[c] \ left'[c] : HasMount(s)'
           /\ cpc'[c] = "mount" => /\ \A s \in sources'[c] \ (left'[c] \cup current'[c]) : HasMount(s)'
                                  /\ \A s, t \in current'[c] : s = t
           /\ cpc'[c] = "scan" => left'[c] \subseteq sources'[c] /\ \A s \in sources'[c] : HasMount(s)'
    BY <2>0, LoopOthers DEF LoopInv
  <2>1. CASE Compile(c)
    BY <2>1 DEF Compile, MountTypeOK
  <2>2. CASE PassOver(c)
    <3>1. PICK s \in left[c] : IsMounted(s[1]) /\ left' = [left EXCEPT ![c] = @ \ {s}]
      BY <2>2 DEF PassOver
    <3>2. HasMount(s)
      BY <3>1 DEF IsMounted, HasMount
    <3>3. cpc'[c] = "loop" /\ cpc[c] = "loop" /\ sources'[c] = sources[c] /\ left'[c] = left[c] \ {s}
      BY <2>2, <3>1 DEF PassOver, MountTypeOK
    <3>4. QED
      BY <2>k, <2>s, <3>2, <3>3 DEF LoopInv
  <2>3. CASE GoToMount(c)
    <3>1. PICK s \in left[c] : left' = [left EXCEPT ![c] = @ \ {s}] /\ current' = [current EXCEPT ![c] = {s}]
      BY <2>3 DEF GoToMount
    <3>2. /\ cpc[c] = "loop" /\ cpc'[c] = "mount" /\ sources'[c] = sources[c]
          /\ left'[c] = left[c] \ {s} /\ current'[c] = {s}
      BY <2>3, <3>1 DEF GoToMount, MountTypeOK
    <3>3. QED
      BY <2>k, <2>s, <3>2 DEF LoopInv
  <2>4. CASE Mount(c)
    <3>1. PICK s \in current[c] : stack'[s[1]] # <<>>
      BY <2>4, MountGrows
    <3>2. HasMount(s)'
      BY <3>1 DEF HasMount
    <3>3. cpc[c] = "mount" /\ cpc'[c] = "loop" /\ sources'[c] = sources[c] /\ left'[c] = left[c]
      BY <2>4 DEF Mount, MountTypeOK
    <3>4. \A t \in current[c] : t = s
      BY <3>3 DEF LoopInv
    <3>5. QED
      BY <2>k, <2>s, <3>2, <3>3, <3>4 DEF LoopInv
  <2>5. CASE MountFails(c) \/ ScanFails(c)
    BY <2>5 DEF MountFails, ScanFails, Raise, MountTypeOK
  <2>6. CASE Mounted(c)
    <3>1. cpc[c] = "loop" /\ left[c] = {} /\ cpc'[c] = "scan" /\ sources'[c] = sources[c] /\ left'[c] = sources[c]
      BY <2>6 DEF Mounted, MountTypeOK
    <3>2. QED
      BY <2>k, <2>s, <3>1 DEF LoopInv
  <2>7. CASE Scan(c)
    <3>1. cpc[c] = "scan" /\ cpc'[c] = "scan" /\ sources'[c] = sources[c] /\ left'[c] \subseteq left[c]
      BY <2>7 DEF Scan, MountTypeOK
    <3>2. QED
      BY <2>k, <2>s, <3>1 DEF LoopInv
  <2>8. CASE Compiled(c)
    BY <2>8 DEF Compiled, MountTypeOK
  <2>9. QED
    BY <1>1, <2>1, <2>2, <2>3, <2>4, <2>5, <2>6, <2>7, <2>8 DEF CompileStep
<1>2. ASSUME NEW m \in Points, Unmount(m) PROVE LoopInv'
  <2>1. UNCHANGED <<cpc, sources, left, current>>
    BY <1>2 DEF Unmount
  <2>2. QED
    BY <2>1, LoopOthers DEF LoopInv
<1>3. QED
  BY <1>1, <1>2 DEF MountStep

-----------------------------------------------------------------------------
(* The height of the stacks                                                *)

\* Those about to mount can be counted.
LEMMA PendingCounted ==
    ASSUME NEW m
    PROVE  /\ IsFiniteSet(Pending(m)) /\ Cardinality(Pending(m)) \in Nat
           /\ Cardinality(Compilers) \in Nat /\ Cardinality(Pending(m)) =< Cardinality(Compilers)
<1>1. Pending(m) \subseteq Compilers
  BY DEF Pending
<1>2. QED
  BY <1>1, CompilersAssumption, FS_Subset, FS_CardinalityType

\* Where nothing is mounted and nobody joins those about to mount.
LEMMA HeightKept ==
    ASSUME StackInv, NEW m \in Points \ Respelled, past[m] # "misread", MountTypeOK, MountTypeOK',
           Pending(m)' \subseteq Pending(m), Len(stack'[m]) =< Len(stack[m])
    PROVE  Len(stack'[m]) + Cardinality(Pending(m)') =< Cardinality(Compilers)
<1>1. Cardinality(Pending(m)') =< Cardinality(Pending(m)) /\ Cardinality(Pending(m)') \in Nat
  BY PendingCounted, FS_Subset, FS_CardinalityType
<1>2. Len(stack[m]) \in Nat /\ Len(stack'[m]) \in Nat
  BY DEF MountTypeOK
<1>3. QED
  BY <1>1, <1>2, PendingCounted DEF StackInv

\* A mount takes its compilation out of those about to mount.
LEMMA HeightMount ==
    ASSUME MountTypeOK, MountTypeOK', StackInv, NEW c \in Compilers, Mount(c),
           NEW m \in Points \ Respelled, past[m] # "misread"
    PROVE  Len(stack'[m]) + Cardinality(Pending(m)') =< Cardinality(Compilers)
<1>1. PICK s \in current[c] :
         /\ Len(stack'[s[1]]) = Len(stack[s[1]]) + 1
         /\ \A n \in Points : n # s[1] => stack'[n] = stack[n]
  BY MountGrows
<1>2. Pending(m)' = Pending(m) \ {c}
  BY DEF Mount, MountTypeOK, Pending
<1>3. CASE m = s[1]
  <2>1. c \in Pending(m)
    BY <1>3 DEF Mount, Pending
  <2>2. Cardinality(Pending(m)') = Cardinality(Pending(m)) - 1
    BY <1>2, <2>1, PendingCounted, FS_RemoveElement
  <2>3. Len(stack'[m]) = Len(stack[m]) + 1 /\ Len(stack[m]) \in Nat
    BY <1>1, <1>3 DEF MountTypeOK
  <2>4. QED
    BY <2>2, <2>3, PendingCounted DEF StackInv
<1>4. CASE m # s[1]
  <2>1. Len(stack'[m]) =< Len(stack[m])
    BY <1>1, <1>4 DEF MountTypeOK
  <2>2. QED
    BY <1>2, <2>1, HeightKept
<1>5. QED
  BY <1>3, <1>4

\* A compilation that finds a source unmounted joins those about to mount it.
LEMMA HeightGoToMount ==
    ASSUME MountTypeOK, MountTypeOK', StackInv, NEW c \in Compilers, GoToMount(c),
           NEW m \in Points \ Respelled, past'[m] # "misread"
    PROVE  Len(stack'[m]) + Cardinality(Pending(m)') =< Cardinality(Compilers)
<1>0. stack' = stack /\ past[m] # "misread"
  BY PastWorsens DEF GoToMount, MountStep, CompileStep
<1>1. CASE stack[m] = <<>>
  <2>1. Len(stack'[m]) = 0
    BY <1>0, <1>1
  <2>2. Pending(m)' \subseteq Compilers
    BY DEF Pending
  <2>3. Cardinality(Pending(m)') =< Cardinality(Compilers) /\ Cardinality(Pending(m)') \in Nat
    BY <2>2, CompilersAssumption, FS_Subset, FS_CardinalityType
  <2>4. QED
    BY <2>1, <2>3, PendingCounted
<1>2. CASE stack[m] # <<>>
  <2>1. Pending(m)' \subseteq Pending(m)
    <3>1. PICK s \in left[c] :
             /\ current' = [current EXCEPT ![c] = {s}]
             /\ IsMounted(s[1]) => past' = Worse(s[1], "misread")
      BY DEF GoToMount
    <3>2. s[1] # m
      BY <1>2, <3>1 DEF IsMounted, Worse, Rank, Troubles, MountTypeOK
    <3>3. QED
      BY <3>1, <3>2 DEF GoToMount, MountTypeOK, Pending
  <2>2. Len(stack'[m]) =< Len(stack[m])
    BY <1>0 DEF MountTypeOK
  <2>3. QED
    BY <1>0, <2>1, <2>2, HeightKept
<1>3. QED
  BY <1>1, <1>2

\* The stacks stay below the number of compilations.
LEMMA HeightStep ==
    ASSUME MountTypeOK, MountTypeOK', StackInv, MountStep
    PROVE  StackInv'
<1>. SUFFICES ASSUME NEW m \in Points \ Respelled, past'[m] # "misread"
              PROVE  Len(stack'[m]) + Cardinality(Pending(m)') =< Cardinality(Compilers)
  BY DEF StackInv
<1>p. past[m] # "misread"
  BY PastWorsens
<1>1. ASSUME NEW c \in Compilers, CompileStep(c), ~Mount(c), ~GoToMount(c)
      PROVE  Pending(m)' \subseteq Pending(m) /\ Len(stack'[m]) =< Len(stack[m])
  <2>1. stack' = stack /\ Pending(m)' \subseteq Pending(m)
    BY <1>1 DEF CompileStep, Compile, PassOver, MountFails, ScanFails, Raise, Mounted, Scan, Compiled,
                MountTypeOK, Pending
  <2>2. QED
    BY <2>1 DEF MountTypeOK
<1>2. ASSUME NEW t \in Points, Unmount(t)
      PROVE  Pending(m)' \subseteq Pending(m) /\ Len(stack'[m]) =< Len(stack[m])
  BY <1>2 DEF Unmount, Pending, MountTypeOK
<1>3. QED
  BY <1>p, <1>1, <1>2, HeightKept, HeightMount, HeightGoToMount DEF MountStep

-----------------------------------------------------------------------------
(* What was scanned and what is open stays mounted                         *)

\* Where nobody mounts together, whoever is about to mount finds nothing mounted.
LEMMA SettledStep ==
    ASSUME MountTypeOK, MountTypeOK', SettledInv, MountStep
    PROVE  SettledInv'
<1>. SUFFICES ASSUME NEW m \in Points \ Respelled, past'[m] = "settled"
              PROVE  /\ \A c, d \in Pending(m)' : c = d
                     /\ Pending(m)' # {} => stack'[m] = <<>>
  BY DEF SettledInv
<1>p. past[m] = "settled"
  BY PastWorsens
<1>i. (\A c, d \in Pending(m) : c = d) /\ (Pending(m) # {} => stack[m] = <<>>)
  BY <1>p DEF SettledInv
<1>1. CASE \E c \in Compilers : GoToMount(c)
  <2>1. PICK c \in Compilers : GoToMount(c)
    BY <1>1
  <2>2. PICK s \in left[c] :
           /\ current' = [current EXCEPT ![c] = {s}]
           /\ past' = IF IsMounted(s[1]) THEN Worse(s[1], "misread")
                      ELSE IF Pending(s[1]) # {} THEN Worse(s[1], "contested") ELSE past
    BY <2>1 DEF GoToMount
  <2>3. /\ stack' = stack /\ current'[c] = {s} /\ cpc[c] = "loop"
        /\ \A d \in Compilers \ {c} : cpc'[d] = cpc[d] /\ current'[d] = current[d]
    BY <2>1, <2>2 DEF GoToMount, MountTypeOK
  <2>4. CASE s[1] = m
    <3>1. Worse(m, "misread")[m] = "misread" /\ Worse(m, "contested")[m] = "contested"
      BY <1>p DEF Worse, Rank, Troubles, MountTypeOK
    <3>2. ~IsMounted(m) /\ Pending(m) = {}
      BY <2>2, <2>4, <3>1
    <3>3. Pending(m)' \subseteq {c} /\ stack'[m] = <<>>
      BY <2>3, <3>2 DEF IsMounted, Pending
    <3>4. QED
      BY <3>3
  <2>5. CASE s[1] # m
    <3>1. Pending(m)' \subseteq Pending(m)
      BY <2>3, <2>5 DEF Pending
    <3>2. QED
      BY <1>i, <2>3, <3>1
  <2>6. QED
    BY <2>4, <2>5
<1>2. CASE \E c \in Compilers : Mount(c)
  <2>1. PICK c \in Compilers : Mount(c)
    BY <1>2
  <2>2. PICK s \in current[c] : \A n \in Points : n # s[1] => stack'[n] = stack[n]
    BY <2>1, MountGrows
  <2>3. Pending(m)' = Pending(m) \ {c} /\ (s[1] = m => c \in Pending(m))
    BY <2>1, <2>2 DEF Mount, MountTypeOK, Pending
  <2>4. QED
    BY <1>i, <2>2, <2>3
<1>3. ASSUME NEW c \in Compilers, CompileStep(c), ~Mount(c), ~GoToMount(c)
      PROVE  Pending(m)' \subseteq Pending(m) /\ stack' = stack
  BY <1>3 DEF CompileStep, Compile, PassOver, MountFails, ScanFails, Raise, Mounted, Scan, Compiled,
              MountTypeOK, Pending
<1>4. ASSUME NEW t \in Points, Unmount(t)
      PROVE  Pending(m)' = Pending(m) /\ stack'[m] = stack[m]
  <2>1. m # t
    BY <1>4, UnmountSeen
  <2>2. QED
    BY <1>4, <2>1, UnmountSeen DEF Unmount, Pending
<1>5. QED
  BY <1>i, <1>1, <1>2, <1>3, <1>4 DEF MountStep

\* So nothing is mounted over anything there.
LEMMA SettledStays ==
    ASSUME MountTypeOK, SettledInv, MountStep,
           NEW m \in Points \ Respelled, past'[m] = "settled", stack[m] # <<>>
    PROVE  stack'[m] = stack[m]
<1>p. past[m] = "settled"
  BY PastWorsens
<1>1. ASSUME NEW c \in Compilers, Mount(c) PROVE stack'[m] = stack[m]
  <2>1. PICK s \in current[c] : \A n \in Points : n # s[1] => stack'[n] = stack[n]
    BY <1>1, MountGrows
  <2>2. c \notin Pending(m)
    BY <1>p DEF SettledInv
  <2>3. QED
    BY <1>1, <2>1, <2>2 DEF Mount, Pending
<1>2. ASSUME NEW c \in Compilers, CompileStep(c), ~Mount(c) PROVE stack' = stack
  BY <1>2 DEF CompileStep, Compile, PassOver, GoToMount, MountFails, ScanFails, Raise, Mounted, Scan, Compiled
<1>3. ASSUME NEW t \in Points, Unmount(t) PROVE stack'[m] = stack[m]
  BY <1>3, UnmountSeen
<1>4. QED
  BY <1>1, <1>2, <1>3 DEF MountStep

\* A stack loses a share only when somebody unmounts its mount point.
LEMMA StacksGrow ==
    ASSUME MountTypeOK, MountTypeOK', MountStep,
           NEW m \in Points, past'[m] \in {"settled", "contested"}
    PROVE  MountedOn(m) \subseteq MountedOn(m)'
<1>1. ASSUME NEW c \in Compilers, CompileStep(c), ~Mount(c) PROVE stack' = stack
  BY <1>1 DEF CompileStep, Compile, PassOver, GoToMount, MountFails, ScanFails, Raise, Mounted, Scan, Compiled
<1>2. ASSUME NEW c \in Compilers, Mount(c) PROVE MountedOn(m) \subseteq MountedOn(m)'
  <2>1. PICK s \in current[c] :
           /\ s[2] \in Shares
           /\ stack'[s[1]] = Append(stack[s[1]], s[2])
           /\ \A n \in Points : n # s[1] => stack'[n] = stack[n]
    BY <1>2, MountGrows
  <2>2. CASE m = s[1]
    <3>1. stack[m] \in Seq(Shares) /\ stack'[m] = Append(stack[m], s[2]) /\ s[2] \in Shares
      BY <2>1, <2>2 DEF MountTypeOK
    <3>2. Len(stack[m]) \in Nat /\ Len(stack'[m]) = Len(stack[m]) + 1
      BY <3>1
    <3>3. \A i \in 1 .. Len(stack[m]) : Append(stack[m], s[2])[i] = stack[m][i]
      BY <3>1
    <3>4. QED
      BY <3>1, <3>2, <3>3 DEF MountedOn
  <2>3. CASE m # s[1]
    BY <2>1, <2>3 DEF MountedOn
  <2>4. QED
    BY <2>2, <2>3
<1>3. ASSUME NEW t \in Points, Unmount(t) PROVE MountedOn(m) \subseteq MountedOn(m)'
  <2>1. stack'[m] = stack[m]
    BY <1>3, UnmountSeen
  <2>2. QED
    BY <2>1 DEF MountedOn
<1>4. QED
  BY <1>1, <1>2, <1>3 DEF MountStep, MountedOn

InView(m, share) == past[m] = "settled" /\ m \notin Respelled => Visible(m) = share

Mounts(m, share) == past[m] \in {"settled", "contested"} => share \in MountedOn(m)

Kept(m, share) == InView(m, share) /\ Mounts(m, share)

\* What is kept stays kept.
LEMMA KeptStays ==
    ASSUME MountTypeOK, MountTypeOK', SettledInv, MountStep, NEW m \in Points, NEW share, Kept(m, share)
    PROVE  Kept(m, share)'
<1>1. Mounts(m, share)'
  BY StacksGrow, PastWorsens DEF Kept, Mounts
<1>2. ASSUME past'[m] = "settled", m \notin Respelled PROVE Visible(m)' = share
  <2>1. past[m] = "settled" /\ Visible(m) = share /\ share \in MountedOn(m)
    BY <1>2, PastWorsens DEF Kept, InView, Mounts
  <2>2. stack[m] # <<>>
    BY <2>1 DEF MountedOn
  <2>3. stack'[m] = stack[m]
    BY <1>2, <2>2, SettledStays
  <2>4. QED
    BY <2>1, <2>3 DEF Visible
<1>3. QED
  BY <1>1, <1>2 DEF Kept, InView

\* What a compilation scans is kept.
LEMMA ScannedKept ==
    ASSUME MountTypeOK, MountTypeOK', LoopInv, SettledInv, MountStep, SharesKept,
           NEW c \in Compilers, NEW f \in scanned'[c]
    PROVE  Kept(f[1], f[2])'
<1>0. \A g \in scanned[c] : Kept(g[1], g[2])' 
  <2>1. \A g \in scanned[c] : g[1] \in Points
    BY DEF MountTypeOK, Found
  <2>2. QED
    BY <2>1, KeptStays DEF SharesKept, Kept, InView, Mounts
<1>1. CASE Scan(c)
  <2>1. PICK s \in left[c] : scanned' = [scanned EXCEPT ![c] = @ \cup {<<s[1], Visible(s[1])>>}]
    BY <1>1 DEF Scan
  <2>2. s[1] \in Points /\ HasMount(s) /\ stack' = stack /\ past' = past
    <3>1. s \in sources[c] /\ s \in Source
      BY <1>1 DEF Scan, LoopInv, MountTypeOK
    <3>2. QED
      BY <1>1, <3>1 DEF Scan, LoopInv, Source
  <2>3. PICK share : share = Visible(s[1])
    OBVIOUS
  <2>4. Mounts(s[1], share)
    BY <2>2, <2>3, TopMounted DEF HasMount, Mounts
  <2>5. Kept(s[1], share)'
    BY <2>2, <2>3, <2>4 DEF Kept, InView, Mounts, MountedOn, Visible
  <2>6. f \in scanned[c] \/ f = <<s[1], share>>
    BY <2>1, <2>3 DEF MountTypeOK
  <2>7. CASE f = <<s[1], share>>
    <3>1. f[1] = s[1] /\ f[2] = share
      BY <2>7
    <3>2. QED
      BY <2>5, <3>1
  <2>8. QED
    BY <1>0, <2>6, <2>7
<1>2. CASE ~Scan(c)
  <2>1. ASSUME NEW d \in Compilers, CompileStep(d), ~Scan(c) PROVE scanned'[c] \subseteq scanned[c]
    <3>1. CASE Scan(d)
      BY <2>1, <3>1 DEF Scan, MountTypeOK
    <3>2. CASE ~Scan(d)
      BY <2>1, <3>2 DEF CompileStep, Compile, PassOver, GoToMount, Mount, MountFails, ScanFails, Raise,
                        Mounted, Compiled, MountTypeOK
    <3>3. QED
      BY <3>1, <3>2
  <2>2. ASSUME NEW t \in Points, Unmount(t) PROVE scanned' = scanned
    BY <2>2 DEF Unmount
  <2>3. scanned'[c] \subseteq scanned[c]
    BY <1>2, <2>1, <2>2 DEF MountStep
  <2>4. QED
    BY <1>0, <2>3
<1>3. QED
  BY <1>1, <1>2

-----------------------------------------------------------------------------
(* Descriptors                                                             *)

TypesInv == PluginTypeOK /\ table \in [Fds -> (Paths \X Shares) \cup {NoFile}]

PluginInv == TypesInv /\ ReadInv /\ CacheInv

\* What is left of a request is one.
LEMMA TailOfPaths == ASSUME NEW q \in Seq(Paths), q # <<>> PROVE Tail(q) \in Seq(Paths) /\ Head(q) \in Paths
OBVIOUS

\* A request is a sequence of files, with one at least.
LEMMA RequestTypes == \A r \in Requests : r \in Seq(Paths) /\ r # <<>>
<1>. SUFFICES ASSUME NEW n \in 1 .. MaxSectors, NEW r \in [1 .. n -> Paths] PROVE r \in Seq(Paths) /\ r # <<>>
  BY DEF Requests
<1>1. n \in Nat /\ 1 =< n
  OBVIOUS
<1>2. r \in Seq(Paths) /\ Len(r) = n
  BY <1>1
<1>3. QED
  BY <1>1, <1>2

\* The elements of a sequence with one more.
LEMMA AppendElements ==
    ASSUME NEW S, NEW q \in Seq(S), NEW x \in S
    PROVE  /\ DOMAIN Append(q, x) = DOMAIN q \cup {Len(q) + 1}
           /\ Len(q) + 1 \notin DOMAIN q
           /\ \A i \in DOMAIN q : Append(q, x)[i] = q[i]
           /\ Append(q, x)[Len(q) + 1] = x
OBVIOUS

\* A pair of the cache.
LEMMA Pairs == ASSUME TypesInv PROVE \A i \in DOMAIN fds : fds[i][1] \in Paths /\ fds[i][2] \in Fds
BY DEF TypesInv, PluginTypeOK

\* os.open: a number that was free, for a file that is not cached.
LEMMA PluginOpen ==
    ASSUME PluginInv, NEW c \in Conns, NEW share \in Shares, OpenFile(c, share)
    PROVE  PluginInv'
<1>1. PICK n \in Fds :
         /\ ~Open(n)
         /\ table' = [table EXCEPT ![n] = <<Head(paths[c]), share>>]
         /\ fd' = [fd EXCEPT ![c] = n]
  BY DEF OpenFile
<1>2. at[c] = "map" /\ ~Cached(Head(paths[c])) /\ at' = [at EXCEPT ![c] = "store"]
      /\ UNCHANGED <<running, fds, paths, passed, size, overlapped>>
  BY DEF OpenFile
<1>3. paths[c] # <<>> /\ Head(paths[c]) \in Paths
  BY <1>2, TailOfPaths DEF PluginInv, ReadInv, TypesInv, PluginTypeOK, Reads, ReadLabels
<1>4. TypesInv'
  <2>1. table' \in [Fds -> (Paths \X Shares) \cup {NoFile}]
    BY <1>1, <1>3 DEF PluginInv, TypesInv
  <2>2. at' \in [Conns -> {"idle", "close"} \cup ReadLabels]
    BY <1>2 DEF PluginInv, TypesInv, PluginTypeOK, ReadLabels
  <2>3. fd' \in [Conns -> Fds \cup {0}]
    BY <1>1 DEF PluginInv, TypesInv, PluginTypeOK
  <2>4. QED
    BY <1>2, <2>1, <2>2, <2>3 DEF PluginInv, TypesInv, PluginTypeOK
<1>5. /\ at'[c] = "store" /\ fd'[c] = n /\ paths' = paths
      /\ \A d \in Conns \ {c} : at'[d] = at[d] /\ fd'[d] = fd[d]
  BY <1>1, <1>2 DEF PluginInv, TypesInv, PluginTypeOK
<1>6. ReadInv'
  BY <1>2, <1>3, <1>5 DEF PluginInv, ReadInv, Reads, ReadLabels
<1>7. table'[n] = <<Head(paths[c]), share>> /\ table'[n] # NoFile /\ \A m \in Fds \ {n} : table'[m] = table[m]
  BY <1>1, <1>3, NoFileAssumption DEF PluginInv, TypesInv
<1>8. ASSUME ~overlapped' PROVE CacheParts'
  <2>1. CacheParts /\ fds' = fds /\ passed' = passed /\ size' = size
    BY <1>2, <1>8 DEF PluginInv, CacheInv
  <2>2. \A d \in Conns \ {c} : ~InCallback(d) /\ ~InCallback(d)'
    BY <1>2, <1>5, <2>1 DEF CacheParts, OneCallback, InCallback, Reads, Closes, ReadLabels
  <2>3. \A d \in Conns : ~Closes(d) /\ ~Closes(d)'
    BY <1>2, <1>5, <2>2 DEF InCallback, Closes
  <2>4. \A i \in DOMAIN fds : fds[i][2] \in Fds \ {n} /\ fds[i][1] # Head(paths[c])
    BY <1>1, <1>2, <2>1, <2>3, Pairs DEF CacheParts, OpenAhead, Cached, PluginInv
  <2>5. OneCallback'
    BY <2>2 DEF OneCallback
  <2>6. DistinctPairs' /\ OpenAhead' /\ ClosedBehind'
    BY <1>7, <2>1, <2>3, <2>4 DEF CacheParts, DistinctPairs, OpenAhead, ClosedBehind, Open
  <2>7. NoneLost'
    BY <1>2, <1>5, <1>7, <2>1 DEF CacheParts, NoneLost, Open
  <2>8. StoreReady' /\ PreadReady'
    <3>1. \A d \in Conns : at'[d] = "store" \/ at'[d] = "pread" => d = c
      BY <2>2 DEF InCallback, Reads, ReadLabels
    <3>2. Holds(c)'
      BY <1>5, <1>7 DEF Holds, Open
    <3>3. \A i \in DOMAIN fds' : fds'[i][1] # Head(paths'[c]) /\ fds'[i][2] # fd'[c]
      BY <1>5, <2>1, <2>4
    <3>4. QED
      BY <1>5, <3>1, <3>2, <3>3 DEF StoreReady, PreadReady
  <2>9. QED
    BY <2>5, <2>6, <2>7, <2>8 DEF CacheParts
<1>9. QED
  BY <1>4, <1>6, <1>8 DEF PluginInv, CacheInv

\* A callback that leaves the descriptors alone and is alone, or ends.
LEMMA PluginRead ==
    ASSUME PluginInv, NEW c \in Conns, Request(c) \/ Lookup(c) \/ Pread(c) \/ Fails(c)
    PROVE  PluginInv'
<1>. USE DEF ReadLabels
<1>1. TypesInv'
  <2>. USE DEF PluginInv, TypesInv, PluginTypeOK
  <2>1. CASE Request(c)
    BY <2>1, RequestTypes DEF Request
  <2>2. CASE Lookup(c)
    <3>1. PICK i \in DOMAIN fds : fd' = [fd EXCEPT ![c] = fds[i][2]]
      BY <2>2 DEF Lookup
    <3>2. fd' \in [Conns -> Fds \cup {0}]
      BY <3>1, Pairs
    <3>3. QED
      BY <2>2, <3>2 DEF Lookup
  <2>3. CASE Pread(c)
    <3>1. Tail(paths[c]) \in Seq(Paths)
      BY <2>3, TailOfPaths DEF Pread, ReadInv, Reads
    <3>2. QED
      BY <2>3, <3>1 DEF Pread
  <2>4. CASE Fails(c)
    BY <2>4 DEF Fails
  <2>5. QED
    BY <2>1, <2>2, <2>3, <2>4
<1>2. \A d \in Conns \ {c} : at'[d] = at[d] /\ paths'[d] = paths[d] /\ fd'[d] = fd[d]
  BY DEF Request, Lookup, Pread, Fails, PluginInv, TypesInv, PluginTypeOK
<1>3. UNCHANGED <<fds, table, passed, size>>
  BY DEF Request, Lookup, Pread, Fails
<1>4. at'[c] \in {"idle", "map", "pread"} /\ ~Closes(c)
  BY DEF Request, Lookup, Pread, Fails, PluginInv, TypesInv, PluginTypeOK, Closes
<1>5. at'[c] \in {"map", "pread"} => paths'[c] # <<>> /\ \A d \in Conns \ {c} : ~Reads(d)
  <2>1. CASE Request(c)
    BY <2>1, RequestTypes DEF Request, MayRead, PluginInv, TypesInv, PluginTypeOK
  <2>2. CASE Lookup(c) \/ Pread(c) \/ Fails(c)
    BY <2>2 DEF Lookup, Pread, Fails, PluginInv, TypesInv, PluginTypeOK, ReadInv, Reads
  <2>3. QED
    BY <2>1, <2>2
<1>6. ASSUME at'[c] = "pread"
      PROVE  Lookup(c) /\ paths' = paths /\ \E i \in DOMAIN fds : fds[i][1] = Head(paths[c]) /\ fd'[c] = fds[i][2]
  BY <1>6 DEF Request, Lookup, Pread, Fails, PluginInv, TypesInv, PluginTypeOK
<1>7. ReadInv'
  BY <1>2, <1>4, <1>5, <1>6, Pairs DEF PluginInv, ReadInv, Reads
<1>8. ASSUME ~overlapped' PROVE CacheParts'
  <2>1. ~overlapped
    BY <1>8 DEF Request, Lookup, Pread, Fails
  <2>2. OneCallback /\ DistinctPairs /\ OpenAhead /\ ClosedBehind /\ NoneLost /\ StoreReady /\ PreadReady
    BY <2>1 DEF PluginInv, CacheInv, CacheParts
  <2>3. at'[c] # "idle" => \A d \in Conns \ {c} : ~InCallback(d) /\ ~Closes(d)
    <3>1. CASE Request(c)
      BY <1>5, <1>4, <1>8, <3>1 DEF Request, InCallback
    <3>2. CASE Lookup(c) \/ Pread(c)
      BY <2>2, <3>2 DEF Lookup, Pread, OneCallback, InCallback, Reads
    <3>3. CASE Fails(c)
      BY <3>3 DEF Fails, PluginInv, TypesInv, PluginTypeOK
    <3>4. QED
      BY <3>1, <3>2, <3>3
  <2>4. \A d \in Conns : Closes(d)' <=> Closes(d)
    BY <1>2, <1>4 DEF Closes
  <2>5. OneCallback'
    BY <1>2, <1>4, <2>2, <2>3 DEF OneCallback, InCallback, Reads, Closes
  <2>6. DistinctPairs' /\ OpenAhead' /\ ClosedBehind'
    BY <1>3, <2>2, <2>4 DEF DistinctPairs, OpenAhead, ClosedBehind, Open
  <2>7. at[c] # "store"
    BY DEF Request, Lookup, Pread, Fails
  <2>8. NoneLost' /\ StoreReady'
    BY <1>2, <1>3, <1>4, <2>2, <2>7 DEF NoneLost, StoreReady, Holds, Open
  <2>9. PreadReady'
    <3>1. ASSUME at'[c] = "pread" PROVE Holds(c)'
      <4>1. PICK i \in DOMAIN fds : fds[i][1] = Head(paths[c]) /\ fd'[c] = fds[i][2]
        BY <1>6, <3>1
      <4>2. \A d \in Conns : ~Closes(d)
        BY <1>4, <2>3, <3>1
      <4>3. Open(fds[i][2]) /\ table[fds[i][2]][1] = fds[i][1]
        BY <2>2, <4>2 DEF OpenAhead
      <4>4. QED
        BY <1>3, <1>6, <3>1, <4>1, <4>3 DEF Holds, Open
    <3>2. QED
      BY <1>2, <1>3, <2>2, <3>1 DEF PreadReady, Holds, Open
  <2>10. QED
    BY <2>5, <2>6, <2>8, <2>9 DEF CacheParts
<1>9. QED
  BY <1>1, <1>7, <1>8 DEF PluginInv, CacheInv

\* What has been opened is put into the cache.
LEMMA PluginStore ==
    ASSUME PluginInv, NEW c \in Conns, Store(c)
    PROVE  PluginInv'
<1>. USE DEF ReadLabels
<1>. DEFINE pair == <<Head(paths[c]), fd[c]>>
<1>1. /\ at[c] = "store" /\ fds' = Append(fds, pair)
      /\ UNCHANGED <<running, table, paths, fd, passed, size, overlapped>>
  BY DEF Store
<1>2. pair \in Paths \X Fds /\ fds \in Seq(Paths \X Fds)
  BY <1>1, TailOfPaths DEF PluginInv, ReadInv, TypesInv, PluginTypeOK, Reads
<1>3. at'[c] = "pread" /\ \A d \in Conns \ {c} : at'[d] = at[d]
  BY DEF Store, PluginInv, TypesInv, PluginTypeOK
<1>4. TypesInv'
  <2>1. fds' \in Seq(Paths \X Fds)
    BY <1>1, <1>2
  <2>2. at' \in [Conns -> {"idle", "close"} \cup ReadLabels]
    BY DEF Store, PluginInv, TypesInv, PluginTypeOK
  <2>3. QED
    BY <1>1, <2>1, <2>2 DEF PluginInv, TypesInv, PluginTypeOK
<1>5. ReadInv'
  BY <1>1, <1>3 DEF PluginInv, ReadInv, Reads
<1>6. /\ DOMAIN fds' = DOMAIN fds \cup {Len(fds) + 1} /\ Len(fds) + 1 \notin DOMAIN fds
      /\ \A i \in DOMAIN fds : fds'[i] = fds[i]
      /\ fds'[Len(fds) + 1] = pair
  BY <1>1, <1>2, AppendElements
<1>7. ASSUME ~overlapped' PROVE CacheParts'
  <2>1. OneCallback /\ DistinctPairs /\ OpenAhead /\ NoneLost /\ StoreReady /\ PreadReady
    BY <1>1, <1>7 DEF PluginInv, CacheInv, CacheParts
  <2>2. \A d \in Conns \ {c} : ~InCallback(d)
    BY <1>1, <2>1 DEF OneCallback, InCallback, Reads
  <2>3. \A d \in Conns : ~Closes(d) /\ ~Closes(d)' /\ (InCallback(d)' => d = c)
    BY <1>1, <1>3, <2>2 DEF InCallback, Reads, Closes
  <2>4. Holds(c) /\ \A i \in DOMAIN fds : fds[i][1] # Head(paths[c]) /\ fds[i][2] # fd[c]
    BY <1>1, <2>1 DEF StoreReady
  <2>5. pair[1] = Head(paths[c]) /\ pair[2] = fd[c]
    OBVIOUS
  <2>6. OneCallback' /\ ClosedBehind'
    BY <2>3 DEF OneCallback, ClosedBehind
  <2>7. DistinctPairs'
    BY <1>6, <2>1, <2>4, <2>5 DEF DistinctPairs
  <2>8. OpenAhead'
    BY <1>1, <1>6, <2>1, <2>3, <2>4, <2>5 DEF OpenAhead, Holds, Open
  <2>9. NoneLost'
    <3>1. ASSUME NEW n \in Fds, Open(n) PROVE \E i \in DOMAIN fds' : fds'[i][2] = n
      <4>1. CASE \E i \in DOMAIN fds : fds[i][2] = n
        BY <1>6, <4>1
      <4>2. CASE \E d \in Conns : at[d] = "store" /\ fd[d] = n
        BY <1>6, <2>2, <2>5, <4>2 DEF InCallback, Reads
      <4>3. QED
        BY <2>1, <3>1, <4>1, <4>2 DEF NoneLost
    <3>2. QED
      BY <1>1, <3>1 DEF NoneLost, Open
  <2>10. StoreReady' /\ PreadReady'
    BY <1>1, <1>3, <2>1, <2>3, <2>4 DEF StoreReady, PreadReady, Holds, Open, InCallback, Reads
  <2>11. QED
    BY <2>6, <2>7, <2>8, <2>9, <2>10 DEF CacheParts
<1>8. QED
  BY <1>4, <1>5, <1>7 DEF PluginInv, CacheInv

\* The cache is closed descriptor by descriptor and then emptied.
LEMMA PluginClose ==
    ASSUME PluginInv, NEW c \in Conns, BeginClose(c) \/ CloseNext(c) \/ CloseRaises(c) \/ Clear(c)
    PROVE  PluginInv'
<1>. USE DEF ReadLabels
<1>0. fds \in Seq(Paths \X Fds) /\ Len(fds) \in Nat /\ DOMAIN fds = 1 .. Len(fds) /\ passed[c] \in Nat
  BY DEF PluginInv, TypesInv, PluginTypeOK
<1>1. TypesInv'
  <2>. USE DEF PluginInv, TypesInv, PluginTypeOK
  <2>1. CASE BeginClose(c)
    BY <1>0, <2>1 DEF BeginClose
  <2>2. CASE CloseNext(c)
    <3>1. table' \in [Fds -> (Paths \X Shares) \cup {NoFile}]
      BY <2>2 DEF CloseNext
    <3>2. passed' \in [Conns -> Nat]
      BY <1>0, <2>2 DEF CloseNext
    <3>3. QED
      BY <2>2, <3>1, <3>2 DEF CloseNext
  <2>3. CASE CloseRaises(c)
    BY <2>3 DEF CloseRaises
  <2>4. CASE Clear(c)
    BY <2>4 DEF Clear
  <2>5. QED
    BY <2>1, <2>2, <2>3, <2>4
<1>2. /\ paths' = paths /\ fd' = fd /\ at'[c] \in {"idle", "close"} /\ ~Reads(c)
      /\ \A d \in Conns \ {c} : at'[d] = at[d] /\ passed'[d] = passed[d] /\ size'[d] = size[d]
  BY DEF BeginClose, CloseNext, CloseRaises, Clear, PluginInv, TypesInv, PluginTypeOK, Reads, Closes
<1>3. ReadInv'
  BY <1>2 DEF PluginInv, ReadInv, Reads
<1>4. ASSUME ~overlapped' PROVE CacheParts'
  <2>1. ~overlapped
    BY <1>4 DEF BeginClose, CloseNext, CloseRaises, Clear
  <2>2. OneCallback /\ DistinctPairs /\ OpenAhead /\ ClosedBehind /\ NoneLost /\ StoreReady /\ PreadReady
    BY <2>1 DEF PluginInv, CacheInv, CacheParts
  <2>3. \A d \in Conns \ {c} : ~InCallback(d) /\ ~InCallback(d)' /\ ~Closes(d) /\ ~Closes(d)'
    <3>1. \A d \in Conns \ {c} : ~InCallback(d)
      BY <1>4, <2>2 DEF BeginClose, CloseNext, CloseRaises, Clear, OneCallback, InCallback
    <3>2. QED
      BY <1>2, <3>1 DEF InCallback, Reads, Closes
  <2>4. OneCallback' /\ StoreReady' /\ PreadReady'
    BY <1>2, <2>3 DEF OneCallback, StoreReady, PreadReady, InCallback, Reads
  <2>5. \A d \in Conns : at[d] # "store"
    BY <1>2, <2>3 DEF InCallback, Reads
  <2>6. DistinctPairs' /\ OpenAhead' /\ ClosedBehind' /\ NoneLost'
    <3>1. CASE BeginClose(c)
      <4>1. /\ UNCHANGED <<fds, table>> /\ ~Closes(c) /\ at'[c] = "close"
            /\ size'[c] = Len(fds) /\ passed'[c] = 0
        BY <3>1 DEF BeginClose, Closes, PluginInv, TypesInv, PluginTypeOK
      <4>2. DistinctPairs' /\ ClosedBehind'
        BY <1>0, <2>2, <2>3, <4>1 DEF DistinctPairs, ClosedBehind
      <4>3. OpenAhead'
        BY <2>2, <2>3, <4>1 DEF OpenAhead, Open
      <4>4. NoneLost'
        BY <2>2, <2>5, <4>1 DEF NoneLost, Open
      <4>5. QED
        BY <4>2, <4>3, <4>4
    <3>2. CASE CloseNext(c)
      <4>1. PICK k \in DOMAIN fds : k = passed[c] + 1
        BY <1>0, <3>2 DEF CloseNext
      <4>2. PICK n \in Fds : n = fds[k][2]
        BY <4>1, Pairs DEF PluginInv
      <4>3. /\ UNCHANGED <<fds, at, size>> /\ Closes(c) /\ passed'[c] = k /\ passed[c] < k
            /\ table'[n] = NoFile /\ \A m \in Fds \ {n} : table'[m] = table[m]
        BY <1>0, <3>2, <4>1, <4>2 DEF CloseNext, Closes, PluginInv, TypesInv, PluginTypeOK
      <4>4. \A i \in DOMAIN fds : i # k => fds[i][2] \in Fds \ {n}
        BY <2>2, <4>2, Pairs DEF DistinctPairs, PluginInv
      <4>5. OpenAhead'
        <5>1. ASSUME NEW i \in DOMAIN fds, k < i PROVE table'[fds[i][2]] # NoFile /\ table'[fds[i][2]][1] = fds[i][1]
          <6>1. passed[c] < i /\ i # k
            BY <1>0, <4>1, <5>1
          <6>2. Open(fds[i][2]) /\ table[fds[i][2]][1] = fds[i][1]
            BY <2>2, <2>3, <6>1 DEF OpenAhead
          <6>3. QED
            BY <4>3, <4>4, <6>1, <6>2 DEF Open
        <5>2. QED
          BY <4>3, <5>1 DEF OpenAhead, Open, Closes
      <4>6. ClosedBehind'
        <5>1. size[c] = Len(fds) /\ \A i \in 1 .. passed[c] : ~Open(fds[i][2])
          BY <2>2, <4>3 DEF ClosedBehind
        <5>2. \A i \in 1 .. k : i = k \/ i \in 1 .. passed[c]
          BY <1>0, <4>1
        <5>3. k =< Len(fds) /\ \A i \in 1 .. k : i \in DOMAIN fds
          BY <1>0, <4>1
        <5>4. \A i \in 1 .. k : table'[fds[i][2]] = NoFile
          BY <4>2, <4>3, <4>4, <5>1, <5>2, <5>3 DEF Open
        <5>5. QED
          BY <2>3, <4>3, <5>1, <5>3, <5>4 DEF ClosedBehind, Open
      <4>7. DistinctPairs' /\ NoneLost'
        BY <2>2, <2>5, <4>3 DEF DistinctPairs, NoneLost, Open
      <4>8. QED
        BY <4>5, <4>6, <4>7
    <3>3. CASE CloseRaises(c)
      <4>1. Closes(c) /\ size[c] = Len(fds)
        BY <2>2, <3>3 DEF CloseRaises, ClosedBehind
      <4>2. ASSUME passed[c] < Len(fds) PROVE Open(fds[passed[c] + 1][2])
        <5>1. passed[c] + 1 \in DOMAIN fds /\ passed[c] < passed[c] + 1
          BY <1>0, <4>2
        <5>2. QED
          BY <2>2, <2>3, <5>1 DEF OpenAhead
      <4>3. QED
        BY <3>3, <4>1, <4>2 DEF CloseRaises
    <3>4. CASE Clear(c)
      <4>1. Closes(c) /\ passed[c] >= Len(fds) /\ fds' = <<>> /\ table' = table /\ at'[c] = "idle"
        BY <3>4 DEF Clear, PluginInv, TypesInv, PluginTypeOK
      <4>2. DOMAIN fds' = {} /\ \A d \in Conns : ~Closes(d)'
        BY <2>3, <4>1 DEF Closes
      <4>3. DistinctPairs' /\ OpenAhead' /\ ClosedBehind'
        BY <4>2 DEF DistinctPairs, OpenAhead, ClosedBehind
      <4>4. \A i \in DOMAIN fds : ~Open(fds[i][2])
        BY <1>0, <2>2, <4>1 DEF ClosedBehind
      <4>5. NoneLost'
        BY <2>2, <2>5, <4>1, <4>4 DEF NoneLost, Open
      <4>6. QED
        BY <4>3, <4>5
    <3>5. QED
      BY <3>1, <3>2, <3>3, <3>4
  <2>7. QED
    BY <2>4, <2>6 DEF CacheParts
<1>5. QED
  BY <1>1, <1>3, <1>4 DEF PluginInv, CacheInv

\* At the start and in a new process nothing is open.
LEMMA NothingOpen == (PluginInit => PluginInv) /\ (Exit => PluginInv')
<1>1. ASSUME PluginInit PROVE PluginInv
  <2>. USE <1>1 DEF PluginInit
  <2>1. PluginTypeOK /\ table \in [Fds -> (Paths \X Shares) \cup {NoFile}]
    <3>1. paths \in [Conns -> Seq(Paths)] /\ fds \in Seq(Paths \X Fds)
      OBVIOUS
    <3>2. fd \in [Conns -> Fds \cup {0}] /\ passed \in [Conns -> Nat] /\ size \in [Conns -> Nat]
      OBVIOUS
    <3>3. at \in [Conns -> {"idle", "close"} \cup ReadLabels] /\ table \in [Fds -> (Paths \X Shares) \cup {NoFile}]
      OBVIOUS
    <3>4. QED
      BY <3>1, <3>2, <3>3 DEF PluginTypeOK
  <2>2. \A c \in Conns : ~Reads(c) /\ ~Closes(c) /\ at[c] = "idle"
    BY DEF Reads, Closes, ReadLabels
  <2>3. DOMAIN fds = {} /\ \A n \in Fds : ~Open(n)
    BY DEF Open
  <2>4. ReadInv /\ CacheParts
    BY <2>2, <2>3 DEF ReadInv, CacheParts, OneCallback, DistinctPairs, OpenAhead, ClosedBehind, NoneLost,
                      StoreReady, PreadReady, InCallback
  <2>5. QED
    BY <2>1, <2>4 DEF PluginInv, TypesInv, CacheInv
<1>2. ASSUME Exit PROVE PluginInv'
  <2>. USE <1>2 DEF Exit
  <2>1. PluginTypeOK' /\ table' \in [Fds -> (Paths \X Shares) \cup {NoFile}]
    <3>1. paths' \in [Conns -> Seq(Paths)] /\ fds' \in Seq(Paths \X Fds) /\ running' \in BOOLEAN /\ overlapped' \in BOOLEAN
      <4>1. <<>> \in Seq(Paths) /\ <<>> \in Seq(Paths \X Fds)
        OBVIOUS
      <4>2. paths' = [c \in Conns |-> <<>>] /\ fds' = <<>>
        OBVIOUS
      <4>3. running' = FALSE /\ overlapped' = FALSE
        OBVIOUS
      <4>4. QED
        BY ONLY <4>1, <4>2, <4>3
    <3>2. fd' \in [Conns -> Fds \cup {0}] /\ passed' \in [Conns -> Nat] /\ size' \in [Conns -> Nat]
      OBVIOUS
    <3>3. at' \in [Conns -> {"idle", "close"} \cup ReadLabels] /\ table' \in [Fds -> (Paths \X Shares) \cup {NoFile}]
      OBVIOUS
    <3>4. QED
      BY <3>1, <3>2, <3>3 DEF PluginTypeOK
  <2>2. \A c \in Conns : ~Reads(c)' /\ ~Closes(c)' /\ at'[c] = "idle"
    BY DEF Reads, Closes, ReadLabels
  <2>3. DOMAIN fds' = {} /\ \A n \in Fds : ~Open(n)'
    BY DEF Open
  <2>4. ReadInv' /\ CacheParts'
    BY <2>2, <2>3 DEF ReadInv, CacheParts, OneCallback, DistinctPairs, OpenAhead, ClosedBehind, NoneLost,
                      StoreReady, PreadReady, InCallback
  <2>5. QED
    BY <2>1, <2>4 DEF PluginInv, TypesInv, CacheInv
<1>3. QED
  BY <1>1, <1>2

\* Steps that are not callbacks.
LEMMA PluginStutters ==
    ASSUME PluginInv, UNCHANGED <<fds, table, at, paths, fd, passed, size, overlapped>>, running' \in BOOLEAN
    PROVE  PluginInv'
<1>1. TypesInv'
  BY DEF PluginInv, TypesInv, PluginTypeOK
<1>2. ReadInv'
  BY DEF PluginInv, ReadInv, Reads
<1>3. CacheInv'
  BY DEF PluginInv, CacheInv, CacheParts, OneCallback, DistinctPairs, OpenAhead, ClosedBehind, NoneLost,
         StoreReady, PreadReady, Holds, InCallback, Reads, Closes, Open
<1>4. QED
  BY <1>1, <1>2, <1>3 DEF PluginInv

-----------------------------------------------------------------------------
(* Everything together                                                     *)

SourceInv ==
    /\ MountTypeOK /\ LoopInv /\ StackInv /\ SettledInv
    /\ PluginInv
    /\ image \subseteq Found
    /\ SharesKept

\* What the mount table may hold at the start.
LEMMA InitialStacks ==
    ASSUME NEW m \in {<<>>} \cup {<<share>> : share \in Shares}
    PROVE  m \in Seq(Shares) /\ Len(m) \in Nat /\ Len(m) =< 1
<1>1. CASE m = <<>>
  BY <1>1
<1>2. CASE \E share \in Shares : m = <<share>>
  BY <1>2
<1>3. QED
  BY <1>1, <1>2

\* Nothing has been scanned or opened, and no mount point has two mounts.
LEMMA InitSourceInv == Init => SourceInv
<1>. SUFFICES ASSUME Init PROVE SourceInv
  OBVIOUS
<1>. USE DEF Init, MountInit, PluginInit
<1>1. MountTypeOK
  <2>1. stack \in [Points -> Seq(Shares)]
    BY InitialStacks
  <2>2. QED
    BY <2>1 DEF MountTypeOK, Troubles
<1>2. LoopInv
  BY DEF LoopInv
<1>3. StackInv
  <2>1. ASSUME NEW m \in Points PROVE Len(stack[m]) + Cardinality(Pending(m)) =< Cardinality(Compilers)
    <3>1. Cardinality(Pending(m)) = 0
      <4>1. Pending(m) = {}
        BY DEF Pending
      <4>2. QED
        BY <4>1, FS_EmptySet
    <3>2. Len(stack[m]) \in Nat /\ Len(stack[m]) =< 1
      BY InitialStacks
    <3>3. Cardinality(Compilers) \in Nat /\ 1 =< Cardinality(Compilers)
      <4>1. Cardinality(Compilers) \in Nat /\ Cardinality(Compilers) # 0
        BY CompilersAssumption, FS_CardinalityType, FS_EmptySet
      <4>2. QED
        BY <4>1
    <3>4. QED
      BY <3>1, <3>2, <3>3
  <2>2. QED
    BY <2>1 DEF StackInv
<1>4. PluginInv
  BY NothingOpen
<1>5. image \subseteq Found
  OBVIOUS
<1>6. SharesKept
  BY DEF SharesKept, Open
<1>7. SettledInv
  BY DEF SettledInv, Pending
<1>8. QED
  BY <1>1, <1>2, <1>3, <1>4, <1>5, <1>6, <1>7 DEF SourceInv

\* A step of a compilation or an unmount.
LEMMA NextMount ==
    ASSUME SourceInv, MountStep, UNCHANGED <<pluginVars, image>>
    PROVE  SourceInv'
<1>1. MountTypeOK' /\ LoopInv' /\ StackInv' /\ SettledInv'
  BY TypeMount, LoopMount, HeightStep, SettledStep DEF SourceInv
<1>2. PluginInv'
  <2>1. running' \in BOOLEAN /\ UNCHANGED <<fds, table, at, paths, fd, passed, size, overlapped>>
    BY DEF SourceInv, PluginInv, TypesInv, PluginTypeOK, pluginVars
  <2>2. QED
    BY <2>1, PluginStutters DEF SourceInv
<1>3. SharesKept'
  <2>1. \A c \in Compilers : \A f \in scanned'[c] : Kept(f[1], f[2])'
    BY <1>1, ScannedKept DEF SourceInv
  <2>2. \A f \in image : Kept(f[1], f[2])'
    <3>1. \A f \in image : f[1] \in Points /\ Kept(f[1], f[2])
      BY DEF SourceInv, Found, SharesKept, Kept, InView, Mounts
    <3>2. QED
      BY <1>1, <3>1, KeptStays DEF SourceInv
  <2>3. \A n \in Fds : Open(n) => Kept(PointOf[table[n][1]], table[n][2])'
    <3>1. \A n \in Fds : Open(n) => PointOf[table[n][1]] \in Points /\ Kept(PointOf[table[n][1]], table[n][2])
      BY PointOfAssumption DEF SourceInv, SharesKept, Kept, InView, Mounts, Open, PluginInv, TypesInv
    <3>2. table' = table
      BY DEF pluginVars
    <3>3. ASSUME NEW n \in Fds, Open(n) PROVE Kept(PointOf[table[n][1]], table[n][2])'
      <4>1. PICK m \in Points : m = PointOf[table[n][1]]
        BY <3>1, <3>3
      <4>2. Kept(m, table[n][2])
        BY <3>1, <3>3, <4>1
      <4>3. Kept(m, table[n][2])'
        BY <1>1, <4>2, <3>2, KeptStays DEF SourceInv
      <4>4. QED
        BY <3>2, <4>1, <4>3 DEF Kept, InView, Mounts, MountedOn, Visible
    <3>4. QED
      BY <3>3
  <2>4. QED
    BY <2>1, <2>2, <2>3 DEF SharesKept, Kept, InView, Mounts, Open, pluginVars
<1>4. image' \subseteq Found
  BY DEF SourceInv
<1>5. QED
  BY <1>1, <1>2, <1>3, <1>4 DEF SourceInv

\* What does not touch the mounts keeps what is known of them.
LEMMA MountsUntouched ==
    ASSUME MountTypeOK, LoopInv, StackInv, SettledInv, UNCHANGED mountVars
    PROVE  MountTypeOK' /\ LoopInv' /\ StackInv' /\ SettledInv'
<1>1. MountTypeOK' /\ LoopInv'
  BY DEF mountVars, MountTypeOK, LoopInv, HasMount
<1>2. \A m \in Points : Pending(m)' = Pending(m)
  BY DEF mountVars, Pending
<1>3. StackInv' /\ SettledInv'
  BY <1>2 DEF mountVars, StackInv, SettledInv
<1>4. QED
  BY <1>1, <1>3

\* A step of nbdkit that opens nothing: fewer descriptors or the same.
LEMMA NextPlugin ==
    ASSUME SourceInv, Exit \/ (\E c \in Conns : PluginStep(c)), UNCHANGED <<mountVars, image>>
    PROVE  SourceInv'
<1>1. MountTypeOK' /\ LoopInv' /\ StackInv' /\ SettledInv' /\ image' \subseteq Found
  BY MountsUntouched DEF SourceInv
<1>2. PluginInv'
  BY NothingOpen, PluginRead, PluginStore, PluginClose DEF SourceInv, PluginStep
<1>3. \A n \in Fds : table'[n] = table[n] \/ table'[n] = NoFile
  BY DEF Exit, PluginStep, Request, Lookup, Store, Pread, Fails, BeginClose, CloseNext, CloseRaises, Clear,
         SourceInv, PluginInv, TypesInv
<1>4. SharesKept'
  BY <1>3 DEF SourceInv, SharesKept, Open, MountedOn, Visible, mountVars
<1>5. QED
  BY <1>1, <1>2, <1>4 DEF SourceInv

\* A file is opened on the share that is mounted on top.
LEMMA NextOpen ==
    ASSUME SourceInv, NEW c \in Conns, OpenSource(c)
    PROVE  SourceInv'
<1>1. MountTypeOK' /\ LoopInv' /\ StackInv' /\ SettledInv' /\ image' \subseteq Found
  BY MountsUntouched DEF SourceInv, OpenSource
<1>2. PICK m \in Points : m = PointOf[Head(paths[c])]
  <2>1. Head(paths[c]) \in Paths
    BY TailOfPaths DEF OpenSource, SourceInv, PluginInv, TypesInv, PluginTypeOK
  <2>2. QED
    BY <2>1, PointOfAssumption
<1>3. Visible(m) \in MountedOn(m) /\ Visible(m) \in Shares /\ OpenFile(c, Visible(m))
  <2>1. Visible(m) # Empty /\ OpenFile(c, Visible(m))
    BY <1>2 DEF OpenSource
  <2>2. stack[m] # <<>>
    BY <2>1 DEF Visible
  <2>3. QED
    BY <2>1, <2>2, TopMounted DEF SourceInv
<1>4. PluginInv'
  BY <1>3, PluginOpen DEF SourceInv
<1>5. SharesKept'
  <2>1. PICK n \in Fds : table' = [table EXCEPT ![n] = <<Head(paths[c]), Visible(m)>>]
    BY <1>3 DEF OpenFile
  <2>2. table'[n] = <<Head(paths[c]), Visible(m)>> /\ \A k \in Fds \ {n} : table'[k] = table[k]
    BY <2>1 DEF SourceInv, PluginInv, TypesInv
  <2>0. UNCHANGED <<stack, past, scanned, image>>
    BY DEF OpenSource, mountVars
  <2>3. ASSUME NEW k \in Fds, Open(k)' PROVE Kept(PointOf[table[k][1]], table[k][2])'
    <3>1. CASE k = n
      <4>1. PointOf[table'[k][1]] = m /\ table'[k][2] = Visible(m)
        BY <1>2, <2>2, <3>1
      <4>2. InView(m, Visible(m))' /\ Mounts(m, Visible(m))'
        BY <1>3, <2>0 DEF InView, Mounts, MountedOn, Visible
      <4>3. QED
        BY <2>0, <4>1, <4>2 DEF Kept, InView, Mounts, MountedOn, Visible
    <3>2. CASE k # n
      <4>1. table'[k] = table[k] /\ Open(k)
        BY <2>2, <2>3, <3>2 DEF Open
      <4>2. QED
        BY <2>0, <4>1 DEF SourceInv, SharesKept, Kept, InView, Mounts, MountedOn, Visible
    <3>3. QED
      BY <3>1, <3>2
  <2>4. QED
    BY <2>0, <2>3 DEF SourceInv, SharesKept, Kept, InView, Mounts, MountedOn, Visible
<1>6. QED
  BY <1>1, <1>4, <1>5 DEF SourceInv

\* nbdkit starts.
LEMMA NextStart ==
    ASSUME SourceInv, Start
    PROVE  SourceInv'
<1>1. MountTypeOK' /\ LoopInv' /\ StackInv' /\ SettledInv'
  BY MountsUntouched DEF SourceInv, Start
<1>2. PluginInv'
  <2>1. UNCHANGED <<fds, table, at, paths, fd, passed, size, overlapped>> /\ running' = TRUE
    BY DEF Start, Load
  <2>2. QED
    BY <2>1, PluginStutters DEF SourceInv
<1>3. image' \subseteq Found
  BY DEF SourceInv, Start, MountTypeOK
<1>4. SharesKept'
  BY DEF SourceInv, SharesKept, Start, Load, Open, MountedOn, Visible, mountVars
<1>5. QED
  BY <1>1, <1>2, <1>3, <1>4 DEF SourceInv

\* Every step keeps the invariant.
LEMMA NextSourceInv == SourceInv /\ [Next]_vars => SourceInv'
<1>. SUFFICES ASSUME SourceInv, [Next]_vars PROVE SourceInv'
  OBVIOUS
<1>1. CASE \E c \in Compilers : CompileStep(c) /\ UNCHANGED <<pluginVars, image>>
  BY <1>1, NextMount DEF MountStep
<1>2. CASE \E m \in Points : Unmount(m) /\ UNCHANGED <<pluginVars, image>>
  BY <1>2, NextMount DEF MountStep
<1>3. CASE Exit /\ UNCHANGED <<mountVars, image>>
  BY <1>3, NextPlugin
<1>4. CASE \E c \in Conns : PluginStep(c) /\ UNCHANGED <<mountVars, image>>
  BY <1>4, NextPlugin
<1>5. CASE UNCHANGED vars
  <2>1. MountTypeOK' /\ LoopInv' /\ StackInv' /\ SettledInv' /\ image' \subseteq Found
    BY <1>5, MountsUntouched DEF vars, SourceInv
  <2>2. PluginInv'
    BY <1>5, PluginStutters DEF vars, pluginVars, SourceInv, PluginInv, TypesInv, PluginTypeOK
  <2>3. SharesKept'
    BY <1>5 DEF vars, mountVars, pluginVars, SourceInv, SharesKept, Open, MountedOn, Visible
  <2>4. QED
    BY <2>1, <2>2, <2>3 DEF SourceInv
<1>6. QED
  BY <1>1, <1>2, <1>3, <1>4, <1>5, NextOpen, NextStart DEF Next

\* The invariant gives the properties.
LEMMA SourceInvSuffices == SourceInv => TypeOK /\ StackBounded /\ SharesKept /\ ReadsOwnFile /\ CacheExact
<1>. SUFFICES ASSUME SourceInv PROVE TypeOK /\ StackBounded /\ SharesKept /\ ReadsOwnFile /\ CacheExact
  OBVIOUS
<1>1. TypeOK /\ SharesKept
  BY DEF SourceInv, PluginInv, TypesInv, TypeOK
<1>2. CacheExact /\ ReadsOwnFile
  <2>1. SUFFICES ASSUME ~overlapped PROVE CacheExact /\ ReadsOwnFile
    BY DEF CacheExact, ReadsOwnFile
  <2>2. CacheParts
    BY <2>1 DEF SourceInv, PluginInv, CacheInv
  <2>3. CacheExact
    <3>1. SUFFICES ASSUME \A c \in Conns : at[c] \notin {"store", "close"} PROVE CacheExact
      BY DEF CacheExact
    <3>2. \A i \in DOMAIN fds : Open(fds[i][2]) /\ table[fds[i][2]][1] = fds[i][1]
      BY <2>2, <3>1 DEF CacheParts, OpenAhead, Closes
    <3>3. \A n \in Fds : Open(n) => \E i \in DOMAIN fds : fds[i][2] = n
      BY <2>2, <3>1 DEF CacheParts, NoneLost
    <3>4. \A i, j \in DOMAIN fds : fds[i][1] = fds[j][1] => i = j
      BY <2>2 DEF CacheParts, DistinctPairs
    <3>5. QED
      BY <3>2, <3>3, <3>4 DEF CacheExact
  <2>4. ReadsOwnFile
    BY <2>2 DEF CacheParts, PreadReady, Holds, ReadsOwnFile, SourceInv, PluginInv, ReadInv
  <2>5. QED
    BY <2>3, <2>4
<1>3. ASSUME NEW m \in Points \ Respelled, past[m] # "misread" PROVE Len(stack[m]) =< Cardinality(Compilers)
  <2>1. Len(stack[m]) \in Nat
    BY DEF SourceInv, MountTypeOK
  <2>2. QED
    BY <1>3, <2>1, PendingCounted DEF SourceInv, StackInv
<1>4. QED
  BY <1>1, <1>2, <1>3 DEF StackBounded

\* The variables keep their types.
THEOREM TypeCorrect == Spec => []TypeOK
BY InitSourceInv, NextSourceInv, SourceInvSuffices, PTL DEF Spec

\* However many reloads there are, the mounts of a mount point are never more
\* than the compilations that have run at the same time.
THEOREM StacksStayLow == Spec => []StackBounded
BY InitSourceInv, NextSourceInv, SourceInvSuffices, PTL DEF Spec

\* What nbdkit opens is on the share the image was scanned from, which stays in
\* view as long as no two compilations mount at a time and nobody unmounts; after
\* two have, it may be hidden, and stays mounted.
THEOREM SharesStayMounted == Spec => []SharesKept
BY InitSourceInv, NextSourceInv, SourceInvSuffices, PTL DEF Spec

\* As long as no close has overlapped another callback, a read never goes through
\* a descriptor that another connection has closed, nor through one whose number
\* has been given to another file.
THEOREM ReadsThroughOwnDescriptor == Spec => []ReadsOwnFile
BY InitSourceInv, NextSourceInv, SourceInvSuffices, PTL DEF Spec

\* As long as no close has overlapped another callback, every descriptor of the
\* process is in the cache, once, or about to be stored, used or closed.
THEOREM NoDescriptorLost == Spec => []CacheExact
BY InitSourceInv, NextSourceInv, SourceInvSuffices, PTL DEF Spec

=============================================================================
