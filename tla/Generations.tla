----------------------------- MODULE Generations -----------------------------
(***************************************************************************)
(* What the control plane promises its clients and the console, without    *)
(* threads, labels, locks, systemd or workers.                             *)
(*                                                                         *)
(* Clients publish images under numbers and choose one of the published;   *)
(* one client at a time installs its choice; the generation reported as    *)
(* active is replaced by an installed choice, whole, or stays.  The        *)
(* console sees one image for as long as its disk is attached.             *)
(***************************************************************************)
CONSTANTS
    Clients,        \* whoever asks for a generation
    Boot,           \* the client that installs the first generation of a process
    Numbers,        \* generation numbers
    Images,         \* what a generation serves
    NoImage,        \* an unused number
    NoChoice,       \* a client without a generation in hand
    Detached,       \* no disk at the console
    Lost            \* a disk whose image does not answer

VARIABLES
    published,      \* number -> image
    choice,         \* the generation each client has in hand
    installers,     \* who is exchanging the hardware
    active,         \* the generation reported as active
    disk            \* what the console sees

gvars == <<disk, active, published, installers, choice>>

Nothing == [n \in Numbers |-> NoImage]
NoneChosen == [c \in Clients |-> NoChoice]

Init ==
    /\ published = Nothing
    /\ choice = NoneChosen
    /\ installers = {}
    /\ active = NoChoice
    /\ disk = Detached

\* A number is given an image.  (Two compilations can take the same number.)
Publish(n, i) ==
    /\ published' = [published EXCEPT ![n] = i]
    /\ UNCHANGED <<choice, installers, active, disk>>

\* A client chooses what a number stands for at that moment.
Choose(c, n) ==
    /\ published[n] # NoImage
    /\ choice[c] = NoChoice /\ c \notin installers
    /\ choice' = [choice EXCEPT ![c] = [id |-> n, cfg |-> published[n]]]
    /\ UNCHANGED <<published, installers, active, disk>>

\* It begins to install its choice when nobody else does.
Begin(c) ==
    /\ installers = {} /\ choice[c] # NoChoice
    /\ installers' = {c}
    /\ UNCHANGED <<published, choice, active, disk>>

\* A new process publishes and begins to install its configuration at once.
ColdStart(n, i) ==
    /\ active = NoChoice /\ installers = {}
    /\ published' = [published EXCEPT ![n] = i]
    /\ choice' = [choice EXCEPT ![Boot] = [id |-> n, cfg |-> i]]
    /\ installers' = {Boot}
    /\ UNCHANGED <<active, disk>>

\* The installer attaches an image to a console that has none.  A cold start
\* may find the disk of an earlier process still attached, its server gone.
Attach(c) ==
    /\ disk \in {Detached, Lost} /\ installers = {c}
    /\ disk' \in Images \cup {Lost}
    /\ UNCHANGED <<published, choice, installers, active>>

\* The disk is taken away: by a cutover, an eject, shutdown.
Detach ==
    /\ disk' = Detached
    /\ UNCHANGED <<published, choice, installers, active>>

\* The server of an attached image goes away.
Lose ==
    /\ disk # Detached /\ disk' = Lost
    /\ UNCHANGED <<published, choice, installers, active>>

\* The installer's choice is the active generation.
Commit(c) ==
    /\ installers = {c}
    /\ active' = choice[c]
    /\ choice' = [choice EXCEPT ![c] = NoChoice]
    /\ installers' = {}
    /\ UNCHANGED <<published, disk>>

\* A client gives up, wherever it is.  The active generation stays, although
\* the console may be left without its disk.
GiveUp(c) ==
    /\ choice' = [choice EXCEPT ![c] = NoChoice]
    /\ installers' = installers \ {c}
    /\ disk' \in {disk, Detached}
    /\ UNCHANGED <<published, active>>

\* The process ends and a new one begins; the console keeps what it has, or
\* loses its disk, or the server behind it, with the process that ends.
Restart ==
    /\ published' = Nothing /\ choice' = NoneChosen
    /\ installers' = {} /\ active' = NoChoice
    /\ disk' = disk \/ disk' = Detached \/ (disk # Detached /\ disk' = Lost)

\* Most of what the control plane does is none of its clients' business.
Internal == UNCHANGED gvars

Next ==
    \/ Internal
    \/ Detach \/ Lose \/ Restart
    \/ \E c \in Clients : Begin(c) \/ Attach(c) \/ Commit(c) \/ GiveUp(c)
    \/ \E n \in Numbers :
          \/ \E c \in Clients : Choose(c, n)
          \/ \E i \in Images : Publish(n, i) \/ ColdStart(n, i)

Spec == Init /\ [][Next]_gvars
=============================================================================
