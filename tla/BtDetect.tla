------------------------------- MODULE BtDetect ------------------------------
(***************************************************************************)
(* How qmkeyd finds the one Bluetooth headset it supports.  The daemon     *)
(* watches /dev/input with inotify and reacts to nodes that are created    *)
(* and deleted there, always after the fact: by the time it opens a node   *)
(* the node may be gone, or be another device under the same name.  The    *)
(* variable gen tells the successive devices of one name apart; the code   *)
(* only sees the name.                                                     *)
(***************************************************************************)
EXTENDS Naturals, Sequences

CONSTANTS
    Nodes,          \* names in /dev/input
    OpenMayFail,    \* an existing node may refuse to be opened or probed
    WatchMayFail,   \* reading the inotify descriptor may fail
    MaxGen,         \* bound: devices created under one name
    MaxQueue,       \* bound: unread inotify events
    None

ASSUME BtAssumption ==
    /\ OpenMayFail \in BOOLEAN /\ WatchMayFail \in BOOLEAN
    /\ MaxGen \in Nat /\ MaxQueue \in Nat
    /\ None \notin Nodes \cup [node : Nodes, gen : 1..MaxGen]

VARIABLES
    nodes,      \* what is behind each name now
    gen,        \* number of devices that have had the name
    latest,     \* history: the headset created last
    refused,    \* history: devices that could not be opened or probed
    inotify,    \* unread inotify events, in order
    watching,   \* inotifyFd is open and its notifier enabled
    btfname,    \* name of the headset in use
    btFile      \* the device behind the open descriptor

envBt == <<nodes, gen, latest>>
btVars == <<nodes, gen, latest, refused, inotify, watching, btfname, btFile>>

Device == [node : Nodes, gen : 1..MaxGen]
InotifyEvent == [mask : {"IN_CREATE", "IN_DELETE"}, name : Nodes]

BtInit ==
    /\ nodes = [n \in Nodes |-> "absent"]
    /\ gen = [n \in Nodes |-> 0]
    /\ latest = None
    /\ refused = {}
    /\ inotify = <<>>
    /\ watching = TRUE
    /\ btfname = None
    /\ btFile = None

-----------------------------------------------------------------------------
\* The kernel: devices come and go, and tell the watch if there is one.
Notify(mask, n) ==
    /\ watching => Len(inotify) < MaxQueue
    /\ inotify' = IF watching
                  THEN Append(inotify, [mask |-> mask, name |-> n])
                  ELSE inotify

CreateNode(n, kind) ==
    /\ nodes[n] = "absent" /\ gen[n] < MaxGen
    /\ nodes' = [nodes EXCEPT ![n] = kind]
    /\ gen' = [gen EXCEPT ![n] = @ + 1]
    /\ latest' = IF kind = "headset" THEN [node |-> n, gen |-> gen'[n]]
                                     ELSE latest
    /\ Notify("IN_CREATE", n)
    /\ UNCHANGED <<refused, watching, btfname, btFile>>

DeleteNode(n) ==
    /\ nodes[n] # "absent"
    /\ nodes' = [nodes EXCEPT ![n] = "absent"]
    /\ Notify("IN_DELETE", n)
    /\ UNCHANGED <<gen, latest, refused, watching, btfname, btFile>>

-----------------------------------------------------------------------------
\* The daemon: detectBT, one inotify event at a time.
closeBT ==
    /\ btFile' = None
    /\ btfname' = None

\* isHeadset: the probe of a node that could be opened.
isHeadset(n) == nodes[n] = "headset"

\* The device that has the name now.
Current(n) == [node |-> n, gen |-> gen[n]]

\* Mutant: a headset already in use is not replaced.
Created_KeepsFirst(n) ==
    /\ UNCHANGED refused
    /\ IF isHeadset(n) /\ btFile = None
       THEN btfname' = n /\ btFile' = Current(n)
       ELSE UNCHANGED <<btfname, btFile>>

\* IN_CREATE: the node is opened and probed; a headset replaces the one in use.
Created(n) ==
    \/ /\ nodes[n] = "absent"                       \* open fails: next event
       /\ UNCHANGED <<btfname, btFile, refused>>
    \/ /\ nodes[n] # "absent" /\ OpenMayFail
       /\ refused' = refused \cup {Current(n)}
       /\ UNCHANGED <<btfname, btFile>>
    \/ /\ isHeadset(n)
       /\ btfname' = n
       /\ btFile' = Current(n)
       /\ UNCHANGED refused
    \/ /\ nodes[n] = "other"                        \* probed and closed
       /\ UNCHANGED <<btfname, btFile, refused>>

\* Mutant: the comparison of the names is inverted.
Deleted_NameTestInverted(n) ==
    /\ IF btfname = n THEN UNCHANGED <<btfname, btFile>> ELSE closeBT
    /\ UNCHANGED refused

\* IN_DELETE: it matters only if it is the headset in use.
Deleted(n) ==
    /\ IF btfname = n THEN closeBT ELSE UNCHANGED <<btfname, btFile>>
    /\ UNCHANGED refused

detectBT ==
    /\ watching /\ inotify # <<>>
    /\ LET ev == Head(inotify)
       IN  IF ev.mask = "IN_DELETE" THEN Deleted(ev.name) ELSE Created(ev.name)
    /\ inotify' = Tail(inotify)
    /\ UNCHANGED <<envBt, watching>>

\* A failed or short read gives up the watch for good.
removeInotifyWatch ==
    /\ WatchMayFail /\ watching
    /\ watching' = FALSE
    /\ inotify' = <<>>
    /\ UNCHANGED <<envBt, refused, btfname, btFile>>

BtKernel ==
    \/ \E n \in Nodes, kind \in {"headset", "other"} : CreateNode(n, kind)
    \/ \E n \in Nodes : DeleteNode(n)

BtNext == BtKernel \/ detectBT \/ removeInotifyWatch

\* The event loop runs detectBT while the descriptor is readable.
BtSpec == BtInit /\ [][BtNext]_btVars /\ WF_btVars(detectBT)

-----------------------------------------------------------------------------
\* The device behind the name is the one that was opened.
Alive(device) ==
    /\ nodes[device.node] # "absent"
    /\ gen[device.node] = device.gen

BtTypeOK ==
    /\ nodes \in [Nodes -> {"absent", "headset", "other"}]
    /\ gen \in [Nodes -> 0..MaxGen]
    /\ latest \in Device \cup {None} /\ refused \subseteq Device
    /\ inotify \in Seq(InotifyEvent)
    /\ watching \in BOOLEAN
    /\ btfname \in Nodes \cup {None}
    /\ btFile \in Device \cup {None}

\* Once every inotify event is read the descriptor in use, if any, is the
\* headset that is now behind its name: not one that has gone, and not a
\* device that took over the name between the event and the open.
SettledHeadsetIsAlive ==
    (watching /\ inotify = <<>> /\ btFile # None)
        => Alive(btFile) /\ nodes[btFile.node] = "headset" /\ btfname = btFile.node

\* Once every inotify event is read the headset created last is in use, unless
\* it has gone or could not be opened: names reused quickly do not make the
\* daemon miss it.
SettledHeadsetIsLatest ==
    (/\ watching /\ inotify = <<>>
     /\ latest \notin refused \cup {None} /\ Alive(latest)) => btFile = latest

\* A headset that stays is in use sooner or later, or a newer one replaces it.
HeadsetFound ==
    \A d \in Device :
        (latest = d /\ watching)
            ~> (btFile = d \/ latest # d \/ ~Alive(d) \/ d \in refused \/ ~watching)
=============================================================================
