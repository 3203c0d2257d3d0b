---------------------------- MODULE BtDetectProofs ---------------------------
(***************************************************************************)
(* Proofs about BtDetect, for any set of names, any number of devices      *)
(* under one name and any length of the inotify queue: once the events are *)
(* read, the headset in use is a live one and the one created last.        *)
(*                                                                         *)
(* The argument is about what the unread events still say: the device in   *)
(* use is alive or its deletion is in the queue, and the latest headset is *)
(* in use or its creation is in the queue with nothing behind it that      *)
(* could undo its effect.                                                  *)
(***************************************************************************)
EXTENDS BtDetect, TLAPS, SequenceTheorems

Create(n) == [mask |-> "IN_CREATE", name |-> n]
Delete(n) == [mask |-> "IN_DELETE", name |-> n]

\* A name in use has been given to a device, no device has a later number than
\* its name, and the headsets are still headsets as long as they are there.
Numbered ==
    /\ \A n \in Nodes : nodes[n] # "absent" => gen[n] >= 1
    /\ btFile # None => gen[btFile.node] >= btFile.gen
    /\ btFile # None /\ Alive(btFile) => nodes[btFile.node] = "headset"
    /\ latest # None => gen[latest.node] >= latest.gen
    /\ latest # None /\ Alive(latest) => nodes[latest.node] = "headset"

NameOfFile == btfname = IF btFile = None THEN None ELSE btFile.node

DeletionPending ==
    watching /\ btFile # None /\ ~Alive(btFile)
        => \E i \in 1..Len(inotify) : inotify[i] = Delete(btFile.node)

\* From event i on nothing replaces the latest headset or closes it.
Undisturbed(i) ==
    \A j \in 1..Len(inotify) : j > i =>
        /\ inotify[j] # Delete(latest.node)
        /\ \A n \in Nodes : inotify[j] = Create(n) /\ nodes[n] = "headset"
                                => n = latest.node

LatestPending ==
    watching /\ latest \notin refused \cup {None} /\ Alive(latest) =>
        \E i \in 0..Len(inotify) :
            /\ Undisturbed(i)
            /\ IF i = 0 THEN btFile = latest ELSE inotify[i] = Create(latest.node)

\* A device is alive after the step.
AliveNext(d) == nodes'[d.node] # "absent" /\ gen'[d.node] = d.gen

\* The part that also holds when the daemon is restarted, and all of it.
DeviceInv == BtTypeOK /\ Numbered /\ NameOfFile /\ DeletionPending
Inv == DeviceInv /\ LatestPending

-----------------------------------------------------------------------------
\* The initial state.
LEMMA InitInv == BtInit => Inv
<1> SUFFICES ASSUME BtInit PROVE Inv
  OBVIOUS
<1>1. BtTypeOK
  BY BtAssumption, EmptySeq DEF BtInit, BtTypeOK
<1>2. Numbered /\ NameOfFile /\ DeletionPending /\ LatestPending
  BY DEF BtInit, Numbered, NameOfFile, DeletionPending, LatestPending
<1> QED BY <1>1, <1>2 DEF Inv, DeviceInv

\* What is behind the names and the devices, by type.
LEMMA DeviceTypes ==
    ASSUME BtTypeOK
    PROVE  /\ \A n \in Nodes : gen[n] \in Nat /\ gen[n] <= MaxGen
           /\ \A d \in Device : d.node \in Nodes /\ d.gen \in Nat
           /\ inotify \in Seq(InotifyEvent) /\ Len(inotify) \in Nat
           /\ btFile # None => btFile \in Device
           /\ latest # None => latest \in Device
           /\ None \notin Nodes /\ None \notin Device
<1>1. MaxGen \in Nat /\ None \notin Nodes
  BY BtAssumption
<1>2. None \notin Device
  BY BtAssumption DEF Device
<1>3. \A n \in Nodes : gen[n] \in Nat /\ gen[n] <= MaxGen
  BY <1>1 DEF BtTypeOK
<1>4. \A d \in Device : d.node \in Nodes /\ d.gen \in Nat
  BY <1>1 DEF Device
<1>5. inotify \in Seq(InotifyEvent) /\ Len(inotify) \in Nat
  BY DEF BtTypeOK
<1>6. /\ btFile # None => btFile \in Device
      /\ latest # None => latest \in Device
  BY DEF BtTypeOK
<1> QED BY <1>1, <1>2, <1>3, <1>4, <1>5, <1>6

\* What the queue looks like when an event is added or read.
LEMMA Appended ==
    ASSUME NEW s \in Seq(InotifyEvent), NEW e \in InotifyEvent
    PROVE  /\ Append(s, e) \in Seq(InotifyEvent)
           /\ Len(Append(s, e)) = Len(s) + 1
           /\ \A i \in 1..Len(s) : Append(s, e)[i] = s[i]
           /\ Append(s, e)[Len(s) + 1] = e
OBVIOUS

LEMMA Read ==
    ASSUME NEW s \in Seq(InotifyEvent), s # <<>>
    PROVE  /\ Head(s) = s[1] /\ s[1] \in InotifyEvent
           /\ Tail(s) \in Seq(InotifyEvent)
           /\ Len(s) \in Nat /\ Len(s) >= 1 /\ Len(Tail(s)) = Len(s) - 1
           /\ \A i \in 1..Len(Tail(s)) : Tail(s)[i] = s[i+1]
OBVIOUS

-----------------------------------------------------------------------------
\* Events of different kinds or names differ, and there are no others.
LEMMA EventsDiffer ==
    \A n, m \in Nodes : /\ Create(n) # Delete(m)
                        /\ Create(n) = Create(m) => n = m
                        /\ Delete(n) = Delete(m) => n = m
<1>1. ASSUME NEW n \in Nodes, NEW m \in Nodes
      PROVE  /\ Create(n) # Delete(m)
             /\ Create(n) = Create(m) => n = m
             /\ Delete(n) = Delete(m) => n = m
  <2>1. /\ Create(n).mask = "IN_CREATE" /\ Delete(m).mask = "IN_DELETE"
        /\ Create(n).name = n /\ Create(m).name = m
        /\ Delete(n).name = n /\ Delete(m).name = m
    BY DEF Create, Delete
  <2> QED BY <2>1
<1> QED BY <1>1

LEMMA Events ==
    /\ \A n \in Nodes : Create(n) \in InotifyEvent /\ Delete(n) \in InotifyEvent
    /\ \A e \in InotifyEvent :
          /\ e.name \in Nodes /\ e.mask \in {"IN_CREATE", "IN_DELETE"}
          /\ e.mask = "IN_CREATE" => e = Create(e.name)
          /\ e.mask = "IN_DELETE" => e = Delete(e.name)
<1>1. \A n \in Nodes : Create(n) \in InotifyEvent /\ Delete(n) \in InotifyEvent
  BY DEF Create, Delete, InotifyEvent
<1>2. ASSUME NEW e \in InotifyEvent
      PROVE  /\ e.name \in Nodes /\ e.mask \in {"IN_CREATE", "IN_DELETE"}
             /\ e.mask = "IN_CREATE" => e = Create(e.name)
             /\ e.mask = "IN_DELETE" => e = Delete(e.name)
  BY DEF Create, Delete, InotifyEvent
<1> QED BY <1>1, <1>2

-----------------------------------------------------------------------------
\* A device is created.
LEMMA CreateKeepsDevices ==
    ASSUME DeviceInv, NEW n \in Nodes, NEW kind \in {"headset", "other"}, CreateNode(n, kind)
    PROVE  DeviceInv' /\ (LatestPending => LatestPending')
<1>t. /\ BtTypeOK
      /\ gen \in [Nodes -> 0..MaxGen] /\ nodes \in [Nodes -> {"absent", "headset", "other"}]
      /\ MaxGen \in Nat /\ watching \in BOOLEAN
      /\ inotify \in Seq(InotifyEvent) /\ Len(inotify) \in Nat
  BY BtAssumption, DeviceTypes DEF DeviceInv, BtTypeOK
<1>1. /\ nodes[n] = "absent" /\ gen[n] < MaxGen
      /\ nodes' = [nodes EXCEPT ![n] = kind] /\ gen' = [gen EXCEPT ![n] = @ + 1]
      /\ latest' = IF kind = "headset" THEN [node |-> n, gen |-> gen[n] + 1] ELSE latest
      /\ UNCHANGED <<refused, watching, btfname, btFile>>
  BY <1>t DEF CreateNode
<1>2. /\ inotify' \in Seq(InotifyEvent)
      /\ watching => /\ Len(inotify') = Len(inotify) + 1
                     /\ \A i \in 1..Len(inotify) : inotify'[i] = inotify[i]
                     /\ inotify'[Len(inotify) + 1] = Create(n)
  <2>1. Create(n) \in InotifyEvent
    BY Events
  <2>2. inotify' = IF watching THEN Append(inotify, Create(n)) ELSE inotify
    BY DEF CreateNode, Notify, Create
  <2> QED BY <1>t, <2>1, <2>2, Appended
<1>3. ASSUME NEW d \in Device, gen[d.node] >= d.gen
      PROVE  /\ d.node = n => ~Alive(d) /\ ~AliveNext(d)
             /\ d.node # n => (AliveNext(d) <=> Alive(d))
             /\ nodes'[d.node] = "headset" /\ d.node # n => nodes[d.node] = "headset"
             /\ d.node # n => nodes'[d.node] = nodes[d.node]
             /\ gen'[d.node] >= d.gen
  <2>1. d.node \in Nodes /\ d.gen \in Nat /\ gen[d.node] \in Nat
    BY <1>t, DeviceTypes
  <2>2. CASE d.node = n
    BY <1>t, <1>1, <1>3, <2>1, <2>2 DEF Alive, AliveNext
  <2>3. CASE d.node # n
    BY <1>t, <1>1, <1>3, <2>1, <2>3 DEF Alive, AliveNext
  <2> QED BY <2>2, <2>3
<1>4. btFile # None => btFile \in Device /\ gen[btFile.node] >= btFile.gen
  BY <1>t, DeviceTypes DEF DeviceInv, Numbered
<1>5. latest # None => latest \in Device /\ gen[latest.node] >= latest.gen
  BY <1>t, DeviceTypes DEF DeviceInv, Numbered
<1>6. kind = "headset" =>
        /\ latest' \in Device /\ latest'.node = n
        /\ gen'[n] >= latest'.gen /\ nodes'[n] = "headset"
  BY <1>t, <1>1 DEF Device
<1>7. BtTypeOK'
  <2>1. gen' \in [Nodes -> 0..MaxGen]
    BY <1>t, <1>1
  <2>2. latest' \in Device \cup {None}
    BY <1>t, <1>1, <1>6 DEF BtTypeOK
  <2> QED BY <1>t, <1>1, <1>2, <2>1, <2>2 DEF BtTypeOK
<1>8. Numbered'
  <2>1. (btFile # None =>
           /\ gen[btFile.node] >= btFile.gen
           /\ Alive(btFile) => nodes[btFile.node] = "headset")'
    BY <1>1, <1>3, <1>4 DEF DeviceInv, Numbered, Alive, AliveNext
  <2>2. \A m \in Nodes : nodes'[m] # "absent" => gen'[m] >= 1
    BY <1>t, <1>1 DEF DeviceInv, Numbered
  <2>3. CASE kind = "headset"
    BY <1>6, <2>1, <2>2, <2>3 DEF Numbered
  <2>4. CASE kind # "headset"
    <3>1. latest' = latest
      BY <1>1, <2>4
    <3> QED BY <1>3, <1>5, <2>1, <2>2, <3>1 DEF DeviceInv, Numbered, Alive, AliveNext
  <2> QED BY <2>3, <2>4
<1>9. NameOfFile'
  BY <1>1 DEF DeviceInv, NameOfFile
<1>10. DeletionPending'
  <2> SUFFICES ASSUME watching, btFile # None, ~AliveNext(btFile)
               PROVE  \E i \in 1..Len(inotify') : inotify'[i] = Delete(btFile.node)
    BY <1>1 DEF DeletionPending, Alive, AliveNext
  <2>1. ~Alive(btFile)
    BY <1>3, <1>4
  <2>2. PICK i \in 1..Len(inotify) : inotify[i] = Delete(btFile.node)
    BY <2>1 DEF DeviceInv, DeletionPending
  <2> QED BY <1>t, <1>2, <2>2
<1>11. ASSUME LatestPending PROVE LatestPending'
  <2> SUFFICES ASSUME watching, latest' # None, latest' \notin refused, AliveNext(latest')
               PROVE  \E i \in 0..Len(inotify') :
                        /\ Undisturbed(i)'
                        /\ IF i = 0 THEN btFile = latest'
                           ELSE inotify'[i] = Create(latest'.node)
    BY <1>1 DEF LatestPending, Alive, AliveNext
  <2>1. CASE kind = "headset"
    <3>1. PICK k \in Nat : k = Len(inotify) + 1
      BY <1>t
    <3>2. k \in 0..Len(inotify') /\ k # 0 /\ inotify'[k] = Create(latest'.node)
      BY <1>t, <1>2, <1>6, <2>1, <3>1
    <3>3. Undisturbed(k)'
      BY <1>t, <1>2, <3>1 DEF Undisturbed
    <3> QED BY <3>2, <3>3
  <2>2. CASE kind # "headset"
    <3>1. latest' = latest /\ kind = "other"
      BY <1>1, <2>2
    <3>2. latest.node # n /\ Alive(latest)
      BY <1>3, <1>5, <3>1
    <3>3. PICK i \in 0..Len(inotify) :
            /\ Undisturbed(i)
            /\ IF i = 0 THEN btFile = latest ELSE inotify[i] = Create(latest.node)
      BY <1>11, <3>1, <3>2 DEF LatestPending
    <3>4. i \in 0..Len(inotify') /\ (i # 0 => inotify'[i] = Create(latest.node))
      BY <1>t, <1>2, <3>3
    <3>5. Undisturbed(i)'
      <4> SUFFICES ASSUME NEW j \in 1..Len(inotify'), j > i
                   PROVE  /\ inotify'[j] # Delete(latest.node)
                          /\ \A m \in Nodes :
                                inotify'[j] = Create(m) /\ nodes'[m] = "headset"
                                    => m = latest.node
        BY <3>1 DEF Undisturbed
      <4>1. latest.node \in Nodes
        BY <1>5, <3>1, DeviceTypes, <1>t
      <4>2. CASE j = Len(inotify) + 1
        <5>1. inotify'[j] = Create(n) /\ nodes'[n] = "other"
          BY <1>t, <1>1, <1>2, <3>1, <4>2
        <5>0. \A m \in Nodes : /\ Create(n) # Delete(m)
                               /\ Create(n) = Create(m) => n = m
          BY EventsDiffer
        <5>2. /\ Create(n) # Delete(latest.node)
              /\ \A m \in Nodes : Create(n) = Create(m) => n = m
          BY <4>1, <5>0
        <5>3. ASSUME NEW m \in Nodes, inotify'[j] = Create(m), nodes'[m] = "headset"
              PROVE  FALSE
          <6>1. n = m
            BY <5>1, <5>2, <5>3
          <6> QED BY <5>1, <5>3, <6>1
        <5> QED BY <5>1, <5>2, <5>3
      <4>3. CASE j \in 1..Len(inotify)
        <5>1. inotify'[j] = inotify[j]
          BY <1>2, <4>3
        <5>2. \A m \in Nodes : nodes'[m] = "headset" => nodes[m] = "headset"
          BY <1>t, <1>1, <3>1
        <5> QED BY <3>3, <4>3, <5>1, <5>2 DEF Undisturbed
      <4> QED BY <1>t, <1>2, <4>2, <4>3
    <3> QED BY <3>1, <3>3, <3>4, <3>5
  <2> QED BY <2>1, <2>2
<1> QED BY <1>7, <1>8, <1>9, <1>10, <1>11 DEF DeviceInv

\* A device goes away.
LEMMA DeleteKeepsDevices ==
    ASSUME DeviceInv, NEW n \in Nodes, DeleteNode(n)
    PROVE  DeviceInv' /\ (LatestPending => LatestPending')
<1>t. /\ BtTypeOK
      /\ gen \in [Nodes -> 0..MaxGen] /\ nodes \in [Nodes -> {"absent", "headset", "other"}]
      /\ MaxGen \in Nat /\ watching \in BOOLEAN
      /\ inotify \in Seq(InotifyEvent) /\ Len(inotify) \in Nat
  BY BtAssumption, DeviceTypes DEF DeviceInv, BtTypeOK
<1>1. /\ nodes[n] # "absent" /\ nodes' = [nodes EXCEPT ![n] = "absent"]
      /\ UNCHANGED <<gen, latest, refused, watching, btfname, btFile>>
  BY DEF DeleteNode
<1>2. /\ inotify' \in Seq(InotifyEvent)
      /\ watching => /\ Len(inotify') = Len(inotify) + 1
                     /\ \A i \in 1..Len(inotify) : inotify'[i] = inotify[i]
                     /\ inotify'[Len(inotify) + 1] = Delete(n)
  <2>1. Delete(n) \in InotifyEvent
    BY Events
  <2>2. inotify' = IF watching THEN Append(inotify, Delete(n)) ELSE inotify
    BY DEF DeleteNode, Notify, Delete
  <2> QED BY <1>t, <2>1, <2>2, Appended
<1>3. ASSUME NEW d \in Device
      PROVE  AliveNext(d) <=> Alive(d) /\ d.node # n
  <2>1. d.node \in Nodes
    BY <1>t, DeviceTypes
  <2> QED BY <1>t, <1>1, <2>1 DEF Alive, AliveNext
<1>4. \A m \in Nodes : nodes'[m] = IF m = n THEN "absent" ELSE nodes[m]
  BY <1>t, <1>1
<1>5. /\ btFile # None => btFile \in Device /\ btFile.node \in Nodes
      /\ latest # None => latest \in Device /\ latest.node \in Nodes
  BY <1>t, DeviceTypes
<1>6. BtTypeOK'
  <2>1. nodes' \in [Nodes -> {"absent", "headset", "other"}]
    BY <1>t, <1>1
  <2> QED BY <1>t, <1>1, <1>2, <2>1 DEF BtTypeOK
<1>7. Numbered'
  BY <1>1, <1>3, <1>4, <1>5 DEF DeviceInv, Numbered, Alive, AliveNext
<1>8. NameOfFile'
  BY <1>1 DEF DeviceInv, NameOfFile
<1>9. DeletionPending'
  <2> SUFFICES ASSUME watching, btFile # None, ~AliveNext(btFile)
               PROVE  \E i \in 1..Len(inotify') : inotify'[i] = Delete(btFile.node)
    BY <1>1 DEF DeletionPending, Alive, AliveNext
  <2>1. CASE Alive(btFile)
    <3>1. btFile.node = n
      BY <1>3, <1>5, <2>1
    <3>2. Len(inotify) + 1 \in 1..Len(inotify')
      BY <1>t, <1>2
    <3> QED BY <1>2, <3>1, <3>2
  <2>2. CASE ~Alive(btFile)
    <3>1. PICK i \in 1..Len(inotify) : inotify[i] = Delete(btFile.node)
      BY <2>2 DEF DeviceInv, DeletionPending
    <3> QED BY <1>t, <1>2, <3>1
  <2> QED BY <2>1, <2>2
<1>10. ASSUME LatestPending PROVE LatestPending'
  <2> SUFFICES ASSUME watching, latest # None, latest \notin refused, AliveNext(latest)
               PROVE  \E i \in 0..Len(inotify') :
                        /\ Undisturbed(i)'
                        /\ IF i = 0 THEN btFile = latest
                           ELSE inotify'[i] = Create(latest.node)
    BY <1>1 DEF LatestPending, Alive, AliveNext
  <2>1. latest.node # n /\ Alive(latest)
    BY <1>3, <1>5
  <2>2. PICK i \in 0..Len(inotify) :
          /\ Undisturbed(i)
          /\ IF i = 0 THEN btFile = latest ELSE inotify[i] = Create(latest.node)
    BY <1>10, <2>1 DEF LatestPending
  <2>3. i \in 0..Len(inotify') /\ (i # 0 => inotify'[i] = Create(latest.node))
    BY <1>t, <1>2, <2>2
  <2>4. Undisturbed(i)'
    <3> SUFFICES ASSUME NEW j \in 1..Len(inotify'), j > i
                 PROVE  /\ inotify'[j] # Delete(latest.node)
                        /\ \A m \in Nodes :
                              inotify'[j] = Create(m) /\ nodes'[m] = "headset"
                                  => m = latest.node
      BY <1>1 DEF Undisturbed
    <3>1. CASE j = Len(inotify) + 1
      <4>1. inotify'[j] = Delete(n)
        BY <1>2, <3>1
      <4>2. \A m \in Nodes : /\ Create(m) # Delete(n)
                             /\ Delete(n) = Delete(m) => n = m
        BY EventsDiffer
      <4> QED BY <1>5, <2>1, <4>1, <4>2
    <3>2. CASE j \in 1..Len(inotify)
      <4>1. inotify'[j] = inotify[j]
        BY <1>2, <3>2
      <4> QED BY <1>4, <2>2, <3>2, <4>1 DEF Undisturbed
    <3> QED BY <1>t, <1>2, <3>1, <3>2
  <2> QED BY <2>2, <2>3, <2>4
<1> QED BY <1>6, <1>7, <1>8, <1>9, <1>10 DEF DeviceInv

-----------------------------------------------------------------------------
\* What detectBT does with the event at the head of the queue: it passes over
\* it, refuses the device, closes the headset in use or takes up a new one.
PassesOver(e) ==
    /\ UNCHANGED <<btfname, btFile, refused>>
    /\ \/ e = Delete(e.name) /\ btfname # e.name
       \/ e = Create(e.name) /\ nodes[e.name] # "headset"
Refuses(e) ==
    /\ e = Create(e.name) /\ UNCHANGED <<btfname, btFile>>
    /\ refused' = refused \cup {Current(e.name)} /\ nodes[e.name] # "absent"
Closes(e) ==
    /\ e = Delete(e.name) /\ btfname = e.name
    /\ btFile' = None /\ btfname' = None /\ UNCHANGED refused
TakesUp(e) ==
    /\ e = Create(e.name) /\ nodes[e.name] = "headset"
    /\ btFile' = Current(e.name) /\ btfname' = e.name /\ UNCHANGED refused

LEMMA ReadOutcome ==
    ASSUME BtTypeOK, detectBT, NEW e \in InotifyEvent, e = Head(inotify)
    PROVE  PassesOver(e) \/ Refuses(e) \/ Closes(e) \/ TakesUp(e)
<1>1. /\ e.name \in Nodes
      /\ e.mask = "IN_CREATE" => e = Create(e.name)
      /\ e.mask = "IN_DELETE" => e = Delete(e.name)
      /\ e.mask \in {"IN_CREATE", "IN_DELETE"}
  BY Events
<1>2. CASE e.mask = "IN_DELETE"
  <2>1. Deleted(e.name)
    BY <1>2 DEF detectBT
  <2> QED BY <1>1, <1>2, <2>1 DEF Deleted, closeBT, PassesOver, Closes
<1>3. CASE e.mask = "IN_CREATE"
  <2>1. Created(e.name)
    BY <1>3 DEF detectBT
  <2> QED BY <1>1, <1>3, <2>1 DEF Created, isHeadset, PassesOver, Refuses, TakesUp
<1> QED BY <1>1, <1>2, <1>3

\* What is undisturbed stays so when the queue moves up.
LEMMA UndisturbedMovesUp ==
    ASSUME BtTypeOK, inotify # <<>>, inotify' = Tail(inotify), UNCHANGED <<nodes, latest>>,
           NEW i \in 0..Len(inotify), NEW k \in Nat,
           k = IF i = 0 THEN 0 ELSE i - 1, Undisturbed(i)
    PROVE  Undisturbed(k)'
<1>1. /\ Len(inotify) \in Nat /\ Len(inotify') = Len(inotify) - 1
      /\ Len(inotify) >= 1
      /\ \A j \in 1..Len(inotify') : inotify'[j] = inotify[j+1]
  BY Read DEF BtTypeOK
<1> SUFFICES ASSUME NEW j \in 1..Len(inotify'), j > k
             PROVE  /\ inotify'[j] # Delete(latest.node)
                    /\ \A n \in Nodes : inotify'[j] = Create(n) /\ nodes[n] = "headset"
                                             => n = latest.node
  BY DEF Undisturbed
<1>2. j+1 \in 1..Len(inotify) /\ j+1 > i
  BY <1>1
<1>3. inotify'[j] = inotify[j+1]
  BY <1>1
<1> QED BY <1>2, <1>3 DEF Undisturbed

\* The daemon handles an event.
LEMMA ReadKeepsDevices ==
    ASSUME DeviceInv, detectBT
    PROVE  DeviceInv' /\ (LatestPending => LatestPending')
<1>t. /\ BtTypeOK
      /\ gen \in [Nodes -> 0..MaxGen] /\ nodes \in [Nodes -> {"absent", "headset", "other"}]
      /\ MaxGen \in Nat /\ watching \in BOOLEAN
      /\ inotify \in Seq(InotifyEvent)
  BY BtAssumption, DeviceTypes DEF DeviceInv, BtTypeOK
<1>1. /\ watching /\ inotify # <<>> /\ inotify' = Tail(inotify)
      /\ UNCHANGED <<nodes, gen, latest, watching>>
  BY DEF detectBT, envBt
<1>2. PICK e \in InotifyEvent : e = Head(inotify)
  BY <1>t, <1>1, Read
<1>3. /\ e = inotify[1] /\ inotify' \in Seq(InotifyEvent)
      /\ Len(inotify) \in Nat /\ Len(inotify) >= 1 /\ Len(inotify') = Len(inotify) - 1
      /\ \A i \in 1..Len(inotify') : inotify'[i] = inotify[i+1]
  BY <1>t, <1>1, <1>2, Read
<1>4. PassesOver(e) \/ Refuses(e) \/ Closes(e) \/ TakesUp(e)
  BY <1>t, <1>2, ReadOutcome
<1>5. e.name \in Nodes
  BY Events
<1>6. nodes[e.name] # "absent" =>
        /\ Current(e.name) \in Device /\ Current(e.name).node = e.name
        /\ Current(e.name).gen = gen[e.name]
  <2>1. nodes[e.name] # "absent" => gen[e.name] \in 1..MaxGen
    BY <1>t, <1>5 DEF DeviceInv, Numbered
  <2> QED BY <1>5, <2>1 DEF Current, Device
<1>7. /\ btFile # None => btFile \in Device /\ btFile.node \in Nodes
      /\ latest # None => latest \in Device /\ latest.node \in Nodes
      /\ None \notin Nodes /\ None \notin Device
      /\ gen[e.name] \in Nat
  BY <1>t, <1>5, DeviceTypes
<1>8. ASSUME NEW d \in Device
      PROVE  Alive(d)' <=> Alive(d)
  BY <1>1 DEF Alive
<1>9. BtTypeOK'
  <2>1. btfname' \in Nodes \cup {None} /\ btFile' \in Device \cup {None} /\ refused' \subseteq Device
    BY <1>4, <1>5, <1>6, <1>t DEF PassesOver, Refuses, Closes, TakesUp, BtTypeOK
  <2> QED BY <1>t, <1>1, <1>3, <2>1 DEF BtTypeOK
<1>10. Numbered'
  <2>1. (btFile # None =>
           /\ gen[btFile.node] >= btFile.gen
           /\ Alive(btFile) => nodes[btFile.node] = "headset")'
    <3>1. CASE btFile' = btFile
      BY <1>1, <3>1 DEF DeviceInv, Numbered, Alive
    <3>2. CASE btFile' = None
      BY <3>2
    <3>3. CASE TakesUp(e)
      <4>1. btFile' = Current(e.name) /\ nodes[e.name] = "headset"
        BY <3>3 DEF TakesUp
      <4> QED BY <1>1, <1>6, <1>7, <4>1
    <3> QED BY <1>4, <3>1, <3>2, <3>3 DEF PassesOver, Refuses, Closes
  <2> QED BY <1>1, <2>1 DEF DeviceInv, Numbered, Alive
<1>11. NameOfFile'
  BY <1>4, <1>6, <1>7 DEF DeviceInv, NameOfFile, PassesOver, Refuses, Closes, TakesUp
<1>12. DeletionPending'
  <2> SUFFICES ASSUME btFile' # None, ~Alive(btFile)'
               PROVE  \E i \in 1..Len(inotify') : inotify'[i] = Delete(btFile'.node)
    BY DEF DeletionPending
  <2>1. ~TakesUp(e) /\ ~Closes(e)
    <3>1. ASSUME TakesUp(e) PROVE FALSE
      <4>1. btFile' = Current(e.name) /\ nodes[e.name] = "headset"
        BY <3>1 DEF TakesUp
      <4> QED BY <1>1, <1>6, <4>1 DEF Alive
    <3> QED BY <3>1 DEF Closes
  <2>2. btFile' = btFile /\ btfname' = btfname
    BY <1>4, <2>1 DEF PassesOver, Refuses
  <2>3. PICK i \in 1..Len(inotify) : inotify[i] = Delete(btFile.node)
    BY <1>1, <2>2 DEF DeviceInv, DeletionPending, Alive
  <2>4. btFile.node \in Nodes /\ btfname = btFile.node
    BY <1>7, <2>2 DEF DeviceInv, NameOfFile
  <2>5. e # Delete(btFile.node)
    <3>1. \A m \in Nodes : /\ Create(m) # Delete(btFile.node)
                           /\ Delete(m) = Delete(btFile.node) => m = btFile.node
      BY <2>4, EventsDiffer
    <3> QED BY <1>4, <1>5, <2>1, <2>4, <3>1 DEF PassesOver, Refuses
  <2>6. i # 1
    BY <1>3, <2>3, <2>5
  <2>7. i-1 \in 1..Len(inotify') /\ (i-1)+1 = i
    BY <1>3, <2>6
  <2>8. inotify'[i-1] = Delete(btFile.node)
    BY <1>3, <2>3, <2>7
  <2> QED BY <2>2, <2>7, <2>8
<1>13. ASSUME LatestPending PROVE LatestPending'
  <2> SUFFICES ASSUME latest # None, latest \notin refused', Alive(latest)
               PROVE  \E k \in 0..Len(inotify') :
                        /\ Undisturbed(k)'
                        /\ IF k = 0 THEN btFile' = latest
                           ELSE inotify'[k] = Create(latest.node)
    BY <1>1 DEF LatestPending, Alive
  <2>1. latest \notin refused
    BY <1>4 DEF PassesOver, Refuses, Closes, TakesUp
  <2>2. PICK i \in 0..Len(inotify) :
          /\ Undisturbed(i)
          /\ IF i = 0 THEN btFile = latest ELSE inotify[i] = Create(latest.node)
    BY <1>1, <1>13, <2>1 DEF LatestPending
  <2>3. nodes[latest.node] = "headset" /\ gen[latest.node] = latest.gen
    BY DEF DeviceInv, Numbered, Alive
  <2>4. e.name = latest.node => Current(e.name) = latest
    BY <1>7, <2>3 DEF Device, Current
  <2>5. PICK k \in Nat : k = IF i = 0 THEN 0 ELSE i - 1
    BY <1>3, <2>2
  <2>6. k \in 0..Len(inotify') /\ Undisturbed(k)'
    <3>1. Undisturbed(k)'
      BY <1>t, <1>1, <2>2, <2>5, UndisturbedMovesUp
    <3> QED BY <1>3, <2>5, <3>1
  <2>7. ASSUME k = 0
        PROVE  btFile' = latest
    <3>1. CASE i = 0
      <4>1. btFile = latest /\ btfname = latest.node
        BY <2>2, <3>1 DEF DeviceInv, NameOfFile
      <4>2. /\ e # Delete(latest.node)
            /\ e = Create(e.name) /\ nodes[e.name] = "headset" => e.name = latest.node
        BY <1>3, <1>5, <2>2, <3>1 DEF Undisturbed
      <4> QED BY <1>4, <2>4, <4>1, <4>2 DEF PassesOver, Refuses, Closes, TakesUp
    <3>2. CASE i = 1
      <4>1. e = Create(latest.node)
        BY <1>3, <2>2, <3>2
      <4>2. e.name = latest.node /\ e # Delete(e.name)
        <5>1. Create(latest.node).name = latest.node
          BY DEF Create
        <5>2. Create(latest.node) # Delete(latest.node)
          BY <1>7, EventsDiffer
        <5> QED BY <4>1, <5>1, <5>2
      <4> QED BY <1>4, <2>3, <2>4, <4>1, <4>2 DEF PassesOver, Refuses, Closes, TakesUp
    <3> QED BY <2>5, <2>7, <3>1, <3>2
  <2>8. ASSUME k # 0
        PROVE  inotify'[k] = Create(latest.node)
    <3>1. i = k+1 /\ k \in 1..Len(inotify') /\ i # 0
      BY <1>3, <2>5, <2>8
    <3> QED BY <1>3, <2>2, <3>1
  <2> QED BY <2>6, <2>7, <2>8
<1> QED BY <1>9, <1>10, <1>11, <1>12, <1>13 DEF DeviceInv

\* The watch is given up, or nothing happens.
LEMMA WatchLostKeepsDevices ==
    ASSUME DeviceInv, removeInotifyWatch
    PROVE  DeviceInv' /\ LatestPending'
<1>1. /\ watching' = FALSE /\ inotify' = <<>>
      /\ UNCHANGED <<nodes, gen, latest, refused, btfname, btFile>>
  BY DEF removeInotifyWatch, envBt
<1>2. BtTypeOK'
  BY <1>1, EmptySeq DEF DeviceInv, BtTypeOK
<1>3. Numbered' /\ NameOfFile'
  BY <1>1 DEF DeviceInv, Numbered, NameOfFile, Alive
<1>4. DeletionPending' /\ LatestPending'
  BY <1>1 DEF DeletionPending, LatestPending
<1> QED BY <1>2, <1>3, <1>4 DEF DeviceInv

LEMMA StutterKeepsDevices ==
    ASSUME DeviceInv, UNCHANGED btVars
    PROVE  DeviceInv' /\ (LatestPending => LatestPending')
BY DEF DeviceInv, btVars, BtTypeOK, Numbered, NameOfFile, DeletionPending, LatestPending,
       Undisturbed, Alive

\* Every step of the detection, alone or inside the daemon.
LEMMA StepKeepsDevices ==
    ASSUME DeviceInv, [BtNext]_btVars
    PROVE  DeviceInv' /\ (LatestPending => LatestPending')
<1>1. ASSUME NEW n \in Nodes, NEW kind \in {"headset", "other"}, CreateNode(n, kind)
      PROVE  DeviceInv' /\ (LatestPending => LatestPending')
  BY <1>1, CreateKeepsDevices
<1>2. ASSUME NEW n \in Nodes, DeleteNode(n)
      PROVE  DeviceInv' /\ (LatestPending => LatestPending')
  BY <1>2, DeleteKeepsDevices
<1>3. CASE detectBT
  BY <1>3, ReadKeepsDevices
<1>4. CASE removeInotifyWatch
  BY <1>4, WatchLostKeepsDevices
<1>5. CASE UNCHANGED btVars
  BY <1>5, StutterKeepsDevices
<1> QED BY <1>1, <1>2, <1>3, <1>4, <1>5 DEF BtNext, BtKernel

LEMMA SpecInv == BtSpec => []Inv
<1>1. BtInit => Inv
  BY InitInv
<1>2. Inv /\ [BtNext]_btVars => Inv'
  BY StepKeepsDevices DEF Inv
<1> QED BY <1>1, <1>2, PTL DEF BtSpec

-----------------------------------------------------------------------------
\* The variables of the detection keep their types: only names that the kernel
\* has reported and devices that existed are ever kept.
THEOREM TypeCorrect == BtSpec => []BtTypeOK
<1>1. Inv => BtTypeOK
  BY DEF Inv, DeviceInv
<1> QED BY <1>1, SpecInv, PTL

\* A device that is in use but gone has its deletion in the queue.
LEMMA DevicesSettled ==
    ASSUME DeviceInv
    PROVE  SettledHeadsetIsAlive
<1> SUFFICES ASSUME watching, inotify = <<>>, btFile # None
             PROVE  /\ Alive(btFile) /\ nodes[btFile.node] = "headset"
                    /\ btfname = btFile.node
  BY DEF SettledHeadsetIsAlive
<1>1. Len(inotify) = 0
  BY EmptySeq
<1>2. Alive(btFile)
  BY <1>1 DEF DeviceInv, DeletionPending
<1> QED BY <1>2 DEF DeviceInv, Numbered, NameOfFile

\* When detectBT has read all events the headset in use is there, is a headset
\* and has the name that the next deletion will be compared with.
THEOREM HeadsetAlive == BtSpec => []SettledHeadsetIsAlive
<1>1. Inv => SettledHeadsetIsAlive
  BY DevicesSettled DEF Inv
<1> QED BY <1>1, SpecInv, PTL

\* When detectBT has read all events the headset created last is in use, unless
\* it has gone or could not be opened.
THEOREM HeadsetLatest == BtSpec => []SettledHeadsetIsLatest
<1>1. Inv => SettledHeadsetIsLatest
  <2> SUFFICES ASSUME Inv, watching, inotify = <<>>,
                      latest \notin refused \cup {None}, Alive(latest)
               PROVE  btFile = latest
    BY DEF SettledHeadsetIsLatest
  <2>1. Len(inotify) = 0
    BY EmptySeq
  <2> QED BY <2>1 DEF Inv, DeviceInv, LatestPending
<1> QED BY <1>1, SpecInv, PTL
=============================================================================
