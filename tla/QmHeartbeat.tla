------------------------------ MODULE QmHeartbeat ----------------------------
(***************************************************************************)
(* One QmHeartbeat object.  open gives it a handle of the heartbeat daemon *)
(* and, if signals are wanted, a notifier on the handle's socket; close    *)
(* takes both away.  A heartbeat is data in the socket of a handle that    *)
(* waits; the notifier, if it is enabled, turns it into the signal wakeUp  *)
(* of the private object, which is connected to that of the public one.    *)
(* iphbd and its library are external; each of their calls may fail.       *)
(***************************************************************************)
EXTENDS Naturals

CONSTANT MaxOpens    \* bound on the handles that are opened

VARIABLES
    handle,          \* iphbdHandler, the last handle opened, or NoHandle
    opened,          \* the number of handles opened so far
    notifier,        \* the handle of the notifier pointed to, or NoHandle
    enabled,         \* handles whose notifier is there and enabled
    connections,     \* of the private signal to the public one
    waiting,         \* handles for which iphbd will send a heartbeat
    beating,         \* handles with a heartbeat in their socket
    emitted,         \* history: wakeUp signals the last step emitted
    quiet,           \* history: IWokeUp was called and wait was not since then
    reopened         \* history: open was called again without a close

heartVars == <<handle, opened, notifier, enabled, connections, waiting, beating,
               emitted, quiet, reopened>>

NoHandle == 0
Handles == 1..MaxOpens

HeartInit ==
    /\ handle = NoHandle /\ opened = 0 /\ notifier = NoHandle
    /\ enabled = {} /\ waiting = {} /\ beating = {}
    /\ connections = 0 /\ emitted = 0
    /\ quiet = FALSE /\ reopened = FALSE

Silently == emitted' = 0

\* A new handle and, if asked for, a new disabled notifier; what the pointers
\* showed before is neither closed nor deleted.  Each success connects the
\* signals once more.  The library may give no socket, or no handle.
open(signalNeeded) ==
    /\ opened < MaxOpens
    /\ reopened' = (reopened \/ handle # NoHandle \/ notifier # NoHandle)
    /\ \/ /\ handle' = opened + 1
          /\ opened' = opened + 1
          /\ notifier' = IF signalNeeded THEN opened + 1 ELSE notifier
          /\ connections' = connections + 1
       \/ /\ signalNeeded
          /\ handle' = opened + 1
          /\ opened' = opened + 1
          /\ UNCHANGED <<notifier, connections>>
       \/ /\ handle' = NoHandle
          /\ UNCHANGED <<opened, notifier, connections>>
    /\ Silently
    /\ UNCHANGED <<enabled, waiting, beating, quiet>>

\* The signals stay connected.
close ==
    /\ handle' = NoHandle
    /\ notifier' = NoHandle
    /\ enabled' = enabled \ {notifier}
    /\ waiting' = waiting \ {handle}
    /\ beating' = beating \ {handle}
    /\ Silently
    /\ UNCHANGED <<opened, connections, quiet, reopened>>

Listening(on) ==
    IF notifier = NoHandle THEN enabled
    ELSE IF on THEN enabled \cup {notifier}
    ELSE enabled \ {notifier}

\* DoNotWaitHeartbeat: iphbd is asked for a heartbeat.
waitForSignal ==
    /\ enabled' = Listening(TRUE)
    /\ waiting' \in {waiting, waiting \cup ({handle} \ {NoHandle})}
    /\ quiet' = FALSE
    /\ Silently
    /\ UNCHANGED <<handle, opened, notifier, connections, beating, reopened>>

\* WaitHeartbeat: the call blocks until the heartbeat and takes it.
waitForHeartbeat ==
    /\ enabled' = Listening(FALSE)
    /\ waiting' \in {waiting, waiting \ {handle}}
    /\ beating' = IF waiting' = waiting THEN beating ELSE beating \ {handle}
    /\ quiet' = FALSE
    /\ Silently
    /\ UNCHANGED <<handle, opened, notifier, connections, reopened>>

\* Mutant: the notifier is disabled only when iphbd has been told.
IWokeUp_IfTold ==
    /\ \/ /\ waiting' = waiting \ {handle}
          /\ beating' = beating \ {handle}
          /\ enabled' = Listening(FALSE)
       \/ UNCHANGED <<waiting, beating, enabled>>
    /\ quiet' = TRUE
    /\ Silently
    /\ UNCHANGED <<handle, opened, notifier, connections, reopened>>

\* The notifier is disabled and the heartbeat cancelled, or that fails.
IWokeUp ==
    /\ enabled' = Listening(FALSE)
    /\ \/ /\ waiting' = waiting \ {handle}
          /\ beating' = beating \ {handle}
       \/ UNCHANGED <<waiting, beating>>
    /\ quiet' = TRUE
    /\ Silently
    /\ UNCHANGED <<handle, opened, notifier, connections, reopened>>

\* iphbd sends a heartbeat.
Heartbeat ==
    /\ \E h \in waiting :
        /\ waiting' = waiting \ {h}
        /\ beating' = beating \cup {h}
    /\ Silently
    /\ UNCHANGED <<handle, opened, notifier, enabled, connections, quiet, reopened>>

\* A notifier fires.  What is read is the socket of the current handle,
\* whichever notifier it was; wakeUp goes out over every connection.
socketReady ==
    /\ enabled \cap beating # {}
    /\ beating' \in {beating, beating \ {handle}}
    /\ emitted' = connections
    /\ UNCHANGED <<handle, opened, notifier, enabled, connections, waiting, quiet, reopened>>

HeartNext ==
    \/ \E signalNeeded \in BOOLEAN : open(signalNeeded)
    \/ close
    \/ waitForSignal
    \/ waitForHeartbeat
    \/ IWokeUp
    \/ Heartbeat
    \/ socketReady

HeartSpec == HeartInit /\ [][HeartNext]_heartVars

-----------------------------------------------------------------------------
\* "The wakeUp signal will not be signaled after calling this and a wait() call
\* is needed": after IWokeUp, even one that fails, no heartbeat is signalled
\* until wait, also when one was in the socket already.  An object that is
\* opened again without a close keeps the notifier it has lost, and is excepted.
QuietUntilWait == emitted > 0 /\ ~reopened => ~quiet

\* "Signaled when a heartbeat is received": one heartbeat, one signal, for an
\* object that is closed before it is opened again.  The code breaks it: close
\* does not undo the connection that open made.
SignalledOnce == ~reopened => emitted <= 1
==============================================================================
