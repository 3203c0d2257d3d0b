------------------------------ MODULE KeydPartsMC ----------------------------
(***************************************************************************)
(* The two parts of the daemon that are checked by themselves: one moves   *)
(* in a behaviour and the other rests.  QmKeyd puts both together.         *)
(***************************************************************************)
EXTENDS KeyTranslator, BtDetect

VARIABLE part          \* the part that moves

PartsInit ==
    /\ part \in {"translator", "headset"}
    /\ Init
    /\ BtInit

PartsNext ==
    /\ UNCHANGED part
    /\ \/ part = "translator" /\ Next /\ UNCHANGED btVars
       \/ part = "headset" /\ BtNext /\ UNCHANGED vars

\* The event loop runs the timer and reads the inotify descriptor; a part that
\* rests has neither a timer nor an event.
PartsSpec ==
    /\ PartsInit /\ [][PartsNext]_<<part, vars, btVars>>
    /\ WF_vars(LongPressTimeout) /\ WF_btVars(detectBT)
=============================================================================
