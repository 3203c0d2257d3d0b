------------------------------ MODULE MceServices ----------------------------
(***************************************************************************)
(* The queries, requests and notices of the classes that speak to the mode *)
(* control entity, MCE.  For each class, here and in OtherServices:        *)
(*   Get  what a getter answers: the reply is valid or an error, and s is  *)
(*        the state of the service when it replied;                        *)
(*   Told what the slot of the service's signal announces, {} if nothing;  *)
(*   Set  the messages a setter sends, <<>> if it refuses the request;     *)
(*   Do   what the service, which is external, makes of a message.         *)
(* A string of the service that the class does not know is "other".        *)
(***************************************************************************)
EXTENDS Integers, Sequences

CONSTANTS
    MaxBrightness,     \* the greatest brightness MCE knows
    Timeouts,          \* the timeouts MCE has in its list
    Thresholds         \* the list of thresholds, in increasing order

ASSUME MceAssumption ==
    /\ MaxBrightness \in Nat /\ Timeouts \subseteq Nat
    /\ Thresholds \in Seq(1..100) /\ Thresholds # <<>>

Named(names, s, otherwise) == IF s \in DOMAIN names THEN names[s] ELSE otherwise

\* The announcement of a name the slot knows, and silence for any other.
KnownOnly(names, s) == {names[t] : t \in DOMAIN names \cap {s}}

-----------------------------------------------------------------------------
\* QmDisplayState: the state.
DisplayStates == {"off", "dimmed", "on"}
DisplayRequests == {"Off", "Dimmed", "On", "Unknown"}

DisplayGet(valid, s) ==
    IF valid THEN Named([dimmed |-> "Dimmed", on |-> "On", off |-> "Off"], s, "Unknown")
             ELSE "Unknown"

\* Mutant: the slot does not know the dimmed display.
DisplayTold_NotDimmed(s) == KnownOnly([off |-> "Off", on |-> "On"], s)

DisplayTold(s) == KnownOnly([off |-> "Off", dimmed |-> "Dimmed", on |-> "On"], s)

DisplaySet(r) ==
    Named([Off |-> <<"off">>, Dimmed |-> <<"dimmed">>, On |-> <<"on">>], r, <<>>)

-----------------------------------------------------------------------------
\* QmDisplayState: settings.  The numbers are -1 after an error.
Number(valid, s) == IF valid THEN s ELSE -1

getMaxDisplayBrightnessValue(valid) == Number(valid, MaxBrightness)
getDisplayBrightnessValue(valid, s) == Number(valid, s)
getDisplayBlankTimeout(valid, s) == Number(valid, s)
getDisplayDimTimeout(valid, s) == Number(valid, s)

\* The maximum is asked for first; valid says whether that succeeded.
setDisplayBrightnessValue(b, valid) ==
    IF 1 > b \/ b > getMaxDisplayBrightnessValue(valid) THEN <<>> ELSE <<b>>

\* The list is asked for first, and a timeout that is not in it is not set.
setDisplayBlankTimeout(t, valid) == IF valid /\ t \in Timeouts THEN <<t>> ELSE <<>>
setDisplayDimTimeout(t, valid) == IF valid /\ t \in Timeouts THEN <<t>> ELSE <<>>

\* MCE stores whether blanking is inhibited, the class says whether it is not.
getBlankingWhenCharging(valid, s) == Number(valid, s) = 0

\* Mutant: the value is written as it is asked for.
setBlankingWhenCharging_AsIs(blanking) == <<IF blanking THEN 1 ELSE 0>>

setBlankingWhenCharging(blanking) == <<IF blanking THEN 0 ELSE 1>>

-----------------------------------------------------------------------------
\* QmDeviceMode: the mode, made of radio flags.
Radios == {"master", "cellular", "wlan", "bluetooth", "nfc"}
ModeRequests == {"Normal", "Flight", "Error"}

radioStateToDeviceMode(flags) ==
    IF flags \ {"wlan", "bluetooth", "nfc"} # {} THEN "Normal" ELSE "Flight"

getMode(valid, s) == IF valid THEN radioStateToDeviceMode(s) ELSE "Error"
deviceModeChangedSlot(s) == {radioStateToDeviceMode(s)}

\* The state of the master flag, under its mask.
setMode(r) == Named([Normal |-> <<1>>, Flight |-> <<0>>], r, <<>>)

\* Only the flag of the mask changes; the cellular radio obeys it.
ModeDo(s, w) == IF w = 1 THEN s \cup {"master"} ELSE s \ {"master", "cellular"}

-----------------------------------------------------------------------------
\* QmDeviceMode: power saving.  The setter writes a setting of MCE, to force it on
\* or not; the getter and the signal are about the state of MCE.
PSMRequests == {"PSMStateOn", "PSMStateOff", "PSMError"}

psmStateToModeEnum(on) == IF on THEN "PSMStateOn" ELSE "PSMStateOff"
getPSMState(valid, s) == IF valid THEN psmStateToModeEnum(s) ELSE "PSMError"
devicePSMChangedSlot(s) == {psmStateToModeEnum(s)}
setPSMState(r) == Named([PSMStateOff |-> <<FALSE>>, PSMStateOn |-> <<TRUE>>], r, <<>>)

\* The state follows the setting or remains, as when the battery decides it.
PSMDo(s, w) == {s, w}

-----------------------------------------------------------------------------
\* QmDeviceMode: power saving below a battery threshold.
BatteryPSM == [enabled : BOOLEAN, threshold : {Thresholds[i] : i \in DOMAIN Thresholds}]

\* Two queries: whether it is enabled, and the threshold.
getPSMBatteryMode(valid1, s1, valid2, s2) ==
    IF ~valid1 THEN -1 ELSE IF ~s1.enabled THEN 0 ELSE Number(valid2, s2.threshold)

\* The first threshold in the list that is not below p, or the last one.
ThresholdFor(p) ==
    Thresholds[CHOOSE i \in DOMAIN Thresholds :
        /\ p <= Thresholds[i] \/ i = Len(Thresholds)
        /\ \A j \in 1..(i - 1) : p > Thresholds[j]]

\* Mutant: power saving is enabled before the threshold is set.
setPSMBatteryMode_EnabledFirst(p, valid) ==
    IF p < 0 \/ p > 100 THEN <<>>
    ELSE <<[enabled |-> p > 0]>>
           \o (IF p > 0 /\ valid THEN <<[threshold |-> ThresholdFor(p)]>> ELSE <<>>)

\* The list is asked for first; without it no threshold is set, and power saving
\* is enabled all the same.
setPSMBatteryMode(p, valid) ==
    IF p < 0 \/ p > 100 THEN <<>>
    ELSE (IF p > 0 /\ valid THEN <<[threshold |-> ThresholdFor(p)]>> ELSE <<>>)
           \o <<[enabled |-> p > 0]>>

BatteryPSMDo(s, w) == [f \in DOMAIN s |-> IF f \in DOMAIN w THEN w[f] ELSE s[f]]

-----------------------------------------------------------------------------
\* QmLocks: the lock of touch screen and keypad.  A state that is not one is sent
\* as the empty string, which is "other" here.
LockStates == {"locked", "unlocked"}
LockRequests == {"Locked", "Unlocked", "Unknown"}

stringToState(s) == Named([locked |-> "Locked", unlocked |-> "Unlocked"], s, "Unknown")
TkLockGet(valid, s) == IF valid THEN stringToState(s) ELSE "Unknown"
touchAndKeyboardStateChanged(s) == {stringToState(s)}
stateToString(r) == Named([Locked |-> "locked", Unlocked |-> "unlocked"], r, "other")
TkLockSet(r) == <<stateToString(r)>>
TkLockDo(s, w) == IF w \in LockStates THEN w ELSE s

-----------------------------------------------------------------------------
\* QmCallState: a pair of strings.  getState and getType are calls of their own.
CallStates == {"none", "active", "service"} \X {"normal", "emergency"}
CallRequests ==
    {"None", "Active", "Service", "Error"} \X {"Normal", "Emergency", "Unknown"}

CallNames == [active |-> "Active", service |-> "Service", none |-> "None"]
TypeNames == [normal |-> "Normal", emergency |-> "Emergency"]

getState(valid, s) == IF valid THEN Named(CallNames, s[1], "Error") ELSE "Error"
getType(valid, s) == IF valid THEN Named(TypeNames, s[2], "Unknown") ELSE "Unknown"

callStateChanged(s) == {<<Named(CallNames, s[1], "Error"), Named(TypeNames, s[2], "Unknown")>>}

CallSet(r) ==
    IF r[1] = "Error" \/ r[2] = "Unknown" THEN <<>>
    ELSE <<<<CHOOSE n \in DOMAIN CallNames : CallNames[n] = r[1],
             CHOOSE n \in DOMAIN TypeNames : TypeNames[n] = r[2]>>>>

\* MCE allows only changes to and from the state none.
CallDo(s, w) == IF s[1] = "none" \/ w[1] = "none" THEN w ELSE s

-----------------------------------------------------------------------------
\* QmCABC: the product RM-696 has none, and refuses.
CABCModes == [off |-> "Off", ui |-> "Ui", still_image |-> "StillImage",
              moving_image |-> "MovingImage"]
CABCRequests == {CABCModes[s] : s \in DOMAIN CABCModes} \cup {"invalid"}

CABCGet(valid, s) == IF valid THEN Named(CABCModes, s, "Off") ELSE "Off"

CABCSet(r, supported) ==
    IF ~supported \/ r \notin {CABCModes[s] : s \in DOMAIN CABCModes} THEN <<>>
    ELSE <<CHOOSE s \in DOMAIN CABCModes : CABCModes[s] = r>>

-----------------------------------------------------------------------------
\* QmActivity: MCE tells whether the device is inactive.
ActivityGet(valid, inactive) == IF valid /\ ~inactive THEN "Active" ELSE "Inactive"
slotActivityChanged(inactive) == {IF inactive THEN "Inactive" ELSE "Active"}
==============================================================================
