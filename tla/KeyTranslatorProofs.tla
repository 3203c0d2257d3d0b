------------------------- MODULE KeyTranslatorProofs -------------------------
(***************************************************************************)
(* Proofs about KeyTranslator, for every pair of keys and every length of  *)
(* the history: its type, its timer, the shape of the stream of events it  *)
(* emits, and that it implements KeyPress.                                 *)
(***************************************************************************)
EXTENDS KeyTranslator, TLAPS, SequenceTheorems

-----------------------------------------------------------------------------
\* Presses and releases of the two keys are events.
LEMMA EventTypes ==
    \A code \in {ShortKey, LongKey} :
        PressOf(code) \in Event /\ ReleaseOf(code) \in Event
BY KeysDiffer DEF PressOf, ReleaseOf, Event

\* What a history looks like when one event is added.
LEMMA AddOne ==
    ASSUME NEW s \in Seq(Event), NEW e \in Event
    PROVE  LET t == s \o <<e>>
           IN  /\ t \in Seq(Event) /\ Len(t) = Len(s) + 1
               /\ \A i \in 1..Len(s) : t[i] = s[i]
               /\ t[Len(s) + 1] = e
OBVIOUS

\* What it looks like when two are added.
LEMMA AddTwo ==
    ASSUME NEW s \in Seq(Event), NEW e \in Event, NEW f \in Event
    PROVE  LET t == s \o <<e, f>>
           IN  /\ t \in Seq(Event) /\ Len(t) = Len(s) + 2
               /\ \A i \in 1..Len(s) : t[i] = s[i]
               /\ t[Len(s) + 1] = e /\ t[Len(s) + 2] = f
OBVIOUS

\* Concatenating sequences of no or one element.
LEMMA Short ==
    ASSUME NEW e \in Event, NEW f \in Event
    PROVE  <<e>> \o <<f>> = <<e, f>> /\ <<>> \o <<f>> = <<f>>
<1>1. <<e>> \in Seq(Event) /\ <<f>> \in Seq(Event) /\ <<e, f>> \in Seq(Event)
  OBVIOUS
<1>2. <<>> \o <<f>> = <<f>>
  BY <1>1, ConcatEmptySeq
<1>3. <<e>> \o <<f>> = <<e, f>>
  <2> DEFINE t == <<e>> \o <<f>>
  <2>1. t \in Seq(Event) /\ Len(t) = 2 /\ t[1] = e /\ t[2] = f
    BY <1>1, AddOne
  <2>2. Len(t) = Len(<<e, f>>) /\ \A i \in 1..Len(t) : t[i] = <<e, f>>[i]
    BY <2>1
  <2> HIDE DEF t
  <2>3. t = <<e, f>>
    BY <1>1, <2>1, <2>2, SeqEqual
  <2> QED BY <2>3 DEF t
<1> QED BY <1>2, <1>3

-----------------------------------------------------------------------------
\* The two properties of the stream, of any stream.
Announced(s) ==
    \A i \in DOMAIN s :
        s[i] = ReleaseOf(LongKey) => i > 1 /\ s[i-1] = PressOf(LongKey)

PairedAt(s, i) ==
    IF s[i].value = 0
    THEN i > 1 /\ s[i-1] = PressOf(s[i].code)
    ELSE IF i < Len(s) THEN s[i+1] = ReleaseOf(s[i].code)
         ELSE s[i] = PressOf(LongKey)

Paired(s) == \A i \in DOMAIN s : PairedAt(s, i)

Closed(s) == s # <<>> => s[Len(s)].value = 0
LongOpen(s) == s # <<>> /\ s[Len(s)] = PressOf(LongKey)

ShortEvents == <<PressOf(ShortKey), ReleaseOf(ShortKey)>>

\* An event other than the release of the long-press key does no harm.
LEMMA AnnouncedOne ==
    ASSUME NEW s \in Seq(Event), Announced(s),
           NEW e \in Event, e # ReleaseOf(LongKey)
    PROVE  Announced(s \o <<e>>)
<1> DEFINE t == s \o <<e>>
<1>1. /\ t \in Seq(Event) /\ Len(t) = Len(s) + 1
      /\ \A i \in 1..Len(s) : t[i] = s[i]
      /\ t[Len(s) + 1] = e
  BY AddOne
<1> HIDE DEF t
<1>2. Announced(t)
  BY <1>1 DEF Announced
<1> QED BY <1>2 DEF t

\* Its release right after its press.
LEMMA AnnouncedLong ==
    ASSUME NEW s \in Seq(Event), Announced(s), LongOpen(s)
    PROVE  Announced(s \o <<ReleaseOf(LongKey)>>)
<1> DEFINE t == s \o <<ReleaseOf(LongKey)>>
<1>1. ReleaseOf(LongKey) \in Event
  BY EventTypes
<1>2. /\ t \in Seq(Event) /\ Len(t) = Len(s) + 1
      /\ \A i \in 1..Len(s) : t[i] = s[i]
  BY <1>1, AddOne
<1>3. Len(s) \in Nat /\ Len(s) > 0
  BY EmptySeq DEF LongOpen
<1>4. t[Len(s)] = PressOf(LongKey)
  BY <1>2, <1>3 DEF LongOpen
<1> HIDE DEF t
<1>5. Announced(t)
  BY <1>2, <1>3, <1>4 DEF Announced
<1> QED BY <1>5 DEF t

\* A whole short press.
LEMMA AnnouncedShort ==
    ASSUME NEW s \in Seq(Event), Announced(s)
    PROVE  Announced(s \o ShortEvents)
<1> DEFINE t == s \o ShortEvents
<1>1. PressOf(ShortKey) \in Event /\ ReleaseOf(ShortKey) \in Event
  BY EventTypes
<1>2. /\ t \in Seq(Event) /\ Len(t) = Len(s) + 2
      /\ \A i \in 1..Len(s) : t[i] = s[i]
      /\ t[Len(s) + 1] = PressOf(ShortKey) /\ t[Len(s) + 2] = ReleaseOf(ShortKey)
  BY <1>1, AddTwo DEF ShortEvents
<1>3. /\ PressOf(ShortKey) # ReleaseOf(LongKey)
      /\ ReleaseOf(ShortKey) # ReleaseOf(LongKey)
  BY KeysDiffer DEF PressOf, ReleaseOf
<1> HIDE DEF t
<1>4. Announced(t)
  BY <1>2, <1>3 DEF Announced
<1> QED BY <1>4 DEF t

\* Growing the stream disturbs nothing before its last event, nor that one if
\* it is a release.
LEMMA PairedKept ==
    ASSUME NEW s \in Seq(Event), NEW t \in Seq(Event), NEW i \in 1..Len(s),
           Len(t) > Len(s), \A j \in 1..Len(s) : t[j] = s[j],
           PairedAt(s, i), i < Len(s) \/ s[i].value = 0
    PROVE  PairedAt(t, i)
<1>1. Len(s) \in Nat /\ Len(t) \in Nat
  OBVIOUS
<1>2. CASE s[i].value = 0
  <2>1. i > 1 /\ i - 1 \in 1..Len(s)
    BY <1>1, <1>2 DEF PairedAt
  <2> QED BY <1>2, <2>1 DEF PairedAt
<1>3. CASE s[i].value # 0
  <2>1. i + 1 \in 1..Len(s) /\ i < Len(t)
    BY <1>1, <1>3
  <2> QED BY <1>3, <2>1 DEF PairedAt
<1> QED BY <1>2, <1>3

\* A whole short press after complete presses.
LEMMA PairedShort ==
    ASSUME NEW s \in Seq(Event), Paired(s), Closed(s)
    PROVE  Paired(s \o ShortEvents) /\ Closed(s \o ShortEvents)
<1> DEFINE t == s \o ShortEvents
<1>1. PressOf(ShortKey) \in Event /\ ReleaseOf(ShortKey) \in Event
  BY EventTypes
<1>2. /\ t \in Seq(Event) /\ Len(t) = Len(s) + 2
      /\ \A i \in 1..Len(s) : t[i] = s[i]
      /\ t[Len(s) + 1] = PressOf(ShortKey) /\ t[Len(s) + 2] = ReleaseOf(ShortKey)
  BY <1>1, AddTwo DEF ShortEvents
<1>3. /\ PressOf(ShortKey).value = 1 /\ ReleaseOf(ShortKey).value = 0
      /\ PressOf(ShortKey).code = ShortKey /\ ReleaseOf(ShortKey).code = ShortKey
  BY DEF PressOf, ReleaseOf
<1>4. Len(s) \in Nat /\ (Len(s) > 0 => s[Len(s)].value = 0)
  BY EmptySeq DEF Closed
<1> HIDE DEF t
<1>5. Paired(t)
  <2> SUFFICES ASSUME NEW i \in 1..Len(t) PROVE PairedAt(t, i)
    BY <1>2 DEF Paired
  <2>1. CASE i <= Len(s)
    <3>1. i \in 1..Len(s) /\ PairedAt(s, i)
      BY <1>4, <2>1 DEF Paired
    <3>2. i < Len(s) \/ s[i].value = 0
      BY <1>4, <3>1
    <3> QED BY <1>2, <3>1, <3>2, PairedKept
  <2>3. CASE i > Len(s)
    BY <1>2, <1>3, <1>4, <2>3 DEF PairedAt
  <2> QED BY <1>4, <2>1, <2>3
<1>6. Closed(t)
  BY <1>2, <1>3 DEF Closed
<1> QED BY <1>5, <1>6 DEF t

\* The press of a long press after complete presses.
LEMMA PairedPress ==
    ASSUME NEW s \in Seq(Event), Paired(s), Closed(s)
    PROVE  Paired(s \o <<PressOf(LongKey)>>) /\ LongOpen(s \o <<PressOf(LongKey)>>)
<1> DEFINE t == s \o <<PressOf(LongKey)>>
<1>1. PressOf(LongKey) \in Event
  BY EventTypes
<1>2. /\ t \in Seq(Event) /\ Len(t) = Len(s) + 1
      /\ \A i \in 1..Len(s) : t[i] = s[i]
      /\ t[Len(s) + 1] = PressOf(LongKey)
  BY <1>1, AddOne
<1>3. PressOf(LongKey).value = 1
  BY DEF PressOf
<1>4. Len(s) \in Nat /\ (Len(s) > 0 => s[Len(s)].value = 0)
  BY EmptySeq DEF Closed
<1> HIDE DEF t
<1>5. Paired(t)
  <2> SUFFICES ASSUME NEW i \in 1..Len(t) PROVE PairedAt(t, i)
    BY <1>2 DEF Paired
  <2>1. CASE i <= Len(s)
    <3>1. i \in 1..Len(s) /\ PairedAt(s, i)
      BY <1>4, <2>1 DEF Paired
    <3>2. i < Len(s) \/ s[i].value = 0
      BY <1>4, <3>1
    <3> QED BY <1>2, <3>1, <3>2, PairedKept
  <2>3. CASE i > Len(s)
    BY <1>2, <1>3, <1>4, <2>3 DEF PairedAt
  <2> QED BY <1>4, <2>1, <2>3
<1>6. LongOpen(t)
  BY <1>2, <1>4 DEF LongOpen
<1> QED BY <1>5, <1>6 DEF t

\* The release of a long press that was open.
LEMMA PairedRelease ==
    ASSUME NEW s \in Seq(Event), Paired(s), LongOpen(s)
    PROVE  Paired(s \o <<ReleaseOf(LongKey)>>) /\ Closed(s \o <<ReleaseOf(LongKey)>>)
<1> DEFINE t == s \o <<ReleaseOf(LongKey)>>
<1>1. ReleaseOf(LongKey) \in Event
  BY EventTypes
<1>2. /\ t \in Seq(Event) /\ Len(t) = Len(s) + 1
      /\ \A i \in 1..Len(s) : t[i] = s[i]
      /\ t[Len(s) + 1] = ReleaseOf(LongKey)
  BY <1>1, AddOne
<1>3. /\ PressOf(LongKey).value = 1 /\ ReleaseOf(LongKey).value = 0
      /\ PressOf(LongKey).code = LongKey /\ ReleaseOf(LongKey).code = LongKey
  BY DEF PressOf, ReleaseOf
<1>4. Len(s) \in Nat /\ Len(s) > 0 /\ s[Len(s)] = PressOf(LongKey)
  BY EmptySeq DEF LongOpen
<1> HIDE DEF t
<1>5. Paired(t)
  <2> SUFFICES ASSUME NEW i \in 1..Len(t) PROVE PairedAt(t, i)
    BY <1>2 DEF Paired
  <2>1. CASE i < Len(s)
    <3>1. i \in 1..Len(s) /\ PairedAt(s, i)
      BY <1>4, <2>1 DEF Paired
    <3> QED BY <1>2, <2>1, <3>1, PairedKept
  <2>2. CASE i = Len(s)
    BY <1>2, <1>3, <1>4, <2>2 DEF PairedAt
  <2>3. CASE i > Len(s)
    BY <1>2, <1>3, <1>4, <2>3 DEF PairedAt
  <2> QED BY <1>4, <2>1, <2>2, <2>3
<1>6. Closed(t)
  BY <1>2, <1>3 DEF Closed
<1> QED BY <1>5, <1>6 DEF t

-----------------------------------------------------------------------------
\* The inductive invariant.  A translator that has detected a long press has
\* announced it last; while nothing is missed the translator follows the key,
\* and the stream is left open only by a long press that goes on.
LongIsOpen == translator.state = "LONG_PRESS_DETECTED" => LongOpen(sent)

FollowsKey ==
    ~missed =>
        /\ pressed <=> translator.state # "WAIT_FOR_KEYPRESS"
        /\ translator.state # "LONG_PRESS_DETECTED" => Closed(sent)

Inv ==
    /\ TypeOK /\ TimerMeansWaiting /\ LongIsOpen /\ FollowsKey
    /\ Announced(sent) /\ (~missed => Paired(sent))

\* What a release adds to the stream in each state of the translator.
LEMMA ReleaseEvents ==
    ASSUME Inv
    PROVE  HandleEventEmits(translator, 0, MyKeys) =
             IF translator.state = "WAIT_FOR_LONG_PRESS" THEN ShortEvents
             ELSE IF translator.state = "LONG_PRESS_DETECTED" THEN <<ReleaseOf(LongKey)>>
             ELSE <<ReleaseOf(ShortKey)>>
<1>1. /\ PressOf(ShortKey) \in Event
      /\ ReleaseOf(ShortKey) \in Event /\ ReleaseOf(LongKey) \in Event
  BY EventTypes
<1>2. /\ <<PressOf(ShortKey)>> \o <<ReleaseOf(ShortKey)>> = ShortEvents
      /\ <<>> \o <<ReleaseOf(ShortKey)>> = <<ReleaseOf(ShortKey)>>
      /\ <<>> \o <<ReleaseOf(LongKey)>> = <<ReleaseOf(LongKey)>>
  BY <1>1, Short DEF ShortEvents
<1>3. translator.timer <=> translator.state = "WAIT_FOR_LONG_PRESS"
  BY DEF Inv, TimerMeansWaiting
<1>4. HandleEventEmits(translator, 0, MyKeys) =
        (IF translator.timer THEN <<PressOf(ShortKey)>> ELSE <<>>)
          \o <<ReleaseOf(IF translator.state = "LONG_PRESS_DETECTED"
                         THEN LongKey ELSE ShortKey)>>
  BY DEF HandleEventEmits, KeyUpEvents, MyKeys
<1>5. CASE translator.state = "WAIT_FOR_LONG_PRESS"
  BY <1>2, <1>3, <1>4, <1>5
<1>6. CASE translator.state = "LONG_PRESS_DETECTED"
  BY <1>2, <1>3, <1>4, <1>6
<1>7. CASE /\ translator.state # "WAIT_FOR_LONG_PRESS"
           /\ translator.state # "LONG_PRESS_DETECTED"
  BY <1>2, <1>3, <1>4, <1>7
<1> QED BY <1>5, <1>6, <1>7

\* What each step does; the last two alternatives are the timer and the steps
\* that leave the stream alone.
LEMMA Steps ==
    ASSUME Inv, Next
    PROVE  \/ /\ HandleEvent(1)
              /\ ~pressed /\ pressed' = TRUE /\ missed' = missed /\ sent' = sent
              /\ translator' = [state |-> "WAIT_FOR_LONG_PRESS", timer |-> TRUE]
           \/ /\ HandleEvent(0)
              /\ pressed /\ pressed' = FALSE /\ missed' = missed
              /\ sent' = sent \o HandleEventEmits(translator, 0, MyKeys)
              /\ translator' = [state |-> "WAIT_FOR_KEYPRESS", timer |-> FALSE]
           \/ /\ HandleEvent(2)
              /\ pressed /\ pressed' = TRUE /\ missed' = missed /\ sent' = sent
              /\ translator' = translator
           \/ /\ missed' = TRUE /\ pressed' \in BOOLEAN
              /\ UNCHANGED <<translator, sent>>
           \/ /\ translator.state = "WAIT_FOR_LONG_PRESS"
              /\ translator' = [state |-> "LONG_PRESS_DETECTED", timer |-> FALSE]
              /\ sent' = sent \o <<PressOf(LongKey)>>
              /\ UNCHANGED <<pressed, missed>>
<1>1. sent \in Seq(Event) /\ pressed \in BOOLEAN
  BY DEF Inv, TypeOK
<1>2. sent \o <<>> = sent
  BY <1>1, ConcatEmptySeq
<1>n. /\ 0 # 1 /\ 1 # 0 /\ 2 # 0 /\ 2 # 1
      /\ (0 # 0) = FALSE /\ (1 # 0) = TRUE /\ (2 # 0) = TRUE
  OBVIOUS
<1>4. CASE HandleEvent(0)
  <2>1. translator' = [state |-> "WAIT_FOR_KEYPRESS", timer |-> FALSE]
    BY <1>4 DEF HandleEvent, handleEvent, handleKeyUp
  <2>2. missed' = missed /\ sent' = sent \o HandleEventEmits(translator, 0, MyKeys)
    BY <1>4 DEF HandleEvent
  <2>3. pressed' = (0 # 0) /\ (pressed <=> 0 # 1)
    BY <1>4 DEF HandleEvent, KeyMoves
  <2>4. pressed' = FALSE /\ pressed
    BY <1>n, <2>3, Zenon
  <2> QED BY <1>4, <2>1, <2>2, <2>4, Zenon
<1>5. CASE HandleEvent(1)
  <2>1. translator' = [state |-> "WAIT_FOR_LONG_PRESS", timer |-> TRUE]
    BY <1>5 DEF HandleEvent, handleEvent, handleKeyDown
  <2>2. missed' = missed /\ sent' = sent
    BY <1>2, <1>5 DEF HandleEvent, HandleEventEmits
  <2>3. pressed' = (1 # 0) /\ (pressed <=> 1 # 1)
    BY <1>5 DEF HandleEvent, KeyMoves
  <2>4. pressed' = TRUE /\ ~pressed
    BY <1>n, <2>3, Zenon
  <2> QED BY <1>5, <2>1, <2>2, <2>4, Zenon
<1>6. CASE HandleEvent(2)
  <2>1. translator' = translator
    BY <1>6 DEF HandleEvent, handleEvent
  <2>2. missed' = missed /\ sent' = sent
    BY <1>2, <1>6 DEF HandleEvent, HandleEventEmits
  <2>3. pressed' = (2 # 0) /\ (pressed <=> 2 # 1)
    BY <1>6 DEF HandleEvent, KeyMoves
  <2>4. pressed' = TRUE /\ pressed
    BY <1>n, <2>3, Zenon
  <2> QED BY <1>6, <2>1, <2>2, <2>4, Zenon
<1>7. ASSUME NEW value \in 0..2, MissEvent(value)
      PROVE  missed' = TRUE /\ pressed' \in BOOLEAN /\ UNCHANGED <<translator, sent>>
  BY <1>7 DEF MissEvent, KeyMoves
<1>8. CASE LongPressTimeout
  <2>1. translator.state = "WAIT_FOR_LONG_PRESS"
    BY <1>8 DEF LongPressTimeout, Inv, TimerMeansWaiting
  <2> QED BY <1>8, <2>1
          DEF LongPressTimeout, longPressTimeout, TimeoutEvents, MyKeys
<1>9. \/ HandleEvent(0) \/ HandleEvent(1) \/ HandleEvent(2)
      \/ \E value \in 0..2 : MissEvent(value)
      \/ LongPressTimeout
  <2>1. \A value \in 0..2 : value \in {0, 1, 2}
    OBVIOUS
  <2> QED BY <2>1, Zenon DEF Next
<1> QED BY <1>4, <1>5, <1>6, <1>7, <1>8, <1>9, Zenon

\* The initial state.
LEMMA InitInv == Init => Inv
<1> SUFFICES ASSUME Init PROVE Inv
  OBVIOUS
<1>1. TypeOK
  BY EmptySeq DEF Init, TypeOK, InitialTranslator, Translator, TranslatorStates
<1>2. TimerMeansWaiting /\ LongIsOpen /\ FollowsKey
  BY DEF Init, InitialTranslator, TimerMeansWaiting, LongIsOpen, FollowsKey, Closed
<1>3. Announced(sent) /\ Paired(sent)
  BY EmptySeq DEF Init, Announced, Paired
<1> QED BY <1>1, <1>2, <1>3 DEF Inv

\* Every step preserves the invariant.
LEMMA NextInv == Inv /\ [Next]_vars => Inv'
<1> SUFFICES ASSUME Inv, [Next]_vars PROVE Inv'
  OBVIOUS
<1>t. /\ sent \in Seq(Event) /\ missed \in BOOLEAN /\ pressed \in BOOLEAN
      /\ translator \in Translator /\ translator.state \in TranslatorStates
  BY DEF Inv, TypeOK, Translator
<1>i. /\ Announced(sent) /\ (~missed => Paired(sent))
      /\ LongIsOpen /\ FollowsKey
  BY DEF Inv
<1>e. /\ PressOf(ShortKey) \in Event /\ ReleaseOf(ShortKey) \in Event
      /\ PressOf(LongKey) \in Event /\ ReleaseOf(LongKey) \in Event
      /\ PressOf(LongKey) # ReleaseOf(LongKey)
      /\ ReleaseOf(ShortKey) # ReleaseOf(LongKey)
  BY EventTypes, KeysDiffer DEF PressOf, ReleaseOf
<1>1. CASE UNCHANGED vars
  BY <1>1 DEF vars, Inv, TypeOK, TimerMeansWaiting, LongIsOpen, FollowsKey,
              Announced, Paired, PairedAt, LongOpen, Closed
<1>2. CASE Next
  <2>1. ASSUME /\ ~pressed /\ pressed' = TRUE /\ missed' = missed /\ sent' = sent
               /\ translator' = [state |-> "WAIT_FOR_LONG_PRESS", timer |-> TRUE]
        PROVE  Inv'
    <3>1. TypeOK' /\ TimerMeansWaiting' /\ LongIsOpen'
      BY <1>t, <2>1
         DEF TypeOK, TimerMeansWaiting, LongIsOpen, Translator, TranslatorStates
    <3>2. FollowsKey'
      BY <1>i, <2>1 DEF FollowsKey
    <3>3. (Announced(sent) /\ (~missed => Paired(sent)))'
      BY <1>i, <2>1
    <3> QED BY <3>1, <3>2, <3>3 DEF Inv
  <2>2. ASSUME /\ pressed /\ pressed' = FALSE /\ missed' = missed
               /\ sent' = sent \o HandleEventEmits(translator, 0, MyKeys)
               /\ translator' = [state |-> "WAIT_FOR_KEYPRESS", timer |-> FALSE]
        PROVE  Inv'
    <3>1. /\ sent' \in Seq(Event) /\ Announced(sent')
          /\ ~missed => Paired(sent') /\ Closed(sent')
      <4>1. CASE translator.state = "WAIT_FOR_LONG_PRESS"
        <5>1. sent' = sent \o ShortEvents
          BY <2>2, <4>1, ReleaseEvents
        <5>2. sent' \in Seq(Event)
          BY <1>t, <1>e, <5>1, AddTwo DEF ShortEvents
        <5>3. Announced(sent')
          BY <1>t, <1>i, <5>1, AnnouncedShort
        <5>4. ~missed => Paired(sent) /\ Closed(sent)
          BY <1>i, <4>1 DEF FollowsKey
        <5> QED BY <1>t, <5>1, <5>2, <5>3, <5>4, PairedShort
      <4>2. CASE translator.state = "LONG_PRESS_DETECTED"
        <5>1. sent' = sent \o <<ReleaseOf(LongKey)>>
          BY <2>2, <4>2, ReleaseEvents
        <5>2. sent' \in Seq(Event)
          BY <1>t, <1>e, <5>1, AddOne
        <5>3. LongOpen(sent)
          BY <1>i, <4>2 DEF LongIsOpen
        <5>4. Announced(sent')
          BY <1>t, <1>i, <5>1, <5>3, AnnouncedLong
        <5> QED BY <1>t, <1>i, <5>1, <5>2, <5>3, <5>4, PairedRelease
      <4>3. CASE translator.state = "WAIT_FOR_KEYPRESS"
        <5>1. sent' = sent \o <<ReleaseOf(ShortKey)>>
          BY <2>2, <4>3, ReleaseEvents
        <5>2. sent' \in Seq(Event)
          BY <1>t, <1>e, <5>1, AddOne
        <5>3. Announced(sent')
          BY <1>t, <1>i, <1>e, <5>1, AnnouncedOne
        <5>4. missed
          BY <1>i, <2>2, <4>3 DEF FollowsKey
        <5> QED BY <5>2, <5>3, <5>4
      <4> QED BY <1>t, <4>1, <4>2, <4>3 DEF TranslatorStates
    <3>2. TypeOK' /\ TimerMeansWaiting' /\ LongIsOpen'
      BY <1>t, <2>2, <3>1
         DEF TypeOK, TimerMeansWaiting, LongIsOpen, Translator, TranslatorStates
    <3>3. FollowsKey'
      BY <2>2, <3>1 DEF FollowsKey
    <3> QED BY <2>2, <3>1, <3>2, <3>3 DEF Inv
  <2>3. ASSUME /\ pressed /\ pressed' = TRUE /\ missed' = missed /\ sent' = sent
               /\ translator' = translator
        PROVE  Inv'
    BY <2>3 DEF Inv, TypeOK, TimerMeansWaiting, LongIsOpen, FollowsKey
  <2>4. ASSUME missed' = TRUE, pressed' \in BOOLEAN, UNCHANGED <<translator, sent>>
        PROVE  Inv'
    BY <2>4 DEF Inv, TypeOK, TimerMeansWaiting, LongIsOpen, FollowsKey
  <2>5. ASSUME /\ translator.state = "WAIT_FOR_LONG_PRESS"
               /\ translator' = [state |-> "LONG_PRESS_DETECTED", timer |-> FALSE]
               /\ sent' = sent \o <<PressOf(LongKey)>>
               /\ UNCHANGED <<pressed, missed>>
        PROVE  Inv'
    <3>1. sent' \in Seq(Event) /\ LongOpen(sent')
      <4>1. Len(sent) \in Nat
        BY <1>t
      <4>2. /\ sent' \in Seq(Event) /\ Len(sent') = Len(sent) + 1
            /\ sent'[Len(sent) + 1] = PressOf(LongKey)
        BY <1>t, <1>e, <2>5, AddOne
      <4> QED BY <4>1, <4>2, EmptySeq DEF LongOpen
    <3>2. Announced(sent')
      BY <1>t, <1>i, <1>e, <2>5, AnnouncedOne
    <3>3. ~missed => Paired(sent) /\ Closed(sent)
      BY <1>i, <2>5 DEF FollowsKey
    <3>4. ~missed => Paired(sent')
      BY <1>t, <2>5, <3>3, PairedPress
    <3>5. TypeOK' /\ TimerMeansWaiting' /\ LongIsOpen'
      BY <1>t, <2>5, <3>1
         DEF TypeOK, TimerMeansWaiting, LongIsOpen, Translator, TranslatorStates
    <3>6. FollowsKey'
      BY <1>i, <2>5 DEF FollowsKey
    <3> QED BY <2>5, <3>2, <3>4, <3>5, <3>6 DEF Inv
  <2> QED BY <1>2, <2>1, <2>2, <2>3, <2>4, <2>5, Steps
<1> QED BY <1>1, <1>2

\* The invariant holds of every behaviour.
LEMMA SpecInv == Spec => []Inv
BY InitInv, NextInv, PTL DEF Spec

-----------------------------------------------------------------------------
\* The variables of a translator keep their types.
THEOREM TypeCorrect == Spec => []TypeOK
<1>1. Inv => TypeOK
  BY DEF Inv
<1> QED BY <1>1, SpecInv, PTL

\* The timer is active exactly while a long press is awaited: the early return
\* of longPressTimeout never drops a long press.
THEOREM TimerWaits == Spec => []TimerMeansWaiting
<1>1. Inv => TimerMeansWaiting
  BY DEF Inv
<1> QED BY <1>1, SpecInv, PTL

\* Clients never see the long-press key go up unless it has just gone down,
\* whatever the translator missed while its device was closed.
THEOREM LongReleases == Spec => []LongReleaseFollowsPress
<1>1. Inv => LongReleaseFollowsPress
  BY DEF Inv, Announced, LongReleaseFollowsPress
<1> QED BY <1>1, SpecInv, PTL

\* While nothing is missed the stream consists of complete presses of one key
\* each, but for a long press that goes on.
THEOREM CompletePresses == Spec => []WellPaired
<1>1. Inv => WellPaired
  BY DEF Inv, Paired, PairedAt, WellPaired
<1> QED BY <1>1, SpecInv, PTL

-----------------------------------------------------------------------------
\* A step of the translator is a step of the abstract stream or leaves it alone.
LEMMA StepImplements == Inv /\ [Next]_vars => [Press!PressNext]_(Press!pressVars)
<1> SUFFICES ASSUME Inv, [Next]_vars PROVE [Press!PressNext]_(Press!pressVars)
  OBVIOUS
<1> DEFINE held == translator.state = "LONG_PRESS_DETECTED"
<1>t. /\ translator.state \in TranslatorStates
      /\ ~missed => (pressed <=> translator.state # "WAIT_FOR_KEYPRESS")
      /\ missed \in BOOLEAN
  BY DEF Inv, TypeOK, Translator, FollowsKey
<1>1. CASE UNCHANGED vars
  BY <1>1 DEF vars, Press!pressVars
<1>2. ASSUME ~pressed, missed' = missed, sent' = sent,
             translator' = [state |-> "WAIT_FOR_LONG_PRESS", timer |-> TRUE]
      PROVE  [Press!PressNext]_(Press!pressVars)
  <2>1. held' = FALSE
    BY <1>2
  <2>2. CASE held
    <3>1. missed
      BY <1>t, <1>2, <2>2
    <3> QED BY <1>2, <2>1, <2>2, <3>1 DEF Press!PressNext, Press!ForgetLong
  <2>3. CASE ~held
    BY <1>2, <2>1, <2>3 DEF Press!pressVars
  <2> QED BY <2>2, <2>3
<1>3. ASSUME pressed, missed' = missed,
             sent' = sent \o HandleEventEmits(translator, 0, MyKeys),
             translator' = [state |-> "WAIT_FOR_KEYPRESS", timer |-> FALSE]
      PROVE  Press!PressNext
  <2>1. held' = FALSE
    BY <1>3
  <2>2. CASE translator.state = "WAIT_FOR_LONG_PRESS"
    <3>1. held = FALSE /\ sent' = sent \o ShortEvents
      BY <1>3, <2>2, ReleaseEvents
    <3> QED BY <1>3, <2>1, <3>1
           DEF Press!PressNext, Press!ShortPress, ShortEvents,
               Press!PressOf, Press!ReleaseOf, PressOf, ReleaseOf
  <2>3. CASE held
    <3>1. sent' = sent \o <<ReleaseOf(LongKey)>>
      BY <1>3, <2>3, ReleaseEvents
    <3> QED BY <1>3, <2>1, <2>3, <3>1
           DEF Press!PressNext, Press!LongRelease, Press!ReleaseOf, ReleaseOf
  <2>4. CASE translator.state = "WAIT_FOR_KEYPRESS"
    <3>1. held = FALSE /\ missed /\ sent' = sent \o <<ReleaseOf(ShortKey)>>
      BY <1>t, <1>3, <2>4, ReleaseEvents
    <3> QED BY <1>3, <2>1, <3>1
           DEF Press!PressNext, Press!StrayRelease, Press!ReleaseOf, ReleaseOf
  <2> QED BY <1>t, <2>2, <2>3, <2>4 DEF TranslatorStates
<1>4. ASSUME missed' = missed, sent' = sent, translator' = translator
      PROVE  UNCHANGED Press!pressVars
  BY <1>4 DEF Press!pressVars
<1>5. ASSUME missed' = TRUE, UNCHANGED <<translator, sent>>
      PROVE  Press!PressNext
  BY <1>5 DEF Press!PressNext, Press!MissEvent
<1>6. ASSUME translator.state = "WAIT_FOR_LONG_PRESS",
             translator' = [state |-> "LONG_PRESS_DETECTED", timer |-> FALSE],
             sent' = sent \o <<PressOf(LongKey)>>, UNCHANGED missed
      PROVE  Press!PressNext
  <2>1. held = FALSE /\ held' = TRUE
    BY <1>6
  <2> QED BY <1>6, <2>1 DEF Press!PressNext, Press!LongPress, Press!PressOf, PressOf
<1>7. CASE Next
  <2> HIDE DEF held
  <2> QED BY <1>2, <1>3, <1>4, <1>5, <1>6, <1>7, Steps
<1> QED BY <1>1, <1>7

\* With no timer and no state machine in sight, clients see a stream of complete
\* short presses and of long presses, and know what a missed event can do to it.
THEOREM Refinement == Spec => ImplementsKeyPress
<1>1. Init => Press!PressInit
  BY DEF Init, InitialTranslator, Press!PressInit
<1> QED BY <1>1, SpecInv, StepImplements, PTL
    DEF Spec, ImplementsKeyPress, Press!PressSpec
=============================================================================
