--------------------------- MODULE AbbDriverProofs ---------------------------
(***************************************************************************)
(* Proofs about AbbDriver, for all modes and any number of requests: what  *)
(* a mode switch knows of the RAPID program in each of its steps, and what *)
(* the bridge has written meanwhile.                                       *)
(***************************************************************************)
EXTENDS AbbDriver, SequenceTheorems, TLAPS

\* The session of a mode, and what starts it.
Session(m) ==
  IF m = 0 THEN "joint" ELSE IF m = 1 THEN "pose" ELSE IF m = 2 THEN "stream" ELSE "none"
Starting(to) == IF to = 0 THEN "EGM_START_JOINT" ELSE "EGM_START_POSE"

\* The things a switch does, by short names.
Stop == "EGM_STOP"
StartStream == "EGM_START_STREAM"
StopStream == "EGM_STOP_STREAM"
LeadOn == "lead-through on"
LeadOff == "lead-through off"
StartRapid == "start RAPID"
StopRapid == "stop RAPID"
Com == "bridge_com"

\* What is left of the switches, by the next thing to do.
ToLeadThrough == <<Stop, StartStream, LeadOn, StopRapid>>
FromStream == <<StartStream, LeadOn, StopRapid>>
FromOn == <<LeadOn, StopRapid>>
FromStopRapid == <<StopRapid>>
FromLeadThrough(to) == <<StartRapid, LeadOff, StopStream, Starting(to), Com>>
FromOff(to) == <<LeadOff, StopStream, Starting(to), Com>>
FromStopStream(to) == <<StopStream, Starting(to), Com>>
FromStop(to) == <<Stop, Starting(to), Com>>
FromStart(to) == <<Starting(to), Com>>
FromBridge == <<Com>>

----------------------------------------------------------------------------
(* The invariant                                                           *)

\* The program as the previous mode has left it.
Entered ==
  /\ egm = Session(previous)
  /\ rapid <=> previous # 2
  /\ lead <=> previous = 2

AtRest == script = <<>> /\ Entered
AtToLeadThrough == mode = 2 /\ script = ToLeadThrough /\ Entered
AtStream ==
  /\ mode = 2 /\ script = FromStream
  /\ egm = (IF previous = 2 THEN "stream" ELSE "none")
  /\ (rapid <=> previous # 2) /\ (lead <=> previous = 2)
AtOn ==
  /\ mode = 2 /\ script = FromOn /\ egm = "stream"
  /\ (rapid <=> previous # 2) /\ (lead <=> previous = 2)
AtStopRapid == mode = 2 /\ script = FromStopRapid /\ egm = "stream" /\ lead
AtFromLeadThrough ==
  mode \in {0, 1} /\ previous = 2 /\ script = FromLeadThrough(mode) /\ Entered
AtOff ==
  /\ mode \in {0, 1} /\ previous = 2 /\ script = FromOff(mode)
  /\ egm = "stream" /\ rapid /\ lead
AtStopStream ==
  /\ mode \in {0, 1} /\ previous = 2 /\ script = FromStopStream(mode)
  /\ egm = "stream" /\ rapid /\ ~lead
AtStop == mode \in {0, 1} /\ previous = 1 - mode /\ script = FromStop(mode) /\ Entered
AtStart ==
  /\ mode \in {0, 1} /\ script = FromStart(mode) /\ rapid /\ ~lead
  /\ egm = (IF previous = mode THEN Session(mode) ELSE "none")
AtBridge ==
  /\ mode \in {0, 1} /\ script = FromBridge /\ rapid /\ ~lead
  /\ egm = Session(mode)

\* What each step of a switch knows.
SwitchInv ==
  \/ AtRest
  \/ AtToLeadThrough \/ AtStream \/ AtOn \/ AtStopRapid
  \/ AtFromLeadThrough \/ AtOff \/ AtStopStream
  \/ AtStop \/ AtStart \/ AtBridge

\* The bridge only reads until a mode is entered; only in the joint mode, or in
\* the first steps after it, there is an output.
BridgeInv ==
  /\ mode # Done => state = 2
  /\ mode = Done => previous \in 0 .. 2 /\ state \in {previous, 2} /\ script = <<>>
  /\ up # "running" => state = 2 /\ output = Nothing
  /\ previous # 0 => output = Nothing
  /\ script # <<>> /\ Head(script) = "stop RAPID" => output = Nothing
  /\ script # <<>> /\ Head(script) \in {"lead-through on", "bridge_com"} /\ turned
       => output = Nothing

IInv == TypeOK /\ SwitchInv /\ BridgeInv

----------------------------------------------------------------------------
(* Scripts                                                                 *)

\* Two concatenations.
LEMMA OneAndTwo ==
  ASSUME NEW a, NEW b, NEW c
  PROVE  <<a>> \o <<b, c>> = <<a, b, c>>
<1> DEFINE S == {a, b, c}
           s == <<a>> \o <<b, c>>
           u == <<a, b, c>>
<1>1. <<a>> \in Seq(S) /\ <<b, c>> \in Seq(S) /\ u \in Seq(S)
  OBVIOUS
<1>2. s \in Seq(S) /\ Len(s) = 3
  BY <1>1
<1>3. s[1] = a /\ s[2] = b /\ s[3] = c
  BY <1>1
<1>4. Len(u) = 3 /\ u[1] = a /\ u[2] = b /\ u[3] = c
  BY <1>1
<1> HIDE DEF s, u
<1>5. \A i \in 1 .. Len(s) : s[i] = u[i]
  BY <1>2, <1>3, <1>4
<1>6. s = u
  BY <1>1, <1>2, <1>4, <1>5, SeqEqual
<1> QED
  BY <1>6 DEF s, u

LEMMA ThreeAndTwo ==
  ASSUME NEW a, NEW b, NEW c, NEW d, NEW e
  PROVE  <<a, b, c>> \o <<d, e>> = <<a, b, c, d, e>>
<1> DEFINE S == {a, b, c, d, e}
           s == <<a, b, c>> \o <<d, e>>
           u == <<a, b, c, d, e>>
<1>1. <<a, b, c>> \in Seq(S) /\ <<d, e>> \in Seq(S) /\ u \in Seq(S)
  OBVIOUS
<1>2. s \in Seq(S) /\ Len(s) = 5
  BY <1>1
<1>3. s[1] = a /\ s[2] = b /\ s[3] = c /\ s[4] = d /\ s[5] = e
  BY <1>1
<1>4. Len(u) = 5 /\ u[1] = a /\ u[2] = b /\ u[3] = c /\ u[4] = d /\ u[5] = e
  BY <1>1
<1> HIDE DEF s, u
<1>5. \A i \in 1 .. Len(s) : s[i] = u[i]
  BY <1>2, <1>3, <1>4
<1>6. s = u
  BY <1>1, <1>2, <1>4, <1>5, SeqEqual
<1> QED
  BY <1>6 DEF s, u

LEMMA NoneAndTwo ==
  ASSUME NEW a, NEW b
  PROVE  <<>> \o <<a, b>> = <<a, b>>
<1>1. <<a, b>> \in Seq({a, b})
  OBVIOUS
<1> QED
  BY <1>1, ConcatEmptySeq, Zenon

\* The script of a switch, by the mode and the one before.
LEMMA Scripts ==
  ASSUME NEW to \in 0 .. 2, NEW from \in -1 .. 2
  PROVE  /\ to = 2 => Switch(to, from) = ToLeadThrough
         /\ to # 2 /\ from = 2 => Switch(to, from) = FromLeadThrough(to)
         /\ to # 2 /\ from = 1 - to => Switch(to, from) = FromStop(to)
         /\ to # 2 /\ from # 2 /\ from # 1 - to => Switch(to, from) = FromStart(to)
<1>1. ASSUME to = 2 PROVE Switch(to, from) = ToLeadThrough
  BY <1>1, Zenon DEF Switch, ToLeadThrough, Stop, StartStream, LeadOn, StopRapid
<1>2. ASSUME to # 2
      PROVE Switch(to, from) = Leave(to, from) \o <<Starting(to), Com>>
  BY <1>2, Zenon DEF Switch, Starting, Com
<1>3. ASSUME to # 2, from = 2 PROVE Switch(to, from) = FromLeadThrough(to)
  <2>1. from # 1 - to
    BY <1>3
  <2>2. Leave(to, from) = <<StartRapid, LeadOff, StopStream>>
    BY <1>3, <2>1, Zenon DEF Leave, StartRapid, LeadOff, StopStream
  <2>3. Switch(to, from) = <<StartRapid, LeadOff, StopStream>> \o <<Starting(to), Com>>
    BY <1>2, <1>3, <2>2, Zenon
  <2> DEFINE a == StartRapid
             b == LeadOff
             c == StopStream
             d == Starting(to)
             e == Com
  <2>4. FromLeadThrough(to) = <<a, b, c, d, e>>
    BY DEF FromLeadThrough
  <2>5. Switch(to, from) = <<a, b, c>> \o <<d, e>>
    BY <2>3
  <2> HIDE DEF a, b, c, d, e
  <2>6. <<a, b, c>> \o <<d, e>> = <<a, b, c, d, e>>
    BY ThreeAndTwo
  <2> QED
    BY <2>4, <2>5, <2>6, Zenon
<1>4. ASSUME to # 2, from = 1 - to PROVE Switch(to, from) = FromStop(to)
  <2>1. Leave(to, from) = <<Stop>>
    BY <1>4, Zenon DEF Leave, Stop
  <2> QED
    BY <1>2, <1>4, <2>1, OneAndTwo DEF FromStop
<1>5. ASSUME to # 2, from # 2, from # 1 - to PROVE Switch(to, from) = FromStart(to)
  <2>1. Leave(to, from) = <<>>
    BY <1>5 DEF Leave
  <2> QED
    BY <1>2, <1>5, <2>1, NoneAndTwo DEF FromStart
<1> QED
  BY <1>1, <1>3, <1>4, <1>5

\* What is next in each step of a switch, and what is left after it.
LEMMA Tails ==
  /\ ToLeadThrough # <<>> /\ Head(ToLeadThrough) = Stop
  /\ Tail(ToLeadThrough) = FromStream
  /\ FromStream # <<>> /\ Head(FromStream) = StartStream /\ Tail(FromStream) = FromOn
  /\ FromOn # <<>> /\ Head(FromOn) = LeadOn /\ Tail(FromOn) = FromStopRapid
  /\ FromStopRapid # <<>> /\ Head(FromStopRapid) = StopRapid /\ Tail(FromStopRapid) = <<>>
  /\ FromBridge # <<>> /\ Head(FromBridge) = Com /\ Tail(FromBridge) = <<>>
  /\ \A to : /\ FromLeadThrough(to) # <<>> /\ Head(FromLeadThrough(to)) = StartRapid
             /\ Tail(FromLeadThrough(to)) = FromOff(to)
  /\ \A to : /\ FromOff(to) # <<>> /\ Head(FromOff(to)) = LeadOff
             /\ Tail(FromOff(to)) = FromStopStream(to)
  /\ \A to : /\ FromStopStream(to) # <<>> /\ Head(FromStopStream(to)) = StopStream
             /\ Tail(FromStopStream(to)) = FromStart(to)
  /\ \A to : /\ FromStop(to) # <<>> /\ Head(FromStop(to)) = Stop
             /\ Tail(FromStop(to)) = FromStart(to)
  /\ \A to : /\ FromStart(to) # <<>> /\ Head(FromStart(to)) = Starting(to)
             /\ Tail(FromStart(to)) = FromBridge
<1>1. \A to : /\ FromLeadThrough(to) # <<>> /\ Head(FromLeadThrough(to)) = StartRapid
             /\ Tail(FromLeadThrough(to)) = FromOff(to)
  BY DEF FromLeadThrough, FromOff
<1>2. \A to : /\ FromOff(to) # <<>> /\ Head(FromOff(to)) = LeadOff
             /\ Tail(FromOff(to)) = FromStopStream(to)
  BY DEF FromOff, FromStopStream
<1>3. \A to : /\ FromStopStream(to) # <<>> /\ Head(FromStopStream(to)) = StopStream
             /\ Tail(FromStopStream(to)) = FromStart(to)
  BY DEF FromStopStream, FromStart
<1>4. \A to : /\ FromStop(to) # <<>> /\ Head(FromStop(to)) = Stop
             /\ Tail(FromStop(to)) = FromStart(to)
  BY DEF FromStop, FromStart
<1>5. \A to : /\ FromStart(to) # <<>> /\ Head(FromStart(to)) = Starting(to)
             /\ Tail(FromStart(to)) = FromBridge
  BY DEF FromStart, FromBridge
<1>6. /\ ToLeadThrough # <<>> /\ Head(ToLeadThrough) = Stop
      /\ Tail(ToLeadThrough) = FromStream
  BY DEF ToLeadThrough, FromStream
<1>7. FromStream # <<>> /\ Head(FromStream) = StartStream /\ Tail(FromStream) = FromOn
  BY DEF FromStream, FromOn
<1>8. FromOn # <<>> /\ Head(FromOn) = LeadOn /\ Tail(FromOn) = FromStopRapid
  BY DEF FromOn, FromStopRapid
<1>9. /\ FromStopRapid # <<>> /\ Head(FromStopRapid) = StopRapid
      /\ Tail(FromStopRapid) = <<>>
      /\ FromBridge # <<>> /\ Head(FromBridge) = Com /\ Tail(FromBridge) = <<>>
  BY DEF FromStopRapid, FromBridge
<1> QED
  BY <1>1, <1>2, <1>3, <1>4, <1>5, <1>6, <1>7, <1>8, <1>9, Zenon

LEMMA Heads ==
  /\ ToLeadThrough # <<>> /\ Head(ToLeadThrough) = "EGM_STOP"
  /\ Tail(ToLeadThrough) = FromStream
  /\ FromStream # <<>> /\ Head(FromStream) = "EGM_START_STREAM" /\ Tail(FromStream) = FromOn
  /\ FromOn # <<>> /\ Head(FromOn) = "lead-through on" /\ Tail(FromOn) = FromStopRapid
  /\ FromStopRapid # <<>> /\ Head(FromStopRapid) = "stop RAPID" /\ Tail(FromStopRapid) = <<>>
  /\ FromBridge # <<>> /\ Head(FromBridge) = "bridge_com" /\ Tail(FromBridge) = <<>>
  /\ \A to : /\ FromLeadThrough(to) # <<>> /\ Head(FromLeadThrough(to)) = "start RAPID"
             /\ Tail(FromLeadThrough(to)) = FromOff(to)
  /\ \A to : /\ FromOff(to) # <<>> /\ Head(FromOff(to)) = "lead-through off"
             /\ Tail(FromOff(to)) = FromStopStream(to)
  /\ \A to : /\ FromStopStream(to) # <<>> /\ Head(FromStopStream(to)) = "EGM_STOP_STREAM"
             /\ Tail(FromStopStream(to)) = FromStart(to)
  /\ \A to : /\ FromStop(to) # <<>> /\ Head(FromStop(to)) = "EGM_STOP"
             /\ Tail(FromStop(to)) = FromStart(to)
  /\ \A to : /\ FromStart(to) # <<>> /\ Head(FromStart(to)) = Starting(to)
             /\ Tail(FromStart(to)) = FromBridge
  BY Tails, Zenon DEF Stop, StartStream, StopStream, LeadOn, LeadOff, StartRapid, StopRapid, Com

----------------------------------------------------------------------------
(* The steps of the interface                                              *)

\* The first thing of each script.
LEMMA FirstThings ==
  ASSUME SwitchInv
  PROVE  /\ script = <<>> => AtRest
         /\ AtToLeadThrough \/ AtStop => Head(script) = "EGM_STOP"
         /\ AtStream => Head(script) = "EGM_START_STREAM"
         /\ AtOn => Head(script) = "lead-through on"
         /\ AtStopRapid => Head(script) = "stop RAPID"
         /\ AtFromLeadThrough => Head(script) = "start RAPID"
         /\ AtOff => Head(script) = "lead-through off"
         /\ AtStopStream => Head(script) = "EGM_STOP_STREAM"
         /\ AtStart => Head(script) = Starting(mode)
         /\ AtBridge => Head(script) = "bridge_com"
         /\ script # <<>> => ~AtRest /\ (mode = 2 \/ mode \in {0, 1})
  BY Heads, Zenon DEF SwitchInv, AtRest, AtToLeadThrough, AtStream, AtOn, AtStopRapid,
     AtFromLeadThrough, AtOff, AtStopStream, AtStop, AtStart, AtBridge

LEMMA Stages ==
  ASSUME IInv
  PROVE  /\ script = <<>> => AtRest
         /\ script # <<>> => mode \in 0 .. 2 /\ state = 2 /\ ~AtRest
         /\ rapid \in BOOLEAN /\ lead \in BOOLEAN /\ egm \in Sessions
         /\ previous \in -1 .. 2
<1>1. script # <<>> => mode \in {0, 1, 2} /\ ~AtRest
  BY FirstThings, Zenon DEF IInv
<1>2. script = <<>> => AtRest
  BY FirstThings, Zenon DEF IInv
<1>3. mode \in {0, 1, 2} => state = 2
  <2>1. mode \in {0, 1, 2} => mode # Done
    BY DEF Done
  <2> QED
    BY <2>1, Zenon DEF IInv, BridgeInv
<1>4. /\ rapid \in BOOLEAN /\ lead \in BOOLEAN /\ egm \in Sessions
      /\ previous \in -1 .. 2
  BY DEF IInv, TypeOK
<1> QED
  BY <1>1, <1>2, <1>3, <1>4

LEMMA PulseKeepsSwitch ==
  ASSUME IInv, Pulse
  PROVE  SwitchInv' /\ BridgeInv'
<1> USE DEF Done
<1>1. /\ script # <<>> /\ script' = Tail(script) /\ Head(script) \in Signals
      /\ egm' = Pulsed(Head(script)) /\ turned' = FALSE
      /\ UNCHANGED <<rapid, lead, state, output, up>>
      /\ script' # <<>> => UNCHANGED <<mode, previous>>
  BY DEF Pulse, Proceed
<1>2. /\ mode \in 0 .. 2 /\ state = 2 /\ ~AtRest
      /\ rapid \in BOOLEAN /\ lead \in BOOLEAN /\ egm \in Sessions /\ previous \in -1 .. 2
  BY <1>1, Stages
<1>i. SwitchInv /\ BridgeInv
  BY DEF IInv
<1>3. CASE AtToLeadThrough
  <2>1. /\ Head(script) = "EGM_STOP" /\ script' = FromStream
        /\ script' # <<>> /\ Head(script') = "EGM_START_STREAM"
    BY <1>1, <1>3, Heads, Zenon DEF AtToLeadThrough
  <2>2. AtStream'
    BY <1>1, <1>3, <2>1, <1>2 DEF AtToLeadThrough, AtStream, Entered, Session, Pulsed, TypeOK
  <2>3. BridgeInv'
    BY <1>i, <1>1, <1>2, <2>1 DEF BridgeInv, Starting
  <2> QED
    BY <2>2, <2>3 DEF SwitchInv
<1>4. CASE AtStream
  <2>1. /\ Head(script) = "EGM_START_STREAM" /\ script' = FromOn
        /\ script' # <<>> /\ Head(script') = "lead-through on"
    BY <1>1, <1>4, Heads, Zenon DEF AtStream
  <2>2. AtOn'
    BY <1>1, <1>4, <2>1, <1>2 DEF AtStream, AtOn, Pulsed
  <2>3. BridgeInv'
    BY <1>i, <1>1, <1>2, <2>1 DEF BridgeInv, Starting
  <2> QED
    BY <2>2, <2>3 DEF SwitchInv
<1>5. CASE AtStopStream
  <2>1. /\ Head(script) = "EGM_STOP_STREAM" /\ script' = FromStart(mode)
        /\ script' # <<>> /\ Head(script') = Starting(mode)
    BY <1>1, <1>5, Heads, Zenon DEF AtStopStream
  <2>2. AtStart'
    BY <1>1, <1>5, <2>1, <1>2 DEF AtStopStream, AtStart, Pulsed
  <2>3. BridgeInv'
    BY <1>i, <1>1, <1>2, <2>1 DEF BridgeInv, Starting
  <2> QED
    BY <2>2, <2>3 DEF SwitchInv
<1>6. CASE AtStop
  <2>1. /\ Head(script) = "EGM_STOP" /\ script' = FromStart(mode)
        /\ script' # <<>> /\ Head(script') = Starting(mode)
    BY <1>1, <1>6, Heads, Zenon DEF AtStop
  <2>2. AtStart'
    BY <1>1, <1>6, <2>1, <1>2 DEF AtStop, AtStart, Entered, Session,
       Pulsed
  <2>3. BridgeInv'
    BY <1>i, <1>1, <1>2, <2>1 DEF BridgeInv, Starting
  <2> QED
    BY <2>2, <2>3 DEF SwitchInv
<1>7. CASE AtStart
  <2>1. /\ Head(script) = Starting(mode) /\ script' = FromBridge
        /\ script' # <<>> /\ Head(script') = "bridge_com"
    BY <1>1, <1>7, Heads, Zenon DEF AtStart
  <2>2. AtBridge'
    BY <1>1, <1>7, <2>1, <1>2 DEF AtStart, AtBridge, Session, Starting, Pulsed
  <2>3. BridgeInv'
    BY <1>i, <1>1, <1>2, <2>1 DEF BridgeInv, Starting
  <2> QED
    BY <2>2, <2>3 DEF SwitchInv
<1>8. /\ ~AtOn /\ ~AtStopRapid /\ ~AtFromLeadThrough /\ ~AtOff /\ ~AtBridge
  BY <1>1, FirstThings, <1>i DEF Signals
<1> QED
  BY <1>2, <1>3, <1>4, <1>5, <1>6, <1>7, <1>8, <1>i, Zenon DEF SwitchInv

LEMMA RapidKeepsSwitch ==
  ASSUME IInv, ChangeRapid
  PROVE  SwitchInv' /\ BridgeInv'
<1> USE DEF Done
<1>1. /\ script # <<>> /\ script' = Tail(script)
      /\ Head(script) \in {"start RAPID", "stop RAPID"}
      /\ Head(script) = "start RAPID" => rapid'
      /\ Head(script) = "stop RAPID" => ~rapid'
      /\ egm' = egm /\ lead' = lead /\ UNCHANGED <<turned, state, output, up>>
      /\ script' = <<>> => previous' = mode /\ mode' = Done
      /\ script' # <<>> => UNCHANGED <<mode, previous>>
  BY DEF ChangeRapid, Proceed
<1>2. /\ mode \in 0 .. 2 /\ state = 2 /\ ~AtRest
      /\ rapid \in BOOLEAN /\ lead \in BOOLEAN /\ egm \in Sessions /\ previous \in -1 .. 2
  BY <1>1, Stages
<1>i. SwitchInv /\ BridgeInv
  BY DEF IInv
<1>3. CASE AtStopRapid
  <2>1. Head(script) = "stop RAPID" /\ script' = <<>>
    BY <1>1, <1>3, Heads, Zenon DEF AtStopRapid
  <2>2. AtRest' /\ previous' = 2 /\ mode' = Done
    <3>0. previous' = 2 /\ mode' = Done /\ egm' = "stream"
      BY <1>1, <1>3, <2>1, Zenon DEF AtStopRapid
    <3>1. egm' = Session(previous')
      BY <3>0 DEF Session
    <3>2. ~rapid' /\ lead'
      BY <1>1, <1>3, <2>1, Zenon DEF AtStopRapid
    <3> QED
      BY <2>1, <3>0, <3>1, <3>2, Zenon DEF AtRest, Entered
  <2>3. BridgeInv'
    BY <1>i, <1>1, <1>2, <2>1, <2>2 DEF BridgeInv
  <2> QED
    BY <2>2, <2>3 DEF SwitchInv
<1>4. CASE AtFromLeadThrough
  <2>1. /\ Head(script) = "start RAPID" /\ script' = FromOff(mode)
        /\ script' # <<>> /\ Head(script') = "lead-through off"
    BY <1>1, <1>4, Heads, Zenon DEF AtFromLeadThrough
  <2>2. AtOff'
    <3>1. mode' = mode /\ previous' = previous /\ previous = 2 /\ mode \in {0, 1}
      BY <1>1, <1>4, <2>1, Zenon DEF AtFromLeadThrough
    <3>2. egm = "stream"
      BY <1>4, <3>1 DEF AtFromLeadThrough, Entered, Session
    <3>3. lead /\ rapid'
      BY <1>1, <1>4, <2>1, <3>1, Zenon DEF AtFromLeadThrough, Entered
    <3> QED
      BY <1>1, <2>1, <3>1, <3>2, <3>3, Zenon DEF AtOff
  <2>3. BridgeInv'
    BY <1>i, <1>1, <1>2, <2>1 DEF BridgeInv, Starting
  <2> QED
    BY <2>2, <2>3 DEF SwitchInv
<1>5. /\ ~AtToLeadThrough /\ ~AtStream /\ ~AtOn /\ ~AtOff /\ ~AtStopStream
      /\ ~AtStop /\ ~AtStart /\ ~AtBridge
  BY <1>1, FirstThings, <1>i DEF Starting
<1> QED
  BY <1>2, <1>3, <1>4, <1>5, <1>i, Zenon DEF SwitchInv

LEMMA LeadThroughKeepsSwitch ==
  ASSUME IInv, ChangeLeadThrough
  PROVE  SwitchInv' /\ BridgeInv'
<1> USE DEF Done
<1>1. /\ script # <<>> /\ script' = Tail(script)
      /\ Head(script) \in {"lead-through on", "lead-through off"}
      /\ Head(script) = "lead-through on" => lead'
      /\ Head(script) = "lead-through off" => ~lead'
      /\ UNCHANGED <<egm, rapid, turned, state, output, up>>
      /\ (up = "running" /\ egm # "none") => turned
      /\ script' # <<>> => UNCHANGED <<mode, previous>>
  BY DEF ChangeLeadThrough, Proceed
<1>2. /\ mode \in 0 .. 2 /\ state = 2 /\ ~AtRest
      /\ rapid \in BOOLEAN /\ lead \in BOOLEAN /\ egm \in Sessions /\ previous \in -1 .. 2
  BY <1>1, Stages
<1>i. SwitchInv /\ BridgeInv
  BY DEF IInv
<1>3. CASE AtOn
  <2>1. /\ Head(script) = "lead-through on" /\ script' = FromStopRapid
        /\ script' # <<>> /\ Head(script') = "stop RAPID"
    BY <1>1, <1>3, Heads, Zenon DEF AtOn
  <2>2. AtStopRapid'
    BY <1>1, <1>3, <2>1, <1>2 DEF AtOn, AtStopRapid
  <2>3. output = Nothing
    BY <1>i, <1>1, <1>3, <2>1, <1>2 DEF AtOn, BridgeInv
  <2>4. BridgeInv'
    BY <1>i, <1>1, <1>2, <2>1, <2>3 DEF BridgeInv
  <2> QED
    BY <2>2, <2>4 DEF SwitchInv
<1>4. CASE AtOff
  <2>1. /\ Head(script) = "lead-through off" /\ script' = FromStopStream(mode)
        /\ script' # <<>> /\ Head(script') = "EGM_STOP_STREAM"
    BY <1>1, <1>4, Heads, Zenon DEF AtOff
  <2>2. AtStopStream'
    BY <1>1, <1>4, <2>1, <1>2 DEF AtOff, AtStopStream
  <2>3. BridgeInv'
    BY <1>i, <1>1, <1>2, <2>1 DEF BridgeInv, Starting
  <2> QED
    BY <2>2, <2>3 DEF SwitchInv
<1>5. /\ ~AtToLeadThrough /\ ~AtStream /\ ~AtStopRapid /\ ~AtFromLeadThrough
      /\ ~AtStopStream /\ ~AtStop /\ ~AtStart /\ ~AtBridge
  BY <1>1, FirstThings, <1>i DEF Starting
<1> QED
  BY <1>2, <1>3, <1>4, <1>5, <1>i, Zenon DEF SwitchInv

LEMMA BridgeStartKeepsSwitch ==
  ASSUME IInv, StartBridge
  PROVE  SwitchInv' /\ BridgeInv'
<1> USE DEF Done
<1>1. /\ script # <<>> /\ script' = Tail(script) /\ Head(script) = "bridge_com"
      /\ BridgeCom(mode)
      /\ UNCHANGED <<egm, rapid, lead, turned, output, up>>
      /\ (up = "running" /\ egm # "none") => turned
      /\ script' = <<>> => previous' = mode /\ mode' = Done
  BY DEF StartBridge, Proceed, BridgeCom, robot
<1>2. /\ mode \in 0 .. 2 /\ state = 2 /\ ~AtRest
      /\ rapid \in BOOLEAN /\ lead \in BOOLEAN /\ egm \in Sessions /\ previous \in -1 .. 2
  BY <1>1, Stages
<1>i. SwitchInv /\ BridgeInv
  BY DEF IInv
<1>3. /\ ~AtToLeadThrough /\ ~AtStream /\ ~AtOn /\ ~AtStopRapid /\ ~AtFromLeadThrough
      /\ ~AtOff /\ ~AtStopStream /\ ~AtStop /\ ~AtStart
  BY <1>1, FirstThings, <1>i DEF Starting
<1>4. AtBridge
  BY <1>2, <1>3, <1>i, Zenon DEF SwitchInv
<1>5. script' = <<>>
  BY <1>1, <1>4, Heads, Zenon DEF AtBridge
<1>6. AtRest' /\ previous' = mode /\ mode' = Done /\ mode \in {0, 1}
  BY <1>1, <1>4, <1>5 DEF AtBridge, AtRest, Entered, Session
<1>7. output = Nothing
  BY <1>i, <1>1, <1>4 DEF AtBridge, BridgeInv, Session
<1>8. state' \in {mode, 2} /\ (up # "running" => state' = 2)
  BY <1>1, <1>2 DEF BridgeCom
<1>9. BridgeInv'
  BY <1>i, <1>1, <1>5, <1>6, <1>7, <1>8 DEF BridgeInv
<1> QED
  BY <1>6, <1>9 DEF SwitchInv

LEMMA BeginKeepsSwitch ==
  ASSUME IInv, BeginSwitch
  PROVE  SwitchInv' /\ BridgeInv'
<1> USE DEF Done
<1>i. TypeOK /\ SwitchInv /\ BridgeInv
  BY DEF IInv
<1>1. /\ script = <<>> /\ (mode \in 0 .. 2 => script' = Switch(mode, previous))
      /\ mode \notin 0 .. 2 => script' = script
      /\ UNCHANGED <<mode, previous, egm, rapid, lead, turned, state, output, up>>
  BY DEF BeginSwitch, robot, bridge
<1>2. AtRest
  BY <1>1, Stages
<1>3. CASE mode \notin 0 .. 2
  <2>1. AtRest'
    BY <1>1, <1>2, <1>3 DEF AtRest, Entered
  <2>2. BridgeInv'
    BY <1>i, <1>1, <1>3 DEF BridgeInv
  <2> QED
    BY <2>1, <2>2 DEF SwitchInv
<1>4. CASE mode \in 0 .. 2
  <2>1. script' = Switch(mode, previous) /\ state = 2 /\ previous \in -1 .. 2
    BY <1>i, <1>1, <1>4 DEF BridgeInv, TypeOK
  <2>2. ASSUME script' # <<>>,
               Head(script') \in {"EGM_STOP", "start RAPID", Starting(mode)}
        PROVE BridgeInv'
    <3>1. /\ Head(script') # "stop RAPID"
          /\ Head(script') \notin {"lead-through on", "bridge_com"}
      BY <2>2 DEF Starting
    <3>2. mode # Done
      BY <1>4 DEF Done
    <3> QED
      BY <1>i, <1>1, <2>1, <2>2, <3>1, <3>2, Zenon DEF BridgeInv
  <2>3. CASE mode = 2
    <3>1. script' = ToLeadThrough
      BY <1>4, <2>1, <2>3, Scripts
    <3>2. script' # <<>> /\ Head(script') = "EGM_STOP"
      BY <3>1, Heads, Zenon
    <3>3. AtToLeadThrough'
      BY <1>1, <1>2, <1>4, <2>1, <2>3, <3>1 DEF AtRest, AtToLeadThrough, Entered
    <3> QED
      BY <2>2, <3>2, <3>3 DEF SwitchInv
  <2>4. CASE mode # 2 /\ previous = 2
    <3>1. script' = FromLeadThrough(mode)
      BY <1>4, <2>1, <2>4, Scripts
    <3>2. script' # <<>> /\ Head(script') = "start RAPID"
      BY <3>1, Heads, Zenon
    <3>3. AtFromLeadThrough'
      BY <1>1, <1>2, <1>4, <2>1, <2>4, <3>1 DEF AtRest, AtFromLeadThrough, Entered
    <3> QED
      BY <2>2, <3>2, <3>3 DEF SwitchInv
  <2>5. CASE mode # 2 /\ previous = 1 - mode
    <3>1. script' = FromStop(mode)
      BY <1>4, <2>1, <2>5, Scripts
    <3>2. script' # <<>> /\ Head(script') = "EGM_STOP"
      BY <3>1, Heads, Zenon
    <3>3. AtStop'
      BY <1>1, <1>2, <1>4, <2>1, <2>5, <3>1 DEF AtRest, AtStop, Entered
    <3> QED
      BY <2>2, <3>2, <3>3 DEF SwitchInv
  <2>6. CASE mode # 2 /\ previous # 2 /\ previous # 1 - mode
    <3>1. script' = FromStart(mode)
      BY <1>4, <2>1, <2>6, Scripts
    <3>2. script' # <<>> /\ Head(script') = Starting(mode)
      BY <3>1, Heads, Zenon
    <3>3. AtStart'
      BY <1>1, <1>2, <1>4, <2>1, <2>6, <3>1 DEF AtRest, AtStart, Entered, Session
    <3> QED
      BY <2>2, <3>2, <3>3 DEF SwitchInv
  <2> QED
    BY <2>3, <2>4, <2>5, <2>6
<1> QED
  BY <1>3, <1>4

LEMMA RequestKeepsSwitch ==
  ASSUME IInv, HandleRequest
  PROVE  SwitchInv' /\ BridgeInv'
<1> USE DEF Done
<1>i. TypeOK /\ SwitchInv /\ BridgeInv
  BY DEF IInv
<1>1. /\ script = <<>> /\ script' = <<>> /\ batch > 0
      /\ mode' = Head(requests) /\ BridgeCom(2)
      /\ UNCHANGED <<previous, egm, rapid, lead, output, up>>
  BY DEF HandleRequest, robot
<1>2. AtRest'
  BY <1>1, Stages DEF AtRest, Entered
<1>3. requests \in Seq(Modes) /\ batch \in 0 .. Len(requests)
  BY <1>i DEF TypeOK
<1>4. Head(requests) \in Modes
  BY <1>1, <1>3
<1>5. mode' # Done
  BY <1>1, <1>4, ModesAssumption
<1>6. state' = 2
  BY <1>i, <1>1 DEF BridgeCom, BridgeInv
<1>7. BridgeInv'
  BY <1>i, <1>1, <1>5, <1>6 DEF BridgeInv
<1> QED
  BY <1>2, <1>7 DEF SwitchInv

----------------------------------------------------------------------------
(* The steps of the other nodes                                            *)

\* The switch does not see the other nodes.
LEMMA OthersKeepSwitch ==
  ASSUME IInv, UNCHANGED <<mode, previous, script, egm, rapid, lead>>
  PROVE  SwitchInv'
  BY Zenon DEF IInv, SwitchInv, AtRest, AtToLeadThrough, AtStream, AtOn, AtStopRapid,
     AtFromLeadThrough, AtOff, AtStopStream, AtStop, AtStart, AtBridge, Entered

LEMMA RunKeepsBridge ==
  ASSUME IInv, Run
  PROVE  BridgeInv'
<1> USE DEF IInv
<1>1. /\ UNCHANGED <<mode, previous, script, up, state>> /\ up = "running"
      /\ state = 1 => output' \in {output, Nothing}
      /\ state = 2 => output' = Nothing
  BY DEF Run, interface
<1>2. CASE mode = Done
  <2>1. script = <<>> /\ (previous # 0 => state \in {1, 2})
    BY <1>2 DEF BridgeInv
  <2> QED
    BY <1>1, <1>2, <2>1 DEF BridgeInv, Done
<1>3. CASE mode # Done
  BY <1>1, <1>3 DEF BridgeInv
<1> QED
  BY <1>2, <1>3

\* What the steps of other nodes leave alone.
Same ==
  /\ mode' = mode /\ previous' = previous /\ script' = script
  /\ egm' = egm /\ rapid' = rapid /\ lead' = lead /\ turned' = turned
  /\ state' = state /\ output' = output

LEMMA SameKeepsSwitch ==
  ASSUME IInv, Same, up # "running" \/ up' = up
  PROVE  SwitchInv' /\ BridgeInv'
<1>1. SwitchInv'
  BY OthersKeepSwitch DEF Same
<1>2. BridgeInv'
  BY DEF Same, IInv, BridgeInv
<1> QED
  BY <1>1, <1>2

LEMMA NextKeepsSwitch ==
  ASSUME IInv, [Next]_vars
  PROVE  SwitchInv' /\ BridgeInv'
<1> USE DEF interface, queue, robot, bridge, topics, inv_kin
<1>1. CASE Interface
  BY <1>1, PulseKeepsSwitch, RapidKeepsSwitch, LeadThroughKeepsSwitch,
     BridgeStartKeepsSwitch, BeginKeepsSwitch, RequestKeepsSwitch DEF Interface
<1>2. CASE Run
  BY <1>2, RunKeepsBridge, OthersKeepSwitch DEF Run
<1>3. ASSUME \/ Advertise \/ Connect \/ ReceiveCommand \/ ReceiveJointStates \/ Solve
             \/ GuideByHand \/ FollowOutput \/ (\E m \in Modes : Request(m))
             \/ UNCHANGED vars
      PROVE  Same /\ (up # "running" \/ up' = up)
  <2>1. CASE Advertise
    BY <2>1 DEF Advertise, Same
  <2>2. CASE Connect
    BY <2>2 DEF Connect, Same
  <2>3. CASE ReceiveCommand
    BY <2>3 DEF ReceiveCommand, Same
  <2>4. CASE ReceiveJointStates
    BY <2>4 DEF ReceiveJointStates, Same
  <2>5. CASE Solve
    BY <2>5 DEF Solve, Same
  <2>6. CASE GuideByHand
    BY <2>6 DEF GuideByHand, Same
  <2>7. CASE FollowOutput
    BY <2>7 DEF FollowOutput, Same
  <2>8. CASE \E m \in Modes : Request(m)
    BY <2>8 DEF Request, Same
  <2>9. CASE UNCHANGED vars
    BY <2>9 DEF vars, Same
  <2> QED
    BY <1>3, <2>1, <2>2, <2>3, <2>4, <2>5, <2>6, <2>7, <2>8, <2>9
<1> QED
  BY <1>1, <1>2, <1>3, SameKeepsSwitch, Zenon DEF Next, Bridge

----------------------------------------------------------------------------
(* Types                                                                   *)

\* The things a switch can do.
Things == Signals \cup {"start RAPID", "stop RAPID", "lead-through on",
                        "lead-through off", "bridge_com"}

LEMMA ScriptType ==
  ASSUME NEW to \in 0 .. 2, NEW from \in -1 .. 2
  PROVE  Switch(to, from) \in Seq(Things)
<1>1. /\ Stop \in Things /\ StartStream \in Things /\ StopStream \in Things
      /\ LeadOn \in Things /\ LeadOff \in Things
      /\ StartRapid \in Things /\ StopRapid \in Things /\ Com \in Things
      /\ Starting(to) \in Things
  BY DEF Things, Signals, Stop, StartStream, StopStream, LeadOn, LeadOff, StartRapid,
     StopRapid, Com, Starting
<1>2. /\ ToLeadThrough \in Seq(Things) /\ FromLeadThrough(to) \in Seq(Things)
      /\ FromStop(to) \in Seq(Things) /\ FromStart(to) \in Seq(Things)
  BY <1>1 DEF ToLeadThrough, FromLeadThrough, FromStop, FromStart
<1> QED
  BY <1>2, Scripts

\* The types, by who changes the variables.
InterfaceType ==
  /\ mode \in 0 .. 100 /\ previous \in -1 .. 2
  /\ script \in Seq(Things)
  /\ requests \in Seq(Modes) /\ batch \in 0 .. Len(requests)
  /\ asked \in 0 .. MaxRequests
RobotType ==
  /\ egm \in Sessions /\ rapid \in BOOLEAN /\ lead \in BOOLEAN /\ turned \in BOOLEAN
  /\ up \in {"absent", "connecting", "running"}
  /\ state \in 0 .. 2 /\ first_msg \in BOOLEAN
PlaceType ==
  /\ arm \in Places /\ cmd \in Places /\ q_msr \in Places /\ q \in Places
  /\ output \in Places \cup {Nothing}
  /\ joint_states \in Places \cup {Nothing} /\ joint_cmd \in Places \cup {Nothing}
  /\ step \in 0 .. 2 /\ flag_joint_msr \in BOOLEAN

LEMMA Types ==
  ASSUME TypeOK
  PROVE  InterfaceType /\ RobotType /\ PlaceType
  BY DEF TypeOK, InterfaceType, RobotType, PlaceType, Things

LEMMA InterfaceTypeKept ==
  ASSUME IInv, [Next]_vars
  PROVE  InterfaceType'
<1> USE DEF interface, queue
<1>t. InterfaceType
  BY Types DEF IInv
<1>n. Len(requests) \in Nat
  BY <1>t DEF InterfaceType
<1>1. CASE BeginSwitch /\ mode \in 0 .. 2
  <2>1. script' = Switch(mode, previous) /\ UNCHANGED <<mode, previous, batch>>
    BY <1>1 DEF BeginSwitch
  <2>2. UNCHANGED <<requests, asked>>
    BY <1>1 DEF BeginSwitch
  <2> QED
    BY <1>t, <1>1, <2>1, <2>2, ScriptType DEF InterfaceType
<1>2. CASE BeginSwitch /\ mode \notin 0 .. 2
  <2>1. batch' = Len(requests) /\ UNCHANGED <<mode, previous, script>>
    BY <1>2 DEF BeginSwitch
  <2>2. UNCHANGED <<requests, asked>>
    BY <1>2 DEF BeginSwitch
  <2> QED
    BY <1>t, <1>n, <2>1, <2>2 DEF InterfaceType
<1>3. CASE Proceed
  <2>1. script # <<>> /\ script' = Tail(script) /\ UNCHANGED <<requests, asked>>
    BY <1>3 DEF Proceed
  <2>2. mode \in 0 .. 2
    BY <2>1, Stages
  <2>3. script' \in Seq(Things)
    BY <1>t, <2>1 DEF InterfaceType
  <2>4. \/ previous' = mode /\ mode' = Done /\ batch' = Len(requests)
        \/ previous' = previous /\ mode' = mode /\ batch' = batch
    BY <1>3 DEF Proceed
  <2>5. mode' \in 0 .. 100 /\ previous' \in -1 .. 2
    <3>1. \/ mode' = 100 /\ previous' \in 0 .. 2
          \/ mode' = mode /\ previous' = previous
      BY <2>2, <2>4, Zenon DEF Done
    <3>2. mode \in 0 .. 100 /\ previous \in -1 .. 2
      BY <1>t DEF InterfaceType
    <3> QED
      BY <3>1, <3>2
  <2>6. batch' \in 0 .. Len(requests')
    BY <1>t, <1>n, <2>1, <2>4 DEF InterfaceType
  <2> QED
    BY <1>t, <2>1, <2>3, <2>5, <2>6 DEF InterfaceType
<1>4. CASE HandleRequest
  <2>1. /\ batch > 0 /\ mode' = Head(requests) /\ requests' = Tail(requests)
        /\ batch' = batch - 1 /\ UNCHANGED <<previous, script, asked>>
    BY <1>4 DEF HandleRequest
  <2>2. requests \in Seq(Modes) /\ batch \in 1 .. Len(requests)
    BY <1>t, <2>1 DEF InterfaceType
  <2>3. /\ Head(requests) \in Modes /\ Tail(requests) \in Seq(Modes)
        /\ Len(Tail(requests)) = Len(requests) - 1
    BY <2>2
  <2>4. mode' \in 0 .. 100
    <3>1. mode' \in 0 .. 99
      BY <2>1, <2>3, ModesAssumption, Zenon
    <3> QED
      BY <3>1
  <2> QED
    BY <1>t, <2>1, <2>2, <2>3, <2>4 DEF InterfaceType
<1>5. ASSUME NEW m \in Modes, Request(m) PROVE InterfaceType'
  <2>1. /\ requests' = Append(requests, m) /\ asked < MaxRequests /\ asked' = asked + 1
        /\ UNCHANGED <<mode, previous, script, batch>>
    BY <1>5 DEF Request
  <2>2. requests' \in Seq(Modes) /\ Len(requests') = Len(requests) + 1
    BY <1>t, <1>5, <2>1 DEF InterfaceType
  <2>3. asked' \in 0 .. MaxRequests
    BY <1>t, <2>1, BoundsAssumption DEF InterfaceType
  <2> QED
    BY <1>t, <1>n, <2>1, <2>2, <2>3 DEF InterfaceType
<1>6. ASSUME UNCHANGED interface, UNCHANGED queue PROVE InterfaceType'
  BY <1>t, <1>6 DEF InterfaceType
<1>7. CASE Bridge \/ ReceiveJointStates \/ Solve \/ GuideByHand \/ FollowOutput
  BY <1>6, <1>7, Zenon DEF Bridge, Advertise, Connect, Run, ReceiveCommand,
     ReceiveJointStates, Solve, GuideByHand, FollowOutput
<1>8. CASE UNCHANGED vars
  BY <1>6, <1>8 DEF vars
<1> QED
  BY <1>1, <1>2, <1>3, <1>4, <1>5, <1>7, <1>8, Zenon
     DEF Next, Interface, Pulse, ChangeRapid, ChangeLeadThrough, StartBridge

LEMMA RobotTypeKept ==
  ASSUME IInv, [Next]_vars
  PROVE  RobotType'
<1> USE DEF robot, bridge
<1>t. RobotType
  BY Types DEF IInv
<1>1. CASE Pulse
  <2>1. /\ Head(script) \in Signals /\ egm' = Pulsed(Head(script)) /\ turned' = FALSE
        /\ UNCHANGED <<rapid, lead, state, first_msg, up>>
    BY <1>1 DEF Pulse, Proceed
  <2>2. egm' \in Sessions
    BY <1>t, <2>1 DEF Pulsed, RobotType, Sessions
  <2> QED
    BY <1>t, <2>1, <2>2 DEF RobotType
<1>2. CASE ChangeRapid
  BY <1>t, <1>2 DEF ChangeRapid, Proceed, RobotType
<1>3. CASE ChangeLeadThrough
  BY <1>t, <1>3 DEF ChangeLeadThrough, Proceed, RobotType
<1>4. ASSUME NEW to \in 0 .. 2, BridgeCom(to), UNCHANGED <<robot, turned, up>>
      PROVE  RobotType'
  BY <1>t, <1>4 DEF BridgeCom, RobotType
<1>5. CASE StartBridge
  <2>1. BridgeCom(mode) /\ UNCHANGED <<robot, turned, up>> /\ mode \in 0 .. 2
    BY <1>5, Stages DEF StartBridge, Proceed
  <2> QED
    BY <1>4, <2>1
<1>6. CASE HandleRequest
  <2>1. BridgeCom(2) /\ UNCHANGED <<robot, turned, up>> /\ 2 \in 0 .. 2
    BY <1>6 DEF HandleRequest
  <2> QED
    BY <1>4, <2>1
<1>7. CASE Advertise \/ Connect
  BY <1>t, <1>7 DEF Advertise, Connect, RobotType
<1>8. CASE Run
  BY <1>t, <1>8 DEF Run, RobotType
<1>9. ASSUME UNCHANGED <<robot, turned, bridge>> PROVE RobotType'
  BY <1>t, <1>9 DEF RobotType
<1>10. CASE \/ BeginSwitch \/ ReceiveCommand \/ ReceiveJointStates \/ Solve
            \/ GuideByHand \/ FollowOutput \/ \E m \in Modes : Request(m)
  <2>1. UNCHANGED <<robot, turned, bridge>>
    BY <1>10 DEF BeginSwitch, ReceiveCommand, ReceiveJointStates, Solve, GuideByHand,
       FollowOutput, Request
  <2> QED
    BY <1>9, <2>1
<1>11. CASE UNCHANGED vars
  BY <1>9, <1>11 DEF vars
<1> QED
  BY <1>1, <1>2, <1>3, <1>5, <1>6, <1>7, <1>8, <1>10, <1>11, Zenon
     DEF Next, Interface, Bridge

LEMMA PlaceTypeKept ==
  ASSUME IInv, [Next]_vars
  PROVE  PlaceType'
<1> USE DEF topics, inv_kin
<1>t. PlaceType
  BY Types DEF IInv
<1>1. CASE HandleRequest
  <2>1. /\ step' \in {2, step} /\ flag_joint_msr' \in {FALSE, flag_joint_msr}
        /\ UNCHANGED <<arm, cmd, output, topics, q_msr, q>>
    BY <1>1, Zenon DEF HandleRequest
  <2>2. flag_joint_msr' \in BOOLEAN
    BY <1>t, <2>1, Zenon DEF PlaceType
  <2> QED
    BY <1>t, <2>1, <2>2 DEF PlaceType
<1>2. CASE Run
  BY <1>t, <1>2 DEF Run, PlaceType
<1>3. CASE ReceiveCommand
  BY <1>t, <1>3 DEF ReceiveCommand, PlaceType
<1>4. CASE ReceiveJointStates
  <2>1. /\ joint_states # Nothing /\ q_msr' = joint_states /\ joint_states' = Nothing
        /\ step' \in {0, step} /\ flag_joint_msr' \in {TRUE, flag_joint_msr}
        /\ UNCHANGED <<arm, cmd, output, joint_cmd, q>>
    BY <1>4, Zenon DEF ReceiveJointStates
  <2>2. flag_joint_msr' \in BOOLEAN
    BY <1>t, <2>1, Zenon DEF PlaceType
  <2> QED
    BY <1>t, <2>1, <2>2 DEF PlaceType
<1>5. CASE Solve
  BY <1>t, <1>5 DEF Solve, PlaceType
<1>6. CASE GuideByHand \/ FollowOutput
  BY <1>t, <1>6 DEF GuideByHand, FollowOutput, PlaceType
<1>7. ASSUME UNCHANGED <<arm, cmd, output, topics, inv_kin>> PROVE PlaceType'
  BY <1>t, <1>7 DEF PlaceType
<1>8. CASE \/ BeginSwitch \/ Proceed \/ Advertise \/ Connect \/ \E m \in Modes : Request(m)
  <2>1. UNCHANGED <<arm, cmd, output, topics, inv_kin>>
    BY <1>8 DEF BeginSwitch, Proceed, Advertise, Connect, Request
  <2> QED
    BY <1>7, <2>1
<1>9. CASE UNCHANGED vars
  BY <1>7, <1>9 DEF vars
<1> QED
  BY <1>1, <1>2, <1>3, <1>4, <1>5, <1>6, <1>8, <1>9, Zenon
     DEF Next, Interface, Bridge, Pulse, ChangeRapid, ChangeLeadThrough, StartBridge

LEMMA NextKeepsType ==
  ASSUME IInv, [Next]_vars
  PROVE  TypeOK'
<1>1. InterfaceType' /\ RobotType' /\ PlaceType'
  BY InterfaceTypeKept, RobotTypeKept, PlaceTypeKept
<1> QED
  BY <1>1 DEF TypeOK, InterfaceType, RobotType, PlaceType, Things

----------------------------------------------------------------------------
(* The theorems                                                            *)

LEMMA InitHolds == Init => IInv
<1> SUFFICES ASSUME Init PROVE IInv
  OBVIOUS
<1>1. TypeOK
  <2>1. InterfaceType
    BY BoundsAssumption DEF Init, InterfaceType
  <2>2. RobotType
    <3>1. state \in 0 .. 2
      BY DEF Init
    <3> QED
      BY <3>1, Zenon DEF Init, RobotType, Sessions
  <2>3. PlaceType
    <3>1. 0 \in Places /\ step \in 0 .. 2
      BY BoundsAssumption DEF Init, Places
    <3> QED
      BY <3>1, Zenon DEF Init, PlaceType
  <2> QED
    BY <2>1, <2>2, <2>3 DEF TypeOK, InterfaceType, RobotType, PlaceType, Things
<1>2. AtRest
  BY DEF Init, AtRest, Entered, Session
<1>3. BridgeInv
  BY DEF Init, BridgeInv, Done
<1> QED
  BY <1>1, <1>2, <1>3 DEF IInv, SwitchInv

\* The invariant, for any modes requested in any number: what each step of a
\* switch of the interface's main loop knows of the session, the program and
\* lead-through, and when the bridge has an output.
THEOREM Invariance == Spec => []IInv
<1>1. IInv /\ [Next]_vars => IInv'
  BY NextKeepsType, NextKeepsSwitch DEF IInv
<1> QED
  BY InitHolds, <1>1, PTL DEF Spec

\* The types of the nodes' state.
THEOREM TypeCorrect == Spec => []TypeOK
<1>1. IInv => TypeOK
  BY DEF IInv
<1> QED
  BY <1>1, Invariance, PTL

\* While lead-through is on the bridge reads only and its output is empty, though
\* requests come at any time and a switch takes many steps.
THEOREM HandGuidedAloneHolds == Spec => []HandGuidedAlone
<1>1. ASSUME IInv, lead PROVE state = 2 /\ output = Nothing
  <2>1. SwitchInv /\ BridgeInv /\ (mode = 2 => mode # Done) /\ (previous = 2 => previous # 0)
    BY <1>1 DEF IInv, Done
  <2>2. previous = 2 => state = 2 /\ output = Nothing
    BY <2>1, Zenon DEF BridgeInv
  <2>3. CASE AtOn
    <3>1. state = 2
      BY <2>1, <2>3, Zenon DEF AtOn, BridgeInv
    <3> QED
      BY <1>1, <2>2, <2>3, <3>1, Zenon DEF AtOn
  <2>4. CASE AtStopRapid
    <3>1. script # <<>> /\ Head(script) = "stop RAPID"
      BY <2>4, Heads, Zenon DEF AtStopRapid
    <3> QED
      BY <2>1, <2>4, <3>1, Zenon DEF AtStopRapid, BridgeInv
  <2>5. CASE AtStream \/ AtOff \/ AtFromLeadThrough \/ Entered
    BY <1>1, <2>2, <2>5, Zenon DEF AtStream, AtOff, AtFromLeadThrough, Entered
  <2>6. ~AtStopStream /\ ~AtStart /\ ~AtBridge
    BY <1>1, Zenon DEF AtStopStream, AtStart, AtBridge
  <2> QED
    BY <2>1, <2>3, <2>4, <2>5, <2>6, Zenon
       DEF SwitchInv, AtRest, AtToLeadThrough, AtStop
<1>2. IInv => HandGuidedAlone
  BY <1>1 DEF HandGuidedAlone
<1> QED
  BY <1>2, Invariance, PTL

\* When the interface is done with a switch the session, lead-through and the
\* bridge are those of the mode it has entered.
THEOREM ModesAgreeHolds == Spec => []ModesAgree
<1>1. IInv => ModesAgree
  BY Stages DEF IInv, ModesAgree, BridgeInv, AtRest, Entered, Session
<1> QED
  BY <1>1, Invariance, PTL

\* A joint session never begins with the references of an earlier one.
THEOREM JointSessionStartsEmptyHolds == Spec => JointSessionStartsEmpty
<1>1. ASSUME IInv, Next, egm = "none", egm' = "joint"
      PROVE output = Nothing
  <2> USE DEF IInv
  <2>1. Pulse
    BY <1>1 DEF Next, Interface, Bridge, BeginSwitch, HandleRequest, ChangeRapid,
       ChangeLeadThrough, StartBridge, Request, Advertise, Connect, Run, ReceiveCommand,
       ReceiveJointStates, Solve, GuideByHand, FollowOutput, robot
  <2>2. script # <<>> /\ Head(script) = "EGM_START_JOINT"
    BY <1>1, <2>1 DEF Pulse, Proceed, Pulsed, Signals
  <2>3. SwitchInv /\ BridgeInv
    BY <1>1
  <2>4. /\ ~AtRest /\ ~AtToLeadThrough /\ ~AtStream /\ ~AtOn /\ ~AtStopRapid
        /\ ~AtFromLeadThrough /\ ~AtOff /\ ~AtStopStream /\ ~AtStop /\ ~AtBridge
    BY <2>2, <2>3, FirstThings
  <2>5. AtStart
    BY <2>3, <2>4, Zenon DEF SwitchInv
  <2>6. mode = 0
    BY <2>2, <2>3, <2>5, FirstThings DEF AtStart, Starting
  <2>7. previous # 0
    BY <1>1, <2>5, <2>6 DEF AtStart, Session
  <2> QED
    BY <2>3, <2>7 DEF BridgeInv
<1>2. IInv /\ [Next]_vars => [(egm = "none" /\ egm' = "joint") => output = Nothing]_vars
  BY <1>1
<1> QED
  BY <1>2, Invariance, PTL DEF Spec, JointSessionStartsEmpty
=============================================================================
