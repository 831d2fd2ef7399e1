----------------------------- MODULE CtapHidProofs -----------------------------
(***************************************************************************)
(* Theorems about CtapHid, for any number of frames, channels and bus      *)
(* resets: types, silence before the handshake, the order of the answers   *)
(* and the distance between two channels.                                  *)
(***************************************************************************)
EXTENDS CtapHid, Integers, TLAPS

-----------------------------------------------------------------------------
(* Channel numbers. *)

LEMMA SmallMultiple == ASSUME NEW M \in Int, M > 0, NEW k \in Int, M * k < M, M * k > -M
                       PROVE  k = 0
<1>1. CASE k >= 1
  <2>1. M * k >= M
    BY <1>1
  <2>2. QED
    BY <2>1
<1>2. CASE k <= -1
  <2>1. M * k <= -M
    BY <1>2
  <2>2. QED
    BY <2>1
<1>3. QED
  BY <1>1, <1>2

\* The remainder is the only one of its size.
LEMMA Remainder == ASSUME NEW M \in Int, M > 0, NEW q \in Int, NEW r \in 0..(M - 1)
                   PROVE  (M * q + r) % M = r
<1> DEFINE a == M * q + r
           p == a \div M
<1>1. a \in Int
  OBVIOUS
<1>2. a = M * p + (a % M) /\ p \in Int /\ a % M \in 0..(M - 1)
  BY <1>1
<1> HIDE DEF p
<1>3. M * q - M * p = (a % M) - r
  BY <1>2
<1>4. M * (q - p) = (a % M) - r
  BY <1>2, <1>3
<1>5. q - p = 0
  BY <1>2, <1>4, SmallMultiple
<1>6. QED
  BY <1>2, <1>4, <1>5

\* A sum of which neither part reaches M wraps at most once.
LEMMA WrapsOnce == ASSUME NEW M \in Int, M > 0, NEW a \in 0..(M - 1), NEW c \in 0..(M - 1)
                   PROVE  (a + c) % M = IF a + c < M THEN a + c ELSE a + c - M
<1>1. CASE a + c < M
  BY <1>1
<1>2. CASE a + c >= M
  <2>1. a + c - M \in 0..(M - 1)
    BY <1>2
  <2>2. (M * 1 + (a + c - M)) % M = a + c - M
    BY <2>1, Remainder
  <2>3. M * 1 + (a + c - M) = a + c
    OBVIOUS
  <2>4. QED
    BY <1>2, <2>2, <2>3
<1>3. QED
  BY <1>1, <1>2

\* The successor of a wrapped number wraps as the successor does.
LEMMA WrapNext == ASSUME NEW M \in Int, M > 0, NEW a \in Int
                  PROVE  ((a % M) + 1) % M = (a + 1) % M
<1> DEFINE r == a % M
           q == a \div M
<1>1. a = M * q + r /\ q \in Int /\ r \in 0..(M - 1)
  OBVIOUS
<1> HIDE DEF r, q
<1>2. CASE r + 1 < M
  <2>1. a + 1 = M * q + (r + 1) /\ r + 1 \in 0..(M - 1)
    BY <1>1, <1>2
  <2>2. QED
    BY <1>1, <2>1, Remainder DEF r
<1>3. CASE r + 1 = M
  <2>1. a + 1 = M * (q + 1) + 0
    BY <1>1, <1>3
  <2>2. (a + 1) % M = 0
    BY <1>1, <2>1, Remainder
  <2>3. (M * 1 + 0) % M = 0
    BY Remainder
  <2>4. M % M = 0
    BY <2>3
  <2>5. QED
    BY <1>3, <2>2, <2>4 DEF r
<1>4. QED
  BY <1>1, <1>2, <1>3

\* Fewer than M steps do not come back.
LEMMA NoReturn == ASSUME NEW M \in Int, M > 0, NEW a \in 0..(M - 1), NEW c \in 1..(M - 1)
                  PROVE  (a + c) % M # a
BY WrapsOnce

-----------------------------------------------------------------------------
(* What each action does to the reports and the frames. *)

LEMMA SeqElements == ASSUME NEW S, NEW s \in Seq(S)
                     PROVE  /\ Len(s) \in Nat /\ DOMAIN s = 1..Len(s)
                            /\ \A i \in DOMAIN s : s[i] \in S
OBVIOUS

LEMMA SeqSubset == ASSUME NEW S, NEW T, S \subseteq T, NEW s \in Seq(S)
                   PROVE  s \in Seq(T)
OBVIOUS

LEMMA TrailType == CtapHidTypeOK =>
                     /\ Trail \in Seq(Reports) /\ \A i \in DOMAIN Trail : Trail[i].n \in Int
                     /\ read \in Seq(Reports)
                     /\ ran \in Seq(1..MaxFrames) /\ ran \in Seq(Int)
                     /\ \A i \in DOMAIN ran : ran[i] \in Int
                     /\ sent \in Nat /\ greeted \subseteq Nat
                     /\ next_channel_id \in 0..(ChannelMod - 1)
<1> SUFFICES ASSUME CtapHidTypeOK
             PROVE  /\ Trail \in Seq(Reports) /\ \A i \in DOMAIN Trail : Trail[i].n \in Int
                    /\ read \in Seq(Reports)
                    /\ ran \in Seq(1..MaxFrames) /\ ran \in Seq(Int)
                    /\ \A i \in DOMAIN ran : ran[i] \in Int
                    /\ sent \in Nat /\ greeted \subseteq Nat
                    /\ next_channel_id \in 0..(ChannelMod - 1)
  OBVIOUS
<1>1. /\ Trail \in Seq(Reports) /\ read \in Seq(Reports) /\ ran \in Seq(1..MaxFrames)
      /\ sent \in Nat /\ greeted \subseteq Nat
      /\ next_channel_id \in 0..(ChannelMod - 1)
  BY ChannelAssumption DEF CtapHidTypeOK, Trail
<1>2. 1..MaxFrames \subseteq Int
  BY ChannelAssumption
<1>3. \A r \in Reports : r.n \in Int
  BY <1>2 DEF Reports
<1>4. \A i \in DOMAIN Trail : Trail[i] \in Reports
  BY <1>1, SeqElements
<1>5. ran \in Seq(Int)
  BY <1>1, <1>2, SeqSubset
<1>6. \A i \in DOMAIN ran : ran[i] \in Int
  BY <1>5, SeqElements
<1>7. QED
  BY <1>1, <1>3, <1>4, <1>5, <1>6

LEMMA AppendType == ASSUME NEW S, NEW s \in Seq(S), NEW e \in S
                    PROVE  /\ Append(s, e) \in Seq(S) /\ Len(s) \in Nat
                           /\ DOMAIN s = 1..Len(s)
                           /\ DOMAIN Append(s, e) = 1..(Len(s) + 1)
                           /\ \A i \in 1..Len(s) : s[i] \in S /\ Append(s, e)[i] = s[i]
                           /\ Append(s, e)[Len(s) + 1] = e
OBVIOUS

\* A sequence of numbers that grows by the next one, or not at all.
LEMMA GrowsInOrder ==
  ASSUME NEW s \in Seq(Int), NEW t, NEW b \in Int, t = s \/ t = Append(s, b + 1),
         \A i \in DOMAIN s : s[i] <= b,
         \A i, j \in DOMAIN s : i < j => s[i] < s[j]
  PROVE  /\ t \in Seq(Int)
         /\ \A i \in DOMAIN t : t[i] <= b + 1
         /\ \A i, j \in DOMAIN t : i < j => t[i] < t[j]
<1>1. CASE t = s
  BY <1>1
<1>2. CASE t = Append(s, b + 1)
  <2>1. /\ t \in Seq(Int) /\ Len(s) \in Nat /\ DOMAIN s = 1..Len(s)
        /\ DOMAIN t = 1..(Len(s) + 1)
        /\ \A i \in 1..Len(s) : s[i] \in Int /\ t[i] = s[i]
        /\ t[Len(s) + 1] = b + 1
    BY <1>2, AppendType
  <2>2. \A i \in DOMAIN t : t[i] <= b + 1
    BY <2>1
  <2>3. ASSUME NEW i \in DOMAIN t, NEW j \in DOMAIN t, i < j
        PROVE  t[i] < t[j]
    <3>1. i \in 1..Len(s) /\ t[i] = s[i] /\ s[i] \in Int /\ s[i] <= b
      BY <2>1, <2>3
    <3>2. CASE j \in 1..Len(s)
      BY <2>1, <2>3, <3>1, <3>2
    <3>3. CASE j = Len(s) + 1
      BY <2>1, <3>1, <3>3
    <3>4. QED
      BY <2>1, <3>2, <3>3
  <2>4. QED
    BY <2>1, <2>2, <2>3
<1>3. QED
  BY <1>1, <1>2

LEMMA NextChannelWraps == next_channel_id \in 0..(ChannelMod - 1)
                          => NextChannel = (next_channel_id + 1) % ChannelMod
BY ChannelAssumption DEF NextChannel, FIDO2_CHANNEL_LAST

\* The handler queues at most one report, for the frame it handles, and only
\* for a host that has greeted.
LEMMA HandleEffect ==
  ASSUME CtapHidTypeOK, HandleReport
  PROVE  /\ out # None /\ out \in Frames /\ out' = None
         /\ UNCHANGED <<sent, greeted, read, resets>>
         /\ fido2_state' \in [connected : BOOLEAN, current_channel : 0..(ByteMod - 1)]
         /\ \/ UNCHANGED device
            \/ out.cmd = "INIT" /\ ~out.bad /\ next_channel_id' = NextChannel
         /\ \/ in' = in
            \/ /\ in = None /\ fido2_state'.connected
               /\ in' \in Reports /\ in'.n = out.n
               /\ in'.cmd = "INIT" => /\ in'.channel = next_channel_id
                                      /\ next_channel_id' = NextChannel
         /\ ran' = ran \/ ran' = Append(ran, out.n)
<1>1. /\ out # None /\ out \in Frames /\ out' = None
      /\ UNCHANGED <<sent, greeted, read, resets>>
      /\ ProcessFrame(out)
  BY DEF HandleReport, CtapHidTypeOK
<1>2. out.n \in 1..MaxFrames /\ out.bad \in BOOLEAN
  BY <1>1 DEF Frames
<1>3. ASSUME NEW command \in Commands, NEW channel \in 0..(ChannelMod - 1)
      PROVE  /\ Report(command, out, channel) \in Reports
             /\ Report(command, out, channel).n = out.n
             /\ Report(command, out, channel).cmd = command
             /\ Report(command, out, channel).channel = channel
  BY <1>2 DEF Report, Reports
<1>4. 0 \in 0..(ChannelMod - 1) /\ next_channel_id \in 0..(ChannelMod - 1)
  BY ChannelAssumption DEF CtapHidTypeOK
<1>5. CASE HandleInit(out) /\ out.cmd = "INIT"
  <2>1. CASE out.bad
    BY <1>1, <1>5, <2>1 DEF HandleInit, device, CtapHidTypeOK
  <2>2. CASE ~out.bad
    <3>1. /\ fido2_state' = [connected |-> TRUE,
                             current_channel |-> next_channel_id % ByteMod]
          /\ next_channel_id' = NextChannel /\ ran' = ran
          /\ \/ in' = in
             \/ in = None /\ in' = Report("INIT", out, next_channel_id)
      BY <1>5, <2>2 DEF HandleInit, Send, SendReports
    <3>2. next_channel_id % ByteMod \in 0..(ByteMod - 1)
      BY <1>4, ChannelAssumption
    <3>3. QED
      BY <1>1, <1>3, <1>4, <1>5, <2>2, <3>1, <3>2 DEF Commands
  <2>3. QED
    BY <1>2, <2>1, <2>2
<1>6. CASE HandleMsg(out)
  <2>1. /\ UNCHANGED device
        /\ ran' = ran \/ ran' = Append(ran, out.n)
        /\ \/ in' = in
           \/ /\ in = None /\ fido2_state'.connected
              /\ \E command \in {"ERROR", "KEEPALIVE"} : in' = Report(command, out, 0)
    BY <1>6 DEF HandleMsg, SendError, Send, SendReports
  <2>2. QED
    BY <1>1, <1>3, <1>4, <2>1 DEF Commands, device, CtapHidTypeOK
<1>7. CASE Echo(out)
  <2>1. /\ UNCHANGED <<device, ran>>
        /\ \/ in' = in
           \/ /\ in = None /\ fido2_state'.connected
              /\ \E command \in {"PING", "WINK", "ERROR"} : in' = Report(command, out, 0)
    BY <1>7 DEF Echo, SendError, Send, SendReports
  <2>2. QED
    BY <1>1, <1>3, <1>4, <2>1 DEF Commands, device, CtapHidTypeOK
<1>8. QED
  BY <1>1, <1>5, <1>6, <1>7 DEF ProcessFrame

-----------------------------------------------------------------------------
(* Types, silence and order. *)

LEMMA HidInit == Init => HidInv
<1> SUFFICES ASSUME Init
             PROVE  HidInv
  OBVIOUS
<1>1. CtapHidTypeOK
  BY ChannelAssumption DEF Init, CtapHidTypeOK, FIDO2_CHANNEL_FIRST
<1>2. Trail = <<>> /\ ran = <<>>
  BY DEF Init, Trail
<1>3. QED
  BY <1>1, <1>2 DEF Init, HidInv, SilentUntilInit, AnswersInOrder

LEMMA HidNext == HidInv /\ [Next]_vars => HidInv'
<1> SUFFICES ASSUME HidInv, [Next]_vars
             PROVE  HidInv'
  OBVIOUS
<1>a. /\ CtapHidTypeOK
      /\ out # None => /\ out.n = sent
                       /\ out.cmd = "INIT" /\ ~out.bad => sent \in greeted
      /\ \A i \in DOMAIN Trail : Trail[i].n <= Handled
      /\ \A i \in DOMAIN ran : ran[i] <= Handled
      /\ fido2_state.connected => \E g \in greeted : g <= Handled
      /\ SilentUntilInit /\ AnswersInOrder
  BY DEF HidInv
<1>b. /\ Trail \in Seq(Reports) /\ read \in Seq(Reports) /\ ran \in Seq(1..MaxFrames)
      /\ sent \in Nat /\ greeted \subseteq Nat
  BY <1>a, TrailType
<1>d. /\ \A i \in DOMAIN Trail : Trail[i].n \in Int
      /\ \A i \in DOMAIN ran : ran[i] \in Int
      /\ ran \in Seq(Int)
  BY <1>a, TrailType
<1>c. MaxFrames \in Nat /\ MaxResets \in Nat
  BY ChannelAssumption
<1>1. CASE HandleReport
  <2>a. /\ out # None /\ out \in Frames /\ out' = None
        /\ UNCHANGED <<sent, greeted, read, resets>>
        /\ fido2_state' \in [connected : BOOLEAN, current_channel : 0..(ByteMod - 1)]
        /\ \/ UNCHANGED device
           \/ out.cmd = "INIT" /\ ~out.bad /\ next_channel_id' = NextChannel
        /\ \/ in' = in
           \/ in = None /\ fido2_state'.connected /\ in' \in Reports /\ in'.n = out.n
        /\ ran' = ran \/ ran' = Append(ran, out.n)
    BY <1>1, <1>a, HandleEffect
  <2>b. Handled = sent - 1 /\ Handled' = sent /\ out.n = sent /\ sent \in 1..MaxFrames
    BY <2>a, <1>a DEF Handled, Frames
  <2>1. CtapHidTypeOK'
    <3>1. next_channel_id' \in 0..(ChannelMod - 1)
      BY <2>a, <1>a, ChannelAssumption, NextChannelWraps DEF device, CtapHidTypeOK
    <3>2. ran' \in Seq(1..MaxFrames)
      <4>1. Append(ran, sent) \in Seq(1..MaxFrames)
        BY <2>b, <1>b, AppendType
      <4>2. QED
        BY <2>a, <2>b, <1>b, <4>1
    <3>3. QED
      BY <2>a, <1>a, <3>1, <3>2 DEF CtapHidTypeOK
  <2>2. /\ \A i \in DOMAIN ran' : ran'[i] <= Handled'
        /\ \A i, j \in DOMAIN ran' : i < j => ran'[i] < ran'[j]
    <3>1. ran \in Seq(Int) /\ sent - 1 \in Int /\ (sent - 1) + 1 = sent
      BY <1>b, <1>d
    <3>2. ran' = ran \/ ran' = Append(ran, (sent - 1) + 1)
      BY <2>a, <2>b, <3>1
    <3>3. /\ \A i \in DOMAIN ran : ran[i] <= sent - 1
          /\ \A i, j \in DOMAIN ran : i < j => ran[i] < ran[j]
      BY <2>b, <1>a DEF AnswersInOrder
    <3>4. QED
      BY <2>b, <3>1, <3>2, <3>3, GrowsInOrder
  <2>3. fido2_state'.connected => \E g \in greeted' : g <= Handled'
    BY <2>a, <2>b, <1>a, <1>b DEF device
  <2>4. \/ Trail' = Trail
        \/ /\ fido2_state'.connected
           /\ \E r \in Reports : r.n = sent /\ Trail' = Append(Trail, r)
    BY <2>a, <2>b DEF Trail
  <2>5. \A i \in DOMAIN Trail : Trail[i].n \in Int /\ Trail[i].n < sent
    BY <2>b, <1>a, <1>b, <1>d
  <2>6. CASE Trail' = Trail
    <3>1. \A i \in DOMAIN Trail' : Trail'[i].n <= Handled'
      BY <2>b, <2>5, <2>6, <1>b
    <3>2. SilentUntilInit' /\ AnswersInOrder'
      BY <2>a, <2>2, <2>6, <1>a DEF SilentUntilInit, AnswersInOrder
    <3>3. QED
      BY <2>a, <2>1, <2>2, <2>3, <3>1, <3>2 DEF HidInv
  <2>7. CASE /\ fido2_state'.connected
             /\ \E r \in Reports : r.n = sent /\ Trail' = Append(Trail, r)
    <3>1. PICK r \in Reports : r.n = sent /\ Trail' = Append(Trail, r)
      BY <2>7
    <3>2. /\ Len(Trail) \in Nat /\ DOMAIN Trail = 1..Len(Trail)
          /\ DOMAIN Trail' = 1..(Len(Trail) + 1)
          /\ \A i \in 1..Len(Trail) : Trail'[i] = Trail[i]
          /\ Trail'[Len(Trail) + 1] = r
      BY <3>1, <1>b, AppendType
    <3>3. \A i \in DOMAIN Trail' : Trail'[i].n <= Handled'
      BY <2>b, <2>5, <3>1, <3>2
    <3>4. SilentUntilInit'
      <4>1. \A i \in DOMAIN Trail : \E g \in greeted' : g <= Trail'[i].n
        BY <2>a, <3>2, <1>a DEF SilentUntilInit
      <4>2. \E g \in greeted' : g <= Trail'[Len(Trail) + 1].n
        BY <2>3, <2>7, <2>b, <3>1, <3>2
      <4>3. DOMAIN Trail' = DOMAIN Trail \cup {Len(Trail) + 1}
        BY <3>2
      <4>4. QED
        BY <4>1, <4>2, <4>3 DEF SilentUntilInit
    <3>5. \A i, j \in DOMAIN Trail' : i < j => Trail'[i].n < Trail'[j].n
      BY <2>5, <3>1, <3>2, <1>a DEF AnswersInOrder
    <3>6. QED
      BY <2>a, <2>1, <2>2, <2>3, <3>3, <3>4, <3>5 DEF HidInv, AnswersInOrder
  <2>8. QED
    BY <2>4, <2>6, <2>7
<1>2. CASE HostSend
  <2>a. PICK frame \in Frames :
          /\ out = None /\ sent < MaxFrames /\ sent' = sent + 1
          /\ frame.n = sent + 1 /\ out' = frame
          /\ greeted' = IF frame.cmd = "INIT" /\ ~frame.bad
                        THEN greeted \cup {frame.n} ELSE greeted
          /\ UNCHANGED <<fido2_state, next_channel_id, in, ran, read, resets>>
    BY <1>2 DEF HostSend, device
  <2>b. Handled = sent /\ Handled' \in Nat /\ Handled <= Handled' /\ Trail' = Trail
    BY <2>a, <1>b DEF Handled, Trail
  <2>1. CtapHidTypeOK'
    BY <2>a, <1>a, <1>b, <1>c DEF CtapHidTypeOK
  <2>2. SilentUntilInit' /\ AnswersInOrder'
    BY <2>a, <2>b, <1>a DEF SilentUntilInit, AnswersInOrder
  <2>3. /\ \A i \in DOMAIN Trail' : Trail'[i].n <= Handled'
        /\ \A i \in DOMAIN ran' : ran'[i] <= Handled'
        /\ fido2_state'.connected => \E g \in greeted' : g <= Handled'
    BY <2>a, <2>b, <1>a, <1>b, <1>d
  <2>4. out' # None => /\ out'.n = sent'
                       /\ out'.cmd = "INIT" /\ ~out'.bad => sent' \in greeted'
    BY <2>a
  <2>5. QED
    BY <2>1, <2>2, <2>3, <2>4 DEF HidInv
<1>3. CASE HostRead
  <2>a. /\ in # None /\ read' = Append(read, in) /\ in' = None
        /\ UNCHANGED <<fido2_state, next_channel_id, out, sent, greeted, ran, resets>>
    BY <1>3 DEF HostRead, device
  <2>b. Handled' = Handled /\ Trail' = Trail
    BY <2>a DEF Handled, Trail
  <2>1. CtapHidTypeOK'
    BY <2>a, <1>a DEF CtapHidTypeOK
  <2>2. QED
    BY <2>a, <2>b, <2>1, <1>a DEF HidInv, SilentUntilInit, AnswersInOrder
<1>4. CASE BusReset
  <2>a. /\ resets < MaxResets /\ resets' = resets + 1 /\ out' = None /\ in' = None
        /\ UNCHANGED <<fido2_state, next_channel_id, sent, greeted, ran, read>>
    BY <1>4 DEF BusReset, device
  <2>b. Handled' = sent /\ Handled \in Int /\ Handled <= sent
    BY <2>a, <1>b DEF Handled
  <2>c. Trail' = read /\ DOMAIN read \subseteq DOMAIN Trail
        /\ \A i \in DOMAIN read : Trail[i] = read[i]
    BY <2>a, <1>a, <1>b DEF Trail, CtapHidTypeOK
  <2>1. CtapHidTypeOK'
    BY <2>a, <1>a, <1>c DEF CtapHidTypeOK
  <2>2. SilentUntilInit' /\ AnswersInOrder'
    BY <2>a, <2>c, <1>a DEF SilentUntilInit, AnswersInOrder
  <2>3. /\ \A i \in DOMAIN Trail' : Trail'[i].n <= Handled'
        /\ \A i \in DOMAIN ran' : ran'[i] <= Handled'
        /\ fido2_state'.connected => \E g \in greeted' : g <= Handled'
    BY <2>a, <2>b, <2>c, <1>a, <1>b, <1>d
  <2>4. QED
    BY <2>a, <2>1, <2>2, <2>3 DEF HidInv
<1>5. CASE UNCHANGED vars
  <2>1. Trail' = Trail /\ Handled' = Handled /\ CtapHidTypeOK'
    BY <1>5, <1>a DEF vars, device, Trail, Handled, CtapHidTypeOK
  <2>2. QED
    BY <1>5, <1>a, <2>1 DEF vars, device, HidInv, SilentUntilInit, AnswersInOrder
<1>6. QED
  BY <1>1, <1>2, <1>3, <1>4, <1>5 DEF Next

\* Types, for any number of frames, channels and bus resets.
THEOREM HidTypeCorrect == Spec => []CtapHidTypeOK
<1>1. HidInv => CtapHidTypeOK
  BY DEF HidInv
<1>2. QED
  BY HidInit, HidNext, <1>1, PTL DEF Spec

\* Nothing leaves the device, not even an error, before the handshake.
THEOREM SilenceKept == Spec => []SilentUntilInit
<1>1. HidInv => SilentUntilInit
  BY DEF HidInv
<1>2. QED
  BY HidInit, HidNext, <1>1, PTL DEF Spec

\* However late the host reads and whatever the endpoint refuses, answers and
\* executions keep the order of the frames and none comes twice.
THEOREM OrderKept == Spec => []AnswersInOrder
<1>1. HidInv => AnswersInOrder
  BY DEF HidInv
<1>2. QED
  BY HidInit, HidNext, <1>1, PTL DEF Spec

-----------------------------------------------------------------------------
(* Channels. *)

Step(a, b, d) == \E c \in 1..d : b = (a + c) % ChannelMod

LEMMA StepFurther ==
  ASSUME NEW a \in Int, NEW b \in Int, NEW d \in Int, Step(a, b, d)
  PROVE  Step(a, (b + 1) % ChannelMod, d + 1)
<1>1. PICK c \in 1..d : b = (a + c) % ChannelMod
  BY DEF Step
<1>2. (((a + c) % ChannelMod) + 1) % ChannelMod = ((a + c) + 1) % ChannelMod
  <2>1. a + c \in Int /\ ChannelMod \in Int /\ ChannelMod > 0
    BY ChannelAssumption
  <2>2. QED
    BY <2>1, WrapNext
<1>3. c + 1 \in 1..(d + 1) /\ (a + c) + 1 = a + (c + 1)
  OBVIOUS
<1>4. QED
  BY <1>1, <1>2, <1>3 DEF Step

LEMMA StepLonger ==
  ASSUME NEW a, NEW b, NEW d \in Int, NEW e \in Int, d <= e, Step(a, b, d)
  PROVE  Step(a, b, e)
BY DEF Step

LEMMA ChannelInit == Init => ChannelInv
<1> SUFFICES ASSUME Init
             PROVE  ChannelInv
  OBVIOUS
<1>1. Trail = <<>>
  BY DEF Init, Trail
<1>2. QED
  BY <1>1, HidInit DEF ChannelInv

LEMMA ChannelNext == ChannelInv /\ [Next]_vars => ChannelInv'
<1> SUFFICES ASSUME ChannelInv, [Next]_vars
             PROVE  ChannelInv'
  OBVIOUS
<1>a. HidInv /\ HidInv' /\ CtapHidTypeOK
  BY HidNext DEF ChannelInv, HidInv
<1>b. /\ Trail \in Seq(Reports) /\ \A i \in DOMAIN Trail : Trail[i].n \in Int
      /\ read \in Seq(Reports) /\ sent \in Nat
      /\ next_channel_id \in 0..(ChannelMod - 1)
  BY <1>a, TrailType
<1>c. \A i \in DOMAIN Trail : Trail[i].channel \in Int
  <2>1. \A r \in Reports : r.channel \in Int
    BY ChannelAssumption DEF Reports
  <2>2. QED
    BY <1>b, <2>1, SeqElements
<1>d. /\ \A i \in DOMAIN Trail :
           Trail[i].cmd = "INIT"
             => Step(Trail[i].channel, next_channel_id, Handled - Trail[i].n + 1)
      /\ \A i, j \in DOMAIN Trail :
           i < j /\ Trail[i].cmd = "INIT" /\ Trail[j].cmd = "INIT"
             => Step(Trail[i].channel, Trail[j].channel, Trail[j].n - Trail[i].n)
  BY DEF ChannelInv, Step
<1>e. Handled \in Int
  BY <1>b DEF Handled
<1> SUFFICES
      /\ \A i \in DOMAIN Trail' :
           Trail'[i].cmd = "INIT"
             => Step(Trail'[i].channel, next_channel_id', Handled' - Trail'[i].n + 1)
      /\ \A i, j \in DOMAIN Trail' :
           i < j /\ Trail'[i].cmd = "INIT" /\ Trail'[j].cmd = "INIT"
             => Step(Trail'[i].channel, Trail'[j].channel, Trail'[j].n - Trail'[i].n)
  BY <1>a DEF ChannelInv, Step
\* Steps that change neither the next channel nor the reports, but some may go.
<1>f. ASSUME next_channel_id' = next_channel_id, Handled' \in Int, Handled <= Handled',
             DOMAIN Trail' \subseteq DOMAIN Trail,
             \A i \in DOMAIN Trail' : Trail'[i] = Trail[i]
      PROVE  /\ \A i \in DOMAIN Trail' :
                  Trail'[i].cmd = "INIT"
                    => Step(Trail'[i].channel, next_channel_id', Handled' - Trail'[i].n + 1)
             /\ \A i, j \in DOMAIN Trail' :
                  i < j /\ Trail'[i].cmd = "INIT" /\ Trail'[j].cmd = "INIT"
                    => Step(Trail'[i].channel, Trail'[j].channel, Trail'[j].n - Trail'[i].n)
  <2>1. ASSUME NEW i \in DOMAIN Trail', Trail'[i].cmd = "INIT"
        PROVE  Step(Trail'[i].channel, next_channel_id', Handled' - Trail'[i].n + 1)
    <3>1. i \in DOMAIN Trail /\ Trail'[i] = Trail[i] /\ Trail[i].n \in Int
      BY <1>b, <1>f
    <3>2. Step(Trail[i].channel, next_channel_id, Handled - Trail[i].n + 1)
      BY <1>d, <2>1, <3>1
    <3>3. /\ Handled - Trail[i].n + 1 \in Int /\ Handled' - Trail[i].n + 1 \in Int
          /\ Handled - Trail[i].n + 1 <= Handled' - Trail[i].n + 1
      BY <1>e, <1>f, <3>1
    <3>4. Step(Trail[i].channel, next_channel_id, Handled' - Trail[i].n + 1)
      BY <3>2, <3>3, StepLonger
    <3>5. QED
      BY <1>f, <3>1, <3>4
  <2>2. QED
    BY <1>d, <1>f, <2>1
<1>1. CASE HandleReport
  <2>a. /\ out # None /\ out \in Frames /\ out' = None
        /\ UNCHANGED <<sent, greeted, read, resets>>
        /\ \/ UNCHANGED device
           \/ next_channel_id' = NextChannel
        /\ \/ in' = in
           \/ /\ in = None /\ in' \in Reports /\ in'.n = out.n
              /\ in'.cmd = "INIT" => /\ in'.channel = next_channel_id
                                     /\ next_channel_id' = NextChannel
    BY <1>1, <1>a, HandleEffect
  <2>b. Handled = sent - 1 /\ Handled' = sent /\ out.n = sent
    BY <2>a, <1>a DEF Handled, HidInv
  <2>c. NextChannel = (next_channel_id + 1) % ChannelMod
    BY <1>b, NextChannelWraps
  \* What the reports before this one are to the next channel.
  <2>1. ASSUME NEW i \in DOMAIN Trail, Trail[i].cmd = "INIT"
        PROVE  Step(Trail[i].channel, next_channel_id', sent - Trail[i].n + 1)
    <3>1. Step(Trail[i].channel, next_channel_id, sent - Trail[i].n)
      <4>1. Handled - Trail[i].n + 1 = sent - Trail[i].n
        <5>1. Trail[i].n \in Int /\ sent \in Int
          BY <1>b
        <5>2. QED
          BY <2>b, <5>1
      <4>2. QED
        BY <1>d, <2>1, <4>1
    <3>2. /\ Trail[i].channel \in Int /\ next_channel_id \in Int
          /\ sent - Trail[i].n \in Int
      BY <1>b, <1>c, ChannelAssumption
    <3>3. CASE next_channel_id' = next_channel_id
      BY <3>1, <3>2, <3>3, StepLonger
    <3>4. CASE next_channel_id' = NextChannel
      BY <3>1, <3>2, <3>4, <2>c, StepFurther
    <3>5. QED
      BY <2>a, <3>3, <3>4 DEF device
  <2>2. CASE Trail' = Trail
    BY <1>d, <2>b, <2>1, <2>2
  <2>3. CASE Trail' # Trail
    <3>1. /\ Trail' = Append(Trail, in') /\ in' \in Reports /\ in'.n = sent
          /\ in'.cmd = "INIT" => /\ in'.channel = next_channel_id
                                 /\ next_channel_id' = NextChannel
      BY <2>a, <2>b, <2>3 DEF Trail
    <3>2. /\ Len(Trail) \in Nat /\ DOMAIN Trail = 1..Len(Trail)
          /\ DOMAIN Trail' = 1..(Len(Trail) + 1)
          /\ \A i \in 1..Len(Trail) : Trail'[i] = Trail[i]
          /\ Trail'[Len(Trail) + 1] = in'
      BY <3>1, <1>b, AppendType
    <3>3. ASSUME in'.cmd = "INIT"
          PROVE  Step(in'.channel, next_channel_id', sent - in'.n + 1)
      <4>1. next_channel_id' = (next_channel_id + 1) % ChannelMod /\ in'.channel = next_channel_id
        BY <2>c, <3>1, <3>3
      <4>2. 1 \in 1..(sent - in'.n + 1)
        BY <3>1, <1>b
      <4>3. QED
        BY <4>1, <4>2 DEF Step
    <3>4. ASSUME NEW i \in DOMAIN Trail', Trail'[i].cmd = "INIT"
          PROVE  Step(Trail'[i].channel, next_channel_id', Handled' - Trail'[i].n + 1)
      <4>1. CASE i \in DOMAIN Trail
        BY <2>b, <2>1, <3>2, <3>4, <4>1
      <4>2. CASE i = Len(Trail) + 1
        BY <2>b, <3>2, <3>3, <3>4, <4>2
      <4>3. QED
        BY <3>2, <4>1, <4>2
    <3>5. ASSUME NEW i \in DOMAIN Trail', NEW j \in DOMAIN Trail', i < j,
                 Trail'[i].cmd = "INIT", Trail'[j].cmd = "INIT"
          PROVE  Step(Trail'[i].channel, Trail'[j].channel, Trail'[j].n - Trail'[i].n)
      <4>1. i \in DOMAIN Trail /\ Trail'[i] = Trail[i]
        BY <3>2, <3>5
      <4>2. CASE j \in DOMAIN Trail
        BY <1>d, <3>2, <3>5, <4>1, <4>2
      <4>3. CASE j = Len(Trail) + 1
        <5>1. Trail'[j].channel = next_channel_id /\ Trail'[j].n = sent
          BY <3>1, <3>2, <3>5, <4>3
        <5>2. Handled - Trail[i].n + 1 = sent - Trail[i].n
          <6>1. Trail[i].n \in Int /\ sent \in Int
            BY <4>1, <1>b
          <6>2. QED
            BY <2>b, <6>1
        <5>3. QED
          BY <1>d, <3>5, <4>1, <5>1, <5>2
      <4>4. QED
        BY <3>2, <4>2, <4>3
    <3>6. QED
      BY <3>4, <3>5
  <2>4. QED
    BY <2>2, <2>3
<1>2. CASE HostSend
  <2>1. /\ out = None /\ sent' = sent + 1
        /\ UNCHANGED <<next_channel_id, in, read>>
    BY <1>2 DEF HostSend, device
  <2>2. Trail' = Trail /\ Handled' \in Int /\ Handled <= Handled'
    BY <2>1, <1>b DEF Trail, Handled
  <2>3. QED
    BY <1>f, <2>1, <2>2
<1>3. CASE HostRead
  <2>1. /\ in # None /\ read' = Append(read, in) /\ in' = None
        /\ UNCHANGED <<next_channel_id, out, sent>>
    BY <1>3 DEF HostRead, device
  <2>2. Trail' = Trail /\ Handled' = Handled
    BY <2>1 DEF Trail, Handled
  <2>3. QED
    BY <1>e, <1>f, <2>1, <2>2
<1>4. CASE BusReset
  <2>1. /\ out' = None /\ in' = None
        /\ UNCHANGED <<next_channel_id, sent, read>>
    BY <1>4 DEF BusReset, device
  <2>2. Handled' \in Int /\ Handled <= Handled'
    BY <2>1, <1>b DEF Handled
  <2>3. Trail' = read /\ DOMAIN read \subseteq DOMAIN Trail
        /\ \A i \in DOMAIN read : Trail[i] = read[i]
    BY <2>1, <1>a, <1>b DEF Trail, CtapHidTypeOK
  <2>4. QED
    BY <1>f, <2>1, <2>2, <2>3
<1>5. CASE UNCHANGED vars
  <2>1. next_channel_id' = next_channel_id /\ Trail' = Trail /\ Handled' = Handled
    BY <1>5 DEF vars, device, Trail, Handled
  <2>2. QED
    BY <1>e, <1>f, <2>1
<1>6. QED
  BY <1>1, <1>2, <1>3, <1>4, <1>5 DEF Next

\* Two hosts are told the same channel only after all others have been handed
\* out, for a channel counter of any width.
THEOREM ChannelsKeptApart == Spec => []ChannelsApart
<1>1. ChannelInv => ChannelsApart
  <2> SUFFICES ASSUME ChannelInv,
                      NEW i \in DOMAIN Trail, NEW j \in DOMAIN Trail,
                      i < j, Trail[i].cmd = "INIT", Trail[j].cmd = "INIT",
                      Trail[j].n - Trail[i].n < ChannelMod
               PROVE  Trail[i].channel # Trail[j].channel
    BY DEF ChannelsApart
  <2>1. /\ Trail \in Seq(Reports)
        /\ Trail[i].n \in Int /\ Trail[j].n \in Int
    BY TrailType DEF ChannelInv, HidInv
  <2>2. Trail[i].channel \in 0..(ChannelMod - 1)
    <3>1. Trail[i] \in Reports
      BY <2>1, SeqElements
    <3>2. QED
      BY <3>1 DEF Reports
  <2>3. PICK c \in 1..(Trail[j].n - Trail[i].n) :
          Trail[j].channel = (Trail[i].channel + c) % ChannelMod
    BY DEF ChannelInv
  <2>4. c \in 1..(ChannelMod - 1) /\ ChannelMod \in Int /\ ChannelMod > 0
    BY <2>1, <2>3, ChannelAssumption
  <2>5. QED
    BY <2>2, <2>3, <2>4, NoReturn
<1>2. QED
  BY ChannelInit, ChannelNext, <1>1, PTL DEF Spec

=============================================================================
