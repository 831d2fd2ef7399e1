------------------------------ MODULE CtapHid ------------------------------
(***************************************************************************)
(* The CTAPHID transport (non_secure_world/src/usb/fido2_device.c).  The   *)
(* host writes reports to the OUT endpoint; tud_task hands each one to     *)
(* fido2_handle_report, which answers on the IN endpoint.  A report is one *)
(* command: there are no continuation packets and no channel in the frame. *)
(* TinyUSB takes a report only while the IN endpoint is idle, and it is    *)
(* tud_task, the caller of the handler, that makes it idle again.          *)
(***************************************************************************)
EXTENDS Naturals, Sequences, FiniteSets

CONSTANTS
    ChannelMod,     \* values of next_channel_id (2^32)
    ByteMod,        \* values of current_channel (2^8)
    MaxFrames,      \* bound: frames the host sends
    MaxResets,      \* bound: bus resets
    None

ASSUME ChannelAssumption ==
    /\ {ChannelMod, ByteMod, MaxFrames, MaxResets} \subseteq Nat
    /\ ChannelMod > 2 /\ ByteMod > 0

VARIABLES
    fido2_state,        \* connected and current_channel
    next_channel_id,
    out,                \* the report in the OUT endpoint: a frame or None
    in,                 \* the report in the IN endpoint, or None
    sent,               \* frames sent so far; frames are numbered
    greeted,            \* history: the INITs sent with the device's nonce
    ran,                \* history: the frames the secure world has executed
    read,               \* reports the host has read, in order
    resets

device == <<fido2_state, next_channel_id>>
vars == <<device, out, in, sent, greeted, ran, read, resets>>

FIDO2_CHANNEL_FIRST == 1
FIDO2_CHANNEL_LAST == ChannelMod - 1

\* What tells frames apart: the command, and whether there is something wrong
\* with it ("bad": an INIT with another nonce, an empty MSG, a PING of so many
\* bytes that its echo exceeds FIDO2_REPORT_SIZE).  "short" is a report of less
\* than three bytes, "other" LOCK or an unknown command.
Frames == [cmd : {"INIT", "MSG", "PING"}, bad : BOOLEAN, n : 1..MaxFrames]
          \cup [cmd : {"CANCEL", "WINK", "other", "short"}, bad : {FALSE}, n : 1..MaxFrames]

\* A report the device sends; n is the frame it answers.
Report(command, frame, channel) == [cmd |-> command, n |-> frame.n, channel |-> channel]
Commands == {"INIT", "PING", "MSG", "WINK", "ERROR", "KEEPALIVE"}
Reports == [cmd : Commands, n : 1..MaxFrames, channel : 0..(ChannelMod - 1)]

----------------------------------------------------------------------------
Init ==
    /\ fido2_state = [connected |-> FALSE, current_channel |-> 0]
    /\ next_channel_id = FIDO2_CHANNEL_FIRST
    /\ out = None /\ in = None
    /\ sent = 0 /\ greeted = {} /\ ran = <<>> /\ read = <<>> /\ resets = 0

\* Mutation: a flag set when a report is queued is never cleared.
SendReportsOnce(reports, tooLong) ==
    in' = IF fido2_state'.connected /\ ~tooLong /\ in = None /\ read = <<>>
          THEN Head(reports) ELSE in
\* fido2_send_report, for the reports one handler sends in a row: the first
\* is taken if a host has connected, it fits and the endpoint is idle.
SendReports(reports, tooLong) ==
    in' = IF fido2_state'.connected /\ ~tooLong /\ in = None THEN Head(reports) ELSE in

Send(report) == SendReports(<<report>>, FALSE)
SendError(frame) == Send(Report("ERROR", frame, 0))

\* Mutation: the nonce is not compared.
HandleInitAnyNonce(frame) ==
    /\ fido2_state' = [connected |-> TRUE, current_channel |-> next_channel_id % ByteMod]
    /\ next_channel_id' = (next_channel_id + 1) % ChannelMod
    /\ Send(Report("INIT", frame, next_channel_id))
    /\ UNCHANGED ran

\* Mutation: the next channel stays the same.
HandleInitSameChannel(frame) ==
    /\ ~frame.bad
    /\ fido2_state' = [connected |-> TRUE, current_channel |-> next_channel_id % ByteMod]
    /\ UNCHANGED next_channel_id
    /\ Send(Report("INIT", frame, next_channel_id))
    /\ UNCHANGED ran

\* The channel after the last is compared with the greatest 32-bit value once
\* it has been stored in 32 bits, so the first is never taken up again.
NextChannel == LET n == (next_channel_id + 1) % ChannelMod
               IN  IF n > FIDO2_CHANNEL_LAST THEN FIDO2_CHANNEL_FIRST ELSE n

HandleInit(frame) ==
    \/ /\ frame.bad
       /\ UNCHANGED <<device, in, ran>>
    \/ /\ ~frame.bad
       /\ fido2_state' = [connected |-> TRUE,
                          current_channel |-> next_channel_id % ByteMod]
       /\ next_channel_id' = NextChannel
       /\ Send(Report("INIT", frame, next_channel_id))
       /\ UNCHANGED ran

\* The keepalive, the call of the secure world, then its answer.
HandleMsg(frame) ==
    /\ UNCHANGED device
    /\ \/ frame.bad /\ SendError(frame) /\ UNCHANGED ran
       \/ /\ ~frame.bad
          /\ ran' = Append(ran, frame.n)
          /\ \E answer \in {"MSG", "ERROR"} :
                SendReports(<<Report("KEEPALIVE", frame, 0), Report(answer, frame, 0)>>, FALSE)

\* A PING echoes as many bytes as its header says, which only the report's own
\* check limits.
Echo(frame) ==
    /\ UNCHANGED <<device, ran>>
    /\ CASE frame.cmd = "PING" -> SendReports(<<Report("PING", frame, 0)>>, frame.bad)
         [] frame.cmd = "WINK" -> Send(Report("WINK", frame, 0))
         [] frame.cmd = "short" -> UNCHANGED in
         [] OTHER -> SendError(frame)       \* CANCEL answers with the error "success"

ProcessFrame(frame) ==
    CASE frame.cmd = "INIT" -> HandleInit(frame)
      [] frame.cmd = "MSG" -> HandleMsg(frame)
      [] OTHER -> Echo(frame)

----------------------------------------------------------------------------
\* Mutation: the endpoint holds the report after it has been handled.
HandleReportKept == /\ out # None
                    /\ ProcessFrame(out)
                    /\ UNCHANGED <<out, sent, greeted, read, resets>>

\* fido2_handle_report, under tud_hid_set_report_cb.  The endpoint is armed
\* again once the callback has returned.
HandleReport == /\ out # None
                /\ ProcessFrame(out)
                /\ out' = None
                /\ UNCHANGED <<sent, greeted, read, resets>>

HostSend == /\ out = None /\ sent < MaxFrames
            /\ sent' = sent + 1
            /\ \E frame \in Frames :
                  /\ frame.n = sent + 1
                  /\ out' = frame
                  /\ greeted' = IF frame.cmd = "INIT" /\ ~frame.bad
                                THEN greeted \cup {frame.n} ELSE greeted
            /\ UNCHANGED <<device, in, ran, read, resets>>

\* The host polls the IN endpoint; tud_task notices that it is idle again.
HostRead == /\ in # None
            /\ read' = Append(read, in)
            /\ in' = None
            /\ UNCHANGED <<device, out, sent, greeted, ran, resets>>

\* fido2_user_reset does nothing: the device stays connected.
BusReset == /\ resets < MaxResets
            /\ resets' = resets + 1
            /\ out' = None /\ in' = None
            /\ UNCHANGED <<device, sent, greeted, ran, read>>

Next == HandleReport \/ HostSend \/ HostRead \/ BusReset
Fairness == WF_vars(HandleReport) /\ WF_vars(HostRead)
Spec == Init /\ [][Next]_vars /\ Fairness

----------------------------------------------------------------------------
CtapHidTypeOK ==
    /\ fido2_state \in [connected : BOOLEAN, current_channel : 0..(ByteMod - 1)]
    /\ next_channel_id \in 0..(ChannelMod - 1)
    /\ out \in Frames \cup {None} /\ in \in Reports \cup {None}
    /\ sent \in 0..MaxFrames /\ resets \in 0..MaxResets
    /\ greeted \subseteq 1..MaxFrames
    /\ ran \in Seq(1..MaxFrames) /\ read \in Seq(Reports)

\* The reports on their way to the host, oldest first.
Trail == IF in = None THEN read ELSE Append(read, in)

\* Nothing leaves the device, not even an error, before a host has shown that
\* it knows the device's nonce.
SilentUntilInit == \A i \in DOMAIN Trail : \E g \in greeted : g <= Trail[i].n

\* However late the host reads, whatever the full endpoint swallows and whenever
\* the bus is reset, the reports come in the order of the commands, no command
\* has two of them and none is executed twice.  Which command a report is for is
\* more than it says: an answer may be missing, and reports carry no number.
AnswersInOrder ==
    /\ \A i, j \in DOMAIN Trail : i < j => Trail[i].n < Trail[j].n
    /\ \A i, j \in DOMAIN ran : i < j => ran[i] < ran[j]

\* Among fewer frames than there are channels none is told twice; losing the
\* answers or resetting the bus repeats none.
ChannelsApart ==
    \A i, j \in DOMAIN Trail :
        /\ i < j /\ Trail[i].cmd = "INIT" /\ Trail[j].cmd = "INIT"
        /\ Trail[j].n - Trail[i].n < ChannelMod
        => Trail[i].channel # Trail[j].channel

\* The frames up to this one are done with.
Handled == IF out = None THEN sent ELSE sent - 1

\* The invariant behind the first two: a frame that waits is the last one, all
\* that was answered or executed came before it, and a device is connected
\* because a greeting came before it.
HidInv ==
    /\ CtapHidTypeOK
    /\ out # None => /\ out.n = sent
                     /\ out.cmd = "INIT" /\ ~out.bad => sent \in greeted
    /\ \A i \in DOMAIN Trail : Trail[i].n <= Handled
    /\ \A i \in DOMAIN ran : ran[i] <= Handled
    /\ fido2_state.connected => \E g \in greeted : g <= Handled
    /\ SilentUntilInit /\ AnswersInOrder

\* ... and behind the third: between two channels that were told, and between
\* the last and the next, lie no more channels than frames.
ChannelInv ==
    /\ HidInv
    /\ \A i \in DOMAIN Trail :
          Trail[i].cmd = "INIT" =>
              \E c \in 1..(Handled - Trail[i].n + 1) :
                  next_channel_id = (Trail[i].channel + c) % ChannelMod
    /\ \A i, j \in DOMAIN Trail :
          i < j /\ Trail[i].cmd = "INIT" /\ Trail[j].cmd = "INIT" =>
              \E c \in 1..(Trail[j].n - Trail[i].n) :
                  Trail[j].channel = (Trail[i].channel + c) % ChannelMod

\* The frames the device has an answer for and, but for a MSG that reaches the
\* secure world, the answer.
Answerable == {frame \in Frames : /\ frame.cmd # "short"
                                  /\ frame.cmd \in {"INIT", "PING"} => ~frame.bad
                                  /\ frame.cmd = "MSG" => frame.bad}
AnswerTo(frame) == IF frame.cmd \in {"INIT", "PING", "WINK"} THEN frame.cmd ELSE "ERROR"

\* The device takes up this frame with nothing left to send, for a host that has
\* shown the nonce or does so now, and the bus is not reset any more.
TakenUp(frame) == /\ out = frame /\ in = None
                  /\ fido2_state.connected \/ frame.cmd = "INIT"
                  /\ resets = MaxResets

HasRead(frame, answers) == \E i \in DOMAIN read : read[i].n = frame.n /\ read[i].cmd \in answers

\* Each such command gets its own answer, and the host reads it.
AnsweredWhenIdle ==
    \A frame \in Answerable : TakenUp(frame) ~> HasRead(frame, {AnswerTo(frame)})

\* What fido2_handle_msg sets out to do with the answer of the secure world ("Send
\* as CTAPHID_MSG", or an error): the host reads it.  It never does: the keepalive
\* before it fills the endpoint, which the handler cannot empty.
MsgAnswered ==
    \A n \in 1..MaxFrames :
        LET frame == [cmd |-> "MSG", bad |-> FALSE, n |-> n]
        IN  TakenUp(frame) ~> HasRead(frame, {"MSG", "ERROR"})
============================================================================
