---------------------------- MODULE CcidTransport ----------------------------
(***************************************************************************)
(* The smart card reader towards the host (non_secure_world/src/usb/       *)
(* ccid_device.c).  Three parties move by themselves: the host's CCID      *)
(* driver, the USB controller, which fills rx_buffer and empties the IN    *)
(* endpoint, and tud_task, which takes the completions in their order and  *)
(* calls ccid_user_xfer_cb.  While a callback runs, an APDU can take long  *)
(* (a save erases flash), and the host goes on.                            *)
(***************************************************************************)
EXTENDS Naturals, Sequences

CONSTANTS
  SeqMod,         \* bSeq is a byte: 256
  MaxRequests,    \* bound: commands the host sends
  LongMessages,   \* whether commands may be longer than rx_buffer (64 bytes)
  None

ASSUME CcidAssumption ==
  /\ SeqMod \in Nat /\ SeqMod >= 2
  /\ MaxRequests \in Nat
  /\ LongMessages \in BOOLEAN

VARIABLES
  host,     \* the host's driver: its last command and what it does about it
  armed,    \* the OUT endpoint takes a packet into rx_buffer
  rx,       \* rx_buffer
  events,   \* completions tud_task has not taken yet
  pc,       \* where ccid_user_xfer_cb is
  body,     \* the command whose answer lies in apdu_out
  busy,     \* TinyUSB counts the IN endpoint as in use
  tx,       \* the answer that waits in the IN endpoint, or None
  runs,     \* history: how often the applets have run each command
  failed,   \* history: a transfer has failed
  got       \* the last answer the host took, and for which command

usb == <<armed, events, busy, tx, failed>>
firmware == <<pc, body, runs>>
vars == <<host, rx, usb, firmware, got>>

Requests == 1..MaxRequests
Seqs == 0..SeqMod - 1

\* The messages with a case of their own, and the ones the default takes.
Constant == {"ICCPOWERON", "GETSLOTSTATUS", "GETPARAMETERS"}
Unsupported == {"ICCPOWEROFF", "SETPARAMETERS", "RESETPARAMETERS"}
Supported == Constant \cup {"XFRBLOCK"}
Types == Supported \cup Unsupported

\* What 64 bytes hold: a whole command, the first part of one, or bytes from
\* its middle, which look like any header.
Message == [type : Types, seq : Seqs, of : Requests, whole : BOOLEAN]

\* What apdu_out holds: the answer to which command; what goes out, and what
\* the host makes of it.
Body == [of : Requests, whole : BOOLEAN]
Response == [seq : Seqs, of : Requests, whole : BOOLEAN]
Taking == [for : Requests, of : Requests, whole : BOOLEAN]

Waits == host.doing = "waiting"

-----------------------------------------------------------------------------
Init ==
  /\ host = [n |-> 0, type |-> "ICCPOWERON", doing |-> "idle", rest |-> FALSE]
  /\ armed = TRUE /\ rx = None /\ events = <<>>
  /\ pc = "task" /\ body = None
  /\ busy = FALSE /\ tx = None /\ failed = FALSE
  /\ runs = [n \in Requests |-> 0]
  /\ got = None

(***************************************************************************)
(* The host numbers its commands, has one open at a time, reads until an   *)
(* answer has the number of that command, and gives up when nothing comes. *)
(***************************************************************************)
HostSend ==
  /\ host.doing = "idle"
  /\ host.n < MaxRequests
  /\ \E type \in Types, rest \in BOOLEAN :
       /\ rest => LongMessages /\ type = "XFRBLOCK"
       /\ host' = [n |-> host.n + 1, type |-> type, doing |-> "sending", rest |-> rest]
  /\ UNCHANGED <<rx, usb, firmware, got>>

HostGiveUp ==
  /\ Waits
  /\ tx = None
  /\ host' = [host EXCEPT !.doing = "idle"]
  /\ UNCHANGED <<rx, usb, firmware, got>>

HostTake ==
  /\ Waits
  /\ tx # None
  /\ tx' = None
  /\ events' = Append(events, "in")
  /\ IF tx.seq = host.n % SeqMod
     THEN /\ host' = [host EXCEPT !.doing = "idle"]
          /\ got' = [for |-> host.n, of |-> tx.of, whole |-> tx.whole]
     ELSE UNCHANGED <<host, got>>
  /\ UNCHANGED <<armed, busy, failed, rx, firmware>>

-----------------------------------------------------------------------------
(***************************************************************************)
(* The USB controller.  A packet fills rx_buffer, so a longer command      *)
(* arrives as two messages, and nothing puts them together.                *)
(***************************************************************************)
Packets ==
  IF host.doing = "sending"
  THEN {[type |-> host.type, seq |-> host.n % SeqMod, of |-> host.n, whole |-> ~host.rest]}
  ELSE [type : Types, seq : Seqs, of : {host.n}, whole : {FALSE}]

Receive ==
  /\ host.doing \in {"sending", "sending rest"}
  /\ armed
  /\ armed' = FALSE
  /\ rx' \in Packets
  /\ events' = Append(events, "out")
  /\ host' = [host EXCEPT !.rest = FALSE, !.doing = IF host.rest THEN "sending rest" ELSE "waiting"]
  /\ UNCHANGED <<busy, tx, failed, firmware, got>>

\* A packet that does not get through ends the transfer; rx_buffer is as it was.
ReceiveFails ==
  /\ host.doing \in {"sending", "sending rest"}
  /\ armed
  /\ armed' = FALSE
  /\ events' = Append(events, "failed")
  /\ failed' = TRUE
  /\ UNCHANGED <<host, rx, busy, tx, firmware, got>>

-----------------------------------------------------------------------------
(***************************************************************************)
(* tud_task and ccid_user_xfer_cb.                                         *)
(***************************************************************************)
Takes(ep) == pc = "task" /\ events # <<>> /\ Head(events) = ep /\ events' = Tail(events)

\* secure_gateway_oath_handle_apdu runs the applets to their end.
CallApplets == runs' = [runs EXCEPT ![rx.of] = @ + 1]

\* Mutations: the buffer is given back before it is worked on; a message
\* without a case leaves the callback early.
HandleRearmed ==
  /\ Takes("out")
  /\ armed' = TRUE
  /\ IF rx.type \in Supported
     THEN pc' = "answer" /\ body' = [of |-> rx.of, whole |-> rx.whole]
     ELSE pc' = "rearm" /\ UNCHANGED body
  /\ IF rx.type = "XFRBLOCK" THEN CallApplets ELSE UNCHANGED runs
  /\ UNCHANGED <<host, rx, busy, tx, failed, got>>

HandleOrLeave ==
  /\ Takes("out")
  /\ IF rx.type \in Supported
     THEN pc' = "answer" /\ body' = [of |-> rx.of, whole |-> rx.whole]
     ELSE UNCHANGED <<pc, body>>
  /\ IF rx.type = "XFRBLOCK" THEN CallApplets ELSE UNCHANGED runs
  /\ UNCHANGED <<host, rx, armed, busy, tx, failed, got>>

\* ccid_handle_request up to the answer.
Handle ==
  /\ Takes("out")
  /\ IF rx.type \in Supported
     THEN pc' = "answer" /\ body' = [of |-> rx.of, whole |-> rx.whole]
     ELSE pc' = "rearm" /\ UNCHANGED body
  /\ IF rx.type = "XFRBLOCK" THEN CallApplets ELSE UNCHANGED runs
  /\ UNCHANGED <<host, rx, armed, busy, tx, failed, got>>

\* Mutation: bSeq is not filled in.
AnswerUnnumbered ==
  /\ pc = "answer"
  /\ IF busy THEN UNCHANGED <<busy, tx>>
     ELSE busy' = TRUE /\ tx' = [seq |-> None, of |-> body.of, whole |-> body.whole]
  /\ pc' = "rearm"
  /\ UNCHANGED <<host, rx, armed, events, failed, body, runs, got>>

\* The header of the answer comes from rx_buffer; usbd_edpt_xfer refuses when
\* the endpoint is busy, and nobody looks at its result.
Answer ==
  /\ pc = "answer"
  /\ IF busy THEN UNCHANGED <<busy, tx>>
     ELSE busy' = TRUE /\ tx' = [seq |-> rx.seq, of |-> body.of, whole |-> body.whole]
  /\ pc' = "rearm"
  /\ UNCHANGED <<host, rx, armed, events, failed, body, runs, got>>

Rearm ==
  /\ pc = "rearm"
  /\ armed' = TRUE
  /\ pc' = "task"
  /\ UNCHANGED <<host, rx, events, busy, tx, failed, body, runs, got>>

\* Mutation: the callback does not ask for which endpoint it was called.
FreedAndHandled ==
  /\ Takes("in")
  /\ busy' = FALSE
  /\ pc' = "answer" /\ body' = [of |-> rx.of, whole |-> rx.whole]
  /\ IF rx.type = "XFRBLOCK" THEN CallApplets ELSE UNCHANGED runs
  /\ UNCHANGED <<host, rx, armed, tx, failed, got>>

\* The host has the answer: TinyUSB frees the endpoint, the callback has
\* nothing to do.
Freed ==
  /\ Takes("in")
  /\ busy' = FALSE
  /\ UNCHANGED <<host, rx, armed, tx, failed, firmware, got>>

\* The callback returns before it arms the OUT endpoint again.
Failed ==
  /\ Takes("failed")
  /\ UNCHANGED <<host, rx, armed, busy, tx, failed, firmware, got>>

-----------------------------------------------------------------------------
Device == Handle \/ Answer \/ Rearm \/ Freed \/ Failed
Bus == Receive \/ HostTake

Next == Device \/ Bus \/ ReceiveFails \/ HostSend \/ HostGiveUp

\* tud_task is called for ever, and the bus moves what can be moved.
Spec == Init /\ [][Next]_vars /\ WF_vars(Device) /\ WF_vars(Bus)

-----------------------------------------------------------------------------
(***************************************************************************)
(* Properties.                                                             *)
(***************************************************************************)

\* Every variable has its type.
CcidTypeOK ==
  /\ host \in [n : 0..MaxRequests, type : Types, rest : BOOLEAN,
               doing : {"idle", "sending", "sending rest", "waiting"}]
  /\ armed \in BOOLEAN /\ busy \in BOOLEAN /\ failed \in BOOLEAN
  /\ rx \in Message \cup {None}
  /\ events \in Seq({"in", "out", "failed"})
  /\ pc \in {"task", "answer", "rearm"}
  /\ body \in Body \cup {None}
  /\ tx \in Response \cup {None}
  /\ runs \in [Requests -> Nat]
  /\ got \in Taking \cup {None}

\* What the host takes for the answer to a command is the answer to that
\* command, however late the answers of the commands it gave up arrive.
AnswerBelongs == got # None => got.of = got.for

\* The applets run a command at most once: no completion is taken for a new
\* command, so no HOTP counter moves twice.
RunsOnce == \A n \in Requests : runs[n] <= 1

\* A message that waits for tud_task; an answer still due or not taken.
HasOut(q) == \E i \in 1..Len(q) : q[i] = "out"
Waiting == HasOut(events)
Owes == pc # "task" \/ tx # None \/ Waiting

\* A command that has a case of its own and meets a reader that owes nothing
\* is answered, unless the host gives it up or a transfer fails; it may follow
\* answers that were lost and commands that were not answered.
AnsweredWhenFree ==
  \A n \in Requests :
    host.n = n /\ host.doing = "sending" /\ host.type \in Supported /\ ~Owes
      ~> host.n # n \/ host.doing = "idle" \/ failed

\* The inductive invariants behind these.  The reader holds one message at a
\* time: the endpoint is armed, or the message waits, or it is worked on.
OneOut(q) == \A i, j \in 1..Len(q) : q[i] = "out" /\ q[j] = "out" => i = j
ReaderInv ==
  /\ CcidTypeOK
  /\ host.doing # "idle" => host.n \in Requests
  /\ armed => ~Waiting /\ pc = "task"
  /\ Waiting => pc = "task" /\ rx \in Message
  /\ pc = "answer" => rx \in Message /\ body \in Body
  /\ OneOut(events)

\* With commands of one packet that message is the host's last command, or
\* the one before while the last is not through, and so is the late answer.
Newest == IF host.doing = "sending" THEN host.n - 1 ELSE host.n
OrderInv ==
  /\ ReaderInv
  /\ ~host.rest /\ host.doing # "sending rest"
  /\ Waiting \/ pc = "answer" => rx.of = Newest /\ rx.seq = rx.of % SeqMod
  /\ pc = "answer" => body.of = rx.of
  /\ tx # None => /\ tx.seq = tx.of % SeqMod
                  /\ tx.of = Newest \/ (host.doing = "waiting" /\ tx.of = host.n - 1)
  /\ AnswerBelongs
  /\ RunsOnce
  /\ Waiting => runs[rx.of] = 0
  /\ \A n \in Requests : n > Newest => runs[n] = 0

=============================================================================
