-------------------------- MODULE CcidTransportProofs --------------------------
(***************************************************************************)
(* Theorems about CcidTransport: the types, for every bound and for        *)
(* messages of any length; and for commands of one packet, that the host   *)
(* takes no answer for that of another command and that no command runs    *)
(* twice.                                                                  *)
(***************************************************************************)
EXTENDS CcidTransport, Integers, TLAPS

-----------------------------------------------------------------------------
(* Sequence numbers. *)

LEMMA NumberType == \A n \in Nat : n % SeqMod \in Seqs
BY CcidAssumption DEF Seqs

LEMMA ProductNotOne == ASSUME NEW M \in Int, M >= 2, NEW k \in Int
                       PROVE  M * k # 1
<1>1. CASE k <= 0
  BY <1>1
<1>2. CASE k >= 1
  BY <1>2
<1>3. QED
  BY <1>1, <1>2

\* A command and the one before it never have one number.
LEMMA NumbersDiffer == ASSUME NEW M \in Int, M >= 2, NEW n \in Int
                       PROVE  (n - 1) % M # n % M
<1> SUFFICES ASSUME (n - 1) % M = n % M
             PROVE  FALSE
  OBVIOUS
<1> DEFINE q == n \div M
           p == (n - 1) \div M
<1>1. n = M * q + (n % M) /\ q \in Int
  OBVIOUS
<1>2. n - 1 = M * p + ((n - 1) % M) /\ p \in Int
  OBVIOUS
<1>3. n % M \in Int
  OBVIOUS
<1> HIDE DEF q, p
<1>4. M * q - M * p = 1
  BY <1>1, <1>2, <1>3
<1>5. M * (q - p) = 1
  BY <1>1, <1>2, <1>4
<1>6. q - p \in Int
  BY <1>1, <1>2
<1>7. M * (q - p) # 1
  BY <1>6, ProductNotOne
<1>8. QED
  BY <1>5, <1>7

-----------------------------------------------------------------------------
(* The queue of completions. *)

Events == {"in", "out", "failed"}

LEMMA QueueTakesOut ==
  ASSUME NEW q \in Seq(Events), q # <<>>, OneOut(q), Head(q) = "out"
  PROVE  /\ Tail(q) \in Seq(Events)
         /\ HasOut(q) /\ ~HasOut(Tail(q)) /\ OneOut(Tail(q))
BY DEF HasOut, OneOut, Events

LEMMA QueueTakesOther ==
  ASSUME NEW q \in Seq(Events), q # <<>>, OneOut(q)
  PROVE  /\ Tail(q) \in Seq(Events)
         /\ HasOut(Tail(q)) => HasOut(q)
         /\ OneOut(Tail(q))
<1>1. /\ Tail(q) \in Seq(Events)
      /\ Len(Tail(q)) = Len(q) - 1 /\ Len(q) \in Nat \ {0}
      /\ \A i \in 1..Len(q) - 1 : Tail(q)[i] = q[i + 1]
  OBVIOUS
<1>2. QED
  BY <1>1 DEF HasOut, OneOut

LEMMA QueueGetsOther ==
  ASSUME NEW q \in Seq(Events), OneOut(q), NEW e \in Events, e # "out"
  PROVE  /\ Append(q, e) \in Seq(Events)
         /\ HasOut(Append(q, e)) => HasOut(q)
         /\ OneOut(Append(q, e))
BY DEF Events, HasOut, OneOut

LEMMA QueueGetsOut ==
  ASSUME NEW q \in Seq(Events), ~HasOut(q)
  PROVE  /\ Append(q, "out") \in Seq(Events)
         /\ HasOut(Append(q, "out"))
         /\ OneOut(Append(q, "out"))
BY DEF HasOut, OneOut, Events

-----------------------------------------------------------------------------
(* The reader holds one message at a time. *)

LEMMA ReaderInit == Init => ReaderInv
<1> SUFFICES ASSUME Init
             PROVE  ReaderInv
  OBVIOUS
<1> USE DEF Init
<1>1. host \in [n : 0..MaxRequests, type : Types, rest : BOOLEAN,
                doing : {"idle", "sending", "sending rest", "waiting"}]
  BY CcidAssumption DEF Types, Supported, Constant
<1>2. runs \in [Requests -> Nat]
  BY DEF Requests
<1>3. CcidTypeOK
  <2>1. events \in Seq({"in", "out", "failed"})
    OBVIOUS
  <2>2. QED
    BY <1>1, <1>2, <2>1 DEF CcidTypeOK
<1>4. QED
  BY <1>3 DEF ReaderInv, Waiting, HasOut, OneOut

LEMMA ReaderNext == ReaderInv /\ [Next]_vars => ReaderInv'
<1> SUFFICES ASSUME ReaderInv, [Next]_vars
             PROVE  ReaderInv'
  OBVIOUS
<1>a. CcidTypeOK /\ OneOut(events)
  BY DEF ReaderInv
<1>b. /\ events \in Seq(Events)
      /\ runs \in [Requests -> Nat]
      /\ host.n \in Nat
      /\ host.type \in Types
  <2>1. host.n \in 0..MaxRequests
    BY <1>a DEF CcidTypeOK
  <2>2. host.n \in Nat
    BY <2>1, CcidAssumption
  <2>3. QED
    BY <1>a, <2>2 DEF CcidTypeOK, Events
<1>c. /\ Waiting => pc = "task" /\ ~armed /\ rx \in Message
      /\ pc = "answer" => rx \in Message /\ body \in Body
      /\ host.doing # "idle" => host.n \in Requests
  BY DEF ReaderInv
<1>1. CASE Handle
  <2>1. HasOut(events) /\ ~HasOut(Tail(events)) /\ OneOut(Tail(events))
        /\ Tail(events) \in Seq(Events)
    BY <1>1, <1>a, <1>b, QueueTakesOut DEF Handle, Takes
  <2>2. rx \in Message /\ ~armed
    BY <2>1, <1>c DEF Waiting
  <2>3. rx.of \in Requests /\ rx.whole \in BOOLEAN
    BY <2>2 DEF Message
  <2>4. runs' \in [Requests -> Nat]
    <3>1. CASE runs' = [runs EXCEPT ![rx.of] = @ + 1]
      BY <3>1, <2>3, <1>b
    <3>2. CASE runs' = runs
      BY <3>2, <1>b
    <3>3. QED
      BY <1>1, <3>1, <3>2 DEF Handle, CallApplets
  <2>5. [of |-> rx.of, whole |-> rx.whole] \in Body
    BY <2>3 DEF Body
  <2>6. \/ pc' = "answer" /\ body' \in Body
        \/ pc' = "rearm" /\ body' = body
    BY <1>1, <2>5 DEF Handle
  <2>7. /\ UNCHANGED <<host, rx, armed, busy, tx, failed, got>>
        /\ events' = Tail(events)
    BY <1>1 DEF Handle, Takes
  <2>8. CcidTypeOK'
    BY <1>a, <2>1, <2>4, <2>6, <2>7 DEF CcidTypeOK, Events
  <2>9. QED
    BY <1>c, <2>1, <2>2, <2>6, <2>7, <2>8 DEF ReaderInv, Waiting
<1>2. CASE Answer
  <2>1. rx.seq \in Seqs /\ body.of \in Requests /\ body.whole \in BOOLEAN
    BY <1>2, <1>c DEF Answer, Message, Body
  <2>2. [seq |-> rx.seq, of |-> body.of, whole |-> body.whole] \in Response
    BY <2>1 DEF Response
  <2>3. \/ busy' = busy /\ tx' = tx
        \/ busy' = TRUE /\ tx' \in Response
    BY <1>2, <2>2 DEF Answer
  <2>4. /\ UNCHANGED <<host, rx, armed, events, failed, body, runs, got>>
        /\ pc = "answer" /\ pc' = "rearm"
    BY <1>2 DEF Answer
  <2>5. CcidTypeOK'
    BY <1>a, <2>3, <2>4 DEF CcidTypeOK
  <2>6. QED
    BY <1>c, <2>4, <2>5 DEF ReaderInv, Waiting
<1>3. CASE Rearm
  BY <1>3, <1>a, <1>c DEF Rearm, ReaderInv, Waiting, CcidTypeOK
<1>4. CASE Freed
  <2>1. /\ Tail(events) \in Seq(Events)
        /\ HasOut(Tail(events)) => HasOut(events)
        /\ OneOut(Tail(events))
    BY <1>4, <1>a, <1>b, QueueTakesOther DEF Freed, Takes
  <2>2. /\ UNCHANGED <<host, rx, armed, tx, failed, pc, body, runs, got>>
        /\ busy' = FALSE /\ events' = Tail(events)
    BY <1>4 DEF Freed, Takes, firmware
  <2>3. QED
    BY <2>1, <2>2, <1>a, <1>c DEF ReaderInv, CcidTypeOK, Waiting, Events
<1>5. CASE Receive
  <2>1. /\ Append(events, "out") \in Seq(Events)
        /\ HasOut(Append(events, "out"))
        /\ OneOut(Append(events, "out"))
    BY <1>5, <1>b, <1>c, QueueGetsOut DEF Receive, Waiting
  <2>2. host.n \in Requests /\ host.n % SeqMod \in Seqs
    BY <1>5, <1>b, <1>c, NumberType DEF Receive
  <2>3. rx' \in Message
    <3>1. host.rest \in BOOLEAN
      BY <1>a DEF CcidTypeOK
    <3>2. [type |-> host.type, seq |-> host.n % SeqMod,
           of |-> host.n, whole |-> ~host.rest] \in Message
      BY <1>b, <2>2, <3>1 DEF Message
    <3>3. [type : Types, seq : Seqs, of : {host.n}, whole : {FALSE}] \subseteq Message
      BY <2>2 DEF Message
    <3>4. QED
      BY <1>5, <3>2, <3>3 DEF Receive, Packets
  <2>4. /\ host' \in [n : 0..MaxRequests, type : Types, rest : BOOLEAN,
                      doing : {"idle", "sending", "sending rest", "waiting"}]
        /\ host'.n = host.n
    BY <1>5, <1>a DEF Receive, CcidTypeOK
  <2>5. /\ armed' = FALSE /\ events' = Append(events, "out") /\ armed
        /\ UNCHANGED <<busy, tx, failed, pc, body, runs, got>>
    BY <1>5 DEF Receive, firmware
  <2>6. CcidTypeOK'
    BY <1>a, <2>1, <2>3, <2>4, <2>5 DEF CcidTypeOK, Events
  <2>7. armed => pc = "task"
    BY DEF ReaderInv
  <2>8. QED
    BY <2>1, <2>2, <2>3, <2>4, <2>5, <2>6, <2>7 DEF ReaderInv, Waiting
<1>6. CASE HostTake
  <2>1. /\ Append(events, "in") \in Seq(Events)
        /\ HasOut(Append(events, "in")) => HasOut(events)
        /\ OneOut(Append(events, "in"))
    BY <1>a, <1>b, QueueGetsOther DEF Events
  <2>2. host.n \in Requests /\ tx \in Response
    BY <1>6, <1>a, <1>c DEF HostTake, Waits, CcidTypeOK
  <2>3. [for |-> host.n, of |-> tx.of, whole |-> tx.whole] \in Taking
    BY <2>2 DEF Response, Taking
  <2>4. got' \in Taking \/ got' = got
    BY <1>6, <2>3 DEF HostTake
  <2>5. /\ host' \in [n : 0..MaxRequests, type : Types, rest : BOOLEAN,
                      doing : {"idle", "sending", "sending rest", "waiting"}]
        /\ host'.n = host.n
    BY <1>6, <1>a DEF HostTake, CcidTypeOK
  <2>6. /\ tx' = None /\ events' = Append(events, "in")
        /\ UNCHANGED <<armed, busy, failed, rx, pc, body, runs>>
    BY <1>6 DEF HostTake, firmware
  <2>7. CcidTypeOK'
    BY <1>a, <2>1, <2>4, <2>5, <2>6 DEF CcidTypeOK, Events
  <2>8. QED
    BY <1>c, <2>1, <2>2, <2>5, <2>6, <2>7 DEF ReaderInv, Waiting
<1>7. CASE HostSend
  <2>1. PICK type \in Types, rest \in BOOLEAN :
          host' = [n |-> host.n + 1, type |-> type, doing |-> "sending", rest |-> rest]
    BY <1>7 DEF HostSend
  <2>2. host.n + 1 \in Requests
    BY <1>7, <1>b, CcidAssumption DEF HostSend, Requests
  <2>3. host.n + 1 \in 0..MaxRequests
    BY <2>2 DEF Requests
  <2>4. host' \in [n : 0..MaxRequests, type : Types, rest : BOOLEAN,
                   doing : {"idle", "sending", "sending rest", "waiting"}]
        /\ host'.n \in Requests
    BY <2>1, <2>2, <2>3
  <2>5. UNCHANGED <<rx, armed, events, busy, tx, failed, pc, body, runs, got>>
    BY <1>7 DEF HostSend, usb, firmware
  <2>6. QED
    BY <1>a, <1>c, <2>4, <2>5 DEF ReaderInv, CcidTypeOK, Waiting
<1>8. CASE HostGiveUp
  <2>1. /\ host' \in [n : 0..MaxRequests, type : Types, rest : BOOLEAN,
                      doing : {"idle", "sending", "sending rest", "waiting"}]
        /\ host'.doing = "idle"
    BY <1>8, <1>a DEF HostGiveUp, CcidTypeOK
  <2>2. UNCHANGED <<rx, armed, events, busy, tx, failed, pc, body, runs, got>>
    BY <1>8 DEF HostGiveUp, usb, firmware
  <2>3. QED
    BY <1>a, <1>c, <2>1, <2>2 DEF ReaderInv, CcidTypeOK, Waiting
<1>9. CASE UNCHANGED vars
  BY <1>9, <1>a, <1>c DEF vars, usb, firmware, ReaderInv, CcidTypeOK, Waiting
<1>10. CASE Failed
  <2>1. /\ Tail(events) \in Seq(Events)
        /\ HasOut(Tail(events)) => HasOut(events)
        /\ OneOut(Tail(events))
    BY <1>10, <1>a, <1>b, QueueTakesOther DEF Failed, Takes
  <2>2. /\ UNCHANGED <<host, rx, armed, busy, tx, failed, pc, body, runs, got>>
        /\ events' = Tail(events)
    BY <1>10 DEF Failed, Takes, firmware
  <2>3. QED
    BY <2>1, <2>2, <1>a, <1>c DEF ReaderInv, CcidTypeOK, Waiting, Events
<1>11. CASE ReceiveFails
  <2>1. /\ Append(events, "failed") \in Seq(Events)
        /\ HasOut(Append(events, "failed")) => HasOut(events)
        /\ OneOut(Append(events, "failed"))
    BY <1>a, <1>b, QueueGetsOther DEF Events
  <2>2. /\ armed' = FALSE /\ failed' = TRUE /\ events' = Append(events, "failed")
        /\ UNCHANGED <<host, rx, busy, tx, pc, body, runs, got>>
    BY <1>11 DEF ReceiveFails, firmware
  <2>3. QED
    BY <2>1, <2>2, <1>a, <1>c DEF ReaderInv, CcidTypeOK, Waiting, Events
<1>12. QED
  BY <1>1, <1>2, <1>3, <1>4, <1>5, <1>6, <1>7, <1>8, <1>9, <1>10, <1>11 DEF Next, Device, Bus

\* Types: the reader's state stays well formed for any number of commands,
\* whatever the host's messages are cut into.
THEOREM CcidTypeCorrect == Spec => []CcidTypeOK
<1>1. ReaderInv => CcidTypeOK
  BY DEF ReaderInv
<1>2. QED
  BY ReaderInit, ReaderNext, <1>1, PTL DEF Spec

-----------------------------------------------------------------------------
(* Commands of one packet keep their order. *)

LEMMA OrderInit == Init => OrderInv
<1> SUFFICES ASSUME Init
             PROVE  OrderInv
  OBVIOUS
<1>1. ReaderInv
  BY ReaderInit
<1>2. ~Waiting
  BY DEF Init, Waiting, HasOut
<1>3. \A n \in Requests : runs[n] = 0
  BY DEF Init
<1>4. QED
  BY <1>1, <1>2, <1>3 DEF Init, OrderInv, AnswerBelongs, RunsOnce

LEMMA OrderNext ==
  ASSUME LongMessages = FALSE
  PROVE  OrderInv /\ [Next]_vars => OrderInv'
<1> SUFFICES ASSUME OrderInv, [Next]_vars
             PROVE  OrderInv'
  OBVIOUS
<1>r. ReaderInv /\ ReaderInv'
  BY ReaderNext DEF OrderInv
<1>a. /\ ~host.rest /\ host.doing # "sending rest"
      /\ Waiting \/ pc = "answer" => rx.of = Newest /\ rx.seq = rx.of % SeqMod
      /\ pc = "answer" => body.of = rx.of
      /\ tx # None => /\ tx.seq = tx.of % SeqMod
                      /\ tx.of = Newest \/ (host.doing = "waiting" /\ tx.of = host.n - 1)
      /\ AnswerBelongs /\ RunsOnce
      /\ Waiting => runs[rx.of] = 0
      /\ \A n \in Requests : n > Newest => runs[n] = 0
  BY DEF OrderInv
<1>b. /\ events \in Seq(Events) /\ OneOut(events)
      /\ runs \in [Requests -> Nat]
      /\ Waiting => rx \in Message
      /\ host.n \in 0..MaxRequests
      /\ host.doing # "idle" => host.n \in Requests
  BY <1>r DEF ReaderInv, CcidTypeOK, Events
<1>n. host.n \in Int /\ Newest \in Int
  BY <1>b, CcidAssumption DEF Newest
<1>o. /\ \A n \in Requests : n > Newest => runs[n] = 0
      /\ RunsOnce
      /\ Requests \subseteq Int
  <2>1. Requests \subseteq Int
    BY CcidAssumption DEF Requests
  <2>2. QED
    BY <1>a, <2>1
<1>1. CASE Handle
  <2>1. Waiting /\ ~Waiting'
    BY <1>1, <1>b, QueueTakesOut DEF Handle, Takes, Waiting
  <2>2. rx.of \in Requests /\ rx.of = Newest /\ runs[rx.of] = 0
    BY <2>1, <1>a, <1>b DEF Message
  <2>3. UNCHANGED <<host, rx, armed, busy, tx, got>> /\ Newest' = Newest
    BY <1>1 DEF Handle, Newest
  <2>4. \/ pc' = "answer" /\ body'.of = rx.of
        \/ pc' = "rearm"
    BY <1>1 DEF Handle
  <2>5. \A n \in Requests : runs'[n] = runs[n] \/ (n = rx.of /\ runs'[n] = 1)
    BY <1>1, <1>b, <2>2 DEF Handle, CallApplets
  <2>6. RunsOnce'
    BY <2>5, <1>o DEF RunsOnce
  <2>7. \A n \in Requests : n > Newest => runs'[n] = 0
    BY <2>2, <2>5, <1>o, <1>n
  <2>8. AnswerBelongs'
    BY <2>3, <1>a DEF AnswerBelongs
  <2>9. QED
    BY <1>r, <1>a, <2>1, <2>3, <2>4, <2>6, <2>7, <2>8 DEF OrderInv
<1>2. CASE Answer
  <2>1. /\ UNCHANGED <<host, rx, armed, events, body, runs, got>>
        /\ pc = "answer" /\ pc' = "rearm" /\ Newest' = Newest /\ Waiting' = Waiting
    BY <1>2 DEF Answer, Newest, Waiting
  <2>2. tx' = tx \/ (tx'.seq = rx.seq /\ tx'.of = body.of)
    BY <1>2 DEF Answer
  <2>3. AnswerBelongs' /\ RunsOnce'
    BY <2>1, <1>a DEF AnswerBelongs, RunsOnce
  <2>4. QED
    BY <1>r, <1>a, <2>1, <2>2, <2>3 DEF OrderInv
<1>3. CASE Rearm
  <2>1. /\ UNCHANGED <<host, rx, events, busy, tx, body, runs, got>>
        /\ pc' = "task" /\ Newest' = Newest /\ Waiting' = Waiting
    BY <1>3 DEF Rearm, Newest, Waiting
  <2>2. AnswerBelongs' /\ RunsOnce'
    BY <2>1, <1>a DEF AnswerBelongs, RunsOnce
  <2>3. QED
    BY <1>r, <1>a, <2>1, <2>2 DEF OrderInv
<1>4. CASE Freed
  <2>1. Waiting' => Waiting
    BY <1>4, <1>b, QueueTakesOther DEF Freed, Takes, Waiting
  <2>2. UNCHANGED <<host, rx, armed, tx, pc, body, runs, got>> /\ Newest' = Newest
    BY <1>4 DEF Freed, firmware, Newest
  <2>3. AnswerBelongs' /\ RunsOnce'
    BY <2>2, <1>a DEF AnswerBelongs, RunsOnce
  <2>4. QED
    BY <1>r, <1>a, <2>1, <2>2, <2>3 DEF OrderInv
<1>5. CASE Receive
  <2>1. host.doing = "sending" /\ host.n \in Requests /\ pc = "task"
    BY <1>5, <1>a, <1>b, <1>r DEF Receive, ReaderInv
  <2>2. host'.n = host.n /\ host'.rest = FALSE /\ host'.doing = "waiting"
    BY <1>5, <1>a, <1>r DEF Receive, ReaderInv, CcidTypeOK
  <2>3. Newest = host.n - 1 /\ Newest' = host.n
    BY <2>1, <2>2 DEF Newest
  <2>4. rx'.of = host.n /\ rx'.seq = host.n % SeqMod
    BY <1>5, <2>1 DEF Receive, Packets
  <2>5. UNCHANGED <<busy, tx, pc, body, runs, got>>
    BY <1>5 DEF Receive, firmware
  <2>6. runs[host.n] = 0
    BY <2>1, <2>3, <1>a, <1>n
  <2>7. \A n \in Requests : n > Newest' => runs'[n] = 0
    BY <2>3, <2>5, <1>o, <1>n
  <2>8. AnswerBelongs' /\ RunsOnce'
    BY <2>5, <1>a DEF AnswerBelongs, RunsOnce
  <2>9. tx' # None => /\ tx'.seq = tx'.of % SeqMod
                      /\ tx'.of = host'.n - 1
    BY <2>1, <2>2, <2>3, <2>5, <1>a
  <2>10. QED
    BY <1>r, <2>1, <2>2, <2>3, <2>4, <2>5, <2>6, <2>7, <2>8, <2>9 DEF OrderInv
<1>6. CASE HostTake
  <2>1. /\ host.doing = "waiting" /\ tx # None /\ tx' = None
        /\ events' = Append(events, "in")
        /\ UNCHANGED <<rx, pc, body, runs>>
    BY <1>6 DEF HostTake, Waits, firmware
  <2>2. Waiting' => Waiting
    BY <2>1, <1>b, QueueGetsOther DEF Waiting, Events
  <2>3. /\ host'.n = host.n /\ host'.rest = host.rest
        /\ host'.doing \in {"idle", "waiting"}
    BY <1>6, <2>1, <1>r DEF HostTake, ReaderInv, CcidTypeOK
  <2>4. Newest' = Newest /\ Newest = host.n
    BY <2>1, <2>3 DEF Newest
  <2>5. AnswerBelongs'
    <3>1. CASE tx.seq = host.n % SeqMod
      <4>1. (host.n - 1) % SeqMod # host.n % SeqMod
        BY <1>n, CcidAssumption, NumbersDiffer
      <4>2. tx.of = host.n
        BY <2>1, <2>4, <3>1, <4>1, <1>a
      <4>3. got'.for = host.n /\ got'.of = tx.of
        BY <1>6, <3>1 DEF HostTake
      <4>4. QED
        BY <4>2, <4>3 DEF AnswerBelongs
    <3>2. CASE tx.seq # host.n % SeqMod
      BY <1>6, <3>2, <1>a DEF HostTake, AnswerBelongs
    <3>3. QED
      BY <3>1, <3>2
  <2>6. RunsOnce'
    BY <2>1, <1>a DEF RunsOnce
  <2>7. QED
    BY <1>r, <1>a, <2>1, <2>2, <2>3, <2>4, <2>5, <2>6 DEF OrderInv
<1>7. CASE HostSend
  <2>1. PICK type \in Types, rest \in BOOLEAN :
          /\ rest => LongMessages
          /\ host' = [n |-> host.n + 1, type |-> type, doing |-> "sending", rest |-> rest]
    BY <1>7 DEF HostSend
  <2>2. ~host'.rest /\ host'.doing = "sending" /\ host'.n = host.n + 1 /\ host.doing = "idle"
    BY <2>1, <1>7 DEF HostSend
  <2>3. Newest' = Newest
    BY <2>2, <1>n DEF Newest
  <2>4. /\ UNCHANGED <<rx, armed, events, busy, tx, pc, body, runs, got>>
        /\ Waiting' = Waiting
    BY <1>7 DEF HostSend, usb, firmware, Waiting
  <2>5. AnswerBelongs' /\ RunsOnce'
    BY <2>4, <1>a DEF AnswerBelongs, RunsOnce
  <2>6. QED
    BY <1>r, <1>a, <2>2, <2>3, <2>4, <2>5 DEF OrderInv
<1>8. CASE HostGiveUp
  <2>1. /\ host'.doing = "idle" /\ host'.n = host.n /\ host'.rest = host.rest
        /\ host.doing = "waiting" /\ tx = None
    BY <1>8, <1>r DEF HostGiveUp, Waits, ReaderInv, CcidTypeOK
  <2>2. /\ UNCHANGED <<rx, armed, events, busy, tx, pc, body, runs, got>>
        /\ Waiting' = Waiting
    BY <1>8 DEF HostGiveUp, usb, firmware, Waiting
  <2>3. Newest' = Newest
    BY <2>1 DEF Newest
  <2>4. AnswerBelongs' /\ RunsOnce'
    BY <2>2, <1>a DEF AnswerBelongs, RunsOnce
  <2>5. QED
    BY <1>r, <1>a, <2>1, <2>2, <2>3, <2>4 DEF OrderInv
<1>9. CASE UNCHANGED vars
  <2>1. /\ UNCHANGED <<host, rx, tx, pc, body, runs, got>>
        /\ Waiting' = Waiting /\ Newest' = Newest
    BY <1>9 DEF vars, usb, firmware, Waiting, Newest
  <2>2. AnswerBelongs' /\ RunsOnce'
    BY <2>1, <1>a DEF AnswerBelongs, RunsOnce
  <2>3. QED
    BY <1>r, <1>a, <2>1, <2>2 DEF OrderInv
<1>10. CASE Failed
  <2>1. Waiting' => Waiting
    BY <1>10, <1>b, QueueTakesOther DEF Failed, Takes, Waiting
  <2>2. UNCHANGED <<host, rx, armed, tx, pc, body, runs, got>> /\ Newest' = Newest
    BY <1>10 DEF Failed, firmware, Newest
  <2>3. AnswerBelongs' /\ RunsOnce'
    BY <2>2, <1>a DEF AnswerBelongs, RunsOnce
  <2>4. QED
    BY <1>r, <1>a, <2>1, <2>2, <2>3 DEF OrderInv
<1>11. CASE ReceiveFails
  <2>1. /\ UNCHANGED <<host, rx, tx, pc, body, runs, got>> /\ Newest' = Newest
        /\ events' = Append(events, "failed")
    BY <1>11 DEF ReceiveFails, firmware, Newest
  <2>2. Waiting' => Waiting
    BY <2>1, <1>b, QueueGetsOther DEF Waiting, Events
  <2>3. AnswerBelongs' /\ RunsOnce'
    BY <2>1, <1>a DEF AnswerBelongs, RunsOnce
  <2>4. QED
    BY <1>r, <1>a, <2>1, <2>2, <2>3 DEF OrderInv
<1>12. QED
  BY <1>1, <1>2, <1>3, <1>4, <1>5, <1>6, <1>7, <1>8, <1>9, <1>10, <1>11 DEF Next, Device, Bus

\* With commands of one packet the host never takes the answer to one command
\* for the answer to another, for any number of commands and for any width of
\* the sequence number from two values on.
THEOREM AnswersBelong ==
  ASSUME LongMessages = FALSE
  PROVE  Spec => []AnswerBelongs
<1>1. OrderInv => AnswerBelongs
  BY DEF OrderInv
<1>2. OrderInv /\ [Next]_vars => OrderInv'
  BY OrderNext
<1>3. QED
  BY OrderInit, <1>1, <1>2, PTL DEF Spec

\* With commands of one packet the applets run each command at most once.
THEOREM CommandsRunOnce ==
  ASSUME LongMessages = FALSE
  PROVE  Spec => []RunsOnce
<1>1. OrderInv => RunsOnce
  BY DEF OrderInv
<1>2. OrderInv /\ [Next]_vars => OrderInv'
  BY OrderNext
<1>3. QED
  BY OrderInit, <1>1, <1>2, PTL DEF Spec

==============================================================================
