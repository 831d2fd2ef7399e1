---------------------------- MODULE WebUsbProofs ----------------------------
(***************************************************************************)
(* Proofs about the WebUSB device and its key table: types, and that a key *)
(* id is given out once and never means an earlier pair; and about the     *)
(* arithmetic of those key pairs, EccField: that its sums, reductions and  *)
(* inverses are right for words of every size.                              *)
(***************************************************************************)
EXTENDS WebUsb, EccPoints, Integers, SequenceTheorems, WellFoundedInduction, TLAPS

\* What the commands answer, and where a key pair is found.
LEMMA AnswersInclude ==
  /\ Ok \in Answers /\ Error \in Answers
  /\ \A s \in {"ok", "error", "invalid", "backup cut"} : [status |-> s] \in Answers
  /\ \A h \in {"ok", "error", "invalid slot"} : [status |-> "slot status", hsm |-> h] \in Answers
  /\ \A id \in StorageSlots, key \in KeyPairs : [status |-> "key", id |-> id, key |-> key] \in Answers
  /\ \A k \in {"pubkey", "signed"}, key \in KeyPairs : [status |-> k, key |-> key] \in Answers
BY DEF Answers, Ok, Error

LEMMA Numbers == /\ HSM_MAX_SLOTS \in Nat /\ StorageSize \in Nat /\ MaxKeys \in Nat
                 /\ RestorePieces \in Nat /\ RestorePieces > 0
                 /\ HSM_MAX_SLOTS <= StorageSize /\ 0 \in KeyPairs
                 /\ Slots \subseteq StorageSlots
                 /\ \A key \in KeyPairs : key \in Nat
                 /\ \A slot \in Slots : slot \in Nat /\ slot + 1 <= HSM_MAX_SLOTS
BY WebUsbAssumption DEF KeyPairs, Slots, StorageSlots

LEMMA NoKeysType == NoKeys \in [StorageSlots -> KeyPairs] /\ \A id \in StorageSlots : NoKeys[id] = 0
BY Numbers DEF NoKeys

\* The host's messages are sequences of transfers, no longer than a restore.
LEMMA MessagesAreTransfers ==
  ASSUME NEW message \in Messages
  PROVE  message \in Seq(Transfers) /\ Len(message) <= RestorePieces
<1>1. Part \subseteq Transfers /\ Whole \subseteq Transfers
  BY DEF Part, Whole
<1>2. \A t \in Transfers : <<t>> \in Seq(Transfers) /\ Len(<<t>>) = 1
  OBVIOUS
<1>3. CASE \E t \in Part \cup Whole : message = <<t>>
  BY <1>1, <1>2, <1>3, Numbers
<1>4. ASSUME NEW rest \in [1..(RestorePieces - 1) -> Part],
             message = <<[cmd |-> "restore", image |-> None]>> \o rest
      PROVE  message \in Seq(Transfers) /\ Len(message) <= RestorePieces
  <2> DEFINE first == <<[cmd |-> "restore", image |-> None]>>
  <2>1. [cmd |-> "restore", image |-> None] \in Transfers
    BY DEF Transfers, Restore
  <2>2. first \in Seq(Transfers) /\ Len(first) = 1
    BY <1>2, <2>1
  <2>3. RestorePieces - 1 \in Nat /\ 1 + (RestorePieces - 1) = RestorePieces
    BY Numbers
  <2>4. rest \in Seq(Transfers) /\ Len(rest) = RestorePieces - 1
    BY <1>1, <2>3
  <2> HIDE DEF first
  <2>5. first \o rest \in Seq(Transfers) /\ Len(first \o rest) = Len(first) + Len(rest)
    BY <2>2, <2>4, ConcatProperties
  <2>6. message \in Seq(Transfers) /\ Len(message) = RestorePieces
    BY <1>4, <2>2, <2>3, <2>4, <2>5 DEF first
  <2> QED BY <2>6, Numbers
<1>5. \/ \E t \in Part \cup Whole : message = <<t>>
      \/ \E rest \in [1..(RestorePieces - 1) -> Part] :
           message = <<[cmd |-> "restore", image |-> None]>> \o rest
  BY DEF Messages
<1> QED BY <1>3, <1>4, <1>5

LEMMA WebUsbInit == Init => WebUsbInv
<1> SUFFICES ASSUME Init PROVE WebUsbInv
  OBVIOUS
<1>1. /\ <<>> \in Seq(Transfers) /\ Len(<<>>) = 0
      /\ [i \in Slots |-> 0] \in [Slots -> KeyPairs]
  BY Numbers
<1>2. WebUsbTypeOK
  BY <1>1, NoKeysType, Numbers DEF Init, WebUsbTypeOK
<1>3. Numbered
  BY DEF Init, Numbered
<1>4. KeyIdsTrue
  BY NoKeysType, Numbers DEF Init, KeyIdsTrue
<1> QED BY <1>2, <1>3, <1>4 DEF WebUsbInv

----------------------------------------------------------------------------
(* The invariant in two halves: the keys, and what is around them.         *)

KeysOK == /\ hsmStarted \in BOOLEAN
          /\ hsm_slots \in [Slots -> KeyPairs] /\ generated \in KeyPairs
          /\ key_storage \in [StorageSlots -> KeyPairs] /\ key_count \in 0..StorageSize
          /\ handed \in [StorageSlots -> KeyPairs]
          /\ Numbered /\ KeyIdsTrue

AroundOK == /\ webusb_state \in [connected : BOOLEAN, configured : BOOLEAN, armed : BOOLEAN]
            /\ incoming \in Seq(Transfers) /\ Len(incoming) <= RestorePieces
            /\ ram_cache \in Images
            /\ answer \in Answers \cup {None}

LEMMA Halves == WebUsbInv <=> KeysOK /\ AroundOK
BY DEF WebUsbInv, WebUsbTypeOK, KeysOK, AroundOK

LEMMA KeysAlone == KeysOK /\ UNCHANGED <<crypto, hsm>> => KeysOK'
BY DEF KeysOK, crypto, hsm, Numbered, KeyIdsTrue

\* An id that was handed out is below the count, and so a slot.
LEMMA IdsAreSlots ==
  ASSUME KeysOK, NEW id \in StorageSlots, handed[id] # 0
  PROVE  id \in Slots
<1>1. id \in Nat /\ key_count \in Nat /\ id < key_count /\ key_count <= HSM_MAX_SLOTS
  BY Numbers DEF KeysOK, KeyIdsTrue, StorageSlots
<1> QED BY <1>1, Numbers DEF Slots

\* A new key pair has the highest number so far: the slot it goes to holds a
\* later one than before, the others what they held.
LEMMA Generated ==
  ASSUME KeysOK, NEW slot, Generate(slot)
  PROVE  /\ slot \in Slots /\ hsmStarted' = hsmStarted
         /\ hsm_slots' \in [Slots -> KeyPairs] /\ generated' \in KeyPairs
         /\ hsm_slots'[slot] # 0 /\ Numbered'
         /\ \A s \in Slots : hsm_slots'[s] >= hsm_slots[s]
         /\ \A s \in Slots \ {slot} : hsm_slots'[s] = hsm_slots[s]
<1>1. /\ slot \in Slots /\ hsmStarted' = hsmStarted /\ generated < MaxKeys
      /\ generated' = generated + 1
      /\ hsm_slots' = [hsm_slots EXCEPT ![slot] = generated + 1]
  BY DEF Generate, Generates
<1>2. generated + 1 \in KeyPairs /\ generated + 1 # 0 /\ generated \in Nat
  BY <1>1, Numbers DEF KeysOK, KeyPairs
<1>3. \A s \in Slots : hsm_slots[s] \in Nat /\ hsm_slots[s] <= generated
  BY Numbers DEF KeysOK, Numbered
<1>4. /\ hsm_slots' \in [Slots -> KeyPairs] /\ hsm_slots'[slot] = generated + 1
      /\ \A s \in Slots \ {slot} : hsm_slots'[s] = hsm_slots[s]
  BY <1>1, <1>2 DEF KeysOK
<1>5. \A s \in Slots : hsm_slots'[s] >= hsm_slots[s] /\ hsm_slots'[s] <= generated'
  BY <1>1, <1>2, <1>3, <1>4
<1> QED BY <1>1, <1>2, <1>4, <1>5 DEF Numbered

\* A slot that is generated again leaves the ids true.
LEMMA KeysGenerated ==
  ASSUME KeysOK, NEW slot, Generate(slot), UNCHANGED crypto
  PROVE  KeysOK'
<1>1. \A s \in Slots : /\ hsm_slots'[s] >= hsm_slots[s]
                       /\ hsm_slots'[s] \in Nat /\ hsm_slots[s] \in Nat
  BY Generated, Numbers DEF KeysOK
<1>2. UNCHANGED <<key_storage, key_count, handed>>
  BY DEF crypto
<1>3. \A id \in StorageSlots : handed[id] \in Nat
  BY Numbers DEF KeysOK
<1>4. \A id \in StorageSlots :
        /\ handed'[id] # 0 => id < key_count' /\ hsm_slots'[id] >= handed'[id]
        /\ key_storage'[id] \in {0, handed'[id]}
  BY <1>1, <1>2, <1>3, IdsAreSlots DEF KeysOK, KeyIdsTrue
<1>5. KeyIdsTrue'
  BY <1>2, <1>4 DEF KeysOK, KeyIdsTrue
<1> QED BY <1>2, <1>5, Generated DEF KeysOK

\* Reading a slot answers with its key pair or with an error.
LEMMA ReadAnswers ==
  ASSUME KeysOK, NEW slot, NEW kind \in {"pubkey", "signed"}, HsmRead(slot, kind)
  PROVE  answer' \in Answers
<1>1. Key(slot) \in KeyPairs
  BY Numbers DEF Key, KeysOK
<1> QED BY <1>1, AnswersInclude DEF HsmRead

----------------------------------------------------------------------------
\* Every command is answered in kind, whatever its transfer says.
LEMMA CommandKeeps ==
  ASSUME WebUsbInv, NEW t \in Transfers, HandleCommand(t)
  PROVE  /\ KeysOK'
         /\ webusb_state' \in [connected : BOOLEAN, configured : BOOLEAN, armed : BOOLEAN]
         /\ ram_cache' \in Images
         /\ answer' \in Answers \cup {None}
<1> USE Halves
<1>a. KeysOK /\ AroundOK
  OBVIOUS
<1>s. ASSUME Keep PROVE KeysOK' /\ ram_cache' \in Images
  BY <1>s, KeysAlone DEF Keep, AroundOK
<1>1. CASE /\ \/ t.cmd = "info" /\ Say("ok")
              \/ t.cmd = "backup" /\ Say("backup cut")
              \/ t.cmd = "invalid" /\ Say("invalid")
              \/ t.cmd = "short" /\ UNCHANGED answer
           /\ Keep /\ UNCHANGED webusb_state
  BY <1>1, <1>s, AnswersInclude DEF Say, AroundOK
<1>2. CASE /\ \/ /\ t.cmd = "set_config"
                 /\ webusb_state' = [webusb_state EXCEPT !.connected = t.connect]
              \/ /\ t.cmd = "reset"
                 /\ webusb_state' = [webusb_state EXCEPT !.connected = FALSE]
           /\ Say("ok") /\ Keep
  <2>1. t.cmd = "set_config" => t.connect \in BOOLEAN
    BY DEF Transfers, Plain, Config, OnSlot, Restore
  <2> QED BY <1>2, <2>1, <1>s, AnswersInclude DEF Say, AroundOK
<1>3. CASE t.cmd = "gen_key" /\ HsmGenKey(t.slot) /\ UNCHANGED <<webusb_state, crypto, ram_cache>>
  <2>1. KeysOK'
    BY <1>3, KeysGenerated, KeysAlone DEF HsmGenKey
  <2>2. answer' \in Answers
    BY <1>3, AnswersInclude DEF HsmGenKey
  <2> QED BY <1>3, <2>1, <2>2 DEF AroundOK
<1>4. CASE /\ \/ t.cmd = "get_pubkey" /\ HsmRead(t.slot, "pubkey")
              \/ t.cmd = "sign" /\ HsmRead(t.slot, "signed")
           /\ Keep /\ UNCHANGED webusb_state
  BY <1>4, <1>s, ReadAnswers DEF AroundOK
<1>5. CASE /\ t.cmd = "restore"
           /\ IF t.image = None THEN Say("error") /\ UNCHANGED ram_cache
                                ELSE Say("ok") /\ ram_cache' = t.image
           /\ UNCHANGED <<webusb_state, crypto, hsm>>
  <2>1. t.image \in Images \cup {None}
    BY <1>5 DEF Transfers, Plain, Config, OnSlot, Restore
  <2>2. ram_cache' \in Images /\ answer' \in Answers
    BY <1>5, <2>1, AnswersInclude DEF Say, AroundOK
  <2> QED BY <1>5, <2>2, KeysAlone DEF AroundOK
<1> QED BY <1>1, <1>2, <1>3, <1>4, <1>5 DEF HandleCommand

\* The WebCrypto commands.  An id is handed out for the slot that was just read.
LEMMA CryptoKeeps ==
  ASSUME WebUsbInv, Crypto
  PROVE  KeysOK' /\ answer' \in Answers \cup {None} /\ UNCHANGED <<usb, ram_cache>>
<1> USE Halves
<1>a. KeysOK /\ AroundOK
  OBVIOUS
<1>1. CASE CryptoGenerate
  <2> DEFINE Granted == key_count \in Slots /\ hsm_slots'[key_count] # 0
             key == hsm_slots'[key_count]
  <2>1. CASE ~ Granted
    <3>1. /\ Generate(key_count) \/ UNCHANGED hsm
          /\ answer' = Error /\ UNCHANGED <<crypto, usb, ram_cache>>
      BY <1>1, <2>1 DEF CryptoGenerate
    <3> QED BY <3>1, KeysGenerated, KeysAlone, AnswersInclude
  <2>2. CASE Granted
    <3>1. /\ Generate(key_count) \/ UNCHANGED hsm
          /\ key_count' = key_count + 1
          /\ key_storage' = [key_storage EXCEPT ![key_count] = key]
          /\ handed' = [handed EXCEPT ![key_count] = key]
          /\ answer' = [status |-> "key", id |-> key_count, key |-> key]
          /\ UNCHANGED <<usb, ram_cache>>
      BY <1>1, <2>2 DEF CryptoGenerate, KeyId
    <3>2. /\ hsmStarted' \in BOOLEAN /\ hsm_slots' \in [Slots -> KeyPairs]
          /\ generated' \in KeyPairs /\ Numbered'
          /\ \A s \in Slots : s # key_count => hsm_slots'[s] = hsm_slots[s]
      BY <3>1, Generated DEF KeysOK, hsm, Numbered
    <3>3. /\ key_count \in StorageSlots /\ key \in KeyPairs /\ key \in Nat
          /\ key_count + 1 \in 0..StorageSize /\ key_count + 1 <= HSM_MAX_SLOTS
      BY <2>2, <3>2, Numbers DEF Slots
    <3> HIDE DEF key
    <3>4. /\ key_storage' \in [StorageSlots -> KeyPairs]
          /\ handed' \in [StorageSlots -> KeyPairs]
          /\ handed'[key_count] = key /\ key_storage'[key_count] = key
          /\ \A id \in StorageSlots \ {key_count} :
               handed'[id] = handed[id] /\ key_storage'[id] = key_storage[id]
      BY <3>1, <3>3 DEF KeysOK
    <3>5. ASSUME NEW id \in StorageSlots
          PROVE  /\ handed'[id] # 0 => id < key_count' /\ hsm_slots'[id] >= handed'[id]
                 /\ key_storage'[id] \in {0, handed'[id]}
      <4>0. key_count' = key_count + 1 /\ key_count \in Nat /\ id \in Nat
        BY <3>1, <3>3, Numbers DEF StorageSlots
      <4>1. CASE id = key_count
        BY <4>0, <4>1, <2>2, <3>3, <3>4 DEF key
      <4>2. CASE id # key_count
        <5>1. handed[id] # 0 => id \in Slots /\ id < key_count
          BY IdsAreSlots DEF KeysOK, KeyIdsTrue
        <5> QED BY <4>0, <4>2, <5>1, <3>2, <3>4 DEF KeysOK, KeyIdsTrue
      <4> QED BY <4>1, <4>2
    <3>6. KeyIdsTrue'
      BY <3>1, <3>3, <3>5 DEF KeyIdsTrue
    <3>7. answer' \in Answers
      BY <3>1, <3>3, AnswersInclude
    <3> QED BY <3>1, <3>2, <3>3, <3>4, <3>6, <3>7 DEF KeysOK
  <2> QED BY <2>1, <2>2
<1>2. CASE CryptoInit
  <2>1. /\ key_storage' = NoKeys /\ key_count' = 0 /\ handed' = NoKeys
        /\ UNCHANGED <<usb, hsm, ram_cache, answer>>
    BY <1>2 DEF CryptoInit
  <2>2. KeyIdsTrue'
    BY <2>1, NoKeysType, Numbers DEF KeyIdsTrue
  <2> QED BY <2>1, <2>2, NoKeysType, Numbers DEF KeysOK, hsm, Numbered, AroundOK
<1>3. ASSUME NEW id \in Bytes, CryptoSign(id) \/ CryptoEncrypt(id)
      PROVE  KeysOK' /\ answer' \in Answers \cup {None} /\ UNCHANGED <<usb, ram_cache>>
  BY <1>3, KeysAlone, ReadAnswers, AnswersInclude DEF CryptoSign, CryptoEncrypt
<1>4. ASSUME NEW id \in Bytes, CryptoDelete(id)
      PROVE  KeysOK' /\ answer' \in Answers \cup {None} /\ UNCHANGED <<usb, ram_cache>>
  <2>1. /\ id \in StorageSlots /\ key_storage' = [key_storage EXCEPT ![id] = 0]
        /\ UNCHANGED <<usb, key_count, handed, hsm, ram_cache, answer>>
    BY <1>4 DEF CryptoDelete
  <2>2. /\ key_storage' \in [StorageSlots -> KeyPairs]
        /\ \A s \in StorageSlots : key_storage'[s] \in {0, key_storage[s]}
    BY <2>1, Numbers DEF KeysOK
  <2>3. KeyIdsTrue'
    BY <2>1, <2>2 DEF KeysOK, KeyIdsTrue, hsm
  <2> QED BY <2>1, <2>2, <2>3 DEF KeysOK, AroundOK, hsm, Numbered
<1> QED BY <1>1, <1>2, <1>3, <1>4 DEF Crypto

LEMMA WebUsbNext == WebUsbInv /\ [Next]_vars => WebUsbInv'
<1> SUFFICES ASSUME WebUsbInv, [Next]_vars PROVE WebUsbInv'
  OBVIOUS
<1>a. KeysOK /\ AroundOK
  BY Halves
<1>h. KeysOK' /\ AroundOK' => WebUsbInv'
  BY Halves, PTL
<1>e. <<>> \in Seq(Transfers) /\ Len(<<>>) <= RestorePieces
  BY Numbers
<1>1. CASE Restart
  <2>0. /\ hsm_slots' = [i \in Slots |-> 0] /\ hsm_slots' \in [Slots -> KeyPairs]
        /\ UNCHANGED <<hsmStarted, generated>>
    BY <1>1, Numbers DEF Restart
  <2>1. KeyIdsTrue'
    BY <1>1, NoKeysType, Numbers DEF Restart, KeyIdsTrue
  <2>n. Numbered'
    BY <2>0, <1>a, Numbers DEF KeysOK, Numbered
  <2>2. KeysOK'
    BY <1>1, <1>a, <2>0, <2>1, <2>n, NoKeysType, Numbers DEF Restart, KeysOK
  <2>3. AroundOK'
    BY <1>1, <1>a, <1>e DEF Restart, AroundOK
  <2> QED BY <2>2, <2>3, <1>h
<1>2. CASE BusReset \/ Open \/ ControlRequest \/ TransferFails
  <2>1. KeysOK'
    BY <1>2, <1>a, KeysAlone DEF BusReset, Open, ControlRequest, TransferFails
  <2>2. AroundOK'
    <3>1. UNCHANGED <<ram_cache, answer>> /\ (incoming' = <<>> \/ UNCHANGED incoming)
      BY <1>2 DEF BusReset, Open, ControlRequest, TransferFails
    <3>2. webusb_state' \in [connected : BOOLEAN, configured : BOOLEAN, armed : BOOLEAN]
      <4>1. CASE BusReset
        BY <4>1 DEF BusReset
      <4>2. CASE Open \/ ControlRequest \/ TransferFails
        <5>1. webusb_state' \in {[webusb_state EXCEPT !.configured = TRUE, !.armed = TRUE],
                                 [webusb_state EXCEPT !.connected = TRUE],
                                 [webusb_state EXCEPT !.armed = FALSE]}
          BY <4>2 DEF Open, ControlRequest, TransferFails
        <5> QED BY <5>1, <1>a DEF AroundOK
      <4> QED BY <1>2, <4>1, <4>2
    <3> QED BY <3>1, <3>2, <1>a, <1>e DEF AroundOK
  <2> QED BY <2>1, <2>2, <1>h
<1>3. CASE HostSend
  <2>1. KeysOK'
    BY <1>3, <1>a, KeysAlone DEF HostSend
  <2>2. incoming' \in Seq(Transfers) /\ Len(incoming') <= RestorePieces
    BY <1>3, MessagesAreTransfers DEF HostSend
  <2>3. AroundOK'
    BY <1>3, <1>a, <2>2 DEF HostSend, AroundOK
  <2> QED BY <2>1, <2>3, <1>h
<1>4. CASE Transfer
  <2>1. incoming \in Seq(Transfers) /\ incoming # <<>> /\ Len(incoming) <= RestorePieces
    BY <1>4, <1>a DEF Transfer, AroundOK
  <2>2. Head(incoming) \in Transfers
    BY <2>1
  <2>3. Tail(incoming) \in Seq(Transfers) /\ Len(Tail(incoming)) <= RestorePieces
    BY <2>1, Numbers
  <2>4. /\ KeysOK'
        /\ webusb_state' \in [connected : BOOLEAN, configured : BOOLEAN, armed : BOOLEAN]
        /\ ram_cache' \in Images
        /\ answer' \in Answers \cup {None}
    BY <1>4, <2>2, CommandKeeps DEF Transfer
  <2>5. AroundOK'
    BY <1>4, <2>3, <2>4 DEF Transfer, AroundOK
  <2> QED BY <2>4, <2>5, <1>h
<1>5. CASE Crypto
  <2>1. AroundOK'
    BY <1>5, <1>a, CryptoKeeps DEF AroundOK, usb
  <2> QED BY <1>5, <2>1, <1>h, CryptoKeeps
<1>6. CASE UNCHANGED vars
  <2>1. KeysOK' /\ AroundOK'
    BY <1>6, <1>a, KeysAlone DEF vars, usb, AroundOK
  <2> QED BY <2>1, <1>h
<1> QED BY <1>1, <1>2, <1>3, <1>4, <1>5, <1>6 DEF Next

\* The device's state, the transfers to come, the key tables and the answers
\* keep their shapes, whatever the rest of a restore is taken for.
THEOREM WebUsbTypeCorrect == Spec => []WebUsbTypeOK
<1> QED BY WebUsbInit, WebUsbNext, PTL DEF Spec, WebUsbInv

\* No key id is given out twice until the table is cleared, and signing with it
\* never uses a key pair from before the one it was handed out with, though HSM
\* slots are generated behind its back and generating may fail.
THEOREM KeyIdsStayTrue == Spec => []KeyIdsTrue
<1> QED BY WebUsbInit, WebUsbNext, PTL DEF Spec, WebUsbInv

----------------------------------------------------------------------------
(* The arithmetic of the key pairs, for words of every size.  First facts   *)
(* about remainders and naturals.                                           *)

\* A remainder is below the modulus, and the number is it and whole moduli.
LEMMA Remainder ==
  ASSUME NEW v \in Int, NEW m \in Nat \ {0}
  PROVE  /\ v % m \in 0..(m - 1)
         /\ v = (v \div m) * m + (v % m)
         /\ v \div m \in Int
OBVIOUS

\* Only 0 of the multiples of m is nearer to 0 than m.
LEMMA NoMultipleBetween ==
  ASSUME NEW x \in Int, NEW m \in Nat \ {0}, -m < x * m, x * m < m
  PROVE  x = 0
OBVIOUS

\* The remainder is the only number below the modulus that differs from v by
\* a multiple of it.
LEMMA RemainderUnique ==
  ASSUME NEW v \in Int, NEW m \in Nat \ {0}, NEW x \in 0..(m - 1), NEW q \in Int, v = x + q * m
  PROVE  v % m = x
<1>1. PICK p \in Int : v = (p * m) + (v % m)
  BY Remainder
<1>2. v % m \in 0..(m - 1)
  BY Remainder
<1>3. (p - q) * m = x - (v % m)
  BY <1>1, <1>2
<1>4. p - q = 0
  <2>1. p - q \in Int /\ -m < (p - q) * m /\ (p - q) * m < m
    BY <1>2, <1>3
  <2> QED BY <2>1, NoMultipleBetween
<1> QED BY <1>1, <1>2, <1>3, <1>4

\* A multiple of the modulus does not change the remainder.
LEMMA Shifted ==
  ASSUME NEW v \in Int, NEW m \in Nat \ {0}, NEW k \in Int
  PROVE  (v + k * m) % m = v % m
<1>1. PICK p \in Int : v = (p * m) + (v % m)
  BY Remainder
<1>2. v % m \in 0..(m - 1)
  BY Remainder
<1> DEFINE w == v + k * m
<1> DEFINE r == v % m
<1>3. w = r + (p + k) * m /\ w \in Int /\ p + k \in Int /\ r \in 0..(m - 1)
  BY <1>1, <1>2
<1> HIDE DEF w, r
<1>4. w % m = r
  BY <1>3, RemainderUnique
<1> QED BY <1>4 DEF w, r

\* Nor does the modulus, added or taken off once.
LEMMA OnceMore ==
  ASSUME NEW v \in Int, NEW m \in Int, m > 0
  PROVE  (v + m) % m = v % m /\ (v - m) % m = v % m
<1> DEFINE up == 1
<1> DEFINE down == -1
<1>1. v + up * m = v + m /\ v + down * m = v - m /\ up \in Int /\ down \in Int /\ m \in Nat \ {0}
  OBVIOUS
<1> HIDE DEF up, down
<1>2. (v + up * m) % m = v % m /\ (v + down * m) % m = v % m
  BY <1>1, Shifted
<1> QED BY <1>1, <1>2

\* A set of naturals has a least element.
LEMMA LeastOf ==
  ASSUME NEW S \in SUBSET Nat, S # {}
  PROVE  \E m \in S : \A k \in S : m <= k
<1> DEFINE Below == OpToRel(<, Nat)
<1>1. \A k, m \in Nat : k < m => <<k, m>> \in Below
  BY DEF OpToRel
<1>2. IsWellFoundedOn(Below, Nat)
  BY NatLessThanWellFounded
<1> HIDE DEF Below
<1>3. PICK m \in S : \A k \in S : ~ (<<k, m>> \in Below)
  BY <1>2, WFMin
<1>4. \A k \in S : k \in Nat /\ m \in Nat /\ ~ (k < m)
  BY <1>1, <1>3
<1> QED BY <1>4

\* A set of naturals with 0 and the successors of its elements is all of them.
LEMMA NaturalsFilled ==
  ASSUME NEW S \in SUBSET Nat, 0 \in S, \A n \in S : n + 1 \in S
  PROVE  S = Nat
<1>1. SUFFICES ASSUME Nat \ S # {} PROVE FALSE
  OBVIOUS
<1>2. PICK m \in Nat \ S : \A k \in Nat \ S : m <= k
  BY <1>1, LeastOf
<1>3. m # 0 /\ m - 1 \in Nat /\ ~ (m <= m - 1) /\ (m - 1) + 1 = m
  BY <1>2
<1>4. m - 1 \in S
  BY <1>2, <1>3
<1> QED BY <1>2, <1>3, <1>4

----------------------------------------------------------------------------
\* The number of eight words in base b.
Horner(b, a1, a2, a3, a4, a5, a6, a7, a8) ==
  a1 + b * (a2 + b * (a3 + b * (a4 + b * (a5 + b * (a6 + b * (a7 + b * a8))))))

\* A word has an even number of values.
LEMMA WordType == WordSize \in Nat /\ WordSize >= 2 /\ \E h \in Nat : WordSize = 2 * h
<1>1. WordSize \in Nat \ {0} /\ WordSize % 2 = 0
  BY WordAssumption
<1>2. \A b \in Nat \ {0} : b % 2 = 0 => b >= 2 /\ \E h \in Nat : b = 2 * h
  <2>1. ASSUME NEW b \in Nat \ {0}, b % 2 = 0 PROVE b >= 2 /\ b = 2 * (b \div 2) /\ b \div 2 \in Nat
    BY <2>1
  <2> QED BY <2>1
<1> QED BY <1>1, <1>2

\* The prime of secp256r1, 2^256 - 2^224 + 2^192 + 2^96 - 1, in words.
LEMMA PrimeForm ==
  ASSUME NEW b, b = WordSize
  PROVE  /\ CurveP = b*b*b*b*b*b*b*b - b*b*b*b*b*b*b + b*b*b*b*b*b + b*b*b - 1
         /\ Range8 = b*b*b*b*b*b*b*b
<1>1. b \in Int
  BY WordType
<1>2. CurveP = (b - 1) + b * ((b - 1) + b * ((b - 1) + b * (0 + b * (0 + b * (0 + b * (1 + b * (b - 1)))))))
  BY DEF CurveP, NumberOf, Ones
<1>3. Range8 = (b * b) * (b * b) * (b * b) * (b * b)
  BY DEF Range8
<1> QED BY <1>1, <1>2, <1>3

\* It is positive, and less than what eight words hold.
LEMMA PrimeBounds ==
  ASSUME NEW b \in Int, b >= 2
  PROVE  /\ b*b*b*b*b*b*b*b - b*b*b*b*b*b*b + b*b*b*b*b*b + b*b*b - 1 > 2
         /\ b*b*b*b*b*b*b*b - b*b*b*b*b*b*b + b*b*b*b*b*b + b*b*b - 1 < b*b*b*b*b*b*b*b
<1> DEFINE c == b * b * b
<1> DEFINE d == c * c
<1>1. b * b >= 4 /\ b * b \in Int
  OBVIOUS
<1>2. c >= 8 /\ c \in Int
  <2>1. (b * b) * b >= 4 * 2
    BY <1>1
  <2> QED BY <2>1
<1> HIDE DEF c
<1>3. d >= 8 * c /\ d \in Int
  BY <1>2
<1> HIDE DEF d
<1>4. b * d >= 2 * d /\ b * d \in Int
  BY <1>2, <1>3
<1>5. b * (b * d) >= 2 * (b * d)
  BY <1>2, <1>3, <1>4
<1>6. /\ b*b*b*b*b*b*b*b = b * (b * d) /\ b*b*b*b*b*b*b = b * d
      /\ b*b*b*b*b*b = d /\ b*b*b = c
  BY DEF c, d
<1> QED BY <1>2, <1>3, <1>4, <1>5, <1>6

\* So are the range of eight words and the prime natural numbers.
LEMMA PrimePositive ==
  /\ CurveP \in Nat /\ CurveP > 2 /\ CurveP < Range8 /\ Range8 \in Nat
  /\ \E h \in Nat : CurveP = 2 * h + 1
<1> DEFINE b == WordSize
<1>1. b \in Int /\ b >= 2
  BY WordType
<1>2. /\ CurveP = b*b*b*b*b*b*b*b - b*b*b*b*b*b*b + b*b*b*b*b*b + b*b*b - 1
      /\ Range8 = b*b*b*b*b*b*b*b
  BY PrimeForm
<1>3. PICK k \in Nat : b = 2 * k
  BY WordType
<1> HIDE DEF b
<1>4. CurveP > 2 /\ CurveP < Range8 /\ CurveP \in Int /\ Range8 \in Int
  BY <1>1, <1>2, PrimeBounds
<1> DEFINE h == k*b*b*b*b*b*b*b - k*b*b*b*b*b*b + k*b*b*b*b*b + k*b*b - 1
<1>5. h \in Int /\ CurveP = 2 * h + 1
  BY <1>1, <1>2, <1>3
<1> HIDE DEF h
<1>6. h \in Nat
  BY <1>4, <1>5
<1> QED BY <1>4, <1>5, <1>6

\* The prime as an integer.
LEMMA PrimeNumber == CurveP \in Int /\ CurveP > 0
BY PrimePositive

\* The loops as equations.
LEMMA NormaliseDef ==
  ASSUME NEW v \in Int
  PROVE  Normalise[v] = IF v < 0 THEN Normalise[v + CurveP]
                        ELSE IF v >= CurveP THEN Normalise[v - CurveP] ELSE v
<1> DEFINE Loop(g) == [n \in Int |-> IF n < 0 THEN g[n + CurveP]
                                     ELSE IF n >= CurveP THEN g[n - CurveP] ELSE n]
<1> DEFINE residue == [n \in Int |-> n % CurveP]
<1>1. Normalise = CHOOSE g : g = Loop(g)
  BY DEF Normalise
<1>2. residue = Loop(residue)
  <2>1. ASSUME NEW n \in Int PROVE n % CurveP = Loop(residue)[n]
    <3>1. n + CurveP \in Int /\ n - CurveP \in Int
      BY PrimePositive
    <3>2. (n + CurveP) % CurveP = n % CurveP /\ (n - CurveP) % CurveP = n % CurveP
      BY PrimeNumber, OnceMore
    <3>3. n >= 0 /\ n < CurveP => n % CurveP = n
      BY PrimePositive
    <3>4. Loop(residue)[n] = IF n < 0 THEN residue[n + CurveP]
                             ELSE IF n >= CurveP THEN residue[n - CurveP] ELSE n
      BY <3>1
    <3>5. residue[n + CurveP] = (n + CurveP) % CurveP /\ residue[n - CurveP] = (n - CurveP) % CurveP
      BY <3>1
    <3> HIDE DEF Loop, residue
    <3> QED BY <3>2, <3>3, <3>4, <3>5, PrimePositive
  <2> QED BY <2>1
<1>3. Normalise = Loop(Normalise)
  <2> HIDE DEF Loop, residue
  <2> QED BY <1>1, <1>2
<1> QED BY <1>3

\* The loops end, at the remainder, for every number they begin with.
LEMMA NormaliseResidue ==
  ASSUME NEW v \in Int
  PROVE  Normalise[v] = v % CurveP
<1> DEFINE Up == {n \in Nat : Normalise[n] # n % CurveP}
<1> DEFINE Down == {n \in Nat : Normalise[-n] # (-n) % CurveP}
<1>0. ASSUME NEW n \in Int
      PROVE  /\ (n + CurveP) % CurveP = n % CurveP
             /\ (n - CurveP) % CurveP = n % CurveP
  BY PrimeNumber, OnceMore
<1>1. Up = {}
  <2>1. SUFFICES ASSUME Up # {} PROVE FALSE
    OBVIOUS
  <2>2. PICK n \in Up : \A k \in Up : n <= k
    BY <2>1, LeastOf
  <2>3. n \in Nat /\ Normalise[n] # n % CurveP
    BY <2>2
  <2>4. n >= CurveP
    BY <2>3, PrimePositive, NormaliseDef
  <2>5. n - CurveP \in Nat /\ ~ (n <= n - CurveP)
    BY <2>3, <2>4, PrimePositive
  <2>6. Normalise[n - CurveP] = (n - CurveP) % CurveP
    BY <2>2, <2>5
  <2>7. Normalise[n] = Normalise[n - CurveP]
    BY <2>3, <2>4, NormaliseDef
  <2> QED BY <1>0, <2>3, <2>6, <2>7
<1>2. Down = {}
  <2>1. SUFFICES ASSUME Down # {} PROVE FALSE
    OBVIOUS
  <2>2. PICK n \in Down : \A k \in Down : n <= k
    BY <2>1, LeastOf
  <2>3. n \in Nat /\ Normalise[-n] # (-n) % CurveP
    BY <2>2
  <2>4. n > 0
    BY <1>1, <2>3
  <2>5. Normalise[-n] = Normalise[(-n) + CurveP] /\ (-n) + CurveP \in Int
    BY <2>3, <2>4, PrimePositive, NormaliseDef
  <2>6. Normalise[(-n) + CurveP] = ((-n) + CurveP) % CurveP
    <3>1. CASE (-n) + CurveP >= 0
      BY <1>1, <2>5, <3>1
    <3>2. CASE (-n) + CurveP < 0
      <4>1. n - CurveP \in Nat /\ ~ (n <= n - CurveP) /\ -(n - CurveP) = (-n) + CurveP
        BY <2>3, <3>2, PrimePositive
      <4> QED BY <2>2, <4>1
    <3> QED BY <2>5, <3>1, <3>2
  <2> QED BY <1>0, <2>3, <2>5, <2>6
<1>3. CASE v >= 0
  BY <1>1, <1>3
<1>4. CASE v < 0
  <2>1. -v \in Nat /\ -(-v) = v
    BY <1>4
  <2> QED BY <1>2, <2>1
<1> QED BY <1>3, <1>4

\* The fast reduction (vli_mmod_fast_secp256r1) is right for every product of
\* sixteen words: the words it adds and takes off leave a number congruent to
\* the product modulo the prime, and the loops after it, which add the prime
\* or take it off, end at the remainder.
THEOREM FastReductionRight == \A c \in Products : MmodFast(c) = ProductOf(c) % CurveP
<1> SUFFICES ASSUME NEW c \in Products PROVE MmodFast(c) = ProductOf(c) % CurveP
  OBVIOUS
<1> DEFINE b == WordSize
<1>1. b \in Int
  BY WordType
<1>2. \A i \in 0..15 : c[i] \in Int
  BY <1>1 DEF Products, Word
<1>c0. PICK c0, c1, c2, c3 \in Int : c[0] = c0 /\ c[1] = c1 /\ c[2] = c2 /\ c[3] = c3
  <2>1. c[0] \in Int /\ c[1] \in Int /\ c[2] \in Int /\ c[3] \in Int
    BY <1>2
  <2> QED BY ONLY <2>1, Zenon
<1>c4. PICK c4, c5, c6, c7 \in Int : c[4] = c4 /\ c[5] = c5 /\ c[6] = c6 /\ c[7] = c7
  <2>1. c[4] \in Int /\ c[5] \in Int /\ c[6] \in Int /\ c[7] \in Int
    BY <1>2
  <2> QED BY ONLY <2>1, Zenon
<1>c8. PICK c8, c9, c10, c11 \in Int : c[8] = c8 /\ c[9] = c9 /\ c[10] = c10 /\ c[11] = c11
  <2>1. c[8] \in Int /\ c[9] \in Int /\ c[10] \in Int /\ c[11] \in Int
    BY <1>2
  <2> QED BY ONLY <2>1, Zenon
<1>c12. PICK c12, c13, c14, c15 \in Int : c[12] = c12 /\ c[13] = c13 /\ c[14] = c14 /\ c[15] = c15
  <2>1. c[12] \in Int /\ c[13] \in Int /\ c[14] \in Int /\ c[15] \in Int
    BY <1>2
  <2> QED BY ONLY <2>1, Zenon
<1> DEFINE q == c8*(1) + c9*(1 + b) + c10*(b + b*b) + c11*(0 - 1 + b*b + b*b*b)
                + c12*(0 - 1 - b + b*b*b + b*b*b*b)
                + c13*(0 - 1 - b - b*b + b*b*b*b + b*b*b*b*b)
                + c14*(0 - 1 - b - b*b - b*b*b + b*b*b*b*b + b*b*b*b*b*b)
                + c15*(0 - b - b*b - b*b*b - b*b*b*b + b*b*b*b*b*b + b*b*b*b*b*b*b)
<1>3. FastSum(c) = ProductOf(c) - q * CurveP /\ FastSum(c) \in Int /\ ProductOf(c) \in Int /\ q \in Int
  <2>1. Low(c) = Horner(b, c0, c1, c2, c3, c4, c5, c6, c7)
    BY <1>c0, <1>c4, <1>c8, <1>c12 DEF Low, NumberOf, Horner
  <2>2. High(c) = Horner(b, c8, c9, c10, c11, c12, c13, c14, c15)
    BY <1>c0, <1>c4, <1>c8, <1>c12 DEF High, NumberOf, Horner
  <2>3. Tmp(c, <<0, 0, 0, 11, 12, 13, 14, 15>>)
          = Horner(b, 0, 0, 0, c11, c12, c13, c14, c15)
    BY <1>c0, <1>c4, <1>c8, <1>c12 DEF Tmp, NumberOf, Horner
  <2>4. Tmp(c, <<0, 0, 0, 12, 13, 14, 15, 0>>)
          = Horner(b, 0, 0, 0, c12, c13, c14, c15, 0)
    BY <1>c0, <1>c4, <1>c8, <1>c12 DEF Tmp, NumberOf, Horner
  <2>5. Tmp(c, <<8, 9, 10, 0, 0, 0, 14, 15>>)
          = Horner(b, c8, c9, c10, 0, 0, 0, c14, c15)
    BY <1>c0, <1>c4, <1>c8, <1>c12 DEF Tmp, NumberOf, Horner
  <2>6. Tmp(c, <<9, 10, 11, 13, 14, 15, 13, 8>>)
          = Horner(b, c9, c10, c11, c13, c14, c15, c13, c8)
    BY <1>c0, <1>c4, <1>c8, <1>c12 DEF Tmp, NumberOf, Horner
  <2>7. Tmp(c, <<11, 12, 13, 0, 0, 0, 8, 10>>)
          = Horner(b, c11, c12, c13, 0, 0, 0, c8, c10)
    BY <1>c0, <1>c4, <1>c8, <1>c12 DEF Tmp, NumberOf, Horner
  <2>8. Tmp(c, <<12, 13, 14, 15, 0, 0, 9, 11>>)
          = Horner(b, c12, c13, c14, c15, 0, 0, c9, c11)
    BY <1>c0, <1>c4, <1>c8, <1>c12 DEF Tmp, NumberOf, Horner
  <2>9. Tmp(c, <<13, 14, 15, 8, 9, 10, 0, 12>>)
          = Horner(b, c13, c14, c15, c8, c9, c10, 0, c12)
    BY <1>c0, <1>c4, <1>c8, <1>c12 DEF Tmp, NumberOf, Horner
  <2>10. Tmp(c, <<14, 15, 0, 9, 10, 11, 0, 13>>)
          = Horner(b, c14, c15, 0, c9, c10, c11, 0, c13)
    BY <1>c0, <1>c4, <1>c8, <1>c12 DEF Tmp, NumberOf, Horner
  <2>20. /\ CurveP = b*b*b*b*b*b*b*b - b*b*b*b*b*b*b + b*b*b*b*b*b + b*b*b - 1
         /\ Range8 = b*b*b*b*b*b*b*b
    BY PrimeForm
  <2> HIDE DEF b
  <2>21. FastSum(c) \in Int /\ ProductOf(c) \in Int /\ q \in Int
    BY <1>1, <2>1, <2>2, <2>3, <2>4, <2>5, <2>6, <2>7, <2>8, <2>9, <2>10, <2>20 DEF FastSum,
       ProductOf, Horner
  <2>22. FastSum(c) = ProductOf(c) - q * CurveP
    BY <1>1, <2>1, <2>2, <2>3, <2>4, <2>5, <2>6, <2>7, <2>8, <2>9, <2>10, <2>20 DEF FastSum,
       ProductOf, Horner
  <2> QED
    BY <2>21, <2>22
<1> HIDE DEF q
<1>4. FastSum(c) = ProductOf(c) + (-q) * CurveP /\ -q \in Int
  BY <1>3, PrimeNumber
<1> DEFINE sum == FastSum(c)
<1> DEFINE product == ProductOf(c)
<1> DEFINE p == CurveP
<1> DEFINE k == -q
<1>5. FastSum(c) % CurveP = ProductOf(c) % CurveP
  <2>1. sum = product + k * p /\ product \in Int /\ k \in Int /\ p \in Nat \ {0}
    BY <1>3, <1>4, PrimePositive
  <2> HIDE DEF sum, product, p, k
  <2>2. sum % p = product % p
    BY <2>1, Shifted
  <2> QED BY <2>2 DEF sum, product, p
<1> QED BY <1>3, <1>5, NormaliseResidue DEF MmodFast

----------------------------------------------------------------------------
LEMMA AddWord ==
  ASSUME NEW l \in Word, NEW r \in Word, NEW c \in {0, 1}
  PROVE  /\ SumWord(l, r, c) \in Word
         /\ CarryOut(l, r, c) \in {0, 1}
         /\ l + r + c = SumWord(l, r, c) + WordSize * CarryOut(l, r, c)
<1> DEFINE b == WordSize
<1>1. b \in Nat \ {0} /\ l \in 0..(b - 1) /\ r \in 0..(b - 1) /\ c \in 0..1
  BY WordType DEF Word
<1>2. CASE l + r + c < b
  <2>1. SumWord(l, r, c) = l + r + c
    BY <1>1, <1>2 DEF SumWord
  <2> QED BY <1>1, <1>2, <2>1 DEF CarryOut, Word
<1>3. CASE l + r + c >= b
  <2> DEFINE v == l + r + c
  <2> DEFINE k == 1
  <2>1. v = (v - b) + k * b /\ v \in Int /\ v - b \in 0..(b - 1) /\ k \in Int
    BY <1>1, <1>3
  <2> DEFINE x == v - b
  <2>2. v % b = x
    <3> HIDE DEF v, b, k
    <3>1. v = x + k * b /\ x \in 0..(b - 1)
      BY <2>1
    <3> HIDE DEF x
    <3> QED BY <1>1, <2>1, <3>1, RemainderUnique
  <2>3. SumWord(l, r, c) = x
    BY <2>2 DEF SumWord
  <2> QED BY <1>1, <1>3, <2>3 DEF CarryOut, Word
<1> QED BY <1>1, <1>2, <1>3

\* A word of the difference, with the borrow into it and out of it.
LEMMA SubWord ==
  ASSUME NEW l \in Word, NEW r \in Word, NEW c \in {0, 1}
  PROVE  /\ DiffWord(l, r, c) \in Word
         /\ BorrowOut(l, r, c) \in {0, 1}
         /\ l - r - c = DiffWord(l, r, c) - WordSize * BorrowOut(l, r, c)
<1> DEFINE b == WordSize
<1>1. b \in Nat \ {0} /\ l \in 0..(b - 1) /\ r \in 0..(b - 1) /\ c \in 0..1
  BY WordType DEF Word
<1>2. CASE l - r - c >= 0
  <2>1. DiffWord(l, r, c) = l - r - c
    BY <1>1, <1>2 DEF DiffWord
  <2> QED BY <1>1, <1>2, <2>1 DEF BorrowOut, Word
<1>3. CASE l - r - c < 0
  <2> DEFINE v == l - r - c
  <2> DEFINE k == -1
  <2>1. v = (v + b) + k * b /\ v \in Int /\ v + b \in 0..(b - 1) /\ k \in Int
    BY <1>1, <1>3
  <2> DEFINE x == v + b
  <2>2. v % b = x
    <3> HIDE DEF v, b, k
    <3>1. v = x + k * b /\ x \in 0..(b - 1)
      BY <2>1
    <3> HIDE DEF x
    <3> QED BY <1>1, <2>1, <3>1, RemainderUnique
  <2>3. DiffWord(l, r, c) = x
    BY <2>2 DEF DiffWord
  <2> QED BY <1>1, <1>3, <2>3 DEF BorrowOut, Word
<1> QED BY <1>1, <1>2, <1>3

\* Eight integers make an integer.
LEMMA NumberType ==
  ASSUME NEW w \in [1..8 -> Int]
  PROVE  NumberOf(w) \in Int
<1>1. /\ w[1] \in Int /\ w[2] \in Int /\ w[3] \in Int /\ w[4] \in Int
      /\ w[5] \in Int /\ w[6] \in Int /\ w[7] \in Int /\ w[8] \in Int
  OBVIOUS
<1>2. \A b, x, y \in Int : x + b * y \in Int
  OBVIOUS
<1>3. WordSize \in Int
  BY WordType
<1> QED BY ONLY <1>1, <1>2, <1>3, Zenon DEF NumberOf

\* Sums of the words with a carry in and a carry out add up to the sum.
LEMMA CarriesAddUp ==
  ASSUME NEW x \in [1..8 -> Int], NEW y \in [1..8 -> Int], NEW s \in [1..8 -> Int],
         NEW c \in [1..9 -> Int], c[1] = 0,
         \A i \in 1..8 : x[i] + y[i] + c[i] = s[i] + WordSize * c[i + 1]
  PROVE  NumberOf(x) + NumberOf(y) = NumberOf(s) + Range8 * c[9]
<1> DEFINE b == WordSize
<1>0. b \in Int
  BY WordType
<1>c1. PICK c1 \in Int : c1 = c[1]
  OBVIOUS
<1>1. PICK x1, y1, s1, c2 \in Int :
         /\ x1 = x[1] /\ y1 = y[1] /\ s1 = s[1] /\ c2 = c[2]
         /\ x1 + y1 + c1 = s1 + b * c2
  <2>1. x[1] \in Int /\ y[1] \in Int /\ s[1] \in Int /\ c[2] \in Int
    OBVIOUS
  <2>2. x[1] + y[1] + c1 = s[1] + b * c[2]
    BY <1>c1
  <2> QED BY ONLY <2>1, <2>2, Zenon
<1>2. PICK x2, y2, s2, c3 \in Int :
         /\ x2 = x[2] /\ y2 = y[2] /\ s2 = s[2] /\ c3 = c[3]
         /\ x2 + y2 + c2 = s2 + b * c3
  <2>1. x[2] \in Int /\ y[2] \in Int /\ s[2] \in Int /\ c[3] \in Int
    OBVIOUS
  <2>2. x[2] + y[2] + c2 = s[2] + b * c[3]
    BY <1>1
  <2> QED BY ONLY <2>1, <2>2, Zenon
<1>3. PICK x3, y3, s3, c4 \in Int :
         /\ x3 = x[3] /\ y3 = y[3] /\ s3 = s[3] /\ c4 = c[4]
         /\ x3 + y3 + c3 = s3 + b * c4
  <2>1. x[3] \in Int /\ y[3] \in Int /\ s[3] \in Int /\ c[4] \in Int
    OBVIOUS
  <2>2. x[3] + y[3] + c3 = s[3] + b * c[4]
    BY <1>2
  <2> QED BY ONLY <2>1, <2>2, Zenon
<1>4. PICK x4, y4, s4, c5 \in Int :
         /\ x4 = x[4] /\ y4 = y[4] /\ s4 = s[4] /\ c5 = c[5]
         /\ x4 + y4 + c4 = s4 + b * c5
  <2>1. x[4] \in Int /\ y[4] \in Int /\ s[4] \in Int /\ c[5] \in Int
    OBVIOUS
  <2>2. x[4] + y[4] + c4 = s[4] + b * c[5]
    BY <1>3
  <2> QED BY ONLY <2>1, <2>2, Zenon
<1>5. PICK x5, y5, s5, c6 \in Int :
         /\ x5 = x[5] /\ y5 = y[5] /\ s5 = s[5] /\ c6 = c[6]
         /\ x5 + y5 + c5 = s5 + b * c6
  <2>1. x[5] \in Int /\ y[5] \in Int /\ s[5] \in Int /\ c[6] \in Int
    OBVIOUS
  <2>2. x[5] + y[5] + c5 = s[5] + b * c[6]
    BY <1>4
  <2> QED BY ONLY <2>1, <2>2, Zenon
<1>6. PICK x6, y6, s6, c7 \in Int :
         /\ x6 = x[6] /\ y6 = y[6] /\ s6 = s[6] /\ c7 = c[7]
         /\ x6 + y6 + c6 = s6 + b * c7
  <2>1. x[6] \in Int /\ y[6] \in Int /\ s[6] \in Int /\ c[7] \in Int
    OBVIOUS
  <2>2. x[6] + y[6] + c6 = s[6] + b * c[7]
    BY <1>5
  <2> QED BY ONLY <2>1, <2>2, Zenon
<1>7. PICK x7, y7, s7, c8 \in Int :
         /\ x7 = x[7] /\ y7 = y[7] /\ s7 = s[7] /\ c8 = c[8]
         /\ x7 + y7 + c7 = s7 + b * c8
  <2>1. x[7] \in Int /\ y[7] \in Int /\ s[7] \in Int /\ c[8] \in Int
    OBVIOUS
  <2>2. x[7] + y[7] + c7 = s[7] + b * c[8]
    BY <1>6
  <2> QED BY ONLY <2>1, <2>2, Zenon
<1>8. PICK x8, y8, s8, c9 \in Int :
         /\ x8 = x[8] /\ y8 = y[8] /\ s8 = s[8] /\ c9 = c[9]
         /\ x8 + y8 + c8 = s8 + b * c9
  <2>1. x[8] \in Int /\ y[8] \in Int /\ s[8] \in Int /\ c[9] \in Int
    OBVIOUS
  <2>2. x[8] + y[8] + c8 = s[8] + b * c[9]
    BY <1>7
  <2> QED BY ONLY <2>1, <2>2, Zenon
<1>10. /\ NumberOf(x) = Horner(b, x1, x2, x3, x4, x5, x6, x7, x8)
       /\ NumberOf(y) = Horner(b, y1, y2, y3, y4, y5, y6, y7, y8)
       /\ NumberOf(s) = Horner(b, s1, s2, s3, s4, s5, s6, s7, s8)
  BY <1>1, <1>2, <1>3, <1>4, <1>5, <1>6, <1>7, <1>8 DEF NumberOf, Horner
<1>11. Range8 = b*b*b*b*b*b*b*b
  BY PrimeForm
<1>12. c1 = 0
  BY <1>c1
<1> HIDE DEF b
<1>13. Horner(b, x1, x2, x3, x4, x5, x6, x7, x8) + Horner(b, y1, y2, y3, y4, y5, y6, y7, y8)
       = Horner(b, s1, s2, s3, s4, s5, s6, s7, s8) + b*b*b*b*b*b*b*b * c9
  <2>1. s1 = x1 + y1 + c1 - b * c2
    <3>1. x1 + y1 + c1 = s1 + b * c2
      BY <1>1
    <3> QED BY ONLY <3>1, <1>0, x1 \in Int, y1 \in Int, s1 \in Int, c1 \in Int, c2 \in Int
  <2>2. s2 = x2 + y2 + c2 - b * c3
    <3>1. x2 + y2 + c2 = s2 + b * c3
      BY <1>2
    <3> QED BY ONLY <3>1, <1>0, x2 \in Int, y2 \in Int, s2 \in Int, c2 \in Int, c3 \in Int
  <2>3. s3 = x3 + y3 + c3 - b * c4
    <3>1. x3 + y3 + c3 = s3 + b * c4
      BY <1>3
    <3> QED BY ONLY <3>1, <1>0, x3 \in Int, y3 \in Int, s3 \in Int, c3 \in Int, c4 \in Int
  <2>4. s4 = x4 + y4 + c4 - b * c5
    <3>1. x4 + y4 + c4 = s4 + b * c5
      BY <1>4
    <3> QED BY ONLY <3>1, <1>0, x4 \in Int, y4 \in Int, s4 \in Int, c4 \in Int, c5 \in Int
  <2>5. s5 = x5 + y5 + c5 - b * c6
    <3>1. x5 + y5 + c5 = s5 + b * c6
      BY <1>5
    <3> QED BY ONLY <3>1, <1>0, x5 \in Int, y5 \in Int, s5 \in Int, c5 \in Int, c6 \in Int
  <2>6. s6 = x6 + y6 + c6 - b * c7
    <3>1. x6 + y6 + c6 = s6 + b * c7
      BY <1>6
    <3> QED BY ONLY <3>1, <1>0, x6 \in Int, y6 \in Int, s6 \in Int, c6 \in Int, c7 \in Int
  <2>7. s7 = x7 + y7 + c7 - b * c8
    <3>1. x7 + y7 + c7 = s7 + b * c8
      BY <1>7
    <3> QED BY ONLY <3>1, <1>0, x7 \in Int, y7 \in Int, s7 \in Int, c7 \in Int, c8 \in Int
  <2>8. s8 = x8 + y8 + c8 - b * c9
    <3>1. x8 + y8 + c8 = s8 + b * c9
      BY <1>8
    <3> QED BY ONLY <3>1, <1>0, x8 \in Int, y8 \in Int, s8 \in Int, c8 \in Int, c9 \in Int
  <2> QED BY ONLY <1>0, <1>12, <2>1, <2>2, <2>3, <2>4, <2>5, <2>6, <2>7, <2>8,
               x1 \in Int, x2 \in Int, x3 \in Int, x4 \in Int, x5 \in Int, x6 \in Int, x7 \in Int, x8 \in Int,
               y1 \in Int, y2 \in Int, y3 \in Int, y4 \in Int, y5 \in Int, y6 \in Int, y7 \in Int, y8 \in Int,
               c1 \in Int, c2 \in Int, c3 \in Int, c4 \in Int, c5 \in Int, c6 \in Int, c7 \in Int, c8 \in Int, c9 \in Int DEF Horner
<1> QED BY <1>8, <1>10, <1>11, <1>13

\* Each carry comes out of the word below.
LEMMA CarryChain ==
  ASSUME NEW l \in Words, NEW r \in Words
  PROVE  /\ Carries(CarryOut, l, r) \in [1..9 -> {0, 1}]
         /\ Carries(CarryOut, l, r)[1] = 0
         /\ \A i \in 1..8 : Carries(CarryOut, l, r)[i + 1] = CarryOut(l[i], r[i], Carries(CarryOut, l, r)[i])
<1>0. \A i \in 1..8 : l[i] \in Word /\ r[i] \in Word
  BY DEF Words
<1>1. PICK c1 \in {0, 1} : c1 = 0
  OBVIOUS
<1>2. PICK c2 \in {0, 1} : c2 = CarryOut(l[1], r[1], c1)
  BY <1>0, AddWord
<1>3. PICK c3 \in {0, 1} : c3 = CarryOut(l[2], r[2], c2)
  BY <1>0, AddWord
<1>4. PICK c4 \in {0, 1} : c4 = CarryOut(l[3], r[3], c3)
  BY <1>0, AddWord
<1>5. PICK c5 \in {0, 1} : c5 = CarryOut(l[4], r[4], c4)
  BY <1>0, AddWord
<1>6. PICK c6 \in {0, 1} : c6 = CarryOut(l[5], r[5], c5)
  BY <1>0, AddWord
<1>7. PICK c7 \in {0, 1} : c7 = CarryOut(l[6], r[6], c6)
  BY <1>0, AddWord
<1>8. PICK c8 \in {0, 1} : c8 = CarryOut(l[7], r[7], c7)
  BY <1>0, AddWord
<1>9. PICK c9 \in {0, 1} : c9 = CarryOut(l[8], r[8], c8)
  BY <1>0, AddWord
<1> DEFINE c == Carries(CarryOut, l, r)
<1>10. c = <<c1, c2, c3, c4, c5, c6, c7, c8, c9>>
  BY <1>1, <1>2, <1>3, <1>4, <1>5, <1>6, <1>7, <1>8, <1>9 DEF Carries
<1>11. /\ c \in [1..9 -> {0, 1}]
       /\ c[1] = c1 /\ c[2] = c2 /\ c[3] = c3 /\ c[4] = c4 /\ c[5] = c5
       /\ c[6] = c6 /\ c[7] = c7 /\ c[8] = c8 /\ c[9] = c9
  BY <1>10
<1> HIDE DEF c
<1>12. \A i \in 1..8 : c[i + 1] = CarryOut(l[i], r[i], c[i])
  <2>1. /\ c[1 + 1] = CarryOut(l[1], r[1], c[1]) /\ c[2 + 1] = CarryOut(l[2], r[2], c[2])
        /\ c[3 + 1] = CarryOut(l[3], r[3], c[3]) /\ c[4 + 1] = CarryOut(l[4], r[4], c[4])
        /\ c[5 + 1] = CarryOut(l[5], r[5], c[5]) /\ c[6 + 1] = CarryOut(l[6], r[6], c[6])
        /\ c[7 + 1] = CarryOut(l[7], r[7], c[7]) /\ c[8 + 1] = CarryOut(l[8], r[8], c[8])
    BY <1>1, <1>2, <1>3, <1>4, <1>5, <1>6, <1>7, <1>8, <1>9, <1>11
  <2>2. \A i \in 1..8 : i = 1 \/ i = 2 \/ i = 3 \/ i = 4 \/ i = 5 \/ i = 6 \/ i = 7 \/ i = 8
    OBVIOUS
  <2> QED BY <2>1, <2>2
<1> QED BY <1>1, <1>11, <1>12 DEF c

\* Each borrow comes out of the word below.
LEMMA BorrowChain ==
  ASSUME NEW l \in Words, NEW r \in Words
  PROVE  /\ Carries(BorrowOut, l, r) \in [1..9 -> {0, 1}]
         /\ Carries(BorrowOut, l, r)[1] = 0
         /\ \A i \in 1..8 : Carries(BorrowOut, l, r)[i + 1] = BorrowOut(l[i], r[i], Carries(BorrowOut, l, r)[i])
<1>0. \A i \in 1..8 : l[i] \in Word /\ r[i] \in Word
  BY DEF Words
<1>1. PICK c1 \in {0, 1} : c1 = 0
  OBVIOUS
<1>2. PICK c2 \in {0, 1} : c2 = BorrowOut(l[1], r[1], c1)
  BY <1>0, SubWord
<1>3. PICK c3 \in {0, 1} : c3 = BorrowOut(l[2], r[2], c2)
  BY <1>0, SubWord
<1>4. PICK c4 \in {0, 1} : c4 = BorrowOut(l[3], r[3], c3)
  BY <1>0, SubWord
<1>5. PICK c5 \in {0, 1} : c5 = BorrowOut(l[4], r[4], c4)
  BY <1>0, SubWord
<1>6. PICK c6 \in {0, 1} : c6 = BorrowOut(l[5], r[5], c5)
  BY <1>0, SubWord
<1>7. PICK c7 \in {0, 1} : c7 = BorrowOut(l[6], r[6], c6)
  BY <1>0, SubWord
<1>8. PICK c8 \in {0, 1} : c8 = BorrowOut(l[7], r[7], c7)
  BY <1>0, SubWord
<1>9. PICK c9 \in {0, 1} : c9 = BorrowOut(l[8], r[8], c8)
  BY <1>0, SubWord
<1> DEFINE c == Carries(BorrowOut, l, r)
<1>10. c = <<c1, c2, c3, c4, c5, c6, c7, c8, c9>>
  BY <1>1, <1>2, <1>3, <1>4, <1>5, <1>6, <1>7, <1>8, <1>9 DEF Carries
<1>11. /\ c \in [1..9 -> {0, 1}]
       /\ c[1] = c1 /\ c[2] = c2 /\ c[3] = c3 /\ c[4] = c4 /\ c[5] = c5
       /\ c[6] = c6 /\ c[7] = c7 /\ c[8] = c8 /\ c[9] = c9
  BY <1>10
<1> HIDE DEF c
<1>12. \A i \in 1..8 : c[i + 1] = BorrowOut(l[i], r[i], c[i])
  <2>1. /\ c[1 + 1] = BorrowOut(l[1], r[1], c[1]) /\ c[2 + 1] = BorrowOut(l[2], r[2], c[2])
        /\ c[3 + 1] = BorrowOut(l[3], r[3], c[3]) /\ c[4 + 1] = BorrowOut(l[4], r[4], c[4])
        /\ c[5 + 1] = BorrowOut(l[5], r[5], c[5]) /\ c[6 + 1] = BorrowOut(l[6], r[6], c[6])
        /\ c[7 + 1] = BorrowOut(l[7], r[7], c[7]) /\ c[8 + 1] = BorrowOut(l[8], r[8], c[8])
    BY <1>1, <1>2, <1>3, <1>4, <1>5, <1>6, <1>7, <1>8, <1>9, <1>11
  <2>2. \A i \in 1..8 : i = 1 \/ i = 2 \/ i = 3 \/ i = 4 \/ i = 5 \/ i = 6 \/ i = 7 \/ i = 8
    OBVIOUS
  <2> QED BY <2>1, <2>2
<1> QED BY <1>1, <1>11, <1>12 DEF c

\* Adding and subtracting word by word loses nothing: what the words of the
\* result do not hold is in the last carry (uECC_vli_add, uECC_vli_sub), also
\* where a word of the sum is equal to the summand and the carry is kept.
THEOREM WordSumsRight ==
  \A l, r \in Words :
    /\ VliAdd(l, r).words \in Words /\ VliAdd(l, r).carry \in {0, 1}
    /\ NumberOf(l) + NumberOf(r) = NumberOf(VliAdd(l, r).words) + Range8 * VliAdd(l, r).carry
    /\ VliSub(l, r).words \in Words /\ VliSub(l, r).borrow \in {0, 1}
    /\ NumberOf(l) - NumberOf(r) = NumberOf(VliSub(l, r).words) - Range8 * VliSub(l, r).borrow
<1> SUFFICES ASSUME NEW l \in Words, NEW r \in Words
             PROVE  /\ VliAdd(l, r).words \in Words /\ VliAdd(l, r).carry \in {0, 1}
                    /\ NumberOf(l) + NumberOf(r)
                       = NumberOf(VliAdd(l, r).words) + Range8 * VliAdd(l, r).carry
                    /\ VliSub(l, r).words \in Words /\ VliSub(l, r).borrow \in {0, 1}
                    /\ NumberOf(l) - NumberOf(r)
                       = NumberOf(VliSub(l, r).words) - Range8 * VliSub(l, r).borrow
  OBVIOUS
<1>0. /\ Words \subseteq [1..8 -> Int] /\ \A i \in 1..8 : l[i] \in Word /\ r[i] \in Word
      /\ \A w \in Word : w \in Int
  BY WordType DEF Words, Word
<1>4. \A w \in Words : NumberOf(w) \in Int
  <2> SUFFICES ASSUME NEW w \in Words PROVE NumberOf(w) \in Int
    OBVIOUS
  <2>1. w \in [1..8 -> Int]
    BY <1>0
  <2> QED BY <2>1, NumberType
<1>1. /\ VliAdd(l, r).words \in Words /\ VliAdd(l, r).carry \in {0, 1}
      /\ NumberOf(l) + NumberOf(r) = NumberOf(VliAdd(l, r).words) + Range8 * VliAdd(l, r).carry
  <2> DEFINE c == Carries(CarryOut, l, r)
  <2> DEFINE s == [i \in 1..8 |-> SumWord(l[i], r[i], c[i])]
  <2>1. /\ c \in [1..9 -> {0, 1}] /\ c[1] = 0
        /\ \A i \in 1..8 : c[i + 1] = CarryOut(l[i], r[i], c[i])
    BY CarryChain
  <2>2. VliAdd(l, r).words = s /\ VliAdd(l, r).carry = c[9]
    BY DEF VliAdd
  <2> HIDE DEF c
  <2>3. \A i \in 1..8 : /\ s[i] \in Word
                       /\ l[i] + r[i] + c[i] = s[i] + WordSize * c[i + 1]
    <3> SUFFICES ASSUME NEW i \in 1..8
                 PROVE  /\ s[i] \in Word
                        /\ l[i] + r[i] + c[i] = s[i] + WordSize * c[i + 1]
      OBVIOUS
    <3>1. c[i] \in {0, 1} /\ s[i] = SumWord(l[i], r[i], c[i]) /\ c[i + 1] = CarryOut(l[i], r[i], c[i])
      BY <2>1
    <3> QED BY <1>0, <3>1, AddWord
  <2>4. s \in Words
    BY <2>3 DEF Words
  <2> HIDE DEF s
  <2>5. c \in [1..9 -> Int] /\ c[9] \in {0, 1}
    BY <2>1
  <2>6. NumberOf(l) + NumberOf(r) = NumberOf(s) + Range8 * c[9]
    BY <1>0, <2>1, <2>3, <2>4, <2>5, CarriesAddUp
  <2> QED BY <2>2, <2>4, <2>5, <2>6
<1>2. /\ VliSub(l, r).words \in Words /\ VliSub(l, r).borrow \in {0, 1}
      /\ NumberOf(VliSub(l, r).words) + NumberOf(r) = NumberOf(l) + Range8 * VliSub(l, r).borrow
  <2> DEFINE c == Carries(BorrowOut, l, r)
  <2> DEFINE s == [i \in 1..8 |-> DiffWord(l[i], r[i], c[i])]
  <2>1. /\ c \in [1..9 -> {0, 1}] /\ c[1] = 0
        /\ \A i \in 1..8 : c[i + 1] = BorrowOut(l[i], r[i], c[i])
    BY BorrowChain
  <2>2. VliSub(l, r).words = s /\ VliSub(l, r).borrow = c[9]
    BY DEF VliSub
  <2> HIDE DEF c
  <2>3. \A i \in 1..8 : /\ s[i] \in Word
                       /\ l[i] - r[i] - c[i] = s[i] - WordSize * c[i + 1]
    <3> SUFFICES ASSUME NEW i \in 1..8
                 PROVE  /\ s[i] \in Word
                        /\ l[i] - r[i] - c[i] = s[i] - WordSize * c[i + 1]
      OBVIOUS
    <3>1. c[i] \in {0, 1} /\ s[i] = DiffWord(l[i], r[i], c[i]) /\ c[i + 1] = BorrowOut(l[i], r[i], c[i])
      BY <2>1
    <3> QED BY <1>0, <3>1, SubWord
  <2>4. s \in Words
    BY <2>3 DEF Words
  <2> HIDE DEF s
  <2>5. c \in [1..9 -> Int] /\ c[9] \in {0, 1}
    BY <2>1
  <2>6. \A i \in 1..8 : s[i] + r[i] + c[i] = l[i] + WordSize * c[i + 1]
    <3> SUFFICES ASSUME NEW i \in 1..8 PROVE s[i] + r[i] + c[i] = l[i] + WordSize * c[i + 1]
      OBVIOUS
    <3>1. s[i] \in Int /\ r[i] \in Int /\ c[i] \in Int /\ l[i] \in Int /\ c[i + 1] \in Int
      BY <1>0, <2>3, <2>5
    <3>2. l[i] - r[i] - c[i] = s[i] - WordSize * c[i + 1]
      BY <2>3
    <3> QED BY <3>1, <3>2, WordType
  <2>7. NumberOf(s) + NumberOf(r) = NumberOf(l) + Range8 * c[9]
    BY <1>0, <2>1, <2>4, <2>5, <2>6, CarriesAddUp
  <2> QED BY <2>2, <2>4, <2>5, <2>7
<1>3. /\ NumberOf(l) \in Int /\ NumberOf(r) \in Int /\ NumberOf(VliSub(l, r).words) \in Int
      /\ Range8 * VliSub(l, r).borrow \in Int
  <2>1. VliSub(l, r).borrow \in Int
    BY <1>2
  <2> QED BY <1>2, <1>4, <2>1, PrimePositive
<1> QED BY <1>1, <1>2, <1>3

\* Addition takes the carry into account and gives a number congruent to the
\* sum, though one summand, a hash, is not reduced; of reduced numbers the sum
\* and the difference are reduced, for every modulus of eight words
\* (uECC_vli_modAdd, uECC_vli_modSub).
THEOREM ModularSumsRight ==
  \A m \in 1..(Range8 - 1), l \in 0..(Range8 - 1) :
    \A r \in 0..(m - 1) :
      /\ ModAdd(l, r, m) \in 0..(Range8 - 1)
      /\ ModAdd(l, r, m) % m = (l + r) % m
      /\ l < m => /\ ModAdd(l, r, m) = (l + r) % m
                  /\ ModSub(l, r, m) = (l - r) % m
<1> SUFFICES ASSUME NEW m \in 1..(Range8 - 1), NEW l \in 0..(Range8 - 1), NEW r \in 0..(m - 1)
             PROVE  /\ ModAdd(l, r, m) \in 0..(Range8 - 1)
                    /\ ModAdd(l, r, m) % m = (l + r) % m
                    /\ l < m => /\ ModAdd(l, r, m) = (l + r) % m
                                /\ ModSub(l, r, m) = (l - r) % m
  OBVIOUS
<1> DEFINE w == Range8
<1>0. w \in Nat /\ m \in Nat \ {0} /\ m < w /\ l \in Nat /\ l < w /\ r \in Nat /\ r < m
  BY PrimePositive
<1>1. ModAdd(l, r, m) = IF l + r >= m THEN (l + r - m) % w ELSE l + r
  BY DEF ModAdd
<1>2. ModSub(l, r, m) = (IF l < r THEN l - r + m ELSE l - r) % w
  BY DEF ModSub
<1> HIDE DEF w
<1>3. \A x \in 0..(w - 1) : x % w = x
  BY <1>0
<1>4. \A x \in 0..(m - 1) : x % m = x
  BY <1>0
<1>5. /\ ModAdd(l, r, m) \in 0..(w - 1)
      /\ ModAdd(l, r, m) % m = (l + r) % m
      /\ l < m => ModAdd(l, r, m) \in 0..(m - 1)
  <2>1. CASE l + r >= m
    <3>1. ModAdd(l, r, m) = l + r - m /\ l + r - m \in 0..(w - 1)
      BY <1>0, <1>1, <1>3, <2>1
    <3>2. (l + r - m) % m = (l + r) % m
      BY <1>0, OnceMore
    <3>3. l < m => l + r - m \in 0..(m - 1)
      BY <1>0, <2>1
    <3> QED BY <3>1, <3>2, <3>3
  <2>2. CASE l + r < m
    <3>1. ModAdd(l, r, m) = l + r /\ l + r \in 0..(w - 1) /\ l + r \in 0..(m - 1)
      BY <1>0, <1>1, <2>2
    <3> QED BY <3>1
  <2> QED BY <1>0, <2>1, <2>2
<1>6. l < m => ModAdd(l, r, m) = (l + r) % m
  BY <1>4, <1>5
<1>7. ASSUME l < m PROVE ModSub(l, r, m) = (l - r) % m
  <2>1. CASE l < r
    <3>1. ModSub(l, r, m) = l - r + m /\ l - r + m \in 0..(m - 1)
      BY <1>0, <1>2, <1>3, <2>1
    <3>2. (l - r + m) % m = (l - r) % m
      <4> DEFINE v == l - r
      <4>1. v \in Int
        BY <1>0
      <4> HIDE DEF v
      <4>2. (v + m) % m = v % m
        BY <1>0, <4>1, OnceMore
      <4> QED BY <4>2 DEF v
    <3> QED BY <1>4, <3>1, <3>2
  <2>2. CASE l >= r
    <3>1. ModSub(l, r, m) = l - r /\ l - r \in 0..(m - 1)
      BY <1>0, <1>2, <1>3, <1>7, <2>2
    <3> QED BY <1>4, <3>1
  <2> QED BY <1>0, <2>1, <2>2
<1> QED BY <1>5, <1>6, <1>7 DEF w

\* Halving modulo an odd number, where it is added first to what is odd.
LEMMA HalfRight ==
  ASSUME NEW h \in Nat, NEW m \in Nat, m = 2 * h + 1, NEW u \in 0..(m - 1)
  PROVE  /\ Half(u, m) \in 0..(m - 1)
         /\ \E k \in {0, 1} : 2 * Half(u, m) = u + k * m
<1>1. CASE u % 2 = 0
  <2>1. Half(u, m) = u \div 2 /\ 2 * (u \div 2) = u
    BY <1>1 DEF Half
  <2> QED BY <2>1
<1>2. CASE u % 2 # 0
  <2>1. Half(u, m) = (u + m) \div 2
    BY <1>2 DEF Half
  <2>2. u = 2 * (u \div 2) + 1
    BY <1>2
  <2>3. u + m = 2 * ((u \div 2) + h + 1) /\ u \div 2 \in Nat
    BY <2>2
  <2>4. (u + m) \div 2 = (u \div 2) + h + 1
    BY <2>3
  <2> QED BY <2>1, <2>2, <2>4
<1> QED BY <1>1, <1>2

----------------------------------------------------------------------------
(* Runs of a loop: the states that its rounds go through. *)

\* What holds at the beginning of a run and is kept by each round holds in all
\* of it: Good are the rounds after which it does.
LEMMA RunInduction ==
  ASSUME NEW n \in Nat, NEW Good \in SUBSET (0..n), 0 \in Good,
         \A i \in 0..(n - 1) : i \in Good => i + 1 \in Good
  PROVE  Good = 0..n
<1> DEFINE S == {i \in Nat : i <= n => i \in Good}
<1>1. 0 \in S
  OBVIOUS
<1>2. \A i \in S : i + 1 \in S
  OBVIOUS
<1>3. S \in SUBSET Nat
  OBVIOUS
<1>4. S = Nat
  <2> HIDE DEF S
  <2> QED BY <1>1, <1>2, <1>3, NaturalsFilled
<1>5. ASSUME NEW i \in 0..n PROVE i \in Good
  <2>1. i \in Nat /\ i <= n
    OBVIOUS
  <2>2. i \in S
    BY <1>4, <2>1
  <2> QED BY <2>1, <2>2
<1> QED BY <1>5

\* The shift and subtract of uECC_vli_mmod: run goes through the rounds from
\* the multiple of the modulus that is shifted as far left as it can be, down
\* to the modulus itself; what is left then is the remainder.
THEOREM ShiftSubtractRight ==
  \A mod \in Nat \ {0}, shift \in Nat :
    \A run \in [0..(shift + 1) -> [v : Nat, multiple : Nat]] :
      /\ run[shift].multiple = mod
      /\ \A i \in 0..(shift - 1) : run[i].multiple = 2 * run[i + 1].multiple
      /\ \A i \in 0..shift : run[i + 1] = MmodRound(run[i])
      /\ run[0].v < 2 * run[0].multiple
      => run[shift + 1].v = run[0].v % mod
<1> SUFFICES ASSUME NEW mod \in Nat \ {0}, NEW shift \in Nat,
                    NEW run \in [0..(shift + 1) -> [v : Nat, multiple : Nat]],
                    run[shift].multiple = mod,
                    \A i \in 0..(shift - 1) : run[i].multiple = 2 * run[i + 1].multiple,
                    \A i \in 0..shift : run[i + 1] = MmodRound(run[i]),
                    run[0].v < 2 * run[0].multiple
             PROVE  run[shift + 1].v = run[0].v % mod
  OBVIOUS
<1>0. \A i \in 0..(shift + 1) : run[i].v \in Nat /\ run[i].multiple \in Nat
  OBVIOUS
\* Each multiple is one of the modulus: counted from the last.
<1> DEFINE Back == {k \in 0..shift : \E q \in Nat : run[shift - k].multiple = q * mod}
<1>1. Back = 0..shift
  <2>1. 0 \in Back
    <3>1. shift - 0 = shift /\ mod = 1 * mod /\ 1 \in Nat /\ 0 \in 0..shift
      OBVIOUS
    <3>2. run[shift - 0].multiple = 1 * mod
      BY <3>1
    <3>3. \E q \in Nat : run[shift - 0].multiple = q * mod
      BY ONLY <3>1, <3>2, Zenon
    <3> QED BY <3>1, <3>3
  <2>2. ASSUME NEW k \in 0..(shift - 1), k \in Back PROVE k + 1 \in Back
    <3>1. PICK q \in Nat : run[shift - k].multiple = q * mod
      BY <2>2
    <3>2. /\ shift - (k + 1) \in 0..(shift - 1) /\ (shift - (k + 1)) + 1 = shift - k
          /\ k + 1 \in 0..shift
      OBVIOUS
    <3>3. run[shift - (k + 1)].multiple = 2 * (q * mod)
      BY <3>1, <3>2
    <3>4. 2 * (q * mod) = (2 * q) * mod /\ 2 * q \in Nat
      OBVIOUS
    <3> QED BY <3>2, <3>3, <3>4
  <2>3. Back \in SUBSET (0..shift)
    OBVIOUS
  <2> HIDE DEF Back
  <2> QED BY <2>1, <2>2, <2>3, RunInduction
<1>2. \A i \in 0..shift : \E q \in Nat : run[i].multiple = q * mod
  <2> SUFFICES ASSUME NEW i \in 0..shift PROVE \E q \in Nat : run[i].multiple = q * mod
    OBVIOUS
  <2>1. shift - i \in 0..shift /\ shift - (shift - i) = i
    OBVIOUS
  <2>2. shift - i \in Back
    BY <1>1, <2>1
  <2> QED BY <2>1, <2>2
\* The rounds keep the residue and halve what is left.
<1> DEFINE Left(i) == IF i = shift + 1 THEN mod ELSE 2 * run[i].multiple
<1> DEFINE Good == {i \in 0..(shift + 1) : /\ run[i].v < Left(i)
                                          /\ \E q \in Int : run[i].v = run[0].v + q * mod}
<1>3. Good = 0..(shift + 1)
  <2>1. 0 \in Good
    <3>1. run[0].v = run[0].v + 0 * mod /\ 0 \in Int
      BY <1>0
    <3>2. \E q \in Int : run[0].v = run[0].v + q * mod
      BY ONLY <3>1, Zenon
    <3>3. 0 \in 0..(shift + 1) /\ Left(0) = 2 * run[0].multiple
      OBVIOUS
    <3> QED BY <3>2, <3>3
  <2>2. ASSUME NEW i \in 0..shift, i \in Good PROVE i + 1 \in Good
    <3>1. PICK q \in Int : run[i].v = run[0].v + q * mod
      BY <2>2
    <3>2. PICK p \in Nat : run[i].multiple = p * mod
      BY <1>2
    <3>0. run[i + 1] = MmodRound(run[i])
      OBVIOUS
    <3>3. run[i + 1].v = IF run[i].v < run[i].multiple THEN run[i].v ELSE run[i].v - run[i].multiple
      BY ONLY <3>0 DEF MmodRound
    <3>4. run[i].v < 2 * run[i].multiple
      BY <2>2
    <3>5. run[i + 1].v < run[i].multiple
      BY <1>0, <3>3, <3>4
    <3>6. run[i].multiple = Left(i + 1)
      <4>1. CASE i = shift
        BY <4>1
      <4>2. CASE i # shift
        <5>1. i \in 0..(shift - 1) /\ i + 1 # shift + 1
          BY <4>2
        <5>2. run[i].multiple = 2 * run[i + 1].multiple
          BY <5>1
        <5> QED BY <5>1, <5>2
      <4> QED BY <4>1, <4>2
    <3>7. \E k \in Int : run[i + 1].v = run[0].v + k * mod
      <4>1. run[0].v \in Int /\ q - p \in Int /\ q \in Int
        BY <1>0
      <4>2. CASE run[i].v < run[i].multiple
        BY <3>1, <3>3, <4>2
      <4>3. CASE ~ (run[i].v < run[i].multiple)
        <5>1. run[i + 1].v = (run[0].v + q * mod) - p * mod
          BY <3>1, <3>2, <3>3, <4>3
        <5>2. (run[0].v + q * mod) - p * mod = run[0].v + (q - p) * mod
          BY <4>1
        <5> QED BY <4>1, <5>1, <5>2
      <4> QED BY <4>2, <4>3
    <3>8. i + 1 \in 0..(shift + 1)
      OBVIOUS
    <3>9. run[i + 1].v < Left(i + 1)
      BY <3>5, <3>6
    <3> HIDE DEF Left
    <3> QED BY <3>7, <3>8, <3>9
  <2>3. Good \in SUBSET (0..(shift + 1)) /\ shift + 1 \in Nat /\ 0..((shift + 1) - 1) = 0..shift
    OBVIOUS
  <2> DEFINE n == shift + 1
  <2>4. n \in Nat /\ Good \in SUBSET (0..n) /\ \A i \in 0..(n - 1) : i \in Good => i + 1 \in Good
    BY <2>2, <2>3
  <2> HIDE DEF Good, n
  <2>5. Good = 0..n
    BY <2>1, <2>4, RunInduction
  <2> QED BY <2>5 DEF n
<1>4. shift + 1 \in Good
  <2>1. shift + 1 \in 0..(shift + 1)
    OBVIOUS
  <2> HIDE DEF Good
  <2> QED BY <1>3, <2>1
<1>5. PICK q \in Int : run[shift + 1].v = run[0].v + q * mod
  BY <1>4
<1> DEFINE rest == run[shift + 1].v
<1> DEFINE whole == run[0].v
<1> DEFINE k == -q
<1>6. /\ rest \in 0..(mod - 1) /\ whole \in Int /\ k \in Int /\ whole = rest + k * mod
  BY <1>0, <1>4, <1>5
<1>7. whole % mod = rest
  <2> HIDE DEF rest, whole, k
  <2> QED BY <1>6, RemainderUnique
<1> QED BY <1>7

----------------------------------------------------------------------------
(* The binary inversion. *)

\* u is to the input what a is, modulo mod.
Follows(u, a, input, mod) == \E q \in Int : u * input = a + q * mod

Coprime(a, b) == \A d \in Nat \ {0}, x, y \in Nat : a = d * x /\ b = d * y => d = 1

\* What the rounds keep of a, b, u and v.
Inverting(a, b, u, v, input, mod) ==
  /\ a \in 1..mod /\ b \in 1..mod /\ u \in 0..(mod - 1) /\ v \in 0..(mod - 1)
  /\ Follows(u, a, input, mod) /\ Follows(v, b, input, mod)
  /\ Coprime(a, b)

\* Halves follow the input as what they were halved from did.
LEMMA HalfFollows ==
  ASSUME NEW h \in Nat, NEW mod \in Nat, mod = 2 * h + 1, NEW input \in Nat,
         NEW u \in 0..(mod - 1), NEW a \in Nat, NEW half \in Nat, a = 2 * half,
         Follows(u, a, input, mod)
  PROVE  Half(u, mod) \in 0..(mod - 1) /\ Follows(Half(u, mod), half, input, mod)
<1>1. PICK q \in Int : u * input = a + q * mod
  BY DEF Follows
<1>2. PICK w \in 0..(mod - 1) : w = Half(u, mod)
  BY HalfRight
<1>3. PICK k \in {0, 1} : 2 * w = u + k * mod
  BY <1>2, HalfRight
<1> DEFINE x == w * input - half
<1> DEFINE r == q + k * input
<1> DEFINE p == x - h * r
<1>4. w \in Int /\ x \in Int /\ r \in Int /\ p \in Int
  OBVIOUS
<1>5. 2 * x = r * mod
  <2>1. 2 * (w * input) = u * input + (k * mod) * input
    <3>1. (2 * w) * input = (u + k * mod) * input
      BY <1>3
    <3> QED BY <1>4, <3>1
  <2>2. 2 * x = (a + q * mod) + (k * mod) * input - a
    BY <1>1, <1>4, <2>1
  <2> QED BY <2>2
<1>6. w * input = half + x
  BY <1>4
<1> HIDE DEF x, r
<1>7. 2 * x = 2 * (p * mod)
  <2>1. r = 2 * p
    BY <1>4, <1>5
  <2> HIDE DEF p
  <2> QED BY <1>4, <1>5, <2>1
<1>8. x = p * mod
  <2> HIDE DEF p
  <2> DEFINE y == p * mod
  <2>1. y \in Int /\ 2 * x = 2 * y
    BY <1>4, <1>7
  <2> HIDE DEF y
  <2>2. x = y
    BY <1>4, <2>1
  <2> QED BY <2>2 DEF y
<1> QED BY <1>2, <1>4, <1>6, <1>8 DEF Follows

\* So do differences.
LEMMA DifferenceFollows ==
  ASSUME NEW mod \in 1..(Range8 - 1), NEW input \in Nat,
         NEW u \in 0..(mod - 1), NEW v \in 0..(mod - 1), NEW a \in Nat, NEW b \in Nat,
         Follows(u, a, input, mod), Follows(v, b, input, mod)
  PROVE  ModSub(u, v, mod) \in 0..(mod - 1) /\ Follows(ModSub(u, v, mod), a - b, input, mod)
<1>1. PICK q \in Int : u * input = a + q * mod
  BY DEF Follows
<1>2. PICK p \in Int : v * input = b + p * mod
  BY DEF Follows
<1>3. u \in 0..(Range8 - 1) /\ u < mod /\ mod \in Nat \ {0}
  BY PrimePositive
<1>4. ModSub(u, v, mod) = (u - v) % mod
  BY <1>3, ModularSumsRight
<1> DEFINE w == u - v
<1>5. w \in Int
  OBVIOUS
<1>6. w % mod \in 0..(mod - 1) /\ w \div mod \in Int /\ w = (w \div mod) * mod + (w % mod)
  <2> HIDE DEF w
  <2> QED BY <1>3, <1>5, Remainder
<1> DEFINE x == w % mod
<1> DEFINE k == w \div mod
<1> DEFINE r == q - p - k * input
<1>7. x \in Int /\ k \in Int /\ r \in Int /\ x = u - v - k * mod
  BY <1>3, <1>6
<1>8. x * input = (a - b) + r * mod
  <2>1. x * input = (u - v - k * mod) * input
    BY <1>7
  <2> HIDE DEF x, k
  <2>2. (u - v - k * mod) * input = u * input - v * input - (k * mod) * input
    BY <1>7
  <2>3. u * input - v * input - (k * mod) * input = (a + q * mod) - (b + p * mod) - (k * mod) * input
    BY <1>1, <1>2
  <2> QED BY <1>7, <2>1, <2>2, <2>3
<1>9. \E s \in Int : x * input = (a - b) + s * mod
  <2> HIDE DEF x, r
  <2> QED BY <1>7, <1>8
<1> QED BY <1>4, <1>6, <1>9 DEF Follows

\* Divisors in common that halves, swapping and differences do not bring.
LEMMA CoprimeHalf ==
  ASSUME NEW a \in Nat, NEW b \in Nat, NEW half \in Nat, a = 2 * half, Coprime(a, b)
  PROVE  Coprime(half, b)
<1> SUFFICES ASSUME NEW d \in Nat \ {0}, NEW x \in Nat, NEW y \in Nat, half = d * x, b = d * y
             PROVE  d = 1
  BY DEF Coprime
<1>1. a = d * (2 * x) /\ 2 * x \in Nat
  OBVIOUS
<1> QED BY <1>1 DEF Coprime

LEMMA CoprimeSwap ==
  ASSUME NEW a \in Nat, NEW b \in Nat, Coprime(a, b)
  PROVE  Coprime(b, a)
BY DEF Coprime

LEMMA CoprimeDifference ==
  ASSUME NEW a \in Nat, NEW b \in Nat, NEW half \in Nat, a - b = 2 * half, Coprime(a, b)
  PROVE  Coprime(half, b)
<1> SUFFICES ASSUME NEW d \in Nat \ {0}, NEW x \in Nat, NEW y \in Nat, half = d * x, b = d * y
             PROVE  d = 1
  BY DEF Coprime
<1>1. a = d * (2 * x + y) /\ 2 * x + y \in Nat
  OBVIOUS
<1> QED BY <1>1 DEF Coprime

States == [a : Nat, b : Nat, u : Nat, v : Nat]
StateOK(s, input, mod) == s \in States /\ Inverting(s.a, s.b, s.u, s.v, input, mod)

\* A round keeps all of it and makes a + b smaller.
LEMMA InversionRoundKeeps ==
  ASSUME NEW h \in Nat, NEW mod \in 1..(Range8 - 1), mod = 2 * h + 1, NEW input \in Nat,
         NEW s, StateOK(s, input, mod), s.a # s.b
  PROVE  /\ StateOK(InversionRound(s, mod), input, mod)
         /\ InversionRound(s, mod).a + InversionRound(s, mod).b < s.a + s.b
<1> DEFINE a == s.a
<1> DEFINE b == s.b
<1> DEFINE u == s.u
<1> DEFINE v == s.v
<1>0. /\ s = [a |-> a, b |-> b, u |-> u, v |-> v]
      /\ a \in 1..mod /\ b \in 1..mod /\ u \in 0..(mod - 1) /\ v \in 0..(mod - 1) /\ a # b
      /\ Follows(u, a, input, mod) /\ Follows(v, b, input, mod) /\ Coprime(a, b)
      /\ mod \in Nat /\ mod \in Int
  BY PrimePositive DEF StateOK, Inverting, States
<1>1. InversionRound(s, mod) =
        IF a % 2 = 0 THEN [a |-> a \div 2, b |-> b, u |-> Half(u, mod), v |-> v]
        ELSE IF b % 2 = 0 THEN [a |-> a, b |-> b \div 2, u |-> u, v |-> Half(v, mod)]
        ELSE IF a > b THEN [a |-> (a - b) \div 2, b |-> b, u |-> Half(ModSub(u, v, mod), mod), v |-> v]
        ELSE [a |-> a, b |-> (b - a) \div 2, u |-> u, v |-> Half(ModSub(v, u, mod), mod)]
  BY DEF InversionRound
<1> HIDE DEF a, b, u, v
\* It is enough that the new numbers are as the invariant wants them.
<1>2. ASSUME NEW a1, NEW b1, NEW u1, NEW v1, a1 + b1 < a + b,
             InversionRound(s, mod) = [a |-> a1, b |-> b1, u |-> u1, v |-> v1],
             Inverting(a1, b1, u1, v1, input, mod)
      PROVE  /\ StateOK(InversionRound(s, mod), input, mod)
             /\ InversionRound(s, mod).a + InversionRound(s, mod).b < s.a + s.b
  <2>1. a1 \in Nat /\ b1 \in Nat /\ u1 \in Nat /\ v1 \in Nat
    BY <1>0, <1>2 DEF Inverting
  <2> DEFINE t == [a |-> a1, b |-> b1, u |-> u1, v |-> v1]
  <2>2. t \in States /\ t.a = a1 /\ t.b = b1 /\ t.u = u1 /\ t.v = v1
    BY <2>1 DEF States
  <2> QED BY <1>2, <2>2 DEF StateOK, a, b
<1>3. CASE a % 2 = 0
  <2> DEFINE half == a \div 2
  <2>1. half \in Nat /\ a = 2 * half /\ half \in 1..mod /\ half < a
    BY <1>0, <1>3
  <2> HIDE DEF half
  <2>2. Half(u, mod) \in 0..(mod - 1) /\ Follows(Half(u, mod), half, input, mod)
    BY <1>0, <2>1, HalfFollows
  <2>3. Coprime(half, b)
    BY <1>0, <2>1, CoprimeHalf
  <2>4. Inverting(half, b, Half(u, mod), v, input, mod) /\ half + b < a + b
    BY <1>0, <2>1, <2>2, <2>3 DEF Inverting
  <2>5. InversionRound(s, mod) = [a |-> half, b |-> b, u |-> Half(u, mod), v |-> v]
    BY <1>1, <1>3 DEF half
  <2> QED BY <1>2, <2>4, <2>5
<1>4. CASE a % 2 # 0 /\ b % 2 = 0
  <2> DEFINE half == b \div 2
  <2>1. half \in Nat /\ b = 2 * half /\ half \in 1..mod /\ half < b
    BY <1>0, <1>4
  <2> HIDE DEF half
  <2>2. Half(v, mod) \in 0..(mod - 1) /\ Follows(Half(v, mod), half, input, mod)
    BY <1>0, <2>1, HalfFollows
  <2>3. Coprime(a, half)
    BY <1>0, <2>1, CoprimeHalf, CoprimeSwap
  <2>4. Inverting(a, half, u, Half(v, mod), input, mod) /\ a + half < a + b
    BY <1>0, <2>1, <2>2, <2>3 DEF Inverting
  <2>5. InversionRound(s, mod) = [a |-> a, b |-> half, u |-> u, v |-> Half(v, mod)]
    BY <1>1, <1>4 DEF half
  <2> QED BY <1>2, <2>4, <2>5
<1>5. CASE a % 2 # 0 /\ b % 2 # 0 /\ a > b
  <2> DEFINE half == (a - b) \div 2
  <2> DEFINE diff == ModSub(u, v, mod)
  <2>1. half \in Nat /\ a - b = 2 * half /\ half \in 1..mod /\ half < a
    BY <1>0, <1>5
  <2> HIDE DEF half
  <2>2. diff \in 0..(mod - 1) /\ Follows(diff, a - b, input, mod)
    BY <1>0, DifferenceFollows
  <2> HIDE DEF diff
  <2>3. Half(diff, mod) \in 0..(mod - 1) /\ Follows(Half(diff, mod), half, input, mod)
    <3> DEFINE c == a - b
    <3>1. c \in Nat /\ c = 2 * half /\ Follows(diff, c, input, mod)
      BY <2>1, <2>2
    <3> HIDE DEF c
    <3> QED BY <1>0, <2>1, <2>2, <3>1, HalfFollows
  <2>4. Coprime(half, b)
    BY <1>0, <2>1, CoprimeDifference
  <2>5. Inverting(half, b, Half(diff, mod), v, input, mod) /\ half + b < a + b
    BY <1>0, <2>1, <2>3, <2>4 DEF Inverting
  <2>6. InversionRound(s, mod) = [a |-> half, b |-> b, u |-> Half(diff, mod), v |-> v]
    BY <1>1, <1>5 DEF half, diff
  <2> QED BY <1>2, <2>5, <2>6
<1>6. CASE a % 2 # 0 /\ b % 2 # 0 /\ ~ (a > b)
  <2> DEFINE half == (b - a) \div 2
  <2> DEFINE diff == ModSub(v, u, mod)
  <2>1. half \in Nat /\ b - a = 2 * half /\ half \in 1..mod /\ half < b
    BY <1>0, <1>6
  <2> HIDE DEF half
  <2>2. diff \in 0..(mod - 1) /\ Follows(diff, b - a, input, mod)
    BY <1>0, DifferenceFollows
  <2> HIDE DEF diff
  <2>3. Half(diff, mod) \in 0..(mod - 1) /\ Follows(Half(diff, mod), half, input, mod)
    <3> DEFINE c == b - a
    <3>1. c \in Nat /\ c = 2 * half /\ Follows(diff, c, input, mod)
      BY <2>1, <2>2
    <3> HIDE DEF c
    <3> QED BY <1>0, <2>1, <2>2, <3>1, HalfFollows
  <2>4. Coprime(a, half)
    <3>1. Coprime(b, a)
      BY <1>0, CoprimeSwap
    <3>2. Coprime(half, a)
      BY <1>0, <2>1, <3>1, CoprimeDifference
    <3> QED BY <1>0, <2>1, <3>2, CoprimeSwap
  <2>5. Inverting(a, half, u, Half(diff, mod), input, mod) /\ a + half < a + b
    BY <1>0, <2>1, <2>3, <2>4 DEF Inverting
  <2>6. InversionRound(s, mod) = [a |-> a, b |-> half, u |-> u, v |-> Half(diff, mod)]
    BY <1>1, <1>6 DEF half, diff
  <2> QED BY <1>2, <2>5, <2>6
<1> QED BY <1>3, <1>4, <1>5, <1>6

\* The binary inversion: each round makes a + b smaller, so that the loop ends,
\* and where it ends u is the inverse of the input, for every odd modulus of
\* eight words and every input that has no divisor in common with it
\* (uECC_vli_modInv).
THEOREM InversionRight ==
  ASSUME NEW mod \in 2..(Range8 - 1), NEW h \in Nat, mod = 2 * h + 1,
         NEW input \in 1..(mod - 1), Coprime(input, mod),
         NEW n \in Nat, NEW run \in [0..n -> States],
         run[0] = InversionStart(input, mod),
         \A i \in 0..(n - 1) : run[i].a # run[i].b /\ run[i + 1] = InversionRound(run[i], mod)
  PROVE  /\ n < input + mod
         /\ run[n].a = run[n].b => (run[n].u * input) % mod = 1
<1>0. mod \in 1..(Range8 - 1) /\ mod \in Nat \ {0} /\ mod > 1
  BY PrimePositive
<1> DEFINE Good == {i \in 0..n : /\ StateOK(run[i], input, mod)
                                /\ run[i].a + run[i].b + i <= input + mod}
<1>1. Good = 0..n
  <2>1. 0 \in Good
    <3>1. /\ run[0].a = input /\ run[0].b = mod /\ run[0].u = 1 /\ run[0].v = 0
          /\ run[0] \in States
      BY DEF InversionStart
    <3>2. Follows(1, input, input, mod) /\ Follows(0, mod, input, mod)
      <4>1. 1 * input = input + 0 * mod /\ 0 \in Int
        OBVIOUS
      <4>2. 0 * input = mod + (-1) * mod /\ -1 \in Int
        BY <1>0
      <4> QED BY ONLY <4>1, <4>2, Zenon DEF Follows
    <3>3. Inverting(input, mod, 1, 0, input, mod)
      BY <1>0, <3>2 DEF Inverting
    <3>4. 0 \in 0..n /\ input + mod + 0 <= input + mod
      BY <1>0
    <3> QED BY <3>1, <3>3, <3>4 DEF StateOK
  <2>2. ASSUME NEW i \in 0..(n - 1), i \in Good PROVE i + 1 \in Good
    <3>1. run[i].a # run[i].b /\ run[i + 1] = InversionRound(run[i], mod) /\ i + 1 \in 0..n
      OBVIOUS
    <3>2. StateOK(run[i], input, mod) /\ run[i].a + run[i].b + i <= input + mod
      BY <2>2
    <3>3. /\ StateOK(run[i + 1], input, mod)
          /\ run[i + 1].a + run[i + 1].b < run[i].a + run[i].b
      BY <1>0, <3>1, <3>2, InversionRoundKeeps
    <3>4. /\ run[i].a \in Nat /\ run[i].b \in Nat
          /\ run[i + 1].a \in Nat /\ run[i + 1].b \in Nat
      BY <3>2, <3>3 DEF StateOK, States
    <3>5. run[i + 1].a + run[i + 1].b + (i + 1) <= input + mod
      BY <1>0, <3>2, <3>3, <3>4
    <3> QED BY <3>1, <3>3, <3>5
  <2>3. Good \in SUBSET (0..n)
    OBVIOUS
  <2> HIDE DEF Good
  <2> QED BY <2>1, <2>2, <2>3, RunInduction
<1>2. StateOK(run[n], input, mod) /\ run[n].a + run[n].b + n <= input + mod
  <2>1. n \in Good
    <3>1. n \in 0..n
      OBVIOUS
    <3> HIDE DEF Good
    <3> QED BY <1>1, <3>1
  <2> QED BY <2>1
<1>3. Inverting(run[n].a, run[n].b, run[n].u, run[n].v, input, mod)
  BY <1>2 DEF StateOK
<1>4. n < input + mod
  BY <1>0, <1>2, <1>3 DEF Inverting
<1>5. ASSUME run[n].a = run[n].b PROVE (run[n].u * input) % mod = 1
  <2> DEFINE a == run[n].a
  <2> DEFINE u == run[n].u
  <2>1. a \in 1..mod /\ u \in 0..(mod - 1) /\ Follows(u, a, input, mod) /\ Coprime(a, a)
    BY <1>3, <1>5 DEF Inverting
  <2> HIDE DEF a, u
  <2>2. a = 1
    <3>1. a \in Nat \ {0} /\ a = a * 1 /\ 1 \in Nat
      BY <1>0, <2>1
    <3> QED BY <2>1, <3>1 DEF Coprime
  <2>3. PICK q \in Int : u * input = 1 + q * mod
    BY <2>1, <2>2 DEF Follows
  <2> DEFINE x == u * input
  <2>4. x \in Int /\ x = 1 + q * mod /\ 1 \in 0..(mod - 1)
    BY <1>0, <2>1, <2>3
  <2> HIDE DEF x
  <2>5. x % mod = 1
    BY <1>0, <2>4, RemainderUnique
  <2> QED BY <2>5 DEF x, u
<1> QED BY <1>4, <1>5
----------------------------------------------------------------------------
(* The product. *)

\* What the columns hold.
LEMMA ColumnTerms ==
  ASSUME NEW l \in Words, NEW r \in Words
  PROVE  /\ Column(l, r, 0) = l[1]*r[1]
         /\ Column(l, r, 1) = l[1]*r[2] + l[2]*r[1]
         /\ Column(l, r, 2) = l[1]*r[3] + l[2]*r[2] + l[3]*r[1]
         /\ Column(l, r, 3) = l[1]*r[4] + l[2]*r[3] + l[3]*r[2] + l[4]*r[1]
         /\ Column(l, r, 4) = l[1]*r[5] + l[2]*r[4] + l[3]*r[3] + l[4]*r[2] + l[5]*r[1]
         /\ Column(l, r, 5) = l[1]*r[6] + l[2]*r[5] + l[3]*r[4] + l[4]*r[3] + l[5]*r[2] + l[6]*r[1]
         /\ Column(l, r, 6) = l[1]*r[7] + l[2]*r[6] + l[3]*r[5] + l[4]*r[4] + l[5]*r[3] + l[6]*r[2] + l[7]*r[1]
         /\ Column(l, r, 7) = l[1]*r[8] + l[2]*r[7] + l[3]*r[6] + l[4]*r[5] + l[5]*r[4] + l[6]*r[3] + l[7]*r[2] + l[8]*r[1]
         /\ Column(l, r, 8) = l[2]*r[8] + l[3]*r[7] + l[4]*r[6] + l[5]*r[5] + l[6]*r[4] + l[7]*r[3] + l[8]*r[2]
         /\ Column(l, r, 9) = l[3]*r[8] + l[4]*r[7] + l[5]*r[6] + l[6]*r[5] + l[7]*r[4] + l[8]*r[3]
         /\ Column(l, r, 10) = l[4]*r[8] + l[5]*r[7] + l[6]*r[6] + l[7]*r[5] + l[8]*r[4]
         /\ Column(l, r, 11) = l[5]*r[8] + l[6]*r[7] + l[7]*r[6] + l[8]*r[5]
         /\ Column(l, r, 12) = l[6]*r[8] + l[7]*r[7] + l[8]*r[6]
         /\ Column(l, r, 13) = l[7]*r[8] + l[8]*r[7]
         /\ Column(l, r, 14) = l[8]*r[8]
         /\ Column(l, r, 15) = 0
<1>0. \A i \in 1..8, j \in 1..8 : l[i] * r[j] \in Int
  BY WordType DEF Words, Word
<1>1. Column(l, r, 0) = l[1]*r[1]
  BY ONLY <1>0 DEF Column, SumOf
<1>2. Column(l, r, 1) = l[1]*r[2] + l[2]*r[1]
  BY ONLY <1>0 DEF Column, SumOf
<1>3. Column(l, r, 2) = l[1]*r[3] + l[2]*r[2] + l[3]*r[1]
  BY ONLY <1>0 DEF Column, SumOf
<1>4. Column(l, r, 3) = l[1]*r[4] + l[2]*r[3] + l[3]*r[2] + l[4]*r[1]
  BY ONLY <1>0 DEF Column, SumOf
<1>5. Column(l, r, 4) = l[1]*r[5] + l[2]*r[4] + l[3]*r[3] + l[4]*r[2] + l[5]*r[1]
  BY ONLY <1>0 DEF Column, SumOf
<1>6. Column(l, r, 5) = l[1]*r[6] + l[2]*r[5] + l[3]*r[4] + l[4]*r[3] + l[5]*r[2] + l[6]*r[1]
  BY ONLY <1>0 DEF Column, SumOf
<1>7. Column(l, r, 6) = l[1]*r[7] + l[2]*r[6] + l[3]*r[5] + l[4]*r[4] + l[5]*r[3] + l[6]*r[2] + l[7]*r[1]
  BY ONLY <1>0 DEF Column, SumOf
<1>8. Column(l, r, 7) = l[1]*r[8] + l[2]*r[7] + l[3]*r[6] + l[4]*r[5] + l[5]*r[4] + l[6]*r[3] + l[7]*r[2] + l[8]*r[1]
  BY ONLY <1>0 DEF Column, SumOf
<1>9. Column(l, r, 8) = l[2]*r[8] + l[3]*r[7] + l[4]*r[6] + l[5]*r[5] + l[6]*r[4] + l[7]*r[3] + l[8]*r[2]
  BY ONLY <1>0 DEF Column, SumOf
<1>10. Column(l, r, 9) = l[3]*r[8] + l[4]*r[7] + l[5]*r[6] + l[6]*r[5] + l[7]*r[4] + l[8]*r[3]
  BY ONLY <1>0 DEF Column, SumOf
<1>11. Column(l, r, 10) = l[4]*r[8] + l[5]*r[7] + l[6]*r[6] + l[7]*r[5] + l[8]*r[4]
  BY ONLY <1>0 DEF Column, SumOf
<1>12. Column(l, r, 11) = l[5]*r[8] + l[6]*r[7] + l[7]*r[6] + l[8]*r[5]
  BY ONLY <1>0 DEF Column, SumOf
<1>13. Column(l, r, 12) = l[6]*r[8] + l[7]*r[7] + l[8]*r[6]
  BY ONLY <1>0 DEF Column, SumOf
<1>14. Column(l, r, 13) = l[7]*r[8] + l[8]*r[7]
  BY ONLY <1>0 DEF Column, SumOf
<1>15. Column(l, r, 14) = l[8]*r[8]
  BY ONLY <1>0 DEF Column, SumOf
<1>16. Column(l, r, 15) = 0
  BY ONLY <1>0 DEF Column, SumOf
<1> QED BY ONLY <1>1, <1>2, <1>3, <1>4, <1>5, <1>6, <1>7, <1>8, <1>9, <1>10, <1>11, <1>12,
        <1>13, <1>14, <1>15, <1>16

\* A word of the product, and what goes to the next column.
LEMMA ColumnStep ==
  ASSUME NEW below \in Nat, NEW column \in Nat, NEW b \in Nat \ {0}
  PROVE  /\ (below + column) \div b \in Nat /\ (below + column) % b \in 0..(b - 1)
         /\ below + column = ((below + column) % b) + b * ((below + column) \div b)
<1> DEFINE v == below + column
<1>1. v \in Nat
  OBVIOUS
<1> HIDE DEF v
<1>2. v \div b \in Nat /\ v % b \in 0..(b - 1) /\ v = (v % b) + b * (v \div b)
  BY <1>1
<1> QED BY <1>2 DEF v

\* d is c, of n numbers, with e after it.
Extends(d, n, c, e) ==
  Len(c) = n /\ d \in [1..(n + 1) -> Nat] /\ d[n + 1] = e /\ \A i \in 1..n : d[i] = c[i]

LEMMA Longer ==
  ASSUME NEW n \in Nat, NEW c \in [1..n -> Nat], NEW e \in Nat
  PROVE  Extends(Append(c, e), n, c, e)
<1>1. c \in Seq(Nat)
  BY SeqDef
<1>2. Len(c) = n
  BY <1>1, LenProperties
<1>3. Append(c, e) \in Seq(Nat)
  BY <1>1
<1>4. Len(Append(c, e)) = n + 1
  BY <1>1, <1>2
<1>5. Append(c, e)[n + 1] = e
  BY <1>1, <1>2
<1>6. \A i \in 1..n : Append(c, e)[i] = c[i]
  BY <1>1, <1>2
<1>7. Append(c, e) \in [1..(n + 1) -> Nat]
  BY <1>3, <1>4, LenProperties
<1> QED BY <1>2, <1>5, <1>6, <1>7, Zenon DEF Extends

\* What the columns up to one leave, and the one above it.
Stacked(column, c, n) ==
  /\ c \in [1..n -> Nat] /\ c[1] = 0
  /\ \A k \in 0..(n - 2) : c[k + 2] = Above(column[k], c[k + 1])

LEMMA StackedUp ==
  ASSUME NEW column \in [0..14 -> Nat], NEW n \in 1..15, NEW c, Stacked(column, c, n)
  PROVE  Stacked(column, Stack(column, c), n + 1)
<1>1. c \in [1..n -> Nat] /\ c[1] = 0
  BY Zenon DEF Stacked
<1>2. n \in Nat /\ n \in 1..n /\ n - 1 \in 0..14
  OBVIOUS
<1>3. Above(column[n - 1], c[n]) \in Nat
  <2>1. c[n] \in Nat
    BY <1>1, <1>2, Zenon
  <2>2. column[n - 1] \in Nat
    BY <1>2, Zenon
  <2>3. WordSize \in Nat \ {0}
    BY WordType
  <2> QED BY <2>1, <2>2, <2>3, ColumnStep, Zenon DEF Above
<1>4. PICK above : above \in Nat /\ above = Above(column[n - 1], c[n])
  BY <1>3, Zenon
<1>5. PICK d : d = Append(c, above)
  BY Zenon
<1>6. /\ Len(c) = n /\ d \in [1..(n + 1) -> Nat] /\ d[n + 1] = above
      /\ \A i \in 1..n : d[i] = c[i]
  <2>1. Extends(Append(c, above), n, c, above)
    BY <1>1, <1>2, <1>4, Longer, Zenon
  <2> QED BY <1>5, <2>1, Zenon DEF Extends
<1>7. ASSUME NEW k \in 0..((n + 1) - 2) PROVE d[k + 2] = Above(column[k], d[k + 1])
  <2>1. k + 1 \in 1..n /\ (k = n - 1 \/ (k \in 0..(n - 2) /\ k + 2 \in 1..n))
    BY <1>2
  <2>2. d[k + 1] = c[k + 1]
    BY <1>6, <2>1
  <2>3. CASE k = n - 1
    <3>1. k + 2 = n + 1 /\ k + 1 = n
      BY <1>2, <2>3
    <3> QED BY <1>4, <1>6, <2>2, <2>3, <3>1
  <2>4. CASE k \in 0..(n - 2) /\ k + 2 \in 1..n
    <3>1. c[k + 2] = Above(column[k], c[k + 1])
      BY <2>4, Zenon DEF Stacked
    <3>2. d[k + 2] = c[k + 2]
      BY <1>6, <2>4
    <3> QED BY <2>2, <3>1, <3>2
  <2> QED BY <2>1, <2>3, <2>4
<1>8. d[1] = 0
  BY <1>1, <1>2, <1>6
<1>9. Stacked(column, d, n + 1)
  BY <1>6, <1>7, <1>8, Zenon DEF Stacked
<1>10. Stack(column, c) = d
  <2>1. Len(c) = n
    BY <1>6, Zenon
  <2>2. Stack(column, c) = Append(c, Above(column[n - 1], c[n]))
    BY <2>1, Zenon DEF Stack
  <2> QED BY <1>4, <1>5, <2>2, Zenon
<1> QED BY <1>9, <1>10, Zenon

LEMMA FiveStackedUp ==
  ASSUME NEW column \in [0..14 -> Nat], NEW n \in 1..11, NEW c, Stacked(column, c, n)
  PROVE  Stacked(column, Stack5(column, c), n + 5)
<1>1. PICK c1 : c1 = Stack(column, c)
  BY Zenon
<1>2. PICK c2 : c2 = Stack(column, c1)
  BY Zenon
<1>3. PICK c3 : c3 = Stack(column, c2)
  BY Zenon
<1>4. PICK c4 : c4 = Stack(column, c3)
  BY Zenon
<1>5. PICK c5 : c5 = Stack(column, c4)
  BY Zenon
<1>6. /\ n \in 1..15 /\ n + 1 \in 1..15 /\ n + 2 \in 1..15 /\ n + 3 \in 1..15 /\ n + 4 \in 1..15
      /\ (n + 1) + 1 = n + 2 /\ (n + 2) + 1 = n + 3 /\ (n + 3) + 1 = n + 4 /\ (n + 4) + 1 = n + 5
  OBVIOUS
<1>7. Stacked(column, c1, n + 1)
  BY <1>1, <1>6, StackedUp, Zenon
<1>8. Stacked(column, c2, n + 2)
  BY <1>2, <1>6, <1>7, StackedUp, Zenon
<1>9. Stacked(column, c3, n + 3)
  BY <1>3, <1>6, <1>8, StackedUp, Zenon
<1>10. Stacked(column, c4, n + 4)
  BY <1>4, <1>6, <1>9, StackedUp, Zenon
<1>11. Stacked(column, c5, n + 5)
  BY <1>5, <1>6, <1>10, StackedUp, Zenon
<1>12. Stack5(column, c) = c5
  BY <1>1, <1>2, <1>3, <1>4, <1>5, Zenon DEF Stack5
<1> QED BY <1>11, <1>12, Zenon

LEMMA AccumulatedStacked ==
  ASSUME NEW column \in [0..14 -> Nat]
  PROVE  Stacked(column, Accumulated(column), 16)
<1>1. Stacked(column, <<0>>, 1)
  <2>1. <<0>> \in [1..1 -> Nat] /\ <<0>>[1] = 0
    OBVIOUS
  <2>2. 0..(1 - 2) = {}
    OBVIOUS
  <2> QED BY <2>1, <2>2, Zenon DEF Stacked
<1>2. 1 \in 1..11 /\ 6 \in 1..11 /\ 11 \in 1..11 /\ 1 + 5 = 6 /\ 6 + 5 = 11 /\ 11 + 5 = 16
  OBVIOUS
<1>3. Stacked(column, Stack5(column, <<0>>), 6)
  BY <1>1, <1>2, FiveStackedUp, Zenon
<1>4. Stacked(column, Stack5(column, Stack5(column, <<0>>)), 11)
  BY <1>2, <1>3, FiveStackedUp, Zenon
<1>5. Stacked(column, Stack5(column, Stack5(column, Stack5(column, <<0>>))), 16)
  BY <1>2, <1>4, FiveStackedUp, Zenon
<1> QED BY <1>5, Zenon DEF Accumulated

\* Each column takes what the one below leaves.
LEMMA ColumnsUp ==
  ASSUME NEW l \in Words, NEW r \in Words
  PROVE  /\ Columns(l, r) \in [1..16 -> Nat] /\ Columns(l, r)[1] = 0
         /\ \A k \in 0..14 : Columns(l, r)[k + 2] = Above(Column(l, r, k), Columns(l, r)[k + 1])
         /\ \A k \in 0..15 : Column(l, r, k) \in Nat
<1>0. \A i \in 1..8, j \in 1..8 : l[i] * r[j] \in Nat
  BY WordType DEF Words, Word
<1>1. ASSUME NEW k \in 0..15 PROVE Column(l, r, k) \in Nat
  <2> DEFINE terms == [i \in 1..8 |-> IF k + 2 - i \in 1..8 THEN l[i] * r[k + 2 - i] ELSE 0]
  <2>1. \A i \in 1..8 : terms[i] \in Nat
    BY <1>0
  <2>2. Column(l, r, k) = SumOf(terms)
    BY DEF Column
  <2> HIDE DEF terms
  <2> QED BY <2>1, <2>2 DEF SumOf
<1> DEFINE column == [k \in 0..14 |-> Column(l, r, k)]
<1>2. column \in [0..14 -> Nat]
  BY <1>1
<1>3. Stacked(column, Columns(l, r), 16)
  <2> HIDE DEF column
  <2>1. Stacked(column, Accumulated(column), 16)
    BY <1>2, AccumulatedStacked
  <2> QED BY <2>1 DEF Columns, column
<1>4. \A k \in 0..14 : column[k] = Column(l, r, k)
  OBVIOUS
<1> HIDE DEF column
<1> QED BY <1>1, <1>3, <1>4 DEF Stacked

\* The numbers that the columns leave add up, b being the base: T is what the
\* words from one on make, S what the columns from it on do.
LEMMA Telescope ==
  ASSUME NEW b \in Int, NEW a \in Int, NEW column \in Int, NEW word \in Int, NEW above \in Int,
         NEW S \in Int, NEW T \in Int, a + column = word + b * above, T = above + S
  PROVE  word + b * T = a + (column + b * S)
<1>1. b * T = b * above + b * S
  OBVIOUS
<1> QED BY <1>1

\* The number in base b that w[0] to w[14] make with top above them.
Sixteen(b, w, top) ==
  Horner(b, w[0], w[1], w[2], w[3], w[4], w[5], w[6], w[7])
  + b*b*b*b*b*b*b*b * Horner(b, w[8], w[9], w[10], w[11], w[12], w[13], w[14], top)

\* Words that take what the columns hold, carrying the rest up.
LEMMA ColumnsAddUp ==
  ASSUME NEW b \in Int, NEW a \in [1..16 -> Int], NEW column \in [0..14 -> Int],
         NEW word \in [0..14 -> Int], a[1] = 0,
         \A k \in 0..14 : a[k + 1] + column[k] = word[k] + b * a[k + 2]
  PROVE  Sixteen(b, word, a[16]) = Sixteen(b, column, 0)
<1>1. PICK a0, o0, w0 \in Int : a0 = a[1] /\ o0 = column[0] /\ w0 = word[0]
  OBVIOUS
<1>2. PICK a1, o1, w1 \in Int : a1 = a[2] /\ o1 = column[1] /\ w1 = word[1]
  OBVIOUS
<1>3. PICK a2, o2, w2 \in Int : a2 = a[3] /\ o2 = column[2] /\ w2 = word[2]
  OBVIOUS
<1>4. PICK a3, o3, w3 \in Int : a3 = a[4] /\ o3 = column[3] /\ w3 = word[3]
  OBVIOUS
<1>5. PICK a4, o4, w4 \in Int : a4 = a[5] /\ o4 = column[4] /\ w4 = word[4]
  OBVIOUS
<1>6. PICK a5, o5, w5 \in Int : a5 = a[6] /\ o5 = column[5] /\ w5 = word[5]
  OBVIOUS
<1>7. PICK a6, o6, w6 \in Int : a6 = a[7] /\ o6 = column[6] /\ w6 = word[6]
  OBVIOUS
<1>8. PICK a7, o7, w7 \in Int : a7 = a[8] /\ o7 = column[7] /\ w7 = word[7]
  OBVIOUS
<1>9. PICK a8, o8, w8 \in Int : a8 = a[9] /\ o8 = column[8] /\ w8 = word[8]
  OBVIOUS
<1>10. PICK a9, o9, w9 \in Int : a9 = a[10] /\ o9 = column[9] /\ w9 = word[9]
  OBVIOUS
<1>11. PICK a10, o10, w10 \in Int : a10 = a[11] /\ o10 = column[10] /\ w10 = word[10]
  OBVIOUS
<1>12. PICK a11, o11, w11 \in Int : a11 = a[12] /\ o11 = column[11] /\ w11 = word[11]
  OBVIOUS
<1>13. PICK a12, o12, w12 \in Int : a12 = a[13] /\ o12 = column[12] /\ w12 = word[12]
  OBVIOUS
<1>14. PICK a13, o13, w13 \in Int : a13 = a[14] /\ o13 = column[13] /\ w13 = word[13]
  OBVIOUS
<1>15. PICK a14, o14, w14 \in Int : a14 = a[15] /\ o14 = column[14] /\ w14 = word[14]
  OBVIOUS
<1>16. PICK a15 \in Int : a15 = a[16]
  OBVIOUS
<1> DEFINE S15 == 0
<1> DEFINE T15 == a15
<1>20. T15 = a15 + S15 /\ T15 \in Int /\ S15 \in Int
  OBVIOUS
<1> HIDE DEF S15, T15
<1> DEFINE S14 == o14 + b * S15
<1> DEFINE T14 == w14 + b * T15
<1>21. T14 = a14 + S14 /\ T14 \in Int /\ S14 \in Int
  <2>1. a14 + o14 = w14 + b * a15
    BY <1>15, <1>16
  <2>2. T14 = a14 + S14
    BY ONLY <1>20, <2>1, Telescope, b \in Int, a14 \in Int, o14 \in Int, w14 \in Int, a15 \in Int
  <2>3. T14 \in Int /\ S14 \in Int
    BY <1>20
  <2> QED BY <2>2, <2>3
<1> HIDE DEF S14, T14
<1> DEFINE S13 == o13 + b * S14
<1> DEFINE T13 == w13 + b * T14
<1>22. T13 = a13 + S13 /\ T13 \in Int /\ S13 \in Int
  <2>1. a13 + o13 = w13 + b * a14
    BY <1>14, <1>15
  <2>2. T13 = a13 + S13
    BY ONLY <1>21, <2>1, Telescope, b \in Int, a13 \in Int, o13 \in Int, w13 \in Int, a14 \in Int
  <2>3. T13 \in Int /\ S13 \in Int
    BY <1>21
  <2> QED BY <2>2, <2>3
<1> HIDE DEF S13, T13
<1> DEFINE S12 == o12 + b * S13
<1> DEFINE T12 == w12 + b * T13
<1>23. T12 = a12 + S12 /\ T12 \in Int /\ S12 \in Int
  <2>1. a12 + o12 = w12 + b * a13
    BY <1>13, <1>14
  <2>2. T12 = a12 + S12
    BY ONLY <1>22, <2>1, Telescope, b \in Int, a12 \in Int, o12 \in Int, w12 \in Int, a13 \in Int
  <2>3. T12 \in Int /\ S12 \in Int
    BY <1>22
  <2> QED BY <2>2, <2>3
<1> HIDE DEF S12, T12
<1> DEFINE S11 == o11 + b * S12
<1> DEFINE T11 == w11 + b * T12
<1>24. T11 = a11 + S11 /\ T11 \in Int /\ S11 \in Int
  <2>1. a11 + o11 = w11 + b * a12
    BY <1>12, <1>13
  <2>2. T11 = a11 + S11
    BY ONLY <1>23, <2>1, Telescope, b \in Int, a11 \in Int, o11 \in Int, w11 \in Int, a12 \in Int
  <2>3. T11 \in Int /\ S11 \in Int
    BY <1>23
  <2> QED BY <2>2, <2>3
<1> HIDE DEF S11, T11
<1> DEFINE S10 == o10 + b * S11
<1> DEFINE T10 == w10 + b * T11
<1>25. T10 = a10 + S10 /\ T10 \in Int /\ S10 \in Int
  <2>1. a10 + o10 = w10 + b * a11
    BY <1>11, <1>12
  <2>2. T10 = a10 + S10
    BY ONLY <1>24, <2>1, Telescope, b \in Int, a10 \in Int, o10 \in Int, w10 \in Int, a11 \in Int
  <2>3. T10 \in Int /\ S10 \in Int
    BY <1>24
  <2> QED BY <2>2, <2>3
<1> HIDE DEF S10, T10
<1> DEFINE S9 == o9 + b * S10
<1> DEFINE T9 == w9 + b * T10
<1>26. T9 = a9 + S9 /\ T9 \in Int /\ S9 \in Int
  <2>1. a9 + o9 = w9 + b * a10
    BY <1>10, <1>11
  <2>2. T9 = a9 + S9
    BY ONLY <1>25, <2>1, Telescope, b \in Int, a9 \in Int, o9 \in Int, w9 \in Int, a10 \in Int
  <2>3. T9 \in Int /\ S9 \in Int
    BY <1>25
  <2> QED BY <2>2, <2>3
<1> HIDE DEF S9, T9
<1> DEFINE S8 == o8 + b * S9
<1> DEFINE T8 == w8 + b * T9
<1>27. T8 = a8 + S8 /\ T8 \in Int /\ S8 \in Int
  <2>1. a8 + o8 = w8 + b * a9
    BY <1>9, <1>10
  <2>2. T8 = a8 + S8
    BY ONLY <1>26, <2>1, Telescope, b \in Int, a8 \in Int, o8 \in Int, w8 \in Int, a9 \in Int
  <2>3. T8 \in Int /\ S8 \in Int
    BY <1>26
  <2> QED BY <2>2, <2>3
<1> HIDE DEF S8, T8
<1> DEFINE S7 == o7 + b * S8
<1> DEFINE T7 == w7 + b * T8
<1>28. T7 = a7 + S7 /\ T7 \in Int /\ S7 \in Int
  <2>1. a7 + o7 = w7 + b * a8
    BY <1>8, <1>9
  <2>2. T7 = a7 + S7
    BY ONLY <1>27, <2>1, Telescope, b \in Int, a7 \in Int, o7 \in Int, w7 \in Int, a8 \in Int
  <2>3. T7 \in Int /\ S7 \in Int
    BY <1>27
  <2> QED BY <2>2, <2>3
<1> HIDE DEF S7, T7
<1> DEFINE S6 == o6 + b * S7
<1> DEFINE T6 == w6 + b * T7
<1>29. T6 = a6 + S6 /\ T6 \in Int /\ S6 \in Int
  <2>1. a6 + o6 = w6 + b * a7
    BY <1>7, <1>8
  <2>2. T6 = a6 + S6
    BY ONLY <1>28, <2>1, Telescope, b \in Int, a6 \in Int, o6 \in Int, w6 \in Int, a7 \in Int
  <2>3. T6 \in Int /\ S6 \in Int
    BY <1>28
  <2> QED BY <2>2, <2>3
<1> HIDE DEF S6, T6
<1> DEFINE S5 == o5 + b * S6
<1> DEFINE T5 == w5 + b * T6
<1>30. T5 = a5 + S5 /\ T5 \in Int /\ S5 \in Int
  <2>1. a5 + o5 = w5 + b * a6
    BY <1>6, <1>7
  <2>2. T5 = a5 + S5
    BY ONLY <1>29, <2>1, Telescope, b \in Int, a5 \in Int, o5 \in Int, w5 \in Int, a6 \in Int
  <2>3. T5 \in Int /\ S5 \in Int
    BY <1>29
  <2> QED BY <2>2, <2>3
<1> HIDE DEF S5, T5
<1> DEFINE S4 == o4 + b * S5
<1> DEFINE T4 == w4 + b * T5
<1>31. T4 = a4 + S4 /\ T4 \in Int /\ S4 \in Int
  <2>1. a4 + o4 = w4 + b * a5
    BY <1>5, <1>6
  <2>2. T4 = a4 + S4
    BY ONLY <1>30, <2>1, Telescope, b \in Int, a4 \in Int, o4 \in Int, w4 \in Int, a5 \in Int
  <2>3. T4 \in Int /\ S4 \in Int
    BY <1>30
  <2> QED BY <2>2, <2>3
<1> HIDE DEF S4, T4
<1> DEFINE S3 == o3 + b * S4
<1> DEFINE T3 == w3 + b * T4
<1>32. T3 = a3 + S3 /\ T3 \in Int /\ S3 \in Int
  <2>1. a3 + o3 = w3 + b * a4
    BY <1>4, <1>5
  <2>2. T3 = a3 + S3
    BY ONLY <1>31, <2>1, Telescope, b \in Int, a3 \in Int, o3 \in Int, w3 \in Int, a4 \in Int
  <2>3. T3 \in Int /\ S3 \in Int
    BY <1>31
  <2> QED BY <2>2, <2>3
<1> HIDE DEF S3, T3
<1> DEFINE S2 == o2 + b * S3
<1> DEFINE T2 == w2 + b * T3
<1>33. T2 = a2 + S2 /\ T2 \in Int /\ S2 \in Int
  <2>1. a2 + o2 = w2 + b * a3
    BY <1>3, <1>4
  <2>2. T2 = a2 + S2
    BY ONLY <1>32, <2>1, Telescope, b \in Int, a2 \in Int, o2 \in Int, w2 \in Int, a3 \in Int
  <2>3. T2 \in Int /\ S2 \in Int
    BY <1>32
  <2> QED BY <2>2, <2>3
<1> HIDE DEF S2, T2
<1> DEFINE S1 == o1 + b * S2
<1> DEFINE T1 == w1 + b * T2
<1>34. T1 = a1 + S1 /\ T1 \in Int /\ S1 \in Int
  <2>1. a1 + o1 = w1 + b * a2
    BY <1>2, <1>3
  <2>2. T1 = a1 + S1
    BY ONLY <1>33, <2>1, Telescope, b \in Int, a1 \in Int, o1 \in Int, w1 \in Int, a2 \in Int
  <2>3. T1 \in Int /\ S1 \in Int
    BY <1>33
  <2> QED BY <2>2, <2>3
<1> HIDE DEF S1, T1
<1> DEFINE S0 == o0 + b * S1
<1> DEFINE T0 == w0 + b * T1
<1>35. T0 = a0 + S0 /\ T0 \in Int /\ S0 \in Int
  <2>1. a0 + o0 = w0 + b * a1
    BY <1>1, <1>2
  <2>2. T0 = a0 + S0
    BY ONLY <1>34, <2>1, Telescope, b \in Int, a0 \in Int, o0 \in Int, w0 \in Int, a1 \in Int
  <2>3. T0 \in Int /\ S0 \in Int
    BY <1>34
  <2> QED BY <2>2, <2>3
<1> HIDE DEF S0, T0
<1>40. T0 = S0
  <2>1. a0 = 0
    BY <1>1
  <2> QED BY <1>35, <2>1
<1>41. T0 = Horner(b, w0, w1, w2, w3, w4, w5, w6, w7)
            + b*b*b*b*b*b*b*b * Horner(b, w8, w9, w10, w11, w12, w13, w14, a15)
  <2>1. T8 = Horner(b, w8, w9, w10, w11, w12, w13, w14, a15)
    BY DEF T8, T9, T10, T11, T12, T13, T14, T15, Horner
  <2>2. T0 = w0 + b * (w1 + b * (w2 + b * (w3 + b * (w4 + b * (w5 + b * (w6 + b * (w7 + b * T8)))))))
    BY DEF T0, T1, T2, T3, T4, T5, T6, T7
  <2>3. T8 \in Int
    BY <1>27
  <2>4. w0 + b * (w1 + b * (w2 + b * (w3 + b * (w4 + b * (w5 + b * (w6 + b * (w7 + b * T8)))))))
        = Horner(b, w0, w1, w2, w3, w4, w5, w6, w7) + b*b*b*b*b*b*b*b * T8
    BY <2>3 DEF Horner
  <2> QED BY <2>1, <2>2, <2>4
<1>42. S0 = Horner(b, o0, o1, o2, o3, o4, o5, o6, o7)
            + b*b*b*b*b*b*b*b * Horner(b, o8, o9, o10, o11, o12, o13, o14, 0)
  <2>1. S8 = Horner(b, o8, o9, o10, o11, o12, o13, o14, 0)
    BY DEF S8, S9, S10, S11, S12, S13, S14, S15, Horner
  <2>2. S0 = o0 + b * (o1 + b * (o2 + b * (o3 + b * (o4 + b * (o5 + b * (o6 + b * (o7 + b * S8)))))))
    BY DEF S0, S1, S2, S3, S4, S5, S6, S7
  <2>3. S8 \in Int
    BY <1>27
  <2>4. o0 + b * (o1 + b * (o2 + b * (o3 + b * (o4 + b * (o5 + b * (o6 + b * (o7 + b * S8)))))))
        = Horner(b, o0, o1, o2, o3, o4, o5, o6, o7) + b*b*b*b*b*b*b*b * S8
    BY <2>3 DEF Horner
  <2> QED BY <2>1, <2>2, <2>4
<1> QED BY <1>40, <1>41, <1>42, <1>1, <1>2, <1>3, <1>4, <1>5, <1>6, <1>7, <1>8, <1>9, <1>10,
        <1>11, <1>12, <1>13, <1>14, <1>15, <1>16 DEF Sixteen

\* What eight words make is less than their range.
LEMMA NumberRange ==
  ASSUME NEW w \in Words
  PROVE  NumberOf(w) \in 0..(Range8 - 1)
<1> DEFINE b == WordSize
<1>1. b \in Nat \ {0} /\ \A i \in 1..8 : w[i] \in 0..(b - 1)
  BY WordType DEF Words, Word
<1>2. ASSUME NEW m \in Nat, NEW x \in 0..(m - 1), NEW y \in 0..(b - 1)
      PROVE  y + b * x \in 0..(b * m - 1) /\ b * m \in Nat
  <2>1. b * x \in Nat /\ b * m \in Nat /\ b * x <= b * m - b
    <3>1. b * (m - 1 - x) >= 0
      BY <1>1
    <3> QED BY <1>1, <3>1
  <2> QED BY <1>1, <2>1
<1> DEFINE n8 == w[8]
<1> DEFINE m8 == b
<1>8. n8 \in 0..(m8 - 1) /\ m8 \in Nat
  BY <1>1
<1> HIDE DEF n8, m8
<1> DEFINE n7 == w[7] + b * n8
<1> DEFINE m7 == b * m8
<1>9. n7 \in 0..(m7 - 1) /\ m7 \in Nat
  BY <1>1, <1>2, <1>8
<1> HIDE DEF n7, m7
<1> DEFINE n6 == w[6] + b * n7
<1> DEFINE m6 == b * m7
<1>10. n6 \in 0..(m6 - 1) /\ m6 \in Nat
  BY <1>1, <1>2, <1>9
<1> HIDE DEF n6, m6
<1> DEFINE n5 == w[5] + b * n6
<1> DEFINE m5 == b * m6
<1>11. n5 \in 0..(m5 - 1) /\ m5 \in Nat
  BY <1>1, <1>2, <1>10
<1> HIDE DEF n5, m5
<1> DEFINE n4 == w[4] + b * n5
<1> DEFINE m4 == b * m5
<1>12. n4 \in 0..(m4 - 1) /\ m4 \in Nat
  BY <1>1, <1>2, <1>11
<1> HIDE DEF n4, m4
<1> DEFINE n3 == w[3] + b * n4
<1> DEFINE m3 == b * m4
<1>13. n3 \in 0..(m3 - 1) /\ m3 \in Nat
  BY <1>1, <1>2, <1>12
<1> HIDE DEF n3, m3
<1> DEFINE n2 == w[2] + b * n3
<1> DEFINE m2 == b * m3
<1>14. n2 \in 0..(m2 - 1) /\ m2 \in Nat
  BY <1>1, <1>2, <1>13
<1> HIDE DEF n2, m2
<1> DEFINE n1 == w[1] + b * n2
<1> DEFINE m1 == b * m2
<1>15. n1 \in 0..(m1 - 1) /\ m1 \in Nat
  BY <1>1, <1>2, <1>14
<1> HIDE DEF n1, m1
<1>16. NumberOf(w) = n1
  BY DEF NumberOf, n1, n2, n3, n4, n5, n6, n7, n8
<1>17. Range8 = m1
  <2>1. m1 = b * (b * (b * (b * (b * (b * (b * b))))))
    BY DEF m1, m2, m3, m4, m5, m6, m7, m8
  <2>2. b * (b * (b * (b * (b * (b * (b * b)))))) = b*b*b*b*b*b*b*b
    BY <1>1
  <2> QED BY <2>1, <2>2, PrimeForm
<1> QED BY <1>15, <1>16, <1>17

\* The product (uECC_vli_mult): its sixteen words are those of the product, and
\* no column runs over r2 if a word has at least eight values.
THEOREM ProductRight ==
  \A l, r \in Words :
    /\ VliMult(l, r) \in Products
    /\ ProductOf(VliMult(l, r)) = NumberOf(l) * NumberOf(r)
    /\ WordSize >= 8 =>
         \A k \in 0..14 : Columns(l, r)[k + 1] + Column(l, r, k) < WordSize * WordSize * WordSize
<1> SUFFICES ASSUME NEW l \in Words, NEW r \in Words
             PROVE  /\ VliMult(l, r) \in Products
                    /\ ProductOf(VliMult(l, r)) = NumberOf(l) * NumberOf(r)
                    /\ WordSize >= 8 =>
                         \A k \in 0..14 : Columns(l, r)[k + 1] + Column(l, r, k)
                                         < WordSize * WordSize * WordSize
  OBVIOUS
<1> DEFINE b == WordSize
<1> DEFINE c == VliMult(l, r)
<1> DEFINE a == Columns(l, r)
<1> DEFINE column == [k \in 0..14 |-> Column(l, r, k)]
<1> DEFINE word == [k \in 0..14 |-> c[k]]
<1>1. b \in Nat \ {0} /\ b \in Int
  BY WordType
<1>2. /\ a \in [1..16 -> Nat] /\ a[1] = 0
      /\ \A k \in 0..14 : a[k + 2] = (a[k + 1] + Column(l, r, k)) \div b
      /\ \A k \in 0..15 : Column(l, r, k) \in Nat
  BY ColumnsUp DEF Above
<1>3. c = [k \in 0..15 |-> (a[k + 1] + Column(l, r, k)) % b]
  BY DEF VliMult
<1> HIDE DEF a, c
<1>4. \A k \in 0..15 : a[k + 1] \in Nat /\ c[k] = (a[k + 1] + Column(l, r, k)) % b
  BY <1>2, <1>3
<1>5. \A k \in 0..15 : /\ c[k] \in 0..(b - 1)
                       /\ a[k + 1] + Column(l, r, k)
                          = c[k] + b * ((a[k + 1] + Column(l, r, k)) \div b)
  <2> SUFFICES ASSUME NEW k \in 0..15
               PROVE  /\ c[k] \in 0..(b - 1)
                      /\ a[k + 1] + Column(l, r, k) = c[k] + b * ((a[k + 1] + Column(l, r, k)) \div b)
    OBVIOUS
  <2> DEFINE below == a[k + 1]
  <2> DEFINE col == Column(l, r, k)
  <2>1. below \in Nat /\ col \in Nat /\ c[k] = (below + col) % b
    BY <1>2, <1>4
  <2> HIDE DEF below, col, b
  <2>2. (below + col) % b \in 0..(b - 1) /\ below + col = ((below + col) % b) + b * ((below + col) \div b)
    BY <1>1, <2>1, ColumnStep
  <2> QED BY <2>1, <2>2 DEF below, col
<1>6. c \in Products
  BY <1>3, <1>5 DEF Products, Word
<1>7. /\ a \in [1..16 -> Int] /\ column \in [0..14 -> Int] /\ word \in [0..14 -> Int]
      /\ \A k \in 0..14 : a[k + 1] + column[k] = word[k] + b * a[k + 2]
  <2>1. \A k \in 0..14 : c[k] \in Int /\ Column(l, r, k) \in Int
    BY <1>1, <1>2, <1>5
  <2>2. \A k \in 0..14 : a[k + 1] + Column(l, r, k) = c[k] + b * a[k + 2]
    BY <1>2, <1>5
  <2> QED BY <1>2, <2>1, <2>2
<1>8. Sixteen(b, word, a[16]) = Sixteen(b, column, 0)
  <2> HIDE DEF b, column, word
  <2> QED BY <1>1, <1>2, <1>7, ColumnsAddUp
<1>9. NumberOf(l) * NumberOf(r) = Sixteen(b, column, 0)
  <2>0. \A i \in 1..8 : l[i] \in Int /\ r[i] \in Int
    BY WordType DEF Words, Word
  <2>1. PICK l1, r1 \in Int : l1 = l[1] /\ r1 = r[1]
    BY <2>0
  <2>2. PICK l2, r2 \in Int : l2 = l[2] /\ r2 = r[2]
    BY <2>0
  <2>3. PICK l3, r3 \in Int : l3 = l[3] /\ r3 = r[3]
    BY <2>0
  <2>4. PICK l4, r4 \in Int : l4 = l[4] /\ r4 = r[4]
    BY <2>0
  <2>5. PICK l5, r5 \in Int : l5 = l[5] /\ r5 = r[5]
    BY <2>0
  <2>6. PICK l6, r6 \in Int : l6 = l[6] /\ r6 = r[6]
    BY <2>0
  <2>7. PICK l7, r7 \in Int : l7 = l[7] /\ r7 = r[7]
    BY <2>0
  <2>8. PICK l8, r8 \in Int : l8 = l[8] /\ r8 = r[8]
    BY <2>0
  <2>10. /\ NumberOf(l) = Horner(b, l1, l2, l3, l4, l5, l6, l7, l8)
         /\ NumberOf(r) = Horner(b, r1, r2, r3, r4, r5, r6, r7, r8)
    BY <2>1, <2>2, <2>3, <2>4, <2>5, <2>6, <2>7, <2>8 DEF NumberOf, Horner
  <2>11. /\ column[0] = l1*r1
         /\ column[1] = l1*r2 + l2*r1
         /\ column[2] = l1*r3 + l2*r2 + l3*r1
         /\ column[3] = l1*r4 + l2*r3 + l3*r2 + l4*r1
         /\ column[4] = l1*r5 + l2*r4 + l3*r3 + l4*r2 + l5*r1
         /\ column[5] = l1*r6 + l2*r5 + l3*r4 + l4*r3 + l5*r2 + l6*r1
         /\ column[6] = l1*r7 + l2*r6 + l3*r5 + l4*r4 + l5*r3 + l6*r2 + l7*r1
         /\ column[7] = l1*r8 + l2*r7 + l3*r6 + l4*r5 + l5*r4 + l6*r3 + l7*r2 + l8*r1
         /\ column[8] = l2*r8 + l3*r7 + l4*r6 + l5*r5 + l6*r4 + l7*r3 + l8*r2
         /\ column[9] = l3*r8 + l4*r7 + l5*r6 + l6*r5 + l7*r4 + l8*r3
         /\ column[10] = l4*r8 + l5*r7 + l6*r6 + l7*r5 + l8*r4
         /\ column[11] = l5*r8 + l6*r7 + l7*r6 + l8*r5
         /\ column[12] = l6*r8 + l7*r7 + l8*r6
         /\ column[13] = l7*r8 + l8*r7
         /\ column[14] = l8*r8
    BY ColumnTerms, <2>1, <2>2, <2>3, <2>4, <2>5, <2>6, <2>7, <2>8
  <2> HIDE DEF b, column
  <2>12. Horner(b, l1, l2, l3, l4, l5, l6, l7, l8) * Horner(b, r1, r2, r3, r4, r5, r6, r7, r8)
         = Horner(b, l1*r1,
                     l1*r2 + l2*r1,
                     l1*r3 + l2*r2 + l3*r1,
                     l1*r4 + l2*r3 + l3*r2 + l4*r1,
                     l1*r5 + l2*r4 + l3*r3 + l4*r2 + l5*r1,
                     l1*r6 + l2*r5 + l3*r4 + l4*r3 + l5*r2 + l6*r1,
                     l1*r7 + l2*r6 + l3*r5 + l4*r4 + l5*r3 + l6*r2 + l7*r1,
                     l1*r8 + l2*r7 + l3*r6 + l4*r5 + l5*r4 + l6*r3 + l7*r2 + l8*r1)
           + b*b*b*b*b*b*b*b * Horner(b, l2*r8 + l3*r7 + l4*r6 + l5*r5 + l6*r4 + l7*r3 + l8*r2,
                     l3*r8 + l4*r7 + l5*r6 + l6*r5 + l7*r4 + l8*r3,
                     l4*r8 + l5*r7 + l6*r6 + l7*r5 + l8*r4,
                     l5*r8 + l6*r7 + l7*r6 + l8*r5,
                     l6*r8 + l7*r7 + l8*r6,
                     l7*r8 + l8*r7,
                     l8*r8, 0)
    BY ONLY <1>1, l1 \in Int, l2 \in Int, l3 \in Int, l4 \in Int, l5 \in Int, l6 \in Int,
       l7 \in Int, l8 \in Int, r1 \in Int, r2 \in Int, r3 \in Int, r4 \in Int, r5 \in Int,
       r6 \in Int, r7 \in Int, r8 \in Int DEF Horner
  <2> QED BY ONLY <2>10, <2>11, <2>12, Zenon DEF Sixteen
<1>10. NumberOf(l) \in 0..(Range8 - 1) /\ NumberOf(r) \in 0..(Range8 - 1) /\ Range8 \in Nat
  BY NumberRange, PrimePositive
<1>11. Range8 = b*b*b*b*b*b*b*b
  BY PrimeForm
\* What is left above the last column is a word: the product is less than
\* sixteen words hold.
<1>12. a[16] < b
  <2> DEFINE low == Horner(b, word[0], word[1], word[2], word[3], word[4], word[5], word[6], word[7])
  <2> DEFINE high == Horner(b, word[8], word[9], word[10], word[11], word[12], word[13], word[14], 0)
  <2> DEFINE top == a[16]
  <2> DEFINE e == b*b*b*b*b*b*b
  <2>1. \A k \in 0..14 : word[k] \in Nat
    BY <1>1, <1>5
  <2> HIDE DEF word
  <2>2. low \in Nat /\ high \in Nat /\ top \in Nat /\ e \in Nat /\ e > 0 /\ Range8 = b * e
    <3>1. \A x, y \in Nat : x + b * y \in Nat
      BY <1>1
    <3>2. low \in Nat /\ high \in Nat
      <4>1. 0 \in Nat
        OBVIOUS
      <4> QED BY ONLY <2>1, <3>1, <4>1, 0 \in 0..14, 1 \in 0..14, 2 \in 0..14, 3 \in 0..14,
              4 \in 0..14, 5 \in 0..14, 6 \in 0..14, 7 \in 0..14, 8 \in 0..14, 9 \in 0..14,
              10 \in 0..14, 11 \in 0..14, 12 \in 0..14, 13 \in 0..14, 14 \in 0..14,
              Zenon DEF Horner, low, high
    <3>3. \A x, y \in Nat \ {0} : x * y \in Nat \ {0}
      OBVIOUS
    <3>4. e \in Nat \ {0}
      BY <1>1, <3>3
    <3>5. Range8 = b * e
      BY <1>1, <1>11
    <3> HIDE DEF e, low, high
    <3> QED BY <1>2, <3>2, <3>4, <3>5
  <2>3. Horner(b, word[8], word[9], word[10], word[11], word[12], word[13], word[14], a[16]) = high + e * top
    <3>1. top \in Int /\ b \in Int /\ \A k \in 0..14 : word[k] \in Int
      BY <1>1, <2>1, <2>2
    <3>8. PICK w8 \in Int : w8 = word[8]
      BY <3>1
    <3>9. PICK w9 \in Int : w9 = word[9]
      BY <3>1
    <3>10. PICK w10 \in Int : w10 = word[10]
      BY <3>1
    <3>11. PICK w11 \in Int : w11 = word[11]
      BY <3>1
    <3>12. PICK w12 \in Int : w12 = word[12]
      BY <3>1
    <3>13. PICK w13 \in Int : w13 = word[13]
      BY <3>1
    <3>14. PICK w14 \in Int : w14 = word[14]
      BY <3>1
    <3>3. Horner(b, w8, w9, w10, w11, w12, w13, w14, top)
          = Horner(b, w8, w9, w10, w11, w12, w13, w14, 0) + e * top
      <4> HIDE DEF b, top
      <4> QED BY <3>1 DEF Horner
    <3> QED BY <3>3, <3>8, <3>9, <3>10, <3>11, <3>12, <3>13, <3>14
  <2>4. NumberOf(l) * NumberOf(r) = low + Range8 * (high + e * top)
    BY <1>8, <1>9, <1>11, <2>3 DEF Sixteen
  <2> HIDE DEF low, high, top, e
  <2> DEFINE L == NumberOf(l)
  <2> DEFINE R == NumberOf(r)
  <2>5. L * R <= (Range8 - 1) * Range8 /\ L * R \in Int
    <3>1. L \in Nat /\ R \in Nat /\ L <= Range8 - 1 /\ R <= Range8 /\ Range8 - 1 \in Nat
      BY <1>10
    <3> HIDE DEF L, R
    <3>2. \A x, y, p, q \in Nat : x <= p /\ y <= q => x * y <= p * q
      <4> SUFFICES ASSUME NEW x \in Nat, NEW y \in Nat, NEW p \in Nat, NEW q \in Nat, x <= p, y <= q
                   PROVE  x * y <= p * q
        OBVIOUS
      <4>1. x * y <= p * y
        OBVIOUS
      <4>2. p * y <= p * q
        OBVIOUS
      <4> QED BY <4>1, <4>2
    <3> QED BY <1>10, <3>1, <3>2
  <2>6. ASSUME top >= b PROVE FALSE
    <3>1. e * top >= Range8
      <4>1. e * (top - b) >= 0
        BY <1>1, <2>2, <2>6
      <4> QED BY <1>1, <2>2, <4>1
    <3>2. high + e * top >= Range8 /\ high + e * top \in Nat
      BY <1>10, <2>2, <3>1
    <3>3. Range8 * (high + e * top) >= Range8 * Range8
      <4> DEFINE x == high + e * top
      <4>1. x - Range8 \in Nat /\ x \in Nat
        BY <1>10, <3>2
      <4> HIDE DEF x
      <4>2. Range8 * (x - Range8) >= 0
        BY <1>10, <4>1
      <4>3. Range8 * x >= Range8 * Range8
        BY <1>10, <4>1, <4>2
      <4> QED BY <4>3 DEF x
    <3>4. (Range8 - 1) * Range8 < Range8 * Range8
      <4>1. Range8 > 0
        BY PrimePositive
      <4> QED BY <1>10, <4>1
    <3>5. Range8 * (high + e * top) \in Int /\ (Range8 - 1) * Range8 \in Int /\ Range8 * Range8 \in Int
      BY <1>10, <3>2
    <3>6. low \in Nat
      BY <2>2
    <3> QED BY <2>4, <2>5, <3>3, <3>4, <3>5, <3>6 DEF L, R
  <2>7. top < b
    BY <1>1, <2>2, <2>6
  <2> QED BY <2>7 DEF top
<1>13. ProductOf(c) = NumberOf(l) * NumberOf(r)
  <2>1. c[15] = a[16]
    <3>1. Column(l, r, 15) = 0
      BY ColumnTerms
    <3>2. c[15] = (a[16] + 0) % b /\ a[16] \in Nat
      BY <1>2, <1>4, <3>1
    <3> QED BY <1>1, <1>12, <3>2
  <2>2. \A k \in 0..14 : word[k] = c[k]
    OBVIOUS
  <2> HIDE DEF word, b
  <2>3. Low(c) = Horner(b, word[0], word[1], word[2], word[3], word[4], word[5], word[6], word[7])
    BY <2>2 DEF Low, NumberOf, Horner, b
  <2>4. High(c) = Horner(b, word[8], word[9], word[10], word[11], word[12], word[13], word[14], a[16])
    BY <2>1, <2>2 DEF High, NumberOf, Horner, b
  <2> QED BY <1>8, <1>9, <1>11, <2>3, <2>4 DEF ProductOf, Sixteen
<1>14. ASSUME b >= 8, NEW k \in 0..14 PROVE a[k + 1] + Column(l, r, k) < b * b * b
  <2> DEFINE d == b - 1
  <2>0. d \in Nat /\ b = d + 1 /\ d >= 7
    BY <1>1, <1>14
  <2>1. \A i, j \in 1..8 : l[i] * r[j] \in 0..(d * d)
    <3> SUFFICES ASSUME NEW i \in 1..8, NEW j \in 1..8 PROVE l[i] * r[j] \in 0..(d * d)
      OBVIOUS
    <3>1. l[i] \in 0..d /\ r[j] \in 0..d
      BY DEF Words, Word
    <3> HIDE DEF d
    <3>2. \A x, y \in 0..d : x * y \in 0..(d * d)
      <4> SUFFICES ASSUME NEW x \in 0..d, NEW y \in 0..d PROVE x * y \in 0..(d * d)
        OBVIOUS
      <4>1. x * y <= d * y /\ x * y \in Nat
        BY <2>0
      <4>2. d * y <= d * d
        BY <2>0
      <4> QED BY <2>0, <4>1, <4>2
    <3> QED BY <3>1, <3>2
  <2> DEFINE most == d * d
  <2>2. \A m \in 0..14 : Column(l, r, m) <= 8 * most
    <3> SUFFICES ASSUME NEW m \in 0..14 PROVE Column(l, r, m) <= 8 * most
      OBVIOUS
    <3> DEFINE Term(i) == IF m + 2 - i \in 1..8 THEN l[i] * r[m + 2 - i] ELSE 0
    <3>1. \A i \in 1..8 : Term(i) \in 0..most
      <4>1. most \in Nat
        <5> HIDE DEF d
        <5> QED BY <2>0
      <4> HIDE DEF most
      <4>2. \A i, j \in 1..8 : l[i] * r[j] \in 0..most
        BY <2>1 DEF most
      <4> QED BY <4>1, <4>2
    <3>2. Column(l, r, m) = Term(1) + Term(2) + Term(3) + Term(4) + Term(5) + Term(6) + Term(7) + Term(8)
      BY DEF Column, SumOf
    <3>3. most \in Nat
      <4> HIDE DEF d
      <4> QED BY <2>0
    <3> HIDE DEF Term, most
    <3> QED BY <3>1, <3>2, <3>3
  <2> HIDE DEF d
  <2>3. ASSUME NEW m \in 0..14, a[m + 1] <= 8 * d PROVE a[m + 2] <= 8 * d
    <3> DEFINE v == a[m + 1] + Column(l, r, m)
    <3>1. v \in Nat /\ v <= 8 * d + 8 * (d * d) /\ a[m + 2] = v \div b /\ a[m + 2] \in Nat
      <4>1. a[m + 1] \in Nat /\ Column(l, r, m) \in Nat /\ Column(l, r, m) <= 8 * (d * d)
        BY <1>2, <2>2
      <4> QED BY <1>2, <2>0, <2>3, <4>1
    <3> HIDE DEF v
    <3>2. 8 * d + 8 * (d * d) = b * (8 * d)
      BY <2>0
    <3>3. v = (v % b) + b * (v \div b) /\ v % b \in 0..(b - 1)
      BY <1>1, <3>1
    <3>4. ASSUME a[m + 2] > 8 * d PROVE FALSE
      <4>1. b * (a[m + 2] - 8 * d) > 0
        BY <1>1, <2>0, <3>1, <3>4
      <4>2. b * (a[m + 2] - 8 * d) = b * a[m + 2] - b * (8 * d) /\ b * a[m + 2] \in Int /\ b * (8 * d) \in Int
        BY <1>1, <2>0, <3>1
      <4> QED BY <3>1, <3>2, <3>3, <4>1, <4>2
    <3> QED BY <2>0, <3>1, <3>4
  <2>4. a[k + 1] <= 8 * d
    <3> DEFINE Good == {m \in 0..14 : a[m + 1] <= 8 * d}
    <3>1. 0 \in Good
      BY <1>2, <2>0
    <3>2. \A m \in 0..(14 - 1) : m \in Good => m + 1 \in Good
      BY <2>3
    <3>3. Good \in SUBSET (0..14) /\ 14 \in Nat
      OBVIOUS
    <3> HIDE DEF Good
    <3>4. Good = 0..14
      BY <3>1, <3>2, <3>3, RunInduction
    <3> QED BY <3>4 DEF Good
  <2>5. a[k + 1] + Column(l, r, k) <= 8 * d + 8 * (d * d)
    <3>1. a[k + 1] \in Nat /\ Column(l, r, k) \in Nat /\ Column(l, r, k) <= 8 * (d * d)
      BY <1>2, <2>2
    <3> QED BY <2>0, <2>4, <3>1
  <2>6. 8 * d + 8 * (d * d) < b * b * b
    <3>1. 8 * d + 8 * (d * d) = 8 * (d * (d + 1))
      BY <2>0
    <3>2. d * (d + 1) < b * b /\ d * (d + 1) \in Nat /\ b * b \in Nat
      BY <2>0
    <3>3. 8 * (b * b) <= b * (b * b)
      BY <1>1, <1>14, <3>2
    <3>4. b * b * b = b * (b * b)
      BY <1>1
    <3> QED BY <1>1, <3>1, <3>2, <3>3, <3>4
  <2>7. a[k + 1] + Column(l, r, k) \in Int
    BY <1>2
  <2> QED BY <1>1, <2>0, <2>5, <2>6, <2>7
<1> QED BY <1>6, <1>13, <1>14 DEF a, c

\* Division by the base leaves fewer words.
LEMMA FewerWords ==
  ASSUME NEW b \in Nat \ {0}, NEW m \in Nat, NEW x \in Nat, x < b * m
  PROVE  x \div b \in Nat /\ x \div b < m /\ x % b \in 0..(b - 1) /\ x = (x % b) + b * (x \div b)
<1>1. x \div b \in Nat /\ x % b \in 0..(b - 1) /\ x = (x % b) + b * (x \div b)
  OBVIOUS
<1>2. ASSUME x \div b >= m PROVE FALSE
  <2> DEFINE q == x \div b
  <2>1. q \in Nat /\ q >= m /\ x >= b * q
    BY <1>1, <1>2
  <2> HIDE DEF q
  <2>2. b * (q - m) >= 0
    BY <2>1
  <2>3. b * (q - m) = b * q - b * m /\ b * q \in Int /\ b * m \in Int
    BY <2>1
  <2> QED BY <2>1, <2>2, <2>3
<1> QED BY <1>1, <1>2

\* The words of a number make it again.
LEMMA WordsBack ==
  ASSUME NEW v \in 0..(Range8 - 1)
  PROVE  WordsOf(v) \in Words /\ NumberOf(WordsOf(v)) = v
<1> DEFINE b == WordSize
<1>1. b \in Nat \ {0}
  BY WordType
<1>2. Range8 = b*b*b*b*b*b*b*b
  BY PrimeForm
<1> DEFINE m8 == b
<1> DEFINE m7 == b * m8
<1> DEFINE m6 == b * m7
<1> DEFINE m5 == b * m6
<1> DEFINE m4 == b * m5
<1> DEFINE m3 == b * m4
<1> DEFINE m2 == b * m3
<1> DEFINE m1 == b * m2
<1>3. m1 = Range8
  <2>1. m1 = b * (b * (b * (b * (b * (b * (b * b))))))
    OBVIOUS
  <2>2. b * (b * (b * (b * (b * (b * (b * b)))))) = b*b*b*b*b*b*b*b
    BY <1>1
  <2> QED BY <1>2, <2>1, <2>2
<1>4. /\ m8 \in Nat /\ m7 \in Nat /\ m6 \in Nat /\ m5 \in Nat
      /\ m4 \in Nat /\ m3 \in Nat /\ m2 \in Nat /\ m1 \in Nat
  <2>1. \A x \in Nat : b * x \in Nat
    BY <1>1
  <2> QED BY <1>1, <2>1
<1>5. m1 = b * m2 /\ m2 = b * m3 /\ m3 = b * m4 /\ m4 = b * m5 /\ m5 = b * m6 /\ m6 = b * m7 /\ m7 = b * m8 /\ m8 = b
  OBVIOUS
<1> DEFINE v1 == v
<1> DEFINE v2 == v1 \div b
<1> DEFINE v3 == v2 \div b
<1> DEFINE v4 == v3 \div b
<1> DEFINE v5 == v4 \div b
<1> DEFINE v6 == v5 \div b
<1> DEFINE v7 == v6 \div b
<1> DEFINE v8 == v7 \div b
<1>6. WordsOf(v) = <<v1 % b, v2 % b, v3 % b, v4 % b, v5 % b, v6 % b, v7 % b, v8 % b>>
  BY DEF WordsOf
<1> HIDE DEF b, m1, m2, m3, m4, m5, m6, m7, m8
<1>11. v1 \in Nat /\ v1 < m1
  BY <1>3, PrimePositive
<1>12. v2 \in Nat /\ v2 < m2 /\ v1 % b \in 0..(b - 1) /\ v1 = (v1 % b) + b * v2
  <2> HIDE DEF v1
  <2> QED BY <1>1, <1>4, <1>5, <1>11, FewerWords
<1>13. v3 \in Nat /\ v3 < m3 /\ v2 % b \in 0..(b - 1) /\ v2 = (v2 % b) + b * v3
  <2> HIDE DEF v2
  <2> QED BY <1>1, <1>4, <1>5, <1>12, FewerWords
<1>14. v4 \in Nat /\ v4 < m4 /\ v3 % b \in 0..(b - 1) /\ v3 = (v3 % b) + b * v4
  <2> HIDE DEF v3
  <2> QED BY <1>1, <1>4, <1>5, <1>13, FewerWords
<1>15. v5 \in Nat /\ v5 < m5 /\ v4 % b \in 0..(b - 1) /\ v4 = (v4 % b) + b * v5
  <2> HIDE DEF v4
  <2> QED BY <1>1, <1>4, <1>5, <1>14, FewerWords
<1>16. v6 \in Nat /\ v6 < m6 /\ v5 % b \in 0..(b - 1) /\ v5 = (v5 % b) + b * v6
  <2> HIDE DEF v5
  <2> QED BY <1>1, <1>4, <1>5, <1>15, FewerWords
<1>17. v7 \in Nat /\ v7 < m7 /\ v6 % b \in 0..(b - 1) /\ v6 = (v6 % b) + b * v7
  <2> HIDE DEF v6
  <2> QED BY <1>1, <1>4, <1>5, <1>16, FewerWords
<1>18. v8 \in Nat /\ v8 < m8 /\ v7 % b \in 0..(b - 1) /\ v7 = (v7 % b) + b * v8
  <2> HIDE DEF v7
  <2> QED BY <1>1, <1>4, <1>5, <1>17, FewerWords
<1> HIDE DEF v1, v2, v3, v4, v5, v6, v7, v8
<1>19. v8 % b = v8 /\ v8 \in 0..(b - 1)
  BY <1>1, <1>5, <1>18
<1>20. WordsOf(v) \in Words
  BY <1>6, <1>12, <1>13, <1>14, <1>15, <1>16, <1>17, <1>18, <1>19 DEF Words, Word, b
<1>21. NumberOf(WordsOf(v)) = v1
  <2>1. NumberOf(WordsOf(v)) = (v1 % b) + b * ((v2 % b) + b * ((v3 % b) + b * ((v4 % b)
                               + b * ((v5 % b) + b * ((v6 % b) + b * ((v7 % b) + b * (v8 % b)))))))
    BY <1>6 DEF NumberOf, b
  <2> QED BY ONLY <2>1, <1>12, <1>13, <1>14, <1>15, <1>16, <1>17, <1>18, <1>19, Zenon
<1> QED BY <1>20, <1>21 DEF v1

\* Sums, differences and products of the field.
LEMMA FieldType == Field \subseteq 0..(Range8 - 1) /\ \A v \in Field : v \in Int /\ v \in Nat
BY PrimePositive DEF Field

LEMMA FieldMult ==
  ASSUME NEW l \in Field, NEW r \in Field
  PROVE  l \otimes r \in Field /\ l \otimes r = (l * r) % CurveP
<1>1. /\ WordsOf(l) \in Words /\ NumberOf(WordsOf(l)) = l
      /\ WordsOf(r) \in Words /\ NumberOf(WordsOf(r)) = r
  BY FieldType, WordsBack
<1>2. l \otimes r = MmodFast(VliMult(WordsOf(l), WordsOf(r)))
  BY DEF \otimes, FieldProduct, ProductTable, WordsIn
<1>3. /\ VliMult(WordsOf(l), WordsOf(r)) \in Products
      /\ ProductOf(VliMult(WordsOf(l), WordsOf(r))) = l * r
  BY <1>1, ProductRight
<1>4. l \otimes r = (l * r) % CurveP
  BY <1>2, <1>3, FastReductionRight
<1>5. l * r \in Int
  BY FieldType
<1> DEFINE w == l * r
<1>6. w % CurveP \in Field
  <2> HIDE DEF w
  <2> QED BY <1>5, PrimePositive DEF Field, w
<1> QED BY <1>4, <1>6

LEMMA FieldSums ==
  ASSUME NEW l \in Field, NEW r \in Field
  PROVE  /\ l \oplus r \in Field /\ l \oplus r = (l + r) % CurveP
         /\ l \ominus r \in Field /\ l \ominus r = (l - r) % CurveP
<1>1. /\ CurveP \in 1..(Range8 - 1) /\ l \in 0..(Range8 - 1) /\ r \in 0..(CurveP - 1) /\ l < CurveP
      /\ l + r \in Int /\ l - r \in Int
  BY FieldType, PrimePositive DEF Field
<1>2. l \oplus r = (l + r) % CurveP /\ l \ominus r = (l - r) % CurveP
  BY <1>1, ModularSumsRight DEF \oplus, \ominus
<1>3. \A v \in Int : v % CurveP \in Field
  BY PrimePositive DEF Field
<1> QED BY <1>1, <1>2, <1>3

----------------------------------------------------------------------------
(* Congruence modulo the prime. *)

LEMMA CongDef ==
  ASSUME NEW a \in Int, NEW b \in Int
  PROVE  a \cong b <=> \E k \in Int : a = b + k * CurveP
<1> DEFINE p == CurveP
<1> DEFINE v == a - b
<1>1. p \in Nat \ {0} /\ v \in Int
  BY PrimePositive
<1>2. a \cong b <=> v % p = 0
  BY DEF \cong
<1> HIDE DEF p
<1>3. ASSUME v % p = 0 PROVE \E k \in Int : a = b + k * p
  <2>1. v = (v \div p) * p + (v % p) /\ v \div p \in Int
    <3> HIDE DEF v
    <3> QED BY <1>1, Remainder
  <2> DEFINE q == v \div p
  <2>2. q \in Int /\ v = q * p
    <3>1. v = q * p + (v % p) /\ q \in Int
      BY <2>1
    <3> HIDE DEF q, v
    <3> QED BY <1>1, <1>3, <3>1
  <2> HIDE DEF q
  <2>3. a = b + q * p
    BY <1>1, <2>2
  <2> QED BY <2>2, <2>3
<1>4. ASSUME NEW k \in Int, a = b + k * p PROVE v % p = 0
  <2>1. v = 0 + k * p /\ 0 \in 0..(p - 1)
    BY <1>1, <1>4
  <2> HIDE DEF v
  <2> QED BY <1>1, <2>1, RemainderUnique
<1> QED BY <1>2, <1>3, <1>4 DEF p

LEMMA CongSame ==
  ASSUME NEW a \in Int, NEW b \in Int, a = b
  PROVE  a \cong b
<1>1. a = b + 0 * CurveP /\ 0 \in Int
  BY PrimeNumber
<1> QED BY <1>1, CongDef

LEMMA CongSym ==
  ASSUME NEW a \in Int, NEW b \in Int, a \cong b
  PROVE  b \cong a
<1>1. PICK k \in Int : a = b + k * CurveP
  BY CongDef
<1>2. b = a + (-k) * CurveP /\ -k \in Int
  BY <1>1, PrimeNumber
<1> QED BY <1>2, CongDef

LEMMA CongTrans ==
  ASSUME NEW a \in Int, NEW b \in Int, NEW c \in Int, a \cong b, b \cong c
  PROVE  a \cong c
<1>1. PICK k \in Int : a = b + k * CurveP
  BY CongDef
<1>2. PICK j \in Int : b = c + j * CurveP
  BY CongDef
<1>3. a = c + (j + k) * CurveP /\ j + k \in Int
  BY <1>1, <1>2, PrimeNumber
<1> QED BY <1>3, CongDef

LEMMA CongOps ==
  ASSUME NEW a \in Int, NEW b \in Int, NEW c \in Int, NEW d \in Int, a \cong b, c \cong d
  PROVE  a + c \cong b + d /\ a - c \cong b - d /\ a * c \cong b * d
<1>1. PICK k \in Int : a = b + k * CurveP
  BY CongDef
<1>2. PICK j \in Int : c = d + j * CurveP
  BY CongDef
<1> DEFINE sum == k + j
<1> DEFINE difference == k - j
<1> DEFINE product == b * j + k * d + k * j * CurveP
<1>3. /\ a + c = (b + d) + sum * CurveP /\ sum \in Int
      /\ a - c = (b - d) + difference * CurveP /\ difference \in Int
      /\ a + c \in Int /\ b + d \in Int /\ a - c \in Int /\ b - d \in Int
  BY <1>1, <1>2, PrimeNumber
<1>4. a * c = b * d + product * CurveP /\ product \in Int /\ a * c \in Int /\ b * d \in Int
  BY <1>1, <1>2, PrimeNumber
<1> HIDE DEF sum, difference, product
<1>5. a + c \cong b + d
  BY <1>3, CongDef
<1>6. a - c \cong b - d
  BY <1>3, CongDef
<1>7. a * c \cong b * d
  <2> DEFINE x == a * c
  <2> DEFINE y == b * d
  <2>1. x \in Int /\ y \in Int /\ x = y + product * CurveP
    BY <1>4
  <2> HIDE DEF x, y
  <2>2. x \cong y
    BY <1>4, <2>1, CongDef
  <2> QED BY <2>2 DEF x, y
<1> QED BY <1>5, <1>6, <1>7

LEMMA CongRemainder ==
  ASSUME NEW v \in Int
  PROVE  v % CurveP \in Field /\ v % CurveP \cong v
<1>1. CurveP \in Nat \ {0}
  BY PrimePositive
<1>2. v = (v \div CurveP) * CurveP + (v % CurveP) /\ v \div CurveP \in Int /\ v % CurveP \in 0..(CurveP - 1)
  BY <1>1, Remainder
<1> DEFINE k == v \div CurveP
<1> DEFINE r == v % CurveP
<1>3. v = k * CurveP + r /\ k \in Int /\ r \in Int /\ r \in Field
  BY <1>1, <1>2 DEF Field
<1> HIDE DEF k, r
<1>4. v = r + k * CurveP
  BY <1>3, PrimeNumber
<1>5. r \cong v
  BY <1>3, <1>4, CongDef, CongSym
<1> QED BY <1>3, <1>5 DEF r

\* Numbers of the field that are congruent are the same.
LEMMA CongUnique ==
  ASSUME NEW l \in Field, NEW r \in Field, l \cong r
  PROVE  l = r
<1>1. l \in Int /\ r \in Int /\ CurveP \in Nat \ {0} /\ r \in 0..(CurveP - 1) /\ l \in 0..(CurveP - 1)
  BY FieldType, PrimePositive DEF Field
<1>2. PICK k \in Int : l = r + k * CurveP
  BY <1>1, CongDef
<1>3. l % CurveP = r
  BY <1>1, <1>2, RemainderUnique
<1>4. l % CurveP = l
  BY <1>1
<1> QED BY <1>3, <1>4

\* The code's operations on what is congruent to a and b.
LEMMA CodeOps ==
  ASSUME NEW l \in Field, NEW r \in Field, NEW a \in Int, NEW b \in Int, l \cong a, r \cong b
  PROVE  /\ l \oplus r \in Field /\ l \oplus r \cong a + b
         /\ l \ominus r \in Field /\ l \ominus r \cong a - b
         /\ l \otimes r \in Field /\ l \otimes r \cong a * b
<1>1. l \in Int /\ r \in Int /\ l + r \in Int /\ l - r \in Int /\ l * r \in Int
      /\ a + b \in Int /\ a - b \in Int /\ a * b \in Int
  BY FieldType
<1>2. l + r \cong a + b /\ l - r \cong a - b /\ l * r \cong a * b
  BY <1>1, CongOps
<1>3. /\ (l + r) % CurveP \in Field /\ (l + r) % CurveP \cong l + r
      /\ (l - r) % CurveP \in Field /\ (l - r) % CurveP \cong l - r
      /\ (l * r) % CurveP \in Field /\ (l * r) % CurveP \cong l * r
  BY <1>1, CongRemainder
<1>4. \A v \in Field : v \in Int
  BY FieldType
<1>5. (l + r) % CurveP \cong a + b
  BY <1>1, <1>2, <1>3, <1>4, CongTrans
<1>6. (l - r) % CurveP \cong a - b
  BY <1>1, <1>2, <1>3, <1>4, CongTrans
<1>7. (l * r) % CurveP \cong a * b
  BY <1>1, <1>2, <1>3, <1>4, CongTrans
<1> QED BY <1>3, <1>5, <1>6, <1>7, FieldMult, FieldSums

----------------------------------------------------------------------------
(* Points.  Q represents (x, y) with the coordinate z.                      *)

\* A number of the field that stands for an integer.
Is(v, a) == v \in Field /\ a \in Int /\ v \cong a

Points == Field \X Field
Represents(Q, z, x, y) ==
  Q \in Points /\ Is(Q[1], x * (z * z)) /\ Is(Q[2], y * (z * z * z))

LEMMA IsSum ==
  ASSUME NEW l, NEW r, NEW a, NEW b, Is(l, a), Is(r, b)
  PROVE  Is(l \oplus r, a + b)
<1>1. l \in Field /\ r \in Field /\ a \in Int /\ b \in Int /\ l \cong a /\ r \cong b
  BY DEF Is
<1>2. a + b \in Int
  BY <1>1
<1> QED BY <1>1, <1>2, CodeOps DEF Is

LEMMA IsDiff ==
  ASSUME NEW l, NEW r, NEW a, NEW b, Is(l, a), Is(r, b)
  PROVE  Is(l \ominus r, a - b)
<1>1. l \in Field /\ r \in Field /\ a \in Int /\ b \in Int /\ l \cong a /\ r \cong b
  BY DEF Is
<1>2. a - b \in Int
  BY <1>1
<1> QED BY <1>1, <1>2, CodeOps DEF Is

LEMMA IsProduct ==
  ASSUME NEW l, NEW r, NEW a, NEW b, Is(l, a), Is(r, b)
  PROVE  Is(l \otimes r, a * b)
<1>1. l \in Field /\ r \in Field /\ a \in Int /\ b \in Int /\ l \cong a /\ r \cong b
  BY DEF Is
<1>2. a * b \in Int
  BY <1>1
<1>3. l \otimes r \in Field /\ l \otimes r \cong a * b
  BY <1>1, CodeOps, Zenon
<1> QED BY <1>2, <1>3, Zenon DEF Is

LEMMA IsAs ==
  ASSUME NEW l, NEW a, NEW b \in Int, Is(l, a), a \cong b
  PROVE  Is(l, b)
BY FieldType, CongTrans DEF Is

LEMMA IsItself ==
  ASSUME NEW l \in Field
  PROVE  Is(l, l)
BY FieldType, CongSame DEF Is

\* The two coordinates of a point with another Z.
LEMMA ApplyZRight ==
  ASSUME NEW Q, NEW z, NEW c \in Int, NEW e \in Int, NEW x \in Int, NEW y \in Int,
         Is(z, c), Represents(Q, e, x, y)
  PROVE  Represents(ApplyZ(Q, z), e * c, x, y)
<1> DEFINE f == e * c
<1>1. /\ (x * (e * e)) * (c * c) = x * (f * f)
      /\ (y * (e * e * e)) * (c * c * c) = y * (f * f * f)
  OBVIOUS
<1>2. Is(Q[1], x * (e * e)) /\ Is(Q[2], y * (e * e * e))
  BY DEF Represents
<1>3. Is(z \otimes z, c * c) /\ Is(z \otimes z \otimes z, c * c * c)
  BY IsProduct, Zenon
<1>4. /\ Is(Q[1] \otimes (z \otimes z), (x * (e * e)) * (c * c))
      /\ Is(Q[2] \otimes (z \otimes z \otimes z), (y * (e * e * e)) * (c * c * c))
  BY <1>2, <1>3, IsProduct, Zenon
<1> HIDE DEF f
<1>5. /\ Is(Q[1] \otimes (z \otimes z), x * (f * f))
      /\ Is(Q[2] \otimes (z \otimes z \otimes z), y * (f * f * f))
  BY <1>1, <1>4, Zenon
<1>6. ApplyZ(Q, z) = <<Q[1] \otimes (z \otimes z), Q[2] \otimes (z \otimes z \otimes z)>>
  BY DEF ApplyZ
<1>7. Represents(ApplyZ(Q, z), f, x, y)
  BY <1>5, <1>6 DEF Represents, Is, Points
<1> QED BY <1>7 DEF f

\* What AddWith makes of B and C, the slope m being that of the chord.
LEMMA AddWithRight ==
  ASSUME NEW P, NEW Q, NEW B, NEW C, NEW z \in Int, NEW w \in Int, NEW m \in Int,
         NEW x1 \in Int, NEW y1 \in Int, NEW x2 \in Int, NEW x3 \in Int, NEW y3 \in Int,
         w = z * z * z * (x2 - x1), x3 = m * m - x1 - x2, y3 = m * (x1 - x3) - y1,
         Is(P[2], y1 * (z * z * z)), Is(Q[2] \ominus P[2], m * w),
         Is(B, x1 * (w * w)), Is(C, x2 * (w * w))
  PROVE  /\ Represents(AddWith(P, Q, B, C).P, w, x1, y1)
         /\ Represents(AddWith(P, Q, B, C).sum, w, x3, y3)
         /\ Is(AddWith(P, Q, B, C).sub, x1 * (w * w) - x3 * (w * w))
<1> DEFINE dy == Q[2] \ominus P[2]
<1> DEFINE X3 == dy \otimes dy \ominus B \ominus C
<1> DEFINE E == P[2] \otimes (C \ominus B)
<1> DEFINE Y3 == dy \otimes (B \ominus X3) \ominus E
<1>0. /\ AddWith(P, Q, B, C).P = <<B, E>> /\ AddWith(P, Q, B, C).sum = <<X3, Y3>>
      /\ AddWith(P, Q, B, C).sub = B \ominus X3
  BY DEF AddWith
<1>1. (m * w) * (m * w) - x1 * (w * w) - x2 * (w * w) = x3 * (w * w)
  OBVIOUS
<1>2. (m * w) * (x1 * (w * w) - x3 * (w * w)) - y1 * (w * w * w) = y3 * (w * w * w)
  OBVIOUS
<1>3. (y1 * (z * z * z)) * (x2 * (w * w) - x1 * (w * w)) = y1 * (w * w * w)
  OBVIOUS
<1> HIDE DEF dy
<1>4. Is(dy, m * w)
  BY DEF dy
<1>5. Is(X3, x3 * (w * w))
  <2>1. Is(X3, (m * w) * (m * w) - x1 * (w * w) - x2 * (w * w))
    BY <1>4, IsProduct, IsDiff, Zenon
  <2> QED BY <1>1, <2>1, Zenon
<1>6. Is(E, y1 * (w * w * w))
  <2>1. Is(E, (y1 * (z * z * z)) * (x2 * (w * w) - x1 * (w * w)))
    BY IsProduct, IsDiff, Zenon
  <2> QED BY <1>3, <2>1, Zenon
<1> HIDE DEF X3, E
<1>7. Is(Y3, y3 * (w * w * w))
  <2>1. Is(Y3, (m * w) * (x1 * (w * w) - x3 * (w * w)) - y1 * (w * w * w))
    BY <1>4, <1>5, <1>6, IsProduct, IsDiff, Zenon
  <2> QED BY <1>2, <2>1, Zenon
<1>8. Is(B \ominus X3, x1 * (w * w) - x3 * (w * w))
  BY <1>5, IsDiff, Zenon
<1> HIDE DEF Y3
<1>9. Represents(<<B, E>>, w, x1, y1)
  BY <1>6 DEF Represents, Is, Points
<1>10. Represents(<<X3, Y3>>, w, x3, y3)
  BY <1>5, <1>7 DEF Represents, Is, Points
<1> QED BY <1>0, <1>8, <1>9, <1>10

\* Integers (x3, y3) to which the chord of slope m leads.
OnChord(m, x1, y1, x2, y2, x3, y3) ==
  /\ m * (x2 - x1) \cong y2 - y1
  /\ x3 = m * m - x1 - x2 /\ y3 = m * (x1 - x3) - y1

\* The addition of two points with a common Z (XYcZ_add): for every word size
\* and whatever Z they have, it makes the point on the chord of slope m, and
\* gives the first point the Z of the sum.
THEOREM AdditionRight ==
  ASSUME NEW P, NEW Q, NEW z \in Int, NEW m \in Int,
         NEW x1 \in Int, NEW y1 \in Int, NEW x2 \in Int, NEW y2 \in Int,
         NEW x3 \in Int, NEW y3 \in Int, NEW w \in Int,
         Represents(P, z, x1, y1), Represents(Q, z, x2, y2), OnChord(m, x1, y1, x2, y2, x3, y3),
         w = z * z * z * (x2 - x1)
  PROVE  /\ Represents(Add(P, Q).P, w, x1, y1)
         /\ Represents(Add(P, Q).sum, w, x3, y3)
         /\ Is(Add(P, Q).sub, x1 * (w * w) - x3 * (w * w))
<1> USE DEF OnChord
<1> DEFINE dx == Q[1] \ominus P[1]
<1> DEFINE B == P[1] \otimes (dx \otimes dx)
<1> DEFINE C == Q[1] \otimes (dx \otimes dx)
<1> DEFINE d == x2 * (z * z) - x1 * (z * z)
<1>1. /\ Is(P[1], x1 * (z * z)) /\ Is(P[2], y1 * (z * z * z))
      /\ Is(Q[1], x2 * (z * z)) /\ Is(Q[2], y2 * (z * z * z))
  BY DEF Represents
<1>2. Add(P, Q) = AddWith(P, Q, B, C)
  BY DEF Add
<1>3. Is(dx \otimes dx, d * d)
  BY <1>1, IsDiff, IsProduct, Zenon
<1>4. Is(B, (x1 * (z * z)) * (d * d)) /\ Is(C, (x2 * (z * z)) * (d * d))
  BY <1>1, <1>3, IsProduct, Zenon
<1>5. /\ (x1 * (z * z)) * (d * d) = x1 * (w * w)
      /\ (x2 * (z * z)) * (d * d) = x2 * (w * w)
  OBVIOUS
<1> HIDE DEF d, dx
<1>6. Is(B, x1 * (w * w)) /\ Is(C, x2 * (w * w))
  BY <1>4, <1>5, Zenon
<1>7. Is(Q[2] \ominus P[2], m * w)
  <2> DEFINE e == y2 * (z * z * z) - y1 * (z * z * z)
  <2>1. Is(Q[2] \ominus P[2], e)
    BY <1>1, IsDiff, Zenon
  <2>2. e \cong m * w
    <3> DEFINE u == m * (x2 - x1)
    <3> DEFINE v == y2 - y1
    <3> DEFINE c == z * z * z
    <3>1. u \in Int /\ v \in Int /\ c \in Int /\ e \in Int /\ m * w \in Int
      OBVIOUS
    <3>2. e = v * c /\ m * w = u * c
      OBVIOUS
    <3>3. v \cong u /\ c \cong c
      <4> HIDE DEF u, v, c
      <4>1. u \cong v
        BY DEF u, v
      <4> QED BY <3>1, <4>1, CongSym, CongSame
    <3> HIDE DEF u, v, c
    <3>4. v * c \cong u * c
      BY <3>1, <3>3, CongOps
    <3> QED BY <3>2, <3>4, Zenon
  <2>3. m * w \in Int
    OBVIOUS
  <2> HIDE DEF e
  <2> QED BY <2>1, <2>2, <2>3, IsAs, Zenon
<1> HIDE DEF B, C
<1> QED BY <1>1, <1>2, <1>6, <1>7, AddWithRight

\* Halving in the field: the prime is odd.
LEMMA IsHalf ==
  ASSUME NEW v, NEW t, NEW h \in Int, Is(v, t), t \cong 2 * h
  PROVE  Is(Half(v, CurveP), h)
<1>1. PICK o \in Nat : CurveP = 2 * o + 1
  BY PrimePositive
<1>2. v \in Field /\ v \in 0..(CurveP - 1) /\ CurveP \in Nat /\ v \in Int /\ t \in Int
  BY FieldType, PrimePositive DEF Is, Field
<1>3. PICK w \in 0..(CurveP - 1), k \in {0, 1} : w = Half(v, CurveP) /\ 2 * w = v + k * CurveP
  BY <1>1, <1>2, HalfRight
<1>4. 2 * w \cong v
  <2>1. PICK u, i \in Int : u = 2 * w /\ i = k
    OBVIOUS
  <2>2. u = v + i * CurveP
    BY <1>3, <2>1
  <2>3. u \cong v
    BY <1>2, <2>2, CongDef
  <2> QED BY <2>1, <2>3
<1>5. v \cong t
  BY DEF Is
<1>6. 2 * h \in Int /\ 2 * w \in Int
  OBVIOUS
<1>7. 2 * w \cong 2 * h
  BY <1>2, <1>4, <1>5, <1>6, CongTrans, Zenon
<1>8. PICK j \in Int : 2 * w = 2 * h + j * CurveP
  BY <1>6, <1>7, CongDef
<1> DEFINE i == w - h - j * o
<1>9. i \in Int /\ j = 2 * i
  <2>1. 2 * w - 2 * h = j * (2 * o + 1)
    BY <1>1, <1>8
  <2>2. j * (2 * o + 1) = 2 * (j * o) + j /\ j * o \in Int
    OBVIOUS
  <2> QED BY <2>1, <2>2
<1> HIDE DEF i
<1>10. w = h + i * CurveP
  <2>1. 2 * w = 2 * h + 2 * (i * CurveP)
    BY <1>8, <1>9, PrimeNumber
  <2>2. i * CurveP \in Int
    BY <1>9, PrimeNumber
  <2> QED BY <2>1, <2>2
<1>11. w \cong h /\ w \in Field
  BY <1>9, <1>10, CongDef DEF Field
<1> QED BY <1>3, <1>11 DEF Is

\* Integers (x3, y3) to which the tangent of slope m leads.
OnTangent(m, x, y, x3, y3) ==
  /\ 2 * y * m \cong 3 * x * x - 3
  /\ x3 = m * m - x - x /\ y3 = m * (x - x3) - y

\* Doubling (double_jacobian_default): it makes the point on the tangent of
\* slope m, whatever Z the point has.
THEOREM DoublingRight ==
  ASSUME NEW Q, NEW Z, NEW z \in Int, NEW x \in Int, NEW y \in Int, NEW m \in Int,
         NEW x3 \in Int, NEW y3 \in Int, NEW w \in Int,
         Represents(Q, z, x, y), Is(Z, z), Z # 0, OnTangent(m, x, y, x3, y3),
         w = y * z * z * z * z
  PROVE  /\ Is(DoubleJacobian(Q, Z).z, w)
         /\ Represents(DoubleJacobian(Q, Z).point, w, x3, y3)
<1> USE DEF OnTangent
<1> DEFINE yy == Q[2] \otimes Q[2]
<1> DEFINE A == Q[1] \otimes yy
<1> DEFINE zz == Z \otimes Z
<1> DEFINE D == (Q[1] \oplus zz) \otimes ((Q[1] \oplus zz) \ominus (zz \oplus zz))
<1> DEFINE B == Half(Triple(D), CurveP)
<1> DEFINE X3 == B \otimes B \ominus A \ominus A
<1> DEFINE Y3 == B \otimes (A \ominus X3) \ominus (yy \otimes yy)
<1>1. DoubleJacobian(Q, Z) = [point |-> <<X3, Y3>>, z |-> Q[2] \otimes Z]
  BY DEF DoubleJacobian, DoubleWith
<1> DEFINE s == y * (z * z * z)
<1> DEFINE a == x * (z * z)
<1> DEFINE d == (a + z * z) * ((a + z * z) - (z * z + z * z))
<1>2. /\ s * z = w
      /\ a * (s * s) = x * (w * w)
      /\ (m * w) * (m * w) - x * (w * w) - x * (w * w) = x3 * (w * w)
      /\ (m * w) * (x * (w * w) - x3 * (w * w)) - (s * s) * (s * s) = y3 * (w * w * w)
  <2>1. s * z = w
    OBVIOUS
  <2>2. a * (s * s) = x * (w * w)
    OBVIOUS
  <2>3. (m * w) * (m * w) - x * (w * w) - x * (w * w) = x3 * (w * w)
    OBVIOUS
  <2>4. (s * s) * (s * s) = y * (w * w * w)
    OBVIOUS
  <2>5. (m * w) * (x * (w * w) - x3 * (w * w)) - y * (w * w * w) = y3 * (w * w * w)
    OBVIOUS
  <2> QED BY <2>1, <2>2, <2>3, <2>4, <2>5, Zenon
<1>3. d + (d + d) \cong 2 * (m * w)
  <2> DEFINE c == z * z * z * z
  <2> DEFINE u == 2 * y * m
  <2> DEFINE v == 3 * x * x - 3
  <2>1. u \in Int /\ v \in Int /\ c \in Int
    OBVIOUS
  <2>2. d + (d + d) = v * c
    OBVIOUS
  <2>3. 2 * (m * w) = u * c
    OBVIOUS
  <2>4. v \cong u /\ c \cong c
    <3>1. u \cong v
      OBVIOUS
    <3> HIDE DEF u, v, c
    <3> QED BY <2>1, <3>1, CongSym, CongSame
  <2> HIDE DEF u, v, c, d
  <2>5. v * c \cong u * c
    BY <2>1, <2>4, CongOps
  <2> QED BY <2>2, <2>3, <2>5, Zenon
<1>4. m * w \in Int
  OBVIOUS
<1>5. Is(Q[1], a) /\ Is(Q[2], s)
  BY DEF Represents
<1> HIDE DEF s, a
<1>6. Is(yy, s * s) /\ Is(zz, z * z)
  BY <1>5, IsProduct, Zenon
<1> HIDE DEF yy, zz
<1>7. Is(A, x * (w * w))
  <2>1. Is(A, a * (s * s))
    BY <1>5, <1>6, IsProduct, Zenon
  <2> QED BY <1>2, <2>1, Zenon
<1>8. Is(D, d)
  BY <1>5, <1>6, IsSum, IsDiff, IsProduct, Zenon
<1> HIDE DEF A, D, d
<1>9. Is(Triple(D), d + (d + d))
  BY <1>8, IsSum, Zenon DEF Triple
<1>10. Is(B, m * w)
  BY <1>3, <1>4, <1>9, IsHalf, Zenon
<1> HIDE DEF B
<1>11. Is(X3, x3 * (w * w))
  <2>1. Is(X3, (m * w) * (m * w) - x * (w * w) - x * (w * w))
    BY <1>7, <1>10, IsDiff, IsProduct, Zenon
  <2> QED BY <1>2, <2>1, Zenon
<1> HIDE DEF X3
<1>12. Is(Y3, y3 * (w * w * w))
  <2>1. Is(Y3, (m * w) * (x * (w * w) - x3 * (w * w)) - (s * s) * (s * s))
    BY <1>6, <1>7, <1>10, <1>11, IsDiff, IsProduct, Zenon
  <2> QED BY <1>2, <2>1, Zenon
<1> HIDE DEF Y3
<1>13. Is(Q[2] \otimes Z, w)
  <2>1. Is(Q[2] \otimes Z, s * z)
    BY <1>5, IsProduct, Zenon
  <2> QED BY <1>2, <2>1, Zenon
<1>14. Represents(<<X3, Y3>>, w, x3, y3)
  BY <1>11, <1>12 DEF Represents, Is, Points
<1> QED BY <1>1, <1>13, <1>14

\* The addition that also makes the difference (XYcZ_addC), with the square of
\* what the call before it left in sub: m is the slope of the chord to the
\* second point, n that to its opposite.
THEOREM SumAndDifferenceRight ==
  ASSUME NEW P, NEW Q, NEW sub, NEW z \in Int, NEW m \in Int, NEW n \in Int,
         NEW x1 \in Int, NEW y1 \in Int, NEW x2 \in Int, NEW y2 \in Int,
         NEW x3 \in Int, NEW y3 \in Int, NEW x4 \in Int, NEW y4 \in Int, NEW w \in Int,
         Represents(P, z, x1, y1), Represents(Q, z, x2, y2),
         \/ Is(sub, x1 * (z * z) - x2 * (z * z))
         \/ Is(sub, x2 * (z * z) - x1 * (z * z)),
         OnChord(m, x1, y1, x2, y2, x3, y3), OnChord(n, x1, y1, x2, 0 - y2, x4, y4),
         w = z * z * z * (x2 - x1)
  PROVE  /\ Represents(AddC(P, Q, sub).sum, w, x3, y3)
         /\ Represents(AddC(P, Q, sub).difference, w, x4, y4)
<1> USE DEF OnChord
<1> DEFINE A == sub \otimes sub
<1> DEFINE B == P[1] \otimes A
<1> DEFINE C == Q[1] \otimes A
<1> DEFINE sy == Q[2] \oplus P[2]
<1> DEFINE dy == Q[2] \ominus P[2]
<1> DEFINE E == P[2] \otimes (C \ominus B)
<1> DEFINE X3 == dy \otimes dy \ominus (B \oplus C)
<1> DEFINE X4 == sy \otimes sy \ominus (B \oplus C)
<1> DEFINE Y3 == dy \otimes (B \ominus X3) \ominus E
<1> DEFINE Y4 == sy \otimes (X4 \ominus B) \ominus E
<1>0. AddC(P, Q, sub).sum = <<X3, Y3>> /\ AddC(P, Q, sub).difference = <<X4, Y4>>
  BY DEF AddC, AddCWith
<1>1. /\ Is(P[1], x1 * (z * z)) /\ Is(P[2], y1 * (z * z * z))
      /\ Is(Q[1], x2 * (z * z)) /\ Is(Q[2], y2 * (z * z * z))
  BY DEF Represents
<1> DEFINE d == (x2 - x1) * (z * z)
<1>2. Is(A, d * d)
  <2>1. CASE Is(sub, x1 * (z * z) - x2 * (z * z))
    <3>1. Is(A, (x1 * (z * z) - x2 * (z * z)) * (x1 * (z * z) - x2 * (z * z)))
      BY <2>1, IsProduct, Zenon
    <3>2. (x1 * (z * z) - x2 * (z * z)) * (x1 * (z * z) - x2 * (z * z)) = d * d
      OBVIOUS
    <3> QED BY <3>1, <3>2, Zenon
  <2>2. CASE Is(sub, x2 * (z * z) - x1 * (z * z))
    <3>1. Is(A, (x2 * (z * z) - x1 * (z * z)) * (x2 * (z * z) - x1 * (z * z)))
      BY <2>2, IsProduct, Zenon
    <3>2. (x2 * (z * z) - x1 * (z * z)) * (x2 * (z * z) - x1 * (z * z)) = d * d
      OBVIOUS
    <3> QED BY <3>1, <3>2, Zenon
  <2> QED BY <2>1, <2>2
<1>3. Is(B, x1 * (w * w)) /\ Is(C, x2 * (w * w))
  <2>1. /\ (x1 * (z * z)) * (d * d) = x1 * (w * w)
        /\ (x2 * (z * z)) * (d * d) = x2 * (w * w)
    OBVIOUS
  <2> HIDE DEF d, A
  <2>2. Is(B, (x1 * (z * z)) * (d * d)) /\ Is(C, (x2 * (z * z)) * (d * d))
    BY <1>1, <1>2, IsProduct, Zenon
  <2> QED BY <2>1, <2>2, Zenon
\* The differences and the sums of y, with the slopes.
<1>4. Is(dy, m * w)
  <2> DEFINE e == y2 * (z * z * z) - y1 * (z * z * z)
  <2> DEFINE u == m * (x2 - x1)
  <2> DEFINE v == y2 - y1
  <2> DEFINE c == z * z * z
  <2>1. Is(dy, e)
    BY <1>1, IsDiff, Zenon
  <2>2. u \in Int /\ v \in Int /\ c \in Int /\ m * w \in Int
    OBVIOUS
  <2>3. e = v * c /\ m * w = u * c
    OBVIOUS
  <2>4. u \cong v
    OBVIOUS
  <2> HIDE DEF u, v, c, e
  <2>5. v \cong u /\ c \cong c
    BY <2>2, <2>4, CongSym, CongSame
  <2>6. v * c \cong u * c
    BY <2>2, <2>5, CongOps
  <2> QED BY <2>1, <2>2, <2>3, <2>6, IsAs, Zenon
<1>5. Is(sy, 0 - n * w)
  <2> DEFINE e == y2 * (z * z * z) + y1 * (z * z * z)
  <2> DEFINE u == n * (x2 - x1)
  <2> DEFINE v == (0 - y2) - y1
  <2> DEFINE c == 0 - z * z * z
  <2>1. Is(sy, e)
    BY <1>1, IsSum, Zenon
  <2>2. u \in Int /\ v \in Int /\ c \in Int /\ 0 - n * w \in Int
    OBVIOUS
  <2>3. e = v * c /\ 0 - n * w = u * c
    OBVIOUS
  <2>4. u \cong v
    OBVIOUS
  <2> HIDE DEF u, v, c, e
  <2>5. v \cong u /\ c \cong c
    BY <2>2, <2>4, CongSym, CongSame
  <2>6. v * c \cong u * c
    BY <2>2, <2>5, CongOps
  <2> QED BY <2>1, <2>2, <2>3, <2>6, IsAs, Zenon
<1> HIDE DEF B, C, dy, sy, d
<1>6. Is(E, y1 * (w * w * w))
  <2>1. Is(E, (y1 * (z * z * z)) * (x2 * (w * w) - x1 * (w * w)))
    BY <1>1, <1>3, IsProduct, IsDiff, Zenon
  <2>2. (y1 * (z * z * z)) * (x2 * (w * w) - x1 * (w * w)) = y1 * (w * w * w)
    OBVIOUS
  <2> QED BY <2>1, <2>2, Zenon
<1>7. Is(X3, x3 * (w * w))
  <2>1. Is(X3, (m * w) * (m * w) - (x1 * (w * w) + x2 * (w * w)))
    BY <1>3, <1>4, IsProduct, IsSum, IsDiff, Zenon
  <2>2. (m * w) * (m * w) - (x1 * (w * w) + x2 * (w * w)) = x3 * (w * w)
    OBVIOUS
  <2> QED BY <2>1, <2>2, Zenon
<1>8. Is(X4, x4 * (w * w))
  <2>1. Is(X4, (0 - n * w) * (0 - n * w) - (x1 * (w * w) + x2 * (w * w)))
    BY <1>3, <1>5, IsProduct, IsSum, IsDiff, Zenon
  <2>2. (0 - n * w) * (0 - n * w) - (x1 * (w * w) + x2 * (w * w)) = x4 * (w * w)
    OBVIOUS
  <2> QED BY <2>1, <2>2, Zenon
<1> HIDE DEF E, X3, X4
<1>9. Is(Y3, y3 * (w * w * w))
  <2>1. Is(Y3, (m * w) * (x1 * (w * w) - x3 * (w * w)) - y1 * (w * w * w))
    BY <1>3, <1>4, <1>6, <1>7, IsProduct, IsDiff, Zenon
  <2>2. (m * w) * (x1 * (w * w) - x3 * (w * w)) - y1 * (w * w * w) = y3 * (w * w * w)
    OBVIOUS
  <2> QED BY <2>1, <2>2, Zenon
<1>10. Is(Y4, y4 * (w * w * w))
  <2>1. Is(Y4, (0 - n * w) * (x4 * (w * w) - x1 * (w * w)) - y1 * (w * w * w))
    BY <1>3, <1>5, <1>6, <1>8, IsProduct, IsDiff, Zenon
  <2>2. (0 - n * w) * (x4 * (w * w) - x1 * (w * w)) - y1 * (w * w * w) = y4 * (w * w * w)
    OBVIOUS
  <2> QED BY <2>1, <2>2, Zenon
<1> HIDE DEF Y3, Y4
<1>11. Represents(<<X3, Y3>>, w, x3, y3) /\ Represents(<<X4, Y4>>, w, x4, y4)
  BY <1>7, <1>8, <1>9, <1>10 DEF Represents, Is, Points
<1> QED BY <1>0, <1>11

----------------------------------------------------------------------------
(* The ladder.  Its points stand for multiples of the point it is given.    *)

\* The prime divides no product of numbers that it does not divide.
LEMMA NonZeroProduct ==
  ASSUME NEW a \in Int, NEW b \in Int, ~ (a \cong 0), ~ (b \cong 0)
  PROVE  ~ (a * b \cong 0)
<1>1. PICK l \in Field : l \cong a
  BY CongRemainder
<1>2. PICK r \in Field : r \cong b
  BY CongRemainder
<1>3. l \in Int /\ r \in Int /\ l \in 0..(CurveP - 1) /\ r \in 0..(CurveP - 1) /\ CurveP \in Int
  BY FieldType, PrimeNumber DEF Field
<1>4. l # 0 /\ r # 0
  <2>1. a \cong l /\ b \cong r
    BY <1>1, <1>2, <1>3, CongSym
  <2> QED BY <2>1
<1>5. (l * r) % CurveP # 0
  <2>1. l \in 1..(CurveP - 1) /\ r \in 1..(CurveP - 1)
    BY <1>3, <1>4
  <2> QED BY <2>1, PrimeAssumption
<1>6. ASSUME a * b \cong 0 PROVE FALSE
  <2>1. PICK x \in Int : x = a * b
    OBVIOUS
  <2>2. PICK y \in Int : y = l * r
    BY <1>3
  <2>3. y \cong x
    BY <1>1, <1>2, <1>3, <2>1, <2>2, CongOps
  <2>4. y \cong 0 /\ 0 \in Int
    BY <1>6, <2>1, <2>3, CongTrans
  <2>5. y - 0 = y
    OBVIOUS
  <2>6. y % CurveP = 0
    BY <2>4, <2>5 DEF \cong
  <2> QED BY <1>5, <2>2, <2>6
<1> QED BY <1>6

\* Different numbers of the field are not congruent.
LEMMA FieldApart ==
  ASSUME NEW l \in Field, NEW r \in Field, l # r
  PROVE  ~ (l - r \cong 0)
<1>1. l \in Int /\ r \in Int /\ 0 \in Int
  BY FieldType
<1>2. ASSUME l - r \cong 0 PROVE FALSE
  <2>1. PICK d \in Int : d = l - r
    BY <1>1
  <2>2. r \cong r
    BY <1>1, CongSame
  <2>3. d + r \cong 0 + r
    BY <1>1, <1>2, <2>1, <2>2, CongOps
  <2>4. d + r = l /\ 0 + r = r
    BY <1>1, <2>1
  <2>5. l \cong r
    BY <2>3, <2>4
  <2> QED BY <2>5, CongUnique
<1> QED BY <1>2

\* A point represented with coordinates is so with congruent ones.
LEMMA RepresentsAs ==
  ASSUME NEW Q, NEW z \in Int, NEW x \in Int, NEW y \in Int, NEW u \in Int, NEW v \in Int,
         Represents(Q, z, x, y), x \cong u, y \cong v
  PROVE  Represents(Q, z, u, v)
<1>1. PICK c \in Int, d \in Int : c = z * z /\ d = z * z * z
  OBVIOUS
<1>2. c \cong c /\ d \cong d
  BY CongSame
<1>3. x * c \cong u * c /\ y * d \cong v * d
  BY <1>2, CongOps
<1>4. u * c \in Int /\ v * d \in Int
  OBVIOUS
<1>5. Q \in Points /\ Is(Q[1], x * c) /\ Is(Q[2], y * d)
  BY <1>1 DEF Represents
<1>6. Is(Q[1], u * c) /\ Is(Q[2], v * d)
  BY <1>3, <1>4, <1>5, IsAs
<1> QED BY <1>1, <1>5, <1>6 DEF Represents

\* The coordinates of the third point of a chord, from the slope.
LEMMA ThirdPoint ==
  ASSUME NEW x1 \in Int, NEW y1 \in Int, NEW x2 \in Int, NEW m \in Int,
         NEW u \in Int, NEW v \in Int, NEW x3 \in Int, NEW y3 \in Int,
         u \cong m * m - x1 - x2, v \cong m * (x1 - u) - y1,
         x3 = m * m - x1 - x2, y3 = m * (x1 - x3) - y1
  PROVE  x3 \cong u /\ y3 \cong v
<1>1. u \cong x3
  OBVIOUS
<1>2. x3 \cong u
  BY <1>1, CongSym
<1>3. x1 \cong x1 /\ m \cong m /\ y1 \cong y1
  BY CongSame
<1>4. PICK d \in Int, e \in Int : d = x1 - x3 /\ e = x1 - u
  OBVIOUS
<1>5. d \cong e
  BY <1>2, <1>3, <1>4, CongOps
<1>6. PICK g \in Int, h \in Int : g = m * d /\ h = m * e
  OBVIOUS
<1>7. g \cong h
  BY <1>3, <1>5, <1>6, CongOps
<1>8. g - y1 \cong h - y1
  BY <1>3, <1>7, CongOps
<1>9. g - y1 = y3 /\ h - y1 = m * (x1 - u) - y1 /\ h - y1 \in Int
  BY <1>4, <1>6
<1>10. y3 \cong h - y1 /\ v \cong h - y1
  BY <1>8, <1>9
<1>11. h - y1 \cong v
  BY <1>9, <1>10, CongSym
<1>12. y3 \cong v
  BY <1>9, <1>10, <1>11, CongTrans
<1> QED BY <1>2, <1>12

LEMMA PointType == \A A \in Points : A[1] \in Field /\ A[2] \in Field /\ A[1] \in Int /\ A[2] \in Int
BY FieldType DEF Points

\* Z after an addition: it is not 0 if the points have different x.
NextZ(z, x1, x2) == z * z * z * (x2 - x1)

LEMMA NewZ ==
  ASSUME NEW z \in Int, NEW l \in Field, NEW r \in Field, ~ (z \cong 0), l # r
  PROVE  NextZ(z, l, r) \in Int /\ ~ (NextZ(z, l, r) \cong 0)
<1>1. l \in Int /\ r \in Int /\ ~ (r - l \cong 0)
  BY FieldType, FieldApart
<1>2. PICK d \in Int : d = r - l
  BY <1>1
<1>3. PICK e \in Int : e = z * z
  OBVIOUS
<1>4. PICK f \in Int : f = e * z
  OBVIOUS
<1>5. ~ (e \cong 0)
  BY <1>3, NonZeroProduct
<1>6. ~ (f \cong 0)
  BY <1>4, <1>5, NonZeroProduct
<1>7. ~ (f * d \cong 0)
  BY <1>1, <1>2, <1>6, NonZeroProduct
<1>8. f * d = NextZ(z, l, r) /\ f * d \in Int
  BY <1>1, <1>2, <1>3, <1>4 DEF NextZ
<1> QED BY <1>7, <1>8

\* Add, for points of which a third is on the chord.
LEMMA ChordAdded ==
  ASSUME NEW P, NEW Q, NEW z \in Int, NEW w \in Int,
         NEW A \in Points, NEW B \in Points, NEW S \in Points, Chord(A, B, S),
         Represents(P, z, A[1], A[2]), Represents(Q, z, B[1], B[2]),
         w = NextZ(z, A[1], B[1])
  PROVE  /\ Represents(Add(P, Q).P, w, A[1], A[2])
         /\ Represents(Add(P, Q).sum, w, S[1], S[2])
         /\ Is(Add(P, Q).sub, A[1] * (w * w) - S[1] * (w * w))
<1>1. PICK x1 \in Int, y1 \in Int, x2 \in Int, y2 \in Int, u \in Int, v \in Int :
        x1 = A[1] /\ y1 = A[2] /\ x2 = B[1] /\ y2 = B[2] /\ u = S[1] /\ v = S[2]
  BY PointType
<1>2. PICK m \in Field : /\ m * (x2 - x1) \cong y2 - y1
                         /\ u \cong m * m - x1 - x2
                         /\ v \cong m * (x1 - u) - y1
  BY <1>1 DEF Chord
<1>3. m \in Int
  BY FieldType
<1>4. PICK x3 \in Int : x3 = m * m - x1 - x2
  BY <1>3
<1>5. PICK y3 \in Int : y3 = m * (x1 - x3) - y1
  BY <1>3
<1>6. x3 \cong u /\ y3 \cong v
  BY <1>2, <1>3, <1>4, <1>5, ThirdPoint
<1>7. /\ Represents(Add(P, Q).P, w, x1, y1)
      /\ Represents(Add(P, Q).sum, w, x3, y3)
      /\ Is(Add(P, Q).sub, x1 * (w * w) - x3 * (w * w))
  <2>1. OnChord(m, x1, y1, x2, y2, x3, y3)
    BY <1>2, <1>4, <1>5 DEF OnChord
  <2>2. w = z * z * z * (x2 - x1)
    BY <1>1 DEF NextZ
  <2> QED BY <1>1, <1>3, <2>1, <2>2, AdditionRight
<1>8. Represents(Add(P, Q).sum, w, u, v)
  BY <1>6, <1>7, RepresentsAs
<1>9. Is(Add(P, Q).sub, x1 * (w * w) - u * (w * w))
  <2>1. PICK c \in Int, d \in Int : c = w * w /\ d = x1 * (w * w)
    OBVIOUS
  <2>2. c \cong c /\ d \cong d
    BY CongSame
  <2>3. PICK e \in Int, f \in Int : e = x3 * c /\ f = u * c
    OBVIOUS
  <2>4. e \cong f
    BY <1>6, <2>2, <2>3, CongOps
  <2>5. d - e \cong d - f /\ d - f \in Int
    BY <2>2, <2>4, CongOps
  <2>6. Is(Add(P, Q).sub, d - e)
    BY <1>7, <2>1, <2>3
  <2>7. Is(Add(P, Q).sub, d - f)
    BY <2>5, <2>6, IsAs
  <2> QED BY <2>1, <2>3, <2>7
<1> QED BY <1>1, <1>7, <1>8, <1>9

\* What AddC squares: the difference of the x of A and B.
DifferenceOfX(sub, z, A, B) ==
  \/ Is(sub, A[1] * (z * z) - B[1] * (z * z))
  \/ Is(sub, B[1] * (z * z) - A[1] * (z * z))

\* AddC, for points of which a third is on the chord and one on the chord to
\* the opposite point.
LEMMA ChordsAdded ==
  ASSUME NEW P, NEW Q, NEW sub, NEW z \in Int, NEW w \in Int,
         NEW A \in Points, NEW B \in Points, NEW O \in Points, NEW S \in Points, NEW D \in Points,
         Chord(A, B, S), Chord(A, O, D), O[1] = B[1], O[2] + B[2] = CurveP,
         Represents(P, z, A[1], A[2]), Represents(Q, z, B[1], B[2]),
         DifferenceOfX(sub, z, A, B), w = NextZ(z, A[1], B[1])
  PROVE  /\ Represents(AddC(P, Q, sub).sum, w, S[1], S[2])
         /\ Represents(AddC(P, Q, sub).difference, w, D[1], D[2])
<1>1. PICK x1 \in Int, y1 \in Int, x2 \in Int, y2 \in Int, u \in Int, v \in Int, g \in Int, h \in Int :
        /\ x1 = A[1] /\ y1 = A[2] /\ x2 = B[1] /\ y2 = B[2] /\ u = S[1] /\ v = S[2]
        /\ g = D[1] /\ h = D[2]
  BY PointType
<1>2. PICK m \in Field : /\ m * (x2 - x1) \cong y2 - y1
                         /\ u \cong m * m - x1 - x2
                         /\ v \cong m * (x1 - u) - y1
  BY <1>1 DEF Chord
<1>3. PICK y5 \in Int : y5 = O[2] /\ y5 + y2 = CurveP
  BY <1>1, PointType
<1>4. PICK n \in Field : /\ n * (x2 - x1) \cong y5 - y1
                         /\ g \cong n * n - x1 - x2
                         /\ h \cong n * (x1 - g) - y1
  BY <1>1, <1>3 DEF Chord
<1>5. m \in Int /\ n \in Int
  BY FieldType
<1>6. n * (x2 - x1) \cong (0 - y2) - y1
  <2>1. y5 - y1 = ((0 - y2) - y1) + 1 * CurveP
    BY <1>3, PrimeNumber
  <2>0. PICK o \in Int : o = n * (x2 - x1)
    BY <1>5
  <2>2. PICK e \in Int, f \in Int : e = y5 - y1 /\ f = (0 - y2) - y1
    <3>1. y5 - y1 \in Int /\ (0 - y2) - y1 \in Int
      OBVIOUS
    <3> QED BY ONLY <3>1, Zenon
  <2>3. e = f + 1 * CurveP /\ 1 \in Int
    BY <2>1, <2>2
  <2>4. e \cong f
    BY <2>3, CongDef
  <2>5. o \cong f
    BY <1>4, <2>0, <2>2, <2>4, CongTrans
  <2> QED BY <2>0, <2>2, <2>5
<1>7. PICK x3 \in Int, x4 \in Int : x3 = m * m - x1 - x2 /\ x4 = n * n - x1 - x2
  BY <1>5
<1>8. PICK y3 \in Int, y4 \in Int : y3 = m * (x1 - x3) - y1 /\ y4 = n * (x1 - x4) - y1
  BY <1>5
<1>9. x3 \cong u /\ y3 \cong v
  BY <1>2, <1>5, <1>7, <1>8, ThirdPoint
<1>10. x4 \cong g /\ y4 \cong h
  BY <1>4, <1>5, <1>7, <1>8, ThirdPoint
<1>11. /\ Represents(AddC(P, Q, sub).sum, w, x3, y3)
       /\ Represents(AddC(P, Q, sub).difference, w, x4, y4)
  <2>1. /\ Represents(P, z, x1, y1) /\ Represents(Q, z, x2, y2)
        /\ \/ Is(sub, x1 * (z * z) - x2 * (z * z))
           \/ Is(sub, x2 * (z * z) - x1 * (z * z))
        /\ w = z * z * z * (x2 - x1)
    BY <1>1 DEF NextZ, DifferenceOfX
  <2>2. OnChord(m, x1, y1, x2, y2, x3, y3) /\ OnChord(n, x1, y1, x2, 0 - y2, x4, y4)
    BY <1>2, <1>6, <1>7, <1>8 DEF OnChord
  <2> QED BY <1>5, <2>1, <2>2, SumAndDifferenceRight
<1>12. Represents(AddC(P, Q, sub).sum, w, u, v) /\ Represents(AddC(P, Q, sub).difference, w, g, h)
  BY <1>9, <1>10, <1>11, RepresentsAs
<1> QED BY <1>1, <1>12

\* Neither s nor the multiples that a round makes of it is infinity.
RegularPrefix(s, n) == s % n # 0 /\ (s + 1) % n # 0 /\ (2 * s + 1) % n # 0

OddOrder(n) == n \in Nat /\ n > 2 /\ \E h \in Nat : n = 2 * h + 1

\* Where s, s + 1, 2s, 2s + 1 and 2s + 2 are among the multiples of a point of
\* odd order.
LEMMA MultiplesOfS ==
  ASSUME NEW n, OddOrder(n), NEW s \in Nat, RegularPrefix(s, n)
  PROVE  \E a \in 1..(n - 2), c \in 2..(n - 2) :
           /\ s % n = a /\ (s + 1) % n = a + 1 /\ (a + (a + 1)) % n = c /\ ((a + 1) + a) % n = c
           /\ (2 * s) % n = c - 1 /\ (2 * s + 1) % n = c /\ (2 * s + 2) % n = c + 1
<1>0. n \in Nat \ {0} /\ n \in Nat /\ n > 2
  BY DEF OddOrder
<1>h. PICK h \in Nat : n = 2 * h + 1
  BY DEF OddOrder
<1> USE <1>0, <1>h
<1>1. PICK a \in 0..(n - 1), q \in Int : a = s % n /\ s = q * n + a
  <2>1. s \in Int
    OBVIOUS
  <2>2. s % n \in 0..(n - 1) /\ s = (s \div n) * n + (s % n) /\ s \div n \in Int
    BY ONLY <1>0, <2>1, Remainder, Zenon
  <2> QED BY ONLY <2>2, Zenon
<1>2. a # 0
  BY <1>1 DEF RegularPrefix
<1>3. a \in 1..(n - 2) /\ (s + 1) % n = a + 1
  <2>1. PICK t \in Int : t = s + 1
    OBVIOUS
  <2>2. ASSUME a = n - 1 PROVE FALSE
    <3>1. t = 0 + (q + 1) * n /\ q + 1 \in Int /\ 0 \in 0..(n - 1)
      BY <1>1, <2>1, <2>2
    <3>2. t % n = 0
      BY <1>0, <3>1, RemainderUnique
    <3> QED BY <2>1, <3>2 DEF RegularPrefix
  <2>3. t = (a + 1) + q * n /\ a + 1 \in 0..(n - 1)
    BY <1>1, <2>1, <2>2
  <2>4. t % n = a + 1
    BY <1>0, <2>3, RemainderUnique
  <2> QED BY <1>2, <2>1, <2>2, <2>4
\* 2a + 1 is not n, and c is it or what it is above n.
<1>4. PICK c \in 1..(n - 1), k \in {0, 1} : 2 * a + 1 = c + k * n
  <2>1. 2 * a + 1 # n
    <3>1. ASSUME 2 * a + 1 = n PROVE FALSE
      <4>1. PICK t \in Int : t = 2 * s + 1
        OBVIOUS
      <4>2. t = 0 + (2 * q + 1) * n /\ 2 * q + 1 \in Int /\ 0 \in 0..(n - 1)
        <5>1. t = 2 * (q * n) + n
          BY <1>1, <3>1, <4>1
        <5>2. 2 * (q * n) + n = 0 + (2 * q + 1) * n
          OBVIOUS
        <5> QED BY <5>1, <5>2
      <4>3. t % n = 0
        BY <1>0, <4>2, RemainderUnique
      <4> QED BY <4>1, <4>3 DEF RegularPrefix
    <3> QED BY <3>1
  <2>2. CASE 2 * a + 1 < n
    <3>1. 2 * a + 1 = (2 * a + 1) + 0 * n /\ 2 * a + 1 \in 1..(n - 1)
      BY <1>3, <2>2
    <3> QED BY <3>1
  <2>3. CASE 2 * a + 1 > n
    <3>1. 2 * a + 1 = (2 * a + 1 - n) + 1 * n /\ 2 * a + 1 - n \in 1..(n - 1)
      BY <1>3, <2>3
    <3> QED BY <3>1
  <2> QED BY <1>3, <2>1, <2>2, <2>3
<1>5. c \in 2..(n - 2)
  <2>1. CASE k = 0
    <3>1. 2 * a + 1 = c
      BY <1>4, <2>1
    <3> QED BY <1>3, <3>1
  <2>2. CASE k = 1
    <3>1. 2 * a + 1 = c + n
      BY <1>4, <2>2
    <3> QED BY <1>3, <3>1
  <2> QED BY <2>1, <2>2
<1>6. PICK j \in Int : 2 * s + 1 = c + j * n
  <2>1. 2 * s + 1 = 2 * (q * n) + (2 * a + 1)
    BY <1>1
  <2>2. 2 * (q * n) + (c + k * n) = c + (2 * q + k) * n
    OBVIOUS
  <2>3. 2 * s + 1 = c + (2 * q + k) * n /\ 2 * q + k \in Int
    BY <1>4, <2>1, <2>2
  <2> QED BY <2>3
<1>7. \A d \in {-1, 0, 1} : (2 * s + 1 + d) % n = c + d
  <2> SUFFICES ASSUME NEW d \in {-1, 0, 1} PROVE (2 * s + 1 + d) % n = c + d
    OBVIOUS
  <2>1. PICK t \in Int : t = 2 * s + 1 + d
    OBVIOUS
  <2>2. t = (c + d) + j * n /\ c + d \in 0..(n - 1)
    BY <1>5, <1>6, <2>1
  <2>3. t % n = c + d
    BY <1>0, <2>2, RemainderUnique
  <2> QED BY <2>1, <2>3
<1>8. (2 * s) % n = c - 1 /\ (2 * s + 1) % n = c /\ (2 * s + 2) % n = c + 1
  <2>1. 2 * s + 1 + (-1) = 2 * s /\ 2 * s + 1 + 0 = 2 * s + 1 /\ 2 * s + 1 + 1 = 2 * s + 2
        /\ c + (-1) = c - 1 /\ c + 0 = c
    OBVIOUS
  <2> QED BY <1>7, <2>1
<1>9. (a + (a + 1)) % n = c /\ ((a + 1) + a) % n = c
  <2>1. PICK t \in Int : t = a + (a + 1) /\ t = (a + 1) + a
    OBVIOUS
  <2>2. t = c + k * n /\ k \in Int /\ c \in 0..(n - 1)
    BY <1>4, <2>1
  <2>3. t % n = c
    BY <1>0, <2>2, RemainderUnique
  <2> QED BY <2>1, <2>3
<1> QED BY <1>1, <1>3, <1>5, <1>8, <1>9

\* Up to n, c is the sum of j and k and d their difference.
SumAndDifference(j, k, c, d, n) ==
  j # k /\ j + k # n /\ (j + k) % n = c /\ (j - k = d \/ j - k = d - n)

\* The chords between multiples of a point, and to the opposite of one.
LEMMA ChordsOfMultiples ==
  ASSUME NEW n \in Nat, n > 2, NEW M, MultiplesOfAPoint(M, n),
         NEW j \in 1..(n - 1), NEW k \in 1..(n - 1), NEW c \in 1..(n - 1), NEW d \in 1..(n - 1),
         SumAndDifference(j, k, c, d, n)
  PROVE  /\ M[j] \in Points /\ M[k] \in Points /\ M[n - k] \in Points /\ M[c] \in Points /\ M[d] \in Points
         /\ M[j][1] # M[k][1]
         /\ Chord(M[j], M[k], M[c]) /\ Chord(M[j], M[n - k], M[d])
         /\ M[n - k][1] = M[k][1] /\ M[n - k][2] + M[k][2] = CurveP
<1> USE DEF SumAndDifference
<1>1. \A i \in 1..(n - 1) : M[i] \in Points
  BY DEF MultiplesOfAPoint, Points
<1>2. n - k \in 1..(n - 1) /\ j # n - k /\ j + (n - k) # n /\ n \in Nat \ {0}
  OBVIOUS
<1>3. (j + (n - k)) % n = d
  <2>1. PICK t \in Int : t = j + (n - k)
    OBVIOUS
  <2>2. \E q \in Int : t = d + q * n
    <3>1. CASE j - k = d
      <4>1. t = d + 1 * n
        BY <2>1, <3>1
      <4> QED BY <4>1
    <3>2. CASE j - k = d - n
      <4>1. t = d + 0 * n
        BY <2>1, <3>2
      <4> QED BY <4>1
    <3> QED BY <3>1, <3>2
  <2>3. t % n = d
    BY <1>2, <2>2, RemainderUnique
  <2> QED BY <2>1, <2>3
<1>4. M[j][1] # M[k][1] /\ Chord(M[j], M[k], M[(j + k) % n])
  BY DEF MultiplesOfAPoint
<1>5. Chord(M[j], M[n - k], M[(j + (n - k)) % n])
  BY <1>2 DEF MultiplesOfAPoint
<1>6. M[n - k][1] = M[k][1] /\ M[n - k][2] + M[k][2] = CurveP
  BY DEF MultiplesOfAPoint
<1> QED BY <1>1, <1>2, <1>3, <1>4, <1>5, <1>6

\* The two points of the ladder stand for A and B.
Stand(R, z, A, B) ==
  ~ (z \cong 0) /\ Represents(R[0], z, A[1], A[2]) /\ Represents(R[1], z, B[1], B[2])
LadderAt(L, M, n, s) ==
  \E z \in Int : /\ Stand(L.R, z, M[s % n], M[(s + 1) % n])
                 /\ DifferenceOfX(L.sub, z, M[s % n], M[(s + 1) % n])

\* What AddC makes of s and s + 1: their difference, one or its opposite, and
\* their sum.
One(nb, n) == IF nb = 0 THEN 1 ELSE n - 1
LEMMA LadderAddCRight ==
  ASSUME NEW n, OddOrder(n), NEW s \in Nat, RegularPrefix(s, n),
         NEW M, MultiplesOfAPoint(M, n), NEW L, LadderAt(L, M, n, s), NEW nb \in {0, 1}
  PROVE  \E z \in Int :
           /\ ~ (z \cong 0)
           /\ Represents(LadderAddC(L.R, L.sub, nb)[1 - nb], z, M[One(nb, n)][1], M[One(nb, n)][2])
           /\ Represents(LadderAddC(L.R, L.sub, nb)[nb], z,
                         M[(2 * s + 1) % n][1], M[(2 * s + 1) % n][2])
<1>0. n \in Nat /\ n > 2
  BY DEF OddOrder
<1>1. PICK a \in 1..(n - 2), c \in 2..(n - 2) :
        /\ s % n = a /\ (s + 1) % n = a + 1 /\ (a + (a + 1)) % n = c /\ ((a + 1) + a) % n = c
        /\ (2 * s + 1) % n = c
  BY MultiplesOfS
<1>2. PICK z \in Int : Stand(L.R, z, M[a], M[a + 1]) /\ DifferenceOfX(L.sub, z, M[a], M[a + 1])
  BY <1>1 DEF LadderAt
<1>3. /\ LadderAddC(L.R, L.sub, nb)[1 - nb] = AddC(L.R[1 - nb], L.R[nb], L.sub).difference
      /\ LadderAddC(L.R, L.sub, nb)[nb] = AddC(L.R[1 - nb], L.R[nb], L.sub).sum
  BY DEF LadderAddC
<1> DEFINE j == IF nb = 0 THEN a + 1 ELSE a
<1> DEFINE k == IF nb = 0 THEN a ELSE a + 1
<1> DEFINE d == One(nb, n)
<1>4. /\ j \in 1..(n - 1) /\ k \in 1..(n - 1) /\ c \in 1..(n - 1) /\ d \in 1..(n - 1)
      /\ SumAndDifference(j, k, c, d, n)
  <2> USE <1>0 DEF SumAndDifference
  <2>1. j + k # n
    <3>1. ASSUME j + k = n PROVE FALSE
      <4>1. a + (a + 1) = n
        BY <3>1
      <4>2. n % n = 0
        OBVIOUS
      <4> QED BY <1>1, <4>1, <4>2
    <3> QED BY <3>1
  <2>2. CASE nb = 0
    BY <1>1, <2>1, <2>2 DEF One
  <2>3. CASE nb = 1
    BY <1>1, <2>1, <2>3 DEF One
  <2> QED BY <2>2, <2>3
<1>5. /\ Represents(L.R[1 - nb], z, M[j][1], M[j][2]) /\ Represents(L.R[nb], z, M[k][1], M[k][2])
      /\ DifferenceOfX(L.sub, z, M[j], M[k])
  <2>1. CASE nb = 0
    BY <1>2, <2>1 DEF Stand, DifferenceOfX
  <2>2. CASE nb = 1
    BY <1>2, <2>2 DEF Stand, DifferenceOfX
  <2> QED BY <2>1, <2>2
<1> HIDE DEF j, k, d
<1>6. /\ M[j] \in Points /\ M[k] \in Points /\ M[n - k] \in Points /\ M[c] \in Points /\ M[d] \in Points
      /\ M[j][1] # M[k][1]
      /\ Chord(M[j], M[k], M[c]) /\ Chord(M[j], M[n - k], M[d])
      /\ M[n - k][1] = M[k][1] /\ M[n - k][2] + M[k][2] = CurveP
  BY <1>0, <1>4, ChordsOfMultiples
<1>7. M[k][1] \in Field /\ M[j][1] \in Field /\ ~ (z \cong 0)
  BY <1>2, <1>6 DEF Points, Stand
<1>8. PICK w \in Int : w = NextZ(z, M[j][1], M[k][1]) /\ ~ (w \cong 0)
  BY <1>6, <1>7, NewZ
<1>9. /\ Represents(AddC(L.R[1 - nb], L.R[nb], L.sub).sum, w, M[c][1], M[c][2])
      /\ Represents(AddC(L.R[1 - nb], L.R[nb], L.sub).difference, w, M[d][1], M[d][2])
  BY <1>5, <1>6, <1>8, ChordsAdded
<1> QED BY <1>1, <1>3, <1>8, <1>9 DEF d

\* What Add makes of that: two neighbours again, the first of which is 2s or
\* 2s + 1.
LEMMA LadderAddRight ==
  ASSUME NEW n \in Nat, n > 2, NEW M, MultiplesOfAPoint(M, n), NEW R, NEW nb \in {0, 1},
         NEW c \in 2..(n - 2), NEW z \in Int, ~ (z \cong 0), NEW w,
         Represents(R[1 - nb], z, M[One(nb, n)][1], M[One(nb, n)][2]),
         Represents(R[nb], z, M[c][1], M[c][2]),
         w = NextZ(z, M[c][1], M[One(nb, n)][1])
  PROVE  /\ w \in Int
         /\ Stand(LadderAdd(R, nb).R, w, M[c - nb], M[c - nb + 1])
         /\ DifferenceOfX(LadderAdd(R, nb).sub, w, M[c - nb], M[c - nb + 1])
<1> DEFINE k == One(nb, n)
<1> DEFINE up == IF nb = 0 THEN c + 1 ELSE c - 1
<1> DEFINE down == IF nb = 0 THEN c - 1 ELSE c + 1
<1>1. /\ LadderAdd(R, nb).R[nb] = Add(R[nb], R[1 - nb]).P
      /\ LadderAdd(R, nb).R[1 - nb] = Add(R[nb], R[1 - nb]).sum
      /\ LadderAdd(R, nb).sub = Add(R[nb], R[1 - nb]).sub
  BY DEF LadderAdd
<1>2. /\ c \in 1..(n - 1) /\ k \in 1..(n - 1) /\ up \in 1..(n - 1) /\ down \in 1..(n - 1)
      /\ c # k /\ c + k # n /\ (c - k = down \/ c - k = down - n) /\ n \in Nat \ {0}
      /\ c + k = up + nb * n
  <2>1. CASE nb = 0
    BY <2>1 DEF One
  <2>2. CASE nb = 1
    BY <2>2 DEF One
  <2> QED BY <2>1, <2>2
<1>3. (c + k) % n = up
  <2>1. PICK t \in Int : t = c + k
    BY <1>2
  <2> HIDE DEF k, up
  <2>2. t = up + nb * n /\ nb \in Int /\ up \in 0..(n - 1)
    BY <1>2, <2>1
  <2>3. t % n = up
    BY <1>2, <2>2, RemainderUnique
  <2> QED BY <2>1, <2>3
<1> HIDE DEF k, down
<1>4. /\ M[c] \in Points /\ M[k] \in Points /\ M[up] \in Points
      /\ M[c][1] # M[k][1] /\ Chord(M[c], M[k], M[up])
  <2>1. SumAndDifference(c, k, up, down, n)
    BY <1>2, <1>3 DEF SumAndDifference
  <2> HIDE DEF up
  <2> QED BY <1>2, <2>1, ChordsOfMultiples
<1>5. w \in Int /\ ~ (w \cong 0) /\ w = NextZ(z, M[c][1], M[k][1])
  <2>1. M[k][1] \in Field /\ M[c][1] \in Field
    BY <1>4 DEF Points
  <2> QED BY <1>4, <2>1, NewZ DEF k
<1>6. /\ Represents(R[nb], z, M[c][1], M[c][2]) /\ Represents(R[1 - nb], z, M[k][1], M[k][2])
  BY DEF k
<1>7. /\ Represents(Add(R[nb], R[1 - nb]).P, w, M[c][1], M[c][2])
      /\ Represents(Add(R[nb], R[1 - nb]).sum, w, M[up][1], M[up][2])
      /\ Is(Add(R[nb], R[1 - nb]).sub, M[c][1] * (w * w) - M[up][1] * (w * w))
  <2> HIDE DEF up
  <2> QED BY <1>4, <1>5, <1>6, ChordAdded
<1>8. CASE nb = 0
  <2>1. c - nb = c /\ c - nb + 1 = c + 1 /\ up = c + 1 /\ 1 - nb = 1
    BY <1>8
  <2>2. Stand(LadderAdd(R, nb).R, w, M[c], M[c + 1])
    BY <1>1, <1>5, <1>7, <1>8, <2>1 DEF Stand
  <2>3. DifferenceOfX(LadderAdd(R, nb).sub, w, M[c], M[c + 1])
    BY <1>1, <1>7, <1>8, <2>1 DEF DifferenceOfX
  <2> QED BY <1>5, <2>1, <2>2, <2>3
<1>9. CASE nb = 1
  <2>1. c - nb = c - 1 /\ c - nb + 1 = c /\ up = c - 1 /\ 1 - nb = 0
    BY <1>9
  <2>2. Stand(LadderAdd(R, nb).R, w, M[c - 1], M[c])
    BY <1>1, <1>5, <1>7, <1>9, <2>1 DEF Stand
  <2>3. DifferenceOfX(LadderAdd(R, nb).sub, w, M[c - 1], M[c])
    BY <1>1, <1>7, <1>9, <2>1 DEF DifferenceOfX
  <2> QED BY <1>5, <2>1, <2>2, <2>3
<1> QED BY <1>8, <1>9

\* A round of the ladder goes from s and s + 1 to 2s and 2s + 1 or to 2s + 1
\* and 2s + 2, as the bit has it.
LEMMA LadderRoundRight ==
  ASSUME NEW n, OddOrder(n), NEW s \in Nat, RegularPrefix(s, n),
         NEW M, MultiplesOfAPoint(M, n), NEW L, LadderAt(L, M, n, s), NEW nb \in {0, 1}
  PROVE  LadderAt(LadderRound(L, nb), M, n, 2 * s + 1 - nb)
<1>0. n \in Nat /\ n > 2
  BY DEF OddOrder
<1> DEFINE R == LadderAddC(L.R, L.sub, nb)
<1> DEFINE N == LadderAdd(R, nb)
<1>1. PICK z \in Int :
        /\ ~ (z \cong 0)
        /\ Represents(R[1 - nb], z, M[One(nb, n)][1], M[One(nb, n)][2])
        /\ Represents(R[nb], z, M[(2 * s + 1) % n][1], M[(2 * s + 1) % n][2])
  BY LadderAddCRight
<1>2. PICK c \in 2..(n - 2) :
        (2 * s) % n = c - 1 /\ (2 * s + 1) % n = c /\ (2 * s + 2) % n = c + 1
  BY MultiplesOfS
<1>3. LadderRound(L, nb) = N
  BY DEF LadderRound
<1> HIDE DEF R
<1>4. \E w \in Int : /\ Stand(N.R, w, M[c - nb], M[c - nb + 1])
                     /\ DifferenceOfX(N.sub, w, M[c - nb], M[c - nb + 1])
  <2>1. Represents(R[nb], z, M[c][1], M[c][2])
    BY <1>1, <1>2
  <2>2. PICK w : w = NextZ(z, M[c][1], M[One(nb, n)][1])
    OBVIOUS
  <2>3. /\ w \in Int /\ Stand(N.R, w, M[c - nb], M[c - nb + 1])
        /\ DifferenceOfX(N.sub, w, M[c - nb], M[c - nb + 1])
    BY <1>0, <1>1, <2>1, <2>2, LadderAddRight
  <2> QED BY <2>3, Zenon
<1>5. (2 * s + 1 - nb) % n = c - nb /\ (2 * s + 1 - nb + 1) % n = c - nb + 1
  <2>1. CASE nb = 0
    <3>1. 2 * s + 1 - nb = 2 * s + 1 /\ 2 * s + 1 - nb + 1 = 2 * s + 2 /\ c - nb = c /\ c - nb + 1 = c + 1
      BY <2>1
    <3> QED BY <1>2, <3>1
  <2>2. CASE nb = 1
    <3>1. 2 * s + 1 - nb = 2 * s /\ 2 * s + 1 - nb + 1 = 2 * s + 1 /\ c - nb = c - 1 /\ c - nb + 1 = c
      BY <2>2
    <3> QED BY <1>2, <3>1
  <2> QED BY <2>1, <2>2
<1> HIDE DEF N
<1> QED BY <1>3, <1>4, <1>5 DEF LadderAt

\* The point and its double, with which the ladder begins.
LEMMA InitialDoubleRight ==
  ASSUME NEW n, OddOrder(n), NEW M, MultiplesOfAPoint(M, n), NEW initial_Z \in Field
  PROVE  LadderAt(WithDifference(InitialDouble(M[1], initial_Z)), M, n, 1)
<1> DEFINE z0 == IF initial_Z = 0 THEN 1 ELSE initial_Z
<1> DEFINE doubled == DoubleJacobian(ApplyZ(M[1], z0), z0)
<1> DEFINE R == InitialDouble(M[1], initial_Z)
<1>0. n \in Nat /\ n > 2 /\ n \in Nat \ {0}
  BY DEF OddOrder
<1>1. R[0] = ApplyZ(M[1], doubled.z) /\ R[1] = doubled.point
  BY DEF InitialDouble
<1>2. M[1] \in Points /\ M[2] \in Points /\ M[1][2] # 0 /\ Tangent(M[1], M[2])
  <2>1. 1 \in 1..(n - 1) /\ 2 \in 1..(n - 1)
    BY <1>0
  <2> QED BY <2>1 DEF MultiplesOfAPoint, Points
<1>3. z0 \in Field /\ z0 # 0 /\ z0 \in Int /\ 0 \in Field
  <2>1. 1 \in Field /\ 0 \in Field
    BY PrimePositive DEF Field
  <2> QED BY <2>1, FieldType
<1> HIDE DEF z0
<1>4. PICK x \in Int, y \in Int, u \in Int, v \in Int :
        x = M[1][1] /\ y = M[1][2] /\ u = M[2][1] /\ v = M[2][2]
  BY <1>2, PointType
<1>5. Represents(M[1], 1, x, y)
  <2>1. Is(M[1][1], x) /\ Is(M[1][2], y)
    BY <1>2, <1>4, IsItself DEF Points
  <2>2. x * (1 * 1) = x /\ y * (1 * 1 * 1) = y
    BY <1>4
  <2> QED BY <1>2, <2>1, <2>2 DEF Represents
<1>6. Represents(ApplyZ(M[1], z0), z0, x, y) /\ Is(z0, z0)
  <2>1. Is(z0, z0)
    BY <1>3, IsItself
  <2>2. Represents(ApplyZ(M[1], z0), 1 * z0, x, y)
    BY <1>3, <1>5, <2>1, ApplyZRight
  <2>3. 1 * z0 = z0
    BY <1>3
  <2> QED BY <2>1, <2>2, <2>3
<1>7. PICK m \in Field : /\ 2 * y * m \cong 3 * x * x - 3
                         /\ u \cong m * m - x - x
                         /\ v \cong m * (x - u) - y
  BY <1>2, <1>4 DEF Tangent
<1>8. m \in Int
  BY FieldType
<1>9. PICK x3 \in Int : x3 = m * m - x - x
  BY <1>8
<1>10. PICK y3 \in Int : y3 = m * (x - x3) - y
  BY <1>8
<1>11. x3 \cong u /\ y3 \cong v
  <2>1. u \cong m * m - x - x /\ v \cong m * (x - u) - y
    BY <1>7
  <2> QED BY ONLY <1>8, <1>9, <1>10, <2>1, x \in Int, y \in Int, u \in Int, v \in Int,
                 x3 \in Int, y3 \in Int, ThirdPoint, Zenon
<1>12. PICK w \in Int : w = y * z0 * z0 * z0 * z0
  BY <1>3
<1>13. ~ (w \cong 0)
  <2>1. ~ (y \cong 0) /\ ~ (z0 \cong 0)
    <3>1. ~ (y - 0 \cong 0) /\ ~ (z0 - 0 \cong 0)
      BY <1>2, <1>3, <1>4, FieldApart DEF Points
    <3>2. y - 0 = y /\ z0 - 0 = z0
      BY <1>3
    <3> QED BY <3>1, <3>2
  <2>2. PICK a \in Int : a = y * z0
    BY <1>3
  <2>3. PICK b \in Int : b = a * z0
    BY <1>3
  <2>4. PICK c \in Int : c = b * z0
    BY <1>3
  <2>5. ~ (a \cong 0)
    BY <1>3, <2>1, <2>2, NonZeroProduct
  <2>6. ~ (b \cong 0)
    BY <1>3, <2>1, <2>3, <2>5, NonZeroProduct
  <2>7. ~ (c \cong 0)
    BY <1>3, <2>1, <2>4, <2>6, NonZeroProduct
  <2>8. ~ (c * z0 \cong 0)
    BY <1>3, <2>1, <2>7, NonZeroProduct
  <2>9. c * z0 = w
    BY <1>12, <2>2, <2>3, <2>4
  <2> QED BY <2>8, <2>9
<1>14. Is(doubled.z, w) /\ Represents(doubled.point, w, x3, y3)
  <2>1. OnTangent(m, x, y, x3, y3)
    BY <1>7, <1>9, <1>10 DEF OnTangent
  <2> QED BY <1>3, <1>6, <1>8, <1>12, <2>1, DoublingRight
<1> HIDE DEF doubled
<1>15. Represents(R[1], w, u, v)
  BY <1>1, <1>11, <1>14, RepresentsAs
<1>16. Represents(R[0], w, x, y)
  <2>1. Represents(ApplyZ(M[1], doubled.z), 1 * w, x, y)
    BY <1>5, <1>14, ApplyZRight
  <2>2. 1 * w = w
    OBVIOUS
  <2> QED BY <1>1, <2>1, <2>2
<1> HIDE DEF R
<1>17. Is(R[0][1] \ominus R[1][1], x * (w * w) - u * (w * w))
  BY <1>15, <1>16, IsDiff, Zenon DEF Represents
<1>18. 1 % n = 1 /\ (1 + 1) % n = 2
  <2>1. PICK i \in Int : i = 1
    OBVIOUS
  <2>2. i = 1 + 0 * n /\ 1 \in 0..(n - 1) /\ i + 1 = 2 + 0 * n /\ 2 \in 0..(n - 1) /\ 0 \in Int
    BY <1>0, <2>1
  <2>3. i % n = 1 /\ (i + 1) % n = 2
    BY <1>0, <2>2, RemainderUnique
  <2> QED BY <2>1, <2>3
<1>19. WithDifference(R) = [R |-> R, sub |-> R[0][1] \ominus R[1][1]]
  BY DEF WithDifference
<1>20. Stand(R, w, M[1], M[2]) /\ DifferenceOfX(R[0][1] \ominus R[1][1], w, M[1], M[2])
  BY <1>4, <1>13, <1>15, <1>16, <1>17 DEF Stand, DifferenceOfX
<1>21. LadderAt(WithDifference(R), M, n, 1)
  BY <1>18, <1>19, <1>20 DEF LadderAt
<1> QED BY <1>21 DEF R

\* A point whose Z is congruent to one is represented by its coordinates.
LEMMA Affine ==
  ASSUME NEW Q, NEW g \in Int, NEW A \in Points, Represents(Q, g, A[1], A[2]), g \cong 1
  PROVE  Q = A
<1>1. PICK u \in Int, v \in Int : u = A[1] /\ v = A[2] /\ u \in Field /\ v \in Field
  BY PointType DEF Points
<1>2. PICK c \in Int, d \in Int : c = g * g /\ d = g * g * g
  OBVIOUS
<1>3. c \cong 1
  <2>1. g * g \cong 1 * 1
    BY CongOps
  <2> QED BY <1>2, <2>1
<1>4. d \cong 1
  <2>1. c * g \cong 1 * 1
    BY <1>3, CongOps
  <2>2. c * g = d /\ 1 * 1 = 1
    BY <1>2
  <2> QED BY <2>1, <2>2
<1>5. PICK e \in Int : e = 1
  OBVIOUS
<1>6. u * c \cong u * e /\ v * d \cong v * e /\ u * e = u /\ v * e = v
  <2>1. u \cong u /\ v \cong v /\ c \cong e /\ d \cong e
    BY <1>3, <1>4, <1>5, CongSame
  <2>2. u * c \cong u * e /\ v * d \cong v * e
    BY <2>1, CongOps
  <2> QED BY <1>5, <2>2
<1>7. Is(Q[1], u * c) /\ Is(Q[2], v * d) /\ Q \in Points
  BY <1>1, <1>2 DEF Represents
<1>8. Is(Q[1], u) /\ Is(Q[2], v)
  BY <1>6, <1>7, IsAs
<1>9. Q[1] = u /\ Q[2] = v
  BY <1>1, <1>8, CongUnique DEF Is
<1> QED BY <1>1, <1>7, <1>9 DEF Points

\* A multiple of the point of which a coordinate is not 0, as an integer.
LEMMA FieldNonZero ==
  ASSUME NEW l \in Field, l # 0
  PROVE  ~ (l \cong 0)
<1>1. 0 \in Field /\ l \in Int
  BY PrimePositive, FieldType DEF Field
<1>2. ~ (l - 0 \cong 0) /\ l - 0 = l
  BY <1>1, FieldApart
<1> QED BY <1>2

\* The y of the point or of its opposite, as an integer of either sign.
LEMMA OneOrOpposite ==
  ASSUME NEW n \in Nat, n > 2, NEW M, MultiplesOfAPoint(M, n), NEW nb \in {0, 1}
  PROVE  \E s \in {-1, 1}, t \in Int :
           /\ s = 1 - 2 * nb /\ t = s * M[1][2] /\ M[One(nb, n)][2] \cong t
           /\ M[One(nb, n)][1] = M[1][1]
           /\ M[One(nb, n)] \in Points /\ M[1] \in Points /\ M[1][2] # 0 /\ ~ (t \cong 0)
<1>1. 1 \in 1..(n - 1) /\ n - 1 \in 1..(n - 1)
  OBVIOUS
<1>2. /\ M[1] \in Points /\ M[n - 1] \in Points /\ M[1][2] # 0 /\ M[n - 1][2] # 0
      /\ M[n - 1][1] = M[1][1] /\ M[n - 1][2] + M[1][2] = CurveP
  BY <1>1 DEF MultiplesOfAPoint, Points
<1>3. PICK y \in Int : y = M[1][2] /\ ~ (y \cong 0)
  BY <1>2, PointType, FieldNonZero
<1>4. CASE nb = 0
  <2>1. One(nb, n) = 1 /\ 1 = 1 - 2 * nb /\ y = 1 * y
    BY <1>4 DEF One
  <2>2. y \cong y
    BY CongSame
  <2> QED BY <1>2, <1>3, <2>1, <2>2
<1>5. CASE nb = 1
  <2>1. One(nb, n) = n - 1 /\ -1 = 1 - 2 * nb
    BY <1>5 DEF One
  <2>2. PICK o \in Int : o = M[n - 1][2] /\ ~ (o \cong 0) /\ o + y = CurveP
    BY <1>2, <1>3, PointType, FieldNonZero
  <2>3. PICK t \in Int : t = (-1) * y
    OBVIOUS
  <2>4. o = t + 1 * CurveP /\ 1 \in Int
    BY <2>2, <2>3, PrimeNumber
  <2>5. o \cong t
    BY <2>4, CongDef
  <2>6. ~ (t \cong 0)
    <3>1. ASSUME t \cong 0 PROVE FALSE
      <4>1. o \cong 0 /\ 0 \in Int
        BY <2>5, <3>1, CongTrans
      <4> QED BY <2>2, <4>1
    <3> QED BY <3>1
  <2> QED BY <1>2, <1>3, <2>1, <2>2, <2>3, <2>5, <2>6
<1> QED BY <1>4, <1>5

\* The last step finds the common Z again from the point that AddC has made,
\* one or its opposite: what it leaves is the multiple with the coordinates
\* that it has.
LEMMA LastStepRight ==
  ASSUME NEW n \in Nat, n > 2, NEW M, MultiplesOfAPoint(M, n), M[1][1] # 0, NEW R, NEW nb \in {0, 1},
         NEW c \in 2..(n - 2), NEW z \in Int, ~ (z \cong 0),
         Represents(R[1 - nb], z, M[One(nb, n)][1], M[One(nb, n)][2]),
         Represents(R[nb], z, M[c][1], M[c][2]),
         NEW inverse \in Field,
         ZInput(R, M[1], nb) # 0 => (inverse * ZInput(R, M[1], nb)) % CurveP = 1
  PROVE  LastStep(R, M[1], nb, inverse) = M[c - nb]
<1>1. PICK s \in {-1, 1}, t \in Int :
        /\ s = 1 - 2 * nb /\ t = s * M[1][2] /\ M[One(nb, n)][2] \cong t
        /\ M[One(nb, n)][1] = M[1][1]
        /\ M[One(nb, n)] \in Points /\ M[1] \in Points /\ M[1][2] # 0 /\ ~ (t \cong 0)
  BY OneOrOpposite
<1>2. M[c] \in Points /\ M[c - nb] \in Points /\ M[c][1] # M[1][1]
  <2>1. c \in 1..(n - 1) /\ c - nb \in 1..(n - 1) /\ 1 \in 1..(n - 1) /\ c # 1 /\ c + 1 # n
    OBVIOUS
  <2> QED BY <2>1 DEF MultiplesOfAPoint, Points
<1>3. PICK x \in Int, y \in Int, a \in Int, b \in Int :
        x = M[1][1] /\ y = M[1][2] /\ a = M[c][1] /\ b = M[One(nb, n)][2]
  BY <1>1, <1>2, PointType
<1>4. PICK d \in Int : d = x - a /\ ~ (d \cong 0)
  <2>1. M[1][1] \in Field /\ M[c][1] \in Field
    BY <1>1, <1>2 DEF Points
  <2>2. ~ (x - a \cong 0)
    BY <1>2, <1>3, <2>1, FieldApart
  <2> QED BY <2>2
<1>5. ~ (x \cong 0)
  BY <1>1, <1>3, FieldNonZero DEF Points
<1>6. Is(M[1][1], x) /\ Is(M[1][2], y)
  BY <1>1, <1>3, IsItself DEF Points
<1>7. PICK q \in Int, r \in Int : q = z * z /\ r = z * z * z
  OBVIOUS
<1>8. ~ (q \cong 0) /\ ~ (r \cong 0)
  <2>1. ~ (q \cong 0)
    BY <1>7, NonZeroProduct
  <2>2. ~ (q * z \cong 0)
    BY <2>1, NonZeroProduct
  <2>3. q * z = r
    BY <1>7
  <2> QED BY <2>1, <2>2, <2>3
<1>9. Is(R[1 - nb][1], x * q) /\ Is(R[1 - nb][2], b * r) /\ Is(R[nb][1], a * q)
  BY <1>1, <1>3, <1>7 DEF Represents
\* The two y that the point of AddC may have.
<1>10. Is(R[1 - nb][2], t * r)
  <2>1. r \cong r /\ b \cong t
    BY <1>1, <1>3, CongSame
  <2>2. b * r \cong t * r
    BY ONLY <2>1, b \in Int, r \in Int, t \in Int, CongOps, Zenon
  <2>3. t * r \in Int
    OBVIOUS
  <2> QED BY <1>9, <2>2, <2>3, IsAs, Zenon
<1> DEFINE V == ZInput(R, M[1], nb)
<1> DEFINE v == (s * d) * q * (t * r) * x
<1>11. Is(V, v)
  <2>1. Is(R[1][1] \ominus R[0][1], (s * d) * q)
    <3>1. CASE nb = 0
      <4>0. R[1 - nb] = R[1] /\ R[nb] = R[0]
        BY <3>1
      <4>1. Is(R[1][1] \ominus R[0][1], x * q - a * q)
        BY <1>9, <4>0, IsDiff, Zenon
      <4>2. x * q - a * q = (s * d) * q
        BY <1>1, <1>4, <3>1
      <4> QED BY <4>1, <4>2
    <3>2. CASE nb = 1
      <4>0. R[1 - nb] = R[0] /\ R[nb] = R[1]
        BY <3>2
      <4>1. Is(R[1][1] \ominus R[0][1], a * q - x * q)
        BY <1>9, <4>0, IsDiff, Zenon
      <4>2. a * q - x * q = (s * d) * q
        BY <1>1, <1>4, <3>2
      <4> QED BY <4>1, <4>2
    <3> QED BY <3>1, <3>2
  <2>2. V = (R[1][1] \ominus R[0][1]) \otimes R[1 - nb][2] \otimes M[1][1]
    BY DEF ZInput
  <2> QED BY <1>6, <1>10, <2>1, <2>2, IsProduct, Zenon
<1>12. ~ (v \cong 0)
  <2>1. PICK e \in Int : e = s * d /\ ~ (e \cong 0)
    <3>1. CASE s = 1
      BY <1>4, <3>1
    <3>2. CASE s = -1
      <4>1. PICK e \in Int : e = s * d
        OBVIOUS
      <4>2. -1 \in Int /\ ~ (-1 \cong 0)
        <5>1. ASSUME -1 \cong 0 PROVE FALSE
          <6>1. PICK i \in Int : -1 = 0 + i * CurveP
            BY <5>1, CongDef
          <6>2. PICK p \in Int : p = CurveP /\ p > 2
            BY PrimePositive
          <6>3. i * p = -1
            BY <6>1, <6>2
          <6>4. -p < i * p /\ i * p < p /\ p \in Nat \ {0}
            BY <6>2, <6>3
          <6>5. i = 0
            BY <6>4, NoMultipleBetween
          <6> QED BY <6>3, <6>5
        <5> QED BY <5>1
      <4>3. ~ ((-1) * d \cong 0)
        BY <1>4, <4>2, NonZeroProduct
      <4> QED BY <3>2, <4>1, <4>3
    <3> QED BY <3>1, <3>2
  <2>2. PICK f \in Int, g \in Int : f = e * q /\ g = t * r
    OBVIOUS
  <2>3. ~ (f \cong 0) /\ ~ (g \cong 0)
    BY <1>1, <1>8, <2>1, <2>2, NonZeroProduct
  <2>4. PICK h \in Int : h = f * g
    OBVIOUS
  <2>5. ~ (h \cong 0)
    BY <2>3, <2>4, NonZeroProduct
  <2>6. ~ (h * x \cong 0)
    BY <1>5, <2>5, NonZeroProduct
  <2>7. h * x = v
    BY <2>1, <2>2, <2>4
  <2> QED BY <2>6, <2>7
<1>13. v \in Int
  OBVIOUS
<1> HIDE DEF v, V
<1>14. V \in Field /\ V \in Int /\ V \cong v /\ V # 0
  <2>1. V \in Field /\ V \cong v
    BY <1>11 DEF Is
  <2>2. ASSUME V = 0 PROVE FALSE
    <3>1. v \cong 0
      BY <1>13, <2>1, <2>2, CongSym, FieldType
    <3> QED BY <1>12, <3>1
  <2> QED BY <2>1, <2>2, FieldType
<1>15. inverse \in Int /\ (inverse * V) % CurveP = 1
  BY <1>14, FieldType DEF V
<1>16. inverse * v \cong 1
  <2>1. PICK i \in Int, j \in Int : i = inverse * V /\ j = inverse * v
    BY <1>13, <1>14, <1>15
  <2>2. i % CurveP = 1 /\ i % CurveP \cong i
    BY <1>15, <2>1, CongRemainder
  <2>3. i \cong 1
    BY <2>2, CongSym
  <2>4. v \cong V /\ inverse \cong inverse
    BY <1>13, <1>14, <1>15, CongSym, CongSame
  <2>5. j \cong i
    BY <1>13, <1>14, <1>15, <2>1, <2>4, CongOps
  <2>6. j \cong 1
    BY <2>3, <2>5, CongTrans
  <2> QED BY <2>1, <2>6
<1> DEFINE F == inverse \otimes M[1][2] \otimes R[1 - nb][1]
<1> DEFINE f == inverse * y * (x * q)
<1>17. Is(F, f)
  <2>1. Is(inverse, inverse)
    BY IsItself
  <2> QED BY <1>6, <1>9, <2>1, IsProduct, Zenon
<1>18. PICK w : w = NextZ(z, M[c][1], M[One(nb, n)][1])
  OBVIOUS
<1>19. w \in Int /\ Represents(LadderAdd(R, nb).R[0], w, M[c - nb][1], M[c - nb][2])
  <2>1. w \in Int /\ Stand(LadderAdd(R, nb).R, w, M[c - nb], M[c - nb + 1])
    BY <1>18, LadderAddRight
  <2> QED BY <2>1 DEF Stand
<1>20. f \in Int
  BY <1>15
<1>21. w * f = inverse * v
  <2>1. w = r * d
    BY <1>1, <1>3, <1>4, <1>7, <1>18 DEF NextZ
  <2>2. t = s * y
    BY <1>1, <1>3
  <2>3. inverse * v = (s * s) * ((r * d) * f)
    <3>1. inverse * ((s * d) * q * ((s * y) * r) * x) = (s * s) * ((r * d) * (inverse * y * (x * q)))
      BY ONLY <1>15, s \in {-1, 1}, d \in Int, q \in Int, y \in Int, r \in Int, x \in Int
    <3> QED BY <2>2, <3>1, Zenon DEF v, f
  <2>4. s * s = 1
    OBVIOUS
  <2>5. r * d \in Int /\ (r * d) * f \in Int
    BY <1>20
  <2> HIDE DEF f
  <2>6. (s * s) * ((r * d) * f) = (r * d) * f
    BY <2>4, <2>5
  <2> QED BY <2>1, <2>3, <2>6
<1> HIDE DEF F, f
<1>22. Represents(ApplyZ(LadderAdd(R, nb).R[0], F), w * f, M[c - nb][1], M[c - nb][2])
  <2>1. PICK g \in Int, h \in Int : g = M[c - nb][1] /\ h = M[c - nb][2]
    BY <1>2, PointType
  <2>2. Represents(LadderAdd(R, nb).R[0], w, g, h)
    BY <1>19, <2>1
  <2>3. Represents(ApplyZ(LadderAdd(R, nb).R[0], F), w * f, g, h)
    BY <1>17, <1>19, <1>20, <2>2, ApplyZRight
  <2> QED BY <2>1, <2>3
<1>23. LastStep(R, M[1], nb, inverse) = ApplyZ(LadderAdd(R, nb).R[0], F)
  BY DEF LastStep, F
<1>24. PICK g \in Int : g = w * f /\ g \cong 1
  <2>1. w * f \in Int
    BY <1>19, <1>20
  <2> QED BY <1>16, <1>21, <2>1
<1> QED BY <1>2, <1>22, <1>23, <1>24, Affine

----------------------------------------------------------------------------
(* The scalar of the ladder.                                                *)

\* s are what the bits of a scalar make, from the one above the eight words,
\* which the ladder takes as set.
Prefixes(s, w, scalar) ==
  /\ w \in Nat /\ s \in [0..w -> Nat] /\ s[0] = 1 /\ s[w] = Range8 + scalar
  /\ \A i \in 0..(w - 1) : s[i + 1] - 2 * s[i] \in {0, 1}

\* What is between multiples of n is none.
LEMMA BetweenMultiples ==
  ASSUME NEW n \in Nat \ {0}, NEW v \in Int, NEW g \in {0, 1, 2}, g * n < v, v < (g + 1) * n
  PROVE  v % n # 0
<1>1. PICK x \in Int : x = v - g * n
  OBVIOUS
<1>2. x \in 0..(n - 1) /\ x # 0 /\ v = x + g * n /\ g \in Int
  BY <1>1
<1>3. v % n = x
  BY <1>2, RemainderUnique
<1> QED BY <1>2, <1>3

\* The scalar with the bit above the eight words: k and once or twice the
\* order.
LEMMA Regularized ==
  ASSUME NEW n \in Nat, n < Range8, Range8 <= 2 * n, NEW k \in 0..(n - 1)
  PROVE  \E g \in {1, 2} : Range8 + Regularize(k, n) = k + g * n
<1>0. Range8 \in Nat \ {0}
  BY PrimePositive
<1>1. \A v \in Nat : Range8 <= v /\ v < 2 * Range8 => Range8 + (v % Range8) = v
  <2> SUFFICES ASSUME NEW v \in Nat, Range8 <= v, v < 2 * Range8 PROVE Range8 + (v % Range8) = v
    OBVIOUS
  <2>1. PICK x \in Int : x = v - Range8
    BY <1>0
  <2>2. x \in 0..(Range8 - 1) /\ v = x + 1 * Range8 /\ 1 \in Int /\ v \in Int
    BY <1>0, <2>1
  <2>3. v % Range8 = x
    BY <1>0, <2>2, RemainderUnique
  <2> QED BY <1>0, <2>1, <2>3
<1>2. CASE k + n >= Range8
  <2>1. k + n \in Nat /\ Range8 <= k + n /\ k + n < 2 * Range8 /\ 1 * n = n
    BY <1>0, <1>2
  <2>2. Regularize(k, n) = (k + n) % Range8
    BY <1>2 DEF Regularize
  <2> QED BY <1>1, <2>1, <2>2
<1>3. CASE ~ (k + n >= Range8)
  <2>1. k + 2 * n \in Nat /\ Range8 <= k + 2 * n /\ k + 2 * n < 2 * Range8
    BY <1>0, <1>3
  <2>2. Regularize(k, n) = (k + 2 * n) % Range8
    BY <1>3 DEF Regularize
  <2> QED BY <1>1, <2>1, <2>2
<1> QED BY <1>2, <1>3

\* Prefixes are at least one, and none is above the whole.
LEMMA PrefixBounds ==
  ASSUME NEW s, NEW w, NEW scalar, Prefixes(s, w, scalar)
  PROVE  \A i \in 0..w : s[i] \in Nat /\ 1 <= s[i] /\ s[i] <= s[w]
<1>0. /\ w \in Nat /\ s[0] = 1 /\ \A i \in 0..w : s[i] \in Nat
      /\ \A i \in 0..(w - 1) : s[i + 1] - 2 * s[i] \in {0, 1}
  BY DEF Prefixes
<1> DEFINE Good == {i \in 0..w : 1 <= s[i]}
<1>1. Good = 0..w
  <2>1. 0 \in Good
    BY <1>0
  <2>2. ASSUME NEW i \in 0..(w - 1), i \in Good PROVE i + 1 \in Good
    <3>1. i \in 0..w /\ i + 1 \in 0..w /\ s[i] \in Nat /\ s[i + 1] \in Nat /\ 1 <= s[i]
      BY <1>0, <2>2
    <3>2. s[i + 1] - 2 * s[i] \in {0, 1}
      BY <1>0
    <3> QED BY <3>1, <3>2
  <2>3. Good \in SUBSET (0..w)
    OBVIOUS
  <2> HIDE DEF Good
  <2> QED BY <1>0, <2>1, <2>2, <2>3, RunInduction
<1> DEFINE Below == {d \in 0..w : s[w - d] <= s[w]}
<1>2. Below = 0..w
  <2>1. 0 \in Below
    <3>1. w - 0 = w /\ w \in 0..w /\ 0 \in 0..w
      BY <1>0
    <3>2. s[w] \in Nat
      BY <1>0, <3>1
    <3> QED BY <3>1, <3>2
  <2>2. ASSUME NEW d \in 0..(w - 1), d \in Below PROVE d + 1 \in Below
    <3> DEFINE i == w - (d + 1)
    <3>1. i \in 0..(w - 1) /\ i + 1 = w - d /\ d + 1 \in 0..w /\ i \in 0..w /\ w - d \in 0..w /\ w \in 0..w
      BY <1>0
    <3>2. s[i + 1] - 2 * s[i] \in {0, 1} /\ s[i] \in Nat /\ s[w - d] \in Nat /\ s[w] \in Nat
      BY <1>0, <3>1
    <3>3. s[w - d] <= s[w]
      BY <2>2
    <3>4. s[i] <= s[w]
      BY <3>1, <3>2, <3>3
    <3> QED BY <3>1, <3>4
  <2>3. Below \in SUBSET (0..w)
    OBVIOUS
  <2> HIDE DEF Below
  <2> QED BY <1>0, <2>1, <2>2, <2>3, RunInduction
<1>3. ASSUME NEW i \in 0..w PROVE s[i] \in Nat /\ 1 <= s[i] /\ s[i] <= s[w]
  <2>1. i \in Good
    BY <1>1
  <2>2. w - i \in 0..w /\ w - (w - i) = i
    BY <1>0
  <2>3. w - i \in Below
    BY <1>2, <2>2
  <2> QED BY <1>0, <2>1, <2>2, <2>3
<1> QED BY <1>3

\* No prefix of a scalar other than 1, n - 2 and n - 1 leads the ladder through
\* infinity.
LEMMA RegularPrefixes ==
  ASSUME NEW n, OddOrder(n), n < Range8, Range8 <= 2 * n, NEW k \in 2..(n - 3),
         NEW s, NEW w, Prefixes(s, w, Regularize(k, n))
  PROVE  s[w] % n = k /\ \A i \in 0..(w - 1) : RegularPrefix(s[i], n)
<1>0. n \in Nat /\ n > 2 /\ n \in Nat \ {0}
  BY DEF OddOrder
<1>h. PICK h \in Nat : n = 2 * h + 1
  BY DEF OddOrder
<1>1. PICK g \in {1, 2} : s[w] = k + g * n
  <2>1. k \in 0..(n - 1)
    BY <1>0
  <2> QED BY <1>0, <2>1, Regularized DEF Prefixes
<1>2. /\ w \in Nat /\ \A i \in 0..(w - 1) : s[i + 1] - 2 * s[i] \in {0, 1}
  BY DEF Prefixes
<1>3. \A i \in 0..w : s[i] \in Nat /\ 1 <= s[i] /\ s[i] <= s[w]
  BY PrefixBounds
<1>4. s[w] % n = k
  <2>1. PICK t \in Int : t = k + g * n
    BY <1>0
  <2>2. k \in 0..(n - 1) /\ g \in Int
    BY <1>0
  <2>3. t % n = k
    BY <1>0, <2>1, <2>2, RemainderUnique
  <2> QED BY <1>1, <2>1, <2>3
<1>5. ASSUME NEW i \in 0..(w - 1) PROVE RegularPrefix(s[i], n)
  <2>1. PICK v \in Nat : v = s[i] /\ 1 <= v
    BY <1>2, <1>3
  <2>2. PICK b1 \in {0, 1} : s[i + 1] = 2 * v + b1
    <3>1. s[i + 1] - 2 * s[i] \in {0, 1} /\ i + 1 \in 0..w /\ s[i + 1] \in Nat
      BY <1>2, <1>3
    <3> QED BY <2>1, <3>1
  <2>3. s[w] \in Nat /\ s[w] <= 3 * n - 3 /\ s[w] >= n + 2 /\ s[w] \notin (2 * n - 2)..(2 * n + 1)
    BY <1>0, <1>1
  <2>4. RegularPrefix(v, n) <=> v % n # 0 /\ (v + 1) % n # 0 /\ (2 * v + 1) % n # 0
    BY DEF RegularPrefix
  <2>7. \A x \in Nat : (0 < x /\ x < n) \/ (n < x /\ x < 2 * n) \/ (2 * n < x /\ x < 3 * n) => x % n # 0
    <3> SUFFICES ASSUME NEW x \in Nat, (0 < x /\ x < n) \/ (n < x /\ x < 2 * n) \/ (2 * n < x /\ x < 3 * n)
                 PROVE  x % n # 0
      OBVIOUS
    <3>1. \E j \in {0, 1, 2} : j * n < x /\ x < (j + 1) * n
      BY <1>0
    <3>2. x \in Int
      OBVIOUS
    <3> QED BY <1>0, <3>1, <3>2, BetweenMultiples
\* The last bit.
  <2>5. CASE i = w - 1
    <3>1. s[w] = 2 * v + b1
      <4>1. i + 1 = w
        BY <1>2, <2>5
      <4> QED BY <2>2, <4>1
    <3>2. v < n \/ (n < v /\ v < 2 * n)
      BY <1>0, <2>1, <2>3, <3>1
    <3>3. v + 1 < n \/ (n < v + 1 /\ v + 1 < 2 * n)
      BY <1>0, <2>1, <2>3, <3>1
    <3>4. \/ n < 2 * v + 1 /\ 2 * v + 1 < 2 * n
          \/ 2 * n < 2 * v + 1 /\ 2 * v + 1 < 3 * n
      BY <1>0, <1>h, <2>1, <2>3, <3>1
    <3> QED BY <2>1, <2>4, <2>7, <3>2, <3>3, <3>4
\* The bit before it, and those before that.
  <2>6. CASE i # w - 1
    <3>1. i + 1 \in 0..(w - 1) /\ (i + 1) + 1 = i + 2 /\ i + 2 \in 0..w
      BY <1>2, <2>6
    <3>2. PICK b2 \in {0, 1} : s[i + 2] = 2 * (2 * v + b1) + b2
      <4>1. s[(i + 1) + 1] - 2 * s[i + 1] \in {0, 1} /\ s[i + 2] \in Nat
        BY <1>2, <1>3, <3>1
      <4> QED BY <2>2, <3>1, <4>1
    <3>3. v + 1 < n /\ 2 * v + 1 # n /\ 2 * v + 1 < 2 * n
      <4>1. CASE i + 2 = w
        <5>1. s[w] = 2 * (2 * v + b1) + b2
          BY <3>2, <4>1
        <5> QED BY <1>0, <1>h, <2>1, <2>3, <5>1
      <4>2. CASE i + 2 # w
        <5>1. i + 2 \in 0..(w - 1) /\ (i + 2) + 1 = i + 3 /\ i + 3 \in 0..w
          BY <3>1, <1>2, <4>2
        <5>2. s[(i + 2) + 1] - 2 * s[i + 2] \in {0, 1} /\ s[i + 3] \in Nat /\ s[i + 3] <= s[w]
          BY <1>2, <1>3, <5>1
        <5>3. s[i + 3] >= 8 * v
          BY <2>1, <3>2, <5>1, <5>2
        <5> QED BY <1>0, <2>1, <2>3, <5>2, <5>3
      <4> QED BY <4>1, <4>2
    <3> QED BY <1>0, <2>1, <2>4, <2>7, <3>3
  <2> QED BY <2>5, <2>6
<1> QED BY <1>4, <1>5

\* Numbers of the field have no divisor in common with the prime.
LEMMA FieldCoprime ==
  ASSUME NEW v \in 1..(CurveP - 1)
  PROVE  Coprime(v, CurveP)
<1>1. PICK p \in Int : p = CurveP /\ p > 2
  BY PrimePositive
<1>2. ASSUME NEW d \in Nat \ {0}, NEW x \in Nat, NEW y \in Nat, v = d * x, p = d * y, d # 1
      PROVE FALSE
  <2>1. v \in Nat /\ 1 <= v /\ v < p
    BY <1>1
  <2>2. x # 0 /\ y # 0
    BY <1>1, <1>2, <2>1
  <2>3. d <= d * x /\ y < d * y
    <3>1. x >= 1 /\ y >= 1 /\ d >= 2
      BY <1>2, <2>2
    <3>2. d * (x - 1) >= 0 /\ (d - 1) * y >= y
      BY <3>1
    <3>3. d * (x - 1) = d * x - d /\ (d - 1) * y = d * y - y
      OBVIOUS
    <3>4. 2 * y <= d * y
      BY <3>1
    <3> QED BY <3>1, <3>2, <3>3, <3>4
  <2>4. d \in 1..(p - 1) /\ y \in 1..(p - 1)
    BY <1>1, <1>2, <2>1, <2>2, <2>3
  <2>5. (d * y) % CurveP # 0
    BY <1>1, <2>4, PrimeAssumption
  <2>6. p % p = 0
    <3>1. p = 0 + 1 * p /\ 1 \in Int /\ p \in Nat \ {0} /\ 0 \in 0..(p - 1)
      BY <1>1
    <3> QED BY <3>1, RemainderUnique
  <2> QED BY <1>1, <1>2, <2>5, <2>6
<1>3. \A d \in Nat \ {0}, x, y \in Nat : v = d * x /\ p = d * y => d = 1
  BY <1>2
<1> QED BY <1>1, <1>3 DEF Coprime

\* The inverse that the last step of the ladder takes: a run of the rounds of
\* uECC_vli_modInv that has ended leaves it in u, for every number of the
\* field but 0.
THEOREM FieldInversionRight ==
  ASSUME NEW v \in 1..(CurveP - 1), NEW m \in Nat, NEW run \in [0..m -> States],
         run[0] = InversionStart(v, CurveP),
         \A i \in 0..(m - 1) : run[i].a # run[i].b /\ run[i + 1] = InversionRound(run[i], CurveP),
         run[m].a = run[m].b
  PROVE  run[m].u \in Nat /\ (run[m].u * v) % CurveP = 1
<1>1. CurveP \in 2..(Range8 - 1) /\ \E h \in Nat : CurveP = 2 * h + 1
  BY PrimePositive
<1>2. Coprime(v, CurveP)
  BY FieldCoprime
<1>3. (run[m].u * v) % CurveP = 1
  <2>1. PICK h \in Nat : CurveP = 2 * h + 1
    BY <1>1
  <2> QED BY <1>1, <1>2, <2>1, InversionRight, Zenon
<1>4. run[m].u \in Nat
  BY DEF States
<1> QED BY <1>3, <1>4

\* Whether the bit after the prefix is clear.
Nb(s, i) == 1 - (s[i + 1] - 2 * s[i])

\* The multiplication of a point (EccPoint_mult): for every word size, every
\* point of odd order n with x other than 0, every Z it begins with and every
\* scalar but 1, n - 2 and n - 1, the rounds of the ladder over the bits of the
\* regularized scalar, the last AddC and the last step with the inverse of its
\* ZInput leave k times the point, in its own coordinates.
THEOREM ScalarMultiplicationRight ==
  ASSUME NEW n, OddOrder(n), n < Range8, Range8 <= 2 * n,
         NEW M, MultiplesOfAPoint(M, n), M[1][1] # 0,
         NEW k \in 2..(n - 3), NEW initial_Z \in Field,
         NEW s, NEW w, Prefixes(s, w, Regularize(k, n)),
         NEW L, L[0] = WithDifference(InitialDouble(M[1], initial_Z)),
         \A i \in 0..(w - 2) : L[i + 1] = LadderRound(L[i], Nb(s, i)),
         NEW R, R = LadderAddC(L[w - 1].R, L[w - 1].sub, Nb(s, w - 1)),
         NEW inverse \in Field,
         ZInput(R, M[1], Nb(s, w - 1)) # 0
           => (inverse * ZInput(R, M[1], Nb(s, w - 1))) % CurveP = 1
  PROVE  LastStep(R, M[1], Nb(s, w - 1), inverse) = M[k]
<1>0. n \in Nat /\ n > 2 /\ n \in Nat \ {0}
  BY DEF OddOrder
<1>1. /\ w \in Nat /\ s[0] = 1 /\ s[w] = Range8 + Regularize(k, n)
      /\ \A i \in 0..(w - 1) : s[i + 1] - 2 * s[i] \in {0, 1}
  BY DEF Prefixes
<1>2. s[w] % n = k /\ \A i \in 0..(w - 1) : RegularPrefix(s[i], n)
  BY RegularPrefixes
<1>3. \A i \in 0..w : s[i] \in Nat
  BY PrefixBounds
<1>4. w # 0
  <2>1. 1 % n = 1
    <3>1. PICK i \in Int : i = 1
      OBVIOUS
    <3>2. i = 1 + 0 * n /\ 1 \in 0..(n - 1) /\ 0 \in Int
      BY <1>0, <3>1
    <3> QED BY <1>0, <3>1, <3>2, RemainderUnique
  <2> QED BY <1>1, <1>2, <2>1
<1>5. \A i \in 0..(w - 1) : Nb(s, i) \in {0, 1} /\ s[i + 1] = 2 * s[i] + 1 - Nb(s, i)
  <2> SUFFICES ASSUME NEW i \in 0..(w - 1) PROVE Nb(s, i) \in {0, 1} /\ s[i + 1] = 2 * s[i] + 1 - Nb(s, i)
    OBVIOUS
  <2>1. i \in 0..w /\ i + 1 \in 0..w
    BY <1>1
  <2>2. s[i] \in Nat /\ s[i + 1] \in Nat /\ s[i + 1] - 2 * s[i] \in {0, 1}
    BY <1>1, <1>3, <2>1
  <2> QED BY <2>2 DEF Nb
\* After each round the two points stand for the prefix and its successor.
<1> DEFINE last == w - 1
<1> DEFINE Good == {i \in 0..last : LadderAt(L[i], M, n, s[i])}
<1>6. last \in Nat /\ 0..(last - 1) = 0..(w - 2) /\ 0 \in 0..last /\ last \in 0..(w - 1)
  BY <1>1, <1>4
<1>7. Good = 0..last
  <2>1. 0 \in Good
    <3>1. LadderAt(L[0], M, n, 1)
      BY InitialDoubleRight
    <3> QED BY <1>1, <1>6, <3>1
  <2>2. ASSUME NEW i \in 0..(last - 1), i \in Good PROVE i + 1 \in Good
    <3>1. i \in 0..(w - 2) /\ i \in 0..(w - 1) /\ i \in 0..w /\ i + 1 \in 0..last
      BY <1>1, <1>6
    <3>2. LadderAt(L[i], M, n, s[i]) /\ RegularPrefix(s[i], n) /\ s[i] \in Nat
      BY <1>2, <1>3, <2>2, <3>1
    <3>3. Nb(s, i) \in {0, 1} /\ s[i + 1] = 2 * s[i] + 1 - Nb(s, i)
      BY <1>5, <3>1
    <3>4. LadderAt(LadderRound(L[i], Nb(s, i)), M, n, 2 * s[i] + 1 - Nb(s, i))
      BY <3>2, <3>3, LadderRoundRight, Zenon
    <3>5. LadderAt(L[i + 1], M, n, s[i + 1])
      BY <3>1, <3>3, <3>4
    <3> QED BY <3>1, <3>5
  <2>3. Good \in SUBSET (0..last)
    OBVIOUS
  <2> HIDE DEF Good, last
  <2> QED BY <1>6, <2>1, <2>2, <2>3, RunInduction
\* The last round is AddC and the last step.
<1> DEFINE nb == Nb(s, last)
<1> DEFINE v == s[last]
<1>8. last \in Good
  BY <1>6, <1>7
<1>9. /\ LadderAt(L[last], M, n, v) /\ v \in Nat /\ RegularPrefix(v, n)
      /\ nb \in {0, 1} /\ s[w] = 2 * v + 1 - nb
  <2>1. last \in 0..w /\ last + 1 = w
    BY <1>1, <1>6
  <2> QED BY <1>2, <1>3, <1>5, <1>6, <1>8, <2>1
<1>10. R = LadderAddC(L[last].R, L[last].sub, nb)
  OBVIOUS
<1>11. ZInput(R, M[1], nb) # 0 => (inverse * ZInput(R, M[1], nb)) % CurveP = 1
  OBVIOUS
<1>12. LastStep(R, M[1], Nb(s, w - 1), inverse) = LastStep(R, M[1], nb, inverse)
  OBVIOUS
<1> HIDE DEF last, Good, nb, v
<1>13. PICK z \in Int :
         /\ ~ (z \cong 0)
         /\ Represents(R[1 - nb], z, M[One(nb, n)][1], M[One(nb, n)][2])
         /\ Represents(R[nb], z, M[(2 * v + 1) % n][1], M[(2 * v + 1) % n][2])
  BY <1>9, <1>10, LadderAddCRight, Zenon
<1>14. PICK c \in 2..(n - 2) : (2 * v) % n = c - 1 /\ (2 * v + 1) % n = c
  BY <1>9, MultiplesOfS
<1>15. LastStep(R, M[1], nb, inverse) = M[c - nb]
  <2>1. Represents(R[nb], z, M[c][1], M[c][2])
    BY <1>13, <1>14
  <2> QED BY <1>0, <1>9, <1>11, <1>13, <2>1, LastStepRight
<1>16. c - nb = k
  <2>1. CASE nb = 0
    <3>1. s[w] = 2 * v + 1
      BY <1>9, <2>1
    <3> QED BY <1>2, <1>14, <2>1, <3>1
  <2>2. CASE nb = 1
    <3>1. s[w] = 2 * v
      BY <1>9, <2>2
    <3> QED BY <1>2, <1>14, <2>2, <3>1
  <2> QED BY <1>9, <2>1, <2>2
<1> QED BY <1>12, <1>15, <1>16

=============================================================================
