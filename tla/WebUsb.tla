------------------------------- MODULE WebUsb -------------------------------
(***************************************************************************)
(* The WebUSB device (non_secure_world/src/usb/webusb_device.c), its       *)
(* WebCrypto commands (webusb_crypto.c) and the calls of the secure world  *)
(* behind them (secure_gateway.c, secure_gateway_s.c).  A transfer ends    *)
(* after a short packet or a full rx_buffer, and each transfer is handled  *)
(* as one command: the rest of a longer message is taken for commands.     *)
(* Answers go through TinyUSB's transmit FIFO, which keeps what it has     *)
(* room for.                                                               *)
(***************************************************************************)
EXTENDS Naturals, Sequences, FiniteSets

CONSTANTS
    HSM_MAX_SLOTS,  \* 8
    StorageSize,    \* places in key_storage (16)
    Images,         \* contents of the OATH store
    RestorePieces,  \* transfers that a restore takes: 5 with 16 credentials
    MaxKeys,        \* bound: key pairs generated
    None

ASSUME WebUsbAssumption ==
    /\ {HSM_MAX_SLOTS, StorageSize, RestorePieces, MaxKeys} \subseteq Nat
    /\ HSM_MAX_SLOTS <= StorageSize /\ RestorePieces > 0
    /\ None \notin Images

VARIABLES
    webusb_state,   \* is_connected, is_configured, and whether OUT is armed
    incoming,       \* the transfers of the host's message still to come
    hsmStarted,     \* hsm_init was called at boot: the firmware does not
    hsm_slots,      \* key pairs by number, 0 for an empty slot
    generated,      \* key pairs generated so far
    key_storage, key_count,
    ram_cache,      \* the OATH store
    answer,         \* the last answer
    handed          \* history: the key the host was given with each id

usb == <<webusb_state, incoming>>
crypto == <<key_storage, key_count, handed>>
hsm == <<hsmStarted, hsm_slots, generated>>
vars == <<usb, crypto, hsm, ram_cache, answer>>

Slots == 0..(HSM_MAX_SLOTS - 1)
StorageSlots == 0..(StorageSize - 1)
KeyPairs == 0..MaxKeys
NoKeys == [i \in StorageSlots |-> 0]
Bytes == 0..StorageSize         \* a slot byte, one value beyond the places

\* A transfer: what its first bytes say.  "short" stands for what the handlers
\* leave unanswered, "info" for what they answer from constants.
Plain == [cmd : {"info", "reset", "invalid", "short", "backup"}]
Config == [cmd : {"set_config"}, connect : BOOLEAN]
OnSlot == [cmd : {"gen_key", "get_pubkey", "sign"}, slot : Bytes]
Restore == [cmd : {"restore"}, image : Images \cup {None}]  \* None: not a whole image
Transfers == Plain \cup Config \cup OnSlot \cup Restore

\* A message is one transfer, or a restore whose other transfers are bytes of
\* the image and may say anything but a whole image.
Whole == {t \in Transfers : t.cmd = "restore" => t.image # None}
Part == {t \in Transfers : t.cmd = "restore" => t.image = None}
Messages ==
    IF RestorePieces = 1 THEN {<<t>> : t \in Whole}
    ELSE {<<t>> : t \in Whole \cap Part}
         \cup {<<[cmd |-> "restore", image |-> None]>> \o rest :
                  rest \in [1..(RestorePieces - 1) -> Part]}

Answers == [status : {"ok", "error", "invalid", "backup cut"}]
           \cup [status : {"slot status"}, hsm : {"ok", "error", "invalid slot"}]
           \cup [status : {"key"}, id : StorageSlots, key : KeyPairs]
           \cup [status : {"pubkey", "signed"}, key : KeyPairs]
Error == [status |-> "error"]
Ok == [status |-> "ok"]

----------------------------------------------------------------------------
Init == /\ webusb_state = [connected |-> FALSE, configured |-> FALSE, armed |-> FALSE]
        /\ incoming = <<>>
        /\ hsmStarted \in BOOLEAN
        /\ hsm_slots = [i \in Slots |-> 0] /\ generated = 0
        /\ key_storage = NoKeys /\ key_count = 0 /\ handed = NoKeys
        /\ ram_cache \in Images
        /\ answer = None

\* Power off and on.  The store comes back from flash, ids start over.  The
\* slots are empty: the applets start before hsm_init would, and OpenPGP's
\* writes the sector that the HSM keeps its slots in (AppletStores).
Restart == /\ webusb_state' = [connected |-> FALSE, configured |-> FALSE, armed |-> FALSE]
           /\ incoming' = <<>>
           /\ key_storage' = NoKeys /\ key_count' = 0 /\ handed' = NoKeys
           /\ hsm_slots' = [i \in Slots |-> 0]
           /\ answer' = None
           /\ UNCHANGED <<hsmStarted, generated, ram_cache>>

BusReset == /\ webusb_state' = [connected |-> FALSE, configured |-> FALSE, armed |-> FALSE]
            /\ incoming' = <<>>
            /\ UNCHANGED <<crypto, hsm, ram_cache, answer>>

Open == /\ ~webusb_state.configured
        /\ webusb_state' = [webusb_state EXCEPT !.configured = TRUE, !.armed = TRUE]
        /\ UNCHANGED <<incoming, crypto, hsm, ram_cache, answer>>

\* WEBUSB_REQ_SET_CONFIG; the other control requests only read.
ControlRequest == /\ webusb_state' = [webusb_state EXCEPT !.connected = TRUE]
                  /\ UNCHANGED <<incoming, crypto, hsm, ram_cache, answer>>

HostSend == /\ incoming = <<>> /\ webusb_state.configured
            /\ incoming' \in Messages
            /\ UNCHANGED <<webusb_state, crypto, hsm, ram_cache, answer>>

----------------------------------------------------------------------------
(* The gateway's key calls, with hsm_generate_key, hsm_get_pubkey, hsm_sign. *)

\* uECC_make_key fails without a random number generator, and may fail with
\* one, when its draws run out: then the slot keeps what it had.
Generates(slot) == slot \in Slots /\ hsmStarted /\ generated < MaxKeys

Generate(slot) == /\ Generates(slot)
                  /\ generated' = generated + 1
                  /\ hsm_slots' = [hsm_slots EXCEPT ![slot] = generated + 1]
                  /\ UNCHANGED hsmStarted

Key(slot) == IF slot \in Slots THEN hsm_slots[slot] ELSE 0

HsmGenKey(slot) ==
    \/ /\ Generate(slot)
       /\ answer' = [status |-> "slot status", hsm |-> "ok"]
    \/ /\ answer' = [status |-> "slot status",
                     hsm |-> IF slot \in Slots THEN "error" ELSE "invalid slot"]
       /\ UNCHANGED hsm

HsmRead(slot, kind) ==
    answer' = IF Key(slot) = 0 THEN Error ELSE [status |-> kind, key |-> Key(slot)]

----------------------------------------------------------------------------
(* webusb_handle_command *)

Keep == UNCHANGED <<crypto, hsm, ram_cache>>
Say(status) == answer' = [status |-> status]

HandleCommand(t) ==
    \/ /\ t.cmd = "info" /\ Say("ok") /\ Keep
       /\ UNCHANGED webusb_state
    \/ /\ t.cmd = "set_config" /\ Say("ok") /\ Keep
       /\ webusb_state' = [webusb_state EXCEPT !.connected = t.connect]
    \/ /\ t.cmd = "reset" /\ Say("ok") /\ Keep
       /\ webusb_state' = [webusb_state EXCEPT !.connected = FALSE]
    \/ /\ t.cmd = "gen_key" /\ HsmGenKey(t.slot)
       /\ UNCHANGED <<webusb_state, crypto, ram_cache>>
    \/ /\ t.cmd = "get_pubkey" /\ HsmRead(t.slot, "pubkey") /\ Keep
       /\ UNCHANGED webusb_state
    \/ /\ t.cmd = "sign" /\ HsmRead(t.slot, "signed") /\ Keep
       /\ UNCHANGED webusb_state
    \/ /\ t.cmd = "backup"                    \* more bytes than the FIFO has room for
       /\ Say("backup cut") /\ Keep
       /\ UNCHANGED webusb_state
    \/ /\ t.cmd = "restore"
       /\ IF t.image = None
          THEN Say("error") /\ UNCHANGED ram_cache
          ELSE Say("ok") /\ ram_cache' = t.image
       /\ UNCHANGED <<webusb_state, crypto, hsm>>
    \/ /\ t.cmd = "invalid" /\ Say("invalid") /\ Keep
       /\ UNCHANGED webusb_state
    \/ /\ t.cmd = "short" /\ Keep
       /\ UNCHANGED <<webusb_state, answer>>

\* webusb_user_xfer_cb: the transfer is handled, then OUT armed again.
Transfer == /\ webusb_state.armed /\ incoming # <<>>
            /\ HandleCommand(Head(incoming))
            /\ incoming' = Tail(incoming)

\* A failed transfer leaves OUT as it is: deaf until the bus is reset.
TransferFails == /\ webusb_state.armed /\ incoming # <<>>
                 /\ webusb_state' = [webusb_state EXCEPT !.armed = FALSE]
                 /\ incoming' = <<>>
                 /\ UNCHANGED <<crypto, hsm, ram_cache, answer>>

----------------------------------------------------------------------------
(* webusb_crypto_handle_command, which nothing dispatches to. *)

\* Mutation: counted up before the key is stored.
KeyIdCountedFirst == key_count + 1
KeyId == key_count

\* Mutation: a key that could not be generated is counted too.
CryptoGenerateCounting ==
    /\ Generate(key_count) \/ UNCHANGED hsm
    /\ key_count' = key_count + 1
    /\ answer' = Error
    /\ UNCHANGED <<key_storage, handed, usb, ram_cache>>
\* The HSM slot is the id.  Its status is not looked at: a slot that could not
\* be generated again is read as it is.
CryptoGenerate ==
    /\ Generate(key_count) \/ UNCHANGED hsm
    /\ IF key_count \in Slots /\ hsm_slots'[key_count] # 0
       THEN LET key == hsm_slots'[key_count]
            IN  /\ key_count' = key_count + 1
                /\ key_storage' = [key_storage EXCEPT ![KeyId] = key]
                /\ handed' = [handed EXCEPT ![KeyId] = key]
                /\ answer' = [status |-> "key", id |-> KeyId, key |-> key]
       ELSE answer' = Error /\ UNCHANGED crypto
    /\ UNCHANGED <<usb, ram_cache>>

CryptoSign(id) ==
    /\ IF id \in StorageSlots THEN HsmRead(id, "signed") ELSE answer' = Error
    /\ UNCHANGED <<usb, crypto, hsm, ram_cache>>

\* Encryption uses the public key in key_storage.
CryptoEncrypt(id) ==
    /\ answer' = IF id \in StorageSlots /\ key_storage[id] # 0 THEN Ok ELSE Error
    /\ UNCHANGED <<usb, crypto, hsm, ram_cache>>

CryptoDelete(id) ==
    /\ id \in StorageSlots
    /\ key_storage' = [key_storage EXCEPT ![id] = 0]
    /\ UNCHANGED <<usb, key_count, handed, hsm, ram_cache, answer>>

CryptoInit ==
    /\ key_storage' = NoKeys /\ key_count' = 0 /\ handed' = NoKeys
    /\ UNCHANGED <<usb, hsm, ram_cache, answer>>

Crypto == \/ CryptoGenerate \/ CryptoInit
          \/ \E id \in Bytes : CryptoSign(id) \/ CryptoEncrypt(id) \/ CryptoDelete(id)

Next == \/ Restart \/ BusReset \/ Open
        \/ ControlRequest \/ HostSend
        \/ Transfer \/ TransferFails
        \/ Crypto
Spec == Init /\ [][Next]_vars

----------------------------------------------------------------------------
WebUsbTypeOK ==
    /\ webusb_state \in [connected : BOOLEAN, configured : BOOLEAN, armed : BOOLEAN]
    /\ incoming \in Seq(Transfers) /\ Len(incoming) <= RestorePieces
    /\ hsmStarted \in BOOLEAN
    /\ hsm_slots \in [Slots -> KeyPairs] /\ generated \in KeyPairs
    /\ key_storage \in [StorageSlots -> KeyPairs] /\ key_count \in 0..StorageSize
    /\ handed \in [StorageSlots -> KeyPairs]
    /\ ram_cache \in Images
    /\ answer \in Answers \cup {None}

\* Until the table is cleared, WebCrypto gives no key id out twice: the count
\* is past every id it has handed out.  An id is a slot of the HSM, however
\* often generating fails or is repeated, so the count stops where the HSM
\* ends, before key_storage does.  Signing uses the key pair in that slot: the
\* one that was handed out, or a later one when gen_key has replaced it behind
\* WebCrypto's back, but never one from before.  Encryption uses the key that
\* was handed out or, once that is deleted, none.
KeyIdsTrue ==
    /\ key_count <= HSM_MAX_SLOTS
    /\ \A id \in StorageSlots :
          /\ handed[id] # 0 => id < key_count /\ hsm_slots[id] >= handed[id]
          /\ key_storage[id] \in {0, handed[id]}

\* Key pairs are numbered in the order they are generated in, so that a slot
\* that is generated again holds a later one than it was handed out with.
Numbered == \A slot \in Slots : hsm_slots[slot] <= generated

\* The inductive invariant.
WebUsbInv == WebUsbTypeOK /\ Numbered /\ KeyIdsTrue
=============================================================================
