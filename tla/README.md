# Verification of RP2350-OATH

TLA+ specifications of the RP2350-OATH firmware, the TLC configurations that
model-check them, and TLAPS proofs of the properties that matter most. Paths
without a prefix are relative to the repository; `sw/` stands for
`secure_world/src/` and `nsw/` for `non_secure_world/src/`.

    tlc -config OathStorage.cfg MCOathStorage.tla      one of the checks
    tlapm OathProofs.tla                               one of the proof modules

`PROJECT.json` lists the components, the runs, the source lines behind every
definition, the hazards and the findings.

## 1. The system

The firmware is a single-threaded program on an RP2350. The "secure world"
(`main_secure.c`, `sw/`) owns the keys and the credentials, the "non-secure
world" (`nsw/`) owns USB; both are linked into one image, and the non-secure
side enters the secure one through `secure_world_handler`, which runs each call
to its end. There are no threads and no callbacks between the two worlds. What
moves by itself is outside: the power, the USB controller, the host, the
person at the button. The hard behaviour is where these meet the code.

| component | state it keeps | operations | who calls it |
|---|---|---|---|
| OATH credential store, `sw/oath/oath_storage.c` | `ram_cache`: 16 slots, each with an encrypted credential, and the hash of the access code; one flash sector | init, put, delete, get, list, update_counter, reset, set and verify password, export, import | OATH applet, keyboard mode, gateway (backup) |
| Master key, `sw/security/security.c` | 32 bytes at the start of the last flash sector ("simulated OTP") | provision once, read | the store, the other storages |
| OATH applet, `sw/oath/oath_protocol.c`, and `sw/applet_manager.c` | `selected_applet` | SELECT, LIST, CALCULATE, CALCULATE ALL | gateway `SG_OATH_HANDLE_APDU` |
| FIDO2 applet, `sw/oath/fido2_applet.c`, `fido2_storage.c` | credentials in RAM and a flash sector | MakeCredential, GetAssertion, GetInfo | applet manager |
| OpenPGP applet, `openpgp_applet.c`, `openpgp_storage.c` | data object in RAM and a flash sector | GET DATA | applet manager |
| HSM slots, `sw/security/hsm.c` | key pairs in RAM and a flash sector | init, generate, delete, sign, public key | gateway, FIDO2 applet |
| Secure gateway, `sw/secure_gateway_s.c`, `nsw/secure_gateway.c` | none | dispatch of the calls, checks of the lengths | CCID, FIDO2 and WebUSB devices |
| CCID reader, `nsw/usb/ccid_device.c` | `rx_buffer`, two endpoints | one callback per completed transfer | TinyUSB |
| CTAPHID, `nsw/usb/fido2_device.c` | connected flag, current channel, nonce, the next channel number | one callback per report: INIT, PING, MSG, CANCEL, WINK | TinyUSB |
| CTAP 2.1 and biometric enrollment, `nsw/usb/fido2_ctap21.c`, `fido2_bioenrollment.c` | PIN state, tokens, template table, the enrollment under way | one function per command | nobody yet |
| WebUSB, `nsw/usb/webusb_device.c` | the collected request | key calls, backup, restore | TinyUSB |
| Button modes and keyboard, `main_secure.c`, `sw/hid_keyboard.c`, `sw/time_sync.c` | mode, time of the press, index of the next credential | press, release, type | main loop |

How they meet: every storage seals what it saves under the master key; every
save is an erase and then a program of a flash sector; the OATH sector lies in
front of the OTP sector; OpenPGP and the HSM use one and the same sector; USB
transfers complete while a callback is running; WebUSB and the keyboard read
the same store the OATH applet writes.

What is hard, and what would make the parts correct:

- **Store and master key.** Power can fail at every step of a provisioning, a
  load or a save. A store that is ready has on flash what it has in RAM; every
  slot it uses can be opened; one name has one slot; the key is written once.
- **OATH applet.** An HOTP code CALCULATE gives leaves the device only after
  the counter is saved past it; a command that moved its counter is answered.
- **The other storages.** A save that was torn is repaired by the next start;
  two writers of one sector do not take each other's data for their own; a
  MakeCredential is answered.
- **CCID.** An answer belongs to the command it is taken for, however late it
  comes; no command runs twice; a reader that owes nothing answers, until a
  transfer fails.
- **CTAPHID.** Nothing is answered before the handshake; answers keep the
  order of the commands, whatever the endpoint swallows; among fewer frames
  than there are channels none is told twice; an idle device answers.
- **CTAP 2.1 and enrollment.** The arrays and their counts behave as tables
  that refuse when full and lose nothing else; a template has had the samples
  that were asked for; an enrollment ends; an attestation follows the
  configuration.
- **Button modes.** A press does one thing, however the loop sleeps through it;
  short presses leave the mode alone and long ones are not missed; the LED
  comes back to the mode's colour.
- **WebUSB.** An id is given out once. Encryption uses the key it was handed
  out with or none; signing uses the pair in its slot, which a generation behind
  WebCrypto's back (the rest of a long restore, run as commands) may have
  replaced by a later one, so that the two can part.
- **Elliptic curves.** The constant-time ladder, the fast reduction and
  Shamir's trick give what the group law and ECDSA define, or report failure.

`PROJECT.json` lists 38 hazards, each at the line where it bites: 31 with the
properties that would catch it, 7 with the reason none does.

## 2. Modules

| module | what it is | code |
|---|---|---|
| `OathStorage.tla` | store, master key and their two flash sectors | `oath_storage.c`, `security.c`, boot in `main_secure.c` |
| `OathVault.tla` | what the store promises: a dictionary with a two-step save, and room taken by what cannot be read | abstract |
| `OathStorageVault.tla` | the refinement mapping from the store to `OathVault` | abstract |
| `OathApplet.tla` | applet manager and OATH applet over the store (extends it) | `applet_manager.c`, `oath_protocol.c`, backup calls of `secure_gateway_s.c` |
| `AppletStores.tla` | OpenPGP, FIDO2 and HSM storages side by side | `openpgp_storage.c`, `fido2_storage.c`, `fido2_applet.c`, `hsm.c` |
| `CcidTransport.tla` | CCID endpoints, callback, host | `ccid_device.c`, `ccid_protocol.h` |
| `CtapHid.tla` | CTAPHID reports, handshake, endpoints, host | `fido2_device.c` |
| `Ctap21.tla` | resident keys, options, configuration, PIN policy | `fido2_ctap21.c` |
| `BioEnrollment.tla` | the enrollment under way and the table of templates | `fido2_bioenrollment.c` |
| `BoundedTable.tla` | what an array with a count promises; `Ctap21` and `BioEnrollment` implement it | abstract |
| `DeviceModes.tla` | polling loop, button, modes, LED, keyboard index | `main_secure.c`, `hid_keyboard.c`, `time_sync.c` |
| `WebUsb.tla` | WebUSB transfers and commands, WebCrypto's keys, HSM calls, backup and restore | `webusb_device.c`, `webusb_crypto.c`, the gateway's key and backup calls |
| `EccField.tla` | words and the field: sums, differences and products word by word, arithmetic modulo a number, rounds of the inversion, the fast reduction | `uECC.c`, `curve-specific.inc` |
| `EccPoints.tla` | points (extends it): doubling, additions with a common Z, rounds of the ladder; the affine group law | `uECC.c`, `curve-specific.inc` |
| `Ecc.tla` | keys (extends it): the loops, square root, ECDH, ECDSA, draws of random numbers | `uECC.c`, `curve-specific.inc` |
| `WebUsbKeys.tla` | composition: the key pairs `WebUsb` generates are keys of `Ecc` | `hsm.c` |
| `OathProofs.tla` | theorems about `OathStorage`, `OathApplet` and the refinement of `OathVault` | |
| `AppletStoresProofs.tla`, `CcidTransportProofs.tla`, `CtapHidProofs.tla`, `Ctap21Proofs.tla`, `BioEnrollmentProofs.tla`, `DeviceModesProofs.tla` | theorems about the module each is named for | |
| `WebUsbProofs.tla` | theorems about `WebUsb`, `EccField` and `EccPoints` | |
| `MCOathStorage.tla`, `MCOathApplet.tla`, `MCAppletStores.tla`, `MCCcidTransport.tla`, `MCCtapHid.tla`, `MCCtap21.tla`, `MCBioEnrollment.tla`, `MCDeviceModes.tla`, `MCWebUsb.tla` | instances for TLC | |

An action is one call, or one step of a call that power or USB can come
between. A call that returns an error changes nothing and is not a step. Where
a definition is marked "Mutation" in its comment it is a plausible bug, kept
next to the definition it replaces, and shows that the properties notice it;
nothing else refers to it.

### OathStorage

`ram` is `ram_cache`; a slot is `None` or a credential with the key it is
sealed under. `flash` is the OATH sector: the package, or `None` when nothing
there would authenticate. `otp` is the set of key bits that are still 1: NOR
flash erases to ones and programs only zeros, so programming over something is
an intersection. This makes two things visible that a value could not show: a
power loss that tears the programming of the key, and a package that does not
fit its sector and is programmed on into the next. `pc` tells where the
firmware is: `boot` (in `load_from_flash`, reached at power on and again
through `SG_INIT`), `idle`, `erase` and `program` (in `save_to_flash`).

`LoadStored` and `LoadFactory` are the two outcomes of `load_from_flash`, each
operation is its change of the cache followed by the entry of the save, and
`PowerLoss` may tear whatever write is under way. `Trunc` is what `strncpy`
keeps of a name; the code compares the uncut name, and so does the model.
Layout sizes are computed from the C structures: with 16 slots the package has
4672 bytes, the sector 4096.

`OathVault` is what callers may rely on. Besides names it knows `unread`, the
number of slots that hold a credential no key here opens, from a backup of
another device (`Foreign`) or from before the key was damaged: `put` finds no
name in them and takes none of them for free. `MayDamage` tells whether a save
may run on into the OTP sector; where it may, a save can end with nothing to
recover, and can make everything, the backup taken before included,
unreadable at once (`Damaged`), but never a part of it.

`oath_storage_put`, `_delete`, `_reset` and `_set_password` have no callers in
the firmware today (the applet answers 6D00 to the instructions behind them).
They are the interface of the store and are modelled as callable.

### OathApplet

The APDU dispatch is atomic except for CALCULATE of an HOTP credential, which
saves the counter in between: `CalculateHotp` enters the save and
`CalculateAnswer` answers when it is over. `spent` is a history variable: the
codes CALCULATE has answered with. The applet's CALCULATE looks up one fixed
name, whatever the command says (`oath_protocol.c`, `TestName` here).
`CodesSpent` says that spent codes stay behind the counters in RAM and on
flash, `SpentNotGiven` that none leaves the device again in an answer, those of
CALCULATE ALL included.

### AppletStores

Each sector holds `None` or a package with its writer; one that power tore
apart while it was programmed has no content (`Torn`). `openpgp_storage.c` and
`fido2_storage.c` pass the ciphertext and the tag to `aes_gcm_encrypt` in the
wrong order, so nothing they write authenticates; `Swapped` says so. `HsmStarted`
tells whether the boot calls `hsm_init`: it does not, and it is the only place
that gives the elliptic curve library its random numbers, so on the firmware
as it is every key generation fails. The runs that need keys set it to TRUE.
GetAssertion, GetInfo, signing and the OpenPGP applet only read and have no
action.

### CcidTransport

`rx` is `rx_buffer`, `armed` whether the OUT endpoint may fill it, `busy` and
`tx` the IN endpoint, `events` the completions TinyUSB has queued for
`tud_task`. The callback is three steps (`Handle`, `Answer`, `Rearm`), because
the host goes on while an APDU runs. `usbd_edpt_xfer` refuses on a busy
endpoint and the code does not look at its result: that answer is lost, and
`Answer` loses it. The host and the USB stack are not part of the repository;
they are modelled from how the code uses them: the host has one command
open, numbers its commands, reads until an answer carries the number of the
open one and may give up when nothing comes. `ReceiveFails` is a transfer that
ends in an error; the callback then returns before it arms the endpoint, and
the reader hears nothing more (`failed`). A failed IN transfer only frees the
endpoint and is not told from one the host took.

### CtapHid

A report is one command: the code knows neither continuation packets nor a
channel in the frame. `out` and `in` are the endpoints. TinyUSB refuses a
report while `in` is full and makes it empty again in `tud_task`, the caller of
the handler, so of the reports one handler sends in a row only the first goes
out (`SendReports`): the keepalive of a MSG, never its answer (run
`ctap_hid_keepalive`). A report that is longer than 64 bytes is not sent at
all. `greeted`, `ran` and `read` are histories; a report carries no number of
the command it is for, so a host that loses one answer cannot tell by counting.
`next_channel_id` is compared with its greatest value after it was stored in 32
bits, so the comparison never holds, and the broadcast channel and zero are
handed out too; `NextChannel` computes just that. The fault of a frame (a wrong
nonce, an empty MSG, a PING of more bytes than a report echoes) is one Boolean,
`bad`.

### Ctap21, BioEnrollment and BoundedTable

`Ctap21` has the array of resident keys with its count, the options, the
configuration and the PIN policy; `BioEnrollment` the enrollment that is active
and the array of templates. Each array implements `BoundedTable`
(`Kept == INSTANCE BoundedTable WITH table <- ...`): stored entries are
appended, a full table refuses, a removal takes out the first entry with the
id and moves the others down. The C arrays do it with `memmove`-like loops and
a trailing `memset`, kept here as functions over positions. Samples are bytes
and wrap (`ByteMod`); `offered` counts for each template the good samples since
its enrollment began. `samples_required` is 3 (`Required`) by its initialiser and
0 once `fido2_bioenrollment_init` has run; both are states of the model. Nothing
in the firmware dispatches to these two files
yet: the actions are their functions, called in any order.

### DeviceModes

`Poll` is one iteration of `main_secure.c`'s loop in its four cases (a press
is seen, held, released, or nothing). A handler that sleeps leaves the colour it
sets afterwards in `after`, and `Wake` goes on from there; the finger
(`Press`, `Lift`) and time (`Tick`) do not wait. `button.last` is the duration
of the press before: the code subtracts it from the duration of this one and
calls the result a double press (`WithinDouble`), and so does the model. Times
saturate at `Cap`, above which no comparison of the code can tell two of them
apart. `served` is the history of what the press brought about. The store is
reduced to what `oath_storage_list` tells the keyboard of each slot.

### WebUsb, WebUsbKeys and the curve

A WebUSB transfer ends after 1024 bytes or a short packet, and each is handled
as one command: a restore of a full store arrives in pieces, the first of which
is no whole image, and the others are bytes of the image taken for commands
(`Messages`). `CryptoGenerate` uses the count of keys as id and as HSM slot and
does not look at the status of the generation, which may fail and leave in the
slot what was there. `hsmStarted` covers both a firmware whose boot calls
`hsm_init` and the present one. After a `Restart` the slots are empty: at
boot OpenPGP's initialisation writes the sector the HSM would load them from.

`EccField`, `EccPoints` and `Ecc` are `uECC.c` with the `secp256r1` part of
`curve-specific.inc`. `EccField` has what works on words: addition and
subtraction with the carry seen from the result, the product column by column,
sums and differences modulo a number, a round of the shift-and-subtract
reduction and one of the binary inversion, and the fast reduction modulo the
prime. `EccPoints` has the Jacobian doubling, the co-Z additions, a round of
the ladder, its start and its last step. `Ecc` adds the loops around those
rounds, the square root, keys, ECDH, ECDSA with blinding, Shamir's trick, and
the draws of random numbers with their retries. From modular arithmetic
upwards a big integer is the natural number its words make, and a carry out of
eight words is kept. The order in which products are formed is the code's, and
a square is the product of a number with itself. The firmware's ARM build takes
addition, subtraction, product and square from `asm_arm.inc`; modelled are the
portable loops of `uECC.c`, which compute the same.

`EccField` and `EccPoints` take the number of values of a word, `WordSize`,
as a parameter; 2^32 in the firmware. The run has words of one bit
(`LimbBits`, `WordSize` = 2): the prime 2^256 - 2^224 + 2^192 + 2^96 - 1
becomes 2^8 - 2^7 + 2^6 + 2^3 - 1 = 199, with the same eight words and the same
fast reduction, and p % 4 = 3 as before. The accumulator of a column, three
words in the code, is one number here: three words hold it if a word has eight
values or more, which `ProductRight` proves. The curve is y^2 = x^3 - 3x + 40
with 179 points, generated by (3, 43). `WebUsbKeys` makes the HSM's key pairs in
`WebUsb` keys of that curve, and `CurveCorrect` compares all the results with
the affine group law and the definition of ECDSA. The ladder passes through
infinity for the private keys 1, n - 2 and n - 1 and for points with x = 0: the
code reports failure then, and draws again in `uECC_make_key`.

## 3. Runs

| run | config | checks | shows |
|---|---|---|---|
| `oath_storage` | `OathStorage.cfg` | TypeOK, IdleIsDurable, SlotsReadable, NamesUnique, MasterKeyPermanent, ImplementsVault | in a layout that fits, with power losses at each step and backups of its own and of another device, the store loses nothing it accepted, holds a name once and does not touch its key; slots, encryption and the two-step save implement the dictionary |
| `oath_storage_spill` | `OathStorageSpill.cfg` | SlotsReadable, KeyChangesOnlyBySpill, KeepsServing, ImplementsVault | with the real 16 slots only the programming of a package that runs on changes the key, and only by clearing bits; a slot does not open only if it was sealed before that; a damaging save loses every credential or none; the device always comes back to serving |
| `oath_applet` | `OathApplet.cfg` | CodesSpent, SpentNotGiven, CalculateAnswered | in the layout of the firmware, which spills, no power loss and no save brings an HOTP code of CALCULATE back, and no answer has it again; CALCULATE is answered |
| `applet_stores` | `AppletStores.cfg` | StoresTypeOK, SectorsWritten, WriterAgrees, CredentialAnswered | an erased sector is written again and a torn package of the HSM replaced; the HSM's keys are on flash while it wrote last; MakeCredential is answered |
| `ccid_transport` | `CcidTransport.cfg` | CcidTypeOK, AnswerBelongs, RunsOnce, AnsweredWhenFree | with commands of one packet, answers and commands stay together, also when transfers fail |
| `ctap_hid` | `CtapHid.cfg` | SilentUntilInit, AnswersInOrder, ChannelsApart, AnsweredWhenIdle | with a late reader, swallowed answers and a bus reset, the answers keep the order of the commands, none precedes the handshake, a channel is not given again within a turn of the counter; a device that is idle gives each command the answer of its kind, but for a MSG that reaches the secure world and a PING that does not fit |
| `ctap21` | `Ctap21.cfg` | Ctap21TypeOK, AttestedIfPermitted, KeysKept | resident keys with repeated ids implement the bounded table; attestation follows the configuration and not the options |
| `bio_enrollment` | `BioEnrollment.cfg` | BioTypeOK, EnrolledBySamples, TemplatesKept, EnrollmentEnds | no template without as many samples as `samples_required` says, and one at least, although the counter wraps; templates implement the bounded table; enrollments end |
| `device_modes` | `DeviceModes.cfg` | DeviceTypeOK, OneEffect, ShortKeepsMode, HeldChangesMode, LedTellsMode | the loop sleeps while the finger moves, and still a press does one thing, short presses are no long one, a long one counts, the LED comes back |
| `webusb` | `WebUsb.cfg` | WebUsbTypeOK, KeyIdsTrue, CurveCorrect | through restores that run on as commands, generations that fail over an empty or an older slot, and restarts, no id is given out twice, signing uses the pair it was handed out with or a later one of its slot, encryption the one handed out or none; the arithmetic of each generated key is right. The run also evaluates, for its curve, what the theorems about points assume: that the prime is one (`PrimeAssumption`) and, in `CurveCorrect`, that chords and tangents lead from multiples of the generator to multiples (`MultiplesOfAPoint`) |

The runs that find the code and its documentation or comments apart:

| run | config | property | what happens |
|---|---|---|---|
| `oath_storage_key_lost` | `OathStorageKeyLost.cfg` | MasterKeyPermanent | a save of the 16-slot package programs into the OTP sector and clears bits of the master key; everything sealed before is unreadable |
| `ctap_hid_keepalive` | `CtapHidKeepalive.cfg` | MsgAnswered | what is to be sent "as CTAPHID_MSG" (`fido2_device.c:344`) is refused, because the keepalive of the same handler is still in the endpoint |

### Known divergences without a run

What the code does differently from what its documentation or its own comments
say, seen while modelling. The models follow the code.

- CALCULATE ALL hands out the HOTP code of the current counter without moving
  it (`sw/oath/oath_protocol.c:165`) and does not ask for the touch
  (`oath_protocol.c:150`).
- A credential name of 64 characters or more is stored cut (`strncpy`,
  `sw/oath/oath_storage.c:165`), while put, get and delete compare the uncut
  name: put succeeds and get does not find it, though `oath_storage.h:61` says
  "Find a credential by name". Putting it again takes another slot (`Trunc`,
  `CutOff`).
- From the second boot on OpenPGP finds its own package, refuses it with the
  message "Decryption failed! Re-initializing." (`sw/oath/openpgp_storage.c:78`)
  and initialises nothing: the data in RAM is zero, PIN tries included, where
  lines 60-66 set the defaults of an empty sector. One that power tore is left on
  flash as it is, too. OpenPGP and the HSM, once it is started, overwrite each
  other's sector (`sw/security/hsm.c:82`).
- After `fido2_bioenrollment_init`, whose `memset` clears `samples_required`
  (`nsw/usb/fido2_bioenrollment.c:34`), a single good sample stores a template.
  The initialiser (line 25) and `docs/ADVANCED_IMPLEMENTATION_COMPLETE.md:91` and
  `:312` say three. `EnrolledBySamples` states what the code does: as many samples
  as `samples_required` says, one at least.
- A CCID command of more than 64 bytes is handled after its first packet
  (`nsw/usb/ccid_device.c:90` and `:109`); `LongMessages` models it.
- A PING of more than 61 bytes is not echoed: with its header it is longer than
  a report (`nsw/usb/fido2_device.c:317` and `:476`).
- A WebCrypto key whose slot was generated again signs with another pair than it
  encrypts with (`nsw/usb/webusb_crypto.c:150` and `:182`).
- A double press is told by the difference of two durations
  (`main_secure.c:101`), so two presses of about the same length are one,
  however far they lie apart.
- `MAX_FINGERPRINTS` is 10 in `fido2_ctap21.h:53` and 5 in the enrollment and
  the README ("até 5").
- A WebUSB backup is larger than TinyUSB's transmit FIFO and is cut
  (`nsw/usb/webusb_device.c:342`), and a restore of it arrives as several
  commands (`webusb_device.c:193`).

### Bounds

- `OathStorage.cfg`: two slots and two names fill the store and let put
  replace, delete free the first slot, and an import bring a foreign one; two
  possible keys over three bits let a torn provisioning and a later one
  differ; counters up to 1, since the store treats every counter alike.
  The one backup of another device has a credential of a name that is used here,
  too; it does not open and takes a slot, so that a put is refused.
- `OathStorageSpill.cfg` and `OathStorageKeyLost.cfg` use the real 16 slots and
  the real sizes: what matters there is the layout. The first has two names, so
  that a save could lose one and keep the other, and two key bits of which the
  drawn key has one; the second one name and three bits.
- `OathApplet.cfg`: the real 16 slots and sizes, so that saves clear key bits
  and everything sealed before becomes unreadable; `MaxCounter` 2 bounds how
  many codes are handed out, which is enough for a code, its successor and a
  restart between them.
- `AppletStores.cfg`: three keys for two credential places, so that the
  storage fills up; two HSM slots, so that one is untouched.
- `CcidTransport.cfg`: `SeqMod` 2 instead of 256 makes a stale answer share a
  number with the open command as soon as two commands lie between, the worst
  case; four commands leave room for one that is given up, the late answer,
  one that loses its own answer and one after that.
- `CtapHid.cfg`: three channels and four frames, so that four handshakes wrap
  the counter past the broadcast channel; one bus reset, at any place.
  `CtapHidKeepalive.cfg` needs a handshake and a MSG only.
- `Ctap21.cfg`: three places for keys with two ids, so that ids repeat and a
  key between two others is deleted; PIN lengths below, at and above the
  limits.
- `BioEnrollment.cfg`: room for two of three templates, so that the table is
  full with one to spare; the byte counter wraps after four samples where two
  are required.
- `DeviceModes.cfg`: ticks in the order of the code's times (debounce below a
  tick, double press 2, long press 3, blinks 1 and 2, typing 2), so that a
  press can begin or end in each of the sleeps; two slots, with a third index
  past them.
- `WebUsb.cfg`: two HSM slots for three key pairs, so that one is generated
  again; three places of WebCrypto, one more than slots; a restore of two
  transfers, so that one runs as a command. For the curve all products of the
  field, all scalars, all points and pairs of coordinates are covered; hashes
  (one below and one above n), nonces (every seventh), random Z and sequences
  of draws are samples.

Deadlock is checked except for `CcidTransport` and `CtapHid`, whose hosts may
have sent all their commands.

### Fairness

Weak fairness of the firmware's own steps: code that is running runs on while
it has power. This is what a single-threaded program without waiting does. In
`AppletStores` and `OathApplet` it covers also the steps after a save. No
fairness is assumed of power, callers or persons, except in `BioEnrollment`.

- `CcidTransport`: the main loop calls `tud_task` again and again, and the bus
  moves a packet that can be moved; the host need not send anything, and need
  not give up, which is why the property is about a reader that owes nothing.
- `CtapHid`: the handler runs, and the host polls the IN endpoint, which the
  interval in the endpoint descriptor makes it do. It need not send.
- `DeviceModes`: `Poll` and `Wake`, the loop itself, weakly; `Tick` strongly,
  which rules out only a finger that moves without end within one tick.
- `BioEnrollment`: `GoodSample`, weakly: `EnrollmentEnds` is about a person
  who goes on offering a good finger.
- `KeepsServing` does not ask for power to come back.

## 4. Theorems

Every invariant and action property that a passing run checks is also a theorem, for
every value of the constants, except `CurveCorrect`, of which a part is (see
the curve below); so are the three refinements. `AppletTypeOK`,
`CtapHidTypeOK`, `KeyProvisioned` and `PutIsFindable` are proved and have no run:
in the runs the last two are covered by `MasterKeyPermanent`,
`KeyChangesOnlyBySpill` and `ImplementsVault`. Each follows from an
inductive invariant that TLC checked on the run's instance first. The named
assumptions on the constants (`StorageAssumption` and its like) are evaluated by
TLC in every run; what a theorem needs beyond them it assumes itself.

### OathProofs

For any number of slots, names, payloads, key bits, backups and counters.
`~Spills` says that the package fits its sector: it does with 14 slots or fewer,
and not with the firmware's 16 (run `oath_storage_key_lost`). A theorem that says
more of a layout that fits has it as the premise of that part only, and what is
left holds for the firmware as it is; three exclude foreign backups where it does
not hold.

| theorem | property | layout | assumes |
|---|---|---|---|
| `TypeCorrect` | TypeOK | any | |
| `KeyStaysProvisioned` | KeyProvisioned | any | |
| `KeyPermanence` | KeyChangesOnlyBySpill; MasterKeyPermanent | any; where it fits | |
| `Durability` | IdleIsDurable | any; more where it fits | |
| `Readability` | SlotsReadable | any | |
| `UniqueNames` | NamesUnique | any | foreign backups hold no name twice |
| `PutFindable` | PutIsFindable | any | no name is cut off |
| `AppletTypeCorrect` | AppletTypeOK | any | |
| `CodesStaySpent` | CodesSpent | any | as `UniqueNames`; no foreign backups if it spills |
| `NoCodeGivenAgain` | SpentNotGiven | any | as `CodesStaySpent` |
| `StoreImplementsVault` | ImplementsVault | any | no name is cut off; foreign backups hold no name twice, and there are none if it spills |

- `StorageInv`: IdleIsDurable is not inductive by itself. A load must find a
  package under the present key and an import bring a readable image, so the
  invariant adds that nothing exists before the key, that flash and backup are
  readable in the sense of `Readable`, and that a package on flash at rest is
  the image in RAM, under the present key where it fits. Where saves clear key
  bits, whatever this device sealed has at least the bits of the present key
  (the second reason of `Readable`): a slot that does not open any more never
  will (`PastShrinks`).
- `UniqueInv` speaks of slots sealed under one key, not of slots that open,
  because a slot may open again after a restore.
- `AppletInv`: between the move of the counter and the answer, the code under
  way is already behind the counter, and ahead of every spent one: that is what
  lets CALCULATE give it. CALCULATE ALL computes from the counters of the slots
  that open, and those are past every spent code (`NoCodeGivenAgain`).
  CALCULATE moves the counter of the first slot with its name; that there is no
  second one is `UniqueInv`. The history of spent codes is emptied by a restore
  and by a reset, which bring other secrets, and by a put of its name. With a
  foreign backup and a spilling layout a key that loses bits could become the
  other device's key, so the theorem excludes this one combination.
- `StoreImplementsVault`: each action is a step of the dictionary or a stutter,
  under `VaultInv` (`StorageInv`, `UniqueInv`, and nothing on flash between
  the two steps of a save). The slot a scan finds is the only one with the
  name, so an image determines the dictionary; a dictionary has room when a
  slot of the image is free, because each used slot either holds one entry or
  is unread (`SlotsCounted`, a counting argument over `FiniteSetTheorems`). In
  the layout that spills, a programming either leaves the key alone or clears
  bits of it, and a key with fewer bits opens nothing that was sealed before
  (`KeyDamaged`): the dictionary is then lost as a whole, and the copy with it.
  With foreign backups a damaged key could become the other device's, so this
  one combination is excluded as in `CodesStaySpent`.

### The other components

- **CcidTransportProofs**, for any number of commands and sequence numbers from
  two values on. `CcidTypeCorrect` (messages of any length) by `ReaderInv`: the
  reader holds at most one message, which waits, is worked on, or is done and
  the endpoint armed; without it a callback could find no message to read.
  `AnswersBelong` and `CommandsRunOnce`, for commands of one packet, by
  `OrderInv`: the message in the reader and a waiting answer are of the host's
  last command, or of the one before while the last is not through, and two
  commands in a row have different numbers (`NumbersDiffer`).
- **CtapHidProofs**, for any number of frames, channels and resets.
  `HidTypeCorrect`, `SilenceKept` and `OrderKept` by `HidInv`: a frame in the
  endpoint is the last one sent, all that was answered or executed came before
  it, and a connected device was greeted. `ChannelsKeptApart` by `ChannelInv`,
  which bounds how far the counter went between two channels by the frames
  between them; the counter wraps, so it is stated modulo its width. Order is all
  that `OrderKept` says: that an answer comes is `AnsweredWhenIdle`, a matter of
  TLC, and that the one of a MSG does not, of run `ctap_hid_keepalive`.
- **Ctap21Proofs** and **BioEnrollmentProofs**, for any capacity. `CtapInv` and
  `BioInv` say that the places below the count hold entries; `CtapInv` that
  only the configuration command enables attestation, for
  `AttestedOnlyIfPermitted`; `BioInv` that the id being enrolled is in no
  template and that no more samples are counted for it than were offered, for
  `TemplatesSampled`, though the counter wraps; what is required is
  `samples_required` as it is, one sample at least (known
  divergences). `KeysImplementTable` and `TemplatesImplementTable`
  take each operation to a step of `BoundedTable`: what `memcmp` finds is the
  first entry with the id (`FirstFound`), and the loop that shifts leaves the
  entries behind it one place further down.
- **DeviceModesProofs**, for all times with a debounce below the long press.
  `DeviceTypeCorrect`, `OneEffectOnly` and `OnlyLongChangesMode` by `DeviceInv`:
  while a press can still become a long one, the loop has not slept, nothing
  has come of the press, and the loop has not counted more time than the finger
  was down for. The mode changes by that only after the full time.
- **AppletStoresProofs**, with and without a started HSM. `StoresTypeCorrect`,
  `BothSectorsWritten` and `LastWriterAgrees` by `StoresInv`, which says for
  each sector from which point of the boot on, and during which saves not, it
  is written and agrees with its writer.
- **WebUsbProofs**, for any number of slots, places and transfers.
  `WebUsbTypeCorrect` and `KeyIdsStayTrue` by `WebUsbInv`: key pairs are numbered
  in order, so a slot that is generated again holds a later one, and each id
  that was handed out is below the count, and so a slot (`IdsAreSlots`). The rest of
  this module is about the curve.

### The curve

For words of any even number of values, 2^32 included; nothing is assumed of
the prime but that it is one (`PrimeAssumption`), and only where it is needed.

| theorem | establishes |
|---|---|
| `WordSumsRight` | addition and subtraction word by word, with the carry the code sees from `sum < left`, are sum and difference of the numbers with the last carry |
| `ProductRight` | the columns give the product; three words hold each accumulator if a word has eight values or more |
| `ModularSumsRight` | sum and difference modulo any number of eight words, also where `ModAdd` gets a hash that is not reduced |
| `FastReductionRight` | the nine sums of words and the loops of corrections give the remainder modulo the prime for every product of sixteen words |
| `ShiftSubtractRight` | the rounds of `uECC_vli_mmod` leave the remainder by any modulus |
| `InversionRight` | the rounds of `uECC_vli_modInv` end, and with the inverse, for every odd modulus and everything that has no divisor in common with it |
| `FieldInversionRight` | so each number of the field but 0 has its inverse |
| `DoublingRight`, `AdditionRight`, `SumAndDifferenceRight` | the point formulas make the points on the tangent and on the chords, whatever Z stands behind them |
| `ScalarMultiplicationRight` | `EccPoint_mult` makes k times the point, for each k in 2..n-3 and each initial Z |

- The loops of `Ecc` are recursive operators, which the prover does not take.
  The theorems speak of runs of their rounds instead: a function over the
  number of rounds whose every value is the round of the one before. A statement
  about all rounds follows from the well-foundedness of the naturals, by the
  least round at which it fails.
- The inversion keeps u * input and v * input congruent to a and b modulo the
  modulus, and any common divisor of a and b divides both arguments; each
  round makes a + b less, which bounds their number.
- A point with its Z represents an affine point by two congruences (X = x * Z^2
  and Y = y * Z^3, modulo the prime). `OnChord` and `OnTangent` say in the same
  way, without a division, that a point is the third one on a line.
- That the points of a curve form a group is not proved: it is a hypothesis,
  `MultiplesOfAPoint(M, n)`, that M[1], ..., M[n - 1] are points of the field,
  that different ones have different x unless they are opposites, that the
  chord through M[j] and M[k] leads to M[j + k] modulo n, and the tangent at
  M[1] to M[2]. `CurveCorrect` includes that the generator of the run's curve
  satisfies it.
- `ScalarMultiplicationRight` rests on `LadderAt`: after each round the two
  points stand for s and s + 1 times the point with one Z that is not 0, where
  s is the prefix of the regularised scalar read so far, and the remembered
  difference is that of their x. The round keeps it because no prefix makes one
  of the points infinite or both opposite: modulo n the prefixes of
  regularised scalars between 2 and n - 3 avoid those values
  (`RegularPrefixes`), which is what the exclusion of 1, n - 2 and n - 1 is for.
  `LastStepRight` recovers the Z from the coordinates of the point itself, which
  needs x # 0.

### Only model-checked

- Liveness (`KeepsServing`, `CalculateAnswered`, `CredentialAnswered`,
  `AnsweredWhenFree`, `AnsweredWhenIdle`, `EnrollmentEnds`, `HeldChangesMode`,
  `LedTellsMode`): the prover has no rules for fairness or `ENABLED`.
- Of `CurveCorrect`: ECDSA with its blinding and Shamir's trick, ECDH, the
  square root, validity of points, the draws and their retries; that the loops
  of `Ecc` run the rounds the theorems are about; and that the points form a
  group. The loops are recursive operators and what they compute is an
  induction over data; the group law is algebra of a higher degree than the
  provers take in; for ECDSA and Shamir's trick see the plan.

## 5. What is not modelled

- **Cryptography** other than `uECC` is ideal: a package opens under the key
  it was sealed with and no other. AES, GCM, SHA, HMAC and Base32 are
  arithmetic on bytes without the small instance that curves have. Of `uECC.c`
  the four other curves, byte order and the assembler that replaces four of its
  loops on ARM are not modelled, nor is the shift of a hash that is longer than n;
  `uECC_sign_deterministic`, which has no caller, is modelled for the
  candidates it tries, whatever its HMAC chain gives.
- `security_get_master_key` is called but defined nowhere, and `fido2_device.c`
  has statements outside of any function (381-399), so the tree does not build
  as it is; the models read each function by itself and take the missing one
  to return the stored key.
- **FIDO2**: GetAssertion names the first credential and signs with HSM slot 0,
  whose key each MakeCredential replaces, and a saved credential is gone after
  the next start for the same reason as the OpenPGP data. Neither has a run of
  its own: without `hsm_init` no key is ever made.
- **Flash driver**: `flash_range_program` wants multiples of 256 bytes and the
  code passes other lengths; the model programs what was asked for.
- **Memory layout**: buffers that are too small for what is copied into them.
  The handler clears 1024 bytes of an answer buffer CCID gives 258 bytes;
  a PING of more than 61 bytes, a resident key in a report, the third
  enumerated template, and a WebUSB public key or signature are longer than
  the arrays they go to. The models end such an operation where the code's own
  checks end it: a long PING gets no answer, because `fido2_send_report` compares
  the length, and what the copy before it wrote past its array is left out.
- **CCID**: bus resets, the bytes of the constant answers, and the answer that
  is a local of a function that has returned, which depends on the USB
  controller's driver.
- **OATH applet**: response bytes and their number; LIST and CALCULATE ALL
  append an entry for each of the 16 credentials and compare with no bound.
- **DeviceModes**: the key strokes of a code are one sleep; the PWM levels of
  the LED are its colour. `hid_keyboard_handle_button` has no caller.
- **WebUSB**: the bytes of answers and ciphertexts, and how much of a backup
  the FIFO keeps.
- **Not in the build**: `main_secure_new.c`, `main_s.c`.
- Encodings (`cbor.c`, `iso7816_4.c`), the management applet, descriptors and
  the composite device, host tools, pages and build files keep no state with a
  property to check.

Hazards without a property (in `PROJECT.json`, with the reason). Where the code
does what a property would forbid: the touch that CALCULATE ALL does not ask
for, the CCID commands of several packets, the sector that OpenPGP and the HSM
share, OpenPGP's package that its own load refuses, and names of 64 characters
and more. Out of the models' reach: the CCID answer in a dead local and the
unbounded answer of LIST. Of the code CALCULATE ALL shares with CALCULATE one order is
covered (`SpentNotGiven`); in the other the code does hand it out twice.

## 6. Plan

The modules were written from the store outwards: the store with its key and
flash, the applet over it, the other storages, the transports, CTAP 2.1 and
enrollment, the button modes, WebUSB with the curve. What is left:

1. Theorems about Shamir's trick (`uECC_verify`) by the same representation of
   points, and ECDSA modulo n from `ModularSumsRight` and `InversionRight`.
2. The word-by-word square of `uECC.c` and the assembler of `asm_arm.inc`
   against `VliMult`.
3. A composition of the CCID transport with the applets, with the length of
   answers, for the unbounded answer of LIST.
