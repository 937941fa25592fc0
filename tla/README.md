# A door with cards and logins, in TLA+

This directory models and verifies the program in `src/`: an ESP32 reader at a
door (C, `ESP32_RFID/`) and a Go server (`GO_RFID/`) that together open the door
for somebody who holds a card and knows a password and a TOTP secret.  The
behaviour modelled is the current one, the "New method" of `src/README.md`; the
old ECDH/UDP/TCP method is still in the tree, but nothing starts it.

## 1. Inventory

| Component | State | Operations | Talks to |
|---|---|---|---|
| Server handlers, `https_server.go` | the globals `checker`, `passing`, `attempt_time`, `test_once`, shared by all connections without a lock | one handler per request: `UID_KEY`, `New_Card_Key`, `Password`, `/OPEN` | readers and browsers by HTTPS, the database by SQL |
| Card database, `db2.go` | table `cards`: uid, password hash, this and last key, TOTP secret | register, check, update | called by the handlers |
| TOTP, `TOTP.go` | none (the clock) | new secret, code of a secret | called by the database |
| Login page, `index.html` | none | one POST per click | server |
| Reader loop, `main.c` | the card in the field, its UID and key | poll, read block 4, run a session, blink | PN532 chip, session |
| Reader session, `tls_connection.c` | one TLS connection, a receive buffer | `UID_KEY`, write the card, `New_Card_Key`, heartbeats | server, card |
| Card write, `card_reader.c` | block 4 of the card | authenticate and write | PN532 chip |
| PN532 driver, `PN532.c` | one packet buffer for all commands and responses, `inListedTag` | command, acknowledgement, response; block access. For other applications: NDEF messages, NTAG and Ultralight pages, GPIO, data exchange, target mode | the chip by SPI |
| Flash storage, `flash_write_RSA_key.c` | two partitions with encrypted key and certificate | write once, read at each session | session |
| Wi-Fi and time, `wifi_connect.c`, `main.c` | retry counter, event bits | connect, wait, SNTP poll | start-up of the reader |
| LEDs, `card_reader.c` | three GPIO pins, the tasks that blink them | start a task, set a pin, delete itself | loop and session start them |
| mDNS, `connect.go`; old method (`udp_communication.c`, `publickey_reciever.c`, `ecdh.c`, `archive/`, `TCP.go`, `ECDH.go`, `RSA_checker.go`, `arp_esp_finder.go`); `key_checker.py` | | not used by the current method | |

How they interact.  A reader runs `nfc_task` for ever: the driver polls the chip
for a card and reads block 4; `https_request` loads key and certificate from
flash, opens one TLS connection and sends `UID_KEY`, writes the next one-time key
to the card when the server accepts the old one, reports it with `New_Card_Key`
and then sends heartbeats to `/OPEN` until the server answers 200 (the door opens)
or that two logins have failed.  Meanwhile somebody posts `Password` from the
login page.  The server's handlers run in one goroutine per connection and
communicate through four globals and the table `cards`.

What is hard, and what makes each part correct:

- **Server**: handlers test a global and use the result later, without a lock;
  a dropped connection leaves its handler running beside the next one's; a restart
  forgets the globals and keeps the table.  Correct, where handlers do not overlap:
  no test is stale at its use, an opening spends one accepted card and one accepted
  login, one card is registered.
- **Session and card**: the card is written before the server is told; either
  side may lose the other at any step; answers are recognised by their order
  only.  Correct: the server keeps knowing the key on the card, a card is written
  only when its key was current, no answer is taken for another's, the session
  ends.
- **Driver**: the card can be swapped between any two commands, a frame lost, an
  answer late; one byte of a response is checked.  Correct: UID and key belong
  together, only the accepted card is written, calls end, and the driver
  recovers.
- **Flash**: no length is stored, the end is found by content; power may fail
  between erase and write; a length may wrap.  Correct: what is read is what was
  stored.
- **Driver functions the reader does not use**: a message is several writes of
  which any may be the last; a command may be lost, and a frame of any length or
  another call's.  Correct: what was written reads back, keys go to the trailers
  only, no call leaves its area, a call reports what happened, and reads or writes
  behind a buffer in no more cases than are known.
- **Start-up and LEDs**: events race with the task that waits for them; retries
  are limited; blink tasks pile up and share pins.  Correct: the reader starts,
  gives up only on a whole outage, and no LED stays on.

The hazards, each at its line with the properties about it, are in
`PROJECT.json`.

## 2. Modules

| Module | Models | State and actions |
|---|---|---|
| `CardTable` | `db2.go` | the table as a sequence of rows; each SQL statement an operator. A hash is an injective function, a TOTP secret is the number of its row, a code is known exactly to who knows the secret |
| `Wire` | the connections | per link: `open`, requests `up`, responses `down`; FIFO queues, hang-up, leftovers of a dropped connection |
| `Server` | `https_server.go`, `connect.go`, `index.html` | the globals under their own names, the table, and per link the position `at`, request `req` and local `tmp` of the handler. One action per access to shared state, so `attempt_time++` is two, and `/OPEN` tests and clears `passing` and `checker` in four. The clients here send any request at any time, and connect whether or not their old handlers are done |
| `Access` | the server's promise to the door | two approvals, both used up by each opening, the login's first |
| `CardIO` | the contract between session and driver | a card is read; the session refuses it or agrees on a new key; that key is written once or lost |
| `Reader` | `main.c`, `tls_connection.c`, `card_reader.c` | per reader the position `rpc` of its task, `uid`, key, connection; one action per exit of each step |
| `System` | the composition | `Server` and `Reader` on the same links; fresh keys; when a read may time out |
| `PN532` | `PN532.c` as `main.c` and `card_reader.c` call it | the function `nfc_task` is in and its phase (send, wait, acknowledgement, wait, take), the chip, the cards; frames byte for byte |
| `Ndef` | the functions of `PN532.c` that write NDEF messages | the tag's blocks or pages, the call and its writes so far; any write may be the last or refused |
| `Peer` | the other functions of `PN532.c`: GPIO, SAM, listings, data exchange, page reads, target mode | the chip's role, `inListedTag`; `chip`, how far it is with which command, and whether that is the command of the call under way; `call`, how far that is and what it returned. One action per step of a call (command, acknowledgement, response), so that it may give up between any two and leave the chip what it has |
| `Tags` | both in one application | a tag is written, or a peer is met |
| `Flash` | `flash_write_RSA_key.c` | the bytes of one partition; erase, write, interrupted write, read. The cipher is a constant, any function of blocks with an inverse |
| `Startup` | `wifi_connect.c`, `app_main`, `obtain_time` | event queue, retry counter, event bits, position of `app_main` |
| `Leds` | the blink tasks of `card_reader.c` | level of each pin; per task slot the colour and the next step, one action per `gpio_set_level` |
| `Device` | the reader from reset on | `Startup` and `Leds` side by side; `nfc_task` starts tasks once it runs |
| `MC...` | | instances for TLC |
| `ServerProofs` | | theorems about `Server`, and `Server` implements `Access` |
| `SystemProofs` | | `System` implements `Server`, hence `Access`, and `CardIO`; the order of answers |
| `KeyProofs` | | the keys of cards and table in `System` |
| `PN532Proofs`, `NdefProofs`, `FlashProofs` | | theorems about the module of the name; `PN532` implements `CardIO` |
| `TagsProofs` | | theorems about `Peer` and `Tags` |
| `DeviceProofs` | | theorems about `Startup`, `Leds` and `Device` |

`System` extends `Server` and `Reader`; it takes only steps `Server` allows its
clients (the property `ServerSpec`, checked by `system_all_faults` and proved by
`SystemImplementsServer`), so that what is proved of the server holds of the
whole.

Connections and handlers.  net/http serves each connection in a goroutine of its
own, and `tls_connection.c:80-91` connects at each session, whatever has become of
the last.  `ReaderLinks` is a pool of names for these connections with their
handlers; a name is free for a new one (`Spare`) when connection, requests and
handler of the old one are gone.  So its size bounds how many handlers can overlap
and says nothing about who they belong to: with two names one reader that drops a
connection, or two readers, have two handlers at work.  Much of what the server
promises needs that not to happen; `OneHandler` says that it does not, and
`SerialSpec` is `ServerSpec` where it holds throughout.  Nothing in
`https_server.go` sees to it.  A reader that waits for each answer does, as long as
no connection is lost and no read gives up early (`SystemImplementsSerial`); in
other cases the code does not keep the promises, see section 3.

`System` has two auxiliary variables, which no guard reads: `missed`, the cards that
were gone when their new key was to be written, and `late`, the sessions in which a
read has given up on an answer that was still to come.  Session and driver meet in
`CardIO`: `System` uses a card as it says (`SessionIOSpec`), and the driver with its
frames, timeouts and late answers does no more to a card than it says
(`CardIOSpec`); that a key written is the key read is `KeyReadIsOnCard`.  One thing
`Reader` leaves out: its write happens at once or never, while a write on which the
driver has given up may still be executed by the chip, after `New_Card_Key` has been
sent, until the next poll's command reaches it.

Faults are a constant: `card_leaves` (a card is taken away too soon),
`link_drop`, `late_reply` (an answer later than the read timeout),
`server_crash` (and restart), `db_error` (an UPDATE or a SELECT fails); in `PN532` `noise`
(a command or a response is not heard) and `slow`.

Abstractions worth knowing.  A new key is none that anything still holds: 15
random bytes.  Requests no client of the repository sends are left out.  TLS,
SQLite, HTTP, DHCP and the radio are environment.  Cards and block 4 only; the
chip model answers a command or reports an error as its manual says.

### The shifted response

`card_write_on_block` writes the key to bytes 1..15 of the block
(`card_reader.c:32`); `nfc_task` takes bytes 0..14 of what `ReadDataBlock` copies
from index 8 of the response (`PN532.c:707`, `main.c:178`).  With two leading zeros
in a response, as the comments at `PN532.c:644` and `706` have it, index 8 is byte
0 of the block and the two do not agree.  The comment at `main.c:153` ("the first
byte need to be 00 and will read a random byte") describes a response with one
leading zero: index 7, tested as the status, is byte 0 of the block, and the 16th
byte is the checksum.  That is also what `pn532response_firmwarevers` expects.
So data exchange responses have `Lead` zeros, 1 in the run, and `KeyReadIsOnCard`
holds; with `Lead = 2` TLC refutes it.  A consequence the model includes: the
driver does not test the chip's status; an error response fails the test because
it has no data, so that its checksum is at index 7.

## 3. Runs

| Run | Bounds | Shows |
|---|---|---|
| `server_one` | `SerialSpec`: two reader connections whose handlers do not overlap, one browser, one card and key, one password (refusals come of failing SELECTs, an empty table and expired codes); all server faults; one request in flight per connection; two rows before a crash; two failed logins | `TypeOK`; `CheckStillHolds`, `RotateStillAllowed`, `RegistersOnce`: tests are still true at their use; `AccessSpec`: refinement |
| `system_leaves` | one reader with two connections to use, one browser, one card, three keys; cards leave; three failed logins | `SystemTypeOK`; `SerialSpec`: refinement, handlers never overlap; `OnlyCurrentKeyRewritten`; `KeyInSync`: between sessions a card that was not `missed` holds the key the server asks for; `KeyRecoverable`: any other holds one of the two columns; `OneRow`; `DecisionEndsSession` (fair) |
| `system_all_faults` | all faults; one reader with two connections to drop and make; no logins | `RepliesInStep`: no answer is taken for another's unless `late`; `ServerSpec`: refinement |
| `system_live_faults` | all faults, no logins | `SessionProceeds` (fair): no exit of `https_request` is missing; `SessionIOSpec`: refinement of `CardIO` |
| `pn532_faults` | two cards, two keys, blocks of three bytes, all faults | `PN532TypeOK`, `KeyReadIsOnCard`, `OnlyAcceptedCardWritten`; `CardIOSpec`: refinement; `CallsReturn`, `TapReachesSession` (fair) |
| `flash_safe` | all data up to six bytes of {0, 1, 5, 9, 255}, blocks of four; the cipher reverses a block | `FlashTypeOK`, `SafeDataReadBack`, `OverrunIsKnown` |
| `device_start` | the code's limits (10, 10); two colours, two task slots, two rounds of blinking | `DeviceTypeOK`, `StopsOnlyWhenExhausted`, `DarkWhenDone`, `ReaderStarts`, `OnlineAgain`, `SlotsComeFree` |
| `tags_any` | URLs of 0, 3, 4, 23, 24, 38 and 257 characters, data areas of 8, 16 and 17 bytes, sectors 0, 15 and 16; peers' data of 0 to 40 bytes, NFCIDs of 4, 7 and 10, a packet buffer of 27 bytes, room for 0, 2, 19 and 20 | `TagsTypeOK`, `UriReadBack`, `KeysGoToTrailers`, `OnlyItsAreaWritten`, `ReportsWhatHappened`, `OverrunsAreThese` |
| `system_late` | one late answer | **violated**: `ReplyMatchesRequest` |
| `system_stale_login` | no faults | **violated**: `LoginFollowsTap` |
| `server_two_readers` | two reader connections, `ServerSpec` | **violated**: `CheckStillHolds` |
| `tags_longest` | URLs of 6, 22, 23, 24 and 38 characters, one sector | **violated**: `UriUpTo38` |

Why the bounds are enough.  Two names in the pool of reader connections let a
handler run on beside one of any kind, its own included, and a third would only add
more of the same; `SerialSpec` leaves each of them beside the browser's.
`system_live_faults` keeps to one name: its properties are about what the reader
does.  Two failed logins reach the limit of two, three pass it.  Five keys exceed
what card, reader, the two columns and a request in flight can hold, so a fresh one
exists (three in `system_leaves`, where the key on the card is in a column); keys
are interchangeable, which the symmetry uses (not in liveness runs).  A pipeline of
two lets a reader run one answer ahead, the most its code can.  The keys of
`pn532_faults` begin with the byte of an authentication error and with zero, and a
block is longer than a key; in `flash_safe` the values are none, a padding, the one
padding too many (5, as 17 in the code), none again, and erased flash, of which a
run of four fits.  The lengths of `tags_any` are those at which `WriteNDEFURI`
changes its layout (3/4 on pages, 23/24 on a sector), its limit (38), one that wraps
in a byte (257), and none; the sectors are the last that is accepted and the two
beside the range; `LastPage` and `PACKBUFFSIZ` are smaller than in the code, with
data of both sides of each test (19 bytes of data fill the buffer of 27, 20 do not);
an NFCID has 4, 7 or 10 bytes, of which a caller's `uid` holds the first two.  Two
task slots and two colours give tasks of one colour and of both at once.
`CHECK_DEADLOCK` is on everywhere.

What the violations show.

- `system_late`: `https_request` goes on when nothing answers `New_Card_Key`
  (`tls_connection.c:201`); the late 200 OK is then read as the heartbeat's, and
  the door opens without a login.
- `system_stale_login`: `passing` stays set until a heartbeat is granted
  (`https_server.go:95`, `194`); a login of an abandoned session opens the door
  for the next card.  `README.md` gives the order card, login, OK.
- `server_two_readers`: the tests of line 190 and the clears of 194-195 are not
  atomic; one login opens two doors.  The theorems about approvals therefore are
  about `SerialSpec`.  One reader is not enough for it: with `link_drop` as the only
  fault, one failed login and two rows, a reader that loses a
  connection and comes back has two handlers at work, and TLC refutes `SerialSpec`,
  `RegistersOnce` (two rows), `RotateStillAllowed`, `CheckStillHolds` and
  `AccessSpec` within a minute each; with `card_leaves` too,
  `OnlyCurrentKeyRewritten`: the old `database_updater` changes the row after the
  new session's key was accepted.  With neither fault but with `server_crash` and
  `db_error` both hold, as the theorems say.
- `tags_longest`: the comment at `PN532.c:799` allows 38 characters; from 24 on,
  lines 856-857 copy one character too few, and at 38 the terminator is stored
  behind the buffer.  `UriReadBack` states what does hold: shorter URLs read back,
  whatever earlier calls have left on the tag.  Behind that buffer a compiler may
  well put `sectorbuffer4`, whose first byte is the first of key A, and `PN532.c:817`
  says which key that must be: the model leaves open where the byte falls, and
  `KeysGoToTrailers` excepts this one write (TLC finds a call that returns 1 and
  leaves another key A).

What TLC refutes when a proviso is dropped, so that it belongs to the properties:
`KeyInSync` fails with two readers (the grant at one clears `checker` under the
rotation at the other) and, without `missed`, when a card leaves before its write
(`card_write_on_block` returns 0 in any case, and the key that is reported is not on
the card); `KeyReadIsOnCard` with `Lead = 2`; `ReportsWhatHappened` of calls that do
not look at the command code and whose command was not heard (a page read gives up,
the list command after it is lost, `readack` takes what begins with a zero byte for
an acknowledgement, and `readPassiveTargetID` the error response to the page read
for a target: it returns 1, a length of 255, and copies as many bytes);
`SafeDataReadBack` fails without `PaddingIsSafe` (data of whole blocks gets no
padding, and a last byte up to 17 is taken for one) and without `EndIsVisible`
(encrypted data that ends in 0xFF is cut).

The lengths that wrap.  `depad_string_pkcs7` lets a last byte of 17 through
(`flash_write_RSA_key.c:130`); when one block was read, taking 17 off leaves
`SIZE_MAX`, and line 288 copies as much.  In the model the session then gets
`Overrun`, a constant that is no sequence of bytes.  `OverrunIsKnown` tells of which
data: a 2048-bit key is over a thousand bytes, so one that was written whole with a
visible end does not overrun; one whose writing was interrupted right behind its
first block does, if that ends in 17.  (A blank partition has length 0, and the
byte before the buffer is what is taken for the padding: `flash_reader` gives nothing
or overruns.)

## 4. Fairness

`FairSystemSpec`: weak fairness of each connection's handler (Go schedules every
goroutine) and of each reader's task, its read timeout included (FreeRTOS runs
`nfc_task`; `esp_tls_conn_read` has a timeout).  Nothing obliges a card holder, a
user or a fault.  `FairPN532Spec`: weak fairness of the task and of the chip.
`TapReachesSession` assumes a card that stays and an end of the disturbance, and
excepts the one wait without a timeout.  `FairDeviceSpec`: weak fairness of
each blink task (it only sleeps between its steps), of
`app_main`, of the event loop, and of the driver, which ends an attempt by an
address or a disconnection; a DHCP server that never answers would leave
`app_main` waiting for ever (`wifi_connect.c:92` has no timeout).

## 5. Proofs

Every theorem holds for any sets of cards, keys, passwords, connections and faults
and any bounds, but for the assumptions it names.  `OneDoor` (one reader, with any
number of connections) is what the repository describes; `Steady` (no `link_drop`,
no `late_reply`) is what a single reader needs to have one handler at a time.
`server_two_readers` and the refutations in section 3 show that the theorems that
assume them need them. Assumptions on constants are the `ASSUME`s of the modules,
evaluated by the runs.

**Server** (`ServerProofs`).

- `TypeCorrect`: `TypeOK /\ Roles`.  `Roles` is the strengthening: a browser's
  connection carries only logins, and a handler's request is of the kind its
  position needs.  Without it a step could read a field its request lacks.
- `ApprovalsHold` (of `SerialSpec`): `CheckStillHolds`, `RotateStillAllowed`,
  `RegistersOnce`.  Inductive: `AccessInv`, these three with `TypeOK /\ Roles`.
  The three alone are not: only because browsers run nothing but `Password`, which
  clears neither flag, can no other handler be at a critical position
  (`OthersUncritical`).
- `ServerImplementsAccess` (of `SerialSpec`): every step is a step of `Access` or a
  stutter.  Both halves of the grant need `CheckStillHolds`.
- `OneRegistration` (of `SerialSpec`, no crash): `OneRow`, from `RegistrationInv`, the
  three stages of the first registration.

**System** (`SystemProofs`), for any number of readers unless said otherwise.

- `SystemImplementsServer` (`Pipeline >= 2`): a refinement whose mapping is the
  identity.  `Server` lets a client send only while fewer than `Pipeline` requests
  are unanswered, a bound of the model; the proof shows that `https_request`
  never has more than two.  Invariant `ReaderInv`: how many requests each
  position can have outstanding, of which kind (`OneAtATime`), that no two readers
  share a connection, that a closed one has no responses left.
- `AnswersInStep`: `RepliesInStep`, from `OneAtATime`.
- `SystemImplementsSerial` (`OneDoor`, `Steady`): the system implements `SerialSpec`.
  Invariant `SteadyInv`: every open connection, request and handler of a reader's is
  on the link it holds, nothing is left on the others, and a reader between two
  requests has no answer outstanding; so a handler is at work only while the reader
  waits for it.
- `SystemImplementsAccess`, `SystemApprovalsHold`, `SystemRegistersOnce` (`OneDoor`,
  `Steady`), `SystemOneRow` (and no crash): the server's theorems, carried over.
- `SystemImplementsCardIO` (`OneDoor`): each step of the system is a step of
  `CardIO` or a stutter.  It rests on `ReaderInv`: a position in which a card counts
  is reached only with a UID and a key.

**Keys** (`KeyProofs`), one reader (`OneDoor`).

- `RejectedCardsUntouched` (`Steady`): `OnlyCurrentKeyRewritten`.
  Invariant `KeyInv`: the `UID_KEY` under way carries what is on the card, and a
  200 for it is given only while the table has that key; no other handler can
  change the row before the card is written.
- `CardsStayInSync`, `KeysRecoverable`, `RepliesMatchWhenCalm`, for
  `Faults \subseteq {"card_leaves"}`: `KeyInSync`, `KeyRecoverable`,
  `ReplyMatchesRequest`.  Three invariants together: `CalmInv` (reader and server
  in lock-step: nothing `late`, no session on a dead connection, nothing left on
  an unused one), `SyncInv` (card and row agree but for the card whose report is
  under way, and that report will be accepted: `checker` is still set) and
  `RegistrationInv` (one row, so that the row found is the row updated).  With
  other faults the two key properties fail, see `system_late` and the price of
  writing first under "hazards".

**Driver** (`PN532Proofs`), `Lead = 1` (section 2; TLC refutes `KeyReadIsOnCard`
for 2): `DriverWellTyped`, `KeyGoesWithItsCard`, `WritesStayOnAcceptedCard`.
Invariant `DriverInv`: which commands the chip can still be at in which call, so
which stale response the next call can take for its own; the card the task knows
is the one the chip has listed.  The arithmetic that carries it: the checksum of a
status response is neither 0 nor 1, the values the driver tests at index 7.
`PN532ImplementsCardIO`: the steps of driver and chip are steps of `CardIO` or
stutters.  `CardIOInv` adds to `DriverInv` that the chip's listed card is the one
in the field or none, and that while a write is still to be sent, none of an
earlier session is left with the chip: a command replaces the one before it.

**NDEF** (`NdefProofs`): `NdefWellTyped`, `OnlyKeysInTrailers`,
`CallsStayInside`, `UriIsReadBack`.  Invariants `CallOK` (a call's writes number no
more than its length and area allow), `MemOK` (keys exactly in the trailers, data of
the right size elsewhere) and `WritesStand` (what the call has written so far is on
the tag; interrupted calls may have left anything elsewhere).  From the last,
`SectorStands` and `PagesStand` piece the blocks or pages together to the bytes of the
message, by cases on the layouts; `TlvExists` and `MessageReads` show that the search
for the message ends at its head, by the least element of a set where a recursive
argument would take induction.  Assumed of an application: the data area it names is
one the tag has (`NdefAssumption`, the comment at `PN532.c:1134`).

**Peers** (`TagsProofs`), for data and rooms of any length, and either number of
leading zeros: `ReportsAreTrue`, `OverrunsAreKnown`.  Invariant `PeerInv`: the two
properties; the types; a response that is to be read, or was, is one that its
command can have; and a command is the call's own only if it is of the call's
function.  A call may meet the response of any function's command, executed or not,
and ones; lemmas read each at the bytes each call tests.  `TagsImplements`: an
application that does both takes only steps of `Ndef` or of `Peer`, so these theorems
and the NDEF ones hold of it; `TagsWellTyped`.

**Flash** (`FlashProofs`), for any cipher with an inverse, block size, partition
and data: `FlashWellTyped`, `StoredKeyReadBack`, and, for blocks of more than a byte,
`OverrunsNeedAByte`.  The lemmas follow the code:
`RoundTrip` (block by block, decryption undoes encryption), `PadDepad` (depadding
undoes padding of data that does not end like one), `EndExact` (the search stops at
the last byte of an image with `EndIsVisible`).  Invariant `FlashInv`: behind the
image of the data the partition is erased at any time, and before it after a
complete write it is the image; so an interrupted write leaves nothing that a
later one does not cover.

**Start-up and LEDs** (`DeviceProofs`): `StartupWellTyped`, `GivesUpOnlyWhenExhausted` (invariant
`Counts`: how counter, queue and event bits go together), `LedsWellTyped`,
`NoneLeftShining`, and for the composition `DeviceWellTyped` and
`DeviceKeepsPromises`, because every step of `Device` is a step of one part that
leaves the other alone.

Each invariant was checked by TLC on the runs' constants before it was proved.

Only model-checked: liveness (`DecisionEndsSession`, `SessionProceeds`,
`CallsReturn`, `TapReachesSession`, `ReaderStarts`, `OnlineAgain`,
`SlotsComeFree`), which is out of the prover's reach.  Every other property that
holds is also a theorem.

## 6. Not modelled

- The arithmetic of TOTP, SHA-256, AES and base64; TLS and its session tickets.
- mDNS: nothing looks the name up.  The old method (UDP discovery, ECDH, RSA, and
  TCP on the server): `app_main` has its start commented out
  (`main.c:232-234`), and `src/README.md` files it under old progress.  Parts of it
  could not run: the exchange gives the signature as much room as a pointer has
  (`publickey_reciever.c:211`) and treats the error as fatal.
- In `PN532.c`: `pn532_spi_init`, which sets pins, and
  `mifareultralight_WritePage` on its own, whose write is the one of the NTAG
  function in `Ndef`.
- Durations: what a delay orders is in the actions' order, how long it takes is
  not.
- Memory: the connection that `tls_connection.c:188` leaks.

Hazards without a property, each with its reason in `PROJECT.json`: the lost
update of `attempt_time++` by two failures at once (`https_server.go:92`; the
step is split in the model, but the effect, a third attempt, contradicts no
document), the leak above, the uninitialised `uidLength` of a failed
poll (`main.c:152`), and the search behind the buffer of a full partition
(`flash_write_RSA_key.c:271`).

## 7. What could follow

1. The late write in `Reader`, and what it leaves of `KeyInSync`.
2. Two browsers and the lost update of `attempt_time++`; the phone as an actor.
3. A session whose network is `Startup`'s.
