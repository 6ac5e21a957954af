# Tumbleweed: a verification project

TLA+ models of the Tumbleweed program for Windows (`src/src/`, Rust), the TLC
runs that check them on small instances, and theorems that TLAPS proves for
every instance. Source paths below are relative to `src/src/`.

## 1. The system

Each copy of Tumbleweed is an SFTP server, an SFTP client, an mDNS advertiser
and a user interface in one process. The parts run on threads of their own:

| part | thread | state |
|---|---|---|
| UI (`main.rs`, `pages/`) | one UI thread | hook state; async setters queue values from other threads |
| SSH server (`tools/ssh_server.rs`) | tokio runtime, a session per connection | per session: open files, progress, `opening_gate`, `pending_sizes` |
| upload gate (`tools/upload_gate.rs`) | called from server and UI | `REPLIES`, `PENDING`, `SETTER`, `NEXT_ID` |
| transfer progress (`tools/transfer_progress.rs`) | called from server, senders and UI | `CURRENT`, `CANCEL`, `SETTER` |
| sending (`tools/ssh_send.rs`) | one thread per file sent | the transfer |
| advertiser (`tools/mdns.rs`) | one thread | `MDNS_ENABLED`, `PEERS`, `was_enabled`, `last_announce`, a socket |
| device refresh (`main.rs:134`) | one thread | the UI's device list |
| online check (`main.rs:150`) | one thread | last result |
| pairing (`tools/ssh_pair.rs`) | one thread per click, one preload | key files, token file |
| result dismissal (`main.rs:214`) | one thread per outcome | a 5 s timer |

### Components, what is hard about them and what makes them correct

**Upload gate** (`tools/upload_gate.rs`, with `SftpSession::open`, the dialog in
`main.rs` and `tools/picker.rs`). Operations: `install_upload_setter`,
`submit_upload`, `reply`, `advance`, `remove_upload`, `fail_upload`,
`push_queue`; `await_decision` with its 600 s deadline; `Drop`. The server
thread and the UI thread meet in three mutexes that are taken one after the
other, never together; the queue reaches the UI as snapshots. Correct means: an
upload is written where the user's first answer on that upload said and nowhere
else, and is then in the history; no reply channel is leaked; nothing is queued
twice; every open returns; the queue on screen is the queue there is.

**Transfer progress** (`tools/transfer_progress.rs`, with `send_file`, `write`,
`close` and the delete button). Rows and cancel flags are keyed by file name, the
transfers are threads. Correct means: rows are those of running transfers, a cancelled
one stays hidden and stops, a flag hits nothing that was not running when the user
asked, counts do not go back. Nothing rules out transfers of one name at once; they
share a row and a flag.

**Size announcement** (`tumbleweed transfer` in `exec_request`, the poll in
`open`, `announce_size`). The reader is a task of its own. Correct means: a size
is used once, and an open finds the size of its own transfer.

**Discovery** (`tools/mdns.rs`). The toggle, the advertiser loop, the cache and
the refresh thread interleave; packets are lost and late. Correct means: off
empties the list and says goodbye; a silent peer is forgotten.

**Identity and pairing** (`tools/ssh_pair.rs`, `pages/settings.rs`). Several
workers and the server share three files without a lock, and `ssh-keygen` writes
two of them. Correct means: the QR on screen holds the key and the token on disk
and a click makes a new key or reports an error.

**Outcomes and history** (`main.rs`, `pages/transfer.rs`, `pages/explorer.rs`).
Outcomes of concurrent sends share one state cell, whose effect runs on a
*change* of value. Correct means: every delivered file is recorded once, no bar
stays for ever or is cut short, a restart loads what was saved.

**Discovery packets** (`tools/mdns.rs`). Packets of any content arrive from the
LAN; names in them are walked by length bytes and pointers. Correct means: the
walk stays inside the packet and ends, and what this program built is read back
as what it was built from.

**Receiving over scp** (`scp_receive` in `tools/ssh_server.rs`). Sink and peer
take turns, a byte each way, over a stream with errors of the peer in the place
of data. Correct means: the sink is in step with its peer, neither waits for the
other, files land in the folders they were sent in, and the peer takes for
received what is on the disk.

**Paired devices** (`SshHandler`, `add_authorized_key`, `record_paired_ip`, the
online check of `main.rs`). Sessions append to two files at once and each reads
the token twice. Correct means: who was told it is registered can come back, who
scanned a replaced QR registers nothing, the two files agree, and the online list
follows what is on the network.

**Settings** (`tools/settings_store.rs`). Every save reads, empties and writes
the whole file. Correct means: a toggle outlives the saves of other keys and a
restart.

Section 5 lists what is not modelled, `PROJECT.json` each component with its
status.

Interactions: the server calls the gate and the progress table; both push
snapshots into async setters; the UI calls back with `reply`/`advance` and
`request_cancel`; accepting an upload and a delivered send each dispatch to the
history reducer; the toggle changes the flag the advertiser reads and clears the
cache the refresh thread reads; the pairing workers and the server's
authentication both call `pairing_token`; the sessions write the list of paired
devices that the online check reads.

## 2. Modules

| module | models |
|---|---|
| `UploadConsent` | abstract: what confirming an upload promises |
| `UploadGate` | the gate, the opens and the UI, step by step; `Consent` is its refinement mapping |
| `TransferList` | abstract: what the list of transfers in progress promises |
| `TransferProgress` | rows, flags, senders, receivers, the delete button; `List` is its refinement mapping |
| `SizeAnnounce` | announcements and the size poll of `open` |
| `PeerDiscovery` | toggle, settings file, advertiser, cache, refresh thread, network, restarts |
| `DnsPackets` | the packets this program builds, byte by byte |
| `DnsWalk` | how a received packet is read and answered, step by step |
| `Pairing` | key files, token, workers, server calls, QR canvas |
| `PairedDevices` | sessions, the two files they append to, the online check, restarts |
| `TreeCopy` | abstract: what receiving over scp does, record by record |
| `ScpSink` | `scp_receive` against its peer, token by token; `Copy` is its refinement mapping |
| `TransferHistory` | outcomes, bar, history, its file, restart |
| `*Proofs` | the proofs about the module of that name; `DiscoveryProofs` those about `PeerDiscovery` and `DnsWalk`, the two modules of `mdns.rs` |
| `MC*` | the instances TLC checks: symmetry sets and functions for the constants |

Common to all: a step of a model is the code between two accesses to shared
state (a lock, a file, a socket, a post to the UI thread), so every
interleaving the threads can produce is a behaviour. `pc` holds the place in
the handler. Definitions marked `Mutation:` are plausible mistakes in the
definition below them; no specification uses them, they show that the
properties can be broken.

### UploadGate

`pc[u]` is the place of `SftpSession::open` for upload `u`: `registered` (reply
channel in place, `SETTER` not looked at yet), `fallback` (`open_direct`),
`waiting` (`await_decision`), `decided` (before `remove_upload`), `saving`
(creating the file), `failing` (between the two halves of `fail_upload`), and the
ends `direct`, `opened`, `refused`, `gone`. `pushing` and `snap` are the two
halves of `push_queue` on each thread, `inbox` the values given to the setter,
`incoming` the value last rendered. `chan` is the mpsc channel: `Receive` takes
the first value, more are never read. `replies` are the keys of `REPLIES`.
`answers` is a history variable: all the user said about each upload.

External behaviour assumed, from how the code uses it: values given to an async
setter are rendered one by one in the order given; the dialog opens again only
when the upload at the front changes, and hiding it by a render does not call
`on_closed`; the folder picker is modal and its completion runs on the UI thread
(`picker.rs:3-4`); a session dropped with its connection is dropped at an
`await`.

`UploadConsent` has four variables (`ready`, `status`, `verdict`, `place`) and
says what the user may rely on. The mapping takes `ready` from `SETTER`,
`status` from `pc`, `verdict` from the first of `answers`, `place` from the
decision of an open that created its file. Actions of the queue, of the
snapshots and of the screen are stutters.

### TransferProgress

A transfer is a call of `send_file` or a received file from the end of `open` to
`close`. `Start`, `NotCancelled`, `Chunk`, `Finish`, `FinishRow`, `FinishFlag` are the
sender's loop and the receiver's `write`/`close`; `SenderCancelled` is `is_cancelled`
in the loop or in `cancel_poll`; `ReceiverCancelled` is the check at the head of
`write`; `WriteFails` a file error; `LoseConnection` the drop of the session. A
sender's chunk stands for the writes up to its next report (1 %). `requested` is a
history variable: transfers that were running when the user cancelled their name.

Transfers of one name may overlap in any way: a file may be sent to two devices, and
received while it is sent. They then share a row and a flag: the end of one removes
the row of the other, and either may take the flag. `met` is a history variable:
transfers that were busy while another of their name was. What the properties say of a
transfer's own row and flag they say of those not in `met`, also of one that starts
after others that met. `LeftBehind` names the transfers that may leave their row or
flag behind for good: a receiver whose connection is lost, which never calls `finish`,
and one in `met` that a flag stopped, which does not call it either.

`TransferList` has no flags, threads or snapshots. A transfer is `new`, `listed` with
a row and a count of its own, `hidden` once its row was deleted, `shared` when another
of its name is there, `ending` between the end of its row and of its flag, `over`, or
`left`, when its row or its flag may still be there. It begins alone in its name
(`Begin`) or joins another (`Join`); a hidden one changes no row, whatever it still does; the ones that
share write their counts to the one row, if there is one. Only a hidden one stops
early without `finish`, unless it shares its name or one of its name was left before
it (`CutShort`, the flag that was meant for another). The mapping takes the phase from
`pc`, `requested` and `met`, the list from the map; flags, pushes and `is_cancelled`
of a sender, which goes on to `finish`, are stutters.

### SizeAnnounce

One connection. `Announce` is the sender writing its request, `ExecRequest` the
handler that acknowledges and spawns the reader, `RecordSize`/`ReadFails` the reader,
`Open`, `PollFinds`, `PollEnds` the search in `open`. `exec_request` records a size
under the announced name, trimmed as a whole (`Recorded`); `open` looks for it under
what follows the last separator of the path, untrimmed (`LookedUp`). `Trimmed` and
`Base` are the two conversions. For a name like ` a.txt` the two keys differ, so its
open finds nothing and its size stays in the map for a later `a.txt`. A name of blanks
only is not recorded at all, as when the reading fails. `late` is a history variable:
transfers whose poll of 500 ms ended while their announcement was still being read.
The acknowledgement comes before the size is recorded, and so such opens exist,
against `ssh_server.rs:477-478`; their size waits in the map for the next open of that
key. `OpenFindsItsSize` speaks of the keys that are `Undisturbed` by either.

### PeerDiscovery

`adv` is the place in `advertise`; `age` is `PEERS`, with the time since each
peer was heard in periods of 3 s (`Ttl`, 15 s in the code, is 2 periods here);
`toggling` separates the two halves of `set_mdns_enabled`; `heard` is what the
LAN last heard of this device. Packets are *announce*, *goodbye* or *query*,
what the parsers and `record_peer_packet` tell apart. This device's own
announcements come back to it, because the socket joins the group with
multicast loop on (`bind_mdns_socket`); the model of pruning depends on that.
`unsaid` is a history variable: the toggle was turned off after the first
announcement and before `was_enabled` was read; the goodbye is then forgotten,
which `GoodbyeOwed` and `GoodbyeSent` except. A launch that ends before its
goodbye forgets it too.

`saved` is the toggle's line in the settings file, `text` what the UI thread has
put together and is about to write: `SaveToggle` (the toggle) and `SaveOther`
(another key) read the file, `WriteSettings` has emptied and now fills it.
`Restart` ends the app anywhere and starts it as the file says; after a torn
save the file is empty and discovery is on, which `ToggleKept` excepts.

### DnsPackets and DnsWalk

`DnsPackets` has the encoders as operators over bytes. `DnsWalk` is one received
packet: `parse_discovery_response` reads its answers, `response_for_query`
answers its first question, and that answer is received by the next device and
read in turn. `read_name` goes label by label (`ReadLabel`, `FollowPointer`,
`AtRoot`), with the set of positions it was at, so that names that point at one
another are behaviours and not recursion; `skip_name` likewise. Characters are
bytes; of `from_utf8_lossy` and case folding only what labels here can show is
kept. `ReadEntry` reads one entry of TXT data, with `split_once`, `trim` and a later
entry of a key in the place of an earlier one. Its specification is called
`PacketSpec`, so that one module of proofs can extend `PeerDiscovery` as well. `made`
remembers what was sent, so that `ReadsBack` can compare. The addresses, names, kind
and version the program gives its announcements are the constant `Device`.

`TxtRecord` has the TXT data as the code writes them: `b"\x08txtvers=1"`, a length of 8
before 9 characters. The reader takes `txtvers=` for the first entry and the `1` for the
length of the next, 49, which is more than there is, and stops: it never sees `type` or
`version`. `Result`, and with it `ReadsBack`, says what is read - `txtvers` without a
value - and `TypeAndVersionRead` what the comments promise.

### Pairing

`private`, `public` and `token` are the files, each with who wrote it and in which of
the two calls of `generate_keypair`. A worker goes through `regenerate_keypair` and
`build_pairing_info`, one file access per step. `ssh-keygen` is external: it does not
overwrite an existing private key (nobody answers its question) and writes the private
file first. A file is written in one step; a reader that meets a half-written token
file finds no token, as it does just before. `painted` is what the canvas shows: it
repaints when mounted or when its key changes. Clicks come at any time: the button
stays enabled while a worker runs (`settings.rs:19-40`), and the preload may still be
at work. `mixed` is a history variable: a click that finds a worker or a result under
way sets it, and the next that finds none clears it. While it is set the files may be
of different workers and `KeyShown`, `TokenShown` and `GenerateIsFresh` promise
nothing; once it is cleared they hold again, whatever the workers before have left on
disk. `MayFail` lets every file operation and `ssh-keygen` fail. `faults` is a history
variable: what has failed since the last click, *dropped* when the code drops the
error (a removal, the write of the token, the second half of the first `ssh-keygen`;
`regenerate_keypair` and `pairing_token` do so), *noticed* otherwise. After a dropped
error the old key may be shown as if it were new; `KeyShown`, `TokenShown` and
`GenerateIsFresh` except it. `TokenShown` also excepts a token the server made itself:
server and worker look for the file and write it without a lock.

### PairedDevices

A file is a set of lines and the line at its end that has no newline yet; a line is
the sequence of phones whose text was appended to it, since `writeln!` writes text and
newline one after the other and another session may come between.
`ReadKeys`/`AppendKey`/`EndKey` and `ReadIps`/`AppendIp`/`EndIp` are the two
append-if-absent functions, `Authenticate` and `TakePairing` the two looks at the
token in one authentication, `AddKey` and `Reply` the exec request. Tokens are
numbered; making one comes with a new key pair of the server, which a phone checks, so
a phone answers pings only if it scanned the last one. `fresh`, `failed` and `overlap`
are history variables: sessions that connected with the current token, sessions whose
key could not be written, phones whose key shares a line. `RegisteredCanReturn` and
`PairedIsAuthorized` except the last two: the code answers `registered` or goes on to
the address all the same. Of two keys on one line the first may still be read by the
code, since base64 of these keys has no padding (`ssh_server.rs:107`); the model reads
neither, which matters only where overlap is excepted. A connection lost is a session
that takes no further step. `Ping` is one phone of a round, `PingHangs` a phone that
leaves in the midst of a handshake: only the exec has a time-out.

### TreeCopy and ScpSink

`ScpSink` is one session: the peer writes tokens (a line, a byte of contents, a
terminator) and waits for acknowledgements as `scp` in source mode does; the sink is
`scp_receive`, with a step per read, write or file operation. A peer that cannot read
its file fills up the bytes and puts an error line where the terminator was (record
kind `B`); `W` is an error on a line of its own. The sink does not look at the value
of a terminator (`ssh_server.rs:966`): it takes the error byte for one, acknowledges
it, and reads the text of the error as its next line, which ends the session
(`AfterText`). The peer or the connection may go at any time and the disk may fail at
any file. `Clean` is `sanitize_component`: what a name becomes on disk, or `Bad`. It
lets a drive through (`D:x`), and `PathBuf::join` then takes the new path in the place
of the old one: `Drive` holds such names, `Join` does as the code does. `Parent` leads
out of the shared folder when a session ends more directories than it began, as lines
982-989 do. `left` is `remaining`; `partial` the file that is incomplete. Left out of
what a peer sends: empty lines (931-933), lines of more than 8192 bytes (926-928),
sizes that are not numbers, which the code takes for 0 (941), names that are a drive
and nothing else, and those to which Windows gives a meaning (streams, devices).

`TreeCopy` says what a session does to the disk: the records take effect one by one
and in order, and are confirmed after they did. It is not what the user is promised:
nobody is asked before a file is written, and `Root` may be left. The mapping hides
`partial` files; reading, acknowledging and waiting are stutters.

### TransferHistory

`result` is `upload_result`, with the send it came from; `inbox` the values posted;
`timers` the sleeping dismissal threads. `history` and `saved` are how many records of
each name and direction there are: the reducer appends at the end and removes all of a
name and direction, so their order only shows on the page. `Render` runs the effect
when the value differs from the one before. `SaveBegins`/`SaveEnds` are `fs::write`
(truncate, write). `Restart` ends the program anywhere, in the middle of a save too,
and runs `load_history`; after a torn save it loads an empty history. File names hold
neither tabs nor line ends on Windows, so saving and loading give back the same
records. A write that fails (`transfer.rs:69` drops the error) is not modelled: what
it leaves is a file not yet saved or a torn one. `shown`, `removed` and `onDisk` are
history variables: sends whose success was rendered, those whose record was removed
since or was not in the file when the app ended, and those the file holds. A success
equal to the outcome on screen is not a change of the state, and its effect does not
run; the record of an equal success before it stands for both (`SuccessRecorded`),
which is less than a record for each.

## 3. What TLC checks

| run | instance | shows |
|---|---|---|
| `MCUploadGate` | 2 uploads, 1 folder, lost connections | `DecisionIsFirstAnswer`, `RepliesAreTheWaiting`, `GateInv`, `SavedIsRecorded`, `ImplementsConsent` |
| `MCUploadGateReturns` | 2 uploads, no lost connections | `OpenReturns` |
| `MCTransferProgress` | a sender and a receiver of one name, at once or one after the other, 3 chunks | `FlagsHaveTransfers`, `RowsAreRunning`, `CancelledStaysHidden`, `RunningIsListed`, `CancelHasReason`, `CountsNeverShrink`, `ImplementsList`, `CancelStops` |
| `MCPeerDiscovery` | 2 peers, `Ttl` 2, 1 packet of others waiting, restarts | `LateRecordAtMostOne`, `GoodbyeOwed`, `ToggleKept`, `DisabledEmptiesList`, `SilentPeerLeaves`, `GoodbyeSent` |
| `MCDnsWalk` | this program's packets whole, cut off anywhere and with any byte overwritten, compressed questions, all bodies of up to 4 of 5 bytes | `Inside`, `ReadsBack`, `WalkEnds` |
| `MCPairing` | 2 clicks at any time, preload, 1 server call, failures | `KeyShown`, `TokenShown`, `GenerateIsFresh` |
| `MCPairedDevices` | 2 phones, a session of each, 2 tokens, 2 changes of the network, 1 restart | `RegisteredCanReturn`, `StaleTokenRegistersNobody`, `PairedIsAuthorized`, `OnlineSettles` |
| `MCScpSink` | all balanced sessions of up to 4 of 10 different records, and of up to 6 files and folders; all sessions, balanced or not, of up to 4 files and folders on two drives | `InStep`, `NoStandstill`, `LandsInPlace`, `ImplementsCopy`, `BothEnd` |
| `MCTransferHistory` | 3 sends of 2 names, downloads, deletions, restarts | `NoPhantomUpload`, `SuccessRecorded`, `BarGoes` |
| `MCSizeAnnounce` | 2 transfers of `one`, one each of `two`, ` one` and `dir/one` | `NoSizeTwice`, `OpenFindsItsSize` |

`TypeOK` is part of an invariant in the table (`GateInv`, `InStep`) or is proved
(section 4).

Why the bounds are enough: the hazards are races of two, and each run has the two that
race - two uploads in one queue, two transfers of a name, two workers on the same
files, two sessions between an append and its newline, two outcomes in one cell with a
third between them, a packet and the toggle. The second transfer of a name runs beside
the first or reuses the name after a cancel. In `MCPairing` the second click overlaps
with the first and with the preload, or comes alone after those two have overlapped
and has to set right what they left. In `MCSizeAnnounce` two announcements of one
name, one of ` one`, which trims to it, and one of `dir/one`, whose last part it is,
let a size outlive the open it was meant for and meet another. `Chunks` 3 lets writes
of a received file come out of order. Four scp records hold a file of either kind of
error inside a folder with its end; six files and folders two nested folders with a
file behind them; a name that `sanitize_component` trims meets its trimmed twin, and
sessions of four records leave the root by a drive or by an end too many and go on. An
overwritten byte makes every length and pointer of an announcement wrong in turn;
short bodies of 0, 1, 12, 13 and 192 hold every cycle of pointers that fits four
bytes. Two tokens make the first one stale. Lost connections are left out of
`MCUploadGateReturns`: an open they end returns to nobody. One folder is enough, as
folders are only passed on. `MaxBuffer` bounds the packets of others in the socket;
packets beyond it are lost, which the network may do anyway. `MaxHistory` bounds the
recorded downloads of a name, which nothing else bounds; `MaxTokens`, `MaxChanges` and
`MaxCrashes` bound `PairedDevices`. The runs stop (`CHECK_DEADLOCK FALSE`) where every
upload, transfer, click, send, packet or session has been used up; `MCPeerDiscovery`
never does.

Two runs expect a violation; `PROJECT.json` quotes the comments.
`MCUploadGate_NoUploadSkipped`, with connections that may be lost: `fail_upload`
withdraws an upload whose dialog is still shown; the user answers that dialog, and
`advance` drops the front of the queue, which is the next upload, unanswered, while
its comment says it drops the one the user decided. `MCDnsWalk_TypeAndVersionRead`: of
a whole announcement the reader gets neither the kind nor the version of the device,
which the TXT record is said to carry.

### Where code and comments differ

Found while modelling; each is an exception in the property named, or follows from the
definition named:

- a receiver that is cancelled and then loses its connection leaves its flag, which
  cancels the next transfer of that name (`transfer_progress.rs:24-26`, `85-86` say it
  cannot): `Left` in `CancelHasReason` and `FlagsHaveTransfers`;
- two transfers of one name at once share a row and a flag, so one may take the cancel
  meant for the other, and a sender that was cancelled may go on, against
  `transfer_progress.rs:70-73`: `met` in `CancelHasReason` and `CancelStops`;
- two overlapping clicks on Generate can leave a QR on screen that is not the key on
  disk, against `ssh_pair.rs:155-156`: `mixed` in `KeyShown`, `TokenShown` and
  `GenerateIsFresh`;
- a file delivered again while its first result is still shown has no record of
  its own (`main.rs:200`): `SuccessRecorded` lets one record stand for both;
- the acknowledgement of an announcement precedes the recording of its size
  (`ssh_server.rs:477-478`): `late` in `OpenFindsItsSize`; the reply "ok" that
  `announce_size` is said to get is never written;
- the size is not in place either (`ssh_server.rs:477-478`) for a name with a blank
  at an end or a separator in it: it is recorded trimmed as a whole (501) and looked up by its
  last part, untrimmed (709-720), and stays behind for another file: `Undisturbed` in
  `OpenFindsItsSize`;
- the repository's `README.md:132-133` says that incoming files are only written after
  you confirm and pick a folder. Over SFTP an upload that comes before the window is
  there is written unasked, as `ssh_server.rs:735-737` says: `Bypass` in
  `UploadConsent`. Over scp nobody is ever asked: `TakeEffect` in `TreeCopy`;
- `scp_receive` is said to write files into `root` (`ssh_server.rs:898-899`). A
  session that ends more directories than it began leads above it (982-989), and a
  name with a drive leads to that drive (885-895, 948, 977): `StaysInside` in
  `LandsInPlace`;
- it is said to implement the OpenSSH sink protocol (`ssh_server.rs:898-899`), but
  acknowledges the error byte that a peer sends in the place of a terminator (966) and
  takes the file, which that peer could not read, for received: `AfterText` in
  `InStep`, and kind `B` in `TreeCopy`'s `Effect`;
- the "one-time" pairing token (repository `README.md:59-61`) registers as many phones as
  scan it until it is replaced: `StaleTokenRegistersNobody` speaks of replaced
  tokens only;
- a phone that leaves in the midst of a handshake stops the online rounds for
  good, which `main.rs:149-151` does not expect: `open_ssh_session` has no
  time-out, and `OnlineSettles` excepts `stuck`;
- a crash in the midst of a save empties the settings file and turns discovery
  on again: `ui # "idle"` in `ToggleKept`.

What the models also allow, and no property denies: snapshots of the queue or of the
transfer list that cross on their way to the UI (`push_queue`, `push`), so that an old
one stays on screen, and brings back the dialog of an upload that was withdrawn; a
dialog that stays up for an open that has timed out (`remove_upload` leaves `PENDING`
alone); a record of a download whose picker was cancelled; a bar taken down by the
timer of an older outcome; two clicks within one render that carry one generation, so
that the second result is not painted until the next click that overlaps with no
worker.

### Fairness

Only what the scheduler gives: a thread that can take a step takes one.

- `UploadGate`: weak fairness of every server thread once its open was submitted,
  and of the UI thread for the work it has begun; none of the user, of the peer
  or of the network.
- `TransferProgress`: weak fairness of the 100 ms poll and of `finish` and
  `push`, none of chunks, so `CancelStops` holds for a peer that never answers.
- `PeerDiscovery`: weak fairness of the advertiser, of the refresh thread, of
  the UI thread in the midst of a change, and of time; none of packets from others.
- `TransferHistory`: weak fairness of the dismissal threads and of saves, and
  strong fairness of `Render`: the UI thread serves a queue, so other events delay
  a posted value but do not keep it from being rendered; nothing makes
  `load_history`, clicks or sends happen.
- `ScpSink`: weak fairness of the sink's task and of the peer's, which may also
  end at any time.
- `DnsWalk`: weak fairness of the one thread that reads.
- `PairedDevices`: weak fairness of the thread that checks; none of phones and
  sessions.

`Pairing` and `SizeAnnounce` have safety properties only.

## 4. What is proved

TLAPS proves the following for every value of the constants that satisfies the
named `ASSUME` of the module; `PROJECT.json` lists the theorems. In each proof a
conjunction of named parts is shown to be inductive, one step per action.

**UploadGate**: `GateInvariant`, with type correctness and the safety invariants
as consequences, and `GateImplementsConsent`. `DecisionIsFirstAnswer` is not
inductive: what `Receive` takes is the head of the channel, so the channel must be
known to hold what the user said (`ChannelHoldsAnswers`). That needs the reply
channel to be registered while the open waits, or an answer would get lost and a
later one come first (`RepliesAreTheWaiting`), and that nothing was said about an
upload before it waits: an upload becomes known to the user only through
`PENDING`, a snapshot, the setter's queue, the screen, the dialog or the picker
(`OnItsWay`), and it enters `PENDING` at its submission
(`UnknownUntilSubmitted`). `UndecidedBefore` closes the circle. For the
refinement, `Seen(u)` is what the abstract specification sees of upload `u`;
actions that leave it alone for every upload are stutters (`ConsentStutter`), the
others move one upload. `SavedRecorded`: `SavedIsRecorded` holds because the
dialog records the upload before it sends the answer, so what has to be carried
along is that an acceptance anywhere on its way - in `answers`, and from there in
the channel and in the decision - has its record already (`AcceptedIsRecorded`).

**TransferProgress**, for any transfers that overlap in any way: all its state
invariants, `CancelHasReason` and `CountsNeverShrink`. `ProgressInv` adds to the
invariants that transfers of a name that are busy together are in `met` (`HaveMet`),
facts about one transfer (`Steady`), and that a flag that meets a running transfer
outside `met` was meant for it, if none of its name was left behind (`FlagHasReason`):
`FlagsHaveTransfers` alone says that some transfer of that name is there, not that it
is the one the user cancelled. It is inductive because a transfer outside `met` is the
only busy one of its name, so that whoever else touches its row or flag is the user.
`CountsGrow` is a property of steps: only a chunk changes the count of a row that
stays, writes of a received file come in any order, and `ChunkGrows` shows that the
count a chunk reports is not below that of the row, which `RunningIsListed` knows to
be the transfer's own. `ListImplemented` is the refinement of `TransferList`, one
lemma for each action that the list sees. It needs `ProgressInv` where the code looks
at the map and the list at the transfer: an `update` writes the row of its own
transfer (`RunningIsListed`), none after a deletion (`CancelledStaysHidden`), or the
row it shares, and a flag that stops a received file was meant for it, for one it
shares its name with, or for one that was left (`FlagHasReason`).

**TransferHistory**: type correctness, `NoPhantomUpload` and `SuccessRecorded`, for any
number of sends, finite or not, and any names. `HistoryInv` needs three things the
properties do not say. What is posted is in order (`Posted`): a value in the inbox
names its send, no send has two outcomes waiting, and a success that waits has not
been shown. What is on screen was shown (`Shown`); so when an equal success comes
next and its effect does not run, there is an earlier delivery of that name, with the
record that then stands for both. And a restart trades the history for the file, so
what holds of the one against the deliveries still recorded must hold of the other
against the deliveries in the file (`FileCounts`, `FileRecords`), also while the file
is empty in the midst of a save. The counts are compared with cardinalities, so the
library's facts on adding to and removing from a finite set carry the steps.

**SizeAnnounce**: `NoSizeTwice` and `OpenFindsItsSize`. `AnnInv` keeps the order of
sender, request and reader (`InOrder`), one transfer of a name at work (`OneActive`),
a size in one place only (`OnePlace`), and, for keys that are `Undisturbed`, that the
size in the map is the active transfer's (`CleanSize`). Two lemmas carry the
conversions: where the keys of a transfer are the same, they are its name (`OneName`),
so all that have touched an undisturbed key have the same name (`NoStranger`).

**PeerDiscovery**: `GoodbyeOwed`, `LateRecordAtMostOne`, `ToggleKept`. The
invariant says what `was_enabled` remembers at each place of the loop
(`Remembers`), that with the toggle off the cache is empty until the one packet in
hand is recorded (`NoneBeforeLast`), and that file and toggle agree when the UI
thread rests (`SaidInFile`).

**DnsWalk**: `Inside`, for packets of any bytes and any length, and `ReadsBack`, for
any device (`DeviceConstants`: no empty label, texts and answers short enough for their
length fields, and a TXT record shorter than the length of 49 its reader takes the `1`
for), any announcement or goodbye of it, any beginning of one, and the answer to any
question of any bytes. `ReadsBackInv` says where the reader is in the packet it was
sent - `s`, of which what was received is all or the beginning - and what it has
collected there: `Reading` has a conjunct for each place in the code. After n answers
the position is `AnswerAt(s, answers, n)` and what is collected is what the reader of
the first n would have (`Read`); in a name it is at the end of its first j labels and
has these (`NameAt`); in TXT data at the first entry or behind it. `Framed` is what the
encoder promises about `s`. Three groups of lemmas lead there. `Joined` and `Placed`
(one piece lies in another from a position on) say where each length, label, field and
record lies in what `FlattenSeq` puts together, however many there are; so the encoder
is never unfolded twice. `NameStarts`, `NameGoesOn` and `NameNeverFails`, `RecordReads`,
`FirstEntryRead` and `EntriesRead` carry one step of the reader over one piece.
`SkipReads` and `QuestionAnswered` are about the question an answer echoes: `skip_name`
of the device that gets it must find the same end as `read_name` of the one that
answered. The reader of the question may have followed pointers; `Trail` therefore
remembers the labels it read before the first one, and `SkipSet`, made from it, holds
every position `skip_name` comes to. The case that shows why: a label byte 64 to 191 is
a length to both, and a pointer ends both.

These lemmas need induction over data, which the library's induction theorems do not
give here. `Induction` does, for a set in the place of a predicate: its complement
would have a least element, by `WFMin`, the theorem of the library on well-founded
relations that takes no operator. `FlattenSeq` is defined by a recursive function; that
such a function exists is proved the same way (`Flattens`), and the lemmas on `Joined`
are all that is used of it.

**Pairing**, for any number of clicks and server calls, clicks at any time and any
failures: `KeyShown`, `TokenShown`, `GenerateIsFresh` and `PaintedIsPairing` (which
only the proof checks). Two parts of `PairingInv` hold however clicks overlap: the
canvas has the generation of the page (`PaintedOfPage`), and a click's removals come
before the first of its two calls of `ssh-keygen` (`StartsOver`). They are what a
click that finds the workers at rest needs to restore the others, which hold unless
`mixed` (`Alone`). `Serial` says that one worker or its result is under way, one
generation ahead of the page; `Phase` what the files hold at each place of a worker,
unless a failure was dropped; `Fresh` where a click's own key is; `Posted` carries
this on to the result in the inbox and on the page; `PaintedUpToDate` needs the
generations to show that the canvas repaints.

**PairedDevices**: its three safety invariants. `TokensAge` orders the tokens: one
that is current now was current when the session connected. `KeysKept` follows a
key from the append to the reply; lemmas on lines say what an append and a newline
do to what is read from a file.

**ScpSink**: `InStep`, `NoStandstill` and the refinement of `TreeCopy`. `InStep` is
inductive as it stands, and large: `Framing` (what the sink is about to read is what
comes next), `Turns` (whose turn it is, for every place of both), `Counts` and
`Writing`. `LandsInvariant` shows `LandsInPlace`, which defines the folder of a record
by counting the directories begun and ended before it, where the sink only appends and
removes names at the end of `current`. `InPlace` says that the two agree at the record
that is read next. It rests on `Nest`: inside each directory around a record, and in
the session as a whole, as many directories began and did not end as are still around
the record, and those around it can be counted through from the outside. `NestPlain`,
`NestEnter` and `NestLeave` carry `Nest` over one record (the directory that ends is
the innermost one), `PlacePlain`, `PlaceEnter` and `PlaceLeave` what this does to the
path; so the induction over the session is the one over the steps of the sink, and
needs none over data. Nothing is assumed of the session: `LandsInPlace` speaks of it
up to the record that leads out of the shared folder (`StaysInside`), and up to there
it has ended no more directories than it began. `ScpConstants` assumes that the name
of a drive (`D:`) is no name of a folder.

Only model-checked: liveness (fairness and ENABLED are out of the prover's reach:
`OpenReturns`, `CancelStops`, `DisabledEmptiesList`, `SilentPeerLeaves`,
`GoodbyeSent`, `BarGoes`, `BothEnd`, `WalkEnds`, `OnlineSettles`). All other properties of
the passing runs are proved.

## 5. Not modelled

- **Explorer** (`view_data`, `search_suggestions`, `search_best_index`, double
  press): directory reads and view state of one thread; the sends it starts are in
  `TransferHistory`. Read, not modelled: `selected_index` is an index into the
  listing and outlives a change of the folder, so it may name another entry; a
  suggestion that is chosen selects the best match for its text, which may be
  another entry; a third press within the interval counts as another double press
  and opens one more level.
- **SSH listener** (`run_server`, host key, ports) and `resolve_path`: library
  calls, string work.
- **SFTP requests without state of the session** (`realpath`, `mkdir`, `stat`), file
  contents and handles.
- `parse_response` and `resolve` of `mdns.rs`, which the app does not call; the
  announcement-only fallback when the port is taken; `log_snapshot_change`.
- A write of the settings file that fails: the toggle is then not kept, and nobody
  is told.
- The runtime's worker pool, which `recv_timeout` in `await_decision` blocks.
- Rows and cards of the pages, QR encoding and drawing, taskbar flash, controls,
  the shell's window and navigation: views without state.

What could follow: the gate and the progress table composed into one received file,
from its announcement to `close`; an abstract specification of the paired devices, and
that `PairedDevices` implements it.
