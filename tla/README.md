# ferropipe-rdp: a TLA+ model of the client

ferropipe-rdp is an RDP client in Rust: TLS, NLA (CredSSP with NTLMv2), the MCS
connection sequence, fast-path graphics and input, and the first pieces of
dynamic channels, EGFX graphics and the UDP sideband. This directory holds TLA+
modules translated from that source, TLC configurations that check them on small
instances, and proofs checked by TLAPS. Source paths below are relative to the
crate (`src/…`, `examples/…`).

## The system

| Component | State | Operations | Interacts with |
|---|---|---|---|
| Transport, `tls.rs`, `x224.rs`, `nego.rs`, `tpkt.rs` | TLS stream, selected protocol, peer key, the socket's read timeout | connect, send/recv, poll_frame, set_read_timeout | used by every phase on the session thread |
| NLA, `nla/*` | NEGOTIATE bytes, entropy, security context (two RC4 handles, two sequence numbers) | start, process_challenge, process_pubkey; seal, unseal | run_nla in `session.rs` carries its TSRequests over the transport |
| Connection sequence, `connection.rs` with `mcs/*`, `gcc.rs`, `caps.rs`, `pdu.rs`, `info.rs` | none across calls; builds Session (user id, channels, share id, multitransport request) | establish and its five phases | PduTransport |
| Session, `session.rs` | transport, Session, Display, optional UDP tunnel | connect, pump, send_input, enable_udp | viewer |
| Display, `graphics/update.rs`, `fastpath.rs` | framebuffer, cursor, dirty flag, fragment buffer | apply, apply_all | pump |
| Codecs, `graphics/{bitmap,rle,planar,pointer,framebuffer}.rs` | none but the pixels | decode, blit | Display, EGFX |
| Viewer, `examples/viewer.rs` | SharedFrame behind a mutex, mpsc queue of input, texture | session thread, `ui` of each repaint | session |
| Virtual channels, EGFX, `vchannel.rs`, `dvc.rs`, `egfx.rs` | reassembly buffer; surfaces and their mappings | push; parse, apply | no session calls them yet |
| UDP sideband, `multitransport.rs`, `emt.rs`, `udp_tunnel.rs` | the tunnel's TLS stream | detect, open_udp, establish, send/recv | wait_for_demand_active, enable_udp |

What is hard in it: a strictly alternating protocol read by one blocking thread,
with a server free to interleave unsolicited PDUs (skip limits, both sides
waiting, counting the wrong PDU); a security context whose two counters move at
different points of one function; timeouts that are switched on and off around
phases; fragments reassembled across frames; two threads that share a frame and a
queue; failure half-way through each of these; and conversions whose length fields
are narrower than what they count, whose orders carry state into the next order, or
whose rows are padded and stored upside down. `PROJECT.json` lists these hazards
with their source lines, and for each the properties that cover it.

## Modules

**Sspi** (operators only) is `nla/sspi.rs`. A handle is the key it was built from
and its position in the keystream; a sealed blob records the key, the sequence
number and the position it was sealed with. `AfterUnseal` keeps the detail that
matters: decryption and checksum move the handle *before* the comparison, the
sequence number only after it. The cryptography is ideal: a checksum verifies
exactly if key, sequence number, position and bytes agree.

**SspiChannel** lets two contexts of opposite roles seal for each other and open
any blob either of them ever sealed, any number of times, altered or too short. The
sequence numbers wrap; a side is at most `SeqMod` (2^32) messages ahead of its peer.
**SspiChannelProofs** holds its theorems.

**CredSsp** is `nla/client.rs` on top of Sspi. The three public methods are called
in any order and any number of times; the peer (external) knows the password or
not, and binds its answer to this TLS channel's key or to another one.
**CredSspProofs** holds its theorems.

**ConnectionSequence** is `connection.rs`. Each action is the code between two
returns of `recv`. The parsers appear under their source names as the set of PDUs
they accept: `parse_send_data_indication` does not compare the channel and
`parse_share_data` looks at neither PDU type, and `finalization` inherits both.
The server (external) answers in order, may confirm a channel under another id
(`Renames`), interleaves stray PDUs, reactivates the share, refuses, sends garbage or
closes. `out` and `log` are complete histories
of the two directions of a reliable ordered stream; `taken` and `got` are the
read positions. **ConnectionSequenceProofs** holds its theorems.

**SessionConnect** composes CredSsp and ConnectionSequence (both by INSTANCE) into
`RdpSession::connect`: TCP, X.224, TLS, `run_nla`, `establish`. `stage` is the read
the thread is blocked in and `read_timeout` whether the socket would end it. What the
server selects is any set of protocol bits (`Selections`), asked for or not.
**SessionConnectProofs** holds its theorems.

**Display** (operators only) is `graphics/update.rs`: a payload is the sequence of
pieces it was sent in, so a wrong reassembly is a different payload. A code says
what `process` makes of its payload, including that it does not decode and that
a decoder panics on it.

**FifoDelivery** is an abstract specification: two ends of a channel, messages taken
in at one and handed out at the other, in order, each once and whole. Three modules
implement it, each by an INSTANCE that says what is taken in and handed out:
SspiChannel (`DeliversInOrder`: what each role seals, and what the other unseals),
UdpTunnel (`ReceivesInOrder`: the payloads the server writes, and what `recv_pdu`
returns) and Viewer (`ReassembledWhole`: the updates the server completes, and what
`apply` hands to `process`).

**Viewer** composes the session thread (`connect`, the `try_recv` loop, `pump`,
`poll_frame`, `read_frame_body`), the UI thread (`ui`) and a server that cuts its
updates into fragments and frames at will and also sends NEXT and LAST fragments that
belong to no update. An access of the SharedFrame is one
step because the mutex makes it one. The session thread ends in one of two ways: with
an error that it publishes (`Ends`), or by the panic of a decoder (`Unwinds`), which
nothing catches and which leaves `SharedFrame.error` as it was, so that the window goes
on showing the last frame. **ViewerProofs** holds its theorems.

**UdpTunnel** is `enable_udp`, `udp_tunnel.rs` and `emt.rs`. Every call of
`enable_udp` is a connection of its own, a byte stream each way; rdpeudp and TLS
below it are external. PDUs are bytes, because what can go wrong is their framing:
`tunnel_pdu` cuts the length to its field and writes the body whole, the reader
takes four bytes and then as many as they announce. The server (external) binds or
refuses a tunnel, stays silent, sends data with subheaders, PDUs of other kinds and
a header too short to be one, and a connection can break at any point.
**UdpTunnelProofs** holds its theorems and the lemmas about streams of frames they
rest on.

**VirtualChannel** and **SurfaceStore** (operators only) are `vchannel.rs` and the
commands and store of `egfx.rs`. **GraphicsChannel** composes them with the dynamic
channel PDUs of `dvc.rs`: a server sends a message in any number of chunks of any
length and may give it up after any of them, the client answers and sends data of its
own. What the client returns an error for is kept in two sets: `FaultyChunks` is against
the protocol, `ForeignChunks` is within it, bits in a codec that `decode_surface_bits`
does not decode (`egfx.rs:270`). A mapping of a surface that does not exist is among the
first; the client takes it, and nothing is claimed of the store afterwards. No session of
the crate drains these channels yet; the loop that does (`receive_chunk`,
`Handle`) is the crate's user, external, and stops at the first error.
**GraphicsChannelProofs** holds its theorems.

The conversions have a module each, byte for byte, and against the other side
(external), which keeps what it meant. **Codecs** puts them side by side, with
SspiChannel and CredSsp, whose contexts convert too; a behaviour is about one of them.

* **Rle** is `graphics/rle.rs`: an action per kind of order, a step per turn of the
  loop. The encoder chooses any orders in any of their header forms; `image` is what
  they mean, with the row above the first taken as black for the whole of an order that
  begins on the first row, also where it runs on into the second. A picture may be longer
  than the bitmap: `PictureDecoded` is about those that fit, `BadRectSkipped` about all.
* **Planar** is `graphics/planar.rs`: a step per control byte of an RLE plane. One
  plane, any of them, is cut into literals and runs freely; the others are flat.
* **Screen** goes from the payload of a bitmap or pointer update to the pixels of the
  framebuffer or the cursor: `bitmap.rs`, `framebuffer.rs`, `pointer.rs`. The two
  codecs appear by what Rle and Planar show of them, a panic included. The server pads
  the rows of a raw bitmap to four bytes and gives 32-bit cursors an alpha of their own.
* **Octets** is byte strings as sequences of runs, so that payloads of 64 KiB cost
  nothing, and **Asn1** the encodings of `mcs/ber.rs`, `mcs/per.rs` and `nla/der.rs`
  on them. **Wire** takes one PDU through them: MCS Send Data, Connect-Initial and
  Connect-Response with their GCC wrapping, X.224 Request and Confirm, TSRequest and
  fast-path output are built, framed, read off the stream, unwrapped and parsed, and
  may lose their end on the way.
* **NtlmMessages** is the three messages of `nla/ntlm.rs` and the client's answer to a
  CHALLENGE: security buffers, target information, responses and the MIC. A digest is
  the tuple it is taken over.
* **InputEvents** is `input.rs`: a batch of events as a PDU, and the server that counts
  and reads them. An event that repeats is kept once, with how often it comes and how
  many events and bytes come before it. **CodecsProofs** holds its theorem.

## Runs

| Run | Checks | Bounds |
|---|---|---|
| `connection_sequence` | joined channels, skip limit, first multitransport request, one share id; termination; a cooperating server gets a session; the inductive invariant | MAX_SKIP = 4 instead of 16 (the least for which finalization can read its four PDUs), 4 stray PDUs so that the limit is reached and missed by one, 2 Demand Actives, 1 PDU in flight; a server with one virtual channel, confirmed under another id, and one with two, one of them the user channel, and a message channel |
| `session_connect` | no MCS PDU and no credentials before NLA; credentials exactly when the HYBRID bit is selected; timeouts fit the stage; a silent peer ends the handshake | selections RDP, SSL, HYBRID, HYBRID_EX and the last two together; 3 CredSSP calls, 1 stray PDU, 1 Demand Active |
| `viewer` | the display implements FIFO delivery of whole updates; published frame current; window catches up or shows the error, and input is delivered in order, unless a decoder panics | see `MCViewer.cfg`: bitmap updates that paint, fail or panic; 3 updates of up to 3 fragments, enough for an abandoned update, a whole one inside a fragmented one, fragments in two frames, and stray fragments before, between and after |
| `udp_tunnel` | the tunnel implements FIFO delivery downstream; the server gets what was sent up to the first PDU too long for its length; the session is only on bound tunnels and keeps its tunnel when a migration fails; enable_udp returns | a length field of two base-3 digits, so that a 9-byte PDU is the first too long (its bytes read as tunnel PDUs), 2 migrations, 3 PDUs |
| `graphics_channel` | messages reassembled whole and in order, sent messages received under their id, no error but for what is against the protocol or in a codec that is not decoded, the store shows what the server means | from the client chunks of 2 units and messages of 1 to 4, so that a message fills a chunk exactly, by one more, and twice; from the server messages of 1 and 2 units in any number of chunks, so that there are first, middle and last ones, empty ones too; byte base 2 with the last id of one width and the first of the next two; 1 surface, 2 places, 2 paints, one faulty chunk; no bound on the number of messages |
| `codecs` | the conversions: RLE and planar pictures, screen and cursor come out as they were meant; PDUs, NTLM messages and input batches mean to their reader what their writer put in; what is cut is an error; no panic but where stated below. SspiChannel: the channel implements FIFO delivery, the next message is always accepted, a mismatch is final, the inductive invariant. CredSsp: credentials only for a peer bound to this channel, no keystream reuse, the inductive invariant | pictures of up to 40 pixels, 3 RLE orders on a 2-pixel wide bitmap so that every order meets the end of the first row, every header form (run lengths at 8, 9, 33), planar rows of 2, 3 and 36 pixels (run codes from 16 and 32); a 3x3 screen with rectangles over each edge; lengths on both sides of every change of form (127/128, 255/256, 0x3FFF/0x4000, 65531 and its framing, 222 characters, 15/16 and 255/256 events, 2^15 bytes), characters above a byte; modulus 2 with 3 messages each way of two lengths, so that the third is sealed and opened under the number of the first, and 3 unseal calls per side; 6 CredSSP calls and 3 replies of the peer |
| `finalization`, `channel_ids`, `connect_returns`, `viewer_input`, `viewer_button`, `bad_rectangle` | violated: see below | |

One PDU in flight (`MaxUnread = 1`) loses no behaviour of the client, which cannot
see how far ahead the server has written; `finalization` uses four. In
`graphics_channel` it bounds the chunks in flight each way; any number of them is in the
proofs. Deadlock is
not checked because each system really stops: the sequence ends active or failed,
and the bounds end the others. That it does not stop too early is what the
liveness properties say.

Fairness. The client's thread runs when its read can return, and a read with a
socket timeout returns. In `connection_sequence` the server is assumed to answer
and to open the share, which is what "nobody waits for ever" is relative to; in
`session_connect` nothing is assumed of the peer. In `viewer` a pump that can go on goes
on and the UI repaints; that the server takes what is written to it, so that a write
ends (`WritesEnd`), and that it completes the frames it begins are hypotheses of the
properties that need them. In `udp_tunnel` the
thread makes progress, its SYN timeout included, and a server that has
acknowledged the SYN reads what it is sent; without that last assumption
enable_udp need not return, since only the SYN has a timeout. The UI repaints
because each `ui` call that shows no error requests another. `connect` carries no
fairness in Viewer, because `connect_returns` shows it need not return.

### Disagreements with the documentation

* `finalization`: the comment says that Synchronize, two Controls and the Font Map
  are drained; the code counts any four share data PDUs, so a Set Error Info among
  them leaves the Font Map unread when establish returns.
* `channel_ids`: the comment on `Session.channel_ids` says that it holds the ids of the
  joined virtual channels; the code adds the id confirmed for the message channel, and
  leaves out a virtual channel with the id of the user channel. `JoinedInOrder` says what
  the field does hold.
* `connect_returns`: the comment in `tls.rs` says the session phases manage their
  own read timeouts; `connection.rs` sets none, and a peer that falls silent after
  the handshake holds connect for ever.
* `viewer_input`: poll_frame is documented to wait at most its timeout; only the
  first byte is covered, and a frame begun and not completed blocks queued input.
* `viewer_button`: the viewer says it forwards the mouse; it sends presses and
  moves, never a release, so the remote button stays down.

* `bad_rectangle`: the comment in `update.rs` says that a bad rectangle is skipped, so
  that it cannot blank the session; RLE orders that draw past the end of the bitmap
  index out of bounds in `rle.rs`, and the session thread ends without a word.

The conversions disagree with their comments, or with the notes on the protocol in the
repository, in more places. The properties of `codecs` claim nothing there, and say so:

* A planar picture without rows panics too, in `decode_rle_plane` (`PlanesDecoded` is
  about pictures with rows). `egfx.rs` reaches the same code from a surface command.
* `planar.rs:10` says the lossy modes return an error, and `decode` decodes them, with
  red and blue the other way round than `SPEC-NOTES-graphics.md:606` has them. The model
  does what the code does; `PlanesDecoded` is about the lossless modes.
* A run that follows a segment with literals and has none of its own repeats their last
  byte; the notes (lines 590 and 702) infer a zero. The encoder of Planar writes such a
  run only where both are the same.
* The notes (lines 274-275) pad the rows of a raw bitmap to four bytes; `to_rgba` reads
  them without, so a padded one is sheared. `ScreenAsSent` says nothing of the places
  under such a rectangle, only that it disturbs no others.
* The notes (line 668) take the transparency of a 32-bit cursor from its pixels,
  `decode_masks` from the mask alone: `CursorAsSent` sends the same in both. It reads a
  15-bit cursor as 5-6-5, unlike `to_rgba`: of its colours nothing is said.
* `per.rs:9` says longer lengths are not emitted; from 0x4000 on a form is written
  that `read_length` rejects. An Attach User Confirm of 64535 or more overflows
  `domain.rs:59`, and a user name of more than 222 characters the length indicator of
  the Connection Request (`MessageArrives`).
* A CHALLENGE of 12 to 23 or 40 to 47 bytes panics in `ntlm.rs`, between its two length
  checks. Target information is copied as it came, as the notes on NLA say in lines 180
  and 237 and not as in line 142, which adds a flag (`AuthenticateArrives`).
* An empty batch of input is a PDU without a count, a batch of more than 255 events
  announces too few, and one of 2^15 bytes or more announces the wrong length
  (`EventsArrive`). The viewer batches what a repaint finds, a mouse event and two events
  for each character typed, and never sends an empty batch; its model has the mouse event
  only.

A panic of a decoder in the session thread is seen by nobody: `SharedFrame.error` stays
empty and the window keeps its last picture. `EventuallyShown` and `InputDelivered` have
that as an outcome of its own. A write of the session thread may block as long as the
server does not read, and input waits behind it; `InputDelivered` and `InputNotBlocked`
assume that it reads.

## Proofs

Every theorem holds for all values of the constants that satisfy the named
assumptions of the modules. No safety property here is inductive as it stands;
each is a consequence of a strengthening `IInv` (`SealIInv` in SspiChannel) that the proof
module shows to hold initially and to be kept by every action. The runs `codecs` and
`connection_sequence` check it as an invariant too. Those of UdpTunnel,
GraphicsChannel and Viewer say that some sequence of frames, of reassembler states or
of fragments exists, which TLC cannot enumerate: there the runs check only what follows
from them. Those of SessionConnect and InputEvents are proved and not checked a second
time.

**Sspi** (`SeqMod` positive). The proofs of the two modules on top of it begin with the
same lemmas: a sequence number that is the residue of a count stays so across
`wrapping_add`, and `seal` and `unseal` keep a context well typed.

**SspiChannel** (`SealIInv`, `AcceptedIsPrefix`, `NextIsAccepted`, `MismatchIsFinal`,
`DeliversInOrder`), for any modulus and any number of messages.
`SenderInv` ties a context's position and sequence number to the number of
messages it has sealed, and lays its blobs end to end along its keystream;
`ReceiverInv` says that a context stands at the message it expects as long as no mismatch
occurred, and strictly beyond it afterwards. A number comes back every `SeqMod` messages,
so the number alone does not tell which message a blob is: two blobs with one number are a
modulus apart (`ModWindow`), and their places in the keystream differ. The guard of `seal`,
at most a modulus of messages ahead of the peer, is what the code's 2^32 stands for: after
a mismatch the position runs ahead while the number stands still, and a message a whole
modulus later could agree with both.
`InOrder` is the refinement: a seal is a message taken in (`SealSends`), an unseal
that succeeds hands out exactly the next one (`UnsealDelivers`), because by
`ReceiverInv` only the blob sealed at the receiver's position verifies, and every
other step, a rejected token included, leaves both ends alone.

**CredSsp** (`IInv`, `TypeOK`, `CredsOnlyForBoundPeer`, `KeystreamNotReused`), for
any number of calls, any set of keys and any modulus, wrap included. `LayoutInv`
says that what the client has sealed lies in fixed slots of its keystream: the
public-key hash first, then the credentials, with the sequence number the slot
determines. A second `process_challenge` therefore seals the same hash over the
same bytes, and nothing else. `RolesInv` fixes which role sealed a blob, so that
the client does not take its own hash for the server's.

**ConnectionSequence** (`IInv`, `TypeOK`, `ShareAgreement`, `SkipLimitExact`,
`FirstRequestWins`, `JoinedInOrder`), for any `MAX_SKIP` of at least 4, any offers and
ids, any number of channels and of stray PDUs, Demand Actives and PDUs in flight.
`ReadInv` counts what has been read at each call of `recv`; `ShareInv` says that before
the share is open no share PDU has been sent and no Demand Active read, and that
afterwards one has been read since the joins, which is why later PDUs change neither the share id
nor the request; `RequestInv` says that requests carry an id, so that "none yet"
and "the first" cannot be confused. `JoinedInOrder` compares two histories from their
beginnings, and neither says which PDU answers which. `JoinInv` does: `OutInv` says what
the client has sent at each read, so that its n-th PDU is known; `AnswerInv` that until
the joins are over the server has sent what it owes and, unless it is garbage, nothing
else, so that its k-th PDU answers the k-th request; `ChannelInv` that the client got
past no garbage and kept what it read. A garbage PDU shifts all answers after it, and
the invariant survives because the client fails at it.

**SessionConnect** (`NlaBeforeSession`, `CredentialsMatchSelection`,
`TimeoutsMatchStage`). `RunsCredSsp` and `RunsConnectionSequence` show that a session
runs both exchanges by their own specifications, step by step; `SessionCredentials`
and `SessionShare` then carry what is proved of the exchanges, `JoinedInOrder`
included, over to the session.
The session's own properties need `StageInv`: nothing is sealed and no PDU is out
before the server's selection is known, `run_nla` is entered under HYBRID only, and
under HYBRID the credentials have been handed over before the first MCS PDU. The last
of these is what the code's order of calls ensures and no single stage shows.

**UdpTunnel** (`TypeOK`, `OnBoundTunnel`, `DeliveredUpToOversize`,
`FailedMigrationKeepsTunnel`, `ReceivesInOrder`), for any base of the length field,
any PDUs and subheaders and any number of migrations. Neither end of a stream keeps
the boundaries of the PDUs, so the invariant has to: `DownInv` and `UpInv` say that
from the reader's position the stream is a `Chain` of whole frames, each with the
number of payloads handed out before and after it. A frame written goes on at the
end of the chain, and what `read_pdu` takes by its length field is the first frame,
because the field holds every length below its modulus (`LengthDigits`). Upstream
the chain ends at the first PDU too long for its field (`Derailed`); before it the
server has heard exactly what was sent. `ThreadInv`, `FreshInv` and `GotInv` say which
tunnel a call is on, that tunnels to come are empty, and that what was handed out is
what was written first. `DownstreamRefinement` is the refinement of FifoDelivery.

**GraphicsChannel** (`MessagesWhole`, `SentArrives`, `CleanServerNeverFails`,
`StoreFollowsServer`), for any chunk length, any base of the id bytes, any payloads,
surfaces and places and any number of chunks in flight. A reassembler does not say of
which message it holds the beginning, and the client's store is behind the server. The
invariant looks ahead: `Trace` says that the chunks on their way take the reassembler
through states in which it rejects none and completes exactly the messages its side
has yet to receive; `Shows` says that those messages take what the store shows
(`Image`) to what the server means. `ChunkTraced` shows that `chunk` cuts any message
into such a trace, `PushPiece` that a FIRST piece is taken in any state, which is why
an abandoned message does no harm; `CommandShown` that each command does to the store
what it does to the meaning, and `IdFits` that `cb_chid_for` leaves room for the id.
A message the server is in the middle of is a trace that ends with its reassembler
holding what has been sent (`Ready`), and a chunk of any length goes on from there
(`TransmitStep`). The assumption on `Payloads` only says that they consist of units.

**Viewer** (`TypeOK`, `PublishedIsCurrent`, `ReassembledWhole`, and `InputKept`, which
is the safety half of `InputDelivered`), for any updates, any number of fragments,
frames and stray fragments and any interleaving of the two threads. `ShownInv` says that
the snapshot is the framebuffer wherever the thread holds no frame half applied. The
reassembly buffer does not say how it came about and the model forgets what was sent, so
`StreamInv` brings it back: there is a sequence H of all fragments ever sent, a `Story`
that says for each position in it what the buffer holds and which updates are complete
there, and the frames in flight are its end (`OnWire`), while an update the server is
still sending is what the buffer will hold at the end of H (`Fits`). A fragment sent
extends the story (`StoryMore`) and `apply_all` moves the client along it, also when it
stops at an update that fails or panics; that what was handed out is a beginning of what was
completed (`DoneInv`) makes each such step one of FifoDelivery. `apply_all` and `Whole`
are recursive functions. What they compute is found with `Climb`, an induction on
numbers stated with a set in the place of a predicate and proved from the pigeonhole
principle, and `Recursion`, which follows from it.

**InputEvents** (`EventsArrive`), for any scancodes of a byte, characters and coordinates
of sixteen bits and any number of events. `InputInv` says that what the user did is what the bytes of the
events mean (`Happened`), that no event comes after the last (`Within`) and that the PDU
is the one `input_pdu` makes of them. `ScancodeMeans`, `UnicodeMeans` and `MouseMeans`
read the bytes of an event back, `HeaderCount` and `LongLength` the count and the length,
and `PduRead` puts them together: the count is right from 1 to 255 events and the length
below 2^15 bytes.

Type correctness is a part of each `IInv`; the runs `codecs` and
`connection_sequence` therefore do not check it a second time.

Only model-checked, and why: every liveness property (`EnableReturns`,
`HandshakeBounded` and the others; fairness and ENABLED are outside the prover), and the
other conversions (`PictureDecoded`, `PlanesDecoded`, `ScreenAsSent`, `CursorAsSent`,
`AuthenticateArrives`, `MessageArrives`), which compare byte strings and pictures built
by recursive functions over data; of such an argument there is one here, about
`apply_all`, and it recurses on a number.

## Not modelled

The contents of what the client only writes (core, security and cluster data,
capability sets, Client Info), the digests and ciphers of NTLM, rustls, certificate
parsing, and the smoke example, which prints what the session returns. A DATA_FIRST PDU
of a dynamic channel is parsed by the crate and reassembled nowhere; CAPSADVERTISE,
FRAMEACKNOWLEDGE and initiate_response are built and never sent. A lossy UDP request is
opened with the same code as a reliable one, and what rdpeudp then delivers is not in
this repository. After `enable_udp`, `pump` goes on reading TCP only, although both docs
in `session.rs` (lines 93 and 118) say it reads the tunnel; no code reads the tunnel, so
there is nothing to model behind it.

## Plan

1. The session on both transports, once `pump` reads the tunnel.
2. Reassembly of dynamic channel data, once the crate has one.
3. Proofs for the remaining conversions, Screen first, whose two loops are over the
   rectangles of an update.
