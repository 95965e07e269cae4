-------------------------- MODULE GraphicsChannel --------------------------
(***************************************************************************)
(* The graphics pipeline over virtual channels: chunks of the "drdynvc"    *)
(* static channel (VirtualChannel) carry dynamic channel PDUs (dvc.rs),    *)
(* whose data carries EGFX commands for the surfaces (SurfaceStore).  The  *)
(* crate has the parts; the loop that drains the channel is its user's     *)
(* (external) and here does what the parts are documented for.             *)
(*                                                                         *)
(* A message is a sequence of units [k, id, x]: first the dynamic channel  *)
(* header, then one unit per EGFX command or piece of data.                *)
(***************************************************************************)
EXTENDS VirtualChannel, SurfaceStore

CONSTANTS BYTE_BASE,       \* 256 in the code: values of a byte of a channel id
          Channels,        \* dynamic channel ids
          Ids, Outputs,    \* surfaces and where they may be mapped
          Payloads,        \* data the client sends
          MaxPainted,      \* how often a surface is painted (bound)
          MaxUnread        \* chunks in flight when a side sends more (bound)

ASSUME GraphicsAssumption ==
  /\ BYTE_BASE \in Nat \ {0, 1}
  /\ Channels \subseteq 0..(BYTE_BASE * BYTE_BASE * BYTE_BASE * BYTE_BASE - 1)
  /\ Ids \subseteq Nat /\ Outputs \subseteq Nat
  /\ Payloads \subseteq Seq([k : CommandKind, id : Nat, x : Nat])
  /\ MaxPainted \in Nat /\ MaxUnread \in Nat \ {0}

VARIABLES wire, up,        \* chunks on their way to the client and to the server
          reassembler,     \* the client's
          store,           \* its surfaces
          failed,          \* a part has returned an error, which ends the session
          sent,            \* what it has sent and the server has not received
          message, offset, \* what the server is sending, and how much of it is sent
          gathered,        \* the server's reassembler
          whole,           \* messages it has finished and the client not received
          screen,          \* the surfaces as the server means them
          faults           \* what the server has sent that the client is not made for

client == <<reassembler, store, failed>>
server == <<message, offset, gathered, screen, faults>>
vars   == <<wire, up, client, sent, whole, server>>

-----------------------------------------------------------------------------
(* Dynamic channel PDUs: dvc.rs *)

\* How many ids a header has room for: they have one, two or four bytes
Span(cb) ==
  CASE cb = 0 -> BYTE_BASE
    [] cb = 1 -> BYTE_BASE * BYTE_BASE
    [] OTHER  -> BYTE_BASE * BYTE_BASE * BYTE_BASE * BYTE_BASE

\* Mutant: off by one where an id needs its second byte
cb_chid_too_small(id) ==
  CASE id <= Span(0) -> 0 [] id > Span(0) /\ id < Span(1) -> 1 [] OTHER -> 2

\* The least width that holds an id
cb_chid_for(id) ==
  CASE id < Span(0) -> 0 [] id >= Span(0) /\ id < Span(1) -> 1 [] OTHER -> 2

\* A header as it is written: the id is cut to the width
Header(k, id, cb) == Command(k, id % Span(cb), cb)

create_response(id) == <<Header("CREATE", id, cb_chid_for(id))>>
capabilities_response(version) == <<Command("CAPABILITY", version, 0)>>
data(id, payload) == <<Header("DATA", id, cb_chid_for(id))>> \o payload

\* parse of a message that is not empty, by its fields
parse(msg) == [k |-> msg[1].k, id |-> msg[1].id, body |-> Tail(msg)]

-----------------------------------------------------------------------------
(* The client *)

\* The store after the commands of a message, up to the first that fails
apply_each(s, cmds) ==
  LET after[i \in 0..Len(cmds)] ==
        IF i = 0 THEN [store |-> s, ok |-> TRUE]
        ELSE LET b == after[i - 1] IN
             IF ~b.ok \/ Fails(b.store, cmds[i]) THEN [b EXCEPT !.ok = FALSE]
             ELSE [store |-> apply(b.store, cmds[i]), ok |-> TRUE]
  IN after[Len(cmds)]

\* Sends a message; `sent' holds what it means
Post(k, id, body, msg) ==
  /\ up' = up \o chunk(msg)
  /\ sent' = Append(sent, [k |-> k, id |-> id, body |-> body])

\* What a complete message does
Handle(msg) ==
  LET p == parse(msg) IN
  \/ /\ p.k = "CAPABILITY"
     /\ Post("CAPABILITY", p.id, <<>>, capabilities_response(p.id))
     /\ UNCHANGED <<store, failed>>
  \/ /\ p.k = "CREATE"
     /\ Post("CREATE", p.id, <<>>, create_response(p.id))
     /\ UNCHANGED <<store, failed>>
  \/ /\ p.k = "DATA"
     /\ \/ /\ parse_all_fails(p.body)
           /\ failed' = TRUE /\ UNCHANGED store
        \/ /\ ~parse_all_fails(p.body)
           /\ store' = apply_each(store, p.body).store
           /\ failed' = ~apply_each(store, p.body).ok
     /\ UNCHANGED <<up, sent>>
  \/ /\ p.k = "CLOSE"
     /\ UNCHANGED <<store, failed, up, sent>>

\* Reassembler::push of the next chunk, and the message it completes, if any
receive_chunk ==
  LET pdu  == Head(wire)
      done == Complete(reassembler, pdu)
  IN /\ ~failed /\ wire # <<>> /\ Len(up) < MaxUnread
     /\ wire' = Tail(wire)
     /\ reassembler' = push(reassembler, pdu)
     /\ whole' = IF done = <<>> \/ whole = <<>> THEN whole ELSE Tail(whole)
     /\ \/ /\ Rejects(reassembler, pdu) \/ done = << <<>> >>
           /\ failed' = TRUE
           /\ UNCHANGED <<store, up, sent>>
        \/ /\ ~Rejects(reassembler, pdu) /\ done = <<>>
           /\ UNCHANGED <<store, failed, up, sent>>
        \/ done # <<>> /\ done # << <<>> >> /\ Handle(done[1])
     /\ UNCHANGED server

\* The user sends data of its own on a channel
send_data ==
  /\ ~failed /\ Len(up) < MaxUnread
  /\ \E id \in Channels, payload \in Payloads : Post("DATA", id, payload, data(id, payload))
  /\ UNCHANGED <<wire, whole, client, server>>

-----------------------------------------------------------------------------
(* The server (external) *)

\* A surface as the server means it: what is painted on it and where it is shown
Unmapped == -1
ServerSurface == [pixels : Seq(Nat), at : Outputs \cup {Unmapped}]

\* What a command means; the server gives only those its surfaces allow
Legal(sc, c) ==
  CASE c.k = "CreateSurface" -> c.id \notin DOMAIN sc
    [] c.k = "WireToSurface1" -> c.id \in DOMAIN sc /\ Len(sc[c.id].pixels) < MaxPainted
    [] c.k = "Other" -> TRUE
    [] OTHER -> c.id \in DOMAIN sc
Meaning(sc, c) ==
  CASE c.k = "CreateSurface"  -> Put(sc, c.id, [pixels |-> <<>>, at |-> Unmapped])
    [] c.k = "DeleteSurface"  -> Remove(sc, c.id)
    [] c.k = "MapSurfaceToOutput" -> Put(sc, c.id, [sc[c.id] EXCEPT !.at = c.x])
    [] c.k = "WireToSurface1" -> Put(sc, c.id, [sc[c.id] EXCEPT !.pixels = Append(@, c.x)])
    [] OTHER                  -> sc

\* Commands it may put into its next message; what it paints differs each time
Commands ==
  {Command(k, id, 0) : k \in {"CreateSurface", "DeleteSurface"}, id \in Ids}
    \cup {Command("WireToSurface1", id, Len(screen[id].pixels) + 1) : id \in DOMAIN screen}
    \cup {Command("MapSurfaceToOutput", id, x) : id \in Ids, x \in Outputs}
    \cup {Command("Other", 0, 0)}

\* What lies between i and j of a message, as a chunk
Piece(msg, first, i, j) == Chunk(Len(msg), first, j = Len(msg), SubSeq(msg, i + 1, j))

\* One more chunk of msg, of any length; the one that reaches its end finishes it
Transmit(msg, first, i) ==
  /\ Len(wire) < MaxUnread
  /\ \E j \in i..Len(msg) :
       /\ wire' = Append(wire, Piece(msg, first, i, j))
       /\ \/ /\ j # Len(msg)
             /\ message' = msg /\ offset' = j
             /\ UNCHANGED <<whole, screen>>
          \/ /\ j = Len(msg)
             /\ message' = <<>> /\ offset' = 0
             /\ whole' = Append(whole, msg)
             /\ screen' = IF msg[1].k = "DATA" THEN Meaning(screen, msg[2]) ELSE screen
  /\ UNCHANGED <<gathered, faults>>

server_begin ==
  /\ message = <<>>
  /\ \/ Transmit(<<Command("CAPABILITY", 3, 0)>>, TRUE, 0)
     \/ \E id \in Channels : Transmit(<<Header("CREATE", id, 2)>>, TRUE, 0)
     \/ Transmit(<<Header("CLOSE", 1, 0)>>, TRUE, 0)
     \/ \E c \in Commands :
          Legal(screen, c) /\ Transmit(<<Header("DATA", 1, 0), c>>, TRUE, 0)

server_more == message # <<>> /\ Transmit(message, FALSE, offset)

\* Gives up a message it has begun; the next one starts with FIRST
server_abandon ==
  /\ message # <<>>
  /\ message' = <<>> /\ offset' = 0
  /\ UNCHANGED <<wire, gathered, whole, screen, faults>>

server_receive ==
  /\ up # <<>>
  /\ up' = Tail(up)
  /\ gathered' = push(gathered, Head(up))
  /\ sent' = IF Complete(gathered, Head(up)) = <<>> \/ sent = <<>> THEN sent ELSE Tail(sent)
  /\ UNCHANGED <<wire, message, offset, whole, screen, faults>>

\* Commands against the protocol: they do not parse, do not decode or name no
\* surface.  The client takes a mapping of no surface
FaultyCommands ==
  {Command("Bad", 0, 0), Command("WireToSurface1 undecodable", 0, 0)}
    \cup {Command("WireToSurface1", id, 0) : id \in Ids \ DOMAIN screen}
    \cup {Command("MapSurfaceToOutput", id, 0) : id \in Ids \ DOMAIN screen}

\* Against the protocol: something that is no virtual channel PDU, a chunk of
\* nothing, an empty message, or such a command after a good one
FaultyChunks ==
  {ShortChunk, Chunk(1, FALSE, TRUE, <<Header("CLOSE", 1, 0)>>), wrap(<<>>)}
    \cup {wrap(<<Header("DATA", 1, 0), Command("Other", 0, 0), c>>) : c \in FaultyCommands}

\* Within the protocol, in a codec the client does not decode
ForeignChunks ==
  {wrap(<<Header("DATA", 1, 0), Command("WireToSurface1 unsupported", id, 0)>>) :
     id \in DOMAIN screen}

server_fault ==
  /\ message = <<>> /\ faults = {} /\ Len(wire) < MaxUnread
  /\ \/ (\E c \in FaultyChunks : wire' = Append(wire, c)) /\ faults' = {"protocol"}
     \/ (\E c \in ForeignChunks : wire' = Append(wire, c)) /\ faults' = {"codec"}
  /\ UNCHANGED <<message, offset, gathered, whole, screen>>

ServerStep ==
  \/ /\ server_begin \/ server_more \/ server_abandon \/ server_fault
     /\ UNCHANGED <<up, client, sent>>
  \/ server_receive /\ UNCHANGED client

-----------------------------------------------------------------------------
Init ==
  /\ wire = <<>> /\ up = <<>>
  /\ reassembler = NewReassembler /\ store = NewSurfaceStore
  /\ failed = FALSE /\ sent = <<>>
  /\ message = <<>> /\ offset = 0
  /\ gathered = NewReassembler
  /\ whole = <<>> /\ screen = <<>> /\ faults = {}

Next == receive_chunk \/ send_data \/ ServerStep

Spec == Init /\ [][Next]_vars

-----------------------------------------------------------------------------
(* Properties *)

\* The messages push returns are those the server finished sending, in order and
\* whole, in however many chunks, and also after it has given one up in the middle
\* (Reassembler::push).
MessagesWhole ==
  (faults = {} /\ wire # <<>>) =>
    LET done == Complete(reassembler, Head(wire)) IN
    done # <<>> => whole # <<>> /\ done[1] = Head(whole)

\* What the client sends arrives as it was meant: every message once and whole,
\* under the channel id it was sent for, at every length and every width of the
\* id (chunk, create_response, data).
SentArrives ==
  /\ up # <<>> =>
       LET done == Complete(gathered, Head(up)) IN
       done # <<>> => sent # <<>> /\ parse(done[1]) = Head(sent)
  /\ up = <<>> => sent = <<>>

\* A part returns an error only for something against the protocol, or for bits in
\* a codec that decode_surface_bits does not decode, which the protocol allows.
CleanServerNeverFails == faults = {} => ~failed

\* Once every message has been handled, the store shows what the server means:
\* the same surfaces, painted alike and mapped alike (SurfaceStore::apply).
StoreFollowsServer ==
  (faults = {} /\ whole = <<>>) =>
    /\ Surface(store) = DOMAIN screen
    /\ \A id \in DOMAIN screen : store.surfaces[id] = screen[id].pixels
    /\ store.mapped = [id \in {i \in DOMAIN screen : screen[i].at # Unmapped} |->
                         screen[id].at]
=============================================================================
