------------------------------ MODULE UdpTunnel ------------------------------
(***************************************************************************)
(* The UDP multitransport tunnel: RdpSession::enable_udp (session.rs),     *)
(* UdpTunnel (udp_tunnel.rs) and the tunnel PDUs (emt.rs), against a       *)
(* server that binds or refuses a tunnel and sends PDUs of its own.        *)
(*                                                                         *)
(* Each attempt to migrate is a connection of its own: a byte stream each  *)
(* way (rdpeudp under TLS, external), reliable and ordered until it breaks. *)
(* `up' and `down' are all bytes ever written to them, `taken' and `read'  *)
(* how many the server and the client have consumed.                       *)
(***************************************************************************)
EXTENDS Integers, Sequences

CONSTANTS LEN_BASE,        \* values of a byte of PayloadLength: 256 in the code
          Requests,        \* Initiate Multitransport Requests of the server
          PDUs,            \* higher-layer PDUs, as bytes
          SubHeaders,      \* what a server may put between header and body
          MaxAttempts,     \* calls of enable_udp (bound)
          MaxPdus          \* PDUs both sides send on all tunnels together (bound)

MIN_HEADER_LEN == 4
LEN_MOD == LEN_BASE * LEN_BASE       \* PayloadLength is a u16

ACTION_CREATEREQUEST  == 0
ACTION_CREATERESPONSE == 1
ACTION_DATA           == 2
ACTION_UNKNOWN        == 3

Bytes == Seq(Nat)
InitiateRequest == [request_id : Nat, security_cookie : Nat]

ASSUME TunnelAssumption ==
  /\ LEN_BASE \in Nat \ {0, 1}
  /\ \A r \in Requests : r \in InitiateRequest
  /\ \A p \in PDUs : p \in Bytes
  /\ \A s \in SubHeaders : s \in Bytes
  /\ MaxAttempts \in Nat /\ MaxPdus \in Nat

Tunnel == 1..MaxAttempts
None == 0                  \* no tunnel

VARIABLES op,              \* the call the session's thread is in
          attempt,         \* the tunnel enable_udp last tried
          udp,             \* the tunnel the session is on
          result,          \* what the last call returned
          header,          \* a PDU header read, its rest not yet
          request,         \* the request of each tunnel
          up, taken,       \* client to server
          down, read,      \* server to client
          peer,            \* the server's view of each tunnel
          broken,          \* the connection is lost
          sent, heard,     \* PDUs of the client, as sent and as the server got them
          told, got,       \* PDUs of the server, as sent and as recv_pdu gave them
          traffic          \* how many PDUs have been sent on open tunnels

thread  == <<op, attempt, udp, result, header, request, read, sent, got>>
server  == <<taken, peer, broken, heard, told>>
vars    == <<thread, server, up, down, traffic>>

-----------------------------------------------------------------------------
(* Tunnel PDUs: emt.rs *)

\* Mutant: PayloadLength counts the header
tunnel_pdu_whole_length(action, body) ==
  LET n == Len(body) + MIN_HEADER_LEN IN
  <<action, n % LEN_BASE, (n \div LEN_BASE) % LEN_BASE, MIN_HEADER_LEN>> \o body

\* The length is cut to a u16, the body is written whole
tunnel_pdu(action, body) ==
  LET n == Len(body) IN
  <<action, n % LEN_BASE, (n \div LEN_BASE) % LEN_BASE, MIN_HEADER_LEN>> \o body

CreateBody(r) == <<r.request_id, 0, r.security_cookie>>
create_request(r) == tunnel_pdu(ACTION_CREATEREQUEST, CreateBody(r))

\* Mutant: HeaderLength counts a subheader that is not written
data_subheader(higher_layer) ==
  LET n == Len(higher_layer) IN
  <<ACTION_DATA, n % LEN_BASE, (n \div LEN_BASE) % LEN_BASE, MIN_HEADER_LEN + 1>> \o higher_layer

data(higher_layer) == tunnel_pdu(ACTION_DATA, higher_layer)

PayloadLen(h) == h[2] + LEN_BASE * h[3]
HeaderLen(h) == h[4]

\* Mutant: any HeaderLength is taken
NoBadHeaderLen(h) == FALSE

\* A header that claims to be shorter than it is
BadHeaderLen(h) == HeaderLen(h) < MIN_HEADER_LEN

\* How much read_tunnel_pdu reads after the first four bytes
RestLen(h) == (HeaderLen(h) - MIN_HEADER_LEN) + PayloadLen(h)

\* Mutant: subheaders are not skipped
BodyWithSubheaders(pdu) == SubSeq(pdu, MIN_HEADER_LEN + 1, MIN_HEADER_LEN + PayloadLen(pdu))

\* parse, of a PDU read_tunnel_pdu returned: its length is not in question
Body(pdu) == SubSeq(pdu, HeaderLen(pdu) + 1, HeaderLen(pdu) + PayloadLen(pdu))

IsData(pdu) == pdu[1] % 16 = ACTION_DATA
IsCreateResponse(pdu) == pdu[1] % 16 = ACTION_CREATERESPONSE

\* A Create Response too short for its hrResponse is an error
Short(pdu) == IsCreateResponse(pdu) /\ Body(pdu) = <<>>

\* Mutant: hrResponse is not looked at
AnyResponse(pdu) == IsCreateResponse(pdu) /\ ~Short(pdu)

\* The reply that opens the tunnel: hrResponse is S_OK
Accepts(pdu) == IsCreateResponse(pdu) /\ ~Short(pdu) /\ Body(pdu)[1] = 0

-----------------------------------------------------------------------------
(* The session's thread: session.rs, udp_tunnel.rs *)

\* The tunnel it reads
Current == IF op = "recv_pdu" THEN udp ELSE attempt

Available(t) == Len(down[t]) - read[t]
Next4(t) == SubSeq(down[t], read[t] + 1, read[t] + MIN_HEADER_LEN)

Count == traffic < MaxPdus /\ traffic' = traffic + 1

Return(what) == op' = "none" /\ result' = what /\ header' = <<>>

\* Mutant: a failed call of enable_udp loses the tunnel the session is on
FailAndDrop(why) ==
  /\ Return(why)
  /\ udp' = None
  /\ UNCHANGED <<attempt, request, sent, got, up>>

\* An error ends the call; a tunnel that is being established is dropped, the
\* one the session is on stays
Fail(why) ==
  /\ Return(why)
  /\ UNCHANGED <<udp, attempt, request, sent, got, up>>

\* A connection of its own, bound to the request by the cookie hash in its SYN
open_udp(r) ==
  /\ attempt' = attempt + 1
  /\ request' = [request EXCEPT ![attempt + 1] = r]

enable_udp(r) ==
  /\ op = "none" /\ attempt < MaxAttempts
  /\ open_udp(r)
  /\ op' = "syn" /\ result' = "none"
  /\ UNCHANGED <<udp, header, read, sent, got, up>>

\* transport.establish returns true; the Tunnel Create Request follows at once
syn_acknowledged ==
  /\ op = "syn" /\ peer[attempt] # "silent"
  /\ up' = [up EXCEPT ![attempt] = @ \o create_request(request[attempt])]
  /\ op' = "establish"
  /\ UNCHANGED <<attempt, udp, result, header, request, read, sent, got>>

\* transport.establish returns false after five seconds
syn_timeout ==
  /\ op = "syn"
  /\ Fail("no SYN+ACK")
  /\ UNCHANGED read

\* The first read_exact of read_tunnel_pdu, and the test of HeaderLength
read_tunnel_header ==
  LET t == Current IN
  /\ op \in {"establish", "recv_pdu"} /\ header = <<>>
  /\ Available(t) >= MIN_HEADER_LEN
  /\ read' = [read EXCEPT ![t] = @ + MIN_HEADER_LEN]
  /\ \/ BadHeaderLen(Next4(t)) /\ Fail("bad HeaderLength")
     \/ /\ ~BadHeaderLen(Next4(t))
        /\ header' = Next4(t)
        /\ UNCHANGED <<op, attempt, udp, result, request, sent, got, up>>

\* establish has its reply
CreateReply(pdu) ==
  \/ /\ Accepts(pdu)
     /\ Return("ok") /\ udp' = attempt
     /\ UNCHANGED <<attempt, request, sent, got, up>>
  \/ ~Accepts(pdu) /\ IsCreateResponse(pdu) /\ ~Short(pdu) /\ Fail("rejected")
  \/ Short(pdu) /\ Fail("short")
  \/ ~IsCreateResponse(pdu) /\ Fail("unexpected reply")

\* A turn of recv_pdu's loop: PDUs other than data are skipped
TunnelPdu(pdu) ==
  \/ /\ IsData(pdu)
     /\ got' = [got EXCEPT ![udp] = Append(@, Body(pdu))]
     /\ Return("ok")
     /\ UNCHANGED <<udp, attempt, request, sent, up>>
  \/ Short(pdu) /\ Fail("short")
  \/ /\ ~IsData(pdu) /\ ~Short(pdu)
     /\ header' = <<>>
     /\ UNCHANGED <<op, attempt, udp, result, request, sent, got, up>>

\* The second read_exact, and what the caller makes of the PDU
read_tunnel_rest ==
  LET t    == Current
      n    == RestLen(header)
      pdu  == header \o SubSeq(down[t], read[t] + 1, read[t] + n)
  IN /\ header # <<>> /\ Available(t) >= n
     /\ read' = [read EXCEPT ![t] = @ + n]
     /\ \/ op = "establish" /\ CreateReply(pdu)
        \/ op = "recv_pdu" /\ TunnelPdu(pdu)

send_pdu(p) ==
  /\ op = "none" /\ udp # None /\ ~broken[udp]
  /\ Count
  /\ up' = [up EXCEPT ![udp] = @ \o data(p)]
  /\ sent' = [sent EXCEPT ![udp] = Append(@, p)]
  /\ result' = "ok"
  /\ UNCHANGED <<op, attempt, udp, header, request, read, got>>

\* write_all or flush of send_pdu fails; the session stays on the tunnel
send_fails ==
  /\ op = "none" /\ udp # None /\ broken[udp]
  /\ result' = "io"
  /\ UNCHANGED <<op, attempt, udp, header, request, read, sent, got, up>>

recv_pdu ==
  /\ op = "none" /\ udp # None
  /\ op' = "recv_pdu" /\ result' = "none"
  /\ UNCHANGED <<attempt, udp, header, request, read, sent, got, up>>

\* The connection is lost: the SYN or the Create Request cannot be sent, and a
\* read_exact fails once it has consumed what had arrived
io_error ==
  /\ op # "none" /\ broken[Current]
  /\ op # "syn" => Available(Current) < (IF header = <<>> THEN MIN_HEADER_LEN
                                        ELSE RestLen(header))
  /\ Fail("io")
  /\ read' = [read EXCEPT ![Current] = Len(down[Current])]

\* What the thread does without being called
Progress ==
  /\ syn_acknowledged \/ syn_timeout \/ read_tunnel_header \/ read_tunnel_rest \/ io_error
  /\ UNCHANGED <<server, down, traffic>>

ThreadStep ==
  \/ Progress
  \/ /\ (\E r \in Requests : enable_udp(r)) \/ recv_pdu \/ send_fails
     /\ UNCHANGED <<server, down, traffic>>
  \/ /\ \E p \in PDUs : send_pdu(p)
     /\ UNCHANGED <<server, down>>

-----------------------------------------------------------------------------
(* The server (external) *)

\* The next whole PDU of the client, if it has arrived
UpHeader(t) == SubSeq(up[t], taken[t] + 1, taken[t] + MIN_HEADER_LEN)
UpPdu(t) == SubSeq(up[t], taken[t] + 1, taken[t] + HeaderLen(UpHeader(t)) + PayloadLen(UpHeader(t)))
UpComplete(t) ==
  /\ Len(up[t]) - taken[t] >= MIN_HEADER_LEN
  /\ HeaderLen(UpHeader(t)) >= MIN_HEADER_LEN
  /\ Len(up[t]) - taken[t] >= HeaderLen(UpHeader(t)) + PayloadLen(UpHeader(t))

\* A tunnel PDU of the server, with subheaders
ServerPdu(action, sub, body) ==
  <<action, Len(body) % LEN_BASE, Len(body) \div LEN_BASE, MIN_HEADER_LEN + Len(sub)>>
     \o sub \o body

Write(t, bytes) == down' = [down EXCEPT ![t] = @ \o bytes]

server_syn_ack(t) ==
  /\ peer[t] = "silent"
  /\ peer' = [peer EXCEPT ![t] = "connected"]
  /\ UNCHANGED <<taken, broken, heard, told, down>>

\* Binds a tunnel whose cookie it knows, or refuses it
Bind(t, body) ==
  /\ \/ /\ \E r \in Requests : body = CreateBody(r)
        /\ peer' = [peer EXCEPT ![t] = "bound"]
        /\ Write(t, ServerPdu(ACTION_CREATERESPONSE, <<>>, <<0>>))
     \/ /\ peer' = [peer EXCEPT ![t] = "refused"]
        /\ Write(t, ServerPdu(ACTION_CREATERESPONSE, <<>>, <<1>>))
  /\ UNCHANGED heard

server_read(t) ==
  /\ UpComplete(t)
  /\ taken' = [taken EXCEPT ![t] = @ + Len(UpPdu(t))]
  /\ \/ /\ UpPdu(t)[1] = ACTION_CREATEREQUEST /\ peer[t] = "connected"
        /\ Bind(t, Body(UpPdu(t)))
     \/ /\ UpPdu(t)[1] = ACTION_DATA
        /\ heard' = [heard EXCEPT ![t] = Append(@, Body(UpPdu(t)))]
        /\ UNCHANGED <<peer, down>>
  /\ UNCHANGED <<broken, told>>

server_send(t) ==
  /\ peer[t] = "bound" /\ Count
  /\ \E p \in PDUs, sub \in SubHeaders :
       /\ Len(p) < LEN_MOD
       /\ Write(t, ServerPdu(ACTION_DATA, sub, p))
       /\ told' = [told EXCEPT ![t] = Append(@, p)]
  /\ UNCHANGED <<taken, peer, broken, heard>>

\* A PDU of another kind: an unknown action, a second response, one too short to
\* hold its result, or a header with a HeaderLength of zero
server_other(t) ==
  /\ peer[t] # "silent" /\ Count
  /\ \/ Write(t, ServerPdu(ACTION_UNKNOWN, <<>>, <<1>>))
     \/ \E body \in {<<>>, <<1>>} : Write(t, ServerPdu(ACTION_CREATERESPONSE, <<>>, body))
     \/ Write(t, <<ACTION_DATA, 0, 0, 0>>)
  /\ UNCHANGED <<taken, peer, broken, heard, told>>

lose_connection(t) ==
  /\ broken' = [broken EXCEPT ![t] = TRUE]
  /\ UNCHANGED <<taken, peer, heard, told, down>>

\* A tunnel that is neither in use nor being established has been dropped
Live(t) == ~broken[t] /\ (t = udp \/ (t = attempt /\ op \in {"syn", "establish"}))

ServerStep ==
  \E t \in 1..attempt :
    /\ Live(t)
    /\ \/ server_send(t)
       \/ server_other(t)
       \/ /\ server_syn_ack(t) \/ server_read(t) \/ lose_connection(t)
          /\ UNCHANGED traffic
    /\ UNCHANGED <<thread, up>>

-----------------------------------------------------------------------------
Init ==
  /\ op = "none" /\ attempt = 0 /\ udp = None /\ result = "none" /\ header = <<>>
  /\ request \in [Tunnel -> {[request_id |-> 0, security_cookie |-> 0]}]
  /\ up = [t \in Tunnel |-> <<>>] /\ taken = [t \in Tunnel |-> 0]
  /\ down = [t \in Tunnel |-> <<>>] /\ read = [t \in Tunnel |-> 0]
  /\ peer = [t \in Tunnel |-> "silent"] /\ broken = [t \in Tunnel |-> FALSE]
  /\ sent = [t \in Tunnel |-> <<>>] /\ heard = [t \in Tunnel |-> <<>>]
  /\ told = [t \in Tunnel |-> <<>>] /\ got = [t \in Tunnel |-> <<>>]
  /\ traffic = 0

Next == ThreadStep \/ ServerStep

Spec == Init /\ [][Next]_vars

\* The thread runs when its read can return or its timeout expires; a server that
\* is connected reads what it is sent
Fairness ==
  /\ WF_vars(Progress)
  /\ \A t \in Tunnel :
       WF_vars(Live(t) /\ server_read(t) /\ UNCHANGED <<thread, up, traffic>>)

FairSpec == Spec /\ Fairness

-----------------------------------------------------------------------------
(* Properties *)

TypeOK ==
  /\ op \in {"none", "syn", "establish", "recv_pdu"}
  /\ attempt \in 0..MaxAttempts /\ udp \in 0..attempt
  /\ result \in {"none", "ok", "no SYN+ACK", "bad HeaderLength", "rejected", "short",
                 "unexpected reply", "io"}
  /\ header \in Bytes /\ Len(header) \in {0, MIN_HEADER_LEN}
  /\ header # <<>> => /\ op \in {"establish", "recv_pdu"}
                      /\ HeaderLen(header) >= MIN_HEADER_LEN
  /\ request \in [Tunnel -> InitiateRequest] /\ traffic \in 0..MaxPdus
  /\ {up, down} \subseteq [Tunnel -> Bytes] /\ {taken, read} \subseteq [Tunnel -> Nat]
  /\ \A t \in Tunnel : taken[t] <= Len(up[t]) /\ read[t] <= Len(down[t])
  /\ peer \in [Tunnel -> {"silent", "connected", "bound", "refused"}]
  /\ broken \in [Tunnel -> BOOLEAN]
  /\ {sent, heard, told, got} \subseteq [Tunnel -> Seq(Bytes)]

Downstream == INSTANCE FifoDelivery WITH Channel <- Tunnel, sent <- told, received <- got

\* Each tunnel implements ordered delivery: what recv_pdu returns is what the
\* server put into its data PDUs, in order and each once, whatever subheaders and
\* other PDUs come between and however often the session migrates again
\* (recv_pdu, read_tunnel_pdu).
ReceivesInOrder == Downstream!Spec

\* The server gets the PDUs given to send_pdu, in order and each once, up to the
\* first that is too long for a u16 PayloadLength (send_pdu, tunnel_pdu).
DeliveredUpToOversize ==
  \A t \in Tunnel : \A i \in 1..Len(heard[t]) :
    \/ i <= Len(sent[t]) /\ heard[t][i] = sent[t][i]
    \/ \E j \in 1..Len(sent[t]) : j <= i /\ Len(sent[t][j]) >= LEN_MOD

\* The session is on, and sends into, only tunnels the server has bound: no
\* refusal, timeout or stray reply opens one (establish, enable_udp).
OnBoundTunnel ==
  /\ udp # None => peer[udp] = "bound"
  /\ \A t \in Tunnel : sent[t] # <<>> => peer[t] = "bound"

\* A migration that fails leaves the session on the tunnel it had; one that
\* succeeds puts it on the new tunnel (enable_udp).
FailedMigrationKeepsTunnel ==
  [][udp' # udp => result' = "ok" /\ udp' = attempt /\ op = "establish"]_vars

\* With a server that reads what it is sent, enable_udp returns: neither side
\* waits for bytes the other does not owe (establish, create_request).
EnableReturns == op \in {"syn", "establish"} ~> op \notin {"syn", "establish"}

-----------------------------------------------------------------------------
(***************************************************************************)
(* Parts of the inductive invariant; UdpTunnelProofs adds where the PDUs   *)
(* in the two byte streams begin and end.                                  *)
(***************************************************************************)
\* Nothing has happened on the tunnels that have not been tried yet
FreshInv ==
  \A t \in Tunnel : t > attempt =>
    /\ up[t] = <<>> /\ down[t] = <<>>
    /\ sent[t] = <<>> /\ heard[t] = <<>> /\ told[t] = <<>> /\ got[t] = <<>>

\* A call is on a tunnel, a new one while it is being established, and a header
\* is the four bytes read last
ThreadInv ==
  /\ op \in {"syn", "establish"} => udp < attempt
  /\ op = "recv_pdu" => udp # None
  /\ header # <<>> =>
       /\ read[Current] >= MIN_HEADER_LEN
       /\ header = SubSeq(down[Current], read[Current] - MIN_HEADER_LEN + 1, read[Current])

\* What recv_pdu has returned is what the server sent first
GotInv ==
  \A t \in Tunnel : /\ Len(got[t]) <= Len(told[t])
                    /\ \A i \in 1..Len(got[t]) : got[t][i] = told[t][i]
=============================================================================
