------------------------- MODULE ConnectionSequence -------------------------
(***************************************************************************)
(* The RDP connection sequence: connection.rs `establish' (Connect Initial *)
(* to the end of finalization) over a PduTransport, against a server that  *)
(* answers in order but is free to interleave licensing, multitransport,   *)
(* error-info, virtual-channel and reactivation PDUs, to refuse, to send   *)
(* something unparsable or to close.                                       *)
(*                                                                         *)
(* The transport is a TLS stream: reliable and ordered each way.  `out' and *)
(* `log' are all PDUs ever sent by the client and by the server; `taken'   *)
(* and `got' say how many of them the other side has read.  The client is  *)
(* one thread that blocks in recv, so each of its actions is the code      *)
(* between two calls of recv.                                              *)
(***************************************************************************)
EXTENDS Integers, Sequences, FiniteSets

CONSTANTS MAX_SKIP,        \* 16 in the code: PDUs read while waiting for one
          Offers,          \* ServerNetworkData the server may answer with
          UserIds,         \* user channel ids the server may assign
          Renames,         \* what it confirms in the place of a channel asked for
          MaxStray,        \* unsolicited PDUs the server sends (bound)
          MaxDemand,       \* Demand Active PDUs the server sends (bound)
          MaxUnread        \* PDUs in flight to the client (bound)

IO_CHANNEL == 1003
FINAL_PDUS == 4            \* Synchronize, Control x 2, Font Map
None == 0                  \* no id: channel, share and request ids are positive

Id == Nat \ {0}
Offer == [channel_ids : Seq(Id), message_channel_id : Nat]

ASSUME ConnectionAssumption ==
  /\ MAX_SKIP \in Nat /\ MAX_SKIP >= FINAL_PDUS
  /\ \A o \in Offers : o \in Offer
  /\ UserIds \subseteq Id
  /\ \A r \in Renames : r \in [asked : Id, confirmed : Id]
  /\ MaxStray \in Nat /\ MaxDemand \in Nat /\ MaxUnread \in Nat \ {0}

VARIABLES pc,              \* where the client is
          err,             \* why it failed
          server_net, user_id, to_join, joined,   \* basic settings, channels
          turn, seen,      \* index of the loop being run; finalization's count
          multitransport, share_id,
          out, taken,      \* client to server
          log, got,        \* server to client
          closed           \* the server has closed the connection

client == <<pc, err, server_net, user_id, to_join, joined, turn, seen,
            multitransport, share_id>>
vars == <<client, out, taken, log, got, closed>>

-----------------------------------------------------------------------------
(* PDUs *)

ClientPduType == {"ConnectInitial", "ErectDomain", "AttachUser", "ChannelJoin",
                  "ClientInfo", "ConfirmActive", "Synchronize", "Cooperate",
                  "RequestControl", "FontList"}

\* Data PDUs of the share, and virtual-channel data long enough to pass for one
ShareDataType == {"Synchronize", "Control", "FontMap", "SetErrorInfo", "ChannelData"}

ServerPduType == {"ConnectResponse", "AttachUserConfirm", "ChannelJoinConfirm",
                  "DemandActive", "BadDemandActive", "DeactivateAll",
                  "License", "MultitransportRequest", "Garbage"} \cup ShareDataType

\* chan: MCS channel, of a Channel Join Confirm the one that was asked for; id:
\* channel to join or joined, share id or request id
ClientPdu == [t : ClientPduType, chan : Nat, id : Nat]
ServerPdu == [t : ServerPduType, chan : Nat, id : Nat]

Pdu(t, chan, id) == [t |-> t, chan |-> chan, id |-> id]

(***************************************************************************)
(* The parsers, by what they accept.  The server's answers to the MCS      *)
(* requests are PDUs of their own; of everything else only the payload     *)
(* that follows the Send Data Indication is looked at.                     *)
(***************************************************************************)
parse_connect_response(p) == p.t = "ConnectResponse"
parse_attach_user_confirm(p) == p.t = "AttachUserConfirm"
parse_channel_join_confirm(p) == p.t = "ChannelJoinConfirm"

\* Of any channel: the id is not compared with the I/O channel
parse_send_data_indication(p) ==
  p.t \notin {"ConnectResponse", "AttachUserConfirm", "ChannelJoinConfirm", "Garbage"}

\* Ok for a payload that reads as a share-control PDU, whatever channel it came on
parse_share_control(p) ==
  p.t \in {"DemandActive", "BadDemandActive", "DeactivateAll"} \cup ShareDataType

\* Ok for 12 bytes of body: neither pduType nor pduType2 is looked at, so a Demand
\* Active passes and the short Deactivate All does not
parse_share_data(p) == p.t = "DemandActive" \/ p.t \in ShareDataType

\* Of a share-control PDU of type DEMANDACTIVE
IsDemandActive(p) == p.t \in {"DemandActive", "BadDemandActive"}
parse_demand_active(p) == p.t = "DemandActive"

\* InitiateRequest::detect, of a PDU that is no share-control PDU
detect(p) == p.t = "MultitransportRequest"

-----------------------------------------------------------------------------
(* Transport *)

Send(pdus) == out' = out \o pdus

recv == got < Len(log) /\ got' = got + 1
Received == log[got + 1]

Fail(why) ==
  /\ pc' = "failed" /\ err' = why
  /\ UNCHANGED <<server_net, user_id, to_join, joined, turn, seen,
                 multitransport, share_id, out>>

-----------------------------------------------------------------------------
(* The client: connection.rs *)

Join(channel) == Pdu("ChannelJoin", None, channel)

ToJoin(user, net) ==
  <<user, IO_CHANNEL>> \o net.channel_ids
     \o (IF net.message_channel_id = None THEN <<>> ELSE <<net.message_channel_id>>)

\* Mutant: the share id and the user id swapped in every share-data PDU
SwappedFinalizationPdus(share) ==
  <<Pdu("Synchronize", IO_CHANNEL, user_id), Pdu("Cooperate", IO_CHANNEL, user_id),
    Pdu("RequestControl", IO_CHANNEL, user_id), Pdu("FontList", IO_CHANNEL, user_id)>>

\* What finalization sends before it reads
FinalizationPdus(share) ==
  <<Pdu("Synchronize", IO_CHANNEL, share), Pdu("Cooperate", IO_CHANNEL, share),
    Pdu("RequestControl", IO_CHANNEL, share), Pdu("FontList", IO_CHANNEL, share)>>

\* Confirm Active with the client's capability sets
send_confirm_active(share) == <<Pdu("ConfirmActive", IO_CHANNEL, share)>>

\* Mutant: the Client Info PDU is never sent
NoClientInfo == <<>>

send_client_info == <<Pdu("ClientInfo", IO_CHANNEL, None)>>

\* Mutant: every confirmed channel is kept
KeepAllJoined(channel, confirmed) == Append(joined, confirmed)

\* The confirmed id is kept as it comes, for all but the user and I/O channel
KeepJoined(channel, confirmed) ==
  IF channel \in {user_id, IO_CHANNEL} THEN joined ELSE Append(joined, confirmed)

\* Mutant: a later request replaces the first
KeepLastRequest(p) ==
  IF ~parse_share_control(p) /\ detect(p) THEN p.id ELSE multitransport

\* The first PDU that is no share-control PDU and that detect recognises
KeepRequest(p) ==
  IF ~parse_share_control(p) /\ multitransport = None /\ detect(p)
  THEN p.id ELSE multitransport

\* Mutant: the loop over 0..MAX_SKIP runs one turn less
SkippedTooFew(turns) == turns = MAX_SKIP - 1

\* `for _ in 0..MAX_SKIP' of wait_for_demand_active is over
Skipped(turns) == turns = MAX_SKIP

\* Mutant: the first PDU that is not the awaited one is an error
SkipsNothing(p) == FALSE

\* PDUs wait_for_demand_active passes over
Skips(p) == parse_send_data_indication(p) /\ ~IsDemandActive(p)

\* finalization's loop is over
Drained(pdus, turns) == pdus >= FINAL_PDUS \/ turns = MAX_SKIP

basic_settings_exchange ==
  /\ pc = "start"
  /\ Send(<<Pdu("ConnectInitial", None, None)>>)
  /\ pc' = "connect_response"
  /\ UNCHANGED <<err, server_net, user_id, to_join, joined, turn, seen,
                 multitransport, share_id, got>>

\* parse_connect_response, parse_conference_create_response and
\* parse_server_network_data (net: what the response says), then
\* channel_connection up to its first recv
recv_connect_response(net) ==
  /\ pc = "connect_response" /\ recv
  /\ \/ /\ parse_connect_response(Received)
        /\ server_net' = net
        /\ Send(<<Pdu("ErectDomain", None, None), Pdu("AttachUser", None, None)>>)
        /\ pc' = "attach_user_confirm"
        /\ UNCHANGED <<err, user_id, to_join, joined, turn, seen,
                       multitransport, share_id>>
     \/ /\ ~parse_connect_response(Received)
        /\ Fail("connect response")

recv_attach_user_confirm ==
  /\ pc = "attach_user_confirm" /\ recv
  /\ \/ /\ parse_attach_user_confirm(Received)
        /\ user_id' = Received.id
        /\ to_join' = ToJoin(Received.id, server_net)
        /\ Send(<<Join(Received.id)>>)
        /\ turn' = 1
        /\ pc' = "channel_join"
        /\ UNCHANGED <<err, server_net, joined, seen, multitransport, share_id>>
     \/ /\ ~parse_attach_user_confirm(Received)
        /\ Fail("attach user confirm")

\* One turn of the join loop (`turn' is its index); after the last one
\* send_client_info runs
recv_channel_join_confirm ==
  /\ pc = "channel_join" /\ recv
  /\ \/ /\ parse_channel_join_confirm(Received)
        /\ joined' = KeepJoined(to_join[turn], Received.id)
        /\ \/ /\ turn < Len(to_join)
              /\ Send(<<Join(to_join[turn + 1])>>)
              /\ turn' = turn + 1
              /\ UNCHANGED pc
           \/ /\ turn = Len(to_join)
              /\ Send(send_client_info)
              /\ turn' = 0
              /\ pc' = "demand_active"
        /\ UNCHANGED <<err, server_net, user_id, to_join, seen, multitransport, share_id>>
     \/ /\ ~parse_channel_join_confirm(Received)
        /\ Fail("channel join confirm")

\* One turn of the loop of wait_for_demand_active
wait_for_demand_active ==
  /\ pc = "demand_active" /\ recv
  /\ \/ /\ parse_demand_active(Received)
        /\ share_id' = Received.id
        /\ Send(send_confirm_active(Received.id) \o FinalizationPdus(Received.id))
        /\ turn' = 0 /\ seen' = 0
        /\ pc' = "finalization"
        /\ UNCHANGED <<err, server_net, user_id, to_join, joined, multitransport>>
     \/ /\ ~parse_demand_active(Received) /\ ~Skips(Received)
        /\ Fail("demand active")
     \/ /\ Skips(Received)
        /\ multitransport' = KeepRequest(Received)
        /\ turn' = turn + 1
        /\ \/ ~Skipped(turn + 1) /\ UNCHANGED <<pc, err>>
           \/ /\ Skipped(turn + 1)
              /\ pc' = "failed" /\ err' = "no Demand Active PDU received"
        /\ UNCHANGED <<server_net, user_id, to_join, joined, seen, share_id, out>>

\* One turn of the drain loop of finalization, and the test that ends it
finalization ==
  /\ pc = "finalization" /\ recv
  /\ \/ /\ ~parse_send_data_indication(Received)
        /\ Fail("finalization")
     \/ /\ parse_send_data_indication(Received)
        /\ seen' = IF parse_share_control(Received) /\ parse_share_data(Received)
                   THEN seen + 1 ELSE seen
        /\ turn' = turn + 1
        /\ pc' = IF Drained(seen', turn') THEN "active" ELSE pc
        /\ UNCHANGED <<err, server_net, user_id, to_join, joined, multitransport,
                       share_id, out>>

\* recv at end of stream, or a send on a closed connection
transport_error ==
  /\ closed
  /\ pc \notin {"active", "failed"}
  /\ Fail("io")
  /\ UNCHANGED got

ClientStep ==
  /\ \/ basic_settings_exchange
     \/ \E net \in Offers : recv_connect_response(net)
     \/ recv_attach_user_confirm
     \/ recv_channel_join_confirm
     \/ wait_for_demand_active
     \/ finalization
     \/ transport_error
  /\ UNCHANGED <<taken, log, closed>>

-----------------------------------------------------------------------------
(* The server (external), as the client's parsers know it *)

Taken(t) == \E i \in 1..taken : out[i].t = t
Count(S) == Len(SelectSeq(log, LAMBDA p : p.t \in S))

ServerSend(p) == Len(log) - got < MaxUnread /\ log' = Append(log, p)

\* The PDUs an RDP server interleaves after the Client Info PDU
StrayType == {"License", "MultitransportRequest", "DeactivateAll", "SetErrorInfo",
              "ChannelData"}

\* The channel such a PDU comes on; some need a channel the server granted
StrayChannel(t) ==
  CASE t = "ChannelData" /\ server_net.channel_ids # <<>> -> Head(server_net.channel_ids)
    [] t = "MultitransportRequest" -> server_net.message_channel_id
    [] OTHER -> IO_CHANNEL

\* The ids a Channel Join Confirm may bring for a channel that was asked for
Confirms(channel) ==
  LET others == {r.confirmed : r \in {x \in Renames : x.asked = channel}}
  IN  IF others = {} THEN {channel} ELSE others

\* Reads the next PDU of the client and answers it
server_answer ==
  /\ ~closed /\ taken < Len(out)
  /\ taken' = taken + 1
  /\ LET p == out[taken + 1] IN
     CASE p.t = "ConnectInitial" -> ServerSend(Pdu("ConnectResponse", None, None))
       [] p.t = "AttachUser" ->
            \E u \in UserIds : ServerSend(Pdu("AttachUserConfirm", None, u))
       [] p.t = "ChannelJoin" ->
            \E c \in Confirms(p.id) : ServerSend(Pdu("ChannelJoinConfirm", p.id, c))
       [] p.t = "Synchronize" -> ServerSend(Pdu("Synchronize", IO_CHANNEL, p.id))
       [] p.t \in {"Cooperate", "RequestControl"} ->
            ServerSend(Pdu("Control", IO_CHANNEL, p.id))
       [] p.t = "FontList" -> ServerSend(Pdu("FontMap", IO_CHANNEL, p.id))
       [] OTHER -> UNCHANGED log
  /\ UNCHANGED closed

\* Opens the share after the Client Info PDU; later ones reactivate it
server_demand ==
  /\ ~closed
  /\ Count({"DemandActive"}) < MaxDemand
  /\ \/ Count({"DemandActive"}) = 0 /\ Taken("ClientInfo")
     \/ Taken("ConfirmActive")
  /\ ServerSend(Pdu("DemandActive", IO_CHANNEL, Len(log) + 1))
  /\ UNCHANGED <<taken, closed>>

server_stray ==
  /\ ~closed /\ Taken("ClientInfo")
  /\ Count(StrayType) < MaxStray
  /\ \E t \in StrayType :
       /\ t = "ChannelData" => server_net.channel_ids # <<>>
       /\ t = "MultitransportRequest" => server_net.message_channel_id # None
       /\ ServerSend(Pdu(t, StrayChannel(t), Len(log) + 1))
  /\ UNCHANGED <<taken, closed>>

\* Refuses or garbles an answer, or a Demand Active
server_fault ==
  /\ ~closed /\ Count({"Garbage", "BadDemandActive"}) = 0
  /\ \/ ServerSend(Pdu("Garbage", None, None))
     \/ Taken("ClientInfo") /\ ServerSend(Pdu("BadDemandActive", IO_CHANNEL, None))
  /\ UNCHANGED <<taken, closed>>

server_close ==
  /\ ~closed
  /\ closed' = TRUE
  /\ UNCHANGED <<taken, log>>

ServerStep ==
  /\ server_answer \/ server_demand \/ server_stray \/ server_fault \/ server_close
  /\ UNCHANGED <<client, out, got>>

-----------------------------------------------------------------------------
Init ==
  /\ pc = "start" /\ err = "none"
  /\ server_net = [channel_ids |-> <<>>, message_channel_id |-> None]
  /\ user_id = None /\ to_join = <<>> /\ joined = <<>>
  /\ turn = 0 /\ seen = 0
  /\ multitransport = None /\ share_id = None
  /\ out = <<>> /\ taken = 0 /\ log = <<>> /\ got = 0 /\ closed = FALSE

Next == ClientStep \/ ServerStep

Spec == Init /\ [][Next]_vars

\* The client's thread runs whenever recv can return; a live server reads what
\* it is sent and answers it, and opens the share
Fairness ==
  /\ WF_vars(ClientStep)
  /\ WF_vars(server_answer /\ UNCHANGED <<client, out, got>>)
  /\ WF_vars(server_demand /\ UNCHANGED <<client, out, got>>)

FairSpec == Spec /\ Fairness

-----------------------------------------------------------------------------
(* Properties *)

\* The calls that fail, and the two other values of err
Failures == {"connect response", "attach user confirm", "channel join confirm",
             "demand active", "finalization", "io"}
Errors == Failures \cup {"none", "no Demand Active PDU received"}

ClientPc == {"start", "connect_response", "attach_user_confirm", "channel_join",
             "demand_active", "finalization", "active", "failed"}

TypeOK ==
  /\ pc \in ClientPc /\ err \in Errors
  /\ server_net \in Offer
  /\ user_id \in Nat /\ to_join \in Seq(Nat) /\ joined \in Seq(Nat)
  /\ turn \in Nat /\ seen \in 0..FINAL_PDUS
  /\ pc \in {"demand_active", "finalization"} => turn < MAX_SKIP
  /\ multitransport \in Nat /\ share_id \in Nat
  /\ out \in Seq(ClientPdu) /\ taken \in 0..Len(out)
  /\ log \in Seq(ServerPdu) /\ got \in 0..Len(log)
  /\ closed \in BOOLEAN

\* How many PDUs the client has read when wait_for_demand_active starts
WaitFrom == 2 + Len(to_join)

\* Those of the first n channels of to_join whose confirmed ids are kept
Wanted(n) == {i \in 1..n : to_join[i] \notin {user_id, IO_CHANNEL}}

\* joined holds the ids confirmed for them, in the order of to_join
JoinedUpTo(n) ==
  /\ Len(joined) = Cardinality(Wanted(n))
  /\ \A i \in Wanted(n) : joined[Cardinality(Wanted(i))] = log[2 + i].id

\* Each channel of a session is paired with its own confirmation, also when the
\* server confirms another id than it was asked for: by the time the client uses
\* the I/O channel it has read one confirmation per channel of to_join, in the
\* order of the requests, and has kept the confirmed id of every one but the
\* user and the I/O channel (channel_connection).  That these are not just the
\* virtual channels, as channel_ids is documented, is ChannelIdsAreVirtual's.
JoinedInOrder ==
  pc \in {"demand_active", "finalization", "active"} =>
    /\ \A i \in 1..Len(to_join) :
         log[2 + i].t = "ChannelJoinConfirm" /\ log[2 + i].chan = to_join[i]
    /\ JoinedUpTo(Len(to_join))

\* What the comment on Session.channel_ids says it holds: the ids of the joined
\* virtual channels, in the order of the requests (channel_connection, Session).
ChannelIdsAreVirtual ==
  pc = "active" =>
    joined = [i \in 1..Len(server_net.channel_ids) |-> log[4 + i].id]

\* The client gives up for want of a Demand Active exactly after MAX_SKIP PDUs
\* without one: a Demand Active that comes as the last of them is still taken
\* (wait_for_demand_active).
SkipLimitExact ==
  err = "no Demand Active PDU received" =>
    /\ got = WaitFrom + MAX_SKIP
    /\ \A i \in (WaitFrom + 1)..got : log[i].t # "DemandActive"

\* PDUs the client has read before it accepted the share, or so far
Waited == {i \in (WaitFrom + 1)..got :
             \A j \in (WaitFrom + 1)..i : log[j].t # "DemandActive"}

Requests == {i \in Waited : log[i].t = "MultitransportRequest"}

\* The multitransport request of the session is the first one the server sent
\* before its Demand Active, and none that came later (wait_for_demand_active).
FirstRequestWins ==
  pc \in {"demand_active", "finalization", "active"} =>
    \/ Requests = {} /\ multitransport = None
    \/ \E i \in Requests : /\ \A j \in Requests : i <= j
                           /\ multitransport = log[i].id

SharePduType == {"ConfirmActive", "Synchronize", "Cooperate", "RequestControl", "FontList"}

\* Every PDU the client sends on the share carries the id of the Demand Active
\* it accepted, the first one the server sent (send_confirm_active,
\* finalization).
ShareAgreement ==
  \A i \in 1..Len(out) :
    out[i].t \in SharePduType
      => \E d \in 1..got : /\ log[d].t = "DemandActive"
                           /\ \A j \in 1..(d - 1) : log[j].t # "DemandActive"
                           /\ out[i].id = log[d].id /\ share_id = log[d].id

\* With a server that answers, the sequence never waits for ever: neither side
\* blocks on a PDU the other only sends after one of its own (establish).
Terminates == <>(pc \in {"active", "failed"})

\* The server has refused nothing and has sent fewer stray PDUs than MAX_SKIP
Cooperative ==
  ~closed /\ Count({"Garbage", "BadDemandActive"}) = 0 /\ Count(StrayType) < MAX_SKIP

\* A server that cooperates gets an active session, however its stray PDUs and
\* reactivations fall between its answers (establish).
EventuallyActive == []Cooperative => <>(pc = "active")

\* What the comment on the drain loop says it does: the session is active once
\* the server's Synchronize, its two Controls and its Font Map have been read
\* (finalization).
FinalizationDrained ==
  pc = "active" => \E i \in 1..got : log[i].t = "FontMap"

-----------------------------------------------------------------------------
(***************************************************************************)
(* The inductive invariant: how many PDUs have been read at each point,    *)
(* what has not been read or sent before the share is open, and, for the   *)
(* channels, how the server's answers line up with the requests.           *)
(***************************************************************************)
Joining == {"start", "connect_response", "attach_user_confirm", "channel_join"}

ReadInv ==
  /\ pc \in {"start", "connect_response"} => got = 0
  /\ pc = "attach_user_confirm" => got = 1
  /\ pc = "channel_join" => turn \in 1..Len(to_join) /\ got = 1 + turn
  /\ pc = "demand_active" => got = WaitFrom + turn
  /\ pc = "finalization" => seen < FINAL_PDUS
  /\ pc \in Joining => multitransport = None
  /\ pc # "failed" => err = "none"

ShareInv ==
  /\ pc \in Joining \cup {"demand_active"} =>
       /\ \A i \in 1..Len(out) : out[i].t \notin SharePduType
       /\ \A i \in 1..got : log[i].t # "DemandActive"
  /\ pc \in {"finalization", "active"} =>
       \E d \in (WaitFrom + 1)..got : log[d].t = "DemandActive"

\* Requests carry an id
RequestInv ==
  \A i \in 1..Len(log) : log[i].t = "MultitransportRequest" => log[i].id # None

Core == /\ TypeOK /\ ReadInv /\ ShareInv /\ RequestInv
        /\ ShareAgreement /\ SkipLimitExact /\ FirstRequestWins

\* The PDUs the client sends up to the last request to join
Asked == 3 + Len(to_join)

\* What the client has sent when
OutInv ==
  /\ pc = "start" => out = <<>>
  /\ pc = "connect_response" => Len(out) = 1
  /\ pc = "attach_user_confirm" => Len(out) = 3
  /\ pc \in {"start", "connect_response", "attach_user_confirm"} => to_join = <<>>
  /\ pc = "channel_join" => Len(out) = 3 + turn
  /\ pc \in {"demand_active", "finalization", "active"} => Len(out) > Asked
  /\ \A i \in 1..Len(out) :
       /\ i = 1 => out[i].t = "ConnectInitial"
       /\ i = 2 => out[i].t = "ErectDomain"
       /\ i = 3 => out[i].t = "AttachUser"
       /\ i \in 4..Asked => out[i] = Join(to_join[i - 3])
       /\ i > Asked => out[i].t \notin {"ConnectInitial", "AttachUser", "ChannelJoin"}

\* The answers a server owes for the first t of them (Erect Domain has none)
Owed(t) == IF t = 0 THEN 0 ELSE IF t <= 2 THEN 1 ELSE t - 1

\* Nothing the server sent up to k is garbage
Sound(k) == \A j \in 1..k : log[j].t # "Garbage"

\* Up to the last request to join, the server has sent what it owes and, unless
\* it is garbage, nothing else; so the k-th PDU answers the k-th request
AnswerInv ==
  /\ taken <= Asked => /\ Len(log) >= Owed(taken)
                       /\ \A k \in 1..Len(log) : Sound(k) => k <= Owed(taken)
  /\ taken > Asked => Len(log) >= Owed(Asked)
  /\ \A k \in 3..Len(log) :
       Sound(k) /\ k <= Owed(Asked) => k + 1 <= Len(out) /\ log[k].chan = out[k + 1].id

\* What the client has read of them is sound, and it has kept what it read
ChannelInv ==
  /\ \A k \in 1..got : k <= Owed(Asked) => log[k].t # "Garbage"
  /\ \A k \in 3..got : k <= Owed(Asked) => log[k].t = "ChannelJoinConfirm"
  /\ pc \in {"start", "connect_response", "attach_user_confirm"} => joined = <<>>
  /\ pc = "channel_join" => JoinedUpTo(turn - 1)
  /\ pc \in {"demand_active", "finalization", "active"} =>
       got >= Owed(Asked) /\ JoinedUpTo(Len(to_join))

JoinInv == pc # "failed" => OutInv /\ AnswerInv /\ ChannelInv

IInv == Core /\ JoinInv
=============================================================================
