---------------------- MODULE ConnectionSequenceProofs ----------------------
(***************************************************************************)
(* Proofs about the connection sequence, for any MAX_SKIP of at least four *)
(* and any offers, ids and bounds of the server.                           *)
(***************************************************************************)
EXTENDS ConnectionSequence, FiniteSetTheorems, TLAPS

\* What recv returns is the next PDU of the server.
LEMMA RecvFacts ==
  ASSUME TypeOK, recv
  PROVE  /\ got' = got + 1 /\ got' \in 1..Len(log)
         /\ Received = log[got'] /\ Received \in ServerPdu
         /\ Received.id \in Nat
<1>1. log \in Seq(ServerPdu) /\ got \in 0..Len(log) /\ got < Len(log) /\ got' = got + 1
  BY DEF TypeOK, recv
<1>2. got' \in 1..Len(log)
  BY <1>1
<1>3. log[got'] \in ServerPdu /\ Received = log[got']
  BY <1>1, <1>2 DEF Received
<1>4. QED
  BY <1>1, <1>2, <1>3 DEF ServerPdu

\* Sending appends PDUs of the client and keeps the ones sent before.
LEMMA SendFacts ==
  ASSUME TypeOK, NEW pdus \in Seq(ClientPdu), Send(pdus)
  PROVE  /\ out' \in Seq(ClientPdu)
         /\ Len(out') = Len(out) + Len(pdus)
         /\ \A i \in 1..Len(out) : out'[i] = out[i]
         /\ \A i \in (Len(out) + 1)..Len(out') :
              \E j \in 1..Len(pdus) : out'[i] = pdus[j]
         /\ taken \in 0..Len(out')
<1>1. out \in Seq(ClientPdu) /\ taken \in 0..Len(out)
  BY DEF TypeOK
<1>2. out' = out \o pdus
  BY DEF Send
<1>3. /\ out' \in Seq(ClientPdu) /\ Len(out') = Len(out) + Len(pdus)
      /\ \A i \in 1..Len(out) : out'[i] = out[i]
      /\ \A i \in (Len(out) + 1)..Len(out') : out'[i] = pdus[i - Len(out)]
  BY <1>1, <1>2
<1>4. Len(out) \in Nat /\ Len(pdus) \in Nat
  BY <1>1
<1>5. \A i \in (Len(out) + 1)..Len(out') : i - Len(out) \in 1..Len(pdus)
  BY <1>3, <1>4
<1>6. taken \in 0..Len(out')
  BY <1>1, <1>3, <1>4
<1>7. QED
  BY <1>3, <1>5, <1>6

\* Concatenation adds lengths.
LEMMA ConcatFacts ==
  ASSUME NEW S, NEW s \in Seq(S), NEW t \in Seq(S)
  PROVE  s \o t \in Seq(S) /\ Len(s \o t) = Len(s) + Len(t)
OBVIOUS

\* Its elements are those of the two sequences.
LEMMA ConcatElements ==
  ASSUME NEW S, NEW s \in Seq(S), NEW t \in Seq(S), NEW i \in 1..Len(s \o t)
  PROVE  \/ \E j \in 1..Len(s) : (s \o t)[i] = s[j]
         \/ \E j \in 1..Len(t) : (s \o t)[i] = t[j]
<1>1. Len(s) \in Nat /\ Len(t) \in Nat /\ Len(s \o t) = Len(s) + Len(t)
  OBVIOUS
<1>2. CASE i <= Len(s)
  <2>1. i \in 1..Len(s)
    BY <1>1, <1>2
  <2>2. (s \o t)[i] = s[i]
    BY <2>1
  <2>3. QED
    BY <2>1, <2>2
<1>3. CASE ~(i <= Len(s))
  <2>1. i - Len(s) \in 1..Len(t)
    BY <1>1, <1>3
  <2>2. (s \o t)[i] = t[i - Len(s)]
    BY <1>1, <1>3, <2>1
  <2>3. QED
    BY <2>1, <2>2
<1>4. QED
  BY <1>2, <1>3

\* Appending nothing changes nothing.
LEMMA EmptyConcat ==
  ASSUME NEW S, NEW s \in Seq(S)
  PROVE  s \o <<>> = s
OBVIOUS

\* The channels to join are ids, the user channel first.
LEMMA ToJoinFacts ==
  ASSUME NEW u \in Nat, NEW net \in Offer
  PROVE  ToJoin(u, net) \in Seq(Nat) /\ Len(ToJoin(u, net)) >= 2
<1>1. net.channel_ids \in Seq(Nat) /\ net.message_channel_id \in Nat
  BY DEF Offer, Id
<1>2. <<u, IO_CHANNEL>> \in Seq(Nat) /\ Len(<<u, IO_CHANNEL>>) = 2
  BY DEF IO_CHANNEL
<1> DEFINE a == <<u, IO_CHANNEL>>
           b == net.channel_ids
           c == IF net.message_channel_id = None THEN <<>> ELSE <<net.message_channel_id>>
<1>3. c \in Seq(Nat)
  BY <1>1
<1>4. ToJoin(u, net) = (a \o b) \o c
  BY DEF ToJoin
<1>5. a \in Seq(Nat) /\ Len(a) = 2 /\ b \in Seq(Nat)
  BY <1>1, <1>2
<1> HIDE DEF a, b, c
<1>6. a \o b \in Seq(Nat) /\ Len(a \o b) = 2 + Len(b)
  BY <1>5, ConcatFacts
<1>7. (a \o b) \o c \in Seq(Nat) /\ Len((a \o b) \o c) = (2 + Len(b)) + Len(c)
  BY <1>3, <1>6, ConcatFacts
<1>8. Len(b) \in Nat /\ Len(c) \in Nat
  BY <1>3, <1>5
<1>9. QED
  BY <1>4, <1>7, <1>8

-----------------------------------------------------------------------------
\* The share PDUs sent so far stay in agreement while the share id stays, nothing
\* is sent on the share, and the server's PDUs are only added to.
LEMMA ShareKept ==
  ASSUME TypeOK, ShareAgreement, share_id' = share_id,
         got' \in Nat, got' >= got,
         \A i \in 1..Len(log) : log'[i] = log[i],
         \A i \in 1..Len(out') :
            out'[i].t \in SharePduType => i \in 1..Len(out) /\ out'[i] = out[i]
  PROVE  ShareAgreement'
<1> SUFFICES ASSUME NEW i \in 1..Len(out'), out'[i].t \in SharePduType
             PROVE  \E d \in 1..got' : /\ log'[d].t = "DemandActive"
                                       /\ \A j \in 1..(d - 1) : log'[j].t # "DemandActive"
                                       /\ out'[i].id = log'[d].id /\ share_id' = log'[d].id
  BY DEF ShareAgreement
<1>1. i \in 1..Len(out) /\ out'[i] = out[i]
  OBVIOUS
<1>2. PICK d \in 1..got : /\ log[d].t = "DemandActive"
                          /\ \A j \in 1..(d - 1) : log[j].t # "DemandActive"
                          /\ out[i].id = log[d].id /\ share_id = log[d].id
  BY <1>1 DEF ShareAgreement
<1>3. got \in 0..Len(log) /\ Len(log) \in Nat
  BY DEF TypeOK
<1>4. d \in 1..got' /\ d \in 1..Len(log) /\ \A j \in 1..(d - 1) : j \in 1..Len(log)
  BY <1>2, <1>3
<1>5. log'[d] = log[d] /\ \A j \in 1..(d - 1) : log'[j] = log[j]
  BY <1>4
<1>6. QED
  BY <1>1, <1>2, <1>4, <1>5

\* The PDUs of the server before the read position are not rewritten.
LEMMA LogFacts ==
  ASSUME TypeOK
  PROVE  /\ Len(log) \in Nat /\ got \in Nat /\ got <= Len(log)
         /\ \A i \in 1..got : i \in 1..Len(log)
BY DEF TypeOK

\* What the server may do to the client's view: append PDUs, requests with an id.
LEMMA ServerKeeps ==
  ASSUME Core, UNCHANGED <<client, out, got>>,
         taken' \in 0..Len(out), closed' \in BOOLEAN,
         \/ log' = log
         \/ \E p \in ServerPdu : /\ p.t = "MultitransportRequest" => p.id # None
                                 /\ log' = Append(log, p)
  PROVE  Core'
<1> USE DEF client
<1>1. TypeOK
  BY DEF Core
<1>2. log \in Seq(ServerPdu) /\ Len(log) \in Nat /\ got \in 0..Len(log)
  BY <1>1 DEF TypeOK
<1>3. /\ log' \in Seq(ServerPdu) /\ got' \in 0..Len(log')
      /\ \A i \in 1..Len(log) : log'[i] = log[i]
      /\ \A i \in 1..Len(log') : log'[i].t = "MultitransportRequest" => log'[i].id # None
  <2>1. CASE log' = log
    BY <1>2, <2>1 DEF Core, RequestInv
  <2>2. ASSUME NEW p \in ServerPdu, p.t = "MultitransportRequest" => p.id # None,
               log' = Append(log, p)
        PROVE  /\ log' \in Seq(ServerPdu) /\ got' \in 0..Len(log')
               /\ \A i \in 1..Len(log) : log'[i] = log[i]
               /\ \A i \in 1..Len(log') :
                     log'[i].t = "MultitransportRequest" => log'[i].id # None
    <3>1. /\ log' \in Seq(ServerPdu) /\ Len(log') = Len(log) + 1
          /\ \A i \in 1..Len(log) : log'[i] = log[i]
          /\ log'[Len(log) + 1] = p
      BY <1>2, <2>2
    <3>2. got' \in 0..Len(log')
      BY <1>2, <3>1
    <3>3. \A i \in 1..Len(log') : i \in 1..Len(log) \/ i = Len(log) + 1
      BY <1>2, <3>1
    <3>4. QED
      BY <2>2, <3>1, <3>2, <3>3 DEF Core, RequestInv
  <2>3. QED
    BY <2>1, <2>2
<1>4. TypeOK'
  <2>1. /\ pc' = pc /\ err' = err /\ server_net' = server_net /\ user_id' = user_id
        /\ to_join' = to_join /\ joined' = joined /\ turn' = turn /\ seen' = seen
        /\ multitransport' = multitransport /\ share_id' = share_id
        /\ out' = out /\ got' = got
    OBVIOUS
  <2>2. QED
    BY <1>1, <1>3, <2>1 DEF TypeOK
<1>5. ReadInv' /\ RequestInv'
  BY <1>3 DEF Core, ReadInv, RequestInv, WaitFrom
<1>6. /\ \A i \in 1..got : log'[i] = log[i]
      /\ WaitFrom \in Nat /\ WaitFrom' = WaitFrom
      /\ \A i \in (WaitFrom + 1)..got : i \in 1..got
  <2>1. \A i \in 1..got : i \in 1..Len(log)
    BY <1>2
  <2>2. Len(to_join) \in Nat /\ to_join' = to_join
    BY <1>1 DEF TypeOK
  <2>3. WaitFrom \in Nat /\ WaitFrom' = WaitFrom
    BY <2>2 DEF WaitFrom
  <2>4. \A i \in (WaitFrom + 1)..got : i \in 1..got
    BY <1>2, <2>3
  <2>5. QED
    BY <1>3, <2>1, <2>3, <2>4
<1>7. ShareInv'
  BY <1>6 DEF Core, ShareInv
<1>8. ShareAgreement'
  BY <1>1, <1>2, <1>3, ShareKept DEF Core
<1>9. SkipLimitExact'
  BY <1>6 DEF Core, SkipLimitExact
<1>10. Requests' = Requests /\ \A i \in Requests : log'[i] = log[i]
  <2>1. \A i \in (WaitFrom + 1)..got : \A j \in (WaitFrom + 1)..i : j \in (WaitFrom + 1)..got
    BY <1>2, <1>6
  <2>2. Waited' = Waited
    BY <1>6, <2>1 DEF Waited
  <2>3. QED
    BY <1>6, <2>2 DEF Requests, Waited
<1>11. FirstRequestWins'
  BY <1>10 DEF Core, FirstRequestWins
<1>12. QED
  BY <1>4, <1>5, <1>7, <1>8, <1>9, <1>11 DEF Core

\* What a server confirms is a channel id.
LEMMA ConfirmedId ==
  ASSUME NEW channel \in Nat, NEW c \in Confirms(channel)
  PROVE  c \in Nat
BY ConnectionAssumption DEF Confirms, Id

\* Every step of the server is of that form.
LEMMA ServerInv ==
  ASSUME Core, ServerStep
  PROVE  Core'
<1> USE ConnectionAssumption
<1>1. TypeOK
  BY DEF Core
<1>2. /\ Len(log) + 1 \in Nat /\ Len(log) + 1 # 0 /\ taken \in 0..Len(out)
      /\ out \in Seq(ClientPdu) /\ closed \in BOOLEAN /\ server_net \in Offer
  BY <1>1 DEF TypeOK
<1>3. UNCHANGED <<client, out, got>>
  BY DEF ServerStep
<1>4. None \in Nat /\ IO_CHANNEL \in Nat
  BY DEF None, IO_CHANNEL
<1>5. CASE server_answer
  <2> DEFINE p == out[taken + 1]
  <2>1. /\ taken' = taken + 1 /\ taken < Len(out) /\ UNCHANGED closed
    BY <1>5 DEF server_answer
  <2>2. taken' \in 0..Len(out) /\ taken + 1 \in 1..Len(out)
    BY <1>2, <2>1
  <2>3. p \in ClientPdu
    BY <1>2, <2>2
  <2>4. p.id \in Nat
    BY <2>3 DEF ClientPdu
  <2>5. \/ log' = log
        \/ \E q \in ServerPdu : q.t # "MultitransportRequest" /\ log' = Append(log, q)
    <3> DEFINE A(q) == q \in ServerPdu /\ q.t # "MultitransportRequest"
    <3>1. CASE p.t = "ConnectInitial"
      <4>1. A(Pdu("ConnectResponse", None, None))
        BY <1>4 DEF Pdu, ServerPdu, ServerPduType
      <4>2. QED
        BY <1>5, <3>1, <4>1 DEF server_answer, ServerSend
    <3>2. CASE p.t = "AttachUser"
      <4>1. PICK u \in UserIds : ServerSend(Pdu("AttachUserConfirm", None, u))
        BY <1>5, <3>2 DEF server_answer
      <4>2. A(Pdu("AttachUserConfirm", None, u))
        BY <1>4 DEF Pdu, ServerPdu, ServerPduType, Id
      <4>3. QED
        BY <4>1, <4>2 DEF ServerSend
    <3>3. CASE p.t = "ChannelJoin"
      <4>1. PICK c \in Confirms(p.id) : ServerSend(Pdu("ChannelJoinConfirm", p.id, c))
        BY <1>5, <3>3 DEF server_answer
      <4>2. c \in Nat
        BY <2>4, <4>1, ConfirmedId
      <4>3. A(Pdu("ChannelJoinConfirm", p.id, c))
        BY <2>4, <4>2 DEF Pdu, ServerPdu, ServerPduType
      <4>4. QED
        BY <4>1, <4>3 DEF ServerSend
    <3>4. CASE p.t = "Synchronize"
      <4>1. A(Pdu("Synchronize", IO_CHANNEL, p.id))
        BY <1>4, <2>4 DEF Pdu, ServerPdu, ServerPduType, ShareDataType
      <4>2. QED
        BY <1>5, <3>4, <4>1 DEF server_answer, ServerSend
    <3>5. CASE p.t \in {"Cooperate", "RequestControl"}
      <4>1. A(Pdu("Control", IO_CHANNEL, p.id))
        BY <1>4, <2>4 DEF Pdu, ServerPdu, ServerPduType, ShareDataType
      <4>2. QED
        BY <1>5, <3>5, <4>1 DEF server_answer, ServerSend
    <3>6. CASE p.t = "FontList"
      <4>1. A(Pdu("FontMap", IO_CHANNEL, p.id))
        BY <1>4, <2>4 DEF Pdu, ServerPdu, ServerPduType, ShareDataType
      <4>2. QED
        BY <1>5, <3>6, <4>1 DEF server_answer, ServerSend
    <3>7. CASE p.t \notin {"ConnectInitial", "AttachUser", "ChannelJoin", "Synchronize",
                           "Cooperate", "RequestControl", "FontList"}
      BY <1>5, <3>7 DEF server_answer
    <3>8. QED
      BY <3>1, <3>2, <3>3, <3>4, <3>5, <3>6, <3>7
  <2>6. QED
    BY <1>2, <1>3, <2>1, <2>2, <2>5, ServerKeeps
<1>6. CASE server_demand
  <2>1. Pdu("DemandActive", IO_CHANNEL, Len(log) + 1) \in ServerPdu
        /\ Pdu("DemandActive", IO_CHANNEL, Len(log) + 1).t # "MultitransportRequest"
    BY <1>2, <1>4 DEF Pdu, ServerPdu, ServerPduType
  <2>2. QED
    BY <1>2, <1>3, <1>6, <2>1, ServerKeeps DEF server_demand, ServerSend
<1>7. CASE server_stray
  <2>1. PICK t \in StrayType : ServerSend(Pdu(t, StrayChannel(t), Len(log) + 1))
    BY <1>7 DEF server_stray
  <2>2. t \in ServerPduType
    BY DEF StrayType, ServerPduType, ShareDataType
  <2>3. StrayChannel(t) \in Nat
    <3>1. server_net.channel_ids \in Seq(Id) /\ server_net.message_channel_id \in Nat
      BY <1>2 DEF Offer
    <3>2. server_net.channel_ids # <<>> => Head(server_net.channel_ids) \in Nat
      BY <3>1 DEF Id
    <3>3. QED
      BY <1>4, <3>1, <3>2 DEF StrayChannel
  <2>4. /\ Pdu(t, StrayChannel(t), Len(log) + 1) \in ServerPdu
        /\ Pdu(t, StrayChannel(t), Len(log) + 1).id # None
    BY <1>2, <2>2, <2>3 DEF Pdu, ServerPdu, None
  <2>5. QED
    BY <1>2, <1>3, <1>7, <2>1, <2>4, ServerKeeps DEF server_stray, ServerSend
<1>8. CASE server_fault
  <2>1. /\ Pdu("Garbage", None, None) \in ServerPdu
        /\ Pdu("Garbage", None, None).t # "MultitransportRequest"
        /\ Pdu("BadDemandActive", IO_CHANNEL, None) \in ServerPdu
        /\ Pdu("BadDemandActive", IO_CHANNEL, None).t # "MultitransportRequest"
    BY <1>4 DEF Pdu, ServerPdu, ServerPduType
  <2>2. QED
    BY <1>2, <1>3, <1>8, <2>1, ServerKeeps DEF server_fault, ServerSend
<1>9. CASE server_close
  BY <1>2, <1>3, <1>9, ServerKeeps DEF server_close
<1>10. QED
  BY <1>5, <1>6, <1>7, <1>8, <1>9 DEF ServerStep

-----------------------------------------------------------------------------
\* A client that fails leaves what it has sent and learnt as it was.
LEMMA FailInv ==
  ASSUME Core, pc' = "failed", err' \in Failures,
         got' \in 0..Len(log), got' >= got,
         UNCHANGED <<server_net, user_id, to_join, joined, turn, seen, multitransport,
                     share_id, out, taken, log, closed>>
  PROVE  Core'
<1>1. TypeOK
  BY DEF Core
<1>2. TypeOK'
  BY <1>1 DEF TypeOK, ClientPc, Errors
<1>3. ReadInv' /\ ShareInv' /\ SkipLimitExact' /\ FirstRequestWins'
  BY DEF ReadInv, ShareInv, SkipLimitExact, FirstRequestWins, Joining, Failures
<1>4. RequestInv'
  BY DEF Core, RequestInv
<1>5. got' \in Nat
  BY <1>2 DEF TypeOK
<1>6. ShareAgreement'
  BY <1>1, <1>5, ShareKept DEF Core
<1>7. QED
  BY <1>2, <1>3, <1>4, <1>6 DEF Core

\* The same for a failure that follows a read.
LEMMA FailedRead ==
  ASSUME Core, recv, NEW why \in Failures, Fail(why), UNCHANGED <<taken, log, closed>>
  PROVE  Core'
<1>1. got' = got + 1 /\ got' \in 1..Len(log) /\ got \in Nat /\ Len(log) \in Nat
  BY RecvFacts, LogFacts DEF Core
<1>2. got' \in 0..Len(log) /\ got' >= got
  BY <1>1
<1>3. QED
  BY <1>2, FailInv DEF Fail

\* The client before the share is open: it sends nothing on the share and reads
\* no Demand Active.
LEMMA BeforeShareInv ==
  ASSUME Core, pc \in Joining \cup {"demand_active"}, pc' \in Joining \cup {"demand_active"},
         NEW pdus \in Seq(ClientPdu), Send(pdus),
         \A j \in 1..Len(pdus) : pdus[j].t \notin SharePduType,
         got' = got \/ (recv /\ Received.t # "DemandActive"),
         UNCHANGED <<err, log>>,
         TypeOK', ReadInv', FirstRequestWins'
  PROVE  Core'
<1>1. TypeOK
  BY DEF Core
<1>2. /\ \A i \in 1..Len(out) : out[i].t \notin SharePduType
      /\ \A i \in 1..got : log[i].t # "DemandActive"
  BY DEF Core, ShareInv
<1>3. \A i \in 1..Len(out') : out'[i].t \notin SharePduType
  <2>1. Len(out) \in Nat /\ Len(out') \in Nat
    <3>1. out \in Seq(ClientPdu) /\ out' \in Seq(ClientPdu)
      BY <1>1 DEF TypeOK
    <3>2. QED
      BY ONLY <3>1
  <2>2. \A i \in 1..Len(out') : i \in 1..Len(out) \/ i \in (Len(out) + 1)..Len(out')
    BY <2>1
  <2>3. QED
    BY <1>1, <1>2, <2>2, SendFacts
<1>4. \A i \in 1..got' : log'[i].t # "DemandActive"
  <2>1. CASE got' = got
    BY <1>2, <2>1
  <2>2. CASE recv /\ Received.t # "DemandActive"
    <3>1. got' = got + 1 /\ Received = log[got'] /\ got \in Nat
      BY <1>1, <2>2, RecvFacts, LogFacts
    <3>2. \A i \in 1..got' : i \in 1..got \/ i = got'
      BY <3>1
    <3>3. QED
      BY <1>2, <2>2, <3>1, <3>2
  <2>3. QED
    BY <2>1, <2>2
<1>5. /\ pc' \notin {"finalization", "active", "failed"}
      /\ pc \notin {"finalization", "active", "failed"}
  BY DEF Joining
<1>6. ShareInv' /\ ShareAgreement'
  BY <1>3, <1>4, <1>5 DEF ShareInv, ShareAgreement
<1>7. RequestInv'
  BY DEF Core, RequestInv
<1>8. SkipLimitExact'
  BY <1>5 DEF SkipLimitExact, Core, ReadInv
<1>9. QED
  BY <1>6, <1>7, <1>8 DEF Core

\* Connect Initial.
LEMMA StartInv ==
  ASSUME Core, basic_settings_exchange, UNCHANGED <<taken, log, closed>>
  PROVE  Core'
<1> DEFINE pdus == <<Pdu("ConnectInitial", None, None)>>
<1>1. TypeOK
  BY DEF Core
<1>2. pdus \in Seq(ClientPdu) /\ \A j \in 1..Len(pdus) : pdus[j].t \notin SharePduType
  BY DEF Pdu, ClientPdu, ClientPduType, SharePduType, None
<1>3. Send(pdus) /\ pc = "start" /\ pc' = "connect_response" /\ got' = got
      /\ UNCHANGED <<err, server_net, user_id, to_join, joined, turn, seen,
                     multitransport, share_id>>
  BY DEF basic_settings_exchange
<1> HIDE DEF pdus
<1>4. TypeOK'
  <2>1. out' \in Seq(ClientPdu) /\ taken \in 0..Len(out')
    BY <1>1, <1>2, <1>3, SendFacts
  <2>2. QED
    BY <1>1, <1>3, <2>1 DEF TypeOK, ClientPc
<1>5. ReadInv' /\ FirstRequestWins'
  BY <1>3 DEF Core, ReadInv, FirstRequestWins, Joining
<1>6. QED
  BY <1>2, <1>3, <1>4, <1>5, BeforeShareInv DEF Joining

\* Connect Response.
LEMMA ConnectResponseInv ==
  ASSUME Core, NEW net \in Offers, recv_connect_response(net), UNCHANGED <<taken, log, closed>>
  PROVE  Core'
<1>1. TypeOK /\ recv
  BY DEF Core, recv_connect_response
<1>2. got' = got + 1 /\ got' \in 1..Len(log) /\ got \in Nat
  BY <1>1, RecvFacts, LogFacts
<1>3. CASE Fail("connect response")
  BY <1>1, <1>3, FailedRead DEF Failures
<1>4. CASE ~Fail("connect response")
  <2> DEFINE pdus == <<Pdu("ErectDomain", None, None), Pdu("AttachUser", None, None)>>
  <2>1. pdus \in Seq(ClientPdu) /\ \A j \in 1..Len(pdus) : pdus[j].t \notin SharePduType
    BY DEF Pdu, ClientPdu, ClientPduType, SharePduType, None
  <2>2. /\ Send(pdus) /\ pc = "connect_response" /\ pc' = "attach_user_confirm"
        /\ parse_connect_response(Received) /\ server_net' = net
        /\ UNCHANGED <<err, user_id, to_join, joined, turn, seen, multitransport, share_id>>
    BY <1>4 DEF recv_connect_response
  <2> HIDE DEF pdus
  <2>3. TypeOK'
    <3>1. out' \in Seq(ClientPdu) /\ taken \in 0..Len(out')
      BY <1>1, <2>1, <2>2, SendFacts
    <3>2. net \in Offer /\ got' \in 0..Len(log)
      BY <1>2, ConnectionAssumption
    <3>3. QED
      BY <1>1, <2>2, <3>1, <3>2 DEF TypeOK, ClientPc
  <2>4. ReadInv' /\ FirstRequestWins'
    BY <1>2, <2>2 DEF Core, ReadInv, FirstRequestWins, Joining
  <2>5. Received.t # "DemandActive"
    BY <2>2 DEF parse_connect_response
  <2>6. QED
    BY <1>1, <2>1, <2>2, <2>3, <2>4, <2>5, BeforeShareInv DEF Joining
<1>5. QED
  BY <1>3, <1>4

\* Attach User Confirm.
LEMMA AttachUserInv ==
  ASSUME Core, recv_attach_user_confirm, UNCHANGED <<taken, log, closed>>
  PROVE  Core'
<1>1. TypeOK /\ recv
  BY DEF Core, recv_attach_user_confirm
<1>2. got' = got + 1 /\ got' \in 1..Len(log) /\ got \in Nat /\ Received.id \in Nat
  BY <1>1, RecvFacts, LogFacts
<1>3. CASE Fail("attach user confirm")
  BY <1>1, <1>3, FailedRead DEF Failures
<1>4. CASE ~Fail("attach user confirm")
  <2> DEFINE pdus == <<Join(Received.id)>>
             chans == ToJoin(Received.id, server_net)
  <2>1. pdus \in Seq(ClientPdu) /\ \A j \in 1..Len(pdus) : pdus[j].t \notin SharePduType
    BY <1>2 DEF Join, Pdu, ClientPdu, ClientPduType, SharePduType, None
  <2>2. /\ Send(pdus) /\ pc = "attach_user_confirm" /\ pc' = "channel_join"
        /\ parse_attach_user_confirm(Received) /\ user_id' = Received.id
        /\ to_join' = chans /\ turn' = 1
        /\ UNCHANGED <<err, server_net, joined, seen, multitransport, share_id>>
    BY <1>4 DEF recv_attach_user_confirm
  <2>3. chans \in Seq(Nat) /\ Len(chans) >= 2
    BY <1>1, <1>2, ToJoinFacts DEF TypeOK
  <2> HIDE DEF pdus, chans
  <2>4. TypeOK'
    <3>1. out' \in Seq(ClientPdu) /\ taken \in 0..Len(out')
      BY <1>1, <2>1, <2>2, SendFacts
    <3>2. got' \in 0..Len(log) /\ 1 \in Nat
      BY <1>2
    <3>3. QED
      BY <1>1, <1>2, <2>2, <2>3, <3>1, <3>2 DEF TypeOK, ClientPc
  <2>5. ReadInv'
    <3>1. got = 1
      BY <2>2 DEF Core, ReadInv
    <3>2. 1 \in 1..Len(chans) /\ got' = 1 + 1
      BY <1>2, <2>3, <3>1
    <3>3. QED
      BY <2>2, <3>2 DEF Core, ReadInv, Joining
  <2>6. FirstRequestWins'
    BY <2>2 DEF FirstRequestWins
  <2>7. Received.t # "DemandActive"
    BY <2>2 DEF parse_attach_user_confirm
  <2>8. QED
    BY <1>1, <2>1, <2>2, <2>4, <2>5, <2>6, <2>7, BeforeShareInv DEF Joining
<1>5. QED
  BY <1>3, <1>4

\* Channel Join Confirm: the next join, or, after the last, the Client Info PDU.
LEMMA ChannelJoinInv ==
  ASSUME Core, recv_channel_join_confirm, UNCHANGED <<taken, log, closed>>
  PROVE  Core'
<1>1. TypeOK /\ recv /\ pc = "channel_join"
  BY DEF Core, recv_channel_join_confirm
<1>2. got' = got + 1 /\ got' \in 1..Len(log) /\ got \in Nat /\ Received.id \in Nat
  BY <1>1, RecvFacts, LogFacts
<1>3. /\ to_join \in Seq(Nat) /\ joined \in Seq(Nat) /\ Len(to_join) \in Nat /\ turn \in Nat
  BY <1>1 DEF TypeOK
<1>4. turn \in 1..Len(to_join) /\ got = 1 + turn /\ multitransport = None /\ err = "none"
  BY <1>1 DEF Core, ReadInv, Joining
<1>5. CASE Fail("channel join confirm")
  BY <1>1, <1>5, FailedRead DEF Failures
<1>6. CASE ~Fail("channel join confirm")
  <2>1. /\ parse_channel_join_confirm(Received)
        /\ joined' = KeepJoined(to_join[turn], Received.id)
        /\ UNCHANGED <<err, server_net, user_id, to_join, seen, multitransport, share_id>>
        /\ \/ /\ turn < Len(to_join) /\ Send(<<Join(to_join[turn + 1])>>)
              /\ turn' = turn + 1 /\ UNCHANGED pc
           \/ /\ turn = Len(to_join) /\ Send(send_client_info)
              /\ turn' = 0 /\ pc' = "demand_active"
    BY <1>6 DEF recv_channel_join_confirm
  <2>2. Received.t # "DemandActive"
    BY <2>1 DEF parse_channel_join_confirm
  <2>3. joined' \in Seq(Nat)
    BY <1>2, <1>3, <2>1 DEF KeepJoined
  <2>4. got' \in 0..Len(log)
    BY <1>2
  <2>5. CASE /\ turn < Len(to_join) /\ Send(<<Join(to_join[turn + 1])>>)
             /\ turn' = turn + 1 /\ UNCHANGED pc
    <3> DEFINE pdus == <<Join(to_join[turn + 1])>>
    <3>1. turn + 1 \in 1..Len(to_join)
      BY <1>3, <2>5
    <3>2. to_join[turn + 1] \in Nat
      BY <1>3, <3>1
    <3>3. pdus \in Seq(ClientPdu) /\ \A j \in 1..Len(pdus) : pdus[j].t \notin SharePduType
      BY <3>2 DEF Join, Pdu, ClientPdu, ClientPduType, SharePduType, None
    <3>4. Send(pdus)
      BY <2>5
    <3> HIDE DEF pdus
    <3>5. out' \in Seq(ClientPdu) /\ taken \in 0..Len(out')
      BY <1>1, <3>3, <3>4, SendFacts
    <3>6. TypeOK'
      BY <1>1, <2>1, <2>3, <2>4, <2>5, <3>5 DEF TypeOK, ClientPc
    <3>7. turn' \in 1..Len(to_join') /\ got' = 1 + turn'
      BY <1>2, <1>3, <1>4, <2>1, <2>5
    <3>8. ReadInv' /\ FirstRequestWins'
      BY <1>1, <1>4, <2>1, <2>5, <3>7 DEF ReadInv, FirstRequestWins, Joining
    <3>9. QED
      BY <1>1, <2>1, <2>2, <2>5, <3>3, <3>4, <3>6, <3>8, BeforeShareInv DEF Joining
  <2>6. CASE /\ turn = Len(to_join) /\ Send(send_client_info)
             /\ turn' = 0 /\ pc' = "demand_active"
    <3> DEFINE pdus == send_client_info
    <3>1. pdus \in Seq(ClientPdu) /\ \A j \in 1..Len(pdus) : pdus[j].t \notin SharePduType
      BY DEF send_client_info, Pdu, ClientPdu, ClientPduType, SharePduType, None, IO_CHANNEL
    <3>2. Send(pdus)
      BY <2>6
    <3> HIDE DEF pdus
    <3>3. out' \in Seq(ClientPdu) /\ taken \in 0..Len(out')
      BY <1>1, <3>1, <3>2, SendFacts
    <3>4. 0 < MAX_SKIP /\ 0 \in Nat
      BY ConnectionAssumption DEF FINAL_PDUS
    <3>5. TypeOK'
      BY <1>1, <2>1, <2>3, <2>4, <2>6, <3>3, <3>4 DEF TypeOK, ClientPc
    <3>6. WaitFrom' = 2 + Len(to_join) /\ got' = WaitFrom' + turn' /\ got' = WaitFrom'
      BY <1>2, <1>3, <1>4, <2>1, <2>6 DEF WaitFrom
    <3>7. ReadInv'
      BY <1>4, <2>1, <2>6, <3>6 DEF ReadInv, Joining
    <3>8. (WaitFrom' + 1)..got' = {}
      BY <1>3, <3>6
    <3>9. Requests' = {}
      BY <3>8 DEF Requests, Waited
    <3>10. FirstRequestWins'
      BY <1>4, <2>1, <3>9 DEF FirstRequestWins
    <3>11. QED
      BY <1>1, <2>1, <2>2, <2>6, <3>1, <3>2, <3>5, <3>7, <3>10, BeforeShareInv DEF Joining
  <2>7. QED
    BY <2>1, <2>5, <2>6
<1>7. QED
  BY <1>5, <1>6

-----------------------------------------------------------------------------
\* While the client waits, all it has read since the joins counts.
LEMMA WaitedAll ==
  ASSUME Core, pc = "demand_active"
  PROVE  Waited = (WaitFrom + 1)..got /\ WaitFrom \in Nat
<1>1. TypeOK
  BY DEF Core
<1>2. to_join \in Seq(Nat) /\ got \in Nat
  BY <1>1, LogFacts DEF TypeOK
<1>3. WaitFrom \in Nat
  BY <1>2 DEF WaitFrom
<1>4. \A i \in 1..got : log[i].t # "DemandActive"
  BY DEF Core, ShareInv
<1>5. \A i \in (WaitFrom + 1)..got : \A j \in (WaitFrom + 1)..i : j \in 1..got
  BY <1>2, <1>3
<1>6. QED
  BY <1>3, <1>4, <1>5 DEF Waited

\* A PDU that wait_for_demand_active skips extends what it has waited for.
LEMMA SkipRequests ==
  ASSUME Core, pc = "demand_active", recv, Skips(Received),
         multitransport' = KeepRequest(Received), UNCHANGED <<to_join, log>>
  PROVE  \/ Requests' = {} /\ multitransport' = None
         \/ \E i \in Requests' : /\ \A j \in Requests' : i <= j
                                 /\ multitransport' = log'[i].id
<1>1. TypeOK
  BY DEF Core
<1>2. /\ got' = got + 1 /\ got' \in 1..Len(log) /\ got \in Nat /\ Received = log[got']
  BY <1>1, RecvFacts, LogFacts
<1>3. Waited = (WaitFrom + 1)..got /\ WaitFrom \in Nat /\ WaitFrom' = WaitFrom
  BY WaitedAll DEF WaitFrom
<1>4. got = WaitFrom + turn /\ turn \in Nat
  BY <1>1 DEF Core, ReadInv, TypeOK
<1>5. \A i \in 1..got : log[i].t # "DemandActive"
  BY DEF Core, ShareInv
<1>6. Received.t # "DemandActive"
  BY DEF Skips, IsDemandActive
<1>7. Waited' = (WaitFrom + 1)..got'
  <2>1. \A i \in (WaitFrom + 1)..got' : \A j \in (WaitFrom + 1)..i : j \in 1..got \/ j = got'
    BY <1>2, <1>3
  <2>2. \A i \in (WaitFrom + 1)..got' : \A j \in (WaitFrom + 1)..i : log'[j].t # "DemandActive"
    BY <1>2, <1>5, <1>6, <2>1
  <2>3. QED
    BY <1>3, <2>2 DEF Waited
<1>8. Waited' = Waited \cup {got'}
  BY <1>2, <1>3, <1>4, <1>7
<1>9. /\ Received.t = "MultitransportRequest" => Requests' = Requests \cup {got'}
      /\ Received.t # "MultitransportRequest" => Requests' = Requests
  <2>1. Requests' = {i \in Waited' : log[i].t = "MultitransportRequest"}
    BY DEF Requests
  <2>2. Requests = {i \in Waited : log[i].t = "MultitransportRequest"}
    BY DEF Requests
  <2>3. QED
    BY <1>2, <1>8, <2>1, <2>2
<1>10. \A i \in Requests : i \in Nat /\ i < got' /\ i \in 1..Len(log)
  <2>1. Len(log) \in Nat
    BY <1>1, LogFacts
  <2>2. \A i \in (WaitFrom + 1)..got : i \in Nat /\ i < got' /\ i \in 1..Len(log)
    BY <1>2, <1>3, <2>1
  <2>3. QED
    BY <1>3, <2>2 DEF Requests
<1>11. \/ Requests = {} /\ multitransport = None
       \/ \E i \in Requests : /\ \A j \in Requests : i <= j
                              /\ multitransport = log[i].id
  BY DEF Core, FirstRequestWins
<1>12. CASE Requests = {} /\ multitransport = None
  <2>1. CASE Received.t = "MultitransportRequest"
    <3>1. ~parse_share_control(Received) /\ detect(Received)
      BY <2>1 DEF parse_share_control, detect, ShareDataType
    <3>2. multitransport' = log'[got'].id
      BY <1>2, <1>12, <3>1 DEF KeepRequest
    <3>3. Requests' = {got'}
      BY <1>9, <1>12, <2>1
    <3>4. got' <= got'
      BY <1>2
    <3>5. QED
      BY <3>2, <3>3, <3>4
  <2>2. CASE Received.t # "MultitransportRequest"
    <3>1. multitransport' = None
      BY <1>12, <2>2 DEF KeepRequest, detect
    <3>2. Requests' = {}
      BY <1>9, <1>12, <2>2
    <3>3. QED
      BY <3>1, <3>2
  <2>3. QED
    BY <2>1, <2>2
<1>13. ASSUME NEW i \in Requests, \A j \in Requests : i <= j, multitransport = log[i].id
       PROVE  \E k \in Requests' : /\ \A j \in Requests' : k <= j
                                   /\ multitransport' = log'[k].id
  <2>1. multitransport # None
    <3>1. i \in 1..Len(log) /\ log[i].t = "MultitransportRequest"
      BY <1>10 DEF Requests
    <3>2. QED
      BY <1>13, <3>1 DEF Core, RequestInv
  <2>2. multitransport' = multitransport
    BY <2>1 DEF KeepRequest
  <2>3. multitransport' = log'[i].id
    BY <1>13, <2>2
  <2>4. i \in Requests'
    BY <1>9
  <2>5. i <= got'
    <3>1. i \in Nat /\ i < got' /\ got' \in Nat
      BY <1>2, <1>10
    <3>2. QED
      BY <3>1
  <2>6. \A j \in Requests' : i <= j
    BY <1>9, <1>13, <2>5
  <2>7. QED
    BY <2>3, <2>4, <2>6
<1>14. QED
  BY <1>11, <1>12, <1>13

\* Where the read position is after a turn of the waiting loop.
LEMMA TurnFacts ==
  ASSUME Core, pc = "demand_active", recv, turn' = turn + 1, to_join' = to_join
  PROVE  /\ turn' \in Nat /\ turn < MAX_SKIP /\ MAX_SKIP \in Nat /\ err = "none"
         /\ WaitFrom \in Nat /\ WaitFrom' = WaitFrom /\ got' = WaitFrom + turn'
         /\ got' \in Nat /\ got' >= got /\ got' \in 0..Len(log)
         /\ \A i \in (WaitFrom + 1)..got' : i \in 1..got \/ i = got'
<1>1. TypeOK
  BY DEF Core
<1>2. got' = got + 1 /\ got' \in 1..Len(log) /\ got \in Nat /\ Len(log) \in Nat
  BY <1>1, RecvFacts, LogFacts
<1>3. turn \in Nat /\ turn < MAX_SKIP /\ got = WaitFrom + turn /\ err = "none"
  BY <1>1 DEF Core, ReadInv, TypeOK
<1>4. WaitFrom \in Nat /\ WaitFrom' = WaitFrom /\ MAX_SKIP \in Nat
  BY WaitedAll, ConnectionAssumption DEF WaitFrom
<1>5. got' \in Nat /\ got' >= got /\ got' \in 0..Len(log)
  BY <1>2
<1>6. turn' \in Nat /\ got' = WaitFrom + turn'
  BY <1>2, <1>3, <1>4
<1>7. \A i \in (WaitFrom + 1)..got' : i \in 1..got \/ i = got'
  BY <1>2, <1>4
<1>8. QED
  BY <1>3, <1>4, <1>5, <1>6, <1>7

\* A skipped PDU and another turn.
LEMMA SkipOnInv ==
  ASSUME Core, pc = "demand_active", recv, Skips(Received),
         multitransport' = KeepRequest(Received), turn' = turn + 1, turn' < MAX_SKIP,
         UNCHANGED <<pc, err, server_net, user_id, to_join, joined, seen, share_id, out,
                     taken, log, closed>>
  PROVE  Core'
<1>1. TypeOK
  BY DEF Core
<1>2. /\ turn' \in Nat /\ err = "none" /\ got' \in 0..Len(log)
      /\ WaitFrom' = WaitFrom /\ got' = WaitFrom + turn'
  BY TurnFacts
<1>3. multitransport' \in Nat
  BY <1>1, RecvFacts DEF KeepRequest, TypeOK
<1>4. Received.t # "DemandActive"
  BY DEF Skips, IsDemandActive
<1>5. TypeOK'
  BY <1>1, <1>2, <1>3 DEF TypeOK
<1>6. ReadInv'
  BY <1>2 DEF ReadInv, Joining
<1>7. FirstRequestWins'
  BY SkipRequests DEF FirstRequestWins
<1> DEFINE none == <<>>
<1>8. none \in Seq(ClientPdu)
  OBVIOUS
<1>9. \A j \in 1..Len(none) : none[j].t \notin SharePduType
  <2>1. Len(none) = 0
    OBVIOUS
  <2>2. 1..Len(none) = {}
    BY <2>1
  <2>3. QED
    BY <2>2
<1>10. Send(none)
  BY <1>1, EmptyConcat DEF Send, TypeOK
<1> HIDE DEF none
<1>11. QED
  BY <1>4, <1>5, <1>6, <1>7, <1>8, <1>9, <1>10, BeforeShareInv

\* A skipped PDU and the end of the loop: exactly MAX_SKIP PDUs have been read.
LEMMA SkipEndInv ==
  ASSUME Core, pc = "demand_active", recv, Skips(Received),
         multitransport' = KeepRequest(Received), turn' = turn + 1, turn' = MAX_SKIP,
         pc' = "failed", err' = "no Demand Active PDU received",
         UNCHANGED <<server_net, user_id, to_join, joined, seen, share_id, out,
                     taken, log, closed>>
  PROVE  Core'
<1>1. TypeOK
  BY DEF Core
<1>2. /\ turn' \in Nat /\ got' \in 0..Len(log) /\ got' \in Nat /\ got' >= got
      /\ WaitFrom' = WaitFrom /\ got' = WaitFrom + turn'
      /\ \A i \in (WaitFrom + 1)..got' : i \in 1..got \/ i = got'
  BY TurnFacts
<1>3. multitransport' \in Nat
  BY <1>1, RecvFacts DEF KeepRequest, TypeOK
<1>4. TypeOK'
  BY <1>1, <1>2, <1>3 DEF TypeOK, ClientPc, Errors
<1>5. ReadInv' /\ ShareInv' /\ FirstRequestWins'
  BY DEF ReadInv, ShareInv, FirstRequestWins, Joining
<1>6. RequestInv'
  BY DEF Core, RequestInv
<1>7. ShareAgreement'
  BY <1>1, <1>2, ShareKept DEF Core
<1>8. Received.t # "DemandActive" /\ Received = log[got']
  BY <1>1, RecvFacts DEF Skips, IsDemandActive
<1>9. \A i \in 1..got : log[i].t # "DemandActive"
  BY DEF Core, ShareInv
<1>10. SkipLimitExact'
  BY <1>2, <1>8, <1>9 DEF SkipLimitExact
<1>11. QED
  BY <1>4, <1>5, <1>6, <1>7, <1>10 DEF Core

\* The Demand Active is accepted: the share PDUs go out under its id.
LEMMA AcceptInv ==
  ASSUME Core, pc = "demand_active", recv, parse_demand_active(Received),
         share_id' = Received.id,
         Send(send_confirm_active(Received.id) \o FinalizationPdus(Received.id)),
         turn' = 0, seen' = 0, pc' = "finalization",
         UNCHANGED <<err, server_net, user_id, to_join, joined, multitransport,
                     taken, log, closed>>
  PROVE  Core'
<1> DEFINE pdus == send_confirm_active(Received.id) \o FinalizationPdus(Received.id)
<1>1. TypeOK
  BY DEF Core
<1>2. /\ got' = got + 1 /\ got' \in 1..Len(log) /\ got \in Nat /\ Received = log[got']
      /\ Received.id \in Nat
  BY <1>1, RecvFacts, LogFacts
<1>3. turn \in Nat /\ got = WaitFrom + turn /\ err = "none"
  BY <1>1 DEF Core, ReadInv, TypeOK
<1>4. WaitFrom \in Nat /\ WaitFrom' = WaitFrom /\ Waited = (WaitFrom + 1)..got
  BY WaitedAll DEF WaitFrom
<1>5. log[got'].t = "DemandActive"
  BY <1>2 DEF parse_demand_active
<1>6. /\ \A i \in 1..Len(out) : out[i].t \notin SharePduType
      /\ \A i \in 1..got : log[i].t # "DemandActive"
  BY DEF Core, ShareInv
<1>7. pdus \in Seq(ClientPdu) /\ \A j \in 1..Len(pdus) : pdus[j].id = Received.id
  <2> DEFINE a == send_confirm_active(Received.id)
             b == FinalizationPdus(Received.id)
  <2>1. a \in Seq(ClientPdu) /\ \A j \in 1..Len(a) : a[j].id = Received.id
    BY <1>2 DEF send_confirm_active, Pdu, ClientPdu, ClientPduType, IO_CHANNEL
  <2>2. b \in Seq(ClientPdu) /\ Len(b) = 4
    BY <1>2 DEF FinalizationPdus, Pdu, ClientPdu, ClientPduType, IO_CHANNEL
  <2>3. /\ b[1].id = Received.id /\ b[2].id = Received.id
        /\ b[3].id = Received.id /\ b[4].id = Received.id
    BY DEF FinalizationPdus, Pdu
  <2>4. pdus = a \o b
    OBVIOUS
  <2> HIDE DEF a, b, pdus
  <2>5. \A j \in 1..4 : j = 1 \/ j = 2 \/ j = 3 \/ j = 4
    OBVIOUS
  <2>6. \A j \in 1..Len(b) : b[j].id = Received.id
    BY <2>2, <2>3, <2>5
  <2>7. a \o b \in Seq(ClientPdu)
    BY <2>1, <2>2, ConcatFacts
  <2>8. \A i \in 1..Len(a \o b) : \/ \E j \in 1..Len(a) : (a \o b)[i] = a[j]
                                  \/ \E j \in 1..Len(b) : (a \o b)[i] = b[j]
    <3>1. a \in Seq(ClientPdu) /\ b \in Seq(ClientPdu)
      BY <2>1, <2>2
    <3>2. QED
      BY ONLY <3>1, ConcatElements
  <2>9. QED
    BY <2>1, <2>4, <2>6, <2>7, <2>8
<1>8. Send(pdus)
  OBVIOUS
<1> HIDE DEF pdus
<1>9. /\ out' \in Seq(ClientPdu) /\ taken \in 0..Len(out')
      /\ \A i \in 1..Len(out) : out'[i] = out[i]
      /\ \A i \in (Len(out) + 1)..Len(out') : out'[i].id = Received.id
  BY <1>1, <1>7, <1>8, SendFacts
<1>10. TypeOK'
  <2>1. got' \in 0..Len(log) /\ 0 \in 0..FINAL_PDUS /\ 0 < MAX_SKIP
    BY <1>2, ConnectionAssumption DEF FINAL_PDUS
  <2>2. QED
    BY <1>1, <1>2, <1>9, <2>1 DEF TypeOK, ClientPc
<1>11. ReadInv' /\ RequestInv'
  BY <1>3 DEF Core, ReadInv, RequestInv, Joining, FINAL_PDUS
<1>12. got' \in (WaitFrom' + 1)..got' /\ got' \in 1..got'
  BY <1>2, <1>3, <1>4
<1>13. ShareInv'
  BY <1>5, <1>12 DEF ShareInv, Joining
<1>14. ShareAgreement'
  <2>1. \A i \in 1..Len(out') : i \in 1..Len(out) \/ i \in (Len(out) + 1)..Len(out')
    BY <1>1, <1>9 DEF TypeOK
  <2>2. \A i \in 1..Len(out') : out'[i].t \in SharePduType => out'[i].id = Received.id
    BY <1>6, <1>9, <2>1
  <2>3. \A j \in 1..(got' - 1) : log[j].t # "DemandActive"
    BY <1>2, <1>6
  <2>4. QED
    BY <1>2, <1>5, <1>12, <2>2, <2>3 DEF ShareAgreement
<1>15. SkipLimitExact'
  BY <1>3 DEF SkipLimitExact
<1>16. Waited' = Waited
  <2>1. \A i \in (WaitFrom + 1)..got' : i \in (WaitFrom + 1)..got \/ i = got'
    BY <1>2, <1>4
  <2>2. \A i \in (WaitFrom + 1)..got : i \in (WaitFrom + 1)..got'
    BY <1>2, <1>4
  <2>3. \A i \in (WaitFrom + 1)..got : \A j \in (WaitFrom + 1)..i : j \in 1..got
    BY <1>2, <1>4
  <2>4. got' \in (WaitFrom + 1)..got'
    BY <1>4, <1>12
  <2>5. Waited' = {i \in (WaitFrom + 1)..got' :
                     \A j \in (WaitFrom + 1)..i : log[j].t # "DemandActive"}
    BY <1>4 DEF Waited
  <2>6. \A i \in (WaitFrom + 1)..got : \A j \in (WaitFrom + 1)..i : log[j].t # "DemandActive"
    BY <1>6, <2>3
  <2>7. QED
    BY <1>4, <1>5, <2>1, <2>2, <2>4, <2>5, <2>6
<1>17. FirstRequestWins'
  <2>1. Requests' = Requests
    BY <1>16 DEF Requests
  <2>2. QED
    BY <2>1 DEF Core, FirstRequestWins
<1>18. QED
  BY <1>10, <1>11, <1>13, <1>14, <1>15, <1>17 DEF Core

\* wait_for_demand_active: a turn of its loop.
LEMMA WaitInv ==
  ASSUME Core, wait_for_demand_active, UNCHANGED <<taken, log, closed>>
  PROVE  Core'
<1>1. pc = "demand_active" /\ recv
  BY DEF wait_for_demand_active
<1>2. CASE Fail("demand active")
  BY <1>1, <1>2, FailedRead DEF Failures
<1>3. CASE ~Fail("demand active") /\ parse_demand_active(Received) /\ ~Skips(Received)
  BY <1>1, <1>3, AcceptInv DEF wait_for_demand_active
<1>4. CASE ~Fail("demand active") /\ Skips(Received)
  <2>1. ~parse_demand_active(Received)
    BY <1>4 DEF Skips, IsDemandActive, parse_demand_active
  <2>2. /\ multitransport' = KeepRequest(Received) /\ turn' = turn + 1
        /\ \/ turn + 1 # MAX_SKIP /\ UNCHANGED <<pc, err>>
           \/ /\ turn + 1 = MAX_SKIP
              /\ pc' = "failed" /\ err' = "no Demand Active PDU received"
        /\ UNCHANGED <<server_net, user_id, to_join, joined, seen, share_id, out>>
    BY <1>2, <1>4, <2>1 DEF wait_for_demand_active, Skipped
  <2>3. CASE turn + 1 # MAX_SKIP
    <3>1. turn' < MAX_SKIP
      <4>1. turn \in Nat /\ turn < MAX_SKIP /\ MAX_SKIP \in Nat
        BY <1>1, ConnectionAssumption DEF Core, TypeOK
      <4>2. turn' = turn + 1 /\ turn + 1 # MAX_SKIP
        BY <2>2, <2>3
      <4>3. QED
        BY ONLY <4>1, <4>2
    <3>2. QED
      BY <1>1, <1>4, <2>2, <2>3, <3>1, SkipOnInv
  <2>4. CASE turn + 1 = MAX_SKIP
    BY <1>1, <1>4, <2>2, <2>4, SkipEndInv
  <2>5. QED
    BY <2>3, <2>4
<1>5. QED
  BY <1>2, <1>3, <1>4 DEF wait_for_demand_active

\* A turn of the drain loop disturbs none of what the wait established: the
\* Demand Active has been read, so what comes after it does not count.
LEMMA DrainRequests ==
  ASSUME Core, pc = "finalization", recv, UNCHANGED <<to_join, log>>
  PROVE  WaitFrom' = WaitFrom /\ Requests' = Requests
         /\ \E d \in (WaitFrom' + 1)..got' : log'[d].t = "DemandActive"
<1>1. TypeOK
  BY DEF Core
<1>2. got' = got + 1 /\ got \in Nat
  BY <1>1, RecvFacts, LogFacts
<1>3. WaitFrom \in Nat /\ WaitFrom' = WaitFrom
  <2>1. Len(to_join) \in Nat
    BY <1>1 DEF TypeOK
  <2>2. QED
    BY <2>1 DEF WaitFrom
<1>4. PICK d \in (WaitFrom + 1)..got : log[d].t = "DemandActive"
  BY DEF Core, ShareInv
<1>5. d \in (WaitFrom + 1)..got'
  BY <1>2, <1>3
<1>6. \A i \in (WaitFrom + 1)..got' : i \in (WaitFrom + 1)..got \/ i = got'
  BY <1>2, <1>3
<1>7. \A i \in (WaitFrom + 1)..got : i \in (WaitFrom + 1)..got'
  BY <1>2, <1>3
<1>8. Waited = {i \in (WaitFrom + 1)..got :
                  \A j \in (WaitFrom + 1)..i : log[j].t # "DemandActive"}
  BY DEF Waited
<1>9. Waited' = {i \in (WaitFrom + 1)..got' :
                   \A j \in (WaitFrom + 1)..i : log[j].t # "DemandActive"}
  BY <1>3 DEF Waited
<1>10. Waited' = Waited
  BY <1>4, <1>5, <1>6, <1>7, <1>8, <1>9
<1>11. Requests' = Requests
  BY <1>10 DEF Requests
<1>12. QED
  BY <1>3, <1>4, <1>5, <1>11

\* finalization: a turn of its drain loop.
LEMMA FinalizationInv ==
  ASSUME Core, finalization, UNCHANGED <<taken, log, closed>>
  PROVE  Core'
<1>1. pc = "finalization" /\ recv
  BY DEF finalization
<1>2. CASE Fail("finalization")
  BY <1>1, <1>2, FailedRead DEF Failures
<1>3. CASE ~Fail("finalization")
  <2>1. /\ seen' = seen + 1 \/ seen' = seen
        /\ turn' = turn + 1
        /\ pc' = IF Drained(seen', turn') THEN "active" ELSE pc
        /\ UNCHANGED <<err, server_net, user_id, to_join, joined, multitransport,
                       share_id, out>>
    BY <1>3 DEF finalization
  <2>2. TypeOK
    BY DEF Core
  <2>3. /\ got' = got + 1 /\ got' \in 1..Len(log) /\ got \in Nat
        /\ Len(log) \in Nat
    BY <1>1, <2>2, RecvFacts, LogFacts
  <2>4. got' \in 0..Len(log) /\ got' \in Nat /\ got' >= got
    BY <2>3
  <2>5. turn \in Nat /\ turn < MAX_SKIP /\ MAX_SKIP \in Nat /\ seen \in 0..FINAL_PDUS
        /\ seen < FINAL_PDUS /\ err = "none"
    BY <1>1, <2>2, ConnectionAssumption DEF Core, TypeOK, ReadInv
  <2>6. turn' \in Nat /\ seen' \in 0..FINAL_PDUS
    BY <2>1, <2>5 DEF FINAL_PDUS
  <2>7. \/ pc' = "active"
        \/ pc' = "finalization" /\ turn' < MAX_SKIP /\ seen' < FINAL_PDUS
    <3>1. CASE seen' >= FINAL_PDUS \/ turn' = MAX_SKIP
      BY <2>1, <3>1 DEF Drained
    <3>2. CASE ~(seen' >= FINAL_PDUS \/ turn' = MAX_SKIP)
      <4>1. pc' = "finalization"
        BY <1>1, <2>1, <3>2 DEF Drained
      <4>2. turn' = turn + 1
        BY <2>1
      <4>3. turn' < MAX_SKIP /\ seen' < FINAL_PDUS
        BY ONLY <2>5, <2>6, <3>2, <4>2 DEF FINAL_PDUS
      <4>4. QED
        BY <4>1, <4>3
    <3>3. QED
      BY <3>1, <3>2
  <2>8. TypeOK'
    BY <2>1, <2>2, <2>4, <2>6, <2>7 DEF TypeOK, ClientPc
  <2>9. ReadInv' /\ RequestInv'
    BY <2>1, <2>5, <2>7 DEF Core, ReadInv, RequestInv, Joining
  <2>10. /\ WaitFrom' = WaitFrom /\ Requests' = Requests
         /\ \E d \in (WaitFrom' + 1)..got' : log'[d].t = "DemandActive"
    BY <1>1, <2>1, DrainRequests
  <2>11. ShareInv'
    BY <2>7, <2>10 DEF ShareInv, Joining
  <2>12. ShareAgreement'
    BY <2>1, <2>2, <2>4, ShareKept DEF Core
  <2>13. SkipLimitExact'
    BY <2>1, <2>5 DEF SkipLimitExact
  <2>14. FirstRequestWins'
    BY <1>1, <2>1, <2>10 DEF Core, FirstRequestWins
  <2>15. QED
    BY <2>8, <2>9, <2>11, <2>12, <2>13, <2>14 DEF Core
<1>4. QED
  BY <1>2, <1>3

\* recv or send fails.
LEMMA TransportErrorInv ==
  ASSUME Core, transport_error, UNCHANGED <<taken, log, closed>>
  PROVE  Core'
<1>1. got \in 0..Len(log) /\ got' = got
  BY DEF Core, TypeOK, transport_error
<1>2. got' \in 0..Len(log) /\ got' >= got
  BY <1>1
<1>3. QED
  BY <1>2, FailInv DEF transport_error, Fail, Failures

-----------------------------------------------------------------------------
\* The invariant holds at the start ...
LEMMA InitInv ==
  ASSUME Init
  PROVE  Core
<1>1. TypeOK
  <2>1. server_net \in Offer
    BY DEF Init, Offer, Id, None
  <2>2. /\ pc = "start" /\ err = "none" /\ user_id = 0 /\ to_join = <<>> /\ joined = <<>>
        /\ turn = 0 /\ seen = 0 /\ multitransport = 0 /\ share_id = 0 /\ out = <<>>
        /\ taken = 0 /\ log = <<>> /\ got = 0
    BY DEF Init, None
  <2>3. out \in Seq(ClientPdu) /\ log \in Seq(ServerPdu) /\ Len(out) = 0 /\ Len(log) = 0
    BY <2>2
  <2>4. taken \in 0..Len(out) /\ got \in 0..Len(log) /\ seen \in 0..FINAL_PDUS
    BY <2>2, <2>3 DEF FINAL_PDUS
  <2>5. /\ user_id \in Nat /\ to_join \in Seq(Nat) /\ joined \in Seq(Nat) /\ turn \in Nat
        /\ multitransport \in Nat /\ share_id \in Nat
    BY <2>2
  <2>6. /\ pc \in ClientPc /\ err \in Errors
        /\ pc \notin {"demand_active", "finalization"}
    BY <2>2 DEF ClientPc, Errors
  <2>7. closed \in BOOLEAN
    BY DEF Init
  <2>8. QED
    BY ONLY <2>1, <2>3, <2>4, <2>5, <2>6, <2>7 DEF TypeOK
<1>2. Len(out) = 0 /\ Len(log) = 0 /\ got = 0
  BY DEF Init
<1>3. 1..0 = {}
  OBVIOUS
<1>4. ReadInv /\ ShareInv /\ RequestInv
  BY <1>2, <1>3 DEF Init, ReadInv, ShareInv, RequestInv, Joining
<1>5. ShareAgreement /\ SkipLimitExact /\ FirstRequestWins
  BY <1>2, <1>3 DEF Init, ShareAgreement, SkipLimitExact, FirstRequestWins
<1>6. QED
  BY <1>1, <1>4, <1>5 DEF Core

\* ... and every step of the client and of the server keeps it.
LEMMA NextInv ==
  ASSUME Core, [Next]_vars
  PROVE  Core'
<1>1. CASE ClientStep
  <2>1. UNCHANGED <<taken, log, closed>>
    BY <1>1 DEF ClientStep
  <2>2. CASE basic_settings_exchange
    BY <2>1, <2>2, StartInv
  <2>3. CASE \E net \in Offers : recv_connect_response(net)
    BY <2>1, <2>3, ConnectResponseInv
  <2>4. CASE recv_attach_user_confirm
    BY <2>1, <2>4, AttachUserInv
  <2>5. CASE recv_channel_join_confirm
    BY <2>1, <2>5, ChannelJoinInv
  <2>6. CASE wait_for_demand_active
    BY <2>1, <2>6, WaitInv
  <2>7. CASE finalization
    BY <2>1, <2>7, FinalizationInv
  <2>8. CASE transport_error
    BY <2>1, <2>8, TransportErrorInv
  <2>9. QED
    BY <1>1, <2>2, <2>3, <2>4, <2>5, <2>6, <2>7, <2>8 DEF ClientStep
<1>2. CASE ServerStep
  BY <1>2, ServerInv
<1>3. CASE UNCHANGED vars
  <2>1. taken \in 0..Len(out) /\ closed \in BOOLEAN
    BY DEF Core, TypeOK
  <2>2. UNCHANGED <<client, out, got>> /\ taken' = taken /\ closed' = closed /\ log' = log
    BY <1>3 DEF vars
  <2>3. taken' \in 0..Len(out) /\ closed' \in BOOLEAN
    BY <2>1, <2>2
  <2>4. QED
    BY <2>2, <2>3, ServerKeeps
<1>4. QED
  BY <1>1, <1>2, <1>3 DEF Next

-----------------------------------------------------------------------------
(* The channels *)

\* The counts of the invariant are numbers.
LEMMA CountFacts ==
  ASSUME TypeOK
  PROVE  /\ Len(to_join) \in Nat /\ Len(out) \in Nat /\ Len(log) \in Nat
         /\ taken \in Nat /\ taken <= Len(out) /\ got \in Nat /\ got <= Len(log)
         /\ Asked \in Nat /\ Asked >= 3 /\ Owed(Asked) = Asked - 1
         /\ \A t \in Nat : Owed(t) \in Nat
         /\ Owed(0) = 0 /\ Owed(1) = 1 /\ Owed(2) = 1 /\ \A t \in Nat : t >= 3 => Owed(t) = t - 1
<1>1. /\ Len(to_join) \in Nat /\ Len(out) \in Nat /\ Len(log) \in Nat
      /\ taken \in Nat /\ taken <= Len(out) /\ got \in Nat /\ got <= Len(log)
  BY DEF TypeOK
<1>2. Asked \in Nat /\ Asked >= 3
  BY <1>1 DEF Asked
<1>3. QED
  BY <1>1, <1>2 DEF Owed

\* One more PDU of the server.
LEMMA LogMore ==
  ASSUME TypeOK, NEW p \in ServerPdu, log' = Append(log, p)
  PROVE  /\ Len(log') = Len(log) + 1 /\ log'[Len(log) + 1] = p
         /\ \A i \in 1..Len(log) : log'[i] = log[i]
         /\ \A k \in 1..Len(log) : Sound(k)' => Sound(k)
         /\ \A k : k = Len(log) + 1 /\ Sound(k)' => Sound(Len(log)) /\ p.t # "Garbage"
<1>1. log \in Seq(ServerPdu) /\ Len(log) \in Nat
  BY DEF TypeOK
<1>2. /\ Len(log') = Len(log) + 1 /\ log'[Len(log) + 1] = p
      /\ \A i \in 1..Len(log) : log'[i] = log[i]
  BY <1>1
<1>3. ASSUME NEW k \in 1..Len(log), Sound(k)' PROVE Sound(k)
  <2>1. \A j \in 1..k : log'[j] = log[j]
    BY <1>1, <1>2
  <2>2. QED
    BY <1>3, <2>1 DEF Sound
<1>4. ASSUME \A j \in 1..(Len(log) + 1) : log'[j].t # "Garbage"
      PROVE  Sound(Len(log)) /\ p.t # "Garbage"
  <2>1. Len(log) + 1 \in 1..(Len(log) + 1) /\ \A j \in 1..Len(log) : j \in 1..(Len(log) + 1)
    BY <1>1
  <2>2. QED
    BY <1>2, <1>4, <2>1 DEF Sound
<1>5. QED
  BY <1>2, <1>3, <1>4 DEF Sound

\* What the client sends leaves the answers in place.
LEMMA AnswersKept ==
  ASSUME TypeOK, AnswerInv, UNCHANGED <<to_join, taken, log>>,
         Len(out') \in Nat, Len(out') >= Len(out), \A i \in 1..Len(out) : out'[i] = out[i]
  PROVE  AnswerInv'
<1>1. Asked' = Asked /\ \A k : Sound(k)' <=> Sound(k)
  BY DEF Asked, Sound
<1>2. \A k \in 3..Len(log) : k + 1 <= Len(out) =>
        k + 1 <= Len(out') /\ out'[k + 1] = out[k + 1]
  <2>1. Len(log) \in Nat /\ Len(out) \in Nat
    BY CountFacts
  <2>2. \A k \in 3..Len(log) : k + 1 <= Len(out) => k + 1 \in 1..Len(out)
    BY <2>1
  <2>3. QED
    BY <2>1, <2>2
<1>3. /\ taken' <= Asked' => /\ Len(log') >= Owed(taken')
                             /\ \A k \in 1..Len(log') : Sound(k)' => k <= Owed(taken')
      /\ taken' > Asked' => Len(log') >= Owed(Asked')
  BY <1>1 DEF AnswerInv
<1>4. \A k \in 3..Len(log') :
        Sound(k)' /\ k <= Owed(Asked') => k + 1 <= Len(out') /\ log'[k].chan = out'[k + 1].id
  BY <1>1, <1>2 DEF AnswerInv
<1>5. QED
  BY <1>3, <1>4 DEF AnswerInv

\* Nothing the server sends after the requests to join is taken for an answer to
\* one of them.
LEMMA LateAnswer ==
  ASSUME TypeOK, AnswerInv, UNCHANGED <<to_join, out>>, taken' \in Nat, taken' > Asked,
         Len(log) >= Owed(Asked),
         log' = log \/ \E p \in ServerPdu : log' = Append(log, p)
  PROVE  AnswerInv'
<1>1. Asked' = Asked /\ Len(log) \in Nat /\ Asked \in Nat /\ Owed(Asked) \in Nat
  BY CountFacts DEF Asked
<1>2. /\ Len(log') \in {Len(log), Len(log) + 1} /\ \A i \in 1..Len(log) : log'[i] = log[i]
      /\ \A k \in 1..Len(log) : Sound(k)' => Sound(k)
  BY LogMore DEF Sound
<1>3. Len(log') >= Owed(Asked)
  BY <1>1, <1>2
<1>4. ASSUME NEW k \in 3..Len(log'), Sound(k)', k <= Owed(Asked)
      PROVE  k + 1 <= Len(out) /\ log'[k].chan = out[k + 1].id
  <2>1. k \in 1..Len(log) /\ k \in 3..Len(log)
    BY <1>1, <1>2, <1>4
  <2>2. QED
    BY <1>2, <1>4, <2>1 DEF AnswerInv
<1>5. ~(taken' <= Asked)
  BY <1>1
<1>6. QED
  BY <1>1, <1>3, <1>4, <1>5 DEF AnswerInv

\* The server answers the next request of the joining phase.
LEMMA EarlyAnswer ==
  ASSUME TypeOK, AnswerInv, UNCHANGED <<to_join, out>>, NEW i \in 1..Asked,
         i = taken + 1, i <= Len(out), i # 2, taken' = i,
         NEW p \in ServerPdu, log' = Append(log, p), i > 3 => p.chan = out[i].id
  PROVE  AnswerInv'
<1>1. /\ Asked' = Asked /\ Asked \in Nat /\ Len(log) \in Nat /\ taken \in Nat /\ i \in Nat
      /\ Len(out) \in Nat /\ Asked >= 3 /\ Owed(Asked) = Asked - 1
  BY CountFacts DEF Asked
<1>2. /\ Owed(i) = Owed(taken) + 1 /\ Owed(taken) \in Nat
      /\ Owed(i) >= 3 => Owed(i) = i - 1 /\ i > 3
  <2>1. taken = i - 1 /\ (i = 1 \/ i >= 3)
    BY <1>1
  <2>2. QED
    BY <1>1, <2>1 DEF Owed
<1>3. /\ Len(log') = Len(log) + 1 /\ log'[Len(log) + 1] = p
      /\ \A j \in 1..Len(log) : log'[j] = log[j]
      /\ \A k \in 1..Len(log) : Sound(k)' => Sound(k)
      /\ \A k : k = Len(log) + 1 /\ Sound(k)' => Sound(Len(log)) /\ p.t # "Garbage"
  BY LogMore
<1>4. taken <= Asked
  BY <1>1
<1>5. Len(log) >= Owed(taken) /\ \A k \in 1..Len(log) : Sound(k) => k <= Owed(taken)
  BY <1>4 DEF AnswerInv
<1>6. Sound(Len(log)) => Len(log) = Owed(taken)
  <2>1. CASE Len(log) = 0
    BY <1>2, <1>5, <2>1
  <2>2. CASE Len(log) # 0
    <3>1. Len(log) \in 1..Len(log)
      BY <1>1, <2>2
    <3>2. QED
      BY <1>1, <1>2, <1>5, <3>1
  <2>3. QED
    BY <2>1, <2>2
<1>7. \A k \in 1..Len(log') : k \in 1..Len(log) \/ k = Len(log) + 1
  BY <1>1, <1>3
<1>8. ASSUME NEW k \in 1..Len(log'), Sound(k)' PROVE k <= Owed(i)
  <2>1. CASE k \in 1..Len(log)
    <3>1. k <= Owed(taken)
      BY <1>3, <1>5, <1>8, <2>1
    <3>2. QED
      BY <1>1, <1>2, <2>1, <3>1
  <2>2. CASE k = Len(log) + 1
    <3>1. Len(log) = Owed(taken)
      BY <1>3, <1>6, <1>8, <2>2
    <3>2. QED
      BY <1>2, <2>2, <3>1
  <2>3. QED
    BY <1>7, <2>1, <2>2
<1>9. ASSUME NEW k \in 3..Len(log'), Sound(k)', k <= Owed(Asked)
      PROVE  k + 1 <= Len(out) /\ log'[k].chan = out[k + 1].id
  <2>1. CASE k \in 1..Len(log)
    <3>1. k \in 3..Len(log)
      BY <2>1
    <3>2. QED
      BY <1>3, <1>9, <2>1, <3>1 DEF AnswerInv
  <2>2. CASE k = Len(log) + 1
    <3>1. Len(log) = Owed(taken)
      BY <1>3, <1>6, <1>9, <2>2
    <3>2. k = Owed(i) /\ k >= 3
      BY <1>1, <1>2, <2>2, <3>1
    <3>3. k + 1 = i /\ i > 3
      BY <1>1, <1>2, <3>2
    <3>4. QED
      BY <1>3, <2>2, <3>3
  <2>3. k \in 1..Len(log')
    BY <1>1, <1>3
  <2>4. QED
    BY <1>7, <2>1, <2>2, <2>3
<1>10. Len(log') >= Owed(i) /\ i <= Asked
  BY <1>1, <1>2, <1>3, <1>5
<1>11. ~(i > Asked)
  BY <1>1
<1>12. QED
  BY <1>1, <1>8, <1>9, <1>10, <1>11 DEF AnswerInv

\* Garbage is no answer, at any time.
LEMMA GarbageAnswer ==
  ASSUME TypeOK, AnswerInv, UNCHANGED <<to_join, out, taken>>,
         NEW p \in ServerPdu, p.t = "Garbage", log' = Append(log, p)
  PROVE  AnswerInv'
<1>1. /\ Asked' = Asked /\ Asked \in Nat /\ Len(log) \in Nat /\ taken \in Nat
      /\ Owed(Asked) \in Nat /\ Owed(taken) \in Nat
  BY CountFacts DEF Asked
<1>2. /\ Len(log') = Len(log) + 1
      /\ \A j \in 1..Len(log) : log'[j] = log[j]
      /\ \A k \in 1..Len(log) : Sound(k)' => Sound(k)
      /\ \A k : k = Len(log) + 1 => ~Sound(k)'
  BY LogMore
<1>3. \A k \in 1..Len(log') : Sound(k)' => k \in 1..Len(log) /\ Sound(k)
  <2>1. \A k \in 1..Len(log') : k \in 1..Len(log) \/ k = Len(log) + 1
    BY <1>1, <1>2
  <2>2. QED
    BY <1>2, <2>1
<1>4. \A k \in 3..Len(log') : Sound(k)' => k \in 3..Len(log) /\ Sound(k) /\ log'[k] = log[k]
  <2>1. \A k \in 3..Len(log') : k \in 1..Len(log')
    BY <1>1, <1>2
  <2>2. \A k \in 3..Len(log') : k \in 1..Len(log) => k \in 3..Len(log)
    BY <1>1
  <2>3. QED
    BY <1>2, <1>3, <2>1, <2>2
<1>5. /\ taken <= Asked => /\ Len(log') >= Owed(taken)
                           /\ \A k \in 1..Len(log') : Sound(k)' => k <= Owed(taken)
      /\ taken > Asked => Len(log') >= Owed(Asked)
  BY <1>1, <1>2, <1>3 DEF AnswerInv
<1>6. \A k \in 3..Len(log') :
        Sound(k)' /\ k <= Owed(Asked) => k + 1 <= Len(out) /\ log'[k].chan = out[k + 1].id
  BY <1>4 DEF AnswerInv
<1>7. QED
  BY <1>1, <1>5, <1>6 DEF AnswerInv

\* A server that has taken the Client Info PDU has taken all requests to join.
LEMMA TakenLate ==
  ASSUME TypeOK, OutInv, Taken("ClientInfo") \/ Taken("ConfirmActive")
  PROVE  taken > Asked
<1>1. Asked \in Nat /\ Asked >= 3 /\ taken \in Nat /\ Len(out) \in Nat /\ taken <= Len(out)
  BY CountFacts
<1>2. PICK i \in 1..taken : out[i].t \in {"ClientInfo", "ConfirmActive"}
  BY DEF Taken
<1>3. i \in 1..Len(out)
  BY <1>1
<1>4. i # 1 /\ i # 2 /\ i # 3
  BY <1>2, <1>3 DEF OutInv
<1>5. i \notin 4..Asked
  <2>1. \A c : Join(c).t = "ChannelJoin"
    BY DEF Join, Pdu
  <2>2. i \in 4..Asked => out[i].t = "ChannelJoin"
    BY <1>3, <2>1 DEF OutInv
  <2>3. QED
    BY <1>2, <2>2
<1>6. QED
  BY <1>1, <1>4, <1>5

\* What the server does keeps its answers in line with the requests.
LEMMA ServerAnswers ==
  ASSUME TypeOK, OutInv, AnswerInv, ServerStep
  PROVE  AnswerInv'
<1> USE ConnectionAssumption
<1>1. /\ UNCHANGED <<to_join, out>> /\ out \in Seq(ClientPdu) /\ server_net \in Offer
  BY DEF ServerStep, client, TypeOK
<1>2. /\ Asked \in Nat /\ Asked >= 3 /\ Len(log) \in Nat /\ taken \in Nat
      /\ Len(out) \in Nat /\ Owed(Asked) = Asked - 1
  BY CountFacts
<1>3. None \in Nat /\ IO_CHANNEL \in Nat
  BY DEF None, IO_CHANNEL
<1>4. ASSUME taken' = taken, Taken("ClientInfo") \/ Taken("ConfirmActive"),
             \E p \in ServerPdu : log' = Append(log, p)
      PROVE  AnswerInv'
  <2>1. taken > Asked
    BY <1>4, TakenLate
  <2>2. Len(log) >= Owed(Asked)
    BY <2>1 DEF AnswerInv
  <2>3. QED
    BY <1>1, <1>2, <1>4, <2>1, <2>2, LateAnswer
<1>5. CASE server_answer
  <2>0. PICK i, p : i = taken + 1 /\ p = out[taken + 1]
    OBVIOUS
  <2>1. taken' = i /\ i \in 1..Len(out) /\ i \in Nat /\ p = out[i]
    BY <1>2, <1>5, <2>0 DEF server_answer
  <2>2. p \in ClientPdu /\ p.id \in Nat
    <3>1. p \in ClientPdu
      BY <1>1, <2>1
    <3>2. QED
      BY <3>1 DEF ClientPdu
  <2>3. CASE i > Asked
    <3>1. p.t \notin {"ConnectInitial", "AttachUser", "ChannelJoin"}
      BY <2>1, <2>3 DEF OutInv
    <3>2. /\ Pdu("Synchronize", IO_CHANNEL, p.id) \in ServerPdu
          /\ Pdu("Control", IO_CHANNEL, p.id) \in ServerPdu
          /\ Pdu("FontMap", IO_CHANNEL, p.id) \in ServerPdu
      BY <1>3, <2>2 DEF Pdu, ServerPdu, ServerPduType, ShareDataType
    <3>3. log' = log \/ \E q \in ServerPdu : log' = Append(log, q)
      BY <1>5, <2>0, <3>1, <3>2 DEF server_answer, ServerSend
    <3>4. Len(log) >= Owed(Asked)
      <4>1. taken = Asked \/ taken > Asked
        BY <1>2, <2>0, <2>3
      <4>2. QED
        BY <1>2, <4>1 DEF AnswerInv
    <3>5. QED
      BY <1>1, <2>1, <2>3, <3>3, <3>4, LateAnswer
  <2>4. CASE i = 2
    <3>1. p.t = "ErectDomain"
      BY <2>1, <2>4 DEF OutInv
    <3>2. log' = log
      BY <1>5, <2>0, <3>1 DEF server_answer
    <3>3. taken = 1 /\ taken' = 2 /\ Owed(1) = Owed(2) /\ taken <= Asked /\ ~(2 > Asked)
      BY <1>2, <2>0, <2>1, <2>4, CountFacts
    <3>4. Asked' = Asked /\ \A k : Sound(k)' <=> Sound(k)
      BY <1>1, <3>2 DEF Asked, Sound
    <3>5. QED
      BY <1>1, <3>2, <3>3, <3>4 DEF AnswerInv
  <2>5. CASE i = 1 \/ i = 3
    <3>1. PICK q \in ServerPdu : log' = Append(log, q)
      <4>1. Pdu("ConnectResponse", None, None) \in ServerPdu
        BY <1>3 DEF Pdu, ServerPdu, ServerPduType
      <4>2. \A u \in UserIds : Pdu("AttachUserConfirm", None, u) \in ServerPdu
        BY <1>3 DEF Pdu, ServerPdu, ServerPduType, Id
      <4>3. p.t = "ConnectInitial" \/ p.t = "AttachUser"
        BY <2>1, <2>5 DEF OutInv
      <4>4. CASE p.t = "ConnectInitial"
        BY <1>5, <2>0, <4>1, <4>4 DEF server_answer, ServerSend
      <4>5. CASE p.t = "AttachUser"
        <5>1. \E u \in UserIds : ServerSend(Pdu("AttachUserConfirm", None, u))
          BY <1>5, <2>0, <4>5 DEF server_answer
        <5>2. QED
          BY <4>2, <5>1 DEF ServerSend
      <4>6. QED
        BY <4>3, <4>4, <4>5
    <3>2. i \in 1..Asked /\ i # 2 /\ ~(i > 3) /\ i <= Len(out)
      BY <1>2, <2>1, <2>5
    <3>3. QED
      BY <1>1, <2>0, <2>1, <3>1, <3>2, EarlyAnswer
  <2>6. CASE i \in 4..Asked
    <3>1. p = Join(to_join[i - 3])
      BY <2>1, <2>6 DEF OutInv
    <3>2. p.t = "ChannelJoin"
      BY <3>1 DEF Join, Pdu
    <3>3. PICK c, q : /\ c \in Confirms(p.id) /\ q = Pdu("ChannelJoinConfirm", p.id, c)
                      /\ log' = Append(log, q)
      <4>1. PICK id \in Confirms(p.id) : ServerSend(Pdu("ChannelJoinConfirm", p.id, id))
        BY <1>5, <2>0, <3>2 DEF server_answer
      <4>2. QED
        BY <4>1 DEF ServerSend
    <3>4. q \in ServerPdu /\ q.chan = out[i].id
      <4>1. c \in Nat
        BY <2>2, <3>3, ConfirmedId
      <4>2. QED
        BY <2>1, <2>2, <3>3, <4>1 DEF Pdu, ServerPdu, ServerPduType
    <3>5. log' = Append(log, q)
      BY <3>3
    <3>6. i \in 1..Asked /\ i # 2 /\ i <= Len(out)
      BY <1>2, <2>1, <2>6
    <3>7. QED
      BY <1>1, <2>0, <2>1, <3>4, <3>5, <3>6, EarlyAnswer
  <2>7. i > Asked \/ i = 1 \/ i = 2 \/ i = 3 \/ i \in 4..Asked
    BY <1>2, <2>1
  <2>8. QED
    BY <2>3, <2>4, <2>5, <2>6, <2>7
<1>6. CASE server_demand
  <2>1. Pdu("DemandActive", IO_CHANNEL, Len(log) + 1) \in ServerPdu
    BY <1>2, <1>3 DEF Pdu, ServerPdu, ServerPduType
  <2>2. QED
    BY <1>4, <1>6, <2>1 DEF server_demand, ServerSend
<1>7. CASE server_stray
  <2>1. PICK t \in StrayType : ServerSend(Pdu(t, StrayChannel(t), Len(log) + 1))
    BY <1>7 DEF server_stray
  <2>2. t \in ServerPduType
    BY DEF StrayType, ServerPduType, ShareDataType
  <2>3. StrayChannel(t) \in Nat
    <3>1. server_net.channel_ids \in Seq(Id) /\ server_net.message_channel_id \in Nat
      BY <1>1 DEF Offer
    <3>2. server_net.channel_ids # <<>> => Head(server_net.channel_ids) \in Nat
      BY <3>1 DEF Id
    <3>3. QED
      BY <1>3, <3>1, <3>2 DEF StrayChannel
  <2>4. Pdu(t, StrayChannel(t), Len(log) + 1) \in ServerPdu
    BY <1>2, <2>2, <2>3 DEF Pdu, ServerPdu
  <2>5. QED
    BY <1>4, <1>7, <2>1, <2>4 DEF server_stray, ServerSend
<1>8. CASE server_fault
  <2>1. /\ Pdu("Garbage", None, None) \in ServerPdu
        /\ Pdu("Garbage", None, None).t = "Garbage"
        /\ Pdu("BadDemandActive", IO_CHANNEL, None) \in ServerPdu
    BY <1>3 DEF Pdu, ServerPdu, ServerPduType
  <2>2. CASE ServerSend(Pdu("Garbage", None, None))
    BY <1>1, <1>8, <2>1, <2>2, GarbageAnswer DEF server_fault, ServerSend
  <2>3. CASE Taken("ClientInfo") /\ ServerSend(Pdu("BadDemandActive", IO_CHANNEL, None))
    BY <1>4, <1>8, <2>1, <2>3 DEF server_fault, ServerSend
  <2>4. QED
    BY <1>8, <2>2, <2>3 DEF server_fault
<1>9. CASE server_close
  BY <1>1, <1>2, <1>9, AnswersKept DEF server_close
<1>10. QED
  BY <1>5, <1>6, <1>7, <1>8, <1>9 DEF ServerStep

\* What was confirmed stays so, whatever the server sends later.
LEMMA JoinedStays ==
  ASSUME TypeOK, NEW n \in Nat, 2 + n <= got, JoinedUpTo(n),
         UNCHANGED <<to_join, joined, user_id>>, \A k \in 1..got : log'[k] = log[k]
  PROVE  JoinedUpTo(n)'
<1>1. \A m : Wanted(m)' = Wanted(m)
  BY DEF Wanted
<1>2. \A i \in Wanted(n) : 2 + i \in 1..got
  BY CountFacts DEF Wanted
<1>3. QED
  BY <1>1, <1>2 DEF JoinedUpTo

\* The server, and what the client has sent and read.
LEMMA ServerJoins ==
  ASSUME Core, JoinInv, ServerStep
  PROVE  JoinInv'
<1> SUFFICES ASSUME pc # "failed" PROVE OutInv' /\ AnswerInv' /\ ChannelInv'
  BY DEF JoinInv, ServerStep, client
<1>1. OutInv /\ AnswerInv /\ ChannelInv /\ TypeOK /\ ReadInv
  BY DEF JoinInv, Core
<1>2. /\ pc' = pc /\ to_join' = to_join /\ out' = out /\ turn' = turn /\ joined' = joined
      /\ user_id' = user_id /\ got' = got
  BY DEF ServerStep, client
<1>3. Asked' = Asked
  BY <1>2 DEF Asked
<1>4. OutInv'
  BY <1>1, <1>2, <1>3 DEF OutInv
<1>5. AnswerInv'
  BY <1>1, ServerAnswers
<1>6. \A k \in 1..got : log'[k] = log[k]
  <2>1. Len(log) \in Nat /\ got \in Nat /\ got <= Len(log) /\ log \in Seq(ServerPdu)
    BY <1>1, CountFacts DEF TypeOK
  <2>2. log' = log \/ \E p : log' = Append(log, p)
    BY DEF ServerStep, server_answer, server_demand, server_stray, server_fault, server_close,
           ServerSend
  <2>3. QED
    BY <2>1, <2>2
<1>7. ASSUME NEW n \in Nat, 2 + n <= got, JoinedUpTo(n) PROVE JoinedUpTo(n)'
  BY <1>1, <1>2, <1>6, <1>7, JoinedStays
<1>8. pc = "channel_join" => JoinedUpTo(turn - 1)'
  <2> SUFFICES ASSUME pc = "channel_join" PROVE JoinedUpTo(turn - 1)'
    OBVIOUS
  <2>0. turn \in 1..Len(to_join) /\ got = 1 + turn /\ Len(to_join) \in Nat
    BY <1>1, CountFacts DEF ReadInv
  <2>1. turn - 1 \in Nat /\ 2 + (turn - 1) <= got /\ JoinedUpTo(turn - 1)
    <3>1. turn - 1 \in Nat /\ 2 + (turn - 1) <= got
      BY <2>0
    <3>2. JoinedUpTo(turn - 1)
      BY <1>1 DEF ChannelInv
    <3>3. QED
      BY <3>1, <3>2
  <2>2. \A k : k = turn - 1 => JoinedUpTo(k)'
    BY <1>7, <2>1
  <2>3. QED
    BY <1>2, <2>2 DEF JoinedUpTo, Wanted
<1>9. pc \in {"demand_active", "finalization", "active"} => JoinedUpTo(Len(to_join))'
  <2>1. Len(to_join) \in Nat /\ Owed(Asked) = 2 + Len(to_join) /\ got \in Nat
    BY <1>1, CountFacts DEF Asked
  <2>2. pc \in {"demand_active", "finalization", "active"} =>
          \A k : k = Len(to_join) => JoinedUpTo(k)'
    BY <1>1, <1>7, <2>1 DEF ChannelInv
  <2>3. QED
    BY <1>2, <2>2 DEF JoinedUpTo, Wanted
<1>10. ChannelInv'
  BY <1>1, <1>2, <1>3, <1>6, <1>8, <1>9 DEF ChannelInv
<1>11. QED
  BY <1>4, <1>5, <1>10

\* The channels are kept one by one.
LEMMA JoinedMore ==
  ASSUME to_join \in Seq(Nat), joined \in Seq(Nat), NEW t \in 1..Len(to_join),
         NEW id \in Nat, id = log[2 + t].id, JoinedUpTo(t - 1),
         to_join' = to_join, user_id' = user_id, log' = log,
         joined' = KeepJoined(to_join[t], id)
  PROVE  JoinedUpTo(t)'
<1> DEFINE W == Wanted(t - 1)
           c == to_join[t]
<1>1. Len(to_join) \in Nat /\ t \in Nat /\ t - 1 \in Nat /\ c \in Nat
  OBVIOUS
<1>2. \A n : Wanted(n)' = Wanted(n)
  BY DEF Wanted
<1>3. IsFiniteSet(W) /\ Cardinality(W) \in Nat
  <2>1. IsFiniteSet(1..(t - 1)) /\ W \in SUBSET (1..(t - 1))
    BY <1>1, FS_Interval DEF Wanted
  <2> HIDE DEF W
  <2>2. IsFiniteSet(W)
    BY <2>1, FS_Subset
  <2>3. QED
    BY <2>2, FS_CardinalityType
<1>4. Len(joined) = Cardinality(W) /\ \A i \in W : joined[Cardinality(Wanted(i))] = log[2 + i].id
  BY DEF JoinedUpTo
<1>5. CASE c \in {user_id, IO_CHANNEL}
  <2>1. Wanted(t) = W
    BY <1>1, <1>5 DEF Wanted
  <2>2. joined' = joined
    BY <1>5 DEF KeepJoined
  <2>3. QED
    BY <1>2, <1>4, <2>1, <2>2 DEF JoinedUpTo
<1>6. CASE c \notin {user_id, IO_CHANNEL}
  <2>1. Wanted(t) = W \cup {t} /\ t \notin W
    BY <1>1, <1>6 DEF Wanted
  <2>2. \A i \in W : Wanted(i) \in SUBSET W /\ i \in Wanted(i)
    BY <1>1 DEF Wanted
  <2> HIDE DEF W
  <2>3. Cardinality(Wanted(t)) = Cardinality(W) + 1
    BY <1>3, <2>1, FS_AddElement
  <2>4. joined' = Append(joined, id)
    BY <1>6 DEF KeepJoined
  <2> HIDE DEF c
  <2>5. /\ Len(joined') = Cardinality(W) + 1 /\ joined'[Cardinality(W) + 1] = id
        /\ \A j \in 1..Cardinality(W) : joined'[j] = joined[j]
    BY <1>1, <1>3, <1>4, <2>4
  <2>6. ASSUME NEW i \in W PROVE joined'[Cardinality(Wanted(i))] = log[2 + i].id
    <3> DEFINE V == Wanted(i)
    <3>1. V \in SUBSET W /\ V # {}
      BY <2>2
    <3> HIDE DEF V
    <3>2. IsFiniteSet(V) /\ Cardinality(V) <= Cardinality(W)
      BY <1>3, <3>1, FS_Subset
    <3>3. Cardinality(V) \in Nat /\ Cardinality(V) # 0
      BY <3>1, <3>2, FS_CardinalityType, FS_EmptySet
    <3>4. Cardinality(V) \in 1..Cardinality(W)
      BY <1>3, <3>2, <3>3
    <3>5. QED
      BY <1>4, <2>5, <3>4 DEF V
  <2>7. \A i \in Wanted(t) : joined'[Cardinality(Wanted(i))] = log[2 + i].id
    BY <2>1, <2>3, <2>5, <2>6
  <2>8. QED
    BY <1>2, <2>3, <2>5, <2>7 DEF JoinedUpTo
<1>7. QED
  BY <1>5, <1>6

\* No channel yet.
LEMMA JoinedNone ==
  /\ joined = <<>> => JoinedUpTo(0)
  /\ joined' = <<>> => JoinedUpTo(0)'
<1>1. Wanted(0) = {} /\ Wanted(0)' = {}
  BY DEF Wanted
<1>2. QED
  BY <1>1, FS_EmptySet DEF JoinedUpTo

\* What is sent comes after what was sent before.
LEMMA SentAfter ==
  ASSUME TypeOK, NEW pdus \in Seq(ClientPdu), Send(pdus)
  PROVE  /\ Len(out) \in Nat /\ Len(pdus) \in Nat /\ Len(out') = Len(out) + Len(pdus)
         /\ \A i \in 1..Len(out) : out'[i] = out[i]
         /\ \A j \in 1..Len(pdus) : out'[Len(out) + j] = pdus[j]
<1>1. out \in Seq(ClientPdu) /\ out' = out \o pdus
  BY DEF TypeOK, Send
<1>2. QED
  BY <1>1

\* Connect Initial.
LEMMA StartJoins ==
  ASSUME Core, JoinInv, basic_settings_exchange, UNCHANGED <<taken, log, closed>>
  PROVE  JoinInv'
<1> DEFINE ps == <<Pdu("ConnectInitial", None, None)>>
<1>1. /\ TypeOK /\ ReadInv /\ pc = "start" /\ pc' = "connect_response" /\ Send(ps)
      /\ UNCHANGED <<to_join, joined, user_id, turn, got>>
  BY DEF Core, basic_settings_exchange
<1>2. ps \in Seq(ClientPdu) /\ Len(ps) = 1 /\ ps[1].t = "ConnectInitial"
  BY DEF Pdu, ClientPdu, ClientPduType, None
<1> HIDE DEF ps
<1>3. OutInv /\ AnswerInv /\ ChannelInv
  BY <1>1 DEF JoinInv
<1>4. /\ Len(out) \in Nat /\ Len(out') = Len(out) + 1
      /\ \A i \in 1..Len(out) : out'[i] = out[i]
      /\ out'[Len(out) + 1] = ps[1]
  <2>1. /\ Len(out) \in Nat /\ Len(out') = Len(out) + Len(ps)
        /\ \A i \in 1..Len(out) : out'[i] = out[i]
        /\ \A j \in 1..Len(ps) : out'[Len(out) + j] = ps[j]
    BY <1>1, <1>2, SentAfter
  <2>2. QED
    BY <1>2, <2>1
<1>5. Len(out) = 0 /\ to_join = <<>> /\ joined = <<>> /\ got = 0
  BY <1>1, <1>3 DEF OutInv, ChannelInv, ReadInv
<1>6. Asked' = 3
  BY <1>1, <1>5 DEF Asked
<1>7. OutInv'
  <2>1. Len(out') = 1 /\ out'[1].t = "ConnectInitial"
    BY <1>2, <1>4, <1>5
  <2>2. QED
    BY <1>1, <1>5, <1>6, <2>1 DEF OutInv
<1>8. AnswerInv'
  BY <1>1, <1>3, <1>4, AnswersKept
<1>9. ChannelInv'
  BY <1>1, <1>5 DEF ChannelInv
<1>10. QED
  BY <1>7, <1>8, <1>9 DEF JoinInv

\* Connect Response: Erect Domain and Attach User.
LEMMA ConnectResponseJoins ==
  ASSUME Core, JoinInv, NEW net \in Offers, recv_connect_response(net),
         UNCHANGED <<taken, log, closed>>, pc' # "failed"
  PROVE  JoinInv'
<1> DEFINE ps == <<Pdu("ErectDomain", None, None), Pdu("AttachUser", None, None)>>
<1>1. /\ TypeOK /\ ReadInv /\ pc = "connect_response" /\ pc' = "attach_user_confirm" /\ Send(ps)
      /\ UNCHANGED <<to_join, joined, user_id, turn>> /\ recv /\ Received.t = "ConnectResponse"
  BY DEF Core, recv_connect_response, Fail, parse_connect_response
<1>2. ps \in Seq(ClientPdu) /\ Len(ps) = 2 /\ ps[1].t = "ErectDomain" /\ ps[2].t = "AttachUser"
  BY DEF Pdu, ClientPdu, ClientPduType, None
<1> HIDE DEF ps
<1>3. OutInv /\ AnswerInv /\ ChannelInv
  BY <1>1 DEF JoinInv
<1>4. /\ Len(out) \in Nat /\ Len(out') = Len(out) + 2
      /\ \A i \in 1..Len(out) : out'[i] = out[i]
      /\ out'[Len(out) + 1] = ps[1] /\ out'[Len(out) + 2] = ps[2]
  <2>1. /\ Len(out) \in Nat /\ Len(out') = Len(out) + Len(ps)
        /\ \A i \in 1..Len(out) : out'[i] = out[i]
        /\ \A j \in 1..Len(ps) : out'[Len(out) + j] = ps[j]
    BY <1>1, <1>2, SentAfter
  <2>2. QED
    BY <1>2, <2>1
<1>5. Len(out) = 1 /\ to_join = <<>> /\ joined = <<>> /\ got = 0
  BY <1>1, <1>3 DEF OutInv, ChannelInv, ReadInv
<1>6. Asked' = 3
  BY <1>1, <1>5 DEF Asked
<1>7. OutInv'
  <2>1. /\ Len(out') = 3 /\ out'[1].t = "ConnectInitial" /\ out'[2].t = "ErectDomain"
        /\ out'[3].t = "AttachUser"
    BY <1>2, <1>3, <1>4, <1>5 DEF OutInv
  <2>2. QED
    BY <1>1, <1>5, <1>6, <2>1 DEF OutInv
<1>8. AnswerInv'
  BY <1>1, <1>3, <1>4, AnswersKept
<1>9. ChannelInv'
  <2>1. got' = 1 /\ log'[1].t = "ConnectResponse"
    BY <1>1, <1>5, RecvFacts
  <2>2. QED
    BY <1>1, <1>5, <2>1 DEF ChannelInv
<1>10. QED
  BY <1>7, <1>8, <1>9 DEF JoinInv

\* Attach User Confirm: the first request to join.  The server has answered
\* nothing yet that could be taken for a confirmation.
LEMMA AttachUserJoins ==
  ASSUME Core, JoinInv, recv_attach_user_confirm, UNCHANGED <<taken, log, closed>>,
         pc' # "failed"
  PROVE  JoinInv'
<1>0. PICK u : u = Received.id
  OBVIOUS
<1> DEFINE ps == <<Join(u)>>
           chans == ToJoin(u, server_net)
<1>1. /\ TypeOK /\ ReadInv /\ pc = "attach_user_confirm" /\ pc' = "channel_join" /\ Send(ps)
      /\ to_join' = chans /\ user_id' = u /\ turn' = 1 /\ joined' = joined
      /\ recv /\ Received.t = "AttachUserConfirm"
  BY <1>0 DEF Core, recv_attach_user_confirm, Fail, parse_attach_user_confirm
<1>2. u \in Nat
  BY <1>0, <1>1, RecvFacts
<1>3. chans \in Seq(Nat) /\ Len(chans) >= 2 /\ chans[1] = u
  <2>1. server_net \in Offer
    BY <1>1 DEF TypeOK
  <2>2. chans \in Seq(Nat) /\ Len(chans) >= 2
    BY <1>2, <2>1, ToJoinFacts
  <2> DEFINE a == <<u, IO_CHANNEL>>
             b == server_net.channel_ids
             c == IF server_net.message_channel_id = None THEN <<>>
                  ELSE <<server_net.message_channel_id>>
  <2>3. /\ a \in Seq(Nat) /\ Len(a) = 2 /\ a[1] = u /\ b \in Seq(Nat) /\ c \in Seq(Nat)
        /\ chans = (a \o b) \o c
    BY <1>2, <2>1 DEF IO_CHANNEL, Offer, Id, ToJoin
  <2> HIDE DEF a, b, c, chans
  <2>4. a \o b \in Seq(Nat) /\ Len(a \o b) >= 2 /\ (a \o b)[1] = u
    <3>1. a \in Seq(Nat) /\ b \in Seq(Nat) /\ 1 \in 1..Len(a)
      BY <2>3
    <3>2. a \o b \in Seq(Nat) /\ Len(a \o b) = Len(a) + Len(b) /\ Len(b) \in Nat
      BY ONLY <3>1, ConcatFacts
    <3>3. (a \o b)[1] = a[1]
      BY ONLY <3>1
    <3>4. QED
      BY <2>3, <3>2, <3>3
  <2>5. ((a \o b) \o c)[1] = (a \o b)[1]
    BY <2>3, <2>4
  <2>6. QED
    BY <2>2, <2>3, <2>4, <2>5
<1>4. ps \in Seq(ClientPdu) /\ Len(ps) = 1 /\ ps[1] = Join(u)
  BY <1>2 DEF Join, Pdu, ClientPdu, ClientPduType, None
<1> HIDE DEF ps, chans
<1>5. OutInv /\ AnswerInv /\ ChannelInv
  BY <1>1 DEF JoinInv
<1>6. /\ Len(out) = 3 /\ Len(out') = 4 /\ out'[4] = Join(u)
      /\ \A i \in 1..3 : out'[i] = out[i]
  <2>1. /\ Len(out) \in Nat /\ Len(out') = Len(out) + Len(ps)
        /\ \A i \in 1..Len(out) : out'[i] = out[i]
        /\ \A j \in 1..Len(ps) : out'[Len(out) + j] = ps[j]
    BY <1>1, <1>4, SentAfter
  <2>2. Len(out) = 3
    BY <1>1, <1>5 DEF OutInv
  <2>3. QED
    BY <1>4, <2>1, <2>2
<1>7. to_join = <<>> /\ joined = <<>> /\ got = 1
  BY <1>1, <1>5 DEF OutInv, ChannelInv, ReadInv
<1>8. PICK n : n = Len(chans)
  OBVIOUS
<1>9. /\ n \in Nat /\ n >= 2 /\ Asked = 3 /\ Asked' = 3 + n
      /\ Owed(Asked) = 2 /\ Owed(Asked') = 2 + n
  BY <1>1, <1>3, <1>7, <1>8 DEF Asked, Owed
<1>10. OutInv'
  <2>1. /\ out'[1].t = "ConnectInitial" /\ out'[2].t = "ErectDomain" /\ out'[3].t = "AttachUser"
    BY <1>5, <1>6 DEF OutInv
  <2>2. out'[4] = Join(to_join'[1])
    BY <1>1, <1>3, <1>6
  <2>3. ASSUME NEW i \in 1..Len(out')
        PROVE  /\ i = 1 => out'[i].t = "ConnectInitial"
               /\ i = 2 => out'[i].t = "ErectDomain"
               /\ i = 3 => out'[i].t = "AttachUser"
               /\ i \in 4..Asked' => out'[i] = Join(to_join'[i - 3])
               /\ ~(i > Asked')
    <3>1. (i = 1 \/ i = 2 \/ i = 3 \/ i = 4) /\ 4 <= 3 + n
      BY <1>6, <1>9
    <3>2. i \in 4..Asked' => i = 4 /\ i - 3 = 1
      BY <1>9, <3>1
    <3>3. QED
      BY <1>9, <2>1, <2>2, <3>1, <3>2
  <2>4. QED
    BY <1>1, <1>6, <2>3 DEF OutInv
<1>11. AnswerInv'
  <2>1. taken \in Nat /\ taken <= 3 /\ Owed(taken) \in Nat /\ Owed(taken) <= 2
    <3>1. taken \in Nat /\ taken <= 3
      BY <1>1, <1>6, CountFacts
    <3>2. QED
      BY <3>1 DEF Owed
  <2>2. Len(log) >= Owed(taken) /\ \A k \in 1..Len(log) : Sound(k) => k <= Owed(taken)
    BY <1>5, <1>9, <2>1 DEF AnswerInv
  <2>3. \A k : Sound(k)' <=> Sound(k)
    BY DEF Sound
  <2>4. Len(log) \in Nat
    BY <1>1, CountFacts
  <2>5. \A k \in 3..Len(log) : ~Sound(k)
    BY <2>1, <2>2, <2>4
  <2>6. ~(taken > Asked')
    BY <1>9, <2>1
  <2>7. QED
    BY <2>2, <2>3, <2>5, <2>6 DEF AnswerInv
<1>12. ChannelInv'
  <2>1. got' = 2 /\ log'[2].t = "AttachUserConfirm"
    BY <1>1, <1>7, RecvFacts
  <2>2. log'[1].t # "Garbage"
    BY <1>5, <1>7, <1>9 DEF ChannelInv
  <2>3. turn' - 1 = 0
    BY <1>1
  <2>4. \A k : k = turn' - 1 => JoinedUpTo(k)'
    BY <1>1, <1>7, <2>3, JoinedNone DEF JoinedUpTo, Wanted
  <2>5. JoinedUpTo(turn - 1)'
    BY <2>4 DEF JoinedUpTo, Wanted
  <2>6. QED
    BY <1>1, <2>1, <2>2, <2>5 DEF ChannelInv
<1>13. QED
  BY <1>10, <1>11, <1>12 DEF JoinInv

\* Once the requests to join are sent, the client sends no other.
LEMMA OutLate ==
  ASSUME TypeOK, OutInv, Len(out) >= Asked, to_join' = to_join,
         pc' \in {"demand_active", "finalization", "active"},
         NEW ps \in Seq(ClientPdu), Send(ps), Len(out) + Len(ps) > Asked,
         \A j \in 1..Len(ps) : ps[j].t \notin {"ConnectInitial", "AttachUser", "ChannelJoin"}
  PROVE  OutInv'
<1>1. /\ Len(out) \in Nat /\ Len(ps) \in Nat /\ Len(out') = Len(out) + Len(ps)
      /\ \A i \in 1..Len(out) : out'[i] = out[i]
      /\ \A j \in 1..Len(ps) : out'[Len(out) + j] = ps[j]
  BY SentAfter
<1>2. Asked' = Asked /\ Asked \in Nat /\ Asked >= 3
  BY CountFacts DEF Asked
<1>3. ASSUME NEW i \in 1..Len(out')
      PROVE  /\ i = 1 => out'[i].t = "ConnectInitial"
             /\ i = 2 => out'[i].t = "ErectDomain"
             /\ i = 3 => out'[i].t = "AttachUser"
             /\ i \in 4..Asked => out'[i] = Join(to_join[i - 3])
             /\ i > Asked => out'[i].t \notin {"ConnectInitial", "AttachUser", "ChannelJoin"}
  <2>1. CASE i \in 1..Len(out)
    BY <1>1, <2>1 DEF OutInv
  <2>2. CASE i \notin 1..Len(out)
    <3>1. PICK j \in 1..Len(ps) : i = Len(out) + j
      <4>1. i - Len(out) \in 1..Len(ps) /\ i = Len(out) + (i - Len(out))
        BY <1>1, <2>2
      <4>2. QED
        BY <4>1
    <3>2. i > Asked /\ i # 1 /\ i # 2 /\ i # 3 /\ i \notin 4..Asked
      BY <1>1, <1>2, <3>1
    <3>3. QED
      BY <1>1, <3>1, <3>2
  <2>3. QED
    BY <2>1, <2>2
<1>4. Len(out') > Asked
  BY <1>1
<1>5. QED
  BY <1>2, <1>3, <1>4 DEF OutInv

\* The confirmation the client reads in a turn of the join loop is that of its
\* request (recv_channel_join_confirm).
LEMMA ConfirmRead ==
  ASSUME Core, JoinInv, pc = "channel_join", recv, Received.t = "ChannelJoinConfirm"
  PROVE  /\ got' = 2 + turn /\ turn \in 1..Len(to_join) /\ got' \in 3..Owed(Asked)
         /\ Owed(Asked) = 2 + Len(to_join) /\ Len(to_join) \in Nat
         /\ Received = log[got'] /\ Received.chan = to_join[turn] /\ Received.id \in Nat
<1>1. TypeOK /\ ReadInv /\ OutInv /\ AnswerInv /\ ChannelInv
  BY DEF Core, JoinInv
<1>2. turn \in 1..Len(to_join) /\ got = 1 + turn /\ Len(out) = 3 + turn
  BY <1>1 DEF ReadInv, OutInv
<1>3. got' = got + 1 /\ got' \in 1..Len(log) /\ Received = log[got']
  BY <1>1, RecvFacts
<1>4. /\ Len(to_join) \in Nat /\ Len(log) \in Nat /\ got \in Nat /\ Asked = 3 + Len(to_join)
      /\ Owed(Asked) = 2 + Len(to_join)
  BY <1>1, CountFacts DEF Asked
<1>5. PICK k : k = got'
  OBVIOUS
<1>6. k = 2 + turn /\ k \in 3..Len(log) /\ k <= Owed(Asked) /\ k - 1 = got
  BY <1>2, <1>3, <1>4, <1>5
<1>7. Sound(k)
  <2> SUFFICES ASSUME NEW j \in 1..k PROVE log[j].t # "Garbage"
    BY DEF Sound
  <2>1. CASE j = k
    BY <1>3, <1>5, <2>1
  <2>2. CASE j # k
    <3>1. j \in 1..got /\ j <= Owed(Asked)
      BY <1>4, <1>6, <2>2
    <3>2. QED
      BY <1>1, <3>1 DEF ChannelInv
  <2>3. QED
    BY <2>1, <2>2
<1>8. log[k].chan = out[k + 1].id
  BY <1>1, <1>6, <1>7 DEF AnswerInv
<1>9. PICK i : i = k + 1
  OBVIOUS
<1>10. i \in 1..Len(out) /\ i \in 4..Asked /\ i - 3 = turn
  BY <1>2, <1>4, <1>6, <1>9
<1>11. out[i] = Join(to_join[turn])
  BY <1>1, <1>10 DEF OutInv
<1>12. out[i].id = to_join[turn]
  BY <1>11 DEF Join, Pdu
<1>13. Received.id \in Nat
  BY <1>1, RecvFacts
<1>14. QED
  BY <1>2, <1>3, <1>4, <1>5, <1>6, <1>8, <1>9, <1>12, <1>13

\* Channel Join Confirm.
LEMMA ChannelJoins ==
  ASSUME Core, JoinInv, recv_channel_join_confirm, UNCHANGED <<taken, log, closed>>,
         pc' # "failed"
  PROVE  JoinInv'
<1>1. TypeOK /\ ReadInv /\ pc = "channel_join" /\ recv /\ pc # "failed"
  BY DEF Core, recv_channel_join_confirm
<1>2. /\ Received.t = "ChannelJoinConfirm"
      /\ joined' = KeepJoined(to_join[turn], Received.id)
      /\ UNCHANGED <<user_id, to_join>>
      /\ \/ /\ turn < Len(to_join) /\ Send(<<Join(to_join[turn + 1])>>)
            /\ turn' = turn + 1 /\ UNCHANGED pc
         \/ /\ turn = Len(to_join) /\ Send(send_client_info)
            /\ turn' = 0 /\ pc' = "demand_active"
  BY DEF recv_channel_join_confirm, Fail, parse_channel_join_confirm
<1>3. OutInv /\ AnswerInv /\ ChannelInv
  BY <1>1 DEF JoinInv
<1>4. PICK t, n : t = turn /\ n = Len(to_join)
  OBVIOUS
<1>5. /\ got' = 2 + t /\ t \in 1..n /\ got' \in 3..Owed(Asked) /\ Owed(Asked) = 2 + n /\ n \in Nat
      /\ Received = log[got'] /\ Received.id \in Nat
  BY <1>1, <1>2, <1>4, ConfirmRead
<1>6. to_join \in Seq(Nat) /\ joined \in Seq(Nat) /\ Len(out) = 3 + t /\ got = 1 + t
  BY <1>1, <1>3, <1>4 DEF TypeOK, OutInv, ReadInv
<1>7. JoinedUpTo(t)'
  <2>1. JoinedUpTo(t - 1)
    BY <1>1, <1>3, <1>4 DEF ChannelInv
  <2>2. PICK id : id = Received.id
    OBVIOUS
  <2>3. id \in Nat /\ id = log[2 + t].id /\ joined' = KeepJoined(to_join[t], id)
    BY <1>2, <1>4, <1>5, <2>2
  <2>4. QED
    BY <1>2, <1>4, <1>5, <1>6, <2>1, <2>3, JoinedMore
<1>8. Asked' = Asked /\ Asked = 3 + n
  BY <1>2, <1>4 DEF Asked
<1>9. ASSUME NEW k \in 1..got'
      PROVE  log[k].t # "Garbage" /\ (k >= 3 => log[k].t = "ChannelJoinConfirm")
  <2>1. CASE k = got'
    BY <1>2, <1>5, <2>1
  <2>2. CASE k # got'
    <3>1. k \in 1..got /\ k <= Owed(Asked) /\ (k >= 3 => k \in 3..got)
      BY <1>5, <1>6, <2>2
    <3>2. QED
      BY <1>3, <3>1 DEF ChannelInv
  <2>3. QED
    BY <2>1, <2>2
<1>10. \A k \in 3..got' : k \in 1..got' /\ k >= 3
  BY <1>5
<1>11. CASE /\ turn < Len(to_join) /\ Send(<<Join(to_join[turn + 1])>>)
            /\ turn' = turn + 1 /\ UNCHANGED pc
  <2>1. PICK ps : ps = <<Join(to_join[t + 1])>>
    OBVIOUS
  <2>2. t + 1 \in 1..n /\ Send(ps)
    BY <1>4, <1>5, <1>11, <2>1
  <2>3. to_join[t + 1] \in Nat
    BY <1>4, <1>6, <2>2
  <2>4. ps \in Seq(ClientPdu) /\ Len(ps) = 1 /\ ps[1] = Join(to_join[t + 1])
    BY <2>1, <2>3 DEF Join, Pdu, ClientPdu, ClientPduType, None
  <2>5. /\ Len(out) \in Nat /\ Len(out') = Len(out) + Len(ps)
        /\ \A i \in 1..Len(out) : out'[i] = out[i]
        /\ \A j \in 1..Len(ps) : out'[Len(out) + j] = ps[j]
    BY <1>1, <2>2, <2>4, SentAfter
  <2>6. /\ Len(out') = 4 + t /\ out'[4 + t] = Join(to_join[t + 1])
        /\ \A i \in 1..(3 + t) : out'[i] = out[i]
    BY <1>5, <1>6, <2>4, <2>5
  <2>7. AnswerInv'
    BY <1>1, <1>2, <1>3, <1>5, <1>6, <2>6, AnswersKept
  <2>8. ASSUME NEW i \in 1..Len(out')
        PROVE  /\ i = 1 => out'[i].t = "ConnectInitial"
               /\ i = 2 => out'[i].t = "ErectDomain"
               /\ i = 3 => out'[i].t = "AttachUser"
               /\ i \in 4..Asked => out'[i] = Join(to_join[i - 3])
               /\ ~(i > Asked)
    <3>1. ~(i > Asked)
      BY <1>5, <1>8, <2>2, <2>6
    <3>2. CASE i \in 1..(3 + t)
      <4>1. i \in 1..Len(out) /\ out'[i] = out[i]
        BY <1>6, <2>6, <3>2
      <4>2. QED
        BY <1>3, <3>1, <4>1 DEF OutInv
    <3>3. CASE i = 4 + t
      <4>1. i # 1 /\ i # 2 /\ i # 3 /\ i - 3 = t + 1
        BY <1>5, <3>3
      <4>2. QED
        BY <2>6, <3>1, <3>3, <4>1
    <3>4. QED
      BY <1>5, <2>6, <3>2, <3>3
  <2>9. OutInv'
    <3>1. pc' = "channel_join" /\ Len(out') = 3 + turn'
      BY <1>1, <1>4, <1>5, <1>11, <2>6
    <3>2. QED
      BY <1>2, <1>8, <2>8, <3>1 DEF OutInv
  <2>10. ChannelInv'
    <3>1. turn' - 1 = t
      BY <1>4, <1>5, <1>11
    <3>2. JoinedUpTo(turn - 1)'
      BY <1>7, <3>1 DEF JoinedUpTo, Wanted
    <3>3. QED
      BY <1>1, <1>8, <1>9, <1>10, <1>11, <3>2 DEF ChannelInv
  <2>11. QED
    BY <2>7, <2>9, <2>10 DEF JoinInv
<1>12. CASE /\ turn = Len(to_join) /\ Send(send_client_info)
            /\ turn' = 0 /\ pc' = "demand_active"
  <2>1. PICK ps : ps = send_client_info
    OBVIOUS
  <2>2. ps \in Seq(ClientPdu) /\ Len(ps) = 1 /\ ps[1].t = "ClientInfo" /\ Send(ps)
    BY <1>12, <2>1 DEF send_client_info, Pdu, ClientPdu, ClientPduType, None, IO_CHANNEL
  <2>3. /\ Len(out) \in Nat /\ Len(out') = Len(out) + Len(ps)
        /\ \A i \in 1..Len(out) : out'[i] = out[i]
    BY <1>1, <2>2, SentAfter
  <2>4. AnswerInv'
    BY <1>1, <1>2, <1>3, <2>2, <2>3, AnswersKept
  <2>5. t = n /\ Len(out) >= Asked /\ Len(out) + Len(ps) > Asked
    BY <1>4, <1>5, <1>6, <1>8, <1>12, <2>2
  <2>6. \A j \in 1..Len(ps) : ps[j].t \notin {"ConnectInitial", "AttachUser", "ChannelJoin"}
    BY <2>2
  <2>7. OutInv'
    BY <1>1, <1>2, <1>3, <1>12, <2>2, <2>5, <2>6, OutLate
  <2>8. ChannelInv'
    <3>1. JoinedUpTo(Len(to_join))'
      BY <1>2, <1>4, <1>7, <2>5 DEF JoinedUpTo, Wanted
    <3>2. got' >= Owed(Asked)
      BY <1>5, <2>5
    <3>3. QED
      BY <1>8, <1>9, <1>10, <1>12, <3>1, <3>2 DEF ChannelInv
  <2>9. QED
    BY <2>4, <2>7, <2>8 DEF JoinInv
<1>13. QED
  BY <1>2, <1>11, <1>12

\* Waiting for the share and finalization leave the channels as they are.
LEMMA LateJoins ==
  ASSUME TypeOK, JoinInv, UNCHANGED <<taken, log>>, UNCHANGED <<to_join, joined, user_id>>,
         pc \in {"demand_active", "finalization"},
         pc' \in {"demand_active", "finalization", "active"}, recv,
         NEW ps \in Seq(ClientPdu), Send(ps),
         \A j \in 1..Len(ps) : ps[j].t \notin {"ConnectInitial", "AttachUser", "ChannelJoin"}
  PROVE  JoinInv'
<1>1. OutInv /\ AnswerInv /\ ChannelInv
  BY DEF JoinInv
<1>2. /\ Len(out) \in Nat /\ Len(ps) \in Nat /\ Len(out') = Len(out) + Len(ps)
      /\ \A i \in 1..Len(out) : out'[i] = out[i]
  BY SentAfter
<1>3. /\ Asked \in Nat /\ Asked' = Asked /\ Len(out) > Asked /\ got \in Nat /\ got' = got + 1
      /\ Owed(Asked) \in Nat /\ got >= Owed(Asked) /\ JoinedUpTo(Len(to_join))
  BY <1>1, CountFacts DEF Asked, OutInv, ChannelInv, recv
<1>4. OutInv'
  <2>1. Len(out) >= Asked /\ Len(out) + Len(ps) > Asked
    BY <1>2, <1>3
  <2>2. QED
    BY <1>1, <2>1, OutLate
<1>5. AnswerInv'
  BY <1>1, <1>2, AnswersKept
<1>6. JoinedUpTo(Len(to_join))'
  BY <1>3 DEF JoinedUpTo, Wanted
<1>7. ChannelInv'
  <2>1. \A k \in 1..got' : k <= Owed(Asked) => k \in 1..got
    BY <1>3
  <2>2. \A k \in 3..got' : k <= Owed(Asked) => k \in 3..got
    BY <1>3
  <2>3. got' >= Owed(Asked')
    BY <1>3
  <2>4. QED
    BY <1>1, <1>3, <1>6, <2>1, <2>2, <2>3 DEF ChannelInv
<1>8. QED
  BY <1>4, <1>5, <1>7 DEF JoinInv

\* A step of the client.
LEMMA ClientJoins ==
  ASSUME Core, JoinInv, ClientStep
  PROVE  JoinInv'
<1> SUFFICES ASSUME pc' # "failed" PROVE JoinInv'
  BY DEF JoinInv
<1>1. TypeOK /\ UNCHANGED <<taken, log, closed>>
  BY DEF Core, ClientStep
<1>2. CASE basic_settings_exchange
  BY <1>1, <1>2, StartJoins
<1>3. CASE \E net \in Offers : recv_connect_response(net)
  BY <1>1, <1>3, ConnectResponseJoins
<1>4. CASE recv_attach_user_confirm
  BY <1>1, <1>4, AttachUserJoins
<1>5. CASE recv_channel_join_confirm
  BY <1>1, <1>5, ChannelJoins
<1>6. ASSUME out' = out
      PROVE  \E ps \in Seq(ClientPdu) :
                /\ Send(ps)
                /\ \A j \in 1..Len(ps) : ps[j].t \notin {"ConnectInitial", "AttachUser", "ChannelJoin"}
  <2> DEFINE e == <<>>
  <2>1. e \in Seq(ClientPdu) /\ Len(e) = 0 /\ out \o e = out
    BY <1>1, EmptyConcat DEF TypeOK
  <2> HIDE DEF e
  <2>2. \A j \in 1..Len(e) : e[j].t \notin {"ConnectInitial", "AttachUser", "ChannelJoin"}
    <3>1. 1..Len(e) = {}
      BY <2>1
    <3>2. QED
      BY <3>1
  <2>3. QED
    BY <1>6, <2>1, <2>2 DEF Send
<1>7. CASE wait_for_demand_active
  <2>1. /\ pc = "demand_active" /\ recv /\ pc' \in {"demand_active", "finalization"}
        /\ UNCHANGED <<to_join, joined, user_id>>
    BY <1>7 DEF wait_for_demand_active, Fail
  <2>2. PICK id : id = Received.id
    OBVIOUS
  <2>3. id \in Nat
    BY <1>1, <2>1, <2>2, RecvFacts
  <2>4. CASE Send(send_confirm_active(id) \o FinalizationPdus(id))
    <3> DEFINE a == send_confirm_active(id)
               b == FinalizationPdus(id)
    <3>1. /\ a \in Seq(ClientPdu) /\ b \in Seq(ClientPdu)
          /\ \A j \in 1..Len(a) : a[j].t \notin {"ConnectInitial", "AttachUser", "ChannelJoin"}
          /\ \A j \in 1..Len(b) : b[j].t \notin {"ConnectInitial", "AttachUser", "ChannelJoin"}
      BY <2>3 DEF send_confirm_active, FinalizationPdus, Pdu, ClientPdu, ClientPduType, IO_CHANNEL
    <3> HIDE DEF a, b
    <3>2. a \o b \in Seq(ClientPdu)
      BY <3>1, ConcatFacts
    <3>3. \A j \in 1..Len(a \o b) :
            (a \o b)[j].t \notin {"ConnectInitial", "AttachUser", "ChannelJoin"}
      BY <3>1, ConcatElements
    <3>4. Send(a \o b)
      BY <2>4 DEF a, b
    <3>5. QED
      BY <1>1, <2>1, <3>2, <3>3, <3>4, LateJoins
  <2>5. CASE out' = out
    <3>1. PICK ps \in Seq(ClientPdu) :
            /\ Send(ps)
            /\ \A j \in 1..Len(ps) : ps[j].t \notin {"ConnectInitial", "AttachUser", "ChannelJoin"}
      BY <1>6, <2>5
    <3>2. QED
      BY <1>1, <2>1, <3>1, LateJoins
  <2>6. QED
    BY <1>7, <2>2, <2>4, <2>5 DEF wait_for_demand_active, Fail
<1>8. CASE finalization
  <2>1. /\ pc = "finalization" /\ recv /\ pc' \in {"finalization", "active"} /\ out' = out
        /\ UNCHANGED <<to_join, joined, user_id>>
    BY <1>8 DEF finalization, Fail
  <2>2. PICK ps \in Seq(ClientPdu) :
          /\ Send(ps)
          /\ \A j \in 1..Len(ps) : ps[j].t \notin {"ConnectInitial", "AttachUser", "ChannelJoin"}
    BY <1>6, <2>1
  <2>3. QED
    BY <1>1, <2>1, <2>2, LateJoins
<1>9. CASE transport_error
  BY <1>9 DEF transport_error, Fail
<1>10. QED
  BY <1>2, <1>3, <1>4, <1>5, <1>7, <1>8, <1>9 DEF ClientStep

\* Before anything is sent.
LEMMA InitJoins == Init => JoinInv
<1> SUFFICES ASSUME Init PROVE JoinInv
  OBVIOUS
<1>1. /\ pc = "start" /\ out = <<>> /\ to_join = <<>> /\ joined = <<>> /\ log = <<>>
      /\ taken = 0 /\ got = 0
  BY DEF Init
<1>2. Asked = 3 /\ Owed(0) = 0 /\ Len(<<>>) = 0
  BY <1>1 DEF Asked, Owed
<1>3. OutInv
  BY <1>1, <1>2 DEF OutInv
<1>4. AnswerInv
  BY <1>1, <1>2 DEF AnswerInv
<1>5. ChannelInv
  BY <1>1, <1>2 DEF ChannelInv
<1>6. QED
  BY <1>3, <1>4, <1>5 DEF JoinInv

\* Every step keeps the answers and the channels in line.
LEMMA NextJoins ==
  ASSUME IInv, [Next]_vars
  PROVE  IInv'
<1>1. Core /\ JoinInv /\ TypeOK
  BY DEF IInv, Core
<1>2. Core'
  BY <1>1, NextInv
<1>3. CASE UNCHANGED vars
  <2>1. /\ pc' = pc /\ to_join' = to_join /\ out' = out /\ turn' = turn /\ joined' = joined
        /\ user_id' = user_id /\ got' = got /\ log' = log /\ taken' = taken
    BY <1>3 DEF vars, client
  <2>2. /\ Asked' = Asked /\ \A n : JoinedUpTo(n)' <=> JoinedUpTo(n)
        /\ \A k : Sound(k)' <=> Sound(k)
    BY <2>1 DEF Asked, JoinedUpTo, Wanted, Sound
  <2>3. OutInv' <=> OutInv
    BY <2>1, <2>2 DEF OutInv
  <2>4. AnswerInv' <=> AnswerInv
    BY <2>1, <2>2 DEF AnswerInv
  <2>5. ChannelInv' <=> ChannelInv
    BY <2>1, <2>2 DEF ChannelInv
  <2>6. QED
    BY <1>1, <1>2, <2>1, <2>3, <2>4, <2>5 DEF IInv, JoinInv
<1>4. CASE ClientStep
  BY <1>1, <1>2, <1>4, ClientJoins DEF IInv
<1>5. CASE ServerStep
  BY <1>1, <1>2, <1>5, ServerJoins DEF IInv
<1>6. QED
  BY <1>3, <1>4, <1>5 DEF Next

-----------------------------------------------------------------------------

\* The inductive invariant holds throughout: how many PDUs establish has read at
\* each of its calls of recv, that neither a share PDU is sent nor a Demand Active
\* read before wait_for_demand_active accepts one, and that the server's answers
\* line up with the requests of channel_connection until it garbles one.
THEOREM Invariance == Spec => []IInv
<1>1. Init => IInv
  BY InitInv, InitJoins DEF IInv
<1>2. IInv /\ [Next]_vars => IInv'
  BY NextJoins
<1>3. QED
  BY <1>1, <1>2, PTL DEF Spec

\* The connection sequence is type correct: in particular neither loop of
\* wait_for_demand_active and finalization takes more than MAX_SKIP turns, and
\* finalization counts no more than four PDUs.
THEOREM TypeCorrect == Spec => []TypeOK
<1>1. IInv => TypeOK
  BY DEF IInv, Core
<1>2. QED
  BY <1>1, Invariance, PTL

\* Every PDU send_confirm_active and finalization send carries the share id of
\* the first Demand Active of the server, whatever it interleaves and however
\* often it reactivates.
THEOREM OneShare == Spec => []ShareAgreement
<1>1. IInv => ShareAgreement
  BY DEF IInv, Core
<1>2. QED
  BY <1>1, Invariance, PTL

\* wait_for_demand_active gives up after exactly MAX_SKIP PDUs, none of them a
\* Demand Active.
THEOREM SkipLimit == Spec => []SkipLimitExact
<1>1. IInv => SkipLimitExact
  BY DEF IInv, Core
<1>2. QED
  BY <1>1, Invariance, PTL

\* The request establish returns is the first Initiate Multitransport Request
\* before the Demand Active, if the server sent any there.
THEOREM FirstRequest == Spec => []FirstRequestWins
<1>1. IInv => FirstRequestWins
  BY DEF IInv, Core
<1>2. QED
  BY <1>1, Invariance, PTL

\* By the time the client uses the I/O channel, the n-th confirmation it has read
\* answers the n-th channel it asked for, and joined holds, in order, the ids the
\* server confirmed for all of them but the user and the I/O channel: however many
\* channels the server grants, whatever their ids, and whether or not it confirms
\* the ids it was asked for (channel_connection).
THEOREM ChannelsJoined == Spec => []JoinedInOrder
<1>1. IInv => JoinedInOrder
  <2> SUFFICES ASSUME IInv, pc \in {"demand_active", "finalization", "active"}
               PROVE  /\ \A i \in 1..Len(to_join) :
                           log[2 + i].t = "ChannelJoinConfirm" /\ log[2 + i].chan = to_join[i]
                      /\ JoinedUpTo(Len(to_join))
    BY DEF JoinedInOrder
  <2>1. TypeOK /\ OutInv /\ AnswerInv /\ ChannelInv
    BY DEF IInv, Core, JoinInv
  <2>2. /\ Len(to_join) \in Nat /\ Len(log) \in Nat /\ got \in Nat /\ got <= Len(log)
        /\ Asked = 3 + Len(to_join) /\ Owed(Asked) = 2 + Len(to_join) /\ Len(out) \in Nat
    BY <2>1, CountFacts DEF Asked
  <2>3. got >= Owed(Asked) /\ JoinedUpTo(Len(to_join))
    BY <2>1 DEF ChannelInv
  <2>4. ASSUME NEW i \in 1..Len(to_join)
        PROVE  log[2 + i].t = "ChannelJoinConfirm" /\ log[2 + i].chan = to_join[i]
    <3>1. PICK k : k = 2 + i
      OBVIOUS
    <3>2. k \in 3..got /\ k \in 3..Len(log) /\ k <= Owed(Asked)
      BY <2>2, <2>3, <3>1
    <3>3. log[k].t = "ChannelJoinConfirm"
      BY <2>1, <3>2 DEF ChannelInv
    <3>4. Sound(k)
      <4>1. \A j \in 1..k : j \in 1..got /\ j <= Owed(Asked)
        BY <2>2, <2>3, <3>2
      <4>2. QED
        BY <2>1, <4>1 DEF ChannelInv, Sound
    <3>5. k + 1 <= Len(out) /\ log[k].chan = out[k + 1].id
      BY <2>1, <3>2, <3>4 DEF AnswerInv
    <3>6. PICK h : h = k + 1
      OBVIOUS
    <3>7. h \in 1..Len(out) /\ h \in 4..Asked /\ h - 3 = i
      BY <2>2, <3>1, <3>5, <3>6
    <3>8. out[h] = Join(to_join[i])
      BY <2>1, <3>7 DEF OutInv
    <3>9. out[h].id = to_join[i]
      BY <3>8 DEF Join, Pdu
    <3>10. QED
      BY <3>1, <3>3, <3>5, <3>6, <3>9
  <2>5. QED
    BY <2>3, <2>4
<1>2. QED
  BY <1>1, Invariance, PTL
=============================================================================
