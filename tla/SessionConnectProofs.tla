------------------------ MODULE SessionConnectProofs ------------------------
(***************************************************************************)
(* Proofs about SessionConnect.  connect runs both exchanges by their own  *)
(* specifications, so what is proved of CredSsp and of ConnectionSequence  *)
(* holds of a session; the rest is about how connect joins them.           *)
(***************************************************************************)
EXTENDS SessionConnect, TLAPS

NlaThm == INSTANCE CredSspProofs
McsThm == INSTANCE ConnectionSequenceProofs

-----------------------------------------------------------------------------
(* The components' specifications inside the session *)

\* A step of connect, or of the peer, is a step of the CredSSP exchange or
\* leaves it alone.
LEMMA NlaStep == Next => [Nla!Next]_(Nla!vars)
<1> SUFFICES ASSUME Next PROVE [Nla!Next]_(Nla!vars)
  OBVIOUS
<1> USE DEF nlaVars, Nla!vars, Nla!clientVars, Nla!peerVars, Nla!Next
<1>1. ASSUME UNCHANGED nlaVars PROVE UNCHANGED Nla!vars
  BY <1>1
<1>2. CASE tcp_connect \/ \E cc \in ConnectionConfirm : connection_confirm(cc)
  BY <1>1, <1>2 DEF tcp_connect, connection_confirm
<1>3. CASE tls_handshake
  <2>1. Nla!start \/ UNCHANGED nlaVars
    BY <1>3 DEF tls_handshake
  <2>2. QED
    BY <1>1, <2>1
<1>4. CASE \E req \in Nla!ChallengeRequest : nla_challenge(req)
  BY <1>4 DEF nla_challenge
<1>5. CASE nla_pubkey
  BY <1>5 DEF nla_pubkey
<1>6. CASE read_error \/ establish \/ peer_mcs
  BY <1>1, <1>6 DEF read_error, establish, peer_mcs
<1>7. CASE peer_nla
  BY <1>7 DEF peer_nla
<1>8. QED
  BY <1>2, <1>3, <1>4, <1>5, <1>6, <1>7 DEF Next, Client

\* A step of connect, or of the peer, is a step of the connection sequence or
\* leaves it alone.
LEMMA McsStep == Next => [Mcs!Next]_(Mcs!vars)
<1> SUFFICES ASSUME Next PROVE [Mcs!Next]_(Mcs!vars)
  OBVIOUS
<1>1. ASSUME UNCHANGED mcsVars PROVE UNCHANGED Mcs!vars
  BY <1>1 DEF mcsVars, Mcs!vars, Mcs!client
<1>2. ASSUME BeginMcs PROVE Mcs!ClientStep
  BY <1>2 DEF BeginMcs, Mcs!ClientStep
<1>3. CASE tcp_connect \/ \E cc \in ConnectionConfirm : connection_confirm(cc)
  <2>1. UNCHANGED mcsVars
    BY <1>3 DEF tcp_connect, connection_confirm, ConnectFails
  <2>2. QED
    BY <1>1, <2>1
<1>4. CASE tls_handshake
  <2>1. BeginMcs \/ UNCHANGED mcsVars
    BY <1>4 DEF tls_handshake, ConnectFails
  <2>2. QED
    BY <1>1, <1>2, <2>1 DEF Mcs!Next
<1>5. CASE nla_pubkey
  <2>1. BeginMcs \/ UNCHANGED mcsVars
    BY <1>5 DEF nla_pubkey, AfterNla
  <2>2. QED
    BY <1>1, <1>2, <2>1 DEF Mcs!Next
<1>6. CASE \/ \E req \in Nla!ChallengeRequest : nla_challenge(req)
           \/ read_error \/ peer_nla
  <2>1. UNCHANGED mcsVars
    BY <1>6 DEF nla_challenge, read_error, peer_nla
  <2>2. QED
    BY <1>1, <2>1
<1>7. CASE establish \/ peer_mcs
  BY <1>7 DEF establish, peer_mcs, Mcs!Next
<1>8. QED
  BY <1>3, <1>4, <1>5, <1>6, <1>7 DEF Next, Client

\* A step that changes nothing of the session changes nothing of its parts.
LEMMA StutterParts == UNCHANGED vars => UNCHANGED Nla!vars /\ UNCHANGED Mcs!vars
BY DEF vars, nlaVars, mcsVars, Nla!vars, Nla!clientVars, Nla!peerVars, Mcs!vars, Mcs!client

\* connect runs the CredSSP exchange by its own specification: what is proved of
\* CredSsp holds inside a session, whichever way negotiation and TLS went before.
THEOREM RunsCredSsp == Spec => Nla!Spec
<1>1. Init => Nla!Init
  BY DEF Init
<1>2. [Next]_vars => [Nla!Next]_(Nla!vars)
  BY NlaStep, StutterParts
<1>3. QED
  BY <1>1, <1>2, PTL DEF Spec, Nla!Spec

\* connect runs the connection sequence by its own specification, whether or not
\* CredSSP came before it.
THEOREM RunsConnectionSequence == Spec => Mcs!Spec
<1>1. Init => Mcs!Init
  BY DEF Init
<1>2. [Next]_vars => [Mcs!Next]_(Mcs!vars)
  BY McsStep, StutterParts
<1>3. QED
  BY <1>1, <1>2, PTL DEF Spec, Mcs!Spec

-----------------------------------------------------------------------------
(* What is proved of the components, of a session *)

\* The parameters are what the two components assume.
LEMMA PartAssumptions ==
  /\ SeqMod \in Nat \ {0}
  /\ CREDS_LEN \in Nat /\ MaxCalls \in Nat /\ MaxPeerSeals \in Nat
  /\ MAX_SKIP \in Nat /\ MAX_SKIP >= McsThm!FINAL_PDUS
  /\ \A o \in Offers : o \in McsThm!Offer
  /\ UserIds \subseteq McsThm!Id
  /\ \A r \in Renames : r \in [asked : McsThm!Id, confirmed : McsThm!Id]
  /\ MaxStray \in Nat /\ MaxDemand \in Nat /\ MaxUnread \in Nat \ {0}
BY SessionAssumption DEF McsThm!FINAL_PDUS, McsThm!Offer, McsThm!Id

\* The theorems about CredSsp are about the exchange connect runs: the two
\* instances are of the same definitions.
LEMMA NlaSpec == Spec => NlaThm!Spec
<1>1. Nla!Init => NlaThm!Init
  BY DEF Nla!Init, NlaThm!Init, Nla!NewContext, NlaThm!NewContext
<1>2. [Nla!Next]_(Nla!vars) => [NlaThm!Next]_(NlaThm!vars)
  BY DEF Nla!start, NlaThm!start, Nla!process_challenge, NlaThm!process_challenge,
         Nla!process_pubkey_refused, NlaThm!process_pubkey_refused,
         Nla!process_pubkey, NlaThm!process_pubkey, Nla!peer_accept,
         NlaThm!peer_accept, Nla!peer_seal, NlaThm!peer_seal, Nla!Next, NlaThm!Next,
         Nla!vars, NlaThm!vars, Nla!clientVars, NlaThm!clientVars, Nla!peerVars,
         NlaThm!peerVars, Nla!PubKeyAuth, NlaThm!PubKeyAuth, Nla!ChallengeRequest,
         NlaThm!ChallengeRequest, Nla!Returns, NlaThm!Returns, Nla!NewContext,
         NlaThm!NewContext, Nla!AfterSeal, NlaThm!AfterSeal, Nla!AfterUnseal,
         NlaThm!AfterUnseal, Nla!SealedBlob, NlaThm!SealedBlob, Nla!ClientHash,
         NlaThm!ClientHash, Nla!ServerHash, NlaThm!ServerHash, Nla!Creds,
         NlaThm!Creds, Nla!HASH_LEN, NlaThm!HASH_LEN, Nla!Verifies, NlaThm!Verifies,
         Nla!ExpectedHash, NlaThm!ExpectedHash, Nla!Peer, NlaThm!Peer,
         Nla!AfterChecksum, NlaThm!AfterChecksum, Nla!CHECKSUM_LEN,
         NlaThm!CHECKSUM_LEN, Nla!wrapping_add1, NlaThm!wrapping_add1
<1>3. QED
  BY <1>1, <1>2, RunsCredSsp, PTL DEF Nla!Spec, NlaThm!Spec

\* The theorems about ConnectionSequence are about the sequence connect runs.
LEMMA McsSpec == Spec => McsThm!Spec
<1>1. Mcs!Init => McsThm!Init
  BY DEF Mcs!Init, McsThm!Init, Mcs!None, McsThm!None
<1>2. [Mcs!Next]_(Mcs!vars) => [McsThm!Next]_(McsThm!vars)
  BY DEF Mcs!Init, McsThm!Init, Mcs!Next, McsThm!Next, Mcs!vars, McsThm!vars,
         Mcs!client, McsThm!client, Mcs!ClientStep, McsThm!ClientStep,
         Mcs!ServerStep, McsThm!ServerStep, Mcs!basic_settings_exchange,
         McsThm!basic_settings_exchange, Mcs!recv_connect_response,
         McsThm!recv_connect_response, Mcs!recv_attach_user_confirm,
         McsThm!recv_attach_user_confirm, Mcs!recv_channel_join_confirm,
         McsThm!recv_channel_join_confirm, Mcs!wait_for_demand_active,
         McsThm!wait_for_demand_active, Mcs!finalization, McsThm!finalization,
         Mcs!transport_error, McsThm!transport_error, Mcs!server_answer,
         McsThm!server_answer, Mcs!server_demand, McsThm!server_demand,
         Mcs!server_stray, McsThm!server_stray, Mcs!server_fault,
         McsThm!server_fault, Mcs!server_close, McsThm!server_close, Mcs!Pdu,
         McsThm!Pdu, Mcs!parse_connect_response, McsThm!parse_connect_response,
         Mcs!parse_attach_user_confirm, McsThm!parse_attach_user_confirm,
         Mcs!parse_channel_join_confirm, McsThm!parse_channel_join_confirm,
         Mcs!parse_send_data_indication, McsThm!parse_send_data_indication,
         Mcs!parse_share_control, McsThm!parse_share_control, Mcs!parse_share_data,
         McsThm!parse_share_data, Mcs!IsDemandActive, McsThm!IsDemandActive,
         Mcs!parse_demand_active, McsThm!parse_demand_active, Mcs!detect,
         McsThm!detect, Mcs!Send, McsThm!Send, Mcs!recv, McsThm!recv, Mcs!Received,
         McsThm!Received, Mcs!Fail, McsThm!Fail, Mcs!Join, McsThm!Join, Mcs!ToJoin,
         McsThm!ToJoin, Mcs!FinalizationPdus, McsThm!FinalizationPdus,
         Mcs!send_confirm_active, McsThm!send_confirm_active, Mcs!send_client_info,
         McsThm!send_client_info, Mcs!KeepJoined, McsThm!KeepJoined,
         Mcs!KeepRequest, McsThm!KeepRequest, Mcs!Skipped, McsThm!Skipped,
         Mcs!Skips, McsThm!Skips, Mcs!Drained, McsThm!Drained, Mcs!Taken,
         McsThm!Taken, Mcs!Count, McsThm!Count, Mcs!ServerSend, McsThm!ServerSend,
         Mcs!StrayType, McsThm!StrayType, Mcs!StrayChannel, McsThm!StrayChannel,
         Mcs!ShareDataType, McsThm!ShareDataType, Mcs!IO_CHANNEL, McsThm!IO_CHANNEL,
         Mcs!None, McsThm!None, Mcs!FINAL_PDUS, McsThm!FINAL_PDUS, Mcs!Confirms,
         McsThm!Confirms
<1>3. QED
  BY <1>1, <1>2, RunsConnectionSequence, PTL DEF Mcs!Spec, McsThm!Spec

\* In a session, too, the credentials are sealed only for a peer bound to the key
\* of the TLS channel, and no keystream is used twice.
THEOREM SessionCredentials ==
  Spec => [](Nla!CredsOnlyForBoundPeer /\ Nla!KeystreamNotReused)
<1>1. NlaThm!Spec => []NlaThm!CredsOnlyForBoundPeer
  BY NlaThm!CredsForBoundPeer, PartAssumptions
<1>2. NlaThm!Spec => []NlaThm!KeystreamNotReused
  BY NlaThm!KeystreamUsedOnce, PartAssumptions
<1>3. NlaThm!CredsOnlyForBoundPeer => Nla!CredsOnlyForBoundPeer
  BY DEF Nla!CredsOnlyForBoundPeer, NlaThm!CredsOnlyForBoundPeer, Nla!Creds, NlaThm!Creds,
         Nla!ServerHash, NlaThm!ServerHash
<1>4. NlaThm!KeystreamNotReused => Nla!KeystreamNotReused
  BY DEF Nla!KeystreamNotReused, NlaThm!KeystreamNotReused, Nla!Overlap, NlaThm!Overlap,
         Nla!AfterChecksum, NlaThm!AfterChecksum, Nla!CHECKSUM_LEN, NlaThm!CHECKSUM_LEN
<1>5. QED
  BY <1>1, <1>2, <1>3, <1>4, NlaSpec, PTL

\* In a session, too, the channels are asked for in turn and those confirmed are
\* kept, all PDUs of the share carry the id the server opened it with, the wait
\* for it has its exact limit, and the first multitransport request is the one
\* that counts.
THEOREM SessionShare ==
  Spec => [](/\ Mcs!JoinedInOrder /\ Mcs!ShareAgreement
             /\ Mcs!SkipLimitExact /\ Mcs!FirstRequestWins)
<1>1. McsThm!Spec => []McsThm!ShareAgreement
  BY McsThm!OneShare, PartAssumptions
<1>2. McsThm!Spec => []McsThm!SkipLimitExact
  BY McsThm!SkipLimit, PartAssumptions
<1>3. McsThm!Spec => []McsThm!FirstRequestWins
  BY McsThm!FirstRequest, PartAssumptions
<1>4. McsThm!ShareAgreement => Mcs!ShareAgreement
  BY DEF Mcs!ShareAgreement, McsThm!ShareAgreement, Mcs!SharePduType, McsThm!SharePduType
<1>5. McsThm!SkipLimitExact => Mcs!SkipLimitExact
  BY DEF Mcs!SkipLimitExact, McsThm!SkipLimitExact, Mcs!WaitFrom, McsThm!WaitFrom
<1>6. McsThm!FirstRequestWins => Mcs!FirstRequestWins
  BY DEF Mcs!FirstRequestWins, McsThm!FirstRequestWins, Mcs!Requests, McsThm!Requests,
         Mcs!Waited, McsThm!Waited, Mcs!WaitFrom, McsThm!WaitFrom, Mcs!None, McsThm!None
<1>7. McsThm!Spec => []McsThm!JoinedInOrder
  BY McsThm!ChannelsJoined, PartAssumptions
<1>8. McsThm!JoinedInOrder => Mcs!JoinedInOrder
  <2>1. ASSUME NEW S PROVE Mcs!Cardinality(S) = McsThm!Cardinality(S)
    BY Zenon DEF Mcs!Cardinality, McsThm!Cardinality
  <2>2. QED
    BY <2>1 DEF Mcs!JoinedInOrder, McsThm!JoinedInOrder, Mcs!Wanted, McsThm!Wanted,
                Mcs!JoinedUpTo, McsThm!JoinedUpTo, Mcs!IO_CHANNEL, McsThm!IO_CHANNEL
<1>9. QED
  BY <1>1, <1>2, <1>3, <1>4, <1>5, <1>6, <1>7, <1>8, McsSpec, PTL

-----------------------------------------------------------------------------
(* How connect joins the parts *)

\* At the start nothing has been sent or sealed.
LEMMA InitInv == Init => IInv
BY DEF Init, IInv, StageInv, TimeoutsMatchStage, Handshake, HandedOver, Nla!Init, Mcs!Init

\* Until TLS is up connect only moves from one read to the next.
LEMMA TransportStep ==
  ASSUME IInv, tcp_connect \/ \E cc \in ConnectionConfirm : connection_confirm(cc)
  PROVE  IInv'
<1>1. UNCHANGED <<sealed, out>>
  BY DEF tcp_connect, connection_confirm, ConnectFails, nlaVars, mcsVars
<1>2. stage \in {"tcp", "connection_confirm"}
  BY DEF tcp_connect, connection_confirm
<1>3. sealed = {} /\ out = <<>>
  BY <1>2 DEF IInv, StageInv
<1>4. \/ stage' = "connection_confirm" /\ read_timeout' = TRUE
      \/ stage' = "tls" /\ stage = "connection_confirm" /\ UNCHANGED read_timeout
      \/ stage' = "failed"
  BY DEF tcp_connect, connection_confirm, ConnectFails
<1>5. StageInv'
  BY <1>1, <1>3, <1>4 DEF StageInv
<1>6. TimeoutsMatchStage'
  BY <1>4 DEF IInv, TimeoutsMatchStage, Handshake
<1>7. QED
  BY <1>5, <1>6 DEF IInv

\* After the handshake the selection decides between CredSSP and establish.
LEMMA TlsStep ==
  ASSUME IInv, tls_handshake
  PROVE  IInv'
<1>1. stage = "tls" /\ sealed = {} /\ out = <<>> /\ UNCHANGED <<selected, sealed>>
  BY DEF IInv, StageInv, tls_handshake, Nla!start, nlaVars, Nla!peerVars
<1>2. CASE "HYBRID" \in selected /\ stage' = "nla_challenge" /\ read_timeout' = TRUE
           /\ UNCHANGED mcsVars
  <2>1. StageInv'
    BY <1>1, <1>2 DEF StageInv, mcsVars
  <2>2. TimeoutsMatchStage'
    BY <1>2 DEF TimeoutsMatchStage, Handshake
  <2>3. QED
    BY <2>1, <2>2 DEF IInv
<1>3. CASE "HYBRID" \notin selected /\ stage' = "mcs" /\ read_timeout' = FALSE
  <2>1. StageInv'
    BY <1>1, <1>3 DEF StageInv
  <2>2. TimeoutsMatchStage'
    BY <1>3 DEF TimeoutsMatchStage, Handshake
  <2>3. QED
    BY <2>1, <2>2 DEF IInv
<1>4. CASE ConnectFails
  <2>1. stage' = "failed" /\ UNCHANGED out
    BY <1>4 DEF ConnectFails, mcsVars
  <2>2. StageInv'
    BY <1>1, <2>1 DEF StageInv
  <2>3. TimeoutsMatchStage'
    BY <2>1 DEF TimeoutsMatchStage, Handshake
  <2>4. QED
    BY <2>2, <2>3 DEF IInv
<1>5. QED
  BY <1>2, <1>3, <1>4 DEF tls_handshake, NeedsNla, BoundNla, RestoreBlocking, BeginMcs

\* What the client has sealed stays sealed.
LEMMA SealedGrows == [Nla!Next]_(Nla!vars) => sealed \subseteq sealed'
BY DEF Nla!Next, Nla!vars, Nla!clientVars, Nla!peerVars, Nla!start, Nla!process_challenge,
       Nla!process_pubkey_refused, Nla!process_pubkey, Nla!peer_accept, Nla!peer_seal

\* run_nla sends nothing of the connection sequence before its exchange is over,
\* and starts it only once it has sealed the credentials.
LEMMA NlaExchangeStep ==
  ASSUME IInv, (\E req \in Nla!ChallengeRequest : nla_challenge(req)) \/ nla_pubkey
  PROVE  IInv'
<1>1. "HYBRID" \in selected /\ UNCHANGED selected /\ sealed \subseteq sealed'
      /\ stage \in {"nla_challenge", "nla_pubkey"}
  <2>1. [Nla!Next]_(Nla!vars)
    BY NlaStep DEF Next, Client
  <2>2. QED
    BY <2>1, SealedGrows DEF IInv, StageInv, nla_challenge, nla_pubkey
<1>2. HandedOver => HandedOver'
  BY <1>1 DEF HandedOver, Nla!Creds
<1>3. CASE \E req \in Nla!ChallengeRequest : nla_challenge(req)
  <2>1. /\ UNCHANGED out
        /\ \/ stage' = "nla_pubkey" /\ UNCHANGED read_timeout
           \/ stage' = "failed"
    BY <1>3 DEF nla_challenge, mcsVars
  <2>2. StageInv'
    BY <1>1, <1>2, <2>1 DEF IInv, StageInv
  <2>3. TimeoutsMatchStage'
    BY <1>1, <2>1 DEF IInv, TimeoutsMatchStage, Handshake
  <2>4. QED
    BY <2>2, <2>3 DEF IInv
<1>4. CASE nla_pubkey
  <2>1. read_timeout' = FALSE
    BY <1>4 DEF nla_pubkey, RestoreBlocking
  <2>2. CASE result' = "ok" /\ stage' = "mcs"
    <3>1. PICK b \in Nla!PubKeyAuth : Nla!process_pubkey(b)
      BY <1>4, <2>2 DEF nla_pubkey, Nla!process_pubkey_refused, Nla!Returns
    <3>2. PICK c : sealed' = sealed \cup {Nla!SealedBlob(c, Nla!Creds, CREDS_LEN)}
      BY <2>2, <3>1 DEF Nla!process_pubkey, Nla!Returns
    <3>3. HandedOver'
      <4> DEFINE new == Nla!SealedBlob(c, Nla!Creds, CREDS_LEN)
      <4>1. new.msg = Nla!Creds
        BY DEF Nla!SealedBlob
      <4>2. new \in sealed'
        BY <3>2
      <4> HIDE DEF new
      <4>3. \E b2 \in sealed' : b2.msg = Nla!Creds
        BY <4>1, <4>2
      <4>4. QED
        BY <4>3 DEF HandedOver, Nla!Creds
    <3>4. StageInv'
      BY <1>1, <2>2, <3>3 DEF StageInv
    <3>5. QED
      BY <2>1, <2>2, <3>4 DEF IInv, TimeoutsMatchStage, Handshake
  <2>3. CASE stage' = "failed" /\ UNCHANGED mcsVars
    <3>1. StageInv'
      BY <1>1, <1>2, <2>3 DEF IInv, StageInv, mcsVars
    <3>2. QED
      BY <2>1, <2>3, <3>1 DEF IInv, TimeoutsMatchStage, Handshake
  <2>4. QED
    BY <1>4, <2>2, <2>3 DEF nla_pubkey, AfterNla, BeginMcs
<1>5. QED
  BY <1>3, <1>4

\* The other steps leave the selection and the credentials alone.
LEMMA OtherStep ==
  ASSUME IInv, read_error \/ establish \/ peer_nla \/ peer_mcs
  PROVE  IInv'
<1>1. UNCHANGED <<selected, sealed>>
  BY DEF read_error, establish, peer_nla, peer_mcs, nlaVars, Nla!peer_accept, Nla!peer_seal,
         Nla!clientVars
<1>2. HandedOver => HandedOver'
  BY <1>1 DEF HandedOver, Nla!Creds
<1>3. CASE read_error
  BY <1>1, <1>2, <1>3 DEF read_error, IInv, StageInv, TimeoutsMatchStage, Handshake, mcsVars
<1>4. CASE establish
  <2>1. stage = "mcs" /\ UNCHANGED read_timeout /\ stage' \in {"mcs", "active", "failed"}
    BY <1>4 DEF establish
  <2>2. QED
    BY <1>1, <1>2, <2>1 DEF IInv, StageInv, TimeoutsMatchStage, Handshake
<1>5. CASE peer_nla \/ peer_mcs
  <2>1. UNCHANGED <<stage, read_timeout, out>>
    BY <1>5 DEF peer_nla, peer_mcs, Mcs!ServerStep, mcsVars
  <2>2. QED
    BY <1>1, <1>2, <2>1 DEF IInv, StageInv, TimeoutsMatchStage, Handshake
<1>6. QED
  BY <1>3, <1>4, <1>5

\* No step breaks the invariant.
LEMMA NextInv == IInv /\ [Next]_vars => IInv'
<1>1. ASSUME IInv, Next PROVE IInv'
  BY <1>1, TransportStep, TlsStep, NlaExchangeStep, OtherStep DEF Next, Client
<1>2. ASSUME IInv, UNCHANGED vars PROVE IInv'
  BY <1>2 DEF vars, nlaVars, mcsVars, IInv, StageInv, TimeoutsMatchStage, Handshake,
              HandedOver, Nla!Creds
<1>3. QED
  BY <1>1, <1>2

\* In every reachable state the stage and what has left the client agree.
THEOREM Invariance == Spec => []IInv
BY InitInv, NextInv, PTL DEF Spec

\* establish and the session run on a blocking socket, whichever way the exchanges
\* before them went, and no read of the handshake does.
THEOREM Timeouts == Spec => []TimeoutsMatchStage
<1>1. IInv => TimeoutsMatchStage
  BY DEF IInv
<1>2. QED
  BY <1>1, Invariance, PTL

\* The credentials have been handed over when establish runs if and only if the
\* server selected HYBRID.
THEOREM CredentialsMatch == Spec => []CredentialsMatchSelection
<1>1. IInv => CredentialsMatchSelection
  BY DEF IInv, StageInv, HandedOver, CredentialsMatchSelection
<1>2. QED
  BY <1>1, Invariance, PTL

\* Under HYBRID nothing of the session, and no credentials, leave the client
\* before the peer is bound to the key of this TLS channel: from connect's own
\* order and from what CredSsp guarantees.
THEOREM NlaFirst == Spec => []NlaBeforeSession
<1>1. IInv /\ Nla!CredsOnlyForBoundPeer => NlaBeforeSession
  BY DEF IInv, StageInv, HandedOver, NlaBeforeSession, Nla!CredsOnlyForBoundPeer
<1>2. QED
  BY <1>1, Invariance, SessionCredentials, PTL
=============================================================================
