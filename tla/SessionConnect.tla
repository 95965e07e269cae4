--------------------------- MODULE SessionConnect ---------------------------
(***************************************************************************)
(* RdpSession::connect of session.rs: TCP, X.224 negotiation and TLS       *)
(* (TlsTransport::connect), CredSSP when the server selects HYBRID         *)
(* (run_nla, over CredSsp), then the connection sequence (establish, over  *)
(* ConnectionSequence), on one blocking thread.                            *)
(*                                                                         *)
(* `stage' is the read the thread is blocked in.  An action is the code    *)
(* from the return of that read to the next one.  The peer (external) may  *)
(* answer each read well or badly, close, or stay silent for ever; what    *)
(* ends a silent read is the socket's read timeout, when one is set.  A    *)
(* message is finite, so a peer that sends it byte by byte ends the read.  *)
(***************************************************************************)
EXTENDS Integers, Sequences

CONSTANTS Selections,      \* what the server may select, each as the set of its bits
          SeqMod, TlsKey, PeerKeys, CREDS_LEN, MaxCalls, MaxPeerSeals,
          MAX_SKIP, Offers, UserIds, Renames, MaxStray, MaxDemand, MaxUnread

\* What CredSsp and ConnectionSequence assume of their parameters
ASSUME SessionAssumption ==
  /\ SeqMod \in Nat \ {0}
  /\ CREDS_LEN \in Nat /\ MaxCalls \in Nat /\ MaxPeerSeals \in Nat
  /\ MAX_SKIP \in Nat /\ MAX_SKIP >= 4
  /\ \A o \in Offers : o \in [channel_ids : Seq(Nat \ {0}), message_channel_id : Nat]
  /\ UserIds \subseteq Nat \ {0}
  /\ \A r \in Renames : r \in [asked : Nat \ {0}, confirmed : Nat \ {0}]
  /\ MaxStray \in Nat /\ MaxDemand \in Nat /\ MaxUnread \in Nat \ {0}

VARIABLES stage,
          selected,        \* TlsTransport.selected_protocol
          read_timeout     \* the socket has a read timeout

VARIABLES negotiate, has_security, security, sealed, authenticate, result, calls,
          peer_has, peer, peer_sealed

VARIABLES pc, err, server_net, user_id, to_join, joined, turn, seen, multitransport,
          share_id, out, taken, log, got, closed

Nla == INSTANCE CredSsp
Mcs == INSTANCE ConnectionSequence

nlaVars == <<negotiate, has_security, security, sealed, authenticate, result, calls,
             peer_has, peer, peer_sealed>>
mcsVars == <<pc, err, server_net, user_id, to_join, joined, turn, seen, multitransport,
             share_id, out, taken, log, got, closed>>
vars == <<stage, selected, read_timeout, nlaVars, mcsVars>>

-----------------------------------------------------------------------------
(* SecurityProtocol *)

\* SSL, HYBRID, RDSTLS and HYBRID_EX are bits.  connect asks for SSL and HYBRID; what
\* the server selects is not compared with that
RDP == {}

\* The Connection Confirm: a selection (any bits), a failure code, no negotiation
\* response at all, or bytes that do not decode
ConnectionConfirm == {[t |-> "selects", bits |-> b] : b \in Selections}
                       \cup {[t |-> x, bits |-> RDP] : x \in {"no negotiation", "failure", "malformed"}}

SelectedProtocol(cc) == IF cc.t = "selects" THEN cc.bits ELSE RDP

\* The reads bounded by HANDSHAKE_TIMEOUT or by run_nla's timeout
Handshake == {"tcp", "connection_confirm", "tls", "nla_challenge", "nla_pubkey"}

-----------------------------------------------------------------------------
(* TlsTransport::connect *)

\* connect returns an error: the transport is dropped with its socket
ConnectFails ==
  stage' = "failed" /\ UNCHANGED <<selected, read_timeout, mcsVars>>

\* connect_timeout: connected, or an error within CONNECT_TIMEOUT
tcp_connect ==
  /\ stage = "tcp"
  /\ \/ /\ stage' = "connection_confirm"
        /\ read_timeout' = TRUE
        /\ UNCHANGED <<selected, mcsVars>>
     \/ ConnectFails
  /\ UNCHANGED nlaVars

connection_confirm(cc) ==
  /\ stage = "connection_confirm"
  /\ \/ /\ cc.t \notin {"failure", "malformed"}
        /\ selected' = SelectedProtocol(cc)
        /\ stage' = "tls"
        /\ UNCHANGED <<read_timeout, mcsVars>>
     \/ /\ cc.t \in {"failure", "malformed"}
        /\ ConnectFails
  /\ UNCHANGED nlaVars

\* Mutant: run_nla reads with the blocking socket TlsTransport::connect left
UnboundedNla == read_timeout' = FALSE

\* set_read_timeout(Some(20 s)) of run_nla
BoundNla == read_timeout' = TRUE

\* Mutant: the timeout of the NLA exchange stays on the socket
KeepTimeout == UNCHANGED read_timeout

\* set_read_timeout(None) of run_nla, on success and on error
RestoreBlocking == read_timeout' = FALSE

\* establish starts: the Connect Initial is sent
BeginMcs == stage' = "mcs" /\ Mcs!basic_settings_exchange /\ UNCHANGED <<taken, log, closed>>

\* Mutant: NLA is left out whatever the server selected
NeverNeedsNla == FALSE

\* protocol & HYBRID != 0
NeedsNla == "HYBRID" \in selected

\* The handshake completes and blocking mode is restored; then, without another
\* read, either run_nla sets its timeout and sends the NEGOTIATE, or establish
\* starts.  A handshake that ends early, or without a usable certificate, fails.
tls_handshake ==
  /\ stage = "tls"
  /\ \/ /\ NeedsNla
        /\ stage' = "nla_challenge"
        /\ BoundNla
        /\ Nla!start
        /\ UNCHANGED mcsVars
     \/ /\ ~NeedsNla
        /\ RestoreBlocking
        /\ BeginMcs
        /\ UNCHANGED nlaVars
     \/ /\ ConnectFails
        /\ UNCHANGED nlaVars
  /\ UNCHANGED selected

-----------------------------------------------------------------------------
(* run_nla *)

nla_challenge(req) ==
  /\ stage = "nla_challenge"
  /\ Nla!process_challenge(req)
  /\ \/ result' = "ok" /\ stage' = "nla_pubkey" /\ UNCHANGED read_timeout
     \/ result' = "err" /\ stage' = "failed" /\ RestoreBlocking
  /\ UNCHANGED <<selected, mcsVars>>

\* Mutant: the error of run_nla is dropped
IgnoredResult(r) == BeginMcs

\* run_nla(..)? : its error is connect's
AfterNla(r) ==
  \/ r = "ok" /\ BeginMcs
  \/ r = "err" /\ stage' = "failed" /\ UNCHANGED mcsVars

nla_pubkey ==
  /\ stage = "nla_pubkey"
  /\ Nla!process_pubkey_refused \/ \E b \in Nla!PubKeyAuth : Nla!process_pubkey(b)
  /\ AfterNla(result')
  /\ RestoreBlocking
  /\ UNCHANGED selected

\* A read of the handshake times out, or finds the end of the stream
read_error ==
  /\ stage \in Handshake \ {"tcp"}
  /\ read_timeout
  /\ stage' = "failed"
  /\ read_timeout' = (stage \notin {"nla_challenge", "nla_pubkey"})
  /\ UNCHANGED <<selected, nlaVars, mcsVars>>

-----------------------------------------------------------------------------
(* establish *)

establish ==
  /\ stage = "mcs"
  /\ Mcs!ClientStep
  /\ stage' = IF pc' \in {"active", "failed"} THEN pc' ELSE stage
  /\ UNCHANGED <<selected, read_timeout, nlaVars>>

Client ==
  \/ tcp_connect
  \/ \E cc \in ConnectionConfirm : connection_confirm(cc)
  \/ tls_handshake
  \/ \E req \in Nla!ChallengeRequest : nla_challenge(req)
  \/ nla_pubkey
  \/ read_error
  \/ establish

-----------------------------------------------------------------------------
(* The peer (external): what it seals for CredSSP, what it sends in establish *)

peer_nla ==
  /\ stage = "nla_pubkey"
  /\ Nla!peer_accept \/ \E k \in PeerKeys : Nla!peer_seal(k)
  /\ UNCHANGED <<stage, selected, read_timeout, mcsVars>>

peer_mcs ==
  /\ stage = "mcs"
  /\ Mcs!ServerStep
  /\ UNCHANGED <<stage, selected, read_timeout, nlaVars>>

-----------------------------------------------------------------------------
Init ==
  /\ stage = "tcp" /\ selected = RDP /\ read_timeout = FALSE
  /\ Nla!Init /\ Mcs!Init

Next == Client \/ peer_nla \/ peer_mcs

Spec == Init /\ [][Next]_vars

\* TCP connects or fails within CONNECT_TIMEOUT, a read with a timeout ends, and
\* establish goes on when there is a PDU to read.  Nothing is assumed of the peer:
\* the steps that take its answer to a read need not happen.
FairSpec ==
  Spec /\ WF_vars(tcp_connect) /\ WF_vars(read_error) /\ WF_vars(establish)

-----------------------------------------------------------------------------
(* Properties *)

\* Under HYBRID not one PDU of the connection sequence, and no credentials,
\* leave the client before the peer has proved to hold the session key and to
\* be bound to the key of this TLS channel (connect, run_nla).
NlaBeforeSession ==
  "HYBRID" \in selected /\ (out # <<>> \/ \E b \in sealed : b.msg = Nla!Creds) =>
    \E b \in peer_sealed : b.msg = Nla!ServerHash(TlsKey)

\* By the time establish runs, the credentials have been handed over if the server
\* selected HYBRID, and have not if it did not (connect).
CredentialsMatchSelection ==
  stage \in {"mcs", "active"} =>
    ("HYBRID" \in selected <=> \E b \in sealed : b.msg = Nla!Creds)

\* Whichever way the exchange went, establish and the session run on a blocking
\* socket, and a handshake never does (TlsTransport::connect, run_nla).
TimeoutsMatchStage ==
  /\ stage \in {"mcs", "active"} => ~read_timeout
  /\ stage \in Handshake \ {"tcp"} => read_timeout

\* A peer that stays silent at any point of X.224, TLS or CredSSP does not hold
\* the thread for ever (tls.rs HANDSHAKE_TIMEOUT, run_nla).
HandshakeBounded == <>(stage \notin Handshake)

\* What the comment on restoring blocking mode says of the phases after it:
\* they manage their own timeouts, so that connect returns (tls.rs, connect).
ConnectReturns == <>(stage \in {"active", "failed"})

-----------------------------------------------------------------------------
(***************************************************************************)
(* The inductive invariant, beside what the two components keep: nothing   *)
(* has left the client before the server's selection is known, and from    *)
(* then on what has left it is what the selection calls for.               *)
(***************************************************************************)
HandedOver == \E b \in sealed : b.msg = Nla!Creds

StageInv ==
  /\ stage \in {"tcp", "connection_confirm", "tls"} => sealed = {} /\ out = <<>>
  /\ stage \in {"nla_challenge", "nla_pubkey"} => "HYBRID" \in selected
  /\ "HYBRID" \notin selected => sealed = {}
  /\ "HYBRID" \in selected /\ (out # <<>> \/ stage \in {"mcs", "active"}) => HandedOver

IInv == StageInv /\ TimeoutsMatchStage
=============================================================================
