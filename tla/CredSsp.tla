------------------------------- MODULE CredSsp -------------------------------
(***************************************************************************)
(* CredSspClient of nla/client.rs: the CredSSP exchange that authenticates *)
(* the user with NTLMv2, checks that the peer which knows the session key  *)
(* is the one at the end of the TLS channel (pubKeyAuth), and only then    *)
(* hands over the sealed credentials (authInfo).                           *)
(*                                                                         *)
(* start, process_challenge and process_pubkey are public: here they are   *)
(* called in any order and any number of times, with any TSRequest.  The   *)
(* peer (external) derives the session key from an AUTHENTICATE message    *)
(* if it knows the password; the key its hash is bound to is that of the   *)
(* TLS channel or of another certificate.                                  *)
(***************************************************************************)
EXTENDS Sspi

CONSTANTS TlsKey,          \* SubjectPublicKey of the certificate the client saw
          PeerKeys,        \* keys the peer may bind its pubKeyAuth to
          CREDS_LEN,       \* length of the encoded TSCredentials
          MaxCalls,        \* calls of the client's methods (bound)
          MaxPeerSeals     \* pubKeyAuth replies the peer seals (bound)

HASH_LEN == 32             \* SHA-256

ASSUME CredSspAssumption ==
  /\ CREDS_LEN \in Nat /\ MaxCalls \in Nat /\ MaxPeerSeals \in Nat

VARIABLES negotiate,       \* negotiate_bytes is set
          has_security,    \* security is Some
          security,        \* the client's SecurityContext
          sealed,          \* history: blobs the client has sealed and returned
          authenticate,    \* the last AUTHENTICATE carries a MIC over the NEGOTIATE
          result,          \* Result of the last call
          calls,
          peer_has, peer,  \* the peer's context
          peer_sealed      \* history: blobs the peer has sealed

clientVars == <<negotiate, has_security, security, sealed, authenticate, result, calls>>
peerVars == <<peer_has, peer, peer_sealed>>
vars == <<clientVars, peerVars>>

-----------------------------------------------------------------------------
(* Plaintexts and TSRequests *)

\* client_server_binding_hash and server_client_binding_hash of a public key
ClientHash(k) == <<"client-to-server", k>>
ServerHash(k) == <<"server-to-client", k>>
Creds == <<"credentials", TlsKey>>

Plaintext == {ClientHash(TlsKey), Creds} \cup {ServerHash(k) : k \in PeerKeys}

Blob == [key : Role, seq : 0..(SeqMod - 1), at : Nat, msg : Plaintext, len : Nat,
         intact : BOOLEAN]

\* The first TSRequest of the peer: whether and what token it carries
ChallengeRequest == {"undecodable", "no token", "malformed token", "challenge"}

-----------------------------------------------------------------------------
(* The client: nla/client.rs *)

Returns(r) == result' = r /\ calls < MaxCalls /\ calls' = calls + 1

start ==
  /\ Returns("ok")
  /\ negotiate' = TRUE
  /\ UNCHANGED <<has_security, security, sealed, authenticate, peerVars>>

\* A fresh context from the same exported session key, then seal of the hash.
\* The NTLMv2 response, the key exchange and the MIC are symbolic.
process_challenge(req) ==
  LET ctx == NewContext("Client") IN
  /\ \/ /\ req = "challenge"
        /\ Returns("ok")
        /\ has_security' = TRUE
        /\ security' = AfterSeal(ctx, HASH_LEN)
        /\ sealed' = sealed \cup {SealedBlob(ctx, ClientHash(TlsKey), HASH_LEN)}
        /\ authenticate' = negotiate
     \/ /\ req # "challenge"
        /\ Returns("err")
        /\ UNCHANGED <<has_security, security, sealed, authenticate>>
  /\ UNCHANGED <<negotiate, peerVars>>

\* TSRequest undecodable, with an errorCode, without pubKeyAuth, no context yet,
\* or a pubKeyAuth shorter than a signature: refused with nothing changed
process_pubkey_refused ==
  /\ Returns("err")
  /\ UNCHANGED <<negotiate, has_security, security, sealed, authenticate, peerVars>>

\* Mutant: any hash under a valid signature is taken
AnyHash(hash) == TRUE

\* server_hash == server_client_binding_hash(nonce, server_public_key)
ExpectedHash(hash) == hash = ServerHash(TlsKey)

\* unseal, comparison with the expected hash, then seal of the credentials
process_pubkey(blob) ==
  LET opened == AfterUnseal(security, blob) IN
  /\ has_security
  /\ \/ /\ Verifies(security, blob) /\ ExpectedHash(blob.msg)
        /\ Returns("ok")
        /\ security' = AfterSeal(opened, CREDS_LEN)
        /\ sealed' = sealed \cup {SealedBlob(opened, Creds, CREDS_LEN)}
     \/ /\ ~(Verifies(security, blob) /\ ExpectedHash(blob.msg))
        /\ Returns("err")
        /\ security' = opened
        /\ UNCHANGED sealed
  /\ UNCHANGED <<negotiate, has_security, authenticate, peerVars>>

-----------------------------------------------------------------------------
(* The peer (external) *)

\* Accepts the last AUTHENTICATE: fresh context, and opens the client's pubKeyAuth
peer_accept ==
  /\ has_security /\ authenticate
  /\ peer_has' = TRUE
  /\ peer' = AfterUnseal(NewContext("Server"),
                         SealedBlob(NewContext("Client"), ClientHash(TlsKey), HASH_LEN))
  /\ UNCHANGED <<peer_sealed, clientVars>>

peer_seal(k) ==
  /\ peer_has
  /\ peer.own_seal < MaxPeerSeals * AfterChecksum(0, HASH_LEN)
  /\ peer' = AfterSeal(peer, HASH_LEN)
  /\ peer_sealed' = peer_sealed \cup {SealedBlob(peer, ServerHash(k), HASH_LEN)}
  /\ UNCHANGED <<peer_has, clientVars>>

-----------------------------------------------------------------------------
Init ==
  /\ negotiate = FALSE /\ has_security = FALSE /\ security = NewContext("Client")
  /\ sealed = {} /\ authenticate = FALSE /\ result = "none" /\ calls = 0
  /\ peer_has = FALSE /\ peer = NewContext("Server") /\ peer_sealed = {}

\* pubKeyAuth: anything the peer sealed, or the client's own blob sent back,
\* as it was or altered
PubKeyAuth == {[b EXCEPT !.intact = ok] : b \in sealed \cup peer_sealed, ok \in BOOLEAN}

Next ==
  \/ start
  \/ \E req \in ChallengeRequest : process_challenge(req)
  \/ process_pubkey_refused
  \/ \E b \in PubKeyAuth : process_pubkey(b)
  \/ peer_accept
  \/ \E k \in PeerKeys : peer_seal(k)

Spec == Init /\ [][Next]_vars

-----------------------------------------------------------------------------
TypeOK ==
  /\ negotiate \in BOOLEAN /\ has_security \in BOOLEAN /\ authenticate \in BOOLEAN
  /\ security \in SecurityContext /\ peer \in SecurityContext
  /\ sealed \subseteq Blob /\ peer_sealed \subseteq Blob
  /\ result \in {"none", "ok", "err"} /\ calls \in Nat
  /\ peer_has \in BOOLEAN

\* Credentials are sealed only for a peer that has proved, with a pubKeyAuth of
\* its own, to know the session key and to be bound to the public key of the
\* TLS channel, whatever else it sent before (process_pubkey).
CredsOnlyForBoundPeer ==
  (\E b \in sealed : b.msg = Creds) => \E b \in peer_sealed : b.msg = ServerHash(TlsKey)

Overlap(b, c) ==
  /\ b.at < AfterChecksum(c.at, c.len)
  /\ c.at < AfterChecksum(b.at, b.len)

\* However the three methods are called, the client's keystream never encrypts
\* two different messages with the same bytes, although every
\* process_challenge restarts it from the same key (process_challenge,
\* process_pubkey).
KeystreamNotReused ==
  \A b, c \in sealed : Overlap(b, c) => b = c

-----------------------------------------------------------------------------
(***************************************************************************)
(* The inductive invariant.  Whatever is called, what the client has       *)
(* sealed lies in one fixed layout of its keystream: the hash first, then  *)
(* one slot after another for the credentials, with the sequence number    *)
(* determined by the slot.                                                 *)
(***************************************************************************)
HashBlob == SealedBlob(NewContext("Client"), ClientHash(TlsKey), HASH_LEN)

\* Where the j-th slot begins, and the number of what is sealed there
SlotAt(j) == AfterChecksum(0, HASH_LEN) + j * AfterChecksum(0, CREDS_LEN)
SlotSeq(j) == (j + 1) % SeqMod

CredsBlob(j) == [key |-> "Client", seq |-> SlotSeq(j), at |-> SlotAt(j),
                 msg |-> Creds, len |-> CREDS_LEN, intact |-> TRUE]

\* The two sides seal with their own keys
RolesInv ==
  /\ security.role = "Client" /\ peer.role = "Server"
  /\ \A b \in peer_sealed : b.key = "Server"

LayoutInv ==
  /\ \A b \in sealed : b = HashBlob \/ \E j \in 0..calls : b = CredsBlob(j)
  /\ has_security => \E j \in 0..calls : /\ security.own_seal = SlotAt(j)
                                         /\ security.send_seq = SlotSeq(j)

IInv == TypeOK /\ RolesInv /\ LayoutInv /\ CredsOnlyForBoundPeer
=============================================================================
