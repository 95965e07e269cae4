---------------------------- MODULE CredSspProofs ----------------------------
(***************************************************************************)
(* Proofs about CredSsp, for any number of calls in any order, any set of  *)
(* keys the peer may be bound to and any width of the sequence numbers.    *)
(***************************************************************************)
EXTENDS CredSsp, TLAPS

\* A counter below the width of the sequence numbers is its own residue.
LEMMA SmallMod ==
  ASSUME NEW n \in Nat, n < SeqMod
  PROVE  n % SeqMod = n
BY SeqModAssumption

\* Residues are sequence numbers.
LEMMA ModRange ==
  ASSUME NEW n \in Nat
  PROVE  n % SeqMod \in 0..(SeqMod - 1)
BY SeqModAssumption

\* The residue is determined by any quotient and remainder.
LEMMA ModUnique ==
  ASSUME NEW q \in Int, NEW r \in 0..(SeqMod - 1)
  PROVE  (SeqMod * q + r) % SeqMod = r
BY SeqModAssumption

\* Every number has a quotient and a remainder.
LEMMA ModQuotient ==
  ASSUME NEW n \in Nat
  PROVE  n \div SeqMod \in Nat /\ n = SeqMod * (n \div SeqMod) + (n % SeqMod)
BY SeqModAssumption

\* The sequence number steps like the counter it is the residue of, also where
\* it wraps (sspi.rs, wrapping_add).
LEMMA WrapStep ==
  ASSUME NEW n \in Nat
  PROVE  wrapping_add1(n % SeqMod) = (n + 1) % SeqMod
<1> DEFINE q == n \div SeqMod
           r == n % SeqMod
<1>1. q \in Nat /\ n = SeqMod * q + r /\ r \in 0..(SeqMod - 1)
  BY ModQuotient, ModRange
<1>2. wrapping_add1(n % SeqMod) = (r + 1) % SeqMod
  BY DEF wrapping_add1
<1> HIDE DEF q, r
<1>3. CASE r + 1 < SeqMod
  <2>1. n + 1 = SeqMod * q + (r + 1) /\ r + 1 \in 0..(SeqMod - 1)
    BY <1>1, <1>3, SeqModAssumption
  <2>2. (n + 1) % SeqMod = r + 1
    BY <1>1, <2>1, ModUnique
  <2>3. (r + 1) % SeqMod = r + 1
    BY <1>3, <2>1, SmallMod
  <2>4. QED
    BY <1>2, <2>2, <2>3
<1>4. CASE r + 1 = SeqMod
  <2>1. n + 1 = SeqMod * (q + 1) + 0 /\ r + 1 = SeqMod * 1 + 0
    BY <1>1, <1>4, SeqModAssumption
  <2>2. 0 \in 0..(SeqMod - 1) /\ q + 1 \in Int /\ 1 \in Int
    BY <1>1, SeqModAssumption
  <2>3. (n + 1) % SeqMod = 0 /\ (r + 1) % SeqMod = 0
    BY <2>1, <2>2, ModUnique
  <2>4. QED
    BY <1>2, <2>3
<1>5. QED
  BY <1>1, <1>3, <1>4, SeqModAssumption

\* wrapping_add stays within the width.
LEMMA WrapRange ==
  ASSUME NEW s \in 0..(SeqMod - 1)
  PROVE  wrapping_add1(s) \in 0..(SeqMod - 1)
BY SeqModAssumption, ModRange DEF wrapping_add1

\* The fields of a context after a seal.
LEMMA SealFields ==
  ASSUME NEW c \in SecurityContext, NEW n \in Nat
  PROVE  /\ AfterSeal(c, n) \in SecurityContext
         /\ AfterSeal(c, n).role = c.role
         /\ AfterSeal(c, n).own_seal = c.own_seal + n + CHECKSUM_LEN
         /\ AfterSeal(c, n).peer_seal = c.peer_seal
         /\ AfterSeal(c, n).send_seq = wrapping_add1(c.send_seq)
         /\ AfterSeal(c, n).recv_seq = c.recv_seq
<1>1. wrapping_add1(c.send_seq) \in 0..(SeqMod - 1)
  BY WrapRange DEF SecurityContext
<1>2. AfterSeal(c, n) = [role |-> c.role, own_seal |-> c.own_seal + n + CHECKSUM_LEN,
                         peer_seal |-> c.peer_seal,
                         send_seq |-> wrapping_add1(c.send_seq), recv_seq |-> c.recv_seq]
  BY DEF AfterSeal, SecurityContext, AfterChecksum
<1>3. c.own_seal + n + CHECKSUM_LEN \in Nat
  BY DEF SecurityContext, CHECKSUM_LEN
<1>4. QED
  BY <1>1, <1>2, <1>3 DEF SecurityContext

\* The fields of a context after an unseal, accepted or not.
LEMMA UnsealFields ==
  ASSUME NEW c \in SecurityContext, NEW b, b.len \in Nat
  PROVE  /\ AfterUnseal(c, b) \in SecurityContext
         /\ AfterUnseal(c, b).role = c.role
         /\ AfterUnseal(c, b).own_seal = c.own_seal
         /\ AfterUnseal(c, b).peer_seal = c.peer_seal + b.len + CHECKSUM_LEN
         /\ AfterUnseal(c, b).send_seq = c.send_seq
         /\ AfterUnseal(c, b).recv_seq =
              IF Verifies(c, b) THEN wrapping_add1(c.recv_seq) ELSE c.recv_seq
<1>1. wrapping_add1(c.recv_seq) \in 0..(SeqMod - 1)
  BY WrapRange DEF SecurityContext
<1> DEFINE s == IF Verifies(c, b) THEN wrapping_add1(c.recv_seq) ELSE c.recv_seq
<1>2. s \in 0..(SeqMod - 1)
  BY <1>1 DEF SecurityContext
<1>3. AfterUnseal(c, b) = [role |-> c.role, own_seal |-> c.own_seal,
                           peer_seal |-> c.peer_seal + b.len + CHECKSUM_LEN,
                           send_seq |-> c.send_seq, recv_seq |-> s]
  BY DEF AfterUnseal, SecurityContext, AfterChecksum
<1>4. c.peer_seal + b.len + CHECKSUM_LEN \in Nat
  BY DEF SecurityContext, CHECKSUM_LEN
<1> HIDE DEF s
<1>5. QED
  BY <1>2, <1>3, <1>4 DEF SecurityContext, s

-----------------------------------------------------------------------------
\* The fields of a blob have their types.
LEMMA BlobFields ==
  ASSUME NEW b \in Blob
  PROVE  /\ b.key \in Role /\ b.at \in Nat /\ b.msg \in Plaintext /\ b.len \in Nat
BY SeqModAssumption DEF Blob

\* Altering a blob changes nothing else of it.
LEMMA AlteredBlob ==
  ASSUME NEW b \in Blob, NEW ok \in BOOLEAN
  PROVE  LET d == [b EXCEPT !.intact = ok]
         IN  d \in Blob /\ d.key = b.key /\ d.msg = b.msg
BY DEF Blob

\* What seal returns is a blob, under the key of the context.
LEMMA SealedFields ==
  ASSUME NEW c \in SecurityContext, NEW m \in Plaintext, NEW n \in Nat
  PROVE  /\ SealedBlob(c, m, n) \in Blob
         /\ SealedBlob(c, m, n).key = c.role
         /\ SealedBlob(c, m, n).msg = m
BY DEF SealedBlob, SecurityContext, Blob

\* A fresh context.
LEMMA NewFields ==
  ASSUME NEW r \in Role
  PROVE  /\ NewContext(r) \in SecurityContext
         /\ NewContext(r).role = r
         /\ NewContext(r).own_seal = 0 /\ NewContext(r).send_seq = 0
BY SeqModAssumption DEF NewContext, SecurityContext

\* The three kinds of plaintext differ.
LEMMA Plaintexts ==
  /\ ClientHash(TlsKey) \in Plaintext /\ Creds \in Plaintext
  /\ \A k \in PeerKeys : ServerHash(k) \in Plaintext
  /\ ClientHash(TlsKey) # Creds
BY DEF Plaintext, ClientHash, Creds, ServerHash

\* Slots are positions and follow one another without overlap.
LEMMA SlotFacts ==
  /\ \A j \in Nat : SlotAt(j) \in Nat /\ SlotAt(j) >= HASH_LEN + CHECKSUM_LEN
  /\ \A j \in Nat : SlotAt(j + 1) = SlotAt(j) + CREDS_LEN + CHECKSUM_LEN
  /\ \A i, j \in Nat : i < j => SlotAt(i) + CREDS_LEN + CHECKSUM_LEN <= SlotAt(j)
  /\ SlotAt(0) = HASH_LEN + CHECKSUM_LEN
<1> DEFINE C == CREDS_LEN + 8
<1>1. C \in Nat
  BY CredSspAssumption
<1>2. \A j \in Nat : SlotAt(j) = 40 + j * C
  BY CredSspAssumption DEF SlotAt, AfterChecksum, HASH_LEN, CHECKSUM_LEN
<1> HIDE DEF C
<1>3. \A j \in Nat : j * C \in Nat /\ (j + 1) * C = j * C + C
  BY <1>1
<1>4. \A i, j \in Nat : i < j => i * C + C <= j * C
  BY <1>1
<1>5. 0 * C = 0
  BY <1>1
<1>6. \A j \in Nat : j + 1 \in Nat
  OBVIOUS
<1>7. CREDS_LEN + CHECKSUM_LEN = C /\ CREDS_LEN \in Nat
  BY CredSspAssumption DEF C, CHECKSUM_LEN
<1>8. QED
  BY <1>1, <1>2, <1>3, <1>4, <1>5, <1>6, <1>7 DEF HASH_LEN, CHECKSUM_LEN

\* The sequence number of the next slot is the next one.
LEMMA SlotSeqStep ==
  ASSUME NEW j \in Nat
  PROVE  wrapping_add1(SlotSeq(j)) = SlotSeq(j + 1)
<1>1. j + 1 \in Nat
  OBVIOUS
<1>2. QED
  BY <1>1, WrapStep DEF SlotSeq

-----------------------------------------------------------------------------
\* Nothing has been sealed at the start.
LEMMA InitInv == Init => IInv
<1> SUFFICES ASSUME Init PROVE IInv
  OBVIOUS
<1>1. TypeOK
  BY NewFields DEF Init, TypeOK, Role
<1>2. RolesInv
  BY NewFields DEF Init, RolesInv, Role
<1>3. LayoutInv /\ CredsOnlyForBoundPeer
  BY DEF Init, LayoutInv, CredsOnlyForBoundPeer
<1>4. QED
  BY <1>1, <1>2, <1>3 DEF IInv

\* A call that changes neither context nor what was sealed keeps the invariant.
LEMMA IdleStep ==
  ASSUME IInv, calls' \in Nat, calls' >= calls, result' \in {"none", "ok", "err"},
         negotiate' \in BOOLEAN,
         UNCHANGED <<has_security, security, sealed, authenticate, peerVars>>
  PROVE  IInv'
<1>1. TypeOK'
  BY DEF IInv, TypeOK, peerVars
<1>2. RolesInv' /\ CredsOnlyForBoundPeer'
  BY DEF IInv, RolesInv, CredsOnlyForBoundPeer, peerVars
<1>3. \A j \in 0..calls : j \in 0..calls'
  BY DEF IInv, TypeOK
<1>4. LayoutInv'
  BY <1>3 DEF IInv, LayoutInv
<1>5. QED
  BY <1>1, <1>2, <1>4 DEF IInv

\* process_challenge starts the layout again with the same first blob.
LEMMA ChallengeStep ==
  ASSUME IInv, process_challenge("challenge")
  PROVE  IInv'
<1> DEFINE c == NewContext("Client")
<1>1. c \in SecurityContext /\ c.role = "Client" /\ c.own_seal = 0 /\ c.send_seq = 0
  BY NewFields DEF Role
<1>2. /\ has_security' = TRUE /\ security' = AfterSeal(c, HASH_LEN)
      /\ sealed' = sealed \cup {HashBlob} /\ authenticate' = negotiate
      /\ result' = "ok" /\ calls' = calls + 1
      /\ UNCHANGED <<negotiate, peerVars>>
  BY DEF process_challenge, Returns, HashBlob
<1>3. HASH_LEN \in Nat
  BY DEF HASH_LEN
<1>4. HashBlob \in Blob /\ HashBlob.msg = ClientHash(TlsKey)
  BY <1>1, <1>3, SealedFields, Plaintexts DEF HashBlob
<1> HIDE DEF c
<1>5. /\ security' \in SecurityContext /\ security'.role = "Client"
      /\ security'.own_seal = HASH_LEN + CHECKSUM_LEN
      /\ security'.send_seq = wrapping_add1(0)
  <2>1. /\ AfterSeal(c, HASH_LEN) \in SecurityContext
        /\ AfterSeal(c, HASH_LEN).role = c.role
        /\ AfterSeal(c, HASH_LEN).own_seal = c.own_seal + HASH_LEN + CHECKSUM_LEN
        /\ AfterSeal(c, HASH_LEN).send_seq = wrapping_add1(c.send_seq)
    BY <1>1, <1>3, SealFields
  <2>2. c.own_seal + HASH_LEN + CHECKSUM_LEN = HASH_LEN + CHECKSUM_LEN
    BY <1>1 DEF HASH_LEN, CHECKSUM_LEN
  <2>3. QED
    BY <1>1, <1>2, <2>1, <2>2
<1>6. TypeOK'
  BY <1>2, <1>4, <1>5 DEF IInv, TypeOK, peerVars
<1>7. RolesInv'
  BY <1>2, <1>5 DEF IInv, RolesInv, peerVars
<1>8. /\ \A j \in 0..calls : j \in 0..calls'
      /\ 0 \in 0..calls'
  BY <1>2 DEF IInv, TypeOK
<1>9. SlotSeq(0) = wrapping_add1(0) /\ SlotAt(0) = HASH_LEN + CHECKSUM_LEN
  BY SlotFacts DEF SlotSeq, wrapping_add1
<1>10. LayoutInv'
  BY <1>2, <1>5, <1>8, <1>9 DEF IInv, LayoutInv
<1>11. CredsOnlyForBoundPeer'
  BY <1>2, <1>4, Plaintexts DEF IInv, CredsOnlyForBoundPeer, peerVars
<1>12. QED
  BY <1>6, <1>7, <1>10, <1>11 DEF IInv

\* process_pubkey seals the credentials, in the next slot, only after it has
\* opened a blob of the peer with the hash of this channel's key.
LEMMA PubkeyStep ==
  ASSUME IInv, NEW b \in PubKeyAuth, process_pubkey(b)
  PROVE  IInv'
<1> DEFINE opened == AfterUnseal(security, b)
<1>1. PICK a \in sealed \cup peer_sealed, ok \in BOOLEAN : b = [a EXCEPT !.intact = ok]
  BY DEF PubKeyAuth
<1>2. a \in Blob
  BY DEF IInv, TypeOK
<1>3. b \in Blob /\ b.key = a.key /\ b.msg = a.msg
  BY <1>1, <1>2, AlteredBlob
<1>4. security \in SecurityContext /\ b.len \in Nat /\ calls \in Nat
  BY <1>3, BlobFields DEF IInv, TypeOK
<1>5. /\ opened \in SecurityContext /\ opened.role = security.role
      /\ opened.own_seal = security.own_seal /\ opened.send_seq = security.send_seq
  BY <1>4, UnsealFields
<1>6. PICK j \in 0..calls : security.own_seal = SlotAt(j) /\ security.send_seq = SlotSeq(j)
  BY DEF IInv, LayoutInv, process_pubkey
<1>7. calls' = calls + 1 /\ result' \in {"none", "ok", "err"}
      /\ UNCHANGED <<negotiate, has_security, authenticate, peerVars>>
  BY DEF process_pubkey, Returns
<1>8. /\ \A i \in 0..calls : i \in 0..calls'
      /\ j \in Nat /\ j + 1 \in 0..calls' /\ j \in 0..calls'
  BY <1>4, <1>7
<1>9. security.role = "Client"
  BY DEF IInv, RolesInv
<1>10. CASE /\ Verifies(security, b) /\ ExpectedHash(b.msg)
            /\ security' = AfterSeal(opened, CREDS_LEN)
            /\ sealed' = sealed \cup {SealedBlob(opened, Creds, CREDS_LEN)}
  <2> DEFINE new == SealedBlob(opened, Creds, CREDS_LEN)
  <2>1. CREDS_LEN \in Nat
    BY CredSspAssumption
  <2>2. /\ security' \in SecurityContext /\ security'.role = "Client"
        /\ security'.own_seal = SlotAt(j) + CREDS_LEN + CHECKSUM_LEN
        /\ security'.send_seq = wrapping_add1(SlotSeq(j))
    BY <1>5, <1>6, <1>9, <1>10, <2>1, SealFields
  <2>3. new \in Blob
    BY <1>5, <2>1, SealedFields, Plaintexts
  <2>4. new = CredsBlob(j)
    BY <1>5, <1>6, <1>9 DEF SealedBlob, CredsBlob
  <2> HIDE DEF new, opened
  <2>5. TypeOK'
    BY <1>7, <1>8, <1>10, <2>2, <2>3 DEF IInv, TypeOK, peerVars, new
  <2>6. RolesInv'
    BY <1>7, <2>2 DEF IInv, RolesInv, peerVars
  <2>7. \A d \in sealed' : d = HashBlob \/ \E i \in 0..calls' : d = CredsBlob(i)
    BY <1>8, <1>10, <2>4 DEF IInv, LayoutInv, new
  <2>8. security'.own_seal = SlotAt(j + 1) /\ security'.send_seq = SlotSeq(j + 1)
    BY <1>8, <2>2, SlotFacts, SlotSeqStep
  <2>9. LayoutInv'
    BY <1>8, <2>7, <2>8 DEF LayoutInv
  <2>10. a.key = "Server" /\ a.msg = ServerHash(TlsKey)
    BY <1>3, <1>9, <1>10 DEF Verifies, Peer, ExpectedHash
  <2>11. a \in peer_sealed
    BY <2>10 DEF IInv, LayoutInv, HashBlob, CredsBlob, SealedBlob, NewContext
  <2>12. CredsOnlyForBoundPeer'
    BY <1>7, <2>10, <2>11 DEF CredsOnlyForBoundPeer, peerVars
  <2>13. QED
    BY <2>5, <2>6, <2>9, <2>12 DEF IInv
<1>11. CASE security' = opened /\ UNCHANGED sealed
  <2>1. /\ security' \in SecurityContext /\ security'.role = "Client"
        /\ security'.own_seal = SlotAt(j) /\ security'.send_seq = SlotSeq(j)
    BY <1>5, <1>6, <1>9, <1>11
  <2>2. TypeOK'
    BY <1>7, <1>8, <1>11, <2>1 DEF IInv, TypeOK, peerVars
  <2>3. RolesInv' /\ CredsOnlyForBoundPeer'
    BY <1>7, <1>11, <2>1 DEF IInv, RolesInv, CredsOnlyForBoundPeer, peerVars
  <2>4. LayoutInv'
    BY <1>8, <1>11, <2>1 DEF IInv, LayoutInv
  <2>5. QED
    BY <2>2, <2>3, <2>4 DEF IInv
<1>12. QED
  BY <1>10, <1>11 DEF process_pubkey

\* The peer's context and its blobs keep their role.
LEMMA PeerStep ==
  ASSUME IInv, peer_accept \/ \E k \in PeerKeys : peer_seal(k)
  PROVE  IInv'
<1> DEFINE n == NewContext("Server")
<1>1. n \in SecurityContext /\ n.role = "Server"
  BY NewFields DEF Role
<1>2. HASH_LEN \in Nat
  BY DEF HASH_LEN
<1>3. UNCHANGED clientVars
  BY DEF peer_accept, peer_seal
<1>4. /\ peer' \in SecurityContext /\ peer'.role = "Server" /\ peer_has' \in BOOLEAN
      /\ peer_sealed' \subseteq Blob
      /\ peer_sealed \subseteq peer_sealed'
      /\ \A d \in peer_sealed' : d.key = "Server"
  <2>1. CASE peer_accept
    <3> DEFINE b == SealedBlob(NewContext("Client"), ClientHash(TlsKey), HASH_LEN)
    <3>1. b.len \in Nat
      BY <1>2 DEF SealedBlob
    <3>2. peer' = AfterUnseal(n, b) /\ peer_has' = TRUE /\ UNCHANGED peer_sealed
      BY <2>1 DEF peer_accept
    <3> HIDE DEF n, b
    <3>3. peer' \in SecurityContext /\ peer'.role = "Server"
      BY <1>1, <3>1, <3>2, UnsealFields
    <3>4. QED
      BY <3>2, <3>3 DEF IInv, TypeOK, RolesInv
  <2>2. CASE \E k \in PeerKeys : peer_seal(k)
    <3>1. PICK k \in PeerKeys : peer_seal(k)
      BY <2>2
    <3> DEFINE b == SealedBlob(peer, ServerHash(k), HASH_LEN)
    <3>2. peer \in SecurityContext /\ peer.role = "Server"
      BY DEF IInv, TypeOK, RolesInv
    <3>3. peer' \in SecurityContext /\ peer'.role = "Server"
      BY <1>2, <3>1, <3>2, SealFields DEF peer_seal
    <3>4. b \in Blob /\ b.key = "Server"
      BY <1>2, <3>2, SealedFields, Plaintexts
    <3>5. peer_sealed' = peer_sealed \cup {b} /\ UNCHANGED peer_has
      BY <3>1 DEF peer_seal
    <3> HIDE DEF b
    <3>6. QED
      BY <3>3, <3>4, <3>5 DEF IInv, TypeOK, RolesInv
  <2>3. QED
    BY <2>1, <2>2
<1>5. TypeOK' /\ RolesInv'
  BY <1>3, <1>4 DEF IInv, TypeOK, RolesInv, clientVars
<1>6. LayoutInv' /\ CredsOnlyForBoundPeer'
  BY <1>3, <1>4 DEF IInv, LayoutInv, CredsOnlyForBoundPeer, clientVars
<1>7. QED
  BY <1>5, <1>6 DEF IInv

\* Every call of the client and every step of the peer keeps the invariant.
LEMMA NextInv == IInv /\ [Next]_vars => IInv'
<1> SUFFICES ASSUME IInv, [Next]_vars PROVE IInv'
  OBVIOUS
<1>1. calls \in Nat /\ negotiate \in BOOLEAN /\ result \in {"none", "ok", "err"}
  BY DEF IInv, TypeOK
<1>2. CASE start
  BY <1>1, <1>2, IdleStep DEF start, Returns
<1>3. ASSUME NEW req \in ChallengeRequest, process_challenge(req) PROVE IInv'
  <2>1. CASE req = "challenge"
    BY <1>3, <2>1, ChallengeStep
  <2>2. CASE req # "challenge"
    BY <1>1, <1>3, <2>2, IdleStep DEF process_challenge, Returns
  <2>3. QED
    BY <2>1, <2>2
<1>4. CASE process_pubkey_refused
  BY <1>1, <1>4, IdleStep DEF process_pubkey_refused, Returns
<1>5. ASSUME NEW b \in PubKeyAuth, process_pubkey(b) PROVE IInv'
  BY <1>5, PubkeyStep
<1>6. CASE peer_accept \/ \E k \in PeerKeys : peer_seal(k)
  BY <1>6, PeerStep
<1>7. CASE UNCHANGED vars
  BY <1>1, <1>7, IdleStep DEF vars, clientVars
<1>8. QED
  BY <1>2, <1>3, <1>4, <1>5, <1>6, <1>7 DEF Next

-----------------------------------------------------------------------------
\* The layout of the client's keystream and the roles of the two sides hold
\* whatever is called (nla/client.rs).
THEOREM Invariance == Spec => []IInv
BY InitInv, NextInv, PTL DEF Spec

\* Credentials are sealed only once the peer has bound itself to the key of the
\* TLS channel (process_pubkey).
THEOREM CredsForBoundPeer == Spec => []CredsOnlyForBoundPeer
<1>1. IInv => CredsOnlyForBoundPeer
  BY DEF IInv
<1>2. QED
  BY <1>1, Invariance, PTL

\* The types hold, sequence numbers within their width included.
THEOREM TypeCorrect == Spec => []TypeOK
<1>1. IInv => TypeOK
  BY DEF IInv
<1>2. QED
  BY <1>1, Invariance, PTL

\* No part of the client's keystream encrypts two messages, however often
\* process_challenge restarts it (process_challenge, process_pubkey).
THEOREM KeystreamUsedOnce == Spec => []KeystreamNotReused
<1>1. IInv => KeystreamNotReused
  <2> SUFFICES ASSUME IInv, NEW b \in sealed, NEW c \in sealed, Overlap(b, c)
               PROVE  b = c
    BY DEF KeystreamNotReused
  <2> USE CredSspAssumption
  <2>1. calls \in Nat
    BY DEF IInv, TypeOK
  <2>2. HashBlob.at = 0 /\ HashBlob.len = HASH_LEN
    BY DEF HashBlob, SealedBlob, NewContext
  <2>3. \A j : CredsBlob(j).at = SlotAt(j) /\ CredsBlob(j).len = CREDS_LEN
    BY DEF CredsBlob
  <2>4. /\ b = HashBlob \/ \E i \in 0..calls : b = CredsBlob(i)
        /\ c = HashBlob \/ \E j \in 0..calls : c = CredsBlob(j)
    BY DEF IInv, LayoutInv
  <2>5. /\ b.at < c.at + c.len + CHECKSUM_LEN
        /\ c.at < b.at + b.len + CHECKSUM_LEN
    BY DEF Overlap, AfterChecksum
  <2>6. CASE b = HashBlob /\ c = HashBlob
    BY <2>6
  <2>7. ASSUME NEW j \in 0..calls,
               \/ b = HashBlob /\ c = CredsBlob(j)
               \/ c = HashBlob /\ b = CredsBlob(j)
        PROVE  FALSE
    <3>1. j \in Nat
      BY <2>1
    <3>2. SlotAt(j) \in Nat /\ SlotAt(j) >= HASH_LEN + CHECKSUM_LEN
      BY <3>1, SlotFacts
    <3>3. SlotAt(j) < HASH_LEN + CHECKSUM_LEN
      BY <2>2, <2>3, <2>5, <2>7, <3>2 DEF HASH_LEN, CHECKSUM_LEN
    <3>4. QED
      BY <3>2, <3>3 DEF HASH_LEN, CHECKSUM_LEN
  <2>8. ASSUME NEW i \in 0..calls, NEW j \in 0..calls,
               b = CredsBlob(i), c = CredsBlob(j)
        PROVE  b = c
    <3>1. i \in Nat /\ j \in Nat
      BY <2>1
    <3>2. /\ SlotAt(i) \in Nat /\ SlotAt(j) \in Nat
          /\ i < j => SlotAt(i) + CREDS_LEN + CHECKSUM_LEN <= SlotAt(j)
          /\ j < i => SlotAt(j) + CREDS_LEN + CHECKSUM_LEN <= SlotAt(i)
      BY <3>1, SlotFacts
    <3>3. /\ SlotAt(i) < SlotAt(j) + CREDS_LEN + CHECKSUM_LEN
          /\ SlotAt(j) < SlotAt(i) + CREDS_LEN + CHECKSUM_LEN
      BY <2>3, <2>5, <2>8
    <3>4. ~(i < j) /\ ~(j < i)
      BY <3>1, <3>2, <3>3 DEF CHECKSUM_LEN
    <3>5. i = j
      BY <3>1, <3>4
    <3>6. QED
      BY <2>8, <3>5
  <2>9. QED
    BY <2>4, <2>6, <2>7, <2>8
<1>2. QED
  BY <1>1, Invariance, PTL
=============================================================================
