-------------------------- MODULE SspiChannelProofs --------------------------
(***************************************************************************)
(* Proofs about the pair of contexts of SspiChannel, for any set of        *)
(* messages, any lengths and any width of the sequence numbers, as long as *)
(* neither side is a whole turn of them ahead of the other.                *)
(***************************************************************************)
EXTENDS SspiChannel, SequenceTheorems, TLAPS

\* The peer of a role is the other role.
LEMMA PeerFacts ==
  ASSUME NEW r \in Role
  PROVE  Peer(r) \in Role /\ Peer(r) # r /\ Peer(Peer(r)) = r
BY DEF Role, Peer

\* A counter below the width of the sequence numbers is its own residue.
LEMMA SmallMod ==
  ASSUME NEW n \in Nat, n < SeqMod
  PROVE  n % SeqMod = n
BY SeqModAssumption

\* Residues are sequence numbers.
LEMMA ModRange ==
  ASSUME NEW n \in Nat
  PROVE  n % SeqMod \in 0..(SeqMod - 1)
BY SeqModAssumption

\* The residue is determined by any quotient and remainder.
LEMMA ModUnique ==
  ASSUME NEW q \in Int, NEW r \in 0..(SeqMod - 1)
  PROVE  (SeqMod * q + r) % SeqMod = r
BY SeqModAssumption

\* Every number has a quotient and a remainder.
LEMMA ModQuotient ==
  ASSUME NEW n \in Nat
  PROVE  n \div SeqMod \in Nat /\ n = SeqMod * (n \div SeqMod) + (n % SeqMod)
BY SeqModAssumption

\* The sequence number steps like the counter it is the residue of, also where
\* it wraps (sspi.rs, wrapping_add).
LEMMA WrapStep ==
  ASSUME NEW n \in Nat
  PROVE  wrapping_add1(n % SeqMod) = (n + 1) % SeqMod
<1> DEFINE q == n \div SeqMod
           r == n % SeqMod
<1>1. q \in Nat /\ n = SeqMod * q + r /\ r \in 0..(SeqMod - 1)
  BY ModQuotient, ModRange
<1>2. wrapping_add1(n % SeqMod) = (r + 1) % SeqMod
  BY DEF wrapping_add1
<1> HIDE DEF q, r
<1>3. CASE r + 1 < SeqMod
  <2>1. n + 1 = SeqMod * q + (r + 1) /\ r + 1 \in 0..(SeqMod - 1)
    BY <1>1, <1>3, SeqModAssumption
  <2>2. (n + 1) % SeqMod = r + 1
    BY <1>1, <2>1, ModUnique
  <2>3. (r + 1) % SeqMod = r + 1
    BY <1>3, <2>1, SmallMod
  <2>4. QED
    BY <1>2, <2>2, <2>3
<1>4. CASE r + 1 = SeqMod
  <2>1. n + 1 = SeqMod * (q + 1) + 0 /\ r + 1 = SeqMod * 1 + 0
    BY <1>1, <1>4, SeqModAssumption
  <2>2. 0 \in 0..(SeqMod - 1) /\ q + 1 \in Int /\ 1 \in Int
    BY <1>1, SeqModAssumption
  <2>3. (n + 1) % SeqMod = 0 /\ (r + 1) % SeqMod = 0
    BY <2>1, <2>2, ModUnique
  <2>4. QED
    BY <1>2, <2>3
<1>5. QED
  BY <1>1, <1>3, <1>4, SeqModAssumption

\* wrapping_add stays within the width.
LEMMA WrapRange ==
  ASSUME NEW s \in 0..(SeqMod - 1)
  PROVE  wrapping_add1(s) \in 0..(SeqMod - 1)
BY SeqModAssumption, ModRange DEF wrapping_add1

\* The fields of a context have their types.
LEMMA ContextFields ==
  ASSUME NEW c \in SecurityContext
  PROVE  /\ c.role \in Role /\ c.own_seal \in Nat /\ c.peer_seal \in Nat
         /\ c.send_seq \in Nat /\ c.recv_seq \in Nat
BY SeqModAssumption DEF SecurityContext

\* The fields of a context after a seal.
LEMMA SealFields ==
  ASSUME NEW c \in SecurityContext, NEW n \in Nat
  PROVE  /\ AfterSeal(c, n) \in SecurityContext
         /\ AfterSeal(c, n).role = c.role
         /\ AfterSeal(c, n).own_seal = c.own_seal + n + CHECKSUM_LEN
         /\ AfterSeal(c, n).peer_seal = c.peer_seal
         /\ AfterSeal(c, n).send_seq = wrapping_add1(c.send_seq)
         /\ AfterSeal(c, n).recv_seq = c.recv_seq
<1>1. wrapping_add1(c.send_seq) \in 0..(SeqMod - 1)
  BY WrapRange DEF SecurityContext
<1>2. AfterSeal(c, n) = [role |-> c.role, own_seal |-> c.own_seal + n + CHECKSUM_LEN,
                         peer_seal |-> c.peer_seal,
                         send_seq |-> wrapping_add1(c.send_seq), recv_seq |-> c.recv_seq]
  BY DEF AfterSeal, SecurityContext, AfterChecksum
<1>3. c.own_seal + n + CHECKSUM_LEN \in Nat
  BY DEF SecurityContext, CHECKSUM_LEN
<1>4. QED
  BY <1>1, <1>2, <1>3 DEF SecurityContext

\* The fields of a context after an unseal, accepted or not.
LEMMA UnsealFields ==
  ASSUME NEW c \in SecurityContext, NEW b, b.len \in Nat
  PROVE  /\ AfterUnseal(c, b) \in SecurityContext
         /\ AfterUnseal(c, b).role = c.role
         /\ AfterUnseal(c, b).own_seal = c.own_seal
         /\ AfterUnseal(c, b).peer_seal = c.peer_seal + b.len + CHECKSUM_LEN
         /\ AfterUnseal(c, b).send_seq = c.send_seq
         /\ AfterUnseal(c, b).recv_seq =
              IF Verifies(c, b) THEN wrapping_add1(c.recv_seq) ELSE c.recv_seq
<1>1. wrapping_add1(c.recv_seq) \in 0..(SeqMod - 1)
  BY WrapRange DEF SecurityContext
<1> DEFINE s == IF Verifies(c, b) THEN wrapping_add1(c.recv_seq) ELSE c.recv_seq
<1>2. s \in 0..(SeqMod - 1)
  BY <1>1 DEF SecurityContext
<1>3. AfterUnseal(c, b) = [role |-> c.role, own_seal |-> c.own_seal,
                           peer_seal |-> c.peer_seal + b.len + CHECKSUM_LEN,
                           send_seq |-> c.send_seq, recv_seq |-> s]
  BY DEF AfterUnseal, SecurityContext, AfterChecksum
<1>4. c.peer_seal + b.len + CHECKSUM_LEN \in Nat
  BY DEF SecurityContext, CHECKSUM_LEN
<1> HIDE DEF s
<1>5. QED
  BY <1>2, <1>3, <1>4 DEF SecurityContext, s

-----------------------------------------------------------------------------
\* The fields of a sealed blob and their types (sspi.rs, seal).
LEMMA BlobFields ==
  ASSUME NEW b \in ChannelBlob
  PROVE  /\ b.key \in Role /\ b.seq \in Nat /\ b.at \in Nat
         /\ b.msg \in Msg /\ b.len \in Nat /\ b.intact \in BOOLEAN
BY SeqModAssumption DEF ChannelBlob

\* Altering a blob changes nothing else of it.
LEMMA AlteredBlob ==
  ASSUME NEW b \in ChannelBlob, NEW ok \in BOOLEAN
  PROVE  LET d == [b EXCEPT !.intact = ok]
         IN  /\ d \in ChannelBlob /\ d.key = b.key /\ d.seq = b.seq /\ d.at = b.at
             /\ d.msg = b.msg /\ d.len = b.len
BY DEF ChannelBlob

\* The place of the next expected message is a position.
LEMMA ExpectedNat ==
  ASSUME SealTypeOK, AcceptedIsPrefix, NEW r \in Role
  PROVE  Expected(r) \in Nat
<1> DEFINE p == Peer(r)
           n == Len(accepted[r])
<1>1. p \in Role /\ ctx[p] \in SecurityContext /\ sent[p] \in Seq(ChannelBlob) /\ n \in Nat
  BY PeerFacts DEF SealTypeOK
<1>2. CASE n + 1 <= Len(sent[p])
  <2>1. sent[p][n + 1] \in ChannelBlob
    BY <1>1, <1>2
  <2>2. QED
    BY <1>2, <2>1, BlobFields DEF Expected, PosAt
<1>3. CASE ~(n + 1 <= Len(sent[p]))
  BY <1>1, <1>3, ContextFields DEF Expected, PosAt
<1>4. QED
  BY <1>2, <1>3

\* Numbers less than the width apart have different residues.
LEMMA ModWindow ==
  ASSUME NEW n \in Nat, NEW d \in 0..(SeqMod - 1), (n + d) % SeqMod = n % SeqMod
  PROVE  d = 0
<1> DEFINE q == n \div SeqMod
           r == n % SeqMod
<1>1. q \in Nat /\ n = SeqMod * q + r /\ r \in 0..(SeqMod - 1)
  BY ModQuotient, ModRange
<1>2. (n + d) % SeqMod = r
  OBVIOUS
<1> HIDE DEF q, r
<1>3. CASE r + d < SeqMod
  <2>1. n + d = SeqMod * q + (r + d) /\ r + d \in 0..(SeqMod - 1)
    BY <1>1, <1>3, SeqModAssumption
  <2>2. (n + d) % SeqMod = r + d
    BY <1>1, <2>1, ModUnique
  <2>3. QED
    BY <1>1, <1>2, <2>2
<1>4. CASE r + d >= SeqMod
  <2>1. n + d = SeqMod * (q + 1) + (r + d - SeqMod) /\ r + d - SeqMod \in 0..(SeqMod - 1)
    BY <1>1, <1>4, SeqModAssumption
  <2>2. (n + d) % SeqMod = r + d - SeqMod
    BY <1>1, <2>1, ModUnique
  <2>3. QED
    BY <1>1, <1>2, <2>2, SeqModAssumption
<1>5. QED
  BY <1>1, <1>3, <1>4, SeqModAssumption

\* What one more blob does to the layout: the positions stay, and it lies at the end.
LEMMA LaidOutMore ==
  ASSUME NEW r, NEW blobs \in Seq(ChannelBlob), NEW own \in Nat, NEW b \in ChannelBlob,
         LaidOut(r, blobs, own),
         b.key = r, b.intact, b.seq = Len(blobs) % SeqMod, b.at = own
  PROVE  LaidOut(r, Append(blobs, b), AfterChecksum(own, b.len))
<1> DEFINE L == Len(blobs)
           s == Append(blobs, b)
           new == AfterChecksum(own, b.len)
<1>1. /\ L \in Nat /\ s \in Seq(ChannelBlob) /\ Len(s) = L + 1
      /\ \A i \in 1..L : s[i] = blobs[i] /\ blobs[i] \in ChannelBlob
      /\ s[L + 1] = b
  OBVIOUS
<1>2. new \in Nat /\ own <= new
  BY BlobFields DEF AfterChecksum, CHECKSUM_LEN
<1>3. \A i \in 1..L : AfterChecksum(blobs[i].at, blobs[i].len) \in Nat
  BY <1>1, BlobFields DEF AfterChecksum, CHECKSUM_LEN
<1> HIDE DEF L, s, new
<1>4. \A j \in 1..(L + 1) : PosAt(s, new, j) = PosAt(blobs, own, j)
  BY <1>1 DEF PosAt, L
<1>5. PosAt(s, new, L + 2) = new /\ PosAt(blobs, own, L + 1) = own
  BY <1>1 DEF PosAt, L
<1>6. ASSUME NEW i \in 1..L
      PROVE  /\ s[i].key = r /\ s[i].intact /\ s[i].seq = (i - 1) % SeqMod
             /\ AfterChecksum(s[i].at, s[i].len) = PosAt(s, new, i + 1)
             /\ \A j \in (i + 1)..(L + 2) : AfterChecksum(s[i].at, s[i].len) <= PosAt(s, new, j)
  <2> DEFINE e == AfterChecksum(blobs[i].at, blobs[i].len)
  <2>1. /\ blobs[i].key = r /\ blobs[i].intact /\ blobs[i].seq = (i - 1) % SeqMod
        /\ e = PosAt(blobs, own, i + 1)
        /\ \A j \in (i + 1)..(L + 1) : e <= PosAt(blobs, own, j)
    BY DEF LaidOut, L
  <2>2. e \in Nat /\ s[i] = blobs[i]
    BY <1>1, <1>3
  <2>3. AfterChecksum(s[i].at, s[i].len) = e
    BY <2>2
  <2>4. e <= own
    BY <1>1, <1>5, <2>1
  <2> HIDE DEF e
  <2>5. ASSUME NEW j \in (i + 1)..(L + 2) PROVE e <= PosAt(s, new, j)
    <3>1. CASE j \in (i + 1)..(L + 1)
      BY <3>1, <1>1, <1>4, <2>1
    <3>2. CASE j = L + 2
      BY <3>2, <1>2, <1>5, <2>2, <2>4
    <3>3. L \in Nat /\ L + 2 = (L + 1) + 1
      BY <1>1
    <3>4. j \in (i + 1)..(L + 1) \/ j = L + 2
      BY ONLY <3>3, j \in (i + 1)..(L + 2), i \in 1..L
    <3>5. QED
      BY <3>1, <3>2, <3>4
  <2>6. e = PosAt(s, new, i + 1)
    BY <1>1, <1>4, <2>1
  <2>7. QED
    BY <2>1, <2>2, <2>3, <2>5, <2>6
<1>7. /\ s[L + 1].key = r /\ s[L + 1].intact /\ s[L + 1].seq = L % SeqMod
      /\ AfterChecksum(s[L + 1].at, s[L + 1].len) = new
  BY <1>1 DEF new, L
<1>8. ASSUME NEW i \in 1..(L + 1)
      PROVE  /\ s[i].key = r /\ s[i].intact /\ s[i].seq = (i - 1) % SeqMod
             /\ AfterChecksum(s[i].at, s[i].len) = PosAt(s, new, i + 1)
             /\ \A j \in (i + 1)..(L + 2) : AfterChecksum(s[i].at, s[i].len) <= PosAt(s, new, j)
  <2>1. CASE i \in 1..L
    BY <2>1, <1>6
  <2>2. CASE i = L + 1
    <3>1. i - 1 = L /\ i + 1 = L + 2 /\ (i + 1)..(L + 2) = {L + 2}
      BY <2>2, <1>1
    <3>2. QED
      BY <3>1, <2>2, <1>2, <1>5, <1>7
  <2>3. QED
    BY <2>1, <2>2, <1>1
<1>9. (L + 1) + 1 = L + 2
  BY <1>1
<1>10. LaidOut(r, s, new)
  BY <1>1, <1>8, <1>9 DEF LaidOut
<1>11. QED
  BY <1>10 DEF s, new

-----------------------------------------------------------------------------
\* Fresh contexts with nothing sealed satisfy the invariant.
LEMMA InitInv == SealInit => SealIInv
<1> SUFFICES ASSUME SealInit PROVE SealIInv
  OBVIOUS
<1>1. SealTypeOK
  BY SeqModAssumption DEF SealInit, SealTypeOK, NewContext, SecurityContext
<1>2. 0 % SeqMod = 0
  BY SmallMod, SeqModAssumption
<1>3. SenderInv
  BY <1>2, PeerFacts, SeqModAssumption DEF SealInit, SenderInv, NewContext, LaidOut
<1>4. ReceiverInv
  BY <1>2, PeerFacts DEF SealInit, ReceiverInv, Expected, PosAt, NewContext
<1>5. AcceptedIsPrefix
  BY PeerFacts DEF SealInit, AcceptedIsPrefix
<1>6. QED
  BY <1>1, <1>3, <1>4, <1>5 DEF SealIInv

\* Sealing appends one blob at the end of the sender's keystream and moves
\* nothing a receiver looks at.
LEMMA SealStep ==
  ASSUME SealIInv, NEW r \in Role, NEW m \in Msg, seal(r, m)
  PROVE  SealIInv'
<1> DEFINE c == ctx[r]
           n == MsgLen[m]
           b == SealedBlob(c, m, n)
<1>1. /\ n \in Nat /\ c \in SecurityContext /\ b \in ChannelBlob
      /\ b.key = c.role /\ b.seq = c.send_seq /\ b.at = c.own_seal
      /\ b.msg = m /\ b.len = n /\ b.intact = TRUE
  BY ChannelAssumption DEF SealIInv, SealTypeOK, SealedBlob, ChannelBlob, SecurityContext
<1>2. /\ ctx' = [ctx EXCEPT ![r] = AfterSeal(c, n)]
      /\ sent' = [sent EXCEPT ![r] = Append(@, b)]
      /\ UNCHANGED <<accepted, rejected, opened>>
      /\ Len(sent[r]) < Len(accepted[Peer(r)]) + SeqMod
  BY DEF seal
<1> HIDE DEF b, n, c
<1>3. /\ AfterSeal(c, n) \in SecurityContext
      /\ AfterSeal(c, n).role = c.role
      /\ AfterSeal(c, n).own_seal = c.own_seal + n + CHECKSUM_LEN
      /\ AfterSeal(c, n).peer_seal = c.peer_seal
      /\ AfterSeal(c, n).send_seq = wrapping_add1(c.send_seq)
      /\ AfterSeal(c, n).recv_seq = c.recv_seq
  BY <1>1, SealFields
<1>4. SealTypeOK'
  BY <1>1, <1>2, <1>3 DEF SealIInv, SealTypeOK
<1>5. /\ sent'[r] = Append(sent[r], b)
      /\ Len(sent'[r]) = Len(sent[r]) + 1
      /\ \A i \in 1..Len(sent[r]) : sent'[r][i] = sent[r][i]
      /\ sent'[r][Len(sent[r]) + 1] = b
      /\ \A q \in Role : q # r => sent'[q] = sent[q] /\ ctx'[q] = ctx[q]
      /\ ctx'[r] = AfterSeal(c, n)
  BY <1>1, <1>2 DEF SealIInv, SealTypeOK
<1>6. SenderInv'
  <2> SUFFICES ASSUME NEW q \in Role
               PROVE  /\ ctx'[q].role = q
                      /\ ctx'[q].send_seq = Len(sent'[q]) % SeqMod
                      /\ Len(sent'[q]) <= Len(accepted'[Peer(q)]) + SeqMod
                      /\ LaidOut(q, sent'[q], ctx'[q].own_seal)
    BY DEF SenderInv
  <2>1. CASE q # r
    <3>1. sent'[q] = sent[q] /\ ctx'[q] = ctx[q]
      BY <2>1, <1>5
    <3>2. QED
      BY <3>1, <1>2 DEF SealIInv, SenderInv
  <2>2. CASE q = r
    <3>1. /\ Len(sent[r]) \in Nat /\ sent[r] \in Seq(ChannelBlob)
          /\ Len(accepted[Peer(r)]) \in Nat /\ c.own_seal \in Nat
      BY <1>1, PeerFacts, ContextFields DEF SealIInv, SealTypeOK
    <3>2. c.send_seq = Len(sent[r]) % SeqMod /\ c.role = r /\ LaidOut(r, sent[r], c.own_seal)
      BY DEF SealIInv, SenderInv, c
    <3>3. ctx'[r].send_seq = Len(sent'[r]) % SeqMod
      BY <3>1, <3>2, <1>3, <1>5, WrapStep
    <3>4. Len(sent'[r]) <= Len(accepted'[Peer(r)]) + SeqMod
      BY <3>1, <1>2, <1>5, SeqModAssumption
    <3>5. LaidOut(r, Append(sent[r], b), AfterChecksum(c.own_seal, b.len))
      BY <3>1, <3>2, <1>1, LaidOutMore
    <3>6. AfterChecksum(c.own_seal, b.len) = ctx'[r].own_seal /\ ctx'[r].role = r
      BY <3>2, <1>1, <1>3, <1>5 DEF AfterChecksum
    <3>7. QED
      BY <2>2, <3>3, <3>4, <3>5, <3>6, <1>5
  <2>3. QED
    BY <2>1, <2>2
<1>7. \A q \in Role : /\ ctx'[q].recv_seq = ctx[q].recv_seq
                      /\ ctx'[q].peer_seal = ctx[q].peer_seal
  BY <1>3, <1>5 DEF c
<1>8. \A q \in Role : /\ Len(accepted[q]) \in Nat
                      /\ Len(accepted[q]) <= Len(sent[Peer(q)])
                      /\ Len(sent[Peer(q)]) \in Nat
  BY PeerFacts DEF SealIInv, SealTypeOK, AcceptedIsPrefix
<1>9. ASSUME NEW q \in Role
      PROVE  Expected(q)' = Expected(q)
  <2>1. CASE Peer(q) # r
    BY <2>1, <1>2, <1>5, PeerFacts DEF Expected
  <2>2. CASE Peer(q) = r
    BY <2>2, <1>1, <1>2, <1>5, <1>8 DEF Expected, PosAt, c
  <2>3. QED
    BY <2>1, <2>2
<1>10. ReceiverInv'
  BY <1>2, <1>7, <1>9 DEF SealIInv, ReceiverInv
<1>11. AcceptedIsPrefix'
  BY <1>2, <1>5, <1>8, PeerFacts DEF SealIInv, AcceptedIsPrefix, SentMsg
<1>12. QED
  BY <1>4, <1>6, <1>10, <1>11 DEF SealIInv

-----------------------------------------------------------------------------
\* A blob that verifies is the one expected next, and the receiver has
\* rejected nothing before.
LEMMA VerifiedIsExpected ==
  ASSUME SealIInv, NEW r \in Role, NEW s \in Role, NEW i \in 1..Len(sent[s]),
         NEW ok \in BOOLEAN,
         Verifies(ctx[r], [sent[s][i] EXCEPT !.intact = ok])
  PROVE  /\ s = Peer(r)
         /\ i = Len(accepted[r]) + 1
         /\ ~rejected[r]
<1> DEFINE n == Len(accepted[r])
           b == sent[s][i]
<1>1. /\ b \in ChannelBlob /\ n \in Nat /\ ctx[r] \in SecurityContext
      /\ ctx[s] \in SecurityContext /\ Peer(r) \in Role
  BY PeerFacts DEF SealIInv, SealTypeOK
<1>2. /\ b.key = Peer(ctx[r].role) /\ b.seq = ctx[r].recv_seq
      /\ b.at = ctx[r].peer_seal
  BY <1>1, AlteredBlob DEF Verifies
<1>3. /\ b.key = s /\ b.seq = (i - 1) % SeqMod /\ ctx[r].role = r
      /\ \A j \in (i + 1)..(Len(sent[s]) + 1) :
           AfterChecksum(b.at, b.len) <= PosAt(sent[s], ctx[s].own_seal, j)
      /\ Len(sent[s]) <= Len(accepted[Peer(s)]) + SeqMod
  BY DEF SealIInv, SenderInv, LaidOut
<1>4. s = Peer(r)
  BY <1>2, <1>3
<1>5. n <= Len(sent[s]) /\ ctx[r].recv_seq = n % SeqMod
  BY <1>4 DEF SealIInv, AcceptedIsPrefix, ReceiverInv
<1>6. ctx[r].peer_seal >= Expected(r) /\ (rejected[r] => ctx[r].peer_seal > Expected(r))
  <2>1. Expected(r) \in Nat
    BY ExpectedNat DEF SealIInv
  <2>2. rejected[r] \in BOOLEAN
    BY DEF SealIInv, SealTypeOK
  <2>3. QED
    BY <1>1, <2>1, <2>2, ContextFields DEF SealIInv, ReceiverInv
<1>7. i >= n + 1
  <2> SUFFICES ASSUME i <= n PROVE FALSE
    BY <1>1
  <2>1. Len(sent[s]) \in Nat /\ n + 1 \in (i + 1)..(Len(sent[s]) + 1)
    BY <1>1, <1>5 DEF SealIInv, SealTypeOK
  <2>2. AfterChecksum(b.at, b.len) <= Expected(r)
    BY <2>1, <1>3, <1>4 DEF Expected
  <2>3. Expected(r) \in Nat
    BY ExpectedNat DEF SealIInv
  <2> HIDE DEF n, b
  <2>4. QED
    BY <2>2, <2>3, <1>1, <1>2, <1>6, BlobFields, ContextFields DEF AfterChecksum, CHECKSUM_LEN
<1>8. i = n + 1
  <2> DEFINE d == (i - 1) - n
  <2>1. Len(sent[s]) \in Nat /\ Len(sent[s]) <= n + SeqMod
    BY <1>1, <1>3, <1>4, PeerFacts DEF SealIInv, SealTypeOK
  <2>2. (i - 1) % SeqMod = n % SeqMod
    BY <1>2, <1>3, <1>5
  <2> HIDE DEF n
  <2>3. d \in 0..(SeqMod - 1) /\ n + d = i - 1
    BY <1>1, <1>7, <2>1, SeqModAssumption
  <2>4. d = 0
    BY <1>1, <2>2, <2>3, ModWindow
  <2>5. QED
    BY <1>1, <2>3, <2>4
<1>9. Expected(r) = b.at
  BY <1>1, <1>4, <1>8 DEF Expected, PosAt
<1>10. QED
  BY <1>1, <1>2, <1>4, <1>6, <1>8, <1>9, BlobFields, ContextFields

\* Opening a blob moves the receiver to the next expected message, or past
\* it for good.
LEMMA UnsealStep ==
  ASSUME SealIInv, NEW r \in Role, NEW s \in Role, NEW i \in 1..Len(sent[s]),
         NEW ok \in BOOLEAN,
         unseal(r, [sent[s][i] EXCEPT !.intact = ok])
  PROVE  SealIInv'
<1> DEFINE b == [sent[s][i] EXCEPT !.intact = ok]
           c == ctx[r]
           p == Peer(r)
           n == Len(accepted[r])
<1>1. sent[s][i] \in ChannelBlob /\ c \in SecurityContext /\ p \in Role /\ p # r /\ n \in Nat
  BY PeerFacts DEF SealIInv, SealTypeOK
<1>2. b \in ChannelBlob /\ b.len = sent[s][i].len /\ b.msg = sent[s][i].msg
      /\ b.at = sent[s][i].at /\ b.len \in Nat /\ b.msg \in Msg
  BY <1>1, AlteredBlob, BlobFields
<1>3. /\ ctx' = [ctx EXCEPT ![r] = AfterUnseal(c, b)]
      /\ sent' = sent
      /\ opened' = [opened EXCEPT ![r] = @ + 1]
      /\ \/ /\ Verifies(c, b)
            /\ accepted' = [accepted EXCEPT ![r] = Append(@, b.msg)]
            /\ rejected' = rejected
         \/ /\ ~Verifies(c, b)
            /\ rejected' = [rejected EXCEPT ![r] = TRUE]
            /\ accepted' = accepted
  BY DEF unseal
<1>4. Verifies(c, b) => s = p /\ i = n + 1 /\ ~rejected[r]
  BY VerifiedIsExpected
<1> HIDE DEF b, c, p, n
<1>5. /\ AfterUnseal(c, b) \in SecurityContext
      /\ AfterUnseal(c, b).role = c.role
      /\ AfterUnseal(c, b).own_seal = c.own_seal
      /\ AfterUnseal(c, b).peer_seal = c.peer_seal + b.len + CHECKSUM_LEN
      /\ AfterUnseal(c, b).send_seq = c.send_seq
      /\ AfterUnseal(c, b).recv_seq =
           IF Verifies(c, b) THEN wrapping_add1(c.recv_seq) ELSE c.recv_seq
  BY <1>1, <1>2, UnsealFields
<1>6. /\ ctx'[r] = AfterUnseal(c, b)
      /\ \A q \in Role : q # r => ctx'[q] = ctx[q]
      /\ \A q \in Role : q # r => accepted'[q] = accepted[q] /\ rejected'[q] = rejected[q]
      /\ \A q \in Role : /\ ctx'[q].own_seal = ctx[q].own_seal
                         /\ ctx'[q].send_seq = ctx[q].send_seq
                         /\ ctx'[q].role = ctx[q].role
  BY <1>3, <1>5 DEF SealIInv, SealTypeOK, c
<1>7. SealTypeOK'
  <2>1. ctx' \in [Role -> SecurityContext] /\ sent' \in [Role -> Seq(ChannelBlob)]
    BY <1>3, <1>5 DEF SealIInv, SealTypeOK
  <2>2. opened' \in [Role -> Nat]
    BY <1>3 DEF SealIInv, SealTypeOK
  <2>3. accepted' \in [Role -> Seq(Msg)] /\ rejected' \in [Role -> BOOLEAN]
    <3>1. Append(accepted[r], b.msg) \in Seq(Msg)
      BY <1>2 DEF SealIInv, SealTypeOK
    <3>2. QED
      BY <3>1, <1>3 DEF SealIInv, SealTypeOK
  <2>4. QED
    BY <2>1, <2>2, <2>3 DEF SealTypeOK
<1>8. SenderInv'
  <2>1. \A q \in Role : /\ Len(accepted[q]) \in Nat /\ Len(sent[q]) \in Nat
                        /\ Len(accepted'[q]) \in Nat /\ Len(accepted'[q]) >= Len(accepted[q])
    <3>1. accepted \in [Role -> Seq(Msg)] /\ sent \in [Role -> Seq(ChannelBlob)]
      BY DEF SealIInv, SealTypeOK
    <3>2. CASE accepted' = accepted
      BY <3>1, <3>2
    <3>3. CASE accepted' = [accepted EXCEPT ![r] = Append(@, b.msg)]
      BY <3>1, <3>3, <1>2
    <3>4. QED
      BY <3>2, <3>3, <1>3
  <2>2. ASSUME NEW q \in Role
        PROVE  /\ ctx'[q].role = q
               /\ ctx'[q].send_seq = Len(sent'[q]) % SeqMod
               /\ Len(sent'[q]) <= Len(accepted'[Peer(q)]) + SeqMod
               /\ LaidOut(q, sent'[q], ctx'[q].own_seal)
    <3>1. /\ ctx[q].role = q /\ ctx[q].send_seq = Len(sent[q]) % SeqMod
          /\ Len(sent[q]) <= Len(accepted[Peer(q)]) + SeqMod
          /\ LaidOut(q, sent[q], ctx[q].own_seal)
      BY DEF SealIInv, SenderInv
    <3>2. Len(sent'[q]) <= Len(accepted'[Peer(q)]) + SeqMod
      BY <3>1, <2>1, <1>3, PeerFacts, SeqModAssumption
    <3>3. QED
      BY <3>1, <3>2, <1>3, <1>6
  <2>3. QED
    BY <2>2 DEF SenderInv
<1>9. /\ c.recv_seq = n % SeqMod
      /\ c.peer_seal \in Nat
      /\ ~rejected[r] => c.peer_seal = Expected(r)
      /\ rejected[r] => c.peer_seal > Expected(r)
      /\ n <= Len(sent[p])
      /\ Len(sent[p]) \in Nat
      /\ rejected[r] \in BOOLEAN
  <2>1. c.peer_seal \in Nat
    BY <1>1, ContextFields
  <2>2. Len(sent[p]) \in Nat /\ rejected[r] \in BOOLEAN
    BY <1>1 DEF SealIInv, SealTypeOK
  <2>3. QED
    BY <1>1, <2>1, <2>2 DEF SealIInv, SenderInv, ReceiverInv, AcceptedIsPrefix, c, p, n
<1>10. Expected(r) \in Nat
  BY ExpectedNat DEF SealIInv
<1>11. CASE Verifies(c, b)
  <2>1. /\ s = p /\ i = n + 1 /\ ~rejected[r] /\ rejected' = rejected
        /\ accepted'[r] = Append(accepted[r], b.msg)
        /\ Len(accepted'[r]) = n + 1
        /\ \A k \in 1..n : accepted'[r][k] = accepted[r][k]
        /\ accepted'[r][n + 1] = b.msg
    <3>1. accepted \in [Role -> Seq(Msg)] /\ accepted[r] \in Seq(Msg)
      BY DEF SealIInv, SealTypeOK
    <3>2. /\ accepted' = [accepted EXCEPT ![r] = Append(@, b.msg)]
          /\ s = p /\ i = n + 1 /\ ~rejected[r] /\ rejected' = rejected
      BY <1>3, <1>4, <1>11
    <3>3. accepted'[r] = Append(accepted[r], b.msg)
      BY <3>1, <3>2
    <3>4. QED
      BY <3>1, <3>2, <3>3, <1>2 DEF n
  <2>2. ctx'[r].recv_seq = Len(accepted'[r]) % SeqMod
    BY <2>1, <1>1, <1>5, <1>6, <1>9, <1>11, WrapStep
  <2>3. ctx'[r].peer_seal = Expected(r)'
    <3>1. Expected(r) = b.at
      BY <2>1, <1>1, <1>2 DEF Expected, PosAt, n, p
    <3>2. AfterChecksum(b.at, b.len) = PosAt(sent[p], ctx[p].own_seal, i + 1)
      BY <2>1, <1>1, <1>2 DEF SealIInv, SenderInv, LaidOut
    <3>3. Expected(r)' = PosAt(sent[p], ctx[p].own_seal, i + 1)
      BY <2>1, <1>1, <1>3, <1>6 DEF Expected, p
    <3>4. QED
      BY <2>1, <3>1, <3>2, <3>3, <1>5, <1>6, <1>9 DEF AfterChecksum
  <2>4. ASSUME NEW q \in Role, q # r
        PROVE  Expected(q)' = Expected(q)
    BY <2>4, <1>3, <1>6, PeerFacts DEF Expected
  <2>5. ReceiverInv'
    <3>1. ASSUME NEW q \in Role, q # r
          PROVE  /\ ctx'[q].recv_seq = Len(accepted'[q]) % SeqMod
                 /\ ~rejected'[q] => ctx'[q].peer_seal = Expected(q)'
                 /\ rejected'[q] => ctx'[q].peer_seal > Expected(q)'
      BY <3>1, <2>4, <1>6 DEF SealIInv, ReceiverInv
    <3>2. QED
      BY <3>1, <2>1, <2>2, <2>3 DEF ReceiverInv
  <2>6. AcceptedIsPrefix'
    <3>1. ASSUME NEW q \in Role, q # r
          PROVE  /\ Len(accepted'[q]) <= Len(sent'[Peer(q)])
                 /\ \A k \in 1..Len(accepted'[q]) : accepted'[q][k] = sent'[Peer(q)][k].msg
      BY <3>1, <1>3, <1>6 DEF SealIInv, AcceptedIsPrefix, SentMsg
    <3>2. /\ Len(accepted'[r]) <= Len(sent'[p])
          /\ \A k \in 1..Len(accepted'[r]) : accepted'[r][k] = sent'[p][k].msg
      <4>1. \A k \in 1..n : accepted[r][k] = sent[p][k].msg
        BY DEF SealIInv, AcceptedIsPrefix, SentMsg, n, p
      <4>2. QED
        BY <4>1, <2>1, <1>1, <1>2, <1>3, <1>9
    <3>3. QED
      BY <3>1, <3>2 DEF AcceptedIsPrefix, SentMsg, p
  <2>7. QED
    BY <1>7, <1>8, <2>5, <2>6 DEF SealIInv
<1>12. CASE ~Verifies(c, b)
  <2>1. /\ accepted' = accepted /\ rejected'[r] = TRUE
        /\ ctx'[r].recv_seq = ctx[r].recv_seq
        /\ ctx'[r].peer_seal = c.peer_seal + b.len + CHECKSUM_LEN
    BY <1>3, <1>5, <1>6, <1>12 DEF SealIInv, SealTypeOK, c
  <2>2. ASSUME NEW q \in Role
        PROVE  Expected(q)' = Expected(q)
    BY <2>1, <1>3, <1>6, PeerFacts DEF Expected
  <2>3. ctx'[r].peer_seal > Expected(r)'
    <3>1. Expected(r)' = Expected(r)
      BY <2>2
    <3>2. QED
      BY <2>1, <3>1, <1>2, <1>9, <1>10 DEF CHECKSUM_LEN
  <2>4. ReceiverInv'
    <3>1. ASSUME NEW q \in Role, q # r
          PROVE  /\ ctx'[q].recv_seq = Len(accepted'[q]) % SeqMod
                 /\ ~rejected'[q] => ctx'[q].peer_seal = Expected(q)'
                 /\ rejected'[q] => ctx'[q].peer_seal > Expected(q)'
      BY <3>1, <2>2, <1>6 DEF SealIInv, ReceiverInv
    <3>2. ctx'[r].recv_seq = Len(accepted'[r]) % SeqMod
      BY <2>1, <1>9 DEF SealIInv, ReceiverInv
    <3>3. QED
      BY <3>1, <3>2, <2>1, <2>3 DEF ReceiverInv
  <2>5. AcceptedIsPrefix'
    BY <2>1, <1>3 DEF SealIInv, AcceptedIsPrefix, SentMsg
  <2>6. QED
    BY <1>7, <1>8, <2>4, <2>5 DEF SealIInv
<1>13. QED
  BY <1>11, <1>12

\* Every step keeps the invariant.
LEMMA NextInv == SealIInv /\ [SealNext]_sealVars => SealIInv'
<1> SUFFICES ASSUME SealIInv, [SealNext]_sealVars PROVE SealIInv'
  OBVIOUS
<1>1. ASSUME NEW r \in Role, NEW m \in Msg, seal(r, m) PROVE SealIInv'
  BY <1>1, SealStep
<1>2. ASSUME NEW r \in Role, Deliver(r) PROVE SealIInv'
  BY <1>2, UnsealStep DEF Deliver
<1>3. ASSUME NEW r \in Role, unsealShort(r) PROVE SealIInv'
  <2>1. UNCHANGED <<ctx, sent, accepted, rejected>> /\ opened' = [opened EXCEPT ![r] = @ + 1]
    BY <1>3 DEF unsealShort
  <2>2. SealTypeOK'
    BY <2>1 DEF SealIInv, SealTypeOK
  <2>3. QED
    BY <2>1, <2>2 DEF SealIInv, SenderInv, ReceiverInv, AcceptedIsPrefix, SentMsg, Expected
<1>4. CASE UNCHANGED sealVars
  BY <1>4 DEF sealVars, SealIInv, SealTypeOK, SenderInv, ReceiverInv, AcceptedIsPrefix, SentMsg, Expected
<1>5. QED
  BY <1>1, <1>2, <1>3, <1>4 DEF SealNext

-----------------------------------------------------------------------------
\* The invariant holds in every reachable state: the variables keep their
\* types, senders lay their messages end to end, receivers stand at the next
\* message or past it.
THEOREM Invariance == SealSpec => []SealIInv
BY InitInv, NextInv, PTL DEF SealSpec

\* Whatever reaches unseal, what it returns is a prefix of what the peer sealed.
THEOREM AcceptedPrefix == SealSpec => []AcceptedIsPrefix
<1>1. SealIInv => AcceptedIsPrefix
  BY DEF SealIInv
<1>2. QED
  BY <1>1, Invariance, PTL

\* A context that has rejected nothing opens the next message of its peer.
THEOREM NextAccepted == SealSpec => []NextIsAccepted
<1>1. SealIInv => NextIsAccepted
  <2> SUFFICES ASSUME SealIInv, NEW r \in Role, ~rejected[r],
                      Len(accepted[r]) < Len(sent[Peer(r)])
               PROVE  Verifies(ctx[r], sent[Peer(r)][Len(accepted[r]) + 1])
    BY DEF NextIsAccepted
  <2> DEFINE n == Len(accepted[r])
             p == Peer(r)
  <2>1. n \in Nat /\ p \in Role /\ Len(sent[p]) \in Nat /\ n + 1 \in 1..Len(sent[p])
    BY PeerFacts DEF SealIInv, SealTypeOK
  <2>2. /\ sent[p][n + 1].key = p /\ sent[p][n + 1].intact
        /\ sent[p][n + 1].seq = ((n + 1) - 1) % SeqMod /\ ctx[r].role = r
    BY <2>1 DEF SealIInv, SenderInv, LaidOut
  <2>3. ctx[r].recv_seq = n % SeqMod /\ (n + 1) - 1 = n
    BY <2>1 DEF SealIInv, ReceiverInv
  <2>4. ctx[r].peer_seal = sent[p][n + 1].at
    BY <2>1 DEF SealIInv, ReceiverInv, Expected, PosAt
  <2>5. QED
    BY <2>1, <2>2, <2>3, <2>4 DEF Verifies
<1>2. QED
  BY <1>1, Invariance, PTL

\* After a mismatch a context never accepts again.
THEOREM MismatchFinal == SealSpec => MismatchIsFinal
<1>1. SealIInv /\ [SealNext]_sealVars => [\A r \in Role : rejected[r] => accepted'[r] = accepted[r]]_sealVars
  <2> SUFFICES ASSUME SealIInv, SealNext, NEW r \in Role, rejected[r]
               PROVE  accepted'[r] = accepted[r]
    OBVIOUS
  <2>1. ASSUME NEW q \in Role, NEW m \in Msg, seal(q, m) PROVE accepted'[r] = accepted[r]
    BY <2>1 DEF seal
  <2>2. ASSUME NEW q \in Role, NEW s \in Role, NEW i \in 1..Len(sent[s]), NEW ok \in BOOLEAN,
               unseal(q, [sent[s][i] EXCEPT !.intact = ok])
        PROVE  accepted'[r] = accepted[r]
    <3>1. CASE Verifies(ctx[q], [sent[s][i] EXCEPT !.intact = ok])
      <4>1. q # r
        BY <3>1, VerifiedIsExpected
      <4>2. \E x : accepted' = [accepted EXCEPT ![q] = x]
        BY <2>2, <3>1 DEF unseal
      <4>3. QED
        BY <4>1, <4>2 DEF SealIInv, SealTypeOK
    <3>2. CASE ~Verifies(ctx[q], [sent[s][i] EXCEPT !.intact = ok])
      BY <2>2, <3>2 DEF unseal
    <3>3. QED
      BY <3>1, <3>2
  <2>3. ASSUME NEW q \in Role, unsealShort(q) PROVE accepted'[r] = accepted[r]
    BY <2>3 DEF unsealShort
  <2>4. QED
    BY <2>1, <2>2, <2>3 DEF SealNext, Deliver
<1>2. QED
  BY <1>1, Invariance, PTL DEF SealSpec, MismatchIsFinal

-----------------------------------------------------------------------------
(***************************************************************************)
(* The refinement: seal is a Send to the peer, an accepted unseal delivers *)
(* one item, and every other step stutters.                                *)
(***************************************************************************)

\* What has been sealed for a role is a sequence of messages, as long as what
\* its peer has sealed.
LEMMA SealedForSeq ==
  ASSUME SealTypeOK, NEW r \in Role
  PROVE  /\ SealedFor(r) \in Seq(Msg)
         /\ Len(SealedFor(r)) = Len(sent[Peer(r)])
         /\ Len(SealedFor(r)) \in Nat
         /\ \A i \in 1..Len(sent[Peer(r)]) : SealedFor(r)[i] = sent[Peer(r)][i].msg
<1> DEFINE p == Peer(r)
<1>1. sent[p] \in Seq(ChannelBlob) /\ Len(sent[p]) \in Nat
  BY PeerFacts DEF SealTypeOK
<1>2. \A i \in 1..Len(sent[p]) : sent[p][i].msg \in Msg
  BY <1>1, BlobFields
<1>3. QED
  BY <1>1, <1>2 DEF SealedFor, SentMsg

\* Sealing gives the peer one more item and changes nothing else.
LEMMA SealSends ==
  ASSUME SealIInv, SealIInv', NEW r \in Role, NEW m \in Msg, seal(r, m)
  PROVE  Sealed!Next
<1> DEFINE c == Peer(r)
           S == [q \in Role |-> SealedFor(q)]
           b == SealedBlob(ctx[r], m, MsgLen[m])
<1>1. c \in Role /\ Peer(c) = r /\ \A q \in Role : q # c => Peer(q) # r
  BY PeerFacts DEF Role, Peer
<1>2. /\ sent' = [sent EXCEPT ![r] = Append(@, b)]
      /\ accepted' = accepted
      /\ b \in ChannelBlob
  BY ChannelAssumption DEF seal, SealIInv, SealTypeOK, SealedBlob, ChannelBlob, SecurityContext
<1> HIDE DEF b
<1>3. /\ sent[r] \in Seq(ChannelBlob) /\ sent'[r] = Append(sent[r], b)
      /\ \A q \in Role : q # r => sent'[q] = sent[q]
  BY <1>2 DEF SealIInv, SealTypeOK
<1>4. /\ SealedFor(c) \in Seq(Msg) /\ SealedFor(c)' \in Seq(Msg)
      /\ Len(SealedFor(c)') = Len(SealedFor(c)) + 1
      /\ \A i \in 1..Len(SealedFor(c)) : SealedFor(c)'[i] = SealedFor(c)[i]
  <2>1. /\ SealedFor(c) \in Seq(Msg)
        /\ Len(SealedFor(c)) = Len(sent[r])
        /\ \A i \in 1..Len(sent[r]) : SealedFor(c)[i] = sent[r][i].msg
    BY <1>1, SealedForSeq DEF SealIInv
  <2>2. SealTypeOK' => /\ SealedFor(c)' \in Seq(Msg)
                   /\ Len(SealedFor(c)') = Len(sent'[r])
                   /\ \A i \in 1..Len(sent'[r]) : SealedFor(c)'[i] = sent'[r][i].msg
    <3>1. SealTypeOK' => sent'[r] \in Seq(ChannelBlob) /\ \A i \in 1..Len(sent'[r]) : sent'[r][i].msg \in Msg
      BY BlobFields DEF SealTypeOK
    <3>2. QED
      BY <3>1, <1>1 DEF SealedFor, SentMsg
  <2>3. QED
    BY <2>1, <2>2, <1>2, <1>3 DEF SealIInv
<1>5. ASSUME NEW q \in Role, q # c PROVE SealedFor(q)' = SealedFor(q)
  BY <1>5, <1>1, <1>3, PeerFacts DEF SealedFor, SentMsg
<1>6. SealedFor(c)' = Append(SealedFor(c), SealedFor(c)'[Len(SealedFor(c)) + 1])
  <2> DEFINE s == SealedFor(c)
             t == SealedFor(c)'
             e == t[Len(s) + 1]
  <2>1. s \in Seq(Msg) /\ t \in Seq(Msg) /\ Len(t) = Len(s) + 1 /\ Len(s) \in Nat
        /\ \A i \in 1..Len(s) : t[i] = s[i]
    BY <1>4
  <2> HIDE DEF s, t
  <2>2. e \in Msg
    BY <2>1
  <2> HIDE DEF e
  <2>3. Append(s, e) \in Seq(Msg) /\ Len(Append(s, e)) = Len(t)
    BY <2>1, <2>2
  <2>4. \A i \in 1..Len(t) : t[i] = Append(s, e)[i]
    BY <2>1, <2>2 DEF e
  <2>5. t = Append(s, e)
    BY <2>1, <2>3, <2>4, SeqEqual
  <2>6. QED
    BY <2>5 DEF s, t, e
<1>7. S' = [S EXCEPT ![c] = Append(@, S'[c][Len(S[c]) + 1])]
  <2>1. S[c] = SealedFor(c) /\ S'[c] = SealedFor(c)'
    BY <1>1
  <2>2. S' = [q \in Role |-> IF q = c THEN Append(SealedFor(c), SealedFor(c)'[Len(SealedFor(c)) + 1])
                                     ELSE SealedFor(q)]
    BY <1>5, <1>6
  <2>3. QED
    BY <2>1, <2>2
<1>8. Len(S'[c]) = Len(S[c]) + 1
  BY <1>1, <1>4
<1>9. Sealed!Send(c)
  BY <1>2, <1>7, <1>8 DEF Sealed!Send
<1>10. QED
  BY <1>1, <1>9 DEF Sealed!Next

\* An accepted blob is the next item; a rejected one is no step of the queue.
LEMMA UnsealDelivers ==
  ASSUME SealIInv, NEW r \in Role, NEW s \in Role, NEW i \in 1..Len(sent[s]),
         NEW ok \in BOOLEAN,
         unseal(r, [sent[s][i] EXCEPT !.intact = ok])
  PROVE  Sealed!Next \/ (accepted' = accepted /\ sent' = sent)
<1> DEFINE b == [sent[s][i] EXCEPT !.intact = ok]
           n == Len(accepted[r])
           p == Peer(r)
           a == accepted[r]
           q == SealedFor(r)
<1>1. CASE ~Verifies(ctx[r], b)
  BY <1>1 DEF unseal
<1>2. CASE Verifies(ctx[r], b)
  <2>1. s = p /\ i = n + 1
    BY <1>2, VerifiedIsExpected
  <2>2. accepted' = [accepted EXCEPT ![r] = Append(@, b.msg)] /\ sent' = sent
    BY <1>2 DEF unseal
  <2>3. /\ a \in Seq(Msg) /\ n \in Nat /\ sent[s][i] \in ChannelBlob
        /\ accepted \in [Role -> Seq(Msg)]
    BY DEF SealIInv, SealTypeOK
  <2>4. b.msg = sent[s][i].msg /\ b.msg \in Msg
    BY <2>3, AlteredBlob, BlobFields
  <2>5. /\ q \in Seq(Msg) /\ Len(q) \in Nat /\ Len(q) = Len(sent[p])
        /\ n + 1 <= Len(q) /\ q[n + 1] = b.msg
        /\ \A k \in 1..n : q[k] = a[k]
    <3>1. /\ q \in Seq(Msg) /\ Len(q) \in Nat /\ Len(q) = Len(sent[p])
          /\ \A k \in 1..Len(sent[p]) : q[k] = sent[p][k].msg
      BY SealedForSeq DEF SealIInv
    <3>2. n <= Len(sent[p]) /\ \A k \in 1..n : a[k] = sent[p][k].msg
      BY DEF SealIInv, AcceptedIsPrefix, SentMsg
    <3>3. n + 1 \in 1..Len(sent[p]) /\ sent[p][n + 1].msg = b.msg
      BY <2>1, <2>4
    <3> HIDE DEF q, b, n, p, a
    <3>4. QED
      BY <3>1, <3>2, <3>3, <2>3
  <2> HIDE DEF q, b, n
  <2>6. Append(a, b.msg) = SubSeq(q, 1, n + 1)
    <3>1. /\ Append(a, b.msg) \in Seq(Msg) /\ Len(Append(a, b.msg)) = n + 1
          /\ \A k \in 1..n : Append(a, b.msg)[k] = a[k]
          /\ Append(a, b.msg)[n + 1] = b.msg
      BY <2>3, <2>4 DEF n
    <3>2. \A k \in 1..(n + 1) : q[k] \in Msg
      BY <2>3, <2>5
    <3>3. /\ SubSeq(q, 1, n + 1) \in Seq(Msg)
          /\ Len(SubSeq(q, 1, n + 1)) = n + 1
          /\ \A k \in 1..(n + 1) : SubSeq(q, 1, n + 1)[k] = q[k]
      BY <2>3, <2>5, <3>2
    <3>4. \A k \in 1..(n + 1) : Append(a, b.msg)[k] = SubSeq(q, 1, n + 1)[k]
      BY <3>1, <3>3, <2>3, <2>5
    <3>5. QED
      BY <3>1, <3>3, <3>4, SeqEqual
  <2>7. accepted' = [accepted EXCEPT ![r] = SubSeq([x \in Role |-> SealedFor(x)][r], 1, Len(@) + 1)]
    BY <2>2, <2>6 DEF q, n
  <2>8. [x \in Role |-> SealedFor(x)]' = [x \in Role |-> SealedFor(x)]
    BY <2>2 DEF SealedFor, SentMsg
  <2>9. Sealed!Deliver(r, 1)
    BY <2>7, <2>8 DEF Sealed!Deliver
  <2>10. 1 \in 1..(Len([x \in Role |-> SealedFor(x)][r]) - Len(accepted[r]))
    BY <2>3, <2>5 DEF q, n
  <2>11. QED
    BY <2>9, <2>10 DEF Sealed!Next
<1>3. QED
  BY <1>1, <1>2

\* Every step of the pair of contexts is a step of the ordered queues or
\* leaves them as they are.
LEMMA NextRefines ==
  ASSUME SealIInv, SealIInv', [SealNext]_sealVars
  PROVE  [Sealed!Next]_<<[r \in Role |-> SealedFor(r)], accepted>>
<1>1. ASSUME accepted' = accepted, sent' = sent
      PROVE  UNCHANGED <<[r \in Role |-> SealedFor(r)], accepted>>
  BY <1>1 DEF SealedFor, SentMsg
<1>2. ASSUME NEW r \in Role, NEW m \in Msg, seal(r, m) PROVE Sealed!Next
  BY <1>2, SealSends
<1>3. ASSUME NEW r \in Role, Deliver(r)
      PROVE  Sealed!Next \/ (accepted' = accepted /\ sent' = sent)
  BY <1>3, UnsealDelivers DEF Deliver
<1>4. ASSUME NEW r \in Role, unsealShort(r) PROVE accepted' = accepted /\ sent' = sent
  BY <1>4 DEF unsealShort
<1>5. CASE UNCHANGED sealVars
  BY <1>5, <1>1 DEF sealVars
<1>6. CASE SealNext
  BY <1>6, <1>1, <1>2, <1>3, <1>4 DEF SealNext
<1>7. QED
  BY <1>5, <1>6

\* The pair of contexts implements ordered, exactly-once delivery in each
\* direction, for any messages and any number of them, also where the sequence
\* numbers wrap.
THEOREM InOrder == SealSpec => DeliversInOrder
<1>1. SealInit => Sealed!Init
  <2> SUFFICES ASSUME SealInit PROVE Sealed!Init
    OBVIOUS
  <2>1. \A r \in Role : sent[Peer(r)] = <<>>
    BY PeerFacts DEF SealInit
  <2>2. \A r \in Role : SealedFor(r) = <<>>
    BY <2>1 DEF SealedFor
  <2>3. QED
    BY <2>2 DEF SealInit, Sealed!Init
<1>2. SealIInv /\ SealIInv' /\ [SealNext]_sealVars => [Sealed!Next]_<<[r \in Role |-> SealedFor(r)], accepted>>
  BY NextRefines
<1>3. QED
  BY <1>1, <1>2, Invariance, PTL DEF SealSpec, DeliversInOrder, Sealed!Spec
=============================================================================
