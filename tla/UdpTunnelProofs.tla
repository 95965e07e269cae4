-------------------------- MODULE UdpTunnelProofs --------------------------
(***************************************************************************)
(* Proofs about UdpTunnel, for any width of the length field, any PDUs and *)
(* any number of attempts to migrate.                                      *)
(***************************************************************************)
EXTENDS UdpTunnel, SequenceTheorems, TLAPS

-----------------------------------------------------------------------------
(* Framing of a stream, for layers that put messages into a stream and read *)
(* them out of it again.  Both sides move from frame to frame, but neither  *)
(* keeps the boundaries: that they agree on them is what the invariant has  *)
(* to say.                                                                  *)

\* What lies between two positions of a stream
Part(s, i, j) == SubSeq(s, i + 1, j)

\* What follows position `from' of the stream is the frames F, one after the
\* other; the k-th ends at off[k]
Framed(stream, from, F, off) ==
  /\ off \in [0..Len(F) -> 0..Len(stream)]
  /\ off[0] = from /\ off[Len(F)] = Len(stream)
  /\ \A k \in 1..Len(F) :
       off[k] = off[k - 1] + Len(F[k]) /\ F[k] = Part(stream, off[k - 1], off[k])

\* What follows position `from' leads from state a to state b by frames of K, a
\* set of triples: a frame, the state before it and the state after it
Chain(S, stream, from, a, b, K) ==
  \E F \in Seq(Seq(S)) : \E off, st :
    /\ Framed(stream, from, F, off)
    /\ st[0] = a /\ st[Len(F)] = b
    /\ \A k \in 1..Len(F) : <<F[k], st[k - 1], st[k]>> \in K

-----------------------------------------------------------------------------
\* Length and elements of a part of a sequence.
LEMMA PartFacts ==
  ASSUME NEW S, NEW s \in Seq(S), NEW i \in Nat, NEW j \in i..Len(s)
  PROVE  /\ Part(s, i, j) \in Seq(S)
         /\ Len(Part(s, i, j)) = j - i
         /\ \A k \in 1..(j - i) : Part(s, i, j)[k] = s[i + k]
<1>1. \A k \in (i + 1)..j : s[k] \in S
  BY ElementOfSeq
<1>2. i + 1 \in Int /\ j \in Int
  BY LenProperties
<1>3. /\ Part(s, i, j) \in Seq(S)
      /\ Len(Part(s, i, j)) = IF i + 1 <= j THEN j - (i + 1) + 1 ELSE 0
      /\ \A k \in 1..(j - (i + 1) + 1) : Part(s, i, j)[k] = s[(i + 1) + k - 1]
  BY <1>1, <1>2, SubSeqProperties DEF Part
<1>4. QED
  BY <1>2, <1>3

\* What is written at the end of a stream leaves its parts as they were.
LEMMA PartKept ==
  ASSUME NEW S, NEW s \in Seq(S), NEW u \in Seq(S), NEW i \in Nat, NEW j \in i..Len(s)
  PROVE  Part(s \o u, i, j) = Part(s, i, j)
<1>1. /\ s \o u \in Seq(S) /\ Len(s \o u) = Len(s) + Len(u)
      /\ \A k \in 1..Len(s) : (s \o u)[k] = s[k]
      /\ Len(s) \in Nat /\ Len(u) \in Nat
  BY ConcatProperties, LenProperties
<1>2. j \in i..Len(s \o u)
  BY <1>1
<1> DEFINE p == Part(s, i, j)
           q == Part(s \o u, i, j)
<1>3. /\ p \in Seq(S) /\ Len(p) = j - i /\ \A k \in 1..(j - i) : p[k] = s[i + k]
  BY PartFacts
<1>4. /\ q \in Seq(S) /\ Len(q) = j - i /\ \A k \in 1..(j - i) : q[k] = (s \o u)[i + k]
  BY <1>1, <1>2, PartFacts
<1>5. \A k \in 1..(j - i) : i + k \in 1..Len(s)
  BY <1>1
<1> HIDE DEF p, q
<1>6. \A k \in 1..Len(q) : q[k] = p[k]
  BY <1>1, <1>3, <1>4, <1>5
<1>7. QED
  BY <1>3, <1>4, <1>6, SeqEqual DEF p, q

\* The end of a stream is what was written last.
LEMMA PartWritten ==
  ASSUME NEW S, NEW s \in Seq(S), NEW u \in Seq(S)
  PROVE  Part(s \o u, Len(s), Len(s) + Len(u)) = u
<1>1. /\ s \o u \in Seq(S) /\ Len(s \o u) = Len(s) + Len(u)
      /\ \A k \in 1..(Len(s) + Len(u)) :
           (s \o u)[k] = IF k <= Len(s) THEN s[k] ELSE u[k - Len(s)]
      /\ Len(s) \in Nat /\ Len(u) \in Nat
  BY ConcatProperties, LenProperties
<1> DEFINE q == Part(s \o u, Len(s), Len(s) + Len(u))
<1>2. Len(s) + Len(u) \in Len(s)..Len(s \o u)
  BY <1>1
<1>3. /\ q \in Seq(S) /\ Len(q) = Len(u)
      /\ \A k \in 1..Len(u) : q[k] = (s \o u)[Len(s) + k]
  <2> DEFINE i == Len(s)
             j == Len(s) + Len(u)
             w == s \o u
  <2>1. w \in Seq(S) /\ i \in Nat /\ j \in i..Len(w) /\ j - i = Len(u)
    BY <1>1, <1>2
  <2> HIDE DEF i, j, w
  <2>2. /\ Part(w, i, j) \in Seq(S) /\ Len(Part(w, i, j)) = j - i
        /\ \A k \in 1..(j - i) : Part(w, i, j)[k] = w[i + k]
    BY <2>1, PartFacts
  <2>3. QED
    BY <2>1, <2>2 DEF i, j, w
<1> HIDE DEF q
<1>4. \A k \in 1..Len(q) : q[k] = u[k]
  BY <1>1, <1>3
<1>5. QED
  BY <1>3, <1>4, SeqEqual DEF q

\* Adjacent parts make one part.
LEMMA PartsJoined ==
  ASSUME NEW S, NEW s \in Seq(S), NEW i \in Nat, NEW j \in i..Len(s), NEW k \in j..Len(s)
  PROVE  Part(s, i, j) \o Part(s, j, k) = Part(s, i, k)
<1>1. Len(s) \in Nat
  BY LenProperties
<1>2. i + 1 \in 1..(Len(s) + 1) /\ j \in ((i + 1) - 1)..Len(s) /\ k \in j..Len(s)
  BY <1>1
<1>3. QED
  BY <1>2, ConcatAdjacentSubSeq DEF Part

-----------------------------------------------------------------------------
\* At the end of a stream nothing happens any more.
LEMMA ChainEnd ==
  ASSUME NEW S, NEW s \in Seq(S), NEW a, NEW K
  PROVE  Chain(S, s, Len(s), a, a, K)
<1> DEFINE F == << >>
           off == [k \in 0..0 |-> Len(s)]
           st == [k \in 0..0 |-> a]
<1>1. F \in Seq(Seq(S)) /\ Len(F) = 0 /\ Len(s) \in Nat
  BY EmptySeq, LenProperties
<1>2. off[0] = Len(s) /\ st[0] = a /\ off \in [0..0 -> 0..Len(s)]
  BY <1>1
<1> HIDE DEF F, off, st
<1>3. Framed(s, Len(s), F, off)
  BY <1>1, <1>2 DEF Framed
<1>4. \A k \in 1..Len(F) : <<F[k], st[k - 1], st[k]>> \in K
  BY <1>1
<1>5. st[Len(F)] = a
  BY <1>1, <1>2
<1>6. QED
  BY <1>1, <1>2, <1>3, <1>4, <1>5 DEF Chain

\* A chain that is not at its end begins with a frame, and goes on after it.
LEMMA ChainFirst ==
  ASSUME NEW S, NEW s \in Seq(S), NEW from \in Nat, NEW a, NEW b, NEW K,
         Chain(S, s, from, a, b, K), from # Len(s) \/ a # b
  PROVE  \E u \in Seq(S) : \E c :
           /\ <<u, a, c>> \in K
           /\ from + Len(u) <= Len(s) /\ u = Part(s, from, from + Len(u))
           /\ Chain(S, s, from + Len(u), c, b, K)
<1>1. PICK F, off, st :
        /\ F \in Seq(Seq(S)) /\ Framed(s, from, F, off)
        /\ st[0] = a /\ st[Len(F)] = b
        /\ \A k \in 1..Len(F) : <<F[k], st[k - 1], st[k]>> \in K
  BY DEF Chain
<1>2. /\ off \in [0..Len(F) -> 0..Len(s)] /\ off[0] = from /\ off[Len(F)] = Len(s)
      /\ \A k \in 1..Len(F) :
           off[k] = off[k - 1] + Len(F[k]) /\ F[k] = Part(s, off[k - 1], off[k])
  BY <1>1 DEF Framed
<1>3. Len(F) \in Nat /\ Len(F) # 0 /\ Len(s) \in Nat
  BY <1>1, <1>2, LenProperties
<1>4. F # << >>
  BY <1>1, <1>3, EmptySeq
<1> DEFINE G == Tail(F)
           u == F[1]
           off2 == [k \in 0..(Len(F) - 1) |-> off[k + 1]]
           st2 == [k \in 0..(Len(F) - 1) |-> st[k + 1]]
<1>5. /\ G \in Seq(Seq(S)) /\ Len(G) = Len(F) - 1
      /\ \A k \in 1..Len(G) : G[k] = F[k + 1]
  BY <1>1, <1>4, HeadTailProperties
<1>6. u \in Seq(S) /\ Len(u) \in Nat
  BY <1>1, <1>3, ElementOfSeq, LenProperties
<1>7. 1 \in 1..Len(F) /\ 1 - 1 = 0 /\ 1 \in 0..Len(F)
  BY <1>3
<1>8. off[1] = from + Len(u) /\ u = Part(s, from, off[1]) /\ off[1] \in 0..Len(s)
  BY <1>2, <1>7
<1>9. <<u, a, st[1]>> \in K
  BY <1>1, <1>7
<1>10. /\ off2 \in [0..Len(G) -> 0..Len(s)]
       /\ off2[0] = off[1] /\ off2[Len(G)] = Len(s)
       /\ st2[0] = st[1] /\ st2[Len(G)] = b
  BY <1>1, <1>2, <1>3, <1>5
<1>11. \A k \in 1..Len(G) : /\ k + 1 \in 1..Len(F) /\ (k + 1) - 1 = k
                            /\ off2[k] = off[k + 1] /\ off2[k - 1] = off[k]
                            /\ st2[k] = st[k + 1] /\ st2[k - 1] = st[k]
  <2> TAKE k \in 1..Len(G)
  <2>1. /\ k + 1 \in 1..Len(F) /\ (k + 1) - 1 = k /\ k \in 0..(Len(F) - 1)
        /\ k - 1 \in 0..(Len(F) - 1) /\ (k - 1) + 1 = k
    BY <1>3, <1>5
  <2>2. off2[k] = off[k + 1] /\ st2[k] = st[k + 1]
    BY <2>1
  <2>3. off2[k - 1] = off[(k - 1) + 1] /\ st2[k - 1] = st[(k - 1) + 1]
    BY <2>1
  <2>4. QED
    BY <2>1, <2>2, <2>3
<1> HIDE DEF G, off2, st2, u
<1>12. \A k \in 1..Len(G) :
         /\ off2[k] = off2[k - 1] + Len(G[k]) /\ G[k] = Part(s, off2[k - 1], off2[k])
         /\ <<G[k], st2[k - 1], st2[k]>> \in K
  <2> SUFFICES ASSUME NEW k \in 1..Len(G)
               PROVE  /\ off2[k] = off2[k - 1] + Len(G[k])
                      /\ G[k] = Part(s, off2[k - 1], off2[k])
                      /\ <<G[k], st2[k - 1], st2[k]>> \in K
    OBVIOUS
  <2>1. /\ off[k + 1] = off[k] + Len(F[k + 1])
        /\ F[k + 1] = Part(s, off[k], off[k + 1])
        /\ <<F[k + 1], st[k], st[k + 1]>> \in K
    BY <1>1, <1>2, <1>11
  <2>2. QED
    BY <1>5, <1>11, <2>1
<1>13. Framed(s, off[1], G, off2)
  BY <1>10, <1>12 DEF Framed
<1>14. Chain(S, s, off[1], st[1], b, K)
  BY <1>5, <1>10, <1>12, <1>13 DEF Chain
<1>15. from + Len(u) <= Len(s)
  BY <1>3, <1>8
<1>16. QED
  BY <1>6, <1>8, <1>9, <1>14, <1>15

\* Writing one more frame makes the chain longer by it; frames that were good
\* before stay good.
LEMMA ChainWritten ==
  ASSUME NEW S, NEW s \in Seq(S), NEW from \in Nat, NEW a, NEW b, NEW K,
         Chain(S, s, from, a, b, K),
         NEW u \in Seq(S), NEW c, NEW L, K \subseteq L, <<u, b, c>> \in L
  PROVE  Chain(S, s \o u, from, a, c, L)
<1>1. PICK F, off, st :
        /\ F \in Seq(Seq(S)) /\ Framed(s, from, F, off)
        /\ st[0] = a /\ st[Len(F)] = b
        /\ \A k \in 1..Len(F) : <<F[k], st[k - 1], st[k]>> \in K
  BY DEF Chain
<1>2. /\ off \in [0..Len(F) -> 0..Len(s)] /\ off[0] = from /\ off[Len(F)] = Len(s)
      /\ \A k \in 1..Len(F) :
           off[k] = off[k - 1] + Len(F[k]) /\ F[k] = Part(s, off[k - 1], off[k])
  BY <1>1 DEF Framed
<1> DEFINE t == s \o u
           n == Len(F) + 1
           G == Append(F, u)
           off2 == [k \in 0..n |-> IF k = n THEN Len(t) ELSE off[k]]
           st2 == [k \in 0..n |-> IF k = n THEN c ELSE st[k]]
<1>3. Len(F) \in Nat /\ Len(s) \in Nat /\ Len(u) \in Nat
  BY <1>1, LenProperties
<1>4. t \in Seq(S) /\ Len(t) = Len(s) + Len(u)
  BY ConcatProperties
<1>5. /\ G \in Seq(Seq(S)) /\ Len(G) = n
      /\ \A k \in 1..Len(F) : G[k] = F[k]
      /\ G[n] = u
  BY <1>1, AppendProperties
<1>6. u = Part(t, Len(s), Len(t))
  BY <1>4, PartWritten
<1> HIDE DEF t, G
<1>7. /\ off2 \in [0..n -> 0..Len(t)]
      /\ off2[n] = Len(t) /\ st2[n] = c
      /\ \A k \in 0..Len(F) : off2[k] = off[k] /\ st2[k] = st[k] /\ off[k] \in 0..Len(s)
  <2>1. \A k \in 0..n : k = n \/ k \in 0..Len(F)
    BY <1>3
  <2>2. \A k \in 0..Len(F) : k \in 0..n /\ k # n
    BY <1>3
  <2>3. n \in 0..n
    BY <1>3
  <2> HIDE DEF n
  <2>4. \A k \in 0..Len(F) : off2[k] = off[k] /\ st2[k] = st[k] /\ off[k] \in 0..Len(s)
    BY <1>2, <2>2
  <2>5. off2[n] = Len(t) /\ st2[n] = c
    BY <2>3
  <2>6. Len(t) \in 0..Len(t) /\ \A x \in 0..Len(s) : x \in 0..Len(t)
    BY <1>3, <1>4
  <2>7. off2 \in [0..n -> 0..Len(t)]
    BY <1>2, <2>1, <2>6
  <2>8. QED
    BY <2>4, <2>5, <2>7
<1>8. n \in Nat /\ n - 1 = Len(F) /\ 0 \in 0..Len(F) /\ Len(F) \in 0..Len(F)
      /\ \A k \in 1..n : k = n \/ (k \in 1..Len(F) /\ k \in 0..Len(F) /\ k - 1 \in 0..Len(F))
  <2>1. \A m \in Nat : /\ m + 1 \in Nat /\ (m + 1) - 1 = m /\ 0 \in 0..m /\ m \in 0..m
                       /\ \A k \in 1..(m + 1) :
                            k = m + 1 \/ (k \in 1..m /\ k \in 0..m /\ k - 1 \in 0..m)
    OBVIOUS
  <2>2. QED
    BY <1>3, <2>1
<1> HIDE DEF n, off2, st2
<1>9. \A k \in 1..n :
        /\ off2[k] = off2[k - 1] + Len(G[k]) /\ G[k] = Part(t, off2[k - 1], off2[k])
        /\ <<G[k], st2[k - 1], st2[k]>> \in L
  <2> SUFFICES ASSUME NEW k \in 1..n
               PROVE  /\ off2[k] = off2[k - 1] + Len(G[k])
                      /\ G[k] = Part(t, off2[k - 1], off2[k])
                      /\ <<G[k], st2[k - 1], st2[k]>> \in L
    OBVIOUS
  <2>1. CASE k = n
    BY <1>1, <1>2, <1>4, <1>5, <1>6, <1>7, <1>8, <2>1
  <2>2. CASE k \in 1..Len(F) /\ k \in 0..Len(F) /\ k - 1 \in 0..Len(F)
    <3>1. /\ off2[k] = off[k] /\ off2[k - 1] = off[k - 1] /\ G[k] = F[k]
          /\ st2[k] = st[k] /\ st2[k - 1] = st[k - 1]
          /\ off[k] \in 0..Len(s) /\ off[k - 1] \in 0..Len(s)
      BY <1>5, <1>7, <2>2
    <3>2. F[k] \in Seq(S) /\ Len(F[k]) \in Nat
      BY <1>1, <2>2, ElementOfSeq, LenProperties
    <3>3. off[k] \in off[k - 1]..Len(s) /\ off[k - 1] \in Nat
      <4>1. off[k] = off[k - 1] + Len(F[k])
        BY <1>2, <2>2
      <4>2. QED
        BY <1>3, <3>1, <3>2, <4>1
    <3>4. Part(t, off[k - 1], off[k]) = Part(s, off[k - 1], off[k])
      BY <3>3, PartKept DEF t
    <3>5. QED
      BY <1>1, <1>2, <2>2, <3>1, <3>4
  <2>3. QED
    BY <1>8, <2>1, <2>2
<1>10. off2[0] = from /\ st2[0] = a
  BY <1>1, <1>2, <1>7, <1>8
<1>11. Framed(t, from, G, off2)
  BY <1>5, <1>7, <1>9, <1>10 DEF Framed
<1>12. Chain(S, t, from, a, c, L)
  BY <1>5, <1>7, <1>9, <1>10, <1>11 DEF Chain
<1>13. QED
  BY <1>12 DEF t

\* A chain stays one when more frames become good.
LEMMA ChainWider ==
  ASSUME NEW S, NEW s, NEW from, NEW a, NEW b, NEW K, NEW L, K \subseteq L,
         Chain(S, s, from, a, b, K)
  PROVE  Chain(S, s, from, a, b, L)
BY DEF Chain
-----------------------------------------------------------------------------
(* Tunnel PDUs *)

\* A part of a byte stream.
LEMMA BytesPart ==
  ASSUME NEW s \in Bytes, NEW i \in Nat, NEW j \in i..Len(s)
  PROVE  /\ Part(s, i, j) \in Bytes /\ Len(Part(s, i, j)) = j - i
         /\ \A k \in 1..(j - i) : Part(s, i, j)[k] = s[i + k]
BY PartFacts DEF Bytes

\* The length of a byte string.
LEMMA BytesLen == \A b \in Bytes : Len(b) \in Nat
BY LenProperties DEF Bytes

\* A length that fits into the two digits of PayloadLength is read back.
LEMMA LengthDigits ==
  ASSUME NEW n \in Nat
  PROVE  /\ n % LEN_BASE \in Nat /\ n \div LEN_BASE \in Nat
         /\ (n \div LEN_BASE) % LEN_BASE \in Nat
         /\ n < LEN_MOD => /\ (n % LEN_BASE) + LEN_BASE * (n \div LEN_BASE) = n
                           /\ (n \div LEN_BASE) % LEN_BASE = n \div LEN_BASE
<1> DEFINE B == LEN_BASE
           q == n \div B
           r == n % B
<1>1. B \in Nat /\ B > 0
  BY TunnelAssumption
<1>2. q \in Nat /\ r \in Nat /\ r < B /\ n = B * q + r
  BY <1>1
<1>3. q % B \in Nat
  BY <1>1, <1>2
<1>4. ASSUME n < B * B PROVE q < B
  <2>1. ASSUME q >= B PROVE FALSE
    <3>1. B * q >= B * B
      BY <1>1, <1>2, <2>1
    <3>2. QED
      BY <1>1, <1>2, <1>4, <3>1
  <2>2. QED
    BY <1>1, <1>2, <2>1
<1>5. ASSUME q < B PROVE q % B = q
  BY <1>1, <1>2, <1>5
<1>6. B * q \in Nat
  BY <1>1, <1>2
<1>7. r + B * q = n
  BY <1>2, <1>6
<1>8. QED
  BY <1>2, <1>3, <1>4, <1>5, <1>7 DEF LEN_MOD

\* A length field holds the lengths up to three at least.
LEMMA SmallLengths == LEN_MOD \in Nat /\ \A n \in 0..3 : n < LEN_MOD
<1>1. LEN_BASE \in Nat /\ LEN_BASE >= 2
  BY TunnelAssumption
<1>2. \A m \in Nat : m >= 2 => m * m >= 4 /\ m * m \in Nat
  OBVIOUS
<1>3. LEN_MOD >= 4 /\ LEN_MOD \in Nat
  BY <1>1, <1>2 DEF LEN_MOD
<1>4. \A m \in Nat : m >= 4 => \A n \in 0..3 : n < m
  OBVIOUS
<1>5. QED
  BY ONLY <1>3, <1>4

\* A tunnel PDU of the server whose body fits is read back as it was written.
LEMMA ServerPduFacts ==
  ASSUME NEW a \in Nat, NEW sub \in Bytes, NEW body \in Bytes, Len(body) < LEN_MOD
  PROVE  LET F == ServerPdu(a, sub, body)
         IN  /\ F \in Bytes /\ Len(F) = HeaderLen(F) + PayloadLen(F)
             /\ F[1] = a /\ HeaderLen(F) \in Nat /\ HeaderLen(F) >= MIN_HEADER_LEN
             /\ PayloadLen(F) \in Nat /\ Body(F) = body
<1> DEFINE l == Len(body) % LEN_BASE
           h == Len(body) \div LEN_BASE
           n == MIN_HEADER_LEN + Len(sub)
           H == <<a, l, h, n>>
           G == H \o sub
           F == ServerPdu(a, sub, body)
<1>1. Len(body) \in Nat /\ Len(sub) \in Nat
  BY LenProperties DEF Bytes
<1>2. l \in Nat /\ h \in Nat /\ l + LEN_BASE * h = Len(body)
  BY <1>1, LengthDigits
<1>3. n \in Nat /\ n = 4 + Len(sub)
  BY <1>1 DEF MIN_HEADER_LEN
<1>4. F = G \o body
  BY DEF ServerPdu
<1> HIDE DEF l, h, n, F
<1>5. H \in Bytes /\ Len(H) = 4 /\ H[1] = a /\ H[2] = l /\ H[3] = h /\ H[4] = n
  <2>1. l \in Nat /\ h \in Nat /\ n \in Nat
    BY <1>2, <1>3
  <2>2. QED
    BY <2>1 DEF Bytes
<1> HIDE DEF H
<1>6. /\ G \in Bytes /\ Len(G) = Len(H) + Len(sub)
      /\ \A k \in 1..(Len(H) + Len(sub)) : G[k] = IF k <= Len(H) THEN H[k] ELSE sub[k - Len(H)]
  <2>1. H \in Bytes
    BY <1>5
  <2>2. QED
    BY <2>1, ConcatProperties DEF Bytes
<1> HIDE DEF G
<1>7. /\ F \in Bytes /\ Len(F) = Len(G) + Len(body)
      /\ \A k \in 1..(Len(G) + Len(body)) : F[k] = IF k <= Len(G) THEN G[k] ELSE body[k - Len(G)]
  <2>1. G \in Bytes
    BY <1>6
  <2>2. /\ G \o body \in Bytes /\ Len(G \o body) = Len(G) + Len(body)
        /\ \A k \in 1..(Len(G) + Len(body)) :
             (G \o body)[k] = IF k <= Len(G) THEN G[k] ELSE body[k - Len(G)]
    BY <2>1, ConcatProperties DEF Bytes
  <2>3. QED
    BY <1>4, <2>2
<1>8. Len(G) = n
  BY <1>1, <1>3, <1>5, <1>6
<1>9. \A k \in 1..4 : F[k] = H[k]
  BY <1>1, <1>5, <1>6, <1>7
<1>10. HeaderLen(F) = n /\ PayloadLen(F) = Len(body) /\ F[1] = a
  BY <1>2, <1>5, <1>9 DEF HeaderLen, PayloadLen
<1>11. Body(F) = body
  <2>1. Part(G \o body, Len(G), Len(G) + Len(body)) = body
    BY <1>6, PartWritten DEF Bytes
  <2>2. QED
    BY <1>4, <1>8, <1>10, <2>1 DEF Body, Part
<1>12. n >= MIN_HEADER_LEN /\ Len(F) = n + Len(body)
  BY <1>1, <1>3, <1>7, <1>8 DEF MIN_HEADER_LEN
<1>13. QED
  BY <1>1, <1>3, <1>7, <1>10, <1>11, <1>12 DEF F

\* A tunnel PDU of the client is a server's without subheaders if its body fits,
\* and has the same first byte and whole body if it does not.
LEMMA ClientPduFacts ==
  ASSUME NEW a \in Nat, NEW body \in Bytes
  PROVE  LET F == tunnel_pdu(a, body)
         IN  /\ F \in Bytes /\ F[1] = a /\ Len(F) = 4 + Len(body)
             /\ Len(body) < LEN_MOD => F = ServerPdu(a, <<>>, body)
<1> DEFINE l == Len(body) % LEN_BASE
           h == (Len(body) \div LEN_BASE) % LEN_BASE
           H == <<a, l, h, MIN_HEADER_LEN>>
           F == H \o body
<1>1. Len(body) \in Nat /\ <<>> \in Bytes /\ Len(<<>>) = 0
  BY LenProperties, EmptySeq DEF Bytes
<1>2. /\ l \in Nat /\ h \in Nat
      /\ Len(body) < LEN_MOD => h = Len(body) \div LEN_BASE
  BY <1>1, LengthDigits
<1>3. MIN_HEADER_LEN \in Nat /\ MIN_HEADER_LEN + 0 = MIN_HEADER_LEN
  BY DEF MIN_HEADER_LEN
<1>4. H \in Bytes /\ Len(H) = 4 /\ H[1] = a
  <2>1. l \in Nat /\ h \in Nat
    BY <1>2
  <2> HIDE DEF l, h
  <2>2. QED
    BY <1>3, <2>1 DEF Bytes
<1>5. H \o <<>> = H
  BY <1>4, ConcatEmptySeq DEF Bytes
<1>6. F \in Bytes /\ Len(F) = 4 + Len(body) /\ F[1] = a
  <2> HIDE DEF H
  <2>1. H \in Bytes
    BY <1>4
  <2>2. /\ F \in Bytes /\ Len(F) = Len(H) + Len(body)
        /\ \A k \in 1..(Len(H) + Len(body)) : F[k] = IF k <= Len(H) THEN H[k] ELSE body[k - Len(H)]
    BY <2>1, ConcatProperties DEF Bytes
  <2> HIDE DEF F
  <2>3. QED
    BY <1>1, <1>4, <2>2
<1>7. F = tunnel_pdu(a, body)
  BY DEF tunnel_pdu
<1>8. ASSUME Len(body) < LEN_MOD PROVE F = ServerPdu(a, <<>>, body)
  <2>1. h = Len(body) \div LEN_BASE
    BY <1>2, <1>8
  <2>2. QED
    BY <1>1, <1>3, <1>5, <2>1 DEF ServerPdu
<1>9. QED
  BY <1>1, <1>6, <1>7, <1>8

\* The numbers in a header are naturals.
LEMMA HeaderNumbers ==
  ASSUME NEW h \in Bytes, Len(h) >= MIN_HEADER_LEN
  PROVE  HeaderLen(h) \in Nat /\ PayloadLen(h) \in Nat
<1>1. Len(h) \in Nat
  BY LenProperties DEF Bytes
<1>2. h[2] \in Nat /\ h[3] \in Nat /\ h[4] \in Nat
  BY <1>1, ElementOfSeq DEF Bytes, MIN_HEADER_LEN
<1>3. LEN_BASE \in Nat
  BY TunnelAssumption
<1>4. LEN_BASE * h[3] \in Nat
  BY <1>2, <1>3
<1>5. QED
  BY <1>2, <1>4 DEF HeaderLen, PayloadLen

\* The body of a PDU that is as long as its header says.
LEMMA BodyBytes ==
  ASSUME NEW pdu \in Bytes, Len(pdu) = HeaderLen(pdu) + PayloadLen(pdu),
         HeaderLen(pdu) \in Nat, PayloadLen(pdu) \in Nat
  PROVE  Body(pdu) \in Bytes
<1> DEFINE i == HeaderLen(pdu)
           j == HeaderLen(pdu) + PayloadLen(pdu)
<1>1. i \in Nat /\ j \in i..Len(pdu)
  OBVIOUS
<1>2. Body(pdu) = Part(pdu, i, j)
  BY DEF Body, Part
<1> HIDE DEF i, j
<1>3. QED
  BY <1>1, <1>2, PartFacts DEF Bytes

\* A PDU lies between two positions of a stream, and is as long as its header says
WholePdu(s, i, k, pdu) ==
  /\ pdu \in Bytes /\ pdu = Part(s, i, k) /\ Len(pdu) = k - i /\ Len(pdu) >= MIN_HEADER_LEN
  /\ Len(pdu) = HeaderLen(pdu) + PayloadLen(pdu)
  /\ HeaderLen(pdu) \in Nat /\ PayloadLen(pdu) \in Nat

\* Two reads, of a header and of what it asks for, give a whole PDU.
LEMMA TwoReads ==
  ASSUME NEW s \in Bytes, NEW i \in Nat, NEW j \in Nat, j = i + MIN_HEADER_LEN, j <= Len(s),
         NEW h, h = Part(s, i, j), HeaderLen(h) >= MIN_HEADER_LEN,
         NEW k \in Nat, k = j + RestLen(h), k <= Len(s),
         NEW pdu, pdu = h \o Part(s, j, k)
  PROVE  WholePdu(s, i, k, pdu)
<1>1. Len(s) \in Nat /\ MIN_HEADER_LEN = 4
  BY LenProperties DEF Bytes, MIN_HEADER_LEN
<1>2. j \in i..Len(s)
  BY <1>1
<1>3. /\ h \in Bytes /\ Len(h) = j - i
      /\ \A x \in 1..(j - i) : h[x] = s[i + x]
  <2>1. /\ Part(s, i, j) \in Bytes /\ Len(Part(s, i, j)) = j - i
        /\ \A x \in 1..(j - i) : Part(s, i, j)[x] = s[i + x]
    BY ONLY <1>2, s \in Bytes, i \in Nat, BytesPart
  <2>2. QED
    BY <2>1
<1>4. Len(h) = 4 /\ h[1] = s[i + 1] /\ h[2] = s[i + 2] /\ h[3] = s[i + 3] /\ h[4] = s[i + 4]
  BY <1>1, <1>3
<1>5. HeaderLen(h) \in Nat /\ PayloadLen(h) \in Nat
  BY <1>1, <1>3, <1>4, HeaderNumbers
<1>6. RestLen(h) = HeaderLen(h) - 4 + PayloadLen(h) /\ RestLen(h) \in Nat
  BY <1>1, <1>5 DEF RestLen
<1>7. k \in j..Len(s) /\ k \in i..Len(s) /\ k - i = HeaderLen(h) + PayloadLen(h) /\ k - i >= 4
  <2>1. j = i + 4 /\ HeaderLen(h) >= 4 /\ k = j + RestLen(h) /\ k <= Len(s)
    BY <1>1
  <2>2. QED
    BY ONLY <1>1, <1>5, <1>6, <2>1, i \in Nat, k \in Nat
<1>8. pdu = Part(s, i, k)
  <2>1. Part(s, i, j) \o Part(s, j, k) = Part(s, i, k)
    BY ONLY <1>2, <1>7, s \in Bytes, i \in Nat, PartsJoined DEF Bytes
  <2>2. QED
    BY <2>1
<1>9. /\ pdu \in Bytes /\ Len(pdu) = k - i
      /\ \A x \in 1..(k - i) : pdu[x] = s[i + x]
  <2>1. /\ Part(s, i, k) \in Bytes /\ Len(Part(s, i, k)) = k - i
        /\ \A x \in 1..(k - i) : Part(s, i, k)[x] = s[i + x]
    BY ONLY <1>7, s \in Bytes, i \in Nat, BytesPart
  <2>2. QED
    BY <1>8, <2>1
<1>10. pdu[1] = s[i + 1] /\ pdu[2] = s[i + 2] /\ pdu[3] = s[i + 3] /\ pdu[4] = s[i + 4]
  BY ONLY <1>7, <1>9, i \in Nat, k \in Nat
<1>11. HeaderLen(pdu) = HeaderLen(h) /\ PayloadLen(pdu) = PayloadLen(h)
  BY <1>4, <1>10 DEF HeaderLen, PayloadLen
<1>12. QED
  BY <1>1, <1>3, <1>4, <1>5, <1>6, <1>7, <1>8, <1>9, <1>11 DEF WholePdu

\* The header that is read at the beginning of a PDU is the one written there.
LEMMA HeaderOfPdu ==
  ASSUME NEW s \in Bytes, NEW i \in Nat, NEW u \in Bytes,
         Len(u) >= MIN_HEADER_LEN, i + Len(u) <= Len(s), u = Part(s, i, i + Len(u)),
         NEW j \in Nat, j = i + MIN_HEADER_LEN
  PROVE  LET h == Part(s, i, j)
         IN  h[1] = u[1] /\ HeaderLen(h) = HeaderLen(u) /\ PayloadLen(h) = PayloadLen(u)
<1> DEFINE h == Part(s, i, j)
           k == i + Len(u)
<1>1. Len(s) \in Nat /\ Len(u) \in Nat /\ MIN_HEADER_LEN = 4
  BY LenProperties DEF Bytes, MIN_HEADER_LEN
<1>2. j \in i..Len(s) /\ k \in i..Len(s) /\ k - i >= 4 /\ j - i = 4
  BY <1>1
<1>3. \A x \in 1..(j - i) : h[x] = s[i + x]
  BY <1>2, PartFacts DEF Bytes
<1>4. \A x \in 1..(k - i) : u[x] = s[i + x]
  <2> HIDE DEF k
  <2>1. u = Part(s, i, k)
    BY DEF k
  <2>2. QED
    BY <1>2, <2>1, PartFacts DEF Bytes
<1> HIDE DEF h, k
<1>5. h[1] = u[1] /\ h[2] = u[2] /\ h[3] = u[3] /\ h[4] = u[4]
  BY <1>2, <1>3, <1>4
<1>6. QED
  BY <1>5 DEF HeaderLen, PayloadLen, h

-----------------------------------------------------------------------------
(***************************************************************************)
(* The stream of a server.  Its frames count the data PDUs: frame u leads  *)
(* from i PDUs to j.  ts are the PDUs the server has sent; a response that *)
(* accepts the tunnel is there only if the server has bound it.            *)
(***************************************************************************)
IsDown(ts, bound, u, i, j) ==
  \/ /\ j = i + 1 /\ j <= Len(ts) /\ Len(ts[j]) < LEN_MOD
     /\ \E sub \in Bytes : u = ServerPdu(ACTION_DATA, sub, ts[j])
  \/ j = i /\ u = <<ACTION_DATA, 0, 0, 0>>
  \/ /\ j = i
     /\ \E a \in {ACTION_CREATERESPONSE, ACTION_UNKNOWN} : \E b \in {<<>>, << 0 >>, << 1 >>} :
          u = ServerPdu(a, <<>>, b) /\ (a = ACTION_CREATERESPONSE /\ b = << 0 >> => bound)

DownFrames(ts, bound) == {x \in Bytes \X Nat \X Nat : IsDown(ts, bound, x[1], x[2], x[3])}

\* What follows `from' takes a client that has had n PDUs to all of ts
Downward(s, from, n, ts, bound) == Chain(Nat, s, from, n, Len(ts), DownFrames(ts, bound))

\* The frames of a server, as triples.
LEMMA DownTriples ==
  \A ts, bound, u, i, j :
    <<u, i, j>> \in DownFrames(ts, bound) <=>
      u \in Bytes /\ i \in Nat /\ j \in Nat /\ IsDown(ts, bound, u, i, j)
BY DEF DownFrames

\* A client that has read all bytes has had all PDUs.
LEMMA DownEnd ==
  ASSUME NEW s \in Bytes, NEW ts, NEW bound
  PROVE  Downward(s, Len(s), Len(ts), ts, bound)
BY ChainEnd DEF Downward, Bytes

\* The server writes one more frame.
LEMMA DownWritten ==
  ASSUME NEW s \in Bytes, NEW from \in Nat, NEW n, NEW ts \in Seq(Bytes), NEW bound,
         Downward(s, from, n, ts, bound),
         NEW us \in Seq(Bytes), us = ts \/ \E p \in Bytes : us = Append(ts, p),
         NEW bound2, bound => bound2,
         NEW u \in Bytes, IsDown(us, bound2, u, Len(ts), Len(us))
  PROVE  Downward(s \o u, from, n, us, bound2)
<1> DEFINE K == DownFrames(ts, bound)
           L == DownFrames(us, bound2)
<1>1. Len(ts) \in Nat /\ Len(us) \in Nat
  BY LenProperties
<1>2. Len(ts) <= Len(us) /\ \A j \in 1..Len(ts) : us[j] = ts[j]
  BY <1>1, AppendProperties
<1>3. \A u1 \in Bytes : \A i, j \in Nat :
        IsDown(ts, bound, u1, i, j) => IsDown(us, bound2, u1, i, j)
  <2> SUFFICES ASSUME NEW u1 \in Bytes, NEW i \in Nat, NEW j \in Nat, IsDown(ts, bound, u1, i, j)
               PROVE  IsDown(us, bound2, u1, i, j)
    OBVIOUS
  <2>1. CASE j = i + 1 /\ j <= Len(ts) /\ Len(ts[j]) < LEN_MOD
              /\ \E sub \in Bytes : u1 = ServerPdu(ACTION_DATA, sub, ts[j])
    <3>1. j \in 1..Len(ts) /\ j <= Len(us)
      BY <1>1, <1>2, <2>1
    <3>2. us[j] = ts[j]
      BY <1>2, <3>1
    <3>3. QED
      BY <2>1, <3>1, <3>2 DEF IsDown
  <2>2. CASE j = i /\ u1 = <<ACTION_DATA, 0, 0, 0>>
    BY <2>2 DEF IsDown
  <2>3. CASE /\ j = i
             /\ \E a \in {ACTION_CREATERESPONSE, ACTION_UNKNOWN} : \E b \in {<<>>, << 0 >>, << 1 >>} :
                  u1 = ServerPdu(a, <<>>, b) /\ (a = ACTION_CREATERESPONSE /\ b = << 0 >> => bound)
    BY <2>3 DEF IsDown
  <2>4. QED
    BY <2>1, <2>2, <2>3 DEF IsDown
<1>4. K \subseteq L
  BY <1>3 DEF DownFrames
<1>5. <<u, Len(ts), Len(us)>> \in L
  BY <1>1, DownTriples
<1>6. Chain(Nat, s, from, n, Len(ts), K)
  BY DEF Downward
<1> HIDE DEF K, L
<1>7. Chain(Nat, s \o u, from, n, Len(us), L)
  BY <1>4, <1>5, <1>6, ChainWritten DEF Bytes
<1>8. QED
  BY <1>7 DEF Downward, L

\* What a client makes of such a frame
DownMeans(ts, bound, u, i, j) ==
  /\ Len(u) >= MIN_HEADER_LEN
  /\ BadHeaderLen(u) => Len(u) = MIN_HEADER_LEN /\ j = i
  /\ ~BadHeaderLen(u) =>
       /\ Len(u) = HeaderLen(u) + PayloadLen(u)
       /\ HeaderLen(u) \in Nat /\ PayloadLen(u) \in Nat
       /\ IsData(u) => j = i + 1 /\ j <= Len(ts) /\ Body(u) = ts[j]
       /\ ~IsData(u) => j = i
       /\ Accepts(u) => bound

\* A client reads every frame of the server as it was meant.
LEMMA DownFrameFacts ==
  ASSUME NEW ts \in Seq(Bytes), NEW bound, NEW u \in Bytes, NEW i \in Nat, NEW j \in Nat,
         IsDown(ts, bound, u, i, j)
  PROVE  DownMeans(ts, bound, u, i, j)
<1>1. MIN_HEADER_LEN = 4 /\ ACTION_DATA = 2 /\ ACTION_CREATERESPONSE = 1 /\ ACTION_UNKNOWN = 3
  BY DEF MIN_HEADER_LEN, ACTION_DATA, ACTION_CREATERESPONSE, ACTION_UNKNOWN
<1>2. CASE j = i + 1 /\ j <= Len(ts) /\ Len(ts[j]) < LEN_MOD
            /\ \E sub \in Bytes : u = ServerPdu(ACTION_DATA, sub, ts[j])
  <2>1. PICK sub \in Bytes : u = ServerPdu(ACTION_DATA, sub, ts[j])
    BY <1>2
  <2>2. ts[j] \in Bytes
    <3>1. j \in 1..Len(ts)
      BY <1>2, LenProperties
    <3>2. QED
      BY <3>1, ElementOfSeq
  <2>3. /\ Len(u) = HeaderLen(u) + PayloadLen(u) /\ u[1] = 2
        /\ HeaderLen(u) \in Nat /\ HeaderLen(u) >= MIN_HEADER_LEN
        /\ PayloadLen(u) \in Nat /\ Body(u) = ts[j]
    <3>1. ACTION_DATA \in Nat /\ Len(ts[j]) < LEN_MOD
      BY <1>1, <1>2
    <3>2. LET F == ServerPdu(ACTION_DATA, sub, ts[j])
          IN  /\ F \in Bytes /\ Len(F) = HeaderLen(F) + PayloadLen(F)
              /\ F[1] = ACTION_DATA /\ HeaderLen(F) \in Nat /\ HeaderLen(F) >= MIN_HEADER_LEN
              /\ PayloadLen(F) \in Nat /\ Body(F) = ts[j]
      BY ONLY <2>2, <3>1, sub \in Bytes, ServerPduFacts
    <3>3. QED
      BY ONLY <1>1, <2>1, <3>2
  <2>4. ~BadHeaderLen(u) /\ Len(u) >= MIN_HEADER_LEN
    BY <1>1, <2>3 DEF BadHeaderLen
  <2>5. IsData(u) /\ ~Accepts(u)
    BY <1>1, <2>3 DEF IsData, Accepts, IsCreateResponse
  <2>6. QED
    BY <1>2, <2>3, <2>4, <2>5 DEF DownMeans
<1>3. CASE j = i /\ u = <<ACTION_DATA, 0, 0, 0>>
  <2>1. Len(u) = 4 /\ u[4] = 0
    BY <1>3
  <2>2. BadHeaderLen(u)
    BY <1>1, <2>1 DEF BadHeaderLen, HeaderLen
  <2>3. QED
    BY <1>1, <1>3, <2>1, <2>2 DEF DownMeans
<1>4. ASSUME j = i, NEW a \in {ACTION_CREATERESPONSE, ACTION_UNKNOWN},
             NEW b \in {<<>>, << 0 >>, << 1 >>},
             u = ServerPdu(a, <<>>, b), a = ACTION_CREATERESPONSE /\ b = << 0 >> => bound
      PROVE  DownMeans(ts, bound, u, i, j)
  <2>1. b \in Bytes /\ Len(b) \in {0, 1} /\ <<>> \in Bytes
    <3>1. <<>> \in Bytes /\ Len(<<>>) = 0
      BY EmptySeq DEF Bytes
    <3>2. << 0 >> \in Bytes /\ Len(<< 0 >>) = 1 /\ << 1 >> \in Bytes /\ Len(<< 1 >>) = 1
      BY DEF Bytes
    <3>3. b = <<>> \/ b = << 0 >> \/ b = << 1 >>
      BY <1>4
    <3>4. QED
      BY ONLY <3>1, <3>2, <3>3
  <2>4. Len(b) < LEN_MOD
    <3>1. Len(b) \in 0..3
      BY <2>1
    <3>2. QED
      BY ONLY <3>1, SmallLengths
  <2>5. a \in {1, 3} /\ a \in Nat
    BY <1>1, <1>4
  <2>6. /\ Len(u) = HeaderLen(u) + PayloadLen(u) /\ u[1] = a
        /\ HeaderLen(u) \in Nat /\ HeaderLen(u) >= MIN_HEADER_LEN
        /\ PayloadLen(u) \in Nat /\ Body(u) = b
    BY <1>4, <2>1, <2>4, <2>5, ServerPduFacts
  <2>7. ~BadHeaderLen(u) /\ Len(u) >= MIN_HEADER_LEN
    BY <1>1, <2>6 DEF BadHeaderLen
  <2>8. ~IsData(u)
    BY <1>1, <2>5, <2>6 DEF IsData
  <2>9. Accepts(u) => a = 1 /\ b = << 0 >>
    <3>1. SUFFICES ASSUME Accepts(u) PROVE a = 1 /\ b = << 0 >>
      OBVIOUS
    <3>2. u[1] % 16 = 1 /\ Body(u) # <<>> /\ Body(u)[1] = 0
      BY <1>1, <3>1 DEF Accepts, Short, IsCreateResponse
    <3>3. b # <<>> /\ b[1] = 0
      BY <2>6, <3>2
    <3>4. b = << 0 >>
      BY <1>4, <3>3
    <3>5. QED
      BY <2>5, <2>6, <3>2, <3>4
  <2>10. QED
    BY <1>1, <1>4, <2>6, <2>7, <2>8, <2>9 DEF DownMeans
<1>5. QED
  BY <1>2, <1>3, <1>4 DEF IsDown

\* The client goes on after a whole PDU u, which ends at k
ReadsOn(s, n, ts, bound, k, u) ==
  /\ IsData(u) => /\ n + 1 <= Len(ts) /\ Body(u) = ts[n + 1]
                  /\ Downward(s, k, n + 1, ts, bound)
  /\ ~IsData(u) => Downward(s, k, n, ts, bound)
  /\ Accepts(u) => bound

\* A client that is at the beginning of a frame and can read a header reads a
\* whole frame next: one that ends there, or the one the header describes.
LEMMA DownRead ==
  ASSUME NEW s \in Bytes, NEW from \in Nat, NEW n \in Nat, NEW ts \in Seq(Bytes), NEW bound,
         Downward(s, from, n, ts, bound),
         NEW h, h = Part(s, from, from + MIN_HEADER_LEN), from + MIN_HEADER_LEN <= Len(s)
  PROVE  /\ BadHeaderLen(h) => Downward(s, from + MIN_HEADER_LEN, n, ts, bound)
         /\ ~BadHeaderLen(h) =>
              LET k == from + (HeaderLen(h) + PayloadLen(h))
              IN  ReadsOn(s, n, ts, bound, k, Part(s, from, k))
<1>1. Len(s) \in Nat /\ MIN_HEADER_LEN = 4 /\ from # Len(s)
  BY BytesLen DEF MIN_HEADER_LEN
<1>2. PICK u \in Seq(Nat) : \E c :
        /\ <<u, n, c>> \in DownFrames(ts, bound)
        /\ from + Len(u) <= Len(s) /\ u = Part(s, from, from + Len(u))
        /\ Chain(Nat, s, from + Len(u), c, Len(ts), DownFrames(ts, bound))
  BY <1>1, ChainFirst DEF Downward, Bytes
<1>3. PICK c :
        /\ <<u, n, c>> \in DownFrames(ts, bound)
        /\ from + Len(u) <= Len(s) /\ u = Part(s, from, from + Len(u))
        /\ Downward(s, from + Len(u), c, ts, bound)
  BY <1>2 DEF Downward
<1>4. u \in Bytes /\ c \in Nat /\ IsDown(ts, bound, u, n, c)
  BY <1>3, DownTriples
<1>5. DownMeans(ts, bound, u, n, c)
  BY ONLY <1>4, ts \in Seq(Bytes), n \in Nat, DownFrameFacts
<1>6. HeaderLen(h) = HeaderLen(u) /\ PayloadLen(h) = PayloadLen(u)
  BY <1>1, <1>3, <1>4, <1>5, HeaderOfPdu DEF DownMeans
<1>7. BadHeaderLen(h) <=> BadHeaderLen(u)
  BY <1>6 DEF BadHeaderLen
<1>8. ASSUME BadHeaderLen(h) PROVE Downward(s, from + MIN_HEADER_LEN, n, ts, bound)
  BY <1>3, <1>5, <1>7, <1>8 DEF DownMeans
<1>9. ASSUME ~BadHeaderLen(h)
      PROVE  LET k == from + (HeaderLen(h) + PayloadLen(h))
             IN  ReadsOn(s, n, ts, bound, k, Part(s, from, k))
  <2>1. Len(u) = HeaderLen(h) + PayloadLen(h)
    BY <1>5, <1>6, <1>7, <1>9 DEF DownMeans
  <2>2. u = Part(s, from, from + (HeaderLen(h) + PayloadLen(h)))
    BY <1>3, <2>1
  <2>3. Downward(s, from + (HeaderLen(h) + PayloadLen(h)), c, ts, bound)
    BY <1>3, <2>1
  <2>4. QED
    BY <1>5, <1>7, <1>9, <2>2, <2>3 DEF DownMeans, ReadsOn
<1>10. QED
  BY <1>8, <1>9

-----------------------------------------------------------------------------
(***************************************************************************)
(* The stream of the client: Create Requests, and ss, the PDUs given to    *)
(* send_pdu.  hs are the PDUs the server has made of it.                   *)
(***************************************************************************)
IsUp(ss, u, i, j) ==
  \/ j = i /\ \E r \in InitiateRequest : u = create_request(r)
  \/ j = i + 1 /\ j <= Len(ss) /\ u = data(ss[j])

UpFrames(ss) == {x \in Bytes \X Nat \X Nat : IsUp(ss, x[1], x[2], x[3])}

\* The server has met a PDU that was too long; what it heard before is right
Derailed(ss, hs) ==
  \E j \in 1..Len(ss) : /\ j <= Len(hs) /\ Len(ss[j]) >= LEN_MOD
                        /\ \A i \in 1..(j - 1) : hs[i] = ss[i]

\* What it has heard is right, and what follows `from' are the other PDUs
OnTrack(s, from, ss, hs) ==
  /\ Len(hs) <= Len(ss) /\ \A i \in 1..Len(hs) : hs[i] = ss[i]
  /\ Chain(Nat, s, from, Len(hs), Len(ss), UpFrames(ss))

Upward(s, from, ss, hs) == Derailed(ss, hs) \/ OnTrack(s, from, ss, hs)

\* The frames of the client, as triples.
LEMMA UpTriples ==
  \A ss, u, i, j :
    <<u, i, j>> \in UpFrames(ss) <=>
      u \in Bytes /\ i \in Nat /\ j \in Nat /\ IsUp(ss, u, i, j)
BY DEF UpFrames

\* A tunnel on which nothing has happened.
LEMMA UpNew ==
  ASSUME NEW s \in Bytes, NEW from, from = Len(s)
  PROVE  Upward(s, from, <<>>, <<>>)
<1>1. Chain(Nat, s, from, Len(<<>>), Len(<<>>), UpFrames(<<>>))
  BY ChainEnd DEF Bytes
<1>2. Len(<<>>) = 0
  BY EmptySeq
<1>3. QED
  BY <1>1, <1>2 DEF Upward, OnTrack

\* The client writes one more frame.
LEMMA UpWritten ==
  ASSUME NEW s \in Bytes, NEW from \in Nat, NEW ss \in Seq(Bytes), NEW hs \in Seq(Bytes),
         Upward(s, from, ss, hs),
         NEW us \in Seq(Bytes), us = ss \/ \E p \in Bytes : us = Append(ss, p),
         NEW u \in Bytes, IsUp(us, u, Len(ss), Len(us))
  PROVE  Upward(s \o u, from, us, hs)
<1> DEFINE K == UpFrames(ss)
           L == UpFrames(us)
<1>1. Len(ss) \in Nat /\ Len(us) \in Nat /\ Len(hs) \in Nat
  BY LenProperties
<1>2. Len(ss) <= Len(us) /\ \A j \in 1..Len(ss) : us[j] = ss[j]
  BY <1>1, AppendProperties
<1>3. CASE Derailed(ss, hs)
  <2>1. PICK j \in 1..Len(ss) : /\ j <= Len(hs) /\ Len(ss[j]) >= LEN_MOD
                                /\ \A i \in 1..(j - 1) : hs[i] = ss[i]
    BY <1>3 DEF Derailed
  <2>2. j \in 1..Len(us) /\ us[j] = ss[j] /\ \A i \in 1..(j - 1) : us[i] = ss[i]
    BY <1>1, <1>2
  <2>3. \A i \in 1..(j - 1) : hs[i] = us[i]
    BY <2>1, <2>2
  <2>4. QED
    BY <2>1, <2>2, <2>3 DEF Upward, Derailed
<1>4. CASE OnTrack(s, from, ss, hs)
  <2>1. \A u1 \in Bytes : \A i, j \in Nat : IsUp(ss, u1, i, j) => IsUp(us, u1, i, j)
    <3> SUFFICES ASSUME NEW u1 \in Bytes, NEW i \in Nat, NEW j \in Nat, IsUp(ss, u1, i, j)
                 PROVE  IsUp(us, u1, i, j)
      OBVIOUS
    <3>1. CASE j = i /\ \E r \in InitiateRequest : u1 = create_request(r)
      BY <3>1 DEF IsUp
    <3>2. CASE j = i + 1 /\ j <= Len(ss) /\ u1 = data(ss[j])
      <4>1. j \in 1..Len(ss) /\ j <= Len(us)
        BY <1>1, <1>2, <3>2
      <4>2. us[j] = ss[j]
        BY <1>2, <4>1
      <4>3. QED
        BY <3>2, <4>1, <4>2 DEF IsUp
    <3>3. QED
      BY <3>1, <3>2 DEF IsUp
  <2>2. K \subseteq L
    BY <2>1 DEF UpFrames
  <2>3. <<u, Len(ss), Len(us)>> \in L
    BY <1>1, UpTriples
  <2>4. Chain(Nat, s, from, Len(hs), Len(ss), K)
    BY <1>4 DEF OnTrack
  <2> HIDE DEF K, L
  <2>5. Chain(Nat, s \o u, from, Len(hs), Len(us), L)
    BY <2>2, <2>3, <2>4, ChainWritten DEF Bytes
  <2>6. Len(hs) <= Len(us) /\ \A i \in 1..Len(hs) : hs[i] = us[i]
    <3>1. Len(hs) <= Len(ss) /\ \A i \in 1..Len(hs) : hs[i] = ss[i]
      BY <1>4 DEF OnTrack
    <3>2. \A i \in 1..Len(hs) : i \in 1..Len(ss)
      BY <1>1, <3>1
    <3>3. QED
      BY <1>1, <1>2, <3>1, <3>2
  <2>7. QED
    BY <2>5, <2>6 DEF Upward, OnTrack, L
<1>5. QED
  BY <1>3, <1>4 DEF Upward

\* A server that has derailed stays so, whatever it hears.
LEMMA StaysDerailed ==
  ASSUME NEW ss \in Seq(Bytes), NEW hs \in Seq(Bytes), NEW b \in Bytes, Derailed(ss, hs)
  PROVE  Derailed(ss, Append(hs, b))
<1>1. Len(ss) \in Nat /\ Len(hs) \in Nat
  BY LenProperties
<1>2. Len(Append(hs, b)) = Len(hs) + 1 /\ \A i \in 1..Len(hs) : Append(hs, b)[i] = hs[i]
  BY AppendProperties
<1> DEFINE gs == Append(hs, b)
<1> HIDE DEF gs
<1>3. PICK j \in 1..Len(ss) : /\ j <= Len(hs) /\ Len(ss[j]) >= LEN_MOD
                              /\ \A i \in 1..(j - 1) : hs[i] = ss[i]
  BY DEF Derailed
<1>4. j <= Len(gs) /\ \A i \in 1..(j - 1) : i \in 1..Len(hs)
  BY <1>1, <1>2, <1>3 DEF gs
<1>5. \A i \in 1..(j - 1) : gs[i] = ss[i]
  BY <1>2, <1>3, <1>4 DEF gs
<1>6. QED
  BY <1>3, <1>4, <1>5 DEF Derailed, gs

\* What a server makes of a frame of the client
UpMeans(ss, u, i, j) ==
  /\ Len(u) >= MIN_HEADER_LEN
  /\ \/ u[1] = ACTION_CREATEREQUEST /\ j = i /\ Len(u) = HeaderLen(u) + PayloadLen(u)
     \/ /\ u[1] = ACTION_DATA /\ j = i + 1 /\ j \in 1..Len(ss)
        /\ \/ Len(ss[j]) >= LEN_MOD
           \/ Len(u) = HeaderLen(u) + PayloadLen(u) /\ Body(u) = ss[j]

\* A server reads every frame of the client as it was meant, unless it is a PDU
\* that is too long.
LEMMA UpFrameFacts ==
  ASSUME NEW ss \in Seq(Bytes), NEW u \in Bytes, NEW i \in Nat, NEW j \in Nat, IsUp(ss, u, i, j)
  PROVE  UpMeans(ss, u, i, j)
<1>1. MIN_HEADER_LEN = 4 /\ ACTION_DATA = 2 /\ ACTION_CREATEREQUEST = 0
  BY DEF MIN_HEADER_LEN, ACTION_DATA, ACTION_CREATEREQUEST
<1>2. <<>> \in Bytes /\ LEN_MOD \in Nat
  BY EmptySeq, SmallLengths DEF Bytes
<1>3. \A a \in Nat : \A body \in Bytes :
        LET F == tunnel_pdu(a, body)
        IN  /\ F[1] = a /\ Len(F) >= 4
            /\ Len(body) < LEN_MOD => Len(F) = HeaderLen(F) + PayloadLen(F) /\ Body(F) = body
  <2> SUFFICES ASSUME NEW a \in Nat, NEW body \in Bytes
               PROVE  LET F == tunnel_pdu(a, body)
                      IN  /\ F[1] = a /\ Len(F) >= 4
                          /\ Len(body) < LEN_MOD =>
                               Len(F) = HeaderLen(F) + PayloadLen(F) /\ Body(F) = body
    OBVIOUS
  <2> DEFINE F == tunnel_pdu(a, body)
  <2>1. /\ F[1] = a /\ Len(F) = 4 + Len(body)
        /\ Len(body) < LEN_MOD => F = ServerPdu(a, <<>>, body)
    BY ONLY a \in Nat, body \in Bytes, ClientPduFacts
  <2>2. Len(body) \in Nat
    BY BytesLen
  <2>3. ASSUME Len(body) < LEN_MOD
        PROVE  Len(F) = HeaderLen(F) + PayloadLen(F) /\ Body(F) = body
    <3>1. LET G == ServerPdu(a, <<>>, body)
          IN  /\ G \in Bytes /\ Len(G) = HeaderLen(G) + PayloadLen(G)
              /\ G[1] = a /\ HeaderLen(G) \in Nat /\ HeaderLen(G) >= MIN_HEADER_LEN
              /\ PayloadLen(G) \in Nat /\ Body(G) = body
      BY ONLY <1>2, <2>3, a \in Nat, body \in Bytes, ServerPduFacts
    <3>2. F = ServerPdu(a, <<>>, body)
      BY <2>1, <2>3
    <3> HIDE DEF F
    <3>3. QED
      BY ONLY <3>1, <3>2
  <2> HIDE DEF F
  <2>4. Len(F) >= 4
    BY ONLY <2>1, <2>2
  <2>5. QED
    BY <2>1, <2>3, <2>4 DEF F
<1>4. CASE j = i /\ \E r \in InitiateRequest : u = create_request(r)
  <2>1. PICK r \in InitiateRequest : u = create_request(r)
    BY <1>4
  <2> DEFINE b == CreateBody(r)
  <2>2. b \in Bytes /\ Len(b) = 3
    BY DEF CreateBody, InitiateRequest, Bytes
  <2>3. Len(b) < LEN_MOD
    <3>1. Len(b) \in 0..3
      BY <2>2
    <3>2. QED
      BY ONLY <3>1, SmallLengths
  <2>4. u = tunnel_pdu(0, b)
    BY <1>1, <2>1 DEF create_request
  <2> HIDE DEF b
  <2>5. u[1] = 0 /\ Len(u) >= 4 /\ Len(u) = HeaderLen(u) + PayloadLen(u)
    <3>1. 0 \in Nat
      OBVIOUS
    <3>2. QED
      BY ONLY <1>3, <2>2, <2>3, <2>4, <3>1
  <2>6. QED
    BY <1>1, <1>4, <2>5 DEF UpMeans
<1>5. CASE j = i + 1 /\ j <= Len(ss) /\ u = data(ss[j])
  <2>1. j \in 1..Len(ss)
    BY <1>5, LenProperties
  <2>2. ss[j] \in Bytes
    BY <2>1, ElementOfSeq
  <2>3. u = tunnel_pdu(2, ss[j])
    BY <1>1, <1>5 DEF data
  <2>4. /\ u[1] = 2 /\ Len(u) >= 4
        /\ Len(ss[j]) < LEN_MOD => Len(u) = HeaderLen(u) + PayloadLen(u) /\ Body(u) = ss[j]
    <3>1. 2 \in Nat
      OBVIOUS
    <3>2. QED
      BY ONLY <1>3, <2>2, <2>3, <3>1
  <2>5. Len(ss[j]) < LEN_MOD \/ Len(ss[j]) >= LEN_MOD
    <3>1. Len(ss[j]) \in Nat
      BY <2>2, BytesLen
    <3>2. QED
      BY ONLY <1>2, <3>1
  <2>6. QED
    BY <1>1, <1>5, <2>1, <2>4, <2>5 DEF UpMeans
<1>6. QED
  BY <1>4, <1>5 DEF IsUp

\* The server takes one PDU from the stream of the client.
LEMMA UpRead ==
  ASSUME NEW s \in Bytes, NEW from \in Nat, NEW ss \in Seq(Bytes), NEW hs \in Seq(Bytes),
         Upward(s, from, ss, hs),
         NEW h, h = Part(s, from, from + MIN_HEADER_LEN), from + MIN_HEADER_LEN <= Len(s),
         NEW k, k = from + (HeaderLen(h) + PayloadLen(h)),
         NEW pdu \in Bytes, pdu = Part(s, from, k), pdu[1] = h[1], Body(pdu) \in Bytes
  PROVE  /\ pdu[1] = ACTION_CREATEREQUEST => Upward(s, k, ss, hs)
         /\ pdu[1] = ACTION_DATA => Upward(s, k, ss, Append(hs, Body(pdu)))
<1>1. Len(s) \in Nat /\ MIN_HEADER_LEN = 4 /\ from # Len(s)
  BY BytesLen DEF MIN_HEADER_LEN
<1>2. CASE Derailed(ss, hs)
  BY <1>2, StaysDerailed DEF Upward
<1>3. CASE OnTrack(s, from, ss, hs)
  <2>1. /\ Len(hs) <= Len(ss) /\ \A i \in 1..Len(hs) : hs[i] = ss[i]
        /\ Chain(Nat, s, from, Len(hs), Len(ss), UpFrames(ss))
    BY <1>3 DEF OnTrack
  <2>2. PICK u \in Seq(Nat) : \E c :
          /\ <<u, Len(hs), c>> \in UpFrames(ss)
          /\ from + Len(u) <= Len(s) /\ u = Part(s, from, from + Len(u))
          /\ Chain(Nat, s, from + Len(u), c, Len(ss), UpFrames(ss))
    BY <1>1, <2>1, ChainFirst DEF Bytes
  <2>3. PICK c :
          /\ <<u, Len(hs), c>> \in UpFrames(ss)
          /\ from + Len(u) <= Len(s) /\ u = Part(s, from, from + Len(u))
          /\ Chain(Nat, s, from + Len(u), c, Len(ss), UpFrames(ss))
    BY <2>2
  <2>4. u \in Bytes /\ c \in Nat /\ Len(hs) \in Nat /\ IsUp(ss, u, Len(hs), c)
    BY <2>3, UpTriples
  <2>5. UpMeans(ss, u, Len(hs), c)
    BY ONLY <2>4, ss \in Seq(Bytes), UpFrameFacts
  <2>6. h[1] = u[1] /\ HeaderLen(h) = HeaderLen(u) /\ PayloadLen(h) = PayloadLen(u)
    BY <1>1, <2>3, <2>4, <2>5, HeaderOfPdu DEF UpMeans
  <2>7. ASSUME Len(u) = HeaderLen(u) + PayloadLen(u)
        PROVE  pdu = u /\ Chain(Nat, s, k, c, Len(ss), UpFrames(ss))
    <3>1. k = from + Len(u)
      BY <2>6, <2>7
    <3>2. QED
      BY <2>3, <3>1
  <2>8. CASE u[1] = ACTION_CREATEREQUEST /\ c = Len(hs) /\ Len(u) = HeaderLen(u) + PayloadLen(u)
    <3>1. OnTrack(s, k, ss, hs)
      BY <2>1, <2>7, <2>8 DEF OnTrack
    <3>2. pdu[1] # ACTION_DATA
      BY <2>6, <2>8 DEF ACTION_CREATEREQUEST, ACTION_DATA
    <3>3. QED
      BY <3>1, <3>2 DEF Upward
  <2>9. CASE u[1] = ACTION_DATA /\ c = Len(hs) + 1 /\ c \in 1..Len(ss)
             /\ (\/ Len(ss[c]) >= LEN_MOD
                 \/ Len(u) = HeaderLen(u) + PayloadLen(u) /\ Body(u) = ss[c])
    <3> DEFINE gs == Append(hs, Body(pdu))
    <3>1. /\ gs \in Seq(Bytes) /\ Len(gs) = c /\ gs[c] = Body(pdu)
          /\ \A i \in 1..Len(hs) : gs[i] = hs[i]
      BY <2>9, AppendProperties
    <3> HIDE DEF gs
    <3>2. \A i \in 1..(c - 1) : gs[i] = ss[i]
      BY <2>1, <2>4, <2>9, <3>1
    <3>3. CASE Len(ss[c]) >= LEN_MOD
      <4>1. c \in 1..Len(ss) /\ c <= Len(gs)
        BY <2>9, <3>1
      <4>2. QED
        <5>1. Derailed(ss, gs)
          BY <3>2, <3>3, <4>1 DEF Derailed
        <5>2. pdu[1] # ACTION_CREATEREQUEST
          BY <2>6, <2>9 DEF ACTION_CREATEREQUEST, ACTION_DATA
        <5>3. QED
          BY <5>1, <5>2 DEF Upward, gs
    <3>4. CASE Len(u) = HeaderLen(u) + PayloadLen(u) /\ Body(u) = ss[c]
      <4>1. pdu = u /\ Chain(Nat, s, k, c, Len(ss), UpFrames(ss))
        BY <2>7, <3>4
      <4>2. gs[c] = ss[c]
        BY <3>1, <3>4, <4>1
      <4>3. Len(gs) <= Len(ss) /\ \A i \in 1..Len(gs) : gs[i] = ss[i]
        <5>1. c \in Nat /\ c <= Len(ss)
          BY <2>4, <2>9, LenProperties
        <5>2. \A i \in 1..c : i = c \/ i \in 1..(c - 1)
          BY ONLY <5>1
        <5>3. \A i \in 1..c : gs[i] = ss[i]
          BY ONLY <3>2, <4>2, <5>2
        <5>4. QED
          BY ONLY <3>1, <5>1, <5>3
      <4>4. OnTrack(s, k, ss, gs)
        BY <3>1, <4>1, <4>3 DEF OnTrack
      <4>5. QED
        BY <2>6, <2>9, <4>4 DEF Upward, gs, ACTION_CREATEREQUEST, ACTION_DATA
    <3>5. QED
      BY <2>9, <3>3, <3>4
  <2>10. QED
    BY <2>5, <2>8, <2>9 DEF UpMeans
<1>4. QED
  BY <1>2, <1>3 DEF Upward

-----------------------------------------------------------------------------
(* Types, and the state of the session's thread *)

\* The bytes read by read_exact.
LEMMA ReadParts ==
  /\ \A t : Next4(t) = Part(down[t], read[t], read[t] + MIN_HEADER_LEN)
  /\ \A t, n : SubSeq(down[t], read[t] + 1, read[t] + n) = Part(down[t], read[t], read[t] + n)
BY DEF Next4, Part

\* What the type invariant says of each tunnel.
LEMMA TypeFacts ==
  ASSUME TypeOK
  PROVE  /\ MaxAttempts \in Nat /\ attempt \in Nat /\ udp \in Nat
         /\ attempt <= MaxAttempts /\ udp <= attempt
         /\ \A t \in Tunnel :
              /\ up[t] \in Bytes /\ Len(up[t]) \in Nat /\ taken[t] \in Nat /\ taken[t] <= Len(up[t])
              /\ down[t] \in Bytes /\ Len(down[t]) \in Nat /\ read[t] \in Nat /\ read[t] <= Len(down[t])
              /\ sent[t] \in Seq(Bytes) /\ heard[t] \in Seq(Bytes)
              /\ told[t] \in Seq(Bytes) /\ got[t] \in Seq(Bytes)
              /\ request[t] \in InitiateRequest
<1>1. /\ attempt \in 0..MaxAttempts /\ udp \in 0..attempt
      /\ request \in [Tunnel -> InitiateRequest]
      /\ up \in [Tunnel -> Bytes] /\ down \in [Tunnel -> Bytes]
      /\ taken \in [Tunnel -> Nat] /\ read \in [Tunnel -> Nat]
      /\ \A t \in Tunnel : taken[t] <= Len(up[t]) /\ read[t] <= Len(down[t])
      /\ sent \in [Tunnel -> Seq(Bytes)] /\ heard \in [Tunnel -> Seq(Bytes)]
      /\ told \in [Tunnel -> Seq(Bytes)] /\ got \in [Tunnel -> Seq(Bytes)]
  BY DEF TypeOK
<1>2. MaxAttempts \in Nat
  BY TunnelAssumption
<1>3. \A b \in Bytes : Len(b) \in Nat
  BY LenProperties DEF Bytes
<1>4. attempt \in Nat /\ udp \in Nat /\ attempt <= MaxAttempts /\ udp <= attempt
  BY <1>1, <1>2
<1>5. QED
  BY <1>1, <1>2, <1>3, <1>4

\* A call that is not over is on one of the tunnels.
LEMMA CurrentTunnel ==
  ASSUME TypeOK, ThreadInv, op # "none"
  PROVE  Current \in Tunnel /\ Current <= attempt
<1>1. op \in {"syn", "establish", "recv_pdu"}
  BY DEF TypeOK
<1>2. CASE op = "recv_pdu"
  <2>1. Current = udp /\ udp # 0
    BY <1>2 DEF ThreadInv, Current, None
  <2>2. QED
    BY <2>1, TypeFacts DEF Tunnel
<1>3. CASE op \in {"syn", "establish"}
  <2>1. Current = attempt /\ udp < attempt
    BY <1>3 DEF ThreadInv, Current
  <2>2. QED
    BY <2>1, TypeFacts DEF Tunnel
<1>4. QED
  BY <1>1, <1>2, <1>3

\* No PDU is half read outside establish and recv_pdu.
LEMMA NoHeader ==
  ASSUME TypeOK, op \notin {"establish", "recv_pdu"}
  PROVE  header = <<>>
BY DEF TypeOK

\* Types stay when only the thread's own words change.
LEMMA ThreadTypes ==
  ASSUME TypeOK, UNCHANGED <<server, down>>, traffic' \in 0..MaxPdus,
         op' \in {"none", "syn", "establish", "recv_pdu"},
         attempt' \in 0..MaxAttempts, udp' \in 0..attempt',
         result' \in {"none", "ok", "no SYN+ACK", "bad HeaderLength", "rejected", "short",
                      "unexpected reply", "io"},
         header' \in Bytes, Len(header') \in {0, MIN_HEADER_LEN},
         header' # <<>> => /\ op' \in {"establish", "recv_pdu"}
                           /\ HeaderLen(header') >= MIN_HEADER_LEN,
         request' \in [Tunnel -> InitiateRequest],
         up' \in [Tunnel -> Bytes], \A t \in Tunnel : Len(up[t]) <= Len(up'[t]),
         read' \in [Tunnel -> Nat], \A t \in Tunnel : read'[t] <= Len(down[t]),
         sent' \in [Tunnel -> Seq(Bytes)], got' \in [Tunnel -> Seq(Bytes)]
  PROVE  TypeOK'
<1>1. \A t \in Tunnel : taken[t] <= Len(up'[t])
  <2> TAKE t \in Tunnel
  <2>1. taken[t] \in Nat /\ Len(up[t]) \in Nat /\ taken[t] <= Len(up[t])
    BY TypeFacts
  <2>2. Len(up'[t]) \in Nat
    <3>1. up'[t] \in Bytes
      OBVIOUS
    <3>2. QED
      BY <3>1, BytesLen
  <2>3. Len(up[t]) <= Len(up'[t])
    OBVIOUS
  <2>4. QED
    BY ONLY <2>1, <2>2, <2>3
<1>2. UNCHANGED <<taken, peer, broken, heard, told, down>>
  BY DEF server
<1>3. QED
  BY <1>1, <1>2 DEF TypeOK

\* An error leaves types as they are.
LEMMA FailTypes ==
  ASSUME TypeOK, UNCHANGED <<server, down, traffic>>, NEW why, Fail(why),
         why \in {"no SYN+ACK", "bad HeaderLength", "rejected", "short", "unexpected reply", "io"},
         read' \in [Tunnel -> Nat], \A t \in Tunnel : read'[t] <= Len(down[t])
  PROVE  TypeOK' /\ ThreadInv'
<1>1. /\ op' = "none" /\ header' = <<>> /\ result' = why
      /\ UNCHANGED <<udp, attempt, request, sent, got, up>>
  BY DEF Fail, Return
<1>2. <<>> \in Bytes /\ Len(<<>>) = 0
  BY EmptySeq DEF Bytes
<1>3. \A t \in Tunnel : Len(up[t]) <= Len(up'[t])
  <2> TAKE t \in Tunnel
  <2>1. up'[t] = up[t] /\ Len(up[t]) \in Nat
    BY <1>1, TypeFacts
  <2>2. QED
    BY ONLY <2>1
<1>4. TypeOK'
  <2>1. /\ attempt' \in 0..MaxAttempts /\ udp' \in 0..attempt' /\ traffic' \in 0..MaxPdus
        /\ request' \in [Tunnel -> InitiateRequest] /\ up' \in [Tunnel -> Bytes]
        /\ sent' \in [Tunnel -> Seq(Bytes)] /\ got' \in [Tunnel -> Seq(Bytes)]
    BY <1>1 DEF TypeOK
  <2>2. QED
    BY <1>1, <1>2, <1>3, <2>1, ThreadTypes
<1>5. QED
  BY <1>1, <1>4 DEF ThreadInv

-----------------------------------------------------------------------------
(***************************************************************************)
(* The inductive invariant.  To the parts that UdpTunnel states it adds    *)
(* that on every tunnel in use or being established the client is at the   *)
(* beginning of a PDU of the server (or at the end of a broken stream),    *)
(* and the server at the beginning of one of the client's.                 *)
(***************************************************************************)
\* Where the PDU begins that the client reads or reads next
Start(t) == IF header # <<>> /\ t = Current THEN read[t] - MIN_HEADER_LEN ELSE read[t]

Reading(t) == t = udp \/ (t = attempt /\ op \in {"syn", "establish"})

DownOK(t, from) ==
  \/ broken[t] /\ from = Len(down[t])
  \/ Downward(down[t], from, Len(got[t]), told[t], peer[t] = "bound")

DownInv == \A t \in Tunnel : Reading(t) => DownOK(t, Start(t))

UpInv == \A t \in Tunnel : Upward(up[t], taken[t], sent[t], heard[t])

IInv ==
  /\ TypeOK /\ ThreadInv /\ FreshInv /\ GotInv /\ OnBoundTunnel
  /\ DownInv /\ UpInv

\* What the client can read at the beginning of a PDU, once it can read a header.
LEMMA HeaderRead ==
  ASSUME IInv, op \in {"establish", "recv_pdu"}, header = <<>>,
         Available(Current) >= MIN_HEADER_LEN
  PROVE  LET t == Current
             h == Next4(t)
         IN  /\ h \in Bytes /\ Len(h) = MIN_HEADER_LEN /\ HeaderLen(h) \in Nat
             /\ read[t] + MIN_HEADER_LEN \in Nat /\ read[t] + MIN_HEADER_LEN <= Len(down[t])
             /\ DownOK(t, read[t])
             /\ BadHeaderLen(h) => DownOK(t, read[t] + MIN_HEADER_LEN)
<1> DEFINE t == Current
           h == Next4(t)
           j == read[t] + MIN_HEADER_LEN
<1>1. TypeOK /\ ThreadInv /\ DownInv
  BY DEF IInv
<1>2. t \in Tunnel
  BY <1>1, CurrentTunnel
<1>3. Reading(t) /\ Start(t) = read[t]
  BY DEF Reading, Start, Current
<1>4. DownOK(t, read[t])
  BY <1>1, <1>2, <1>3 DEF DownInv
<1>5. /\ down[t] \in Bytes /\ Len(down[t]) \in Nat /\ read[t] \in Nat
      /\ told[t] \in Seq(Bytes) /\ got[t] \in Seq(Bytes)
  BY <1>1, <1>2, TypeFacts
<1>6. MIN_HEADER_LEN = 4
  BY DEF MIN_HEADER_LEN
<1>7. Len(down[t]) - read[t] >= MIN_HEADER_LEN
  BY DEF Available
<1>8. h = Part(down[t], read[t], j)
  BY ReadParts
<1> HIDE DEF t, h
<1>9. j \in Nat /\ j <= Len(down[t]) /\ j \in read[t]..Len(down[t]) /\ j - read[t] = 4
      /\ read[t] # Len(down[t])
  BY ONLY <1>5, <1>6, <1>7
<1>10. h \in Bytes /\ Len(h) = 4
  BY ONLY <1>5, <1>8, <1>9, BytesPart
<1>11. HeaderLen(h) \in Nat
  BY <1>6, <1>10, HeaderNumbers
<1>12. Downward(down[t], read[t], Len(got[t]), told[t], peer[t] = "bound")
  BY <1>4, <1>9 DEF DownOK
<1>13. Len(got[t]) \in Nat
  BY <1>5, LenProperties
<1>14. BadHeaderLen(h) => Downward(down[t], j, Len(got[t]), told[t], peer[t] = "bound")
  BY ONLY <1>5, <1>8, <1>9, <1>12, <1>13, DownRead
<1>15. BadHeaderLen(h) => DownOK(t, j)
  BY <1>14 DEF DownOK
<1>16. QED
  BY <1>4, <1>6, <1>9, <1>10, <1>11, <1>15 DEF t, h

\* What the client makes of a PDU it has read whole.
LEMMA RestRead ==
  ASSUME IInv, header # <<>>, Available(Current) >= RestLen(header)
  PROVE  LET t   == Current
             n   == Len(got[t])
             k   == read[t] + RestLen(header)
             pdu == header \o SubSeq(down[t], read[t] + 1, k)
         IN  /\ t \in Tunnel /\ k \in Nat /\ k <= Len(down[t]) /\ Body(pdu) \in Bytes
             /\ IsData(pdu) =>
                  /\ n + 1 <= Len(told[t]) /\ Body(pdu) = told[t][n + 1]
                  /\ Downward(down[t], k, n + 1, told[t], peer[t] = "bound")
             /\ ~IsData(pdu) => DownOK(t, k)
             /\ Accepts(pdu) => peer[t] = "bound"
<1> DEFINE t   == Current
           n   == Len(got[t])
           i   == read[t] - MIN_HEADER_LEN
           k   == read[t] + RestLen(header)
           pdu == header \o SubSeq(down[t], read[t] + 1, k)
<1>1. TypeOK /\ ThreadInv /\ DownInv
  BY DEF IInv
<1>2. op \in {"establish", "recv_pdu"} /\ HeaderLen(header) >= MIN_HEADER_LEN
      /\ header \in Bytes /\ Len(header) = MIN_HEADER_LEN
  <2>1. header \in Bytes /\ Len(header) \in {0, MIN_HEADER_LEN} /\ op \in {"establish", "recv_pdu"}
        /\ HeaderLen(header) >= MIN_HEADER_LEN
    BY <1>1 DEF TypeOK
  <2>2. Len(header) # 0
    BY <2>1, EmptySeq DEF Bytes
  <2>3. QED
    BY <2>1, <2>2
<1>3. t \in Tunnel
  BY <1>1, <1>2, CurrentTunnel
<1>4. Reading(t) /\ Start(t) = i
  BY <1>2 DEF Reading, Start, Current
<1>5. DownOK(t, i)
  BY <1>1, <1>3, <1>4 DEF DownInv
<1>6. /\ down[t] \in Bytes /\ Len(down[t]) \in Nat /\ read[t] \in Nat /\ read[t] <= Len(down[t])
      /\ told[t] \in Seq(Bytes) /\ got[t] \in Seq(Bytes)
  BY <1>1, <1>3, TypeFacts
<1>7. read[t] >= MIN_HEADER_LEN /\ header = Part(down[t], i, read[t])
  BY <1>1 DEF ThreadInv, Part
<1>8. MIN_HEADER_LEN = 4 /\ n \in Nat
  BY <1>6, LenProperties DEF MIN_HEADER_LEN
<1>9. HeaderLen(header) \in Nat /\ PayloadLen(header) \in Nat
  BY <1>2, <1>8, HeaderNumbers
<1>10. RestLen(header) = HeaderLen(header) - 4 + PayloadLen(header)
  BY <1>8 DEF RestLen
<1>11. Len(down[t]) - read[t] >= RestLen(header)
  BY DEF Available
<1>12. pdu = header \o Part(down[t], read[t], k)
  BY DEF Part
<1> DEFINE s == down[t]
           from == read[t]
<1> HIDE DEF t, n, pdu, s, from
<1>13. /\ i \in Nat /\ from = i + 4 /\ i # Len(s) /\ k \in Nat /\ k <= Len(s)
       /\ k = i + (HeaderLen(header) + PayloadLen(header))
       /\ RestLen(header) \in Nat /\ HeaderLen(header) >= 4
  <2> DEFINE R == RestLen(header)
             H == HeaderLen(header)
             P == PayloadLen(header)
             L == Len(s)
  <2>1. /\ from \in Nat /\ from >= 4 /\ from <= L /\ L \in Nat /\ H \in Nat /\ H >= 4 /\ P \in Nat
        /\ R = H - 4 + P /\ L - from >= R /\ i = from - 4 /\ k = from + R
    BY <1>2, <1>6, <1>7, <1>8, <1>9, <1>10, <1>11 DEF s, from
  <2> HIDE DEF R, H, P, L, i, k
  <2>2. i \in Nat /\ from = i + 4 /\ i # L /\ k \in Nat /\ k <= L /\ k = i + (H + P) /\ R \in Nat
    BY ONLY <2>1
  <2>3. QED
    BY <2>1, <2>2 DEF R, H, P, L
<1> HIDE DEF i, k
<1>14. k = from + RestLen(header)
  BY DEF k, from
<1>15. s \in Bytes /\ from \in Nat /\ from <= Len(s) /\ header = Part(s, i, from)
       /\ pdu = header \o Part(s, from, k) /\ told[t] \in Seq(Bytes)
  BY <1>6, <1>7, <1>12 DEF s, from
<1>16. /\ pdu \in Bytes /\ pdu = Part(s, i, k)
       /\ Len(pdu) = HeaderLen(pdu) + PayloadLen(pdu)
       /\ HeaderLen(pdu) \in Nat /\ PayloadLen(pdu) \in Nat
  <2>1. i \in Nat /\ from = i + MIN_HEADER_LEN /\ HeaderLen(header) >= MIN_HEADER_LEN
        /\ k \in Nat /\ k <= Len(s)
    BY <1>8, <1>13
  <2>2. WholePdu(s, i, k, pdu)
    BY ONLY <1>14, <1>15, <2>1, TwoReads
  <2>3. QED
    BY <2>2 DEF WholePdu
<1>17. Body(pdu) \in Bytes
  BY ONLY <1>16, BodyBytes
<1>18. Downward(s, i, n, told[t], peer[t] = "bound")
  BY <1>5, <1>13 DEF DownOK, s, n
<1>19. ~BadHeaderLen(header)
  BY <1>8, <1>9, <1>13 DEF BadHeaderLen
<1>20. /\ IsData(pdu) => /\ n + 1 <= Len(told[t]) /\ Body(pdu) = told[t][n + 1]
                         /\ Downward(s, k, n + 1, told[t], peer[t] = "bound")
       /\ ~IsData(pdu) => Downward(s, k, n, told[t], peer[t] = "bound")
       /\ Accepts(pdu) => peer[t] = "bound"
  <2>1. header = Part(s, i, i + MIN_HEADER_LEN) /\ i + MIN_HEADER_LEN <= Len(s)
    BY <1>8, <1>13, <1>15
  <2>2. i \in Nat /\ s \in Bytes /\ n \in Nat /\ told[t] \in Seq(Bytes)
    BY <1>8, <1>13, <1>15
  <2>3. LET k1 == i + (HeaderLen(header) + PayloadLen(header))
        IN  ReadsOn(s, n, told[t], peer[t] = "bound", k1, Part(s, i, k1))
    BY ONLY <1>18, <1>19, <2>1, <2>2, DownRead
  <2>4. k = i + (HeaderLen(header) + PayloadLen(header)) /\ pdu = Part(s, i, k)
    BY <1>13, <1>16
  <2>5. ReadsOn(s, n, told[t], peer[t] = "bound", k, pdu)
    BY ONLY <2>3, <2>4
  <2>6. QED
    BY <2>5 DEF ReadsOn
<1>21. ~IsData(pdu) => DownOK(t, k)
  BY <1>20 DEF DownOK, s, n
<1>22. QED
  BY <1>3, <1>13, <1>17, <1>20, <1>21 DEF t, n, i, k, pdu, s, from

-----------------------------------------------------------------------------
(* The steps of the session's thread *)

\* A step that leaves the streams and the PDUs alone keeps what is known of them.
LEMMA Untouched ==
  ASSUME IInv, UNCHANGED <<server, down, udp, sent, got, up>>, attempt' \in Nat, attempt <= attempt'
  PROVE  FreshInv' /\ GotInv' /\ UpInv' /\ OnBoundTunnel'
<1>1. UNCHANGED <<taken, peer, broken, heard, told, down, udp, sent, got, up>>
  BY DEF server
<1>2. attempt \in Nat
  BY TypeFacts DEF IInv
<1>3. FreshInv'
  <2>1. \A t \in Tunnel : t > attempt' => t > attempt
    BY <1>2 DEF Tunnel
  <2>2. QED
    BY <1>1, <2>1 DEF IInv, FreshInv
<1>4. GotInv' /\ UpInv' /\ OnBoundTunnel'
  BY <1>1 DEF IInv, GotInv, UpInv, OnBoundTunnel
<1>5. QED
  BY <1>3, <1>4

\* A call that fails keeps the invariant, if the session's tunnel is left at the
\* beginning of a PDU.
LEMMA FailStep ==
  ASSUME IInv, UNCHANGED <<server, down, traffic>>, NEW why, Fail(why), op # "none",
         why \in {"no SYN+ACK", "bad HeaderLength", "rejected", "short", "unexpected reply", "io"},
         NEW n \in Nat, n <= Len(down[Current]), read' = [read EXCEPT ![Current] = n],
         op = "recv_pdu" => DownOK(Current, n)
  PROVE  IInv'
<1>1. TypeOK /\ ThreadInv /\ DownInv
  BY DEF IInv
<1>2. Current \in Tunnel
  BY <1>1, CurrentTunnel
<1>3. /\ op' = "none" /\ header' = <<>>
      /\ UNCHANGED <<udp, attempt, request, sent, got, up>>
      /\ UNCHANGED <<taken, peer, broken, heard, told>>
  BY DEF Fail, Return, server
<1>4. read \in [Tunnel -> Nat]
  BY <1>1 DEF TypeOK
<1>5. read' \in [Tunnel -> Nat] /\ \A t \in Tunnel : read'[t] = IF t = Current THEN n ELSE read[t]
  BY <1>2, <1>4
<1>6. \A t \in Tunnel : read'[t] <= Len(down[t])
  BY <1>1, <1>5, TypeFacts
<1>7. TypeOK' /\ ThreadInv'
  BY <1>1, <1>5, <1>6, FailTypes
<1>8. FreshInv' /\ GotInv' /\ UpInv' /\ OnBoundTunnel'
  <2>1. attempt' \in Nat /\ attempt <= attempt'
    <3>1. attempt \in Nat /\ attempt' = attempt
      BY <1>1, <1>3, TypeFacts
    <3>2. QED
      BY ONLY <3>1
  <2>2. UNCHANGED <<server, down, udp, sent, got, up>>
    BY <1>3
  <2>3. QED
    BY ONLY IInv, <2>1, <2>2, Untouched
<1>9. DownInv'
  <2> SUFFICES ASSUME NEW t \in Tunnel, Reading(t)' PROVE DownOK(t, Start(t))'
    BY DEF DownInv
  <2>1. t = udp /\ Start(t)' = read'[t]
    BY <1>3 DEF Reading, Start
  <2>2. DownOK(t, read'[t])
    <3>1. CASE op = "recv_pdu"
      BY <1>5, <2>1, <3>1 DEF Current
    <3>2. CASE op # "recv_pdu"
      <4>1. Current = attempt /\ udp < attempt
        BY <1>1, <3>2 DEF Current, ThreadInv, TypeOK
      <4>2. udp # Current
        <5>1. udp \in Nat /\ attempt \in Nat
          BY <1>1, TypeFacts
        <5>2. QED
          BY ONLY <4>1, <5>1
      <4>3. read'[t] = read[t] /\ Start(t) = read[t] /\ Reading(t)
        BY <1>5, <2>1, <4>2 DEF Start, Reading
      <4>4. QED
        BY <1>1, <4>3 DEF DownInv
    <3>3. QED
      BY <3>1, <3>2
  <2>3. QED
    BY <1>3, <2>1, <2>2 DEF DownOK
<1>10. QED
  BY <1>7, <1>8, <1>9 DEF IInv

\* transport.establish gives up.
LEMMA SynTimeoutStep ==
  ASSUME IInv, syn_timeout, UNCHANGED <<server, down, traffic>>
  PROVE  IInv'
<1>1. op = "syn" /\ Fail("no SYN+ACK") /\ read' = read
  BY DEF syn_timeout
<1>2. Current \in Tunnel /\ read \in [Tunnel -> Nat]
  BY <1>1, CurrentTunnel DEF IInv, TypeOK
<1>3. read[Current] \in Nat /\ read[Current] <= Len(down[Current])
  BY <1>2, TypeFacts DEF IInv
<1>4. read' = [read EXCEPT ![Current] = read[Current]]
  BY <1>1, <1>2
<1>5. op # "none" /\ op # "recv_pdu"
  BY <1>1
<1>6. "no SYN+ACK" \in {"no SYN+ACK", "bad HeaderLength", "rejected", "short", "unexpected reply", "io"}
  OBVIOUS
<1>7. QED
  BY <1>1, <1>3, <1>4, <1>5, <1>6, FailStep

\* The connection is lost.
LEMMA IoErrorStep ==
  ASSUME IInv, io_error, UNCHANGED <<server, down, traffic>>
  PROVE  IInv'
<1>1. /\ op # "none" /\ broken[Current] /\ Fail("io")
      /\ read' = [read EXCEPT ![Current] = Len(down[Current])]
  BY DEF io_error
<1>2. Current \in Tunnel
  BY <1>1, CurrentTunnel DEF IInv
<1>3. Len(down[Current]) \in Nat
  BY <1>2, TypeFacts DEF IInv
<1>4. Len(down[Current]) <= Len(down[Current])
  BY ONLY <1>3
<1>5. DownOK(Current, Len(down[Current]))
  BY <1>1 DEF DownOK
<1>6. "io" \in {"no SYN+ACK", "bad HeaderLength", "rejected", "short", "unexpected reply", "io"}
  OBVIOUS
<1>7. QED
  BY <1>1, <1>3, <1>4, <1>5, <1>6, FailStep

\* The first read of a PDU.
LEMMA HeaderStep ==
  ASSUME IInv, read_tunnel_header, UNCHANGED <<server, down, traffic>>
  PROVE  IInv'
<1> DEFINE t == Current
           h == Next4(t)
           j == read[t] + MIN_HEADER_LEN
<1>1. /\ op \in {"establish", "recv_pdu"} /\ header = <<>> /\ Available(t) >= MIN_HEADER_LEN
      /\ read' = [read EXCEPT ![t] = j]
  BY DEF read_tunnel_header
<1>2. TypeOK /\ ThreadInv /\ DownInv
  BY DEF IInv
<1>3. /\ h \in Bytes /\ Len(h) = MIN_HEADER_LEN /\ HeaderLen(h) \in Nat
      /\ j \in Nat /\ j <= Len(down[t]) /\ DownOK(t, read[t])
      /\ BadHeaderLen(h) => DownOK(t, j)
  BY <1>1, HeaderRead
<1>4. t \in Tunnel /\ read \in [Tunnel -> Nat]
  BY <1>1, <1>2, CurrentTunnel DEF TypeOK
<1>5. CASE BadHeaderLen(h) /\ Fail("bad HeaderLength")
  <2>1. /\ op # "none"
        /\ "bad HeaderLength" \in {"no SYN+ACK", "bad HeaderLength", "rejected", "short",
                                   "unexpected reply", "io"}
    BY <1>1
  <2> HIDE DEF h, j
  <2>2. QED
    BY <1>1, <1>3, <1>5, <2>1, FailStep
<1>6. CASE /\ ~BadHeaderLen(h) /\ header' = h
           /\ UNCHANGED <<op, attempt, udp, result, request, sent, got, up>>
  <2>1. read[t] \in Nat /\ MIN_HEADER_LEN = 4
    BY <1>2, <1>4, TypeFacts DEF MIN_HEADER_LEN
  <2>2. h = SubSeq(down[t], j - MIN_HEADER_LEN + 1, j) /\ j >= MIN_HEADER_LEN
        /\ j - MIN_HEADER_LEN = read[t]
    <3>1. h = SubSeq(down[t], read[t] + 1, j)
      BY DEF Next4
    <3>2. j - MIN_HEADER_LEN + 1 = read[t] + 1 /\ j >= MIN_HEADER_LEN
          /\ j - MIN_HEADER_LEN = read[t]
      BY ONLY <2>1
    <3>3. QED
      BY <3>1, <3>2
  <2>3. HeaderLen(h) >= MIN_HEADER_LEN
    BY <1>3, <1>6, <2>1 DEF BadHeaderLen
  <2> HIDE DEF h, j, t
  <2>4. read' \in [Tunnel -> Nat] /\ \A x \in Tunnel : read'[x] = IF x = t THEN j ELSE read[x]
    BY <1>1, <1>3, <1>4
  <2>5. t = Current /\ Current' = t
    BY <1>6 DEF t, Current
  <2>6. TypeOK'
    <3>1. \A x \in Tunnel : read'[x] <= Len(down[x])
      BY <1>2, <1>3, <2>4, TypeFacts
    <3>2. \A x \in Tunnel : Len(up[x]) <= Len(up'[x])
      <4> TAKE x \in Tunnel
      <4>1. up'[x] = up[x] /\ Len(up[x]) \in Nat
        BY <1>2, <1>6, TypeFacts
      <4>2. QED
        BY ONLY <4>1
    <3>3. header' \in Bytes /\ Len(header') \in {0, MIN_HEADER_LEN}
          /\ HeaderLen(header') >= MIN_HEADER_LEN /\ op' \in {"establish", "recv_pdu"}
      BY <1>1, <1>3, <1>6, <2>3
    <3>4. /\ attempt' \in 0..MaxAttempts /\ udp' \in 0..attempt' /\ traffic' \in 0..MaxPdus
          /\ request' \in [Tunnel -> InitiateRequest] /\ up' \in [Tunnel -> Bytes]
          /\ sent' \in [Tunnel -> Seq(Bytes)] /\ got' \in [Tunnel -> Seq(Bytes)]
          /\ op' \in {"none", "syn", "establish", "recv_pdu"}
          /\ result' \in {"none", "ok", "no SYN+ACK", "bad HeaderLength", "rejected", "short",
                          "unexpected reply", "io"}
      BY <1>2, <1>6 DEF TypeOK
    <3>5. QED
      BY <1>2, <2>4, <3>1, <3>2, <3>3, <3>4, ThreadTypes
  <2>7. ThreadInv'
    <3>1. read'[t] = j
      BY <1>4, <2>4
    <3>2. /\ (op \in {"syn", "establish"} => udp < attempt)'
          /\ (op = "recv_pdu" => udp # None)'
      BY <1>2, <1>6 DEF ThreadInv
    <3>3. (read[Current] >= MIN_HEADER_LEN
           /\ header = SubSeq(down[Current], read[Current] - MIN_HEADER_LEN + 1, read[Current]))'
      BY <1>6, <2>2, <2>5, <3>1
    <3>4. QED
      BY <3>2, <3>3 DEF ThreadInv
  <2>8. FreshInv' /\ GotInv' /\ UpInv' /\ OnBoundTunnel'
    <3>1. attempt \in Nat /\ attempt' = attempt
      BY <1>2, <1>6, TypeFacts
    <3>2. attempt' \in Nat /\ attempt <= attempt'
      BY ONLY <3>1
    <3>3. UNCHANGED <<server, down, udp, sent, got, up>>
      BY <1>6
    <3>4. QED
      BY ONLY IInv, <3>2, <3>3, Untouched
  <2>9. DownInv'
    <3> SUFFICES ASSUME NEW x \in Tunnel, Reading(x)' PROVE DownOK(x, Start(x))'
      BY DEF DownInv
    <3>1. Reading(x) /\ Start(x) = read[x]
      BY <1>1, <1>6 DEF Reading, Start
    <3>2. Start(x)' = read[x]
      <4>1. CASE x = t
        <5>2. header' # <<>>
          <6>1. Len(h) # 0
            BY <1>3, <2>1
          <6>2. h # <<>>
            BY <6>1, EmptySeq
          <6>3. QED
            BY <1>6, <6>2
        <5>3. Start(x)' = read'[x] - MIN_HEADER_LEN
          BY <2>5, <4>1, <5>2 DEF Start
        <5>4. QED
          BY <1>4, <2>2, <2>4, <4>1, <5>3
      <4>2. CASE x # t
        BY <2>4, <2>5, <4>2 DEF Start
      <4>3. QED
        BY <4>1, <4>2
    <3>3. DownOK(x, read[x])
      BY <1>2, <3>1 DEF DownInv
    <3>4. UNCHANGED <<down, broken, got, told, peer>>
      BY <1>6 DEF server
    <3>5. QED
      BY <3>2, <3>3, <3>4 DEF DownOK
  <2>10. QED
    BY <2>6, <2>7, <2>8, <2>9 DEF IInv
<1>7. QED
  BY <1>5, <1>6 DEF read_tunnel_header

\* A call that returns successfully has types.
LEMMA ReturnTypes ==
  ASSUME TypeOK, UNCHANGED <<server, down, traffic>>, Return("ok"),
         UNCHANGED <<attempt, request, sent, up>>, udp' \in {udp, attempt},
         read' \in [Tunnel -> Nat], \A t \in Tunnel : read'[t] <= Len(down[t]),
         got' \in [Tunnel -> Seq(Bytes)]
  PROVE  TypeOK' /\ ThreadInv'
<1>1. /\ op' = "none" /\ header' = <<>> /\ result' = "ok"
      /\ UNCHANGED <<attempt, request, sent, up>>
  BY DEF Return
<1>2. <<>> \in Bytes /\ Len(<<>>) = 0
  BY EmptySeq DEF Bytes
<1>3. \A t \in Tunnel : Len(up[t]) <= Len(up'[t])
  <2> TAKE t \in Tunnel
  <2>1. up'[t] = up[t] /\ Len(up[t]) \in Nat
    BY <1>1, TypeFacts
  <2>2. QED
    BY ONLY <2>1
<1>4. TypeOK'
  <2>1. udp' \in 0..attempt'
    <3>1. attempt \in Nat /\ udp \in Nat /\ udp <= attempt /\ attempt' = attempt
          /\ udp' \in {udp, attempt}
      BY <1>1, TypeFacts
    <3>2. QED
      BY ONLY <3>1
  <2>2. /\ attempt' \in 0..MaxAttempts /\ traffic' \in 0..MaxPdus
        /\ request' \in [Tunnel -> InitiateRequest] /\ up' \in [Tunnel -> Bytes]
        /\ sent' \in [Tunnel -> Seq(Bytes)]
    BY <1>1 DEF TypeOK
  <2>3. QED
    BY <1>1, <1>2, <1>3, <2>1, <2>2, ThreadTypes
<1>5. QED
  BY <1>1, <1>4 DEF ThreadInv

\* The server has answered the Create Request.
LEMMA CreateReplyStep ==
  ASSUME IInv, op = "establish", NEW pdu, CreateReply(pdu), UNCHANGED <<server, down, traffic>>,
         NEW k \in Nat, k <= Len(down[Current]), read' = [read EXCEPT ![Current] = k],
         ~IsData(pdu) => DownOK(Current, k), Accepts(pdu) => peer[Current] = "bound"
  PROVE  IInv'
<1>1. TypeOK /\ ThreadInv /\ DownInv
  BY DEF IInv
<1>2. Current = attempt /\ attempt \in Tunnel
  <2>1. Current \in Tunnel
    BY <1>1, CurrentTunnel
  <2>2. QED
    BY <2>1 DEF Current
<1>3. ASSUME NEW why \in {"rejected", "short", "unexpected reply"}, Fail(why)
      PROVE  IInv'
  <2>1. /\ op # "none" /\ op # "recv_pdu"
        /\ why \in {"no SYN+ACK", "bad HeaderLength", "rejected", "short", "unexpected reply", "io"}
    BY <1>3
  <2>2. QED
    BY <1>3, <2>1, FailStep
<1>4. CASE /\ Accepts(pdu)
           /\ Return("ok") /\ udp' = attempt
           /\ UNCHANGED <<attempt, request, sent, got, up>>
  <2>1. /\ op' = "none" /\ header' = <<>> /\ udp' = attempt
        /\ UNCHANGED <<attempt, request, sent, got, up>>
        /\ UNCHANGED <<taken, peer, broken, heard, told>>
    BY <1>4 DEF Return, server
  <2>2. read' \in [Tunnel -> Nat] /\ \A t \in Tunnel : read'[t] = IF t = attempt THEN k ELSE read[t]
    BY <1>1, <1>2 DEF TypeOK
  <2>3. \A t \in Tunnel : read'[t] <= Len(down[t])
    BY <1>1, <1>2, <2>2, TypeFacts
  <2>4. TypeOK' /\ ThreadInv'
    <3>1. udp' \in {udp, attempt} /\ got' \in [Tunnel -> Seq(Bytes)]
      BY <1>1, <2>1 DEF TypeOK
    <3>2. QED
      BY <1>1, <1>4, <2>2, <2>3, <3>1, ReturnTypes
  <2>5. FreshInv' /\ GotInv' /\ UpInv'
    BY <2>1 DEF IInv, FreshInv, GotInv, UpInv
  <2>6. OnBoundTunnel'
    <3>1. peer[attempt] = "bound"
      BY <1>2, <1>4
    <3>2. QED
      BY <2>1, <3>1 DEF IInv, OnBoundTunnel
  <2>7. DownInv'
    <3> SUFFICES ASSUME NEW t \in Tunnel, Reading(t)' PROVE DownOK(t, Start(t))'
      BY DEF DownInv
    <3>1. t = attempt /\ Start(t)' = k
      BY <1>2, <2>1, <2>2 DEF Reading, Start
    <3>2. ~IsData(pdu)
      BY <1>4 DEF Accepts, IsCreateResponse, IsData, ACTION_DATA, ACTION_CREATERESPONSE
    <3>3. DownOK(t, k)
      BY <1>2, <3>1, <3>2
    <3>4. QED
      BY <2>1, <3>1, <3>3 DEF DownOK
  <2>8. QED
    BY <2>4, <2>5, <2>6, <2>7 DEF IInv
<1>5. QED
  BY <1>3, <1>4 DEF CreateReply

\* The next item of a sequence makes a longer beginning of it.
LEMMA LongerPrefix ==
  ASSUME NEW ts \in Seq(Bytes), NEW gs \in Seq(Bytes), Len(gs) + 1 <= Len(ts),
         \A i \in 1..Len(gs) : gs[i] = ts[i],
         NEW b \in Bytes, b = ts[Len(gs) + 1]
  PROVE  LET us == Append(gs, b)
         IN  /\ us \in Seq(Bytes) /\ Len(us) = Len(gs) + 1 /\ Len(us) <= Len(ts)
             /\ \A i \in 1..Len(us) : us[i] = ts[i]
             /\ us = SubSeq(ts, 1, Len(gs) + 1)
<1> DEFINE n == Len(gs)
           us == Append(gs, b)
           p == Part(ts, 0, n + 1)
<1>1. n \in Nat /\ Len(ts) \in Nat
  BY LenProperties
<1>2. /\ us \in Seq(Bytes) /\ Len(us) = n + 1 /\ us[n + 1] = b
      /\ \A i \in 1..n : us[i] = gs[i]
  BY AppendProperties
<1> HIDE DEF n, us
<1>3. \A i \in 1..(n + 1) : i = n + 1 \/ i \in 1..n
  BY ONLY <1>1
<1>4. \A i \in 1..(n + 1) : us[i] = ts[i]
  BY <1>2, <1>3 DEF n
<1>5. n + 1 \in 0..Len(ts) /\ (n + 1) - 0 = n + 1 /\ 0 \in Nat
  BY <1>1 DEF n
<1>6. p \in Seq(Bytes) /\ Len(p) = n + 1 /\ \A i \in 1..(n + 1) : p[i] = ts[0 + i]
  <2>1. p \in Seq(Bytes) /\ Len(p) = (n + 1) - 0 /\ \A i \in 1..((n + 1) - 0) : p[i] = ts[0 + i]
    BY ONLY <1>5, ts \in Seq(Bytes), PartFacts
  <2>2. QED
    BY <1>5, <2>1
<1>7. p = SubSeq(ts, 1, n + 1)
  BY DEF Part
<1> HIDE DEF p
<1>8. \A i \in 1..Len(us) : us[i] = p[i]
  <2>1. \A i \in 1..(n + 1) : 0 + i = i
    BY ONLY <1>1
  <2>2. QED
    BY <1>2, <1>4, <1>6, <2>1
<1>9. us = p
  BY <1>2, <1>6, <1>8, SeqEqual
<1>10. QED
  BY <1>2, <1>4, <1>7, <1>9 DEF n, us

\* recv_pdu has read a PDU.
LEMMA TunnelPduStep ==
  ASSUME IInv, op = "recv_pdu", NEW pdu, TunnelPdu(pdu), UNCHANGED <<server, down, traffic>>,
         NEW k \in Nat, k <= Len(down[Current]), read' = [read EXCEPT ![Current] = k],
         Body(pdu) \in Bytes,
         IsData(pdu) => /\ Len(got[Current]) + 1 <= Len(told[Current])
                        /\ Body(pdu) = told[Current][Len(got[Current]) + 1]
                        /\ Downward(down[Current], k, Len(got[Current]) + 1, told[Current],
                                    peer[Current] = "bound"),
         ~IsData(pdu) => DownOK(Current, k)
  PROVE  IInv'
<1>1. TypeOK /\ ThreadInv /\ DownInv /\ GotInv
  BY DEF IInv
<1>2. Current = udp /\ udp \in Tunnel /\ udp <= attempt
  <2>1. Current \in Tunnel /\ Current <= attempt
    BY <1>1, CurrentTunnel
  <2>2. QED
    BY <2>1 DEF Current
<1>3. read' \in [Tunnel -> Nat] /\ \A t \in Tunnel : read'[t] = IF t = udp THEN k ELSE read[t]
  BY <1>1, <1>2 DEF TypeOK
<1>4. \A t \in Tunnel : read'[t] <= Len(down[t])
  BY <1>1, <1>2, <1>3, TypeFacts
<1>5. UNCHANGED <<taken, peer, broken, heard, told, down>>
  BY DEF server
<1>6. CASE /\ IsData(pdu)
           /\ got' = [got EXCEPT ![udp] = Append(@, Body(pdu))]
           /\ Return("ok")
           /\ UNCHANGED <<udp, attempt, request, sent, up>>
  <2> DEFINE us == Append(got[udp], Body(pdu))
  <2>1. got[udp] \in Seq(Bytes) /\ told[udp] \in Seq(Bytes) /\ got \in [Tunnel -> Seq(Bytes)]
    BY <1>1, <1>2, TypeFacts DEF TypeOK
  <2>2. /\ Len(got[udp]) + 1 <= Len(told[udp]) /\ Body(pdu) = told[udp][Len(got[udp]) + 1]
        /\ \A i \in 1..Len(got[udp]) : got[udp][i] = told[udp][i]
    BY <1>1, <1>2, <1>6 DEF GotInv
  <2>3. /\ us \in Seq(Bytes) /\ Len(us) = Len(got[udp]) + 1 /\ Len(us) <= Len(told[udp])
        /\ \A i \in 1..Len(us) : us[i] = told[udp][i]
    BY ONLY <2>1, <2>2, Body(pdu) \in Bytes, LongerPrefix
  <2> HIDE DEF us
  <2>4. /\ got' \in [Tunnel -> Seq(Bytes)]
        /\ \A t \in Tunnel : got'[t] = IF t = udp THEN us ELSE got[t]
    BY <1>2, <1>6, <2>1, <2>3 DEF us
  <2>5. op' = "none" /\ header' = <<>>
    BY <1>6 DEF Return
  <2>6. TypeOK' /\ ThreadInv'
    <3>1. udp' \in {udp, attempt}
      BY <1>6
    <3>2. QED
      BY <1>1, <1>3, <1>4, <1>6, <2>4, <3>1, ReturnTypes
  <2>7. UpInv' /\ OnBoundTunnel'
    BY <1>5, <1>6 DEF IInv, UpInv, OnBoundTunnel
  <2>8. FreshInv'
    <3> SUFFICES ASSUME NEW t \in Tunnel, t > attempt
                 PROVE  /\ up[t] = <<>> /\ down[t] = <<>> /\ got'[t] = <<>>
                        /\ sent[t] = <<>> /\ heard[t] = <<>> /\ told[t] = <<>>
      BY <1>5, <1>6 DEF FreshInv
    <3>1. t # udp
      BY <1>1, <1>2, TypeFacts DEF Tunnel
    <3>2. QED
      BY <2>4, <3>1 DEF IInv, FreshInv
  <2>9. GotInv'
    <3> SUFFICES ASSUME NEW t \in Tunnel
                 PROVE  /\ Len(got'[t]) <= Len(told[t])
                        /\ \A i \in 1..Len(got'[t]) : got'[t][i] = told[t][i]
      BY <1>5 DEF GotInv
    <3>1. CASE t = udp
      BY <2>3, <2>4, <3>1
    <3>2. CASE t # udp
      BY <1>1, <2>4, <3>2 DEF GotInv
    <3>3. QED
      BY <3>1, <3>2
  <2>10. DownInv'
    <3> SUFFICES ASSUME NEW t \in Tunnel, Reading(t)' PROVE DownOK(t, Start(t))'
      BY DEF DownInv
    <3>1. t = udp /\ Start(t)' = k
      BY <1>3, <1>6, <2>5 DEF Reading, Start
    <3>2. Len(got'[t]) = Len(got[udp]) + 1
      BY <2>3, <2>4, <3>1
    <3>3. Downward(down[udp], k, Len(got[udp]) + 1, told[udp], peer[udp] = "bound")
      BY <1>2, <1>6
    <3>4. QED
      BY <1>5, <3>1, <3>2, <3>3 DEF DownOK
  <2>11. QED
    BY <2>6, <2>7, <2>8, <2>9, <2>10 DEF IInv
<1>7. CASE Short(pdu) /\ Fail("short")
  <2>1. ~IsData(pdu)
    BY <1>7 DEF Short, IsCreateResponse, IsData, ACTION_DATA, ACTION_CREATERESPONSE
  <2>2. /\ op # "none"
        /\ "short" \in {"no SYN+ACK", "bad HeaderLength", "rejected", "short",
                        "unexpected reply", "io"}
    OBVIOUS
  <2>3. QED
    BY <1>7, <2>1, <2>2, FailStep
<1>8. CASE /\ ~IsData(pdu) /\ header' = <<>>
           /\ UNCHANGED <<op, attempt, udp, result, request, sent, got, up>>
  <2>1. TypeOK'
    <3>1. \A t \in Tunnel : Len(up[t]) <= Len(up'[t])
      <4> TAKE t \in Tunnel
      <4>1. up'[t] = up[t] /\ Len(up[t]) \in Nat
        BY <1>1, <1>8, TypeFacts
      <4>2. QED
        BY ONLY <4>1
    <3>2. header' = <<>> /\ <<>> \in Bytes /\ Len(<<>>) = 0
      BY <1>8, EmptySeq DEF Bytes
    <3>3. header' \in Bytes /\ Len(header') \in {0, MIN_HEADER_LEN}
      BY <3>2
    <3>4. /\ attempt' \in 0..MaxAttempts /\ udp' \in 0..attempt' /\ traffic' \in 0..MaxPdus
          /\ request' \in [Tunnel -> InitiateRequest] /\ up' \in [Tunnel -> Bytes]
          /\ sent' \in [Tunnel -> Seq(Bytes)] /\ got' \in [Tunnel -> Seq(Bytes)]
          /\ op' \in {"none", "syn", "establish", "recv_pdu"}
          /\ result' \in {"none", "ok", "no SYN+ACK", "bad HeaderLength", "rejected", "short",
                          "unexpected reply", "io"}
      BY <1>1, <1>8 DEF TypeOK
    <3>5. QED
      BY <1>1, <1>3, <1>4, <3>1, <3>2, <3>3, <3>4, ThreadTypes
  <2>2. ThreadInv'
    BY <1>1, <1>8 DEF ThreadInv
  <2>3. FreshInv' /\ GotInv' /\ UpInv' /\ OnBoundTunnel'
    BY <1>5, <1>8 DEF IInv, FreshInv, GotInv, UpInv, OnBoundTunnel
  <2>4. DownInv'
    <3> SUFFICES ASSUME NEW t \in Tunnel, Reading(t)' PROVE DownOK(t, Start(t))'
      BY DEF DownInv
    <3>1. t = udp /\ Start(t)' = k
      BY <1>3, <1>8 DEF Reading, Start
    <3>2. DownOK(t, k)
      BY <1>2, <1>8, <3>1
    <3>3. QED
      BY <1>5, <1>8, <3>1, <3>2 DEF DownOK
  <2>5. QED
    BY <2>1, <2>2, <2>3, <2>4 DEF IInv
<1>9. QED
  BY <1>6, <1>7, <1>8 DEF TunnelPdu

\* The second read of a PDU, and what the caller makes of it.
LEMMA RestStep ==
  ASSUME IInv, read_tunnel_rest, UNCHANGED <<server, down, traffic>>
  PROVE  IInv'
<1> DEFINE t   == Current
           n   == Len(got[t])
           k   == read[t] + RestLen(header)
           pdu == header \o SubSeq(down[t], read[t] + 1, k)
<1>1. /\ header # <<>> /\ Available(t) >= RestLen(header)
      /\ read' = [read EXCEPT ![t] = k]
      /\ (op = "establish" /\ CreateReply(pdu)) \/ (op = "recv_pdu" /\ TunnelPdu(pdu))
  BY DEF read_tunnel_rest
<1>2. /\ t \in Tunnel /\ k \in Nat /\ k <= Len(down[t]) /\ Body(pdu) \in Bytes
      /\ IsData(pdu) =>
           /\ n + 1 <= Len(told[t]) /\ Body(pdu) = told[t][n + 1]
           /\ Downward(down[t], k, n + 1, told[t], peer[t] = "bound")
      /\ ~IsData(pdu) => DownOK(t, k)
      /\ Accepts(pdu) => peer[t] = "bound"
  BY <1>1, RestRead
<1> HIDE DEF k, pdu
<1>3. CASE op = "establish" /\ CreateReply(pdu)
  BY <1>1, <1>2, <1>3, CreateReplyStep
<1>4. CASE op = "recv_pdu" /\ TunnelPdu(pdu)
  BY <1>1, <1>2, <1>4, TunnelPduStep
<1>5. QED
  BY <1>1, <1>3, <1>4

\* A step that writes nothing, reads nothing and has no header has types.
LEMMA CallTypes ==
  ASSUME TypeOK, UNCHANGED <<server, down, traffic, read, sent, got, up>>,
         header' = <<>>, op' \in {"none", "syn", "establish", "recv_pdu"},
         attempt' \in 0..MaxAttempts, udp' \in 0..attempt', result' \in {"none", "ok", "io"},
         request' \in [Tunnel -> InitiateRequest]
  PROVE  TypeOK'
<1>1. \A t \in Tunnel : Len(up[t]) <= Len(up'[t])
  <2> TAKE t \in Tunnel
  <2>1. up'[t] = up[t] /\ Len(up[t]) \in Nat
    BY TypeFacts
  <2>2. QED
    BY ONLY <2>1
<1>2. header' \in Bytes /\ Len(header') \in {0, MIN_HEADER_LEN}
  <2>1. <<>> \in Bytes /\ Len(<<>>) = 0
    BY EmptySeq DEF Bytes
  <2>2. QED
    BY <2>1
<1>3. /\ up' \in [Tunnel -> Bytes] /\ read' \in [Tunnel -> Nat] /\ traffic' \in 0..MaxPdus
      /\ sent' \in [Tunnel -> Seq(Bytes)] /\ got' \in [Tunnel -> Seq(Bytes)]
      /\ \A t \in Tunnel : read'[t] <= Len(down[t])
  BY DEF TypeOK
<1>4. result' \in {"none", "ok", "no SYN+ACK", "bad HeaderLength", "rejected", "short",
                   "unexpected reply", "io"}
  OBVIOUS
<1>5. UNCHANGED <<server, down>>
  OBVIOUS
<1>6. QED
  BY <1>1, <1>2, <1>3, <1>4, <1>5, ThreadTypes

\* A new attempt to migrate.
LEMMA EnableStep ==
  ASSUME IInv, NEW r \in Requests, enable_udp(r), UNCHANGED <<server, down, traffic>>
  PROVE  IInv'
<1>1. /\ op = "none" /\ attempt < MaxAttempts /\ attempt' = attempt + 1
      /\ request' = [request EXCEPT ![attempt + 1] = r]
      /\ op' = "syn" /\ result' = "none"
      /\ UNCHANGED <<udp, header, read, sent, got, up>>
  BY DEF enable_udp, open_udp
<1>2. TypeOK /\ ThreadInv /\ DownInv /\ FreshInv
  BY DEF IInv
<1>3. header = <<>>
  BY <1>1, <1>2, NoHeader
<1>4. attempt \in Nat /\ MaxAttempts \in Nat /\ udp \in Nat /\ udp <= attempt
  BY <1>2, TypeFacts
<1>5. attempt' \in 0..MaxAttempts /\ udp' \in 0..attempt' /\ udp' < attempt'
      /\ attempt' \in Nat /\ attempt <= attempt' /\ attempt' # udp
  <2>1. attempt' = attempt + 1 /\ udp' = udp /\ attempt < MaxAttempts
    BY <1>1
  <2>2. QED
    BY ONLY <1>4, <2>1
<1>6. TypeOK'
  <2>1. request' \in [Tunnel -> InitiateRequest]
    <3>1. r \in InitiateRequest
      BY TunnelAssumption
    <3>2. QED
      BY <1>1, <1>2, <3>1 DEF TypeOK
  <2>2. UNCHANGED <<server, down, traffic, read, sent, got, up>> /\ header' = <<>>
        /\ result' \in {"none", "ok", "io"} /\ op' \in {"none", "syn", "establish", "recv_pdu"}
    BY <1>1, <1>3
  <2>3. QED
    BY <1>2, <1>5, <2>1, <2>2, CallTypes
<1>7. ThreadInv'
  BY <1>1, <1>3, <1>5 DEF ThreadInv
<1>8. FreshInv' /\ GotInv' /\ UpInv' /\ OnBoundTunnel'
  <2>1. UNCHANGED <<server, down, udp, sent, got, up>>
    BY <1>1
  <2>2. QED
    BY ONLY IInv, <1>5, <2>1, Untouched
<1>9. DownInv'
  <2> SUFFICES ASSUME NEW t \in Tunnel, Reading(t)' PROVE DownOK(t, Start(t))'
    BY DEF DownInv
  <2>1. Start(t)' = read[t]
    BY <1>1, <1>3 DEF Start
  <2>2. DownOK(t, read[t])
    <3>1. CASE t = udp
      <4>1. Reading(t) /\ Start(t) = read[t]
        BY <1>3, <3>1 DEF Reading, Start
      <4>2. QED
        BY <1>2, <4>1 DEF DownInv
    <3>2. CASE t = attempt'
      <4>1. t > attempt
        BY <1>1, <1>4, <3>2
      <4>2. down[t] = <<>> /\ told[t] = <<>> /\ got[t] = <<>>
        BY <1>2, <4>1 DEF FreshInv
      <4>3. down[t] \in Bytes /\ read[t] \in Nat /\ read[t] <= Len(down[t])
        BY <1>2, TypeFacts
      <4>4. read[t] = Len(down[t])
        <5>1. Len(down[t]) = 0
          BY <4>2, EmptySeq
        <5>2. QED
          BY ONLY <4>3, <5>1
      <4>5. Downward(down[t], Len(down[t]), Len(told[t]), told[t], peer[t] = "bound")
        BY ONLY <4>3, DownEnd
      <4>6. QED
        BY <4>2, <4>4, <4>5 DEF DownOK
    <3>3. QED
      BY <1>1, <3>1, <3>2 DEF Reading
  <2>3. UNCHANGED <<down, broken, got, told, peer>>
    BY <1>1 DEF server
  <2>4. QED
    BY <2>1, <2>2, <2>3 DEF DownOK
<1>10. QED
  BY <1>6, <1>7, <1>8, <1>9 DEF IInv

\* recv_pdu is called, or send_pdu fails.
LEMMA CallStep ==
  ASSUME IInv, recv_pdu \/ send_fails, UNCHANGED <<server, down, traffic>>
  PROVE  IInv'
<1>1. /\ op = "none" /\ udp # None /\ op' \in {"none", "recv_pdu"}
      /\ result' \in {"none", "io"}
      /\ UNCHANGED <<attempt, udp, header, request, read, sent, got, up>>
  BY DEF recv_pdu, send_fails
<1>2. TypeOK /\ ThreadInv /\ DownInv
  BY DEF IInv
<1>3. header = <<>>
  BY <1>1, <1>2, NoHeader
<1>4. TypeOK'
  <2>1. /\ attempt' \in 0..MaxAttempts /\ udp' \in 0..attempt'
        /\ request' \in [Tunnel -> InitiateRequest]
    BY <1>1, <1>2 DEF TypeOK
  <2>2. UNCHANGED <<server, down, traffic, read, sent, got, up>> /\ header' = <<>>
        /\ result' \in {"none", "ok", "io"} /\ op' \in {"none", "syn", "establish", "recv_pdu"}
    BY <1>1, <1>3
  <2>3. QED
    BY <1>2, <2>1, <2>2, CallTypes
<1>5. ThreadInv'
  BY <1>1, <1>3 DEF ThreadInv
<1>6. FreshInv' /\ GotInv' /\ UpInv' /\ OnBoundTunnel'
  BY <1>1 DEF IInv, FreshInv, GotInv, UpInv, OnBoundTunnel, server
<1>7. DownInv'
  <2> SUFFICES ASSUME NEW t \in Tunnel, Reading(t)' PROVE DownOK(t, Start(t))'
    BY DEF DownInv
  <2>1. Reading(t) /\ Start(t)' = Start(t)
    BY <1>1, <1>3 DEF Reading, Start
  <2>2. DownOK(t, Start(t))
    BY <1>2, <2>1 DEF DownInv
  <2>3. UNCHANGED <<down, broken, got, told, peer>>
    BY <1>1 DEF server
  <2>4. QED
    BY <2>1, <2>2, <2>3 DEF DownOK
<1>8. QED
  BY <1>4, <1>5, <1>6, <1>7 DEF IInv

\* The thread writes one frame into tunnel x.
LEMMA WriteStep ==
  ASSUME IInv, UNCHANGED <<server, down, attempt, udp, request, read, got>>,
         traffic' \in 0..MaxPdus, header' = <<>>, header = <<>>,
         NEW x \in 1..attempt, NEW u \in Bytes, NEW us \in Seq(Bytes),
         up' = [up EXCEPT ![x] = @ \o u], sent' \in [Tunnel -> Seq(Bytes)],
         \A t \in Tunnel : sent'[t] = IF t = x THEN us ELSE sent[t],
         us = sent[x] \/ ((\E p \in Bytes : us = Append(sent[x], p)) /\ peer[x] = "bound"),
         IsUp(us, u, Len(sent[x]), Len(us)),
         (op = "syn" /\ op' = "establish") \/ (op = "none" /\ op' = "none"),
         result' \in {"ok", result}
  PROVE  IInv'
<1>1. TypeOK /\ ThreadInv /\ DownInv /\ FreshInv /\ UpInv /\ OnBoundTunnel
  BY DEF IInv
<1>2. attempt \in Nat /\ MaxAttempts \in Nat /\ attempt <= MaxAttempts
  BY <1>1, TypeFacts
<1>3. x \in Tunnel /\ \A t \in Tunnel : t > attempt => t # x
  <2>1. x \in 1..attempt
    OBVIOUS
  <2>2. x \in Tunnel
    BY ONLY <1>2, <2>1 DEF Tunnel
  <2>3. \A t \in 1..MaxAttempts : t > attempt => t # x
    BY ONLY <1>2, <2>1
  <2>4. QED
    BY <2>2, <2>3 DEF Tunnel
<1>4. /\ up[x] \in Bytes /\ Len(up[x]) \in Nat /\ taken[x] \in Nat
      /\ sent[x] \in Seq(Bytes) /\ heard[x] \in Seq(Bytes)
  BY <1>1, <1>3, TypeFacts
<1>5. up[x] \o u \in Bytes /\ Len(up[x]) <= Len(up[x] \o u)
  <2>1. up[x] \o u \in Bytes /\ Len(up[x] \o u) = Len(up[x]) + Len(u)
    BY <1>4, ConcatProperties DEF Bytes
  <2>2. Len(u) \in Nat
    BY BytesLen
  <2>3. QED
    BY ONLY <1>4, <2>1, <2>2
<1>6. /\ up' \in [Tunnel -> Bytes] /\ sent' \in [Tunnel -> Seq(Bytes)]
      /\ \A t \in Tunnel : up'[t] = IF t = x THEN up[x] \o u ELSE up[t]
      /\ \A t \in Tunnel : sent'[t] = IF t = x THEN us ELSE sent[t]
  BY <1>1, <1>3, <1>5 DEF TypeOK
<1>7. UNCHANGED <<taken, peer, broken, heard, told, down>>
  BY DEF server
<1>8. TypeOK'
  <2>1. \A t \in Tunnel : Len(up[t]) <= Len(up'[t])
    <3> TAKE t \in Tunnel
    <3>1. Len(up[t]) \in Nat
      BY <1>1, TypeFacts
    <3>2. CASE t = x
      BY <1>5, <1>6, <3>2
    <3>3. CASE t # x
      <4>1. up'[t] = up[t]
        BY <1>6, <3>3
      <4>2. QED
        BY ONLY <3>1, <4>1
    <3>4. QED
      BY <3>2, <3>3
  <2>2. header' \in Bytes /\ Len(header') \in {0, MIN_HEADER_LEN}
    <3>1. <<>> \in Bytes /\ Len(<<>>) = 0
      BY EmptySeq DEF Bytes
    <3>2. QED
      BY <3>1
  <2>3. /\ attempt' \in 0..MaxAttempts /\ udp' \in 0..attempt'
        /\ request' \in [Tunnel -> InitiateRequest]
        /\ read' \in [Tunnel -> Nat] /\ got' \in [Tunnel -> Seq(Bytes)]
        /\ \A t \in Tunnel : read'[t] <= Len(down[t])
        /\ op' \in {"none", "syn", "establish", "recv_pdu"}
        /\ result' \in {"none", "ok", "no SYN+ACK", "bad HeaderLength", "rejected", "short",
                        "unexpected reply", "io"}
    BY <1>1 DEF TypeOK
  <2>4. UNCHANGED <<server, down>>
    OBVIOUS
  <2>5. QED
    BY <1>1, <1>6, <2>1, <2>2, <2>3, <2>4, ThreadTypes
<1>9. ThreadInv'
  BY <1>1 DEF ThreadInv
<1>10. FreshInv'
  BY <1>1, <1>3, <1>6, <1>7 DEF FreshInv
<1>11. GotInv'
  BY <1>7 DEF IInv, GotInv
<1>12. OnBoundTunnel'
  BY <1>1, <1>3, <1>6, <1>7 DEF OnBoundTunnel
<1>13. UpInv'
  <2> SUFFICES ASSUME NEW t \in Tunnel PROVE Upward(up'[t], taken[t], sent'[t], heard[t])
    BY <1>7 DEF UpInv
  <2>1. CASE t = x
    <3>1. Upward(up[x], taken[x], sent[x], heard[x])
      BY <1>1, <1>3 DEF UpInv
    <3>2. us = sent[x] \/ \E p \in Bytes : us = Append(sent[x], p)
      OBVIOUS
    <3>3. Upward(up[x] \o u, taken[x], us, heard[x])
      BY ONLY <1>4, <3>1, <3>2, u \in Bytes, us \in Seq(Bytes),
              IsUp(us, u, Len(sent[x]), Len(us)), UpWritten
    <3>4. QED
      BY <1>6, <2>1, <3>3
  <2>2. CASE t # x
    BY <1>1, <1>6, <2>2 DEF UpInv
  <2>3. QED
    BY <2>1, <2>2
<1>14. DownInv'
  <2> SUFFICES ASSUME NEW t \in Tunnel, Reading(t)' PROVE DownOK(t, Start(t))'
    BY DEF DownInv
  <2>1. Reading(t) /\ Start(t)' = Start(t)
    BY DEF Reading, Start
  <2>2. DownOK(t, Start(t))
    BY <1>1, <2>1 DEF DownInv
  <2>3. QED
    BY <1>7, <2>1, <2>2 DEF DownOK
<1>15. QED
  BY <1>8, <1>9, <1>10, <1>11, <1>12, <1>13, <1>14 DEF IInv

\* The Create Request is written.
LEMMA SynAcknowledgedStep ==
  ASSUME IInv, syn_acknowledged, UNCHANGED <<server, down, traffic>>
  PROVE  IInv'
<1> DEFINE u == create_request(request[attempt])
<1>1. /\ op = "syn" /\ op' = "establish"
      /\ up' = [up EXCEPT ![attempt] = @ \o u]
      /\ UNCHANGED <<attempt, udp, result, header, request, read, sent, got>>
  BY DEF syn_acknowledged
<1>2. TypeOK /\ ThreadInv
  BY DEF IInv
<1>3. header = <<>> /\ header' = <<>>
  BY <1>1, <1>2, NoHeader
<1>4. attempt \in Tunnel
  <2>1. Current \in Tunnel /\ Current = attempt
    BY <1>1, <1>2, CurrentTunnel DEF Current
  <2>2. QED
    BY <2>1
<1>5. attempt \in 1..attempt
  BY <1>4 DEF Tunnel
<1>6. request[attempt] \in InitiateRequest /\ sent[attempt] \in Seq(Bytes)
      /\ sent \in [Tunnel -> Seq(Bytes)] /\ traffic' \in 0..MaxPdus
  BY <1>2, <1>4, TypeFacts DEF TypeOK
<1>7. u \in Bytes
  <2> DEFINE b == CreateBody(request[attempt])
  <2>1. b \in Bytes
    BY <1>6 DEF CreateBody, InitiateRequest, Bytes
  <2>2. 0 \in Nat /\ u = tunnel_pdu(0, b)
    BY DEF create_request, ACTION_CREATEREQUEST
  <2> HIDE DEF b, u
  <2>3. tunnel_pdu(0, b) \in Bytes
    BY ONLY <2>1, <2>2, ClientPduFacts
  <2>4. QED
    BY <2>2, <2>3
<1>8. IsUp(sent[attempt], u, Len(sent[attempt]), Len(sent[attempt]))
  BY <1>6 DEF IsUp
<1>9. sent' \in [Tunnel -> Seq(Bytes)]
      /\ \A t \in Tunnel : sent'[t] = IF t = attempt THEN sent[attempt] ELSE sent[t]
  BY <1>1, <1>6
<1>10. UNCHANGED <<server, down, attempt, udp, request, read, got>> /\ result' \in {"ok", result}
  BY <1>1
<1> DEFINE us == sent[attempt]
<1>11. /\ us \in Seq(Bytes) /\ us = sent[attempt] /\ sent' \in [Tunnel -> Seq(Bytes)]
       /\ \A t \in Tunnel : sent'[t] = IF t = attempt THEN us ELSE sent[t]
       /\ IsUp(us, u, Len(sent[attempt]), Len(us))
  BY <1>6, <1>8, <1>9
<1>12. /\ (op = "syn" /\ op' = "establish") \/ (op = "none" /\ op' = "none")
       /\ up' = [up EXCEPT ![attempt] = @ \o u] /\ traffic' \in 0..MaxPdus
  BY <1>1, <1>6
<1> HIDE DEF u, us
<1>13. QED
  BY ONLY IInv, <1>3, <1>5, <1>7, <1>10, <1>11, <1>12, WriteStep

\* A PDU is written.
LEMMA SendPduStep ==
  ASSUME IInv, NEW p \in PDUs, send_pdu(p), UNCHANGED <<server, down>>
  PROVE  IInv'
<1> DEFINE u == data(p)
           us == Append(sent[udp], p)
<1>1. /\ op = "none" /\ op' = "none" /\ udp # None /\ traffic < MaxPdus /\ traffic' = traffic + 1
      /\ up' = [up EXCEPT ![udp] = @ \o u] /\ sent' = [sent EXCEPT ![udp] = us]
      /\ result' = "ok"
      /\ UNCHANGED <<attempt, udp, header, request, read, got>>
  BY DEF send_pdu, Count
<1>2. TypeOK /\ ThreadInv /\ OnBoundTunnel
  BY DEF IInv
<1>3. header = <<>> /\ header' = <<>>
  BY <1>1, <1>2, NoHeader
<1>4. udp \in 1..attempt /\ udp \in Tunnel
  <2>1. udp \in Nat /\ udp # 0 /\ udp <= attempt /\ attempt \in Nat /\ MaxAttempts \in Nat
        /\ attempt <= MaxAttempts
    BY <1>1, <1>2, TypeFacts DEF None
  <2>2. QED
    BY ONLY <2>1 DEF Tunnel
<1>5. traffic' \in 0..MaxPdus
  <2>1. MaxPdus \in Nat /\ traffic \in 0..MaxPdus
    BY <1>2, TunnelAssumption DEF TypeOK
  <2>2. QED
    BY <1>1, <2>1
<1>6. p \in Bytes /\ sent[udp] \in Seq(Bytes)
  BY <1>2, <1>4, TunnelAssumption, TypeFacts
<1>7. us \in Seq(Bytes) /\ Len(us) = Len(sent[udp]) + 1 /\ us[Len(us)] = p
      /\ Len(sent[udp]) \in Nat
  BY <1>6, AppendProperties, LenProperties
<1>8. u \in Bytes
  <2>1. 2 \in Nat /\ u = tunnel_pdu(2, p)
    BY DEF data, ACTION_DATA
  <2> HIDE DEF u
  <2>2. tunnel_pdu(2, p) \in Bytes
    BY ONLY <1>6, <2>1, ClientPduFacts
  <2>3. QED
    BY <2>1, <2>2
<1>9. IsUp(us, u, Len(sent[udp]), Len(us))
  <2>1. Len(us) <= Len(us) /\ u = data(us[Len(us)])
    BY <1>7
  <2>2. QED
    BY <1>7, <2>1 DEF IsUp
<1>10. (\E q \in Bytes : us = Append(sent[udp], q)) /\ peer[udp] = "bound"
  BY <1>1, <1>2, <1>6 DEF OnBoundTunnel
<1>11. UNCHANGED <<server, down, attempt, udp, request, read, got>> /\ result' \in {"ok", result}
  BY <1>1
<1> HIDE DEF u, us
<1>12. sent' \in [Tunnel -> Seq(Bytes)]
       /\ \A t \in Tunnel : sent'[t] = IF t = udp THEN us ELSE sent[t]
  BY <1>1, <1>2, <1>7 DEF TypeOK
<1>13. QED
  BY <1>1, <1>3, <1>4, <1>5, <1>7, <1>8, <1>9, <1>10, <1>11, <1>12, WriteStep

\* Every step of the session's thread keeps the invariant.
LEMMA ThreadKeeps ==
  ASSUME IInv, ThreadStep
  PROVE  IInv'
BY SynAcknowledgedStep, SynTimeoutStep, HeaderStep, RestStep, IoErrorStep, EnableStep, CallStep,
   SendPduStep DEF ThreadStep, Progress

-----------------------------------------------------------------------------
(* The steps of the server *)

\* The type invariant after a step of the server.
LEMMA ServerTypes ==
  ASSUME TypeOK, UNCHANGED <<thread, up>>, traffic' \in 0..MaxPdus,
         down' \in [Tunnel -> Bytes], \A t \in Tunnel : Len(down[t]) <= Len(down'[t]),
         taken' \in [Tunnel -> Nat], \A t \in Tunnel : taken'[t] <= Len(up[t]),
         peer' \in [Tunnel -> {"silent", "connected", "bound", "refused"}],
         broken' \in [Tunnel -> BOOLEAN],
         heard' \in [Tunnel -> Seq(Bytes)], told' \in [Tunnel -> Seq(Bytes)]
  PROVE  TypeOK'
<1>1. \A t \in Tunnel : read[t] <= Len(down'[t])
  <2> TAKE t \in Tunnel
  <2>1. read[t] \in Nat /\ Len(down[t]) \in Nat /\ read[t] <= Len(down[t])
    BY TypeFacts
  <2>2. Len(down'[t]) \in Nat
    <3>1. down'[t] \in Bytes
      OBVIOUS
    <3>2. QED
      BY <3>1, BytesLen
  <2>3. Len(down[t]) <= Len(down'[t])
    OBVIOUS
  <2>4. QED
    BY ONLY <2>1, <2>2, <2>3
<1>2. UNCHANGED <<op, attempt, udp, result, header, request, read, sent, got, up>>
  BY DEF thread
<1>3. QED
  BY <1>1, <1>2 DEF TypeOK

\* f' is f but for its value at x.
Becomes(f, g, x, v) == \A t \in Tunnel : g[t] = IF t = x THEN v ELSE f[t]

\* A step of the server on tunnel x keeps the invariant, if it goes on where its
\* stream ends, and reads frames of the client.
LEMMA ServerChanges ==
  ASSUME IInv, UNCHANGED <<thread, up>>, traffic' \in 0..MaxPdus, NEW x \in 1..attempt, Live(x),
         down' \in [Tunnel -> Bytes], taken' \in [Tunnel -> Nat],
         peer' \in [Tunnel -> {"silent", "connected", "bound", "refused"}],
         broken' \in [Tunnel -> BOOLEAN],
         heard' \in [Tunnel -> Seq(Bytes)], told' \in [Tunnel -> Seq(Bytes)],
         NEW d \in Bytes, d = down[x] \/ \E u \in Bytes : d = down[x] \o u,
         NEW ts \in Seq(Bytes), ts = told[x] \/ \E p \in Bytes : ts = Append(told[x], p),
         NEW hs, NEW k \in Nat, k <= Len(up[x]), NEW q, NEW b,
         Becomes(down, down', x, d), Becomes(told, told', x, ts), Becomes(heard, heard', x, hs),
         Becomes(taken, taken', x, k), Becomes(peer, peer', x, q), Becomes(broken, broken', x, b),
         peer[x] = "bound" => q = "bound",
         Upward(up[x], k, sent[x], hs),
         \A from \in Nat : Downward(down[x], from, Len(got[x]), told[x], peer[x] = "bound")
                            => Downward(d, from, Len(got[x]), ts, q = "bound")
  PROVE  IInv'
<1>1. TypeOK /\ ThreadInv /\ DownInv /\ FreshInv /\ GotInv /\ UpInv /\ OnBoundTunnel
  BY DEF IInv
<1>2. UNCHANGED <<op, attempt, udp, result, header, request, read, sent, got, up>>
  BY DEF thread
<1>3. x \in Tunnel /\ \A t \in Tunnel : t > attempt => t # x
  <2>1. attempt \in Nat /\ MaxAttempts \in Nat /\ attempt <= MaxAttempts
    BY <1>1, TypeFacts
  <2>2. x \in 1..attempt
    OBVIOUS
  <2>3. x \in Tunnel
    BY ONLY <2>1, <2>2 DEF Tunnel
  <2>4. \A t \in 1..MaxAttempts : t > attempt => t # x
    BY ONLY <2>1, <2>2
  <2>5. QED
    BY <2>3, <2>4 DEF Tunnel
<1>4. /\ down[x] \in Bytes /\ Len(down[x]) \in Nat /\ told[x] \in Seq(Bytes)
      /\ got[x] \in Seq(Bytes) /\ read[x] \in Nat /\ read[x] <= Len(down[x])
  BY <1>1, <1>3, TypeFacts
<1>5. /\ down'[x] = d /\ told'[x] = ts /\ heard'[x] = hs /\ taken'[x] = k /\ peer'[x] = q
      /\ broken'[x] = b
      /\ \A t \in Tunnel : t # x =>
           /\ down'[t] = down[t] /\ told'[t] = told[t] /\ heard'[t] = heard[t]
           /\ taken'[t] = taken[t] /\ peer'[t] = peer[t] /\ broken'[t] = broken[t]
  BY <1>3 DEF Becomes
<1>6. Len(d) \in Nat /\ Len(down[x]) <= Len(d)
  <2>1. CASE d = down[x]
    BY ONLY <1>4, <2>1
  <2>2. ASSUME NEW u \in Bytes, d = down[x] \o u
        PROVE  Len(d) \in Nat /\ Len(down[x]) <= Len(d)
    <3>1. Len(down[x] \o u) = Len(down[x]) + Len(u) /\ Len(u) \in Nat
      BY <1>4, <2>2, ConcatProperties, BytesLen DEF Bytes
    <3>2. QED
      BY ONLY <1>4, <2>2, <3>1
  <2>3. QED
    BY <2>1, <2>2
<1>7. TypeOK'
  <2>1. \A t \in Tunnel : Len(down[t]) <= Len(down'[t])
    <3> TAKE t \in Tunnel
    <3>1. CASE t = x
      BY <1>5, <1>6, <3>1
    <3>2. CASE t # x
      <4>1. down'[t] = down[t] /\ Len(down[t]) \in Nat
        BY <1>1, <1>5, <3>2, TypeFacts
      <4>2. QED
        BY ONLY <4>1
    <3>3. QED
      BY <3>1, <3>2
  <2>2. \A t \in Tunnel : taken'[t] <= Len(up[t])
    <3> TAKE t \in Tunnel
    <3>1. CASE t = x
      BY <1>5, <3>1
    <3>2. CASE t # x
      BY <1>1, <1>5, <3>2, TypeFacts
    <3>3. QED
      BY <3>1, <3>2
  <2>3. QED
    BY <1>1, <2>1, <2>2, ServerTypes
<1>8. ThreadInv'
  <2>1. /\ (op \in {"syn", "establish"} => udp < attempt)'
        /\ (op = "recv_pdu" => udp # None)'
    BY <1>1, <1>2 DEF ThreadInv
  <2>2. ASSUME header # <<>>
        PROVE  /\ read[Current] >= MIN_HEADER_LEN
               /\ header = SubSeq(down'[Current], read[Current] - MIN_HEADER_LEN + 1, read[Current])
    <3> DEFINE c == Current
               i == read[c] - MIN_HEADER_LEN
               j == read[c]
    <3>1. j >= MIN_HEADER_LEN /\ header = Part(down[c], i, j)
      BY <1>1, <2>2 DEF ThreadInv, Part
    <3>2. c \in Tunnel
      <4>1. op # "none"
        BY <1>1, <2>2 DEF TypeOK
      <4>2. QED
        BY <1>1, <4>1, CurrentTunnel
    <3>3. Part(down'[c], i, j) = Part(down[c], i, j)
      <4>1. CASE down'[c] = down[c]
        BY <4>1
      <4>2. ASSUME c = x, NEW u \in Bytes, d = down[x] \o u
            PROVE  Part(down'[c], i, j) = Part(down[c], i, j)
        <5>1. i \in Nat /\ j \in i..Len(down[x])
          <6>1. j = read[x] /\ i = j - 4 /\ j >= 4
            BY <3>1, <4>2 DEF MIN_HEADER_LEN
          <6> HIDE DEF i, j
          <6>2. QED
            BY ONLY <1>4, <6>1
        <5> HIDE DEF i, j, c
        <5>2. Part(down[x] \o u, i, j) = Part(down[x], i, j)
          BY ONLY <1>4, <5>1, u \in Bytes, PartKept DEF Bytes
        <5>3. QED
          BY <1>5, <4>2, <5>2
      <4>3. QED
        BY <1>5, <3>2, <4>1, <4>2
    <3>4. QED
      BY <3>1, <3>3 DEF Part
  <2>3. Current' = Current
    BY <1>2 DEF Current
  <2>4. QED
    BY <1>2, <2>1, <2>2, <2>3 DEF ThreadInv
<1>9. FreshInv'
  BY <1>1, <1>2, <1>3, <1>5 DEF FreshInv
<1>10. GotInv'
  <2> SUFFICES ASSUME NEW t \in Tunnel
               PROVE  /\ Len(got[t]) <= Len(told'[t])
                      /\ \A i \in 1..Len(got[t]) : got[t][i] = told'[t][i]
    BY <1>2 DEF GotInv
  <2>1. Len(got[t]) <= Len(told[t]) /\ \A i \in 1..Len(got[t]) : got[t][i] = told[t][i]
    BY <1>1 DEF GotInv
  <2>2. CASE told'[t] = told[t]
    BY <2>1, <2>2
  <2>3. ASSUME t = x, NEW p \in Bytes, ts = Append(told[x], p)
        PROVE  /\ Len(got[t]) <= Len(told'[t])
               /\ \A i \in 1..Len(got[t]) : got[t][i] = told'[t][i]
    <3>1. Len(got[x]) \in Nat /\ Len(told[x]) \in Nat
      BY <1>4, LenProperties
    <3>2. Len(ts) = Len(told[x]) + 1 /\ \A i \in 1..Len(told[x]) : ts[i] = told[x][i]
      BY <1>4, <2>3, AppendProperties
    <3>3. Len(got[x]) <= Len(told[x]) /\ \A i \in 1..Len(got[x]) : got[x][i] = told[x][i]
      BY <2>1, <2>3
    <3>4. Len(got[x]) <= Len(ts) /\ \A i \in 1..Len(got[x]) : i \in 1..Len(told[x])
      BY ONLY <3>1, <3>2, <3>3
    <3>5. QED
      BY <1>5, <2>3, <3>2, <3>3, <3>4
  <2>4. QED
    BY <1>5, <2>2, <2>3
<1>11. OnBoundTunnel'
  <2>1. \A t \in Tunnel : peer[t] = "bound" => peer'[t] = "bound"
    BY <1>5
  <2>2. udp # None => udp \in Tunnel
    <3>1. udp \in Nat /\ attempt \in Nat /\ udp <= attempt /\ attempt <= MaxAttempts
          /\ MaxAttempts \in Nat
      BY <1>1, TypeFacts
    <3>2. QED
      BY ONLY <3>1 DEF Tunnel, None
  <2>3. QED
    BY <1>1, <1>2, <2>1, <2>2 DEF OnBoundTunnel
<1>12. UpInv'
  BY <1>1, <1>2, <1>5 DEF UpInv
<1>13. DownInv'
  <2> SUFFICES ASSUME NEW t \in Tunnel, Reading(t)' PROVE DownOK(t, Start(t))'
    BY DEF DownInv
  <2>1. Reading(t) /\ Start(t)' = Start(t)
    BY <1>2 DEF Reading, Start, Current
  <2>2. DownOK(t, Start(t))
    BY <1>1, <2>1 DEF DownInv
  <2>3. CASE t = x
    <3>1. ~broken[x]
      BY DEF Live
    <3>2. Start(x) \in Nat
      <4>1. header # <<>> => read[Current] >= MIN_HEADER_LEN
        BY <1>1 DEF ThreadInv
      <4>2. CASE header # <<>> /\ x = Current
        <5>1. Start(x) = read[x] - 4 /\ read[x] >= 4
          BY <4>1, <4>2 DEF Start, MIN_HEADER_LEN
        <5>2. QED
          BY ONLY <1>4, <5>1
      <4>3. CASE ~(header # <<>> /\ x = Current)
        BY <1>4, <4>3 DEF Start
      <4>4. QED
        BY <4>2, <4>3
    <3>3. Downward(down[x], Start(x), Len(got[x]), told[x], peer[x] = "bound")
      BY <2>2, <2>3, <3>1 DEF DownOK
    <3>4. Downward(d, Start(x), Len(got[x]), ts, q = "bound")
      BY <3>2, <3>3
    <3>5. QED
      BY <1>2, <1>5, <2>1, <2>3, <3>4 DEF DownOK
  <2>4. CASE t # x
    BY <1>2, <1>5, <2>1, <2>2, <2>4 DEF DownOK
  <2>5. QED
    BY <2>3, <2>4
<1>14. QED
  BY <1>7, <1>8, <1>9, <1>10, <1>11, <1>12, <1>13 DEF IInv

\* What changes at one tunnel, and what does not.
LEMMA BecomesFacts ==
  ASSUME NEW x \in Tunnel
  PROVE  /\ \A f : Becomes(f, f, x, f[x])
         /\ \A S : \A f \in [Tunnel -> S] : \A v \in S :
              [f EXCEPT ![x] = v] \in [Tunnel -> S] /\ Becomes(f, [f EXCEPT ![x] = v], x, v)
BY DEF Becomes

\* The server acknowledges the SYN, or the connection is lost.
LEMMA PeerStep ==
  ASSUME IInv, UNCHANGED <<thread, up, traffic>>, NEW x \in 1..attempt, Live(x),
         server_syn_ack(x) \/ lose_connection(x)
  PROVE  IInv'
<1>1. TypeOK /\ UpInv
  BY DEF IInv
<1>2. x \in Tunnel
  BY <1>1, TypeFacts DEF Tunnel
<1>3. /\ down[x] \in Bytes /\ told[x] \in Seq(Bytes) /\ taken[x] \in Nat /\ taken[x] <= Len(up[x])
      /\ Upward(up[x], taken[x], sent[x], heard[x])
  BY <1>1, <1>2, TypeFacts DEF UpInv
<1>4. /\ down \in [Tunnel -> Bytes] /\ taken \in [Tunnel -> Nat] /\ traffic \in 0..MaxPdus
      /\ peer \in [Tunnel -> {"silent", "connected", "bound", "refused"}]
      /\ heard \in [Tunnel -> Seq(Bytes)] /\ told \in [Tunnel -> Seq(Bytes)]
  BY <1>1 DEF TypeOK
<1>5. broken \in [Tunnel -> BOOLEAN]
  BY <1>1 DEF TypeOK
<1>6. /\ UNCHANGED <<taken, heard, told, down>>
      /\ Becomes(down, down', x, down[x]) /\ Becomes(told, told', x, told[x])
      /\ Becomes(heard, heard', x, heard[x]) /\ Becomes(taken, taken', x, taken[x])
  BY <1>2, BecomesFacts DEF server_syn_ack, lose_connection
<1>7. \E q, b : /\ peer' \in [Tunnel -> {"silent", "connected", "bound", "refused"}]
                /\ broken' \in [Tunnel -> BOOLEAN]
                /\ Becomes(peer, peer', x, q) /\ Becomes(broken, broken', x, b)
                /\ q = "bound" <=> peer[x] = "bound"
  <2>1. CASE server_syn_ack(x)
    <3>1. /\ peer[x] = "silent" /\ peer' = [peer EXCEPT ![x] = "connected"] /\ broken' = broken
      BY <2>1 DEF server_syn_ack
    <3>2. "connected" \in {"silent", "connected", "bound", "refused"}
      OBVIOUS
    <3>3. /\ peer' \in [Tunnel -> {"silent", "connected", "bound", "refused"}]
          /\ Becomes(peer, peer', x, "connected") /\ Becomes(broken, broken', x, broken[x])
      BY <1>2, <1>4, <3>1, <3>2, BecomesFacts
    <3>4. "connected" = "bound" <=> peer[x] = "bound"
      BY <3>1
    <3>5. QED
      BY <1>5, <3>1, <3>3, <3>4
  <2>2. CASE lose_connection(x)
    <3>1. peer' = peer /\ broken' = [broken EXCEPT ![x] = TRUE]
      BY <2>2 DEF lose_connection
    <3>2. broken' \in [Tunnel -> BOOLEAN] /\ Becomes(broken, broken', x, TRUE)
      <4>1. TRUE \in BOOLEAN
        OBVIOUS
      <4>2. /\ [broken EXCEPT ![x] = TRUE] \in [Tunnel -> BOOLEAN]
            /\ Becomes(broken, [broken EXCEPT ![x] = TRUE], x, TRUE)
        BY ONLY <1>2, <1>5, <4>1, BecomesFacts, Zenon
      <4>3. QED
        BY <3>1, <4>2
    <3>3. Becomes(peer, peer', x, peer[x])
      BY <1>2, <3>1, BecomesFacts
    <3>4. QED
      BY <1>4, <3>1, <3>2, <3>3
  <2>3. QED
    BY <2>1, <2>2
<1>8. PICK q, b : /\ peer' \in [Tunnel -> {"silent", "connected", "bound", "refused"}]
                  /\ broken' \in [Tunnel -> BOOLEAN]
                  /\ Becomes(peer, peer', x, q) /\ Becomes(broken, broken', x, b)
                  /\ q = "bound" <=> peer[x] = "bound"
  BY <1>7
<1>9. ASSUME NEW from \in Nat, Downward(down[x], from, Len(got[x]), told[x], peer[x] = "bound")
      PROVE  Downward(down[x], from, Len(got[x]), told[x], q = "bound")
  BY <1>8, <1>9
<1>10. /\ down' \in [Tunnel -> Bytes] /\ taken' \in [Tunnel -> Nat] /\ traffic' \in 0..MaxPdus
       /\ heard' \in [Tunnel -> Seq(Bytes)] /\ told' \in [Tunnel -> Seq(Bytes)]
       /\ UNCHANGED <<thread, up>>
  BY <1>4, <1>6
<1>11. peer[x] = "bound" => q = "bound"
  BY <1>8
<1>12. QED
  BY ONLY IInv, Live(x), x \in 1..attempt, <1>3, <1>6, <1>8, <1>9, <1>10, <1>11, ServerChanges

\* The server writes one frame, and may have sent a PDU with it.
LEMMA ServerWrites ==
  ASSUME IInv, UNCHANGED <<thread, up, taken, peer, broken, heard>>, traffic' \in 0..MaxPdus,
         NEW x \in 1..attempt, Live(x), NEW u \in Bytes,
         down' = [down EXCEPT ![x] = @ \o u],
         NEW ts \in Seq(Bytes), ts = told[x] \/ \E p \in Bytes : ts = Append(told[x], p),
         Becomes(told, told', x, ts), told' \in [Tunnel -> Seq(Bytes)],
         IsDown(ts, peer[x] = "bound", u, Len(told[x]), Len(ts))
  PROVE  IInv'
<1>1. TypeOK /\ UpInv
  BY DEF IInv
<1>2. x \in Tunnel
  BY <1>1, TypeFacts DEF Tunnel
<1>3. /\ down[x] \in Bytes /\ told[x] \in Seq(Bytes) /\ taken[x] \in Nat /\ taken[x] <= Len(up[x])
      /\ Upward(up[x], taken[x], sent[x], heard[x])
  BY <1>1, <1>2, TypeFacts DEF UpInv
<1>4. /\ down \in [Tunnel -> Bytes] /\ taken \in [Tunnel -> Nat]
      /\ peer \in [Tunnel -> {"silent", "connected", "bound", "refused"}]
      /\ heard \in [Tunnel -> Seq(Bytes)]
  BY <1>1 DEF TypeOK
<1>5. broken \in [Tunnel -> BOOLEAN] /\ broken' = broken
  BY <1>1 DEF TypeOK
<1> DEFINE d == down[x] \o u
<1>6. d \in Bytes
  BY <1>3, ConcatProperties DEF Bytes
<1>7. d = down[x] \/ \E v \in Bytes : d = down[x] \o v
  OBVIOUS
<1> HIDE DEF d
<1>8. down' \in [Tunnel -> Bytes] /\ Becomes(down, down', x, d)
  BY <1>2, <1>4, <1>6, BecomesFacts DEF d
<1>9. /\ Becomes(heard, heard', x, heard[x]) /\ Becomes(taken, taken', x, taken[x])
      /\ Becomes(peer, peer', x, peer[x]) /\ Becomes(broken, broken', x, broken[x])
  BY <1>2, BecomesFacts
<1>10. ASSUME NEW from \in Nat, Downward(down[x], from, Len(got[x]), told[x], peer[x] = "bound")
       PROVE  Downward(d, from, Len(got[x]), ts, peer[x] = "bound")
  <2>1. Downward(down[x] \o u, from, Len(got[x]), ts, peer[x] = "bound")
    BY ONLY <1>3, <1>10, u \in Bytes, ts \in Seq(Bytes),
            ts = told[x] \/ \E p \in Bytes : ts = Append(told[x], p),
            IsDown(ts, peer[x] = "bound", u, Len(told[x]), Len(ts)), DownWritten
  <2>2. QED
    BY <2>1 DEF d
<1>11. /\ taken' \in [Tunnel -> Nat] /\ heard' \in [Tunnel -> Seq(Bytes)]
       /\ peer' \in [Tunnel -> {"silent", "connected", "bound", "refused"}]
       /\ UNCHANGED <<thread, up>>
  BY <1>4
<1>12. broken' \in [Tunnel -> BOOLEAN]
  BY <1>5
<1>13. QED
  BY ONLY IInv, Live(x), x \in 1..attempt, ts \in Seq(Bytes), traffic' \in 0..MaxPdus,
          ts = told[x] \/ \E p \in Bytes : ts = Append(told[x], p),
          Becomes(told, told', x, ts), told' \in [Tunnel -> Seq(Bytes)],
          <1>3, <1>6, <1>7, <1>8, <1>9, <1>10, <1>11, <1>12, ServerChanges

\* One more PDU is within the bound on traffic.
LEMMA Counted ==
  ASSUME TypeOK, Count
  PROVE  traffic' \in 0..MaxPdus
<1>1. MaxPdus \in Nat /\ traffic \in 0..MaxPdus /\ traffic < MaxPdus /\ traffic' = traffic + 1
  BY TunnelAssumption DEF TypeOK, Count
<1>2. QED
  BY <1>1

\* The server sends a PDU.
LEMMA ServerSendStep ==
  ASSUME IInv, UNCHANGED <<thread, up>>, NEW x \in 1..attempt, Live(x), server_send(x)
  PROVE  IInv'
<1>1. TypeOK
  BY DEF IInv
<1>2. x \in Tunnel
  BY <1>1, TypeFacts DEF Tunnel
<1>3. PICK p \in PDUs, sub \in SubHeaders :
        /\ Len(p) < LEN_MOD
        /\ down' = [down EXCEPT ![x] = @ \o ServerPdu(ACTION_DATA, sub, p)]
        /\ told' = [told EXCEPT ![x] = Append(@, p)]
  BY DEF server_send, Write
<1>4. traffic' \in 0..MaxPdus
  BY <1>1, Counted DEF server_send
<1>5. UNCHANGED <<thread, up, taken, peer, broken, heard>>
  BY DEF server_send
<1>6. p \in Bytes /\ sub \in Bytes /\ told[x] \in Seq(Bytes) /\ told \in [Tunnel -> Seq(Bytes)]
  BY <1>1, <1>2, TunnelAssumption, TypeFacts DEF TypeOK
<1> DEFINE u == ServerPdu(ACTION_DATA, sub, p)
           ts == Append(told[x], p)
<1>7. u \in Bytes
  <2>1. ACTION_DATA \in Nat
    BY DEF ACTION_DATA
  <2>2. QED
    BY ONLY <1>3, <1>6, <2>1, ServerPduFacts
<1>8. /\ ts \in Seq(Bytes) /\ Len(ts) = Len(told[x]) + 1 /\ ts[Len(ts)] = p
      /\ Len(told[x]) \in Nat
  BY <1>6, AppendProperties, LenProperties
<1>9. ts = told[x] \/ \E q \in Bytes : ts = Append(told[x], q)
  BY <1>6
<1> HIDE DEF ts
<1>10. told' \in [Tunnel -> Seq(Bytes)] /\ Becomes(told, told', x, ts)
  BY <1>2, <1>3, <1>6, <1>8, BecomesFacts DEF ts
<1>11. IsDown(ts, peer[x] = "bound", u, Len(told[x]), Len(ts))
  <2>1. Len(ts) <= Len(ts) /\ Len(ts[Len(ts)]) < LEN_MOD
    BY <1>3, <1>8
  <2>2. \E v \in Bytes : u = ServerPdu(ACTION_DATA, v, ts[Len(ts)])
    BY <1>6, <1>8
  <2>3. QED
    BY <1>8, <2>1, <2>2 DEF IsDown
<1>12. down' = [down EXCEPT ![x] = @ \o u]
  BY <1>3
<1> HIDE DEF u
<1>13. QED
  BY ONLY IInv, Live(x), x \in 1..attempt, <1>4, <1>5, <1>7, <1>8, <1>9, <1>10, <1>11, <1>12,
          ServerWrites

\* The PDUs a server may send besides data are frames that count nothing.
LEMMA OtherFrame ==
  ASSUME NEW ts \in Seq(Bytes), NEW bound, NEW u,
         \/ u = <<ACTION_DATA, 0, 0, 0>>
         \/ \E a \in {ACTION_CREATERESPONSE, ACTION_UNKNOWN} : \E b \in {<<>>, << 0 >>, << 1 >>} :
              u = ServerPdu(a, <<>>, b) /\ (a = ACTION_CREATERESPONSE /\ b = << 0 >> => bound)
  PROVE  u \in Bytes /\ IsDown(ts, bound, u, Len(ts), Len(ts))
<1>1. IsDown(ts, bound, u, Len(ts), Len(ts))
  BY DEF IsDown
<1>2. CASE u = <<ACTION_DATA, 0, 0, 0>>
  <2>1. u \in Bytes
    BY <1>2 DEF ACTION_DATA, Bytes
  <2>2. QED
    BY <1>1, <2>1
<1>3. ASSUME NEW a \in {ACTION_CREATERESPONSE, ACTION_UNKNOWN}, NEW b \in {<<>>, << 0 >>, << 1 >>},
             u = ServerPdu(a, <<>>, b)
      PROVE  u \in Bytes
  <2>1. b \in Bytes /\ Len(b) \in 0..3 /\ <<>> \in Bytes
    <3>1. <<>> \in Bytes /\ Len(<<>>) = 0
      BY EmptySeq DEF Bytes
    <3>2. << 0 >> \in Bytes /\ Len(<< 0 >>) = 1 /\ << 1 >> \in Bytes /\ Len(<< 1 >>) = 1
      BY DEF Bytes
    <3>3. b = <<>> \/ b = << 0 >> \/ b = << 1 >>
      OBVIOUS
    <3>4. QED
      BY ONLY <3>1, <3>2, <3>3
  <2>2. a \in Nat
    BY DEF ACTION_CREATERESPONSE, ACTION_UNKNOWN
  <2>3. Len(b) < LEN_MOD
    BY ONLY <2>1, SmallLengths
  <2>4. ServerPdu(a, <<>>, b) \in Bytes
    BY ONLY <2>1, <2>2, <2>3, ServerPduFacts
  <2>5. QED
    BY <1>3, <2>4
<1>4. QED
  BY <1>1, <1>2, <1>3

\* The server sends something else.
LEMMA ServerOtherStep ==
  ASSUME IInv, UNCHANGED <<thread, up>>, NEW x \in 1..attempt, Live(x), server_other(x)
  PROVE  IInv'
<1>1. TypeOK
  BY DEF IInv
<1>2. x \in Tunnel
  BY <1>1, TypeFacts DEF Tunnel
<1>3. told[x] \in Seq(Bytes) /\ told \in [Tunnel -> Seq(Bytes)]
  BY <1>1, <1>2, TypeFacts DEF TypeOK
<1>4. traffic' \in 0..MaxPdus
  BY <1>1, Counted DEF server_other
<1>5. UNCHANGED <<thread, up, taken, peer, broken, heard>> /\ told' = told
  BY DEF server_other
<1>6. \E u : /\ down' = [down EXCEPT ![x] = @ \o u]
             /\ \/ u = <<ACTION_DATA, 0, 0, 0>>
                \/ \E a \in {ACTION_CREATERESPONSE, ACTION_UNKNOWN} :
                     \E b \in {<<>>, << 0 >>, << 1 >>} :
                       /\ u = ServerPdu(a, <<>>, b)
                       /\ (a = ACTION_CREATERESPONSE /\ b = << 0 >> => peer[x] = "bound")
  <2>1. << 1 >> # << 0 >> /\ <<>> # << 0 >>
    OBVIOUS
  <2>2. QED
    BY <2>1, Zenon DEF server_other, Write
<1>7. PICK u : /\ down' = [down EXCEPT ![x] = @ \o u]
               /\ \/ u = <<ACTION_DATA, 0, 0, 0>>
                  \/ \E a \in {ACTION_CREATERESPONSE, ACTION_UNKNOWN} :
                       \E b \in {<<>>, << 0 >>, << 1 >>} :
                         /\ u = ServerPdu(a, <<>>, b)
                         /\ (a = ACTION_CREATERESPONSE /\ b = << 0 >> => peer[x] = "bound")
  BY <1>6
<1>8. u \in Bytes /\ IsDown(told[x], peer[x] = "bound", u, Len(told[x]), Len(told[x]))
  BY ONLY <1>3, <1>7, OtherFrame
<1> DEFINE ts == told[x]
<1>9. /\ told' \in [Tunnel -> Seq(Bytes)] /\ Becomes(told, told', x, ts)
      /\ IsDown(ts, peer[x] = "bound", u, Len(told[x]), Len(ts))
  BY <1>2, <1>3, <1>5, <1>8, BecomesFacts
<1>10. ts \in Seq(Bytes) /\ (ts = told[x] \/ \E q \in Bytes : ts = Append(told[x], q))
  BY <1>3
<1> HIDE DEF ts
<1>11. UNCHANGED <<thread, up, taken, peer, broken, heard>>
  BY <1>5
<1>12. QED
  BY ONLY IInv, Live(x), x \in 1..attempt, <1>4, <1>7, <1>8, <1>9, <1>10, <1>11, ServerWrites

\* What the server takes is a whole PDU, and the stream of the client goes on
\* after it.
LEMMA UpTaken ==
  ASSUME IInv, NEW x \in Tunnel, UpComplete(x)
  PROVE  LET pdu == UpPdu(x)
             k   == taken[x] + Len(pdu)
         IN  /\ k \in Nat /\ k <= Len(up[x]) /\ Body(pdu) \in Bytes
             /\ pdu[1] = ACTION_CREATEREQUEST => Upward(up[x], k, sent[x], heard[x])
             /\ pdu[1] = ACTION_DATA => Upward(up[x], k, sent[x], Append(heard[x], Body(pdu)))
<1> DEFINE s == up[x]
           i == taken[x]
           h == UpHeader(x)
           H == HeaderLen(h)
           P == PayloadLen(h)
           j == i + MIN_HEADER_LEN
           k == i + (H + P)
           pdu == UpPdu(x)
<1>1. s \in Bytes /\ i \in Nat /\ Len(s) \in Nat /\ sent[x] \in Seq(Bytes) /\ heard[x] \in Seq(Bytes)
      /\ Upward(s, i, sent[x], heard[x])
  BY TypeFacts DEF IInv, UpInv
<1>2. Len(s) - i >= MIN_HEADER_LEN /\ H >= MIN_HEADER_LEN /\ Len(s) - i >= H + P
      /\ h = Part(s, i, j) /\ MIN_HEADER_LEN = 4
  <2>1. Len(s) - i >= MIN_HEADER_LEN /\ H >= MIN_HEADER_LEN /\ Len(s) - i >= H + P
    BY DEF UpComplete
  <2>2. h = Part(s, i, j)
    BY DEF UpHeader, Part
  <2>3. QED
    BY <2>1, <2>2 DEF MIN_HEADER_LEN
<1>3. pdu = SubSeq(s, i + 1, i + H + P)
  BY DEF UpPdu
<1> HIDE DEF s, i, h, pdu
<1>4. j \in i..Len(s) /\ j \in Nat /\ j - i = 4 /\ j <= Len(s) /\ i <= j
  BY ONLY <1>1, <1>2
<1> HIDE DEF j
<1>5. h \in Bytes /\ Len(h) = 4
  BY ONLY <1>1, <1>2, <1>4, BytesPart
<1>6. H \in Nat /\ P \in Nat
  <2>1. Len(h) >= MIN_HEADER_LEN
    BY ONLY <1>2, <1>5
  <2>2. QED
    BY ONLY <1>5, <2>1, HeaderNumbers
<1>7. RestLen(h) = H - 4 + P
  BY <1>2 DEF RestLen
<1> HIDE DEF H, P
<1>8. /\ k = j + RestLen(h) /\ k \in Nat /\ k <= Len(s) /\ i + H + P = k
      /\ k \in j..Len(s) /\ k - i = H + P
  <2>1. j = i + 4
    BY ONLY <1>1, <1>4
  <2>2. QED
    BY ONLY <1>1, <1>2, <1>6, <1>7, <2>1
<1> HIDE DEF k
<1>9. pdu = Part(s, i, k)
  BY <1>3, <1>8 DEF Part
<1>10. pdu = h \o Part(s, j, k)
  <2>1. Part(s, i, j) \o Part(s, j, k) = Part(s, i, k)
    BY ONLY <1>1, <1>4, <1>8, PartsJoined DEF Bytes
  <2>2. QED
    BY <1>2, <1>9, <2>1
<1>11. WholePdu(s, i, k, pdu)
  <2>1. j = i + MIN_HEADER_LEN /\ HeaderLen(h) >= MIN_HEADER_LEN
    BY <1>2 DEF j, H
  <2>2. QED
    BY ONLY <1>1, <1>2, <1>4, <1>8, <1>10, <2>1, TwoReads
<1>12. pdu \in Bytes /\ Len(pdu) = k - i /\ Body(pdu) \in Bytes
  <2>1. pdu \in Bytes /\ Len(pdu) = HeaderLen(pdu) + PayloadLen(pdu) /\ Len(pdu) = k - i
        /\ HeaderLen(pdu) \in Nat /\ PayloadLen(pdu) \in Nat
    BY <1>11 DEF WholePdu
  <2>2. Body(pdu) \in Bytes
    BY ONLY <2>1, BodyBytes
  <2>3. QED
    BY <2>1, <2>2
<1>13. k = taken[x] + Len(pdu)
  <2>1. k = i + Len(pdu)
    BY ONLY <1>1, <1>8, <1>12
  <2>2. QED
    BY <2>1 DEF i
<1>14. pdu[1] = h[1]
  <2>1. Len(pdu) >= MIN_HEADER_LEN /\ pdu = Part(s, i, i + Len(pdu)) /\ i + Len(pdu) <= Len(s)
    BY <1>8, <1>11, <1>13 DEF WholePdu, i
  <2>2. j = i + MIN_HEADER_LEN
    BY DEF j
  <2>3. LET g == Part(s, i, j)
        IN  g[1] = pdu[1] /\ HeaderLen(g) = HeaderLen(pdu) /\ PayloadLen(g) = PayloadLen(pdu)
    BY ONLY <1>1, <1>4, <1>12, <2>1, <2>2, HeaderOfPdu
  <2>4. QED
    BY <1>2, <2>3
<1>15. /\ pdu[1] = ACTION_CREATEREQUEST => Upward(s, k, sent[x], heard[x])
       /\ pdu[1] = ACTION_DATA => Upward(s, k, sent[x], Append(heard[x], Body(pdu)))
  <2>1. h = Part(s, i, i + MIN_HEADER_LEN) /\ i + MIN_HEADER_LEN <= Len(s)
        /\ k = i + (HeaderLen(h) + PayloadLen(h))
    BY <1>2, <1>4 DEF j, k, H, P
  <2>2. QED
    BY ONLY <1>1, <1>9, <1>12, <1>14, <2>1, UpRead
<1>16. QED
  BY <1>8, <1>12, <1>13, <1>15 DEF s, pdu

\* The server takes a PDU of the client.
LEMMA ServerReadStep ==
  ASSUME IInv, UNCHANGED <<thread, up, traffic>>, NEW x \in 1..attempt, Live(x), server_read(x)
  PROVE  IInv'
<1> DEFINE pdu == UpPdu(x)
           k   == taken[x] + Len(pdu)
<1>1. TypeOK /\ UpInv
  BY DEF IInv
<1>2. x \in Tunnel
  BY <1>1, TypeFacts DEF Tunnel
<1>3. /\ UpComplete(x) /\ taken' = [taken EXCEPT ![x] = k] /\ UNCHANGED <<broken, told>>
  BY DEF server_read
<1>4. /\ k \in Nat /\ k <= Len(up[x]) /\ Body(pdu) \in Bytes
      /\ pdu[1] = ACTION_CREATEREQUEST => Upward(up[x], k, sent[x], heard[x])
      /\ pdu[1] = ACTION_DATA => Upward(up[x], k, sent[x], Append(heard[x], Body(pdu)))
  BY <1>2, <1>3, UpTaken
<1>5. /\ down[x] \in Bytes /\ told[x] \in Seq(Bytes) /\ heard[x] \in Seq(Bytes)
  BY <1>1, <1>2, TypeFacts
<1>6. /\ down \in [Tunnel -> Bytes] /\ taken \in [Tunnel -> Nat] /\ traffic \in 0..MaxPdus
      /\ peer \in [Tunnel -> {"silent", "connected", "bound", "refused"}]
      /\ heard \in [Tunnel -> Seq(Bytes)] /\ told \in [Tunnel -> Seq(Bytes)]
  BY <1>1 DEF TypeOK
<1>7. broken \in [Tunnel -> BOOLEAN]
  BY <1>1 DEF TypeOK
<1>8. \/ /\ pdu[1] = ACTION_CREATEREQUEST /\ peer[x] = "connected"
         /\ Bind(x, Body(pdu))
      \/ /\ pdu[1] = ACTION_DATA
         /\ heard' = [heard EXCEPT ![x] = Append(@, Body(pdu))]
         /\ UNCHANGED <<peer, down>>
  BY DEF server_read
<1> HIDE DEF k, pdu
<1>9. taken' \in [Tunnel -> Nat] /\ Becomes(taken, taken', x, k)
  BY <1>2, <1>3, <1>4, <1>6, BecomesFacts
<1>10. /\ Becomes(told, told', x, told[x]) /\ Becomes(broken, broken', x, broken[x])
       /\ told' \in [Tunnel -> Seq(Bytes)] /\ broken' \in [Tunnel -> BOOLEAN]
  <2>1. told' = told /\ broken' = broken
    BY <1>3
  <2>2. Becomes(told, told, x, told[x]) /\ Becomes(broken, broken, x, broken[x])
    BY ONLY <1>2, BecomesFacts, Zenon
  <2>3. QED
    BY <1>6, <1>7, <2>1, <2>2, Zenon
<1>11. traffic' \in 0..MaxPdus /\ UNCHANGED <<thread, up>>
  BY <1>6
<1>12. CASE pdu[1] = ACTION_CREATEREQUEST /\ peer[x] = "connected" /\ Bind(x, Body(pdu))
  <2>1. \E q \in {"bound", "refused"}, b \in {<< 0 >>, << 1 >>} :
          /\ b = << 0 >> => q = "bound"
          /\ peer' = [peer EXCEPT ![x] = q]
          /\ down' = [down EXCEPT ![x] = @ \o ServerPdu(ACTION_CREATERESPONSE, <<>>, b)]
          /\ heard' = heard
    <3>1. << 1 >> # << 0 >>
      OBVIOUS
    <3>2. QED
      BY <1>12, <3>1, Zenon DEF Bind, Write
  <2>2. PICK q \in {"bound", "refused"}, b \in {<< 0 >>, << 1 >>} :
          /\ b = << 0 >> => q = "bound"
          /\ peer' = [peer EXCEPT ![x] = q]
          /\ down' = [down EXCEPT ![x] = @ \o ServerPdu(ACTION_CREATERESPONSE, <<>>, b)]
          /\ heard' = heard
    BY <2>1
  <2> DEFINE u == ServerPdu(ACTION_CREATERESPONSE, <<>>, b)
             d == down[x] \o u
  <2>3. u \in Bytes /\ IsDown(told[x], q = "bound", u, Len(told[x]), Len(told[x]))
    <3>1. ACTION_CREATERESPONSE \in {ACTION_CREATERESPONSE, ACTION_UNKNOWN}
          /\ b \in {<<>>, << 0 >>, << 1 >>}
      OBVIOUS
    <3>2. \E a1 \in {ACTION_CREATERESPONSE, ACTION_UNKNOWN} : \E b1 \in {<<>>, << 0 >>, << 1 >>} :
            /\ u = ServerPdu(a1, <<>>, b1)
            /\ (a1 = ACTION_CREATERESPONSE /\ b1 = << 0 >> => q = "bound")
      BY <2>2, <3>1
    <3>3. QED
      BY ONLY <1>5, <3>2, OtherFrame
  <2> HIDE DEF u
  <2>4. d \in Bytes
    BY <1>5, <2>3, ConcatProperties DEF Bytes
  <2>5. d = down[x] \/ \E v \in Bytes : d = down[x] \o v
    BY <2>3
  <2>6. ASSUME NEW from \in Nat, Downward(down[x], from, Len(got[x]), told[x], peer[x] = "bound")
        PROVE  Downward(d, from, Len(got[x]), told[x], q = "bound")
    <3>1. told[x] = told[x] \/ \E p \in Bytes : told[x] = Append(told[x], p)
      OBVIOUS
    <3>2. peer[x] = "bound" => q = "bound"
      BY <1>12
    <3>3. Downward(down[x] \o u, from, Len(got[x]), told[x], q = "bound")
      BY ONLY <1>5, <2>3, <2>6, <3>1, <3>2, DownWritten
    <3>4. QED
      BY <3>3
  <2> HIDE DEF d
  <2>7. down' \in [Tunnel -> Bytes] /\ Becomes(down, down', x, d)
    BY <1>2, <1>6, <2>2, <2>4, BecomesFacts DEF d, u
  <2>8. /\ peer' \in [Tunnel -> {"silent", "connected", "bound", "refused"}]
        /\ Becomes(peer, peer', x, q)
    <3>1. q \in {"silent", "connected", "bound", "refused"}
      OBVIOUS
    <3>2. /\ [peer EXCEPT ![x] = q] \in [Tunnel -> {"silent", "connected", "bound", "refused"}]
          /\ Becomes(peer, [peer EXCEPT ![x] = q], x, q)
      <4>1. peer \in [Tunnel -> {"silent", "connected", "bound", "refused"}]
        BY <1>6
      <4>2. QED
        BY ONLY <1>2, <3>1, <4>1 DEF Becomes
    <3>3. QED
      BY <2>2, <3>2
  <2>9. heard' \in [Tunnel -> Seq(Bytes)] /\ Becomes(heard, heard', x, heard[x])
    BY <1>2, <1>6, <2>2, BecomesFacts
  <2>10. peer[x] = "bound" => q = "bound"
    BY <1>12
  <2>11. Upward(up[x], k, sent[x], heard[x])
    BY <1>4, <1>12
  <2>12. QED
    BY ONLY IInv, Live(x), x \in 1..attempt, <1>4, <1>5, <1>9, <1>10, <1>11, <2>4, <2>5, <2>6,
            <2>7, <2>8, <2>9, <2>10, <2>11, ServerChanges
<1>13. CASE /\ pdu[1] = ACTION_DATA
            /\ heard' = [heard EXCEPT ![x] = Append(@, Body(pdu))]
            /\ UNCHANGED <<peer, down>>
  <2> DEFINE hs == Append(heard[x], Body(pdu))
  <2>1. hs \in Seq(Bytes)
    BY <1>4, <1>5, AppendProperties
  <2>2. Upward(up[x], k, sent[x], hs)
    BY <1>4, <1>13
  <2> HIDE DEF hs
  <2>3. heard' \in [Tunnel -> Seq(Bytes)] /\ Becomes(heard, heard', x, hs)
    BY <1>2, <1>6, <1>13, <2>1, BecomesFacts DEF hs
  <2>4. /\ Becomes(peer, peer', x, peer[x]) /\ Becomes(down, down', x, down[x])
        /\ peer' \in [Tunnel -> {"silent", "connected", "bound", "refused"}]
        /\ down' \in [Tunnel -> Bytes]
    BY <1>2, <1>6, <1>13, BecomesFacts
  <2>5. ASSUME NEW from \in Nat, Downward(down[x], from, Len(got[x]), told[x], peer[x] = "bound")
        PROVE  Downward(down[x], from, Len(got[x]), told[x], peer[x] = "bound")
    BY <2>5
  <2>6. QED
    BY ONLY IInv, Live(x), x \in 1..attempt, <1>4, <1>5, <1>9, <1>10, <1>11, <2>2, <2>3, <2>4,
            <2>5, ServerChanges
<1>14. QED
  BY <1>8, <1>12, <1>13

\* Every step of the server keeps the invariant.
LEMMA ServerKeeps ==
  ASSUME IInv, ServerStep
  PROVE  IInv'
<1>1. PICK x \in 1..attempt :
        /\ Live(x) /\ UNCHANGED <<thread, up>>
        /\ \/ server_send(x) \/ server_other(x)
           \/ /\ server_syn_ack(x) \/ server_read(x) \/ lose_connection(x)
              /\ UNCHANGED traffic
  BY DEF ServerStep
<1>2. CASE server_send(x)
  BY <1>1, <1>2, ServerSendStep
<1>3. CASE server_other(x)
  BY <1>1, <1>3, ServerOtherStep
<1>4. CASE server_read(x) /\ UNCHANGED traffic
  BY <1>1, <1>4, ServerReadStep
<1>5. CASE (server_syn_ack(x) \/ lose_connection(x)) /\ UNCHANGED traffic
  BY <1>1, <1>5, PeerStep
<1>6. QED
  BY <1>1, <1>2, <1>3, <1>4, <1>5

-----------------------------------------------------------------------------
(* The theorems *)

\* The first state satisfies the invariant.
LEMMA InitInv == Init => IInv
<1> SUFFICES ASSUME Init PROVE IInv
  OBVIOUS
<1>1. /\ op = "none" /\ attempt = 0 /\ udp = 0 /\ result = "none" /\ header = <<>> /\ traffic = 0
      /\ request \in [Tunnel -> {[request_id |-> 0, security_cookie |-> 0]}]
      /\ up = [t \in Tunnel |-> <<>>] /\ taken = [t \in Tunnel |-> 0]
      /\ down = [t \in Tunnel |-> <<>>] /\ read = [t \in Tunnel |-> 0]
      /\ peer = [t \in Tunnel |-> "silent"]
      /\ sent = [t \in Tunnel |-> <<>>] /\ heard = [t \in Tunnel |-> <<>>]
      /\ told = [t \in Tunnel |-> <<>>] /\ got = [t \in Tunnel |-> <<>>]
  BY DEF Init, None
<1>2. <<>> \in Bytes /\ Len(<<>>) = 0 /\ <<>> \in Seq(Bytes)
  BY EmptySeq DEF Bytes
<1>3. MaxAttempts \in Nat /\ MaxPdus \in Nat
  BY TunnelAssumption
<1>4. \A t \in Tunnel : /\ up[t] = <<>> /\ down[t] = <<>> /\ taken[t] = 0 /\ read[t] = 0
                        /\ sent[t] = <<>> /\ heard[t] = <<>> /\ told[t] = <<>> /\ got[t] = <<>>
  BY <1>1
<1>5. TypeOK
  <2>1. request \in [Tunnel -> InitiateRequest]
    BY <1>1 DEF InitiateRequest
  <2>2. \A t \in Tunnel : taken[t] <= Len(up[t]) /\ read[t] <= Len(down[t])
    BY <1>2, <1>4
  <2>3. broken \in [Tunnel -> BOOLEAN]
    BY DEF Init
  <2>4. /\ {up, down} \subseteq [Tunnel -> Bytes] /\ {taken, read} \subseteq [Tunnel -> Nat]
        /\ {sent, heard, told, got} \subseteq [Tunnel -> Seq(Bytes)]
        /\ peer \in [Tunnel -> {"silent", "connected", "bound", "refused"}]
    BY <1>1, <1>2
  <2>5. attempt \in 0..MaxAttempts /\ udp \in 0..attempt /\ traffic \in 0..MaxPdus
    BY <1>1, <1>3
  <2>6. header \in Bytes /\ Len(header) \in {0, MIN_HEADER_LEN}
    BY <1>1, <1>2
  <2>7. QED
    BY <1>1, <2>1, <2>2, <2>3, <2>4, <2>5, <2>6 DEF TypeOK
<1>6. ThreadInv /\ OnBoundTunnel
  BY <1>1, <1>4 DEF ThreadInv, OnBoundTunnel, None
<1>7. FreshInv
  BY <1>4 DEF FreshInv
<1>8. GotInv
  BY <1>2, <1>4 DEF GotInv
<1>9. DownInv
  <2>1. \A t \in Tunnel : ~Reading(t)
    BY <1>1, <1>3 DEF Reading, Tunnel
  <2>2. QED
    BY <2>1 DEF DownInv
<1>10. UpInv
  <2> SUFFICES ASSUME NEW t \in Tunnel PROVE Upward(up[t], taken[t], sent[t], heard[t])
    BY DEF UpInv
  <2>1. Upward(<<>>, 0, <<>>, <<>>)
    BY ONLY <1>2, UpNew
  <2>2. QED
    BY <1>4, <2>1
<1>11. QED
  BY <1>5, <1>6, <1>7, <1>8, <1>9, <1>10 DEF IInv

\* The inductive invariant: client and server never lose each other's PDU
\* boundaries, however migrations, subheaders, stray PDUs, lost connections and
\* failed calls follow each other, until the client sends a PDU that is too long
\* (read_tunnel_pdu, tunnel_pdu, recv_pdu, send_pdu, enable_udp).
THEOREM Invariance == Spec => []IInv
<1>1. ASSUME IInv, [Next]_vars PROVE IInv'
  <2>1. CASE Next
    BY <1>1, <2>1, ThreadKeeps, ServerKeeps DEF Next
  <2>2. CASE UNCHANGED vars
    <3>1. UNCHANGED <<op, attempt, udp, result, header, request, read, sent, got, taken, peer,
                      broken, heard, told, up, down, traffic>>
      BY <2>2 DEF vars, thread, server
    <3>2. TypeOK' /\ ThreadInv' /\ FreshInv' /\ GotInv' /\ OnBoundTunnel'
      BY <1>1, <3>1 DEF IInv, TypeOK, ThreadInv, FreshInv, GotInv, OnBoundTunnel, Current
    <3>3. DownInv' /\ UpInv'
      BY <1>1, <3>1 DEF IInv, DownInv, UpInv, DownOK, Start, Reading, Current
    <3>4. QED
      BY <3>2, <3>3 DEF IInv
  <2>3. QED
    BY <1>1, <2>1, <2>2
<1>2. QED
  BY <1>1, InitInv, PTL DEF Spec

\* Types: no call is left half done, and nobody reads beyond what was written
\* (read_tunnel_pdu, UdpTunnel).
THEOREM TypeCorrect == Spec => []TypeOK
<1>1. IInv => TypeOK
  BY DEF IInv
<1>2. QED
  BY <1>1, Invariance, PTL

\* The session is on, and sends into, only tunnels the server has bound
\* (establish, enable_udp).
THEOREM BoundTunnel == Spec => []OnBoundTunnel
<1>1. IInv => OnBoundTunnel
  BY DEF IInv
<1>2. QED
  BY <1>1, Invariance, PTL

\* The server gets the PDUs given to send_pdu, in order and each once, up to the
\* first that is too long for PayloadLength (send_pdu, tunnel_pdu).
THEOREM UpstreamDelivery == Spec => []DeliveredUpToOversize
<1>1. ASSUME IInv PROVE DeliveredUpToOversize
  <2> SUFFICES ASSUME NEW t \in Tunnel, NEW i \in 1..Len(heard[t])
               PROVE  \/ i <= Len(sent[t]) /\ heard[t][i] = sent[t][i]
                      \/ \E j \in 1..Len(sent[t]) : j <= i /\ Len(sent[t][j]) >= LEN_MOD
    BY DEF DeliveredUpToOversize
  <2>1. Upward(up[t], taken[t], sent[t], heard[t])
    BY <1>1 DEF IInv, UpInv
  <2>2. Len(sent[t]) \in Nat /\ Len(heard[t]) \in Nat
    <3>1. sent[t] \in Seq(Bytes) /\ heard[t] \in Seq(Bytes)
      BY <1>1, TypeFacts DEF IInv
    <3>2. QED
      BY <3>1, LenProperties
  <2>3. CASE OnTrack(up[t], taken[t], sent[t], heard[t])
    <3>1. Len(heard[t]) <= Len(sent[t]) /\ heard[t][i] = sent[t][i]
      BY <2>3 DEF OnTrack
    <3>2. i <= Len(sent[t])
      BY ONLY <2>2, <3>1, i \in 1..Len(heard[t])
    <3>3. QED
      BY <3>1, <3>2
  <2>4. CASE Derailed(sent[t], heard[t])
    <3>1. PICK j \in 1..Len(sent[t]) :
            /\ Len(sent[t][j]) >= LEN_MOD
            /\ \A n \in 1..(j - 1) : heard[t][n] = sent[t][n]
      BY <2>4 DEF Derailed
    <3>2. j <= i \/ (i \in 1..(j - 1) /\ i <= Len(sent[t]))
      BY ONLY <2>2, i \in 1..Len(heard[t]), j \in 1..Len(sent[t])
    <3>3. QED
      BY <3>1, <3>2
  <2>5. QED
    BY <2>1, <2>3, <2>4 DEF Upward
<1>2. QED
  BY <1>1, Invariance, PTL

\* Only an accepted migration moves the session to another tunnel (enable_udp).
THEOREM Migration == Spec => FailedMigrationKeepsTunnel
<1>1. ASSUME [Next]_vars
      PROVE  [udp' # udp => result' = "ok" /\ udp' = attempt /\ op = "establish"]_vars
  <2>1. SUFFICES ASSUME Next, udp' # udp
                 PROVE  result' = "ok" /\ udp' = attempt /\ op = "establish"
    BY <1>1 DEF vars
  <2>2. CASE ServerStep
    BY <2>1, <2>2 DEF ServerStep, thread
  <2>3. CASE ThreadStep
    <3>1. CASE read_tunnel_rest
      BY <2>1, <3>1 DEF read_tunnel_rest, CreateReply, TunnelPdu, Fail, Return
    <3>2. CASE read_tunnel_header
      BY <2>1, <3>2 DEF read_tunnel_header, Fail
    <3>3. CASE syn_acknowledged \/ syn_timeout \/ io_error
      BY <2>1, <3>3 DEF syn_acknowledged, syn_timeout, io_error, Fail
    <3>4. CASE (\E r \in Requests : enable_udp(r)) \/ recv_pdu \/ send_fails
      BY <2>1, <3>4 DEF enable_udp, recv_pdu, send_fails
    <3>5. CASE \E p \in PDUs : send_pdu(p)
      BY <2>1, <3>5 DEF send_pdu
    <3>6. QED
      BY <2>3, <3>1, <3>2, <3>3, <3>4, <3>5 DEF ThreadStep, Progress
  <2>4. QED
    BY <2>1, <2>2, <2>3 DEF Next
<1>2. QED
  BY <1>1, PTL DEF Spec, FailedMigrationKeepsTunnel

\* A PDU that recv_pdu returns is the next one the server has sent.
LEMMA DataDelivered ==
  ASSUME IInv, read_tunnel_rest, UNCHANGED <<server, down, traffic>>, got' # got
  PROVE  Downstream!Next
<1> DEFINE t   == Current
           n   == Len(got[t])
           k   == read[t] + RestLen(header)
           pdu == header \o SubSeq(down[t], read[t] + 1, k)
<1>1. /\ header # <<>> /\ Available(t) >= RestLen(header)
      /\ (op = "establish" /\ CreateReply(pdu)) \/ (op = "recv_pdu" /\ TunnelPdu(pdu))
  BY DEF read_tunnel_rest
<1>2. /\ t \in Tunnel /\ Body(pdu) \in Bytes
      /\ IsData(pdu) => n + 1 <= Len(told[t]) /\ Body(pdu) = told[t][n + 1]
  BY <1>1, RestRead
<1> HIDE DEF pdu
<1>3. op = "recv_pdu" /\ IsData(pdu) /\ got' = [got EXCEPT ![udp] = Append(@, Body(pdu))]
  BY <1>1 DEF CreateReply, TunnelPdu, Fail
<1>4. t = udp /\ told' = told
  BY <1>3 DEF Current, server
<1> HIDE DEF t
<1>5. got[t] \in Seq(Bytes) /\ told[t] \in Seq(Bytes) /\ \A i \in 1..n : got[t][i] = told[t][i]
  BY <1>2, TypeFacts DEF IInv, GotInv
<1>6. n \in Nat /\ Len(told[t]) \in Nat
  BY <1>5, LenProperties
<1>7. n + 1 <= Len(told[t]) /\ Body(pdu) = told[t][n + 1]
  BY <1>2, <1>3
<1>8. Append(got[t], Body(pdu)) = SubSeq(told[t], 1, n + 1)
  BY ONLY <1>2, <1>5, <1>7, LongerPrefix
<1>9. 1 \in 1..(Len(told[t]) - n)
  BY ONLY <1>6, <1>7
<1>10. Downstream!Deliver(t, 1)
  BY <1>3, <1>4, <1>8 DEF Downstream!Deliver
<1>11. QED
  BY <1>2, <1>9, <1>10 DEF Downstream!Next

\* A data PDU of the server is one more item.
LEMMA DataSent ==
  ASSUME IInv, NEW x \in 1..attempt, server_send(x), got' = got
  PROVE  Downstream!Next
<1>1. PICK p \in PDUs : told' = [told EXCEPT ![x] = Append(@, p)]
  BY DEF server_send
<1>2. x \in Tunnel
  BY TypeFacts DEF Tunnel, IInv
<1>3. told[x] \in Seq(Bytes) /\ told \in [Tunnel -> Seq(Bytes)] /\ p \in Bytes
  BY <1>2, TypeFacts, TunnelAssumption DEF IInv, TypeOK
<1> DEFINE ts == Append(told[x], p)
<1>4. Len(ts) = Len(told[x]) + 1 /\ ts[Len(told[x]) + 1] = p
  BY <1>3, AppendProperties
<1>5. told'[x] = ts
  BY <1>1, <1>2, <1>3
<1> HIDE DEF ts
<1>6. Len(told'[x]) = Len(told[x]) + 1 /\ told'[x][Len(told[x]) + 1] = p
  BY <1>4, <1>5
<1>7. Downstream!Send(x)
  BY <1>1, <1>6 DEF Downstream!Send
<1>8. QED
  BY <1>2, <1>7 DEF Downstream!Next

\* Each tunnel implements ordered delivery from the server to the client
\* (recv_pdu, read_tunnel_pdu).
THEOREM DownstreamRefinement == Spec => ReceivesInOrder
<1>1. Init => Downstream!Init
  BY DEF Init, Downstream!Init
<1>2. ASSUME IInv, [Next]_vars PROVE [Downstream!Next]_<<told, got>>
  <2>1. CASE UNCHANGED vars
    BY <2>1 DEF vars, thread, server
  <2>2. CASE ServerStep
    <3>1. PICK x \in 1..attempt :
            /\ UNCHANGED <<thread, up>>
            /\ \/ server_send(x) \/ server_other(x)
               \/ server_syn_ack(x) \/ server_read(x) \/ lose_connection(x)
      BY <2>2 DEF ServerStep
    <3>2. got' = got
      BY <3>1 DEF thread
    <3>3. CASE server_send(x)
      BY <1>2, <3>2, <3>3, DataSent
    <3>4. CASE server_other(x) \/ server_syn_ack(x) \/ server_read(x) \/ lose_connection(x)
      BY <3>2, <3>4 DEF server_other, server_syn_ack, server_read, lose_connection
    <3>5. QED
      BY <3>1, <3>3, <3>4
  <2>3. CASE ThreadStep
    <3>1. told' = told /\ UNCHANGED <<server, down>>
      BY <2>3 DEF ThreadStep, Progress, server
    <3>2. CASE read_tunnel_rest /\ UNCHANGED <<server, down, traffic>>
      BY <1>2, <3>1, <3>2, DataDelivered
    <3>3. CASE read_tunnel_header
      BY <3>1, <3>3 DEF read_tunnel_header, Fail
    <3>4. CASE syn_acknowledged \/ syn_timeout \/ io_error
      BY <3>1, <3>4 DEF syn_acknowledged, syn_timeout, io_error, Fail
    <3>5. CASE (\E r \in Requests : enable_udp(r)) \/ recv_pdu \/ send_fails
      BY <3>1, <3>5 DEF enable_udp, recv_pdu, send_fails
    <3>6. CASE \E p \in PDUs : send_pdu(p)
      BY <3>1, <3>6 DEF send_pdu
    <3>7. QED
      BY <2>3, <3>2, <3>3, <3>4, <3>5, <3>6 DEF ThreadStep, Progress
  <2>4. QED
    BY <1>2, <2>1, <2>2, <2>3 DEF Next
<1>3. QED
  BY <1>1, <1>2, Invariance, PTL DEF Spec, ReceivesInOrder, Downstream!Spec
=============================================================================
