---------------------------- MODULE CodecsProofs ----------------------------
(***************************************************************************)
(* Proofs about the conversions: that a batch of input events means to the *)
(* server what the user did, for any events and any number of them.        *)
(***************************************************************************)
EXTENDS Codecs, SequenceTheorems, TLAPS

-----------------------------------------------------------------------------
(* Input *)

\* The numbers of five bits and of three
Flags == 0..31
EventCodes == 0..7

BurstT == [bytes : Seq(Nat), times : Nat \ {0}, before : Nat, start : Nat]

\* What the user did is what the events' bytes mean
Happened == happened = [k \in 1..Len(events) |->
                          [meaning |-> Meaning(events[k].bytes), times |-> events[k].times]]

\* No event comes after the last
Within == \A k \in 1..Len(events) : events[k].before + events[k].times <= num

InputInv ==
  /\ events \in Seq(BurstT) /\ Happened /\ Within
  /\ reading # "typing" => sent_pdu = input_pdu
  /\ EventsArrive

-----------------------------------------------------------------------------
(* Events *)

\* A 16-bit number is read back from its two bytes.
LEMMA Word ==
  ASSUME NEW v \in Word16
  PROVE  /\ le16(v) \in Seq(Nat) /\ Len(le16(v)) = 2
         /\ le16(v)[1] + (256 * le16(v)[2]) = v
<1> DEFINE lo == v % 256
           hi == v \div 256
<1>1. lo \in Nat /\ hi \in Nat /\ lo + (256 * hi) = v
  BY DEF Word16
<1> HIDE DEF lo, hi
<1>2. <<lo, hi>> \in Seq(Nat) /\ Len(<<lo, hi>>) = 2 /\ <<lo, hi>>[1] + (256 * <<lo, hi>>[2]) = v
  BY <1>1
<1>3. QED
  BY <1>2 DEF le16, lo, hi

\* b is s, which has n bytes, and the word v behind it
Added(b, s, n, v) ==
  /\ b \in Seq(Nat) /\ Len(b) = n + 2
  /\ \A k \in 1..n : b[k] = s[k]
  /\ b[n + 1] + (256 * b[n + 2]) = v

\* What a word appended to n bytes leaves them and adds to them.
LEMMA WordAdded ==
  ASSUME NEW s \in Seq(Nat), NEW n \in Nat, Len(s) = n, NEW v \in Word16,
         NEW b, b = s \o le16(v)
  PROVE  Added(b, s, n, v)
<1> DEFINE w == le16(v)
<1>1. w \in Seq(Nat) /\ Len(w) = 2 /\ w[1] + (256 * w[2]) = v
  BY Word
<1>2. b = s \o w
  OBVIOUS
<1> HIDE DEF w
<1>3. /\ b \in Seq(Nat) /\ Len(b) = n + 2
      /\ \A k \in 1..(n + 2) : b[k] = IF k <= n THEN s[k] ELSE w[k - n]
  <2>1. /\ s \o w \in Seq(Nat) /\ Len(s \o w) = Len(s) + Len(w)
        /\ \A k \in 1..(Len(s) + Len(w)) :
             (s \o w)[k] = IF k <= Len(s) THEN s[k] ELSE w[k - Len(s)]
    BY ONLY s \in Seq(Nat), <1>1, ConcatProperties
  <2>2. QED
    BY <1>1, <1>2, <2>1
<1>4. \A k \in 1..n : b[k] = s[k]
  BY <1>3
<1>5. b[n + 1] = w[1] /\ b[n + 2] = w[2]
  <2>1. /\ n + 1 \in 1..(n + 2) /\ n + 2 \in 1..(n + 2)
        /\ (n + 1) - n = 1 /\ (n + 2) - n = 2 /\ ~(n + 1 <= n) /\ ~(n + 2 <= n)
    OBVIOUS
  <2>2. QED
    BY <1>3, <2>1
<1>6. QED
  BY <1>1, <1>3, <1>4, <1>5 DEF Added

\* The first byte of an event holds its code and its flags.
LEMMA Header ==
  ASSUME NEW code \in EventCodes, NEW flags \in Flags
  PROVE  /\ event_header(code, flags) \in Nat
         /\ event_header(code, flags) \div 32 = code
         /\ event_header(code, flags) % 32 = flags
BY DEF event_header, EventCodes, Flags

\* A scancode event means the key and what was done to it.
LEMMA ScancodeMeans ==
  ASSUME NEW flags \in Flags, NEW key \in Nat
  PROVE  LET b == <<event_header(0, flags), key>> IN
         b \in Seq(Nat) /\ Meaning(b) = <<"scancode", flags, key>>
<1> DEFINE h == event_header(0, flags)
<1>1. h \in Nat /\ h \div 32 = 0 /\ h % 32 = flags
  <2>1. 0 \in EventCodes
    BY DEF EventCodes
  <2>2. QED
    BY <2>1, Header
<1> HIDE DEF h
<1>2. <<h, key>> \in Seq(Nat)
  BY <1>1
<1>3. Meaning(<<h, key>>) = <<"scancode", flags, key>>
  BY <1>1 DEF Meaning
<1>4. QED
  BY <1>2, <1>3 DEF h

\* A Unicode event means the character.
LEMMA UnicodeMeans ==
  ASSUME NEW flags \in Flags, NEW code \in Word16, NEW b,
         b = <<event_header(4, flags)>> \o le16(code)
  PROVE  b \in Seq(Nat) /\ Meaning(b) = <<"unicode", flags, code>>
<1>1. PICK h : h = event_header(4, flags)
  OBVIOUS
<1>2. h \in Nat /\ h \div 32 = 4 /\ h % 32 = flags
  <2>1. 4 \in EventCodes
    BY DEF EventCodes
  <2>2. QED
    BY <1>1, <2>1, Header
<1>3. PICK s : s = <<h>>
  OBVIOUS
<1>4. s \in Seq(Nat) /\ Len(s) = 1 /\ s[1] = h /\ b = s \o le16(code)
  BY <1>1, <1>2, <1>3
<1>5. Added(b, s, 1, code)
  BY <1>4, WordAdded
<1>6. b \in Seq(Nat) /\ b[1] = h /\ b[2] + (256 * b[3]) = code
  BY <1>4, <1>5 DEF Added
<1>7. b[1] \div 32 = 4 /\ b[1] % 32 = flags /\ b[2] + (256 * b[2 + 1]) = code
  BY ONLY <1>2, <1>6
<1>8. Meaning(b) = <<"unicode", b[1] % 32, b[2] + (256 * b[2 + 1])>>
  BY ONLY <1>7 DEF Meaning
<1>9. QED
  BY <1>6, <1>7, <1>8

MouseCodes == {1, 2}
MouseKind(c) == IF c = 1 THEN "mouse" ELSE "mousex"
MouseMeaning(c, flags, x, y) == <<MouseKind(c), flags, x, y>>

MouseBytes(c, flags, x, y) ==
  <<event_header(c, 0)>> \o le16(flags) \o le16(x) \o le16(y)

\* A mouse event means its flags and its position, with either code.
LEMMA MouseMeans ==
  ASSUME NEW c \in MouseCodes, NEW flags \in Word16, NEW x \in Word16, NEW y \in Word16, NEW b,
         b = MouseBytes(c, flags, x, y)
  PROVE  /\ b \in Seq(Nat)
         /\ Meaning(b) = MouseMeaning(c, flags, x, y)
<1>1. PICK h : h = event_header(c, 0)
  OBVIOUS
<1>2. h \in Nat /\ h \div 32 = c
  <2>1. c \in EventCodes /\ 0 \in Flags
    BY DEF EventCodes, Flags, MouseCodes
  <2>2. QED
    BY <1>1, <2>1, Header
<1>3. PICK s : s = <<h>>
  OBVIOUS
<1>4. s \in Seq(Nat) /\ Len(s) = 1 /\ s[1] = h
  BY <1>2, <1>3
<1>5. PICK a : a = s \o le16(flags)
  OBVIOUS
<1>6. PICK d : d = a \o le16(x)
  OBVIOUS
<1>7. b = d \o le16(y)
  BY <1>1, <1>3, <1>5, <1>6 DEF MouseBytes
<1>8. Added(a, s, 1, flags)
  BY <1>4, <1>5, WordAdded
<1>9. a \in Seq(Nat) /\ Len(a) = 3 /\ a[1] = h /\ a[2] + (256 * a[3]) = flags
  BY <1>4, <1>8 DEF Added
<1>10. Added(d, a, 3, x)
  BY <1>6, <1>9, WordAdded
<1>11. /\ d \in Seq(Nat) /\ Len(d) = 5 /\ d[1] = h /\ d[2] + (256 * d[3]) = flags
       /\ d[4] + (256 * d[5]) = x
  BY <1>9, <1>10 DEF Added
<1>12. Added(b, d, 5, y)
  BY <1>7, <1>11, WordAdded
<1>13. b \in Seq(Nat) /\ \A k \in 1..5 : b[k] = d[k]
  BY <1>12 DEF Added
<1>14. b[1] = d[1] /\ b[2] = d[2] /\ b[3] = d[3] /\ b[4] = d[4] /\ b[5] = d[5]
  BY ONLY <1>13
<1>15. b[5 + 1] + (256 * b[5 + 2]) = y
  BY <1>12 DEF Added
<1>16. /\ b[1] \div 32 = c /\ b[2] + (256 * b[2 + 1]) = flags
       /\ b[4] + (256 * b[4 + 1]) = x /\ b[6] + (256 * b[6 + 1]) = y
  BY ONLY <1>2, <1>11, <1>14, <1>15
<1>17. Meaning(b) = <<MouseKind(c), b[2] + (256 * b[2 + 1]),
                      b[4] + (256 * b[4 + 1]), b[6] + (256 * b[6 + 1])>>
  BY ONLY c \in MouseCodes, <1>16 DEF Meaning, MouseKind, MouseCodes
<1>18. QED
  BY <1>13, <1>16, <1>17 DEF MouseMeaning

-----------------------------------------------------------------------------
(* The batch *)

\* Numbers of events and of bytes are natural numbers.
LEMMA NumFacts ==
  ASSUME events \in Seq(BurstT)
  PROVE  num \in Nat /\ EventBytes \in Nat
<1>1. CASE events = <<>>
  BY <1>1 DEF num, EventBytes
<1>2. CASE events # <<>>
  <2>1. PICK e : e = events[Len(events)]
    OBVIOUS
  <2>2. e \in BurstT
    BY <1>2, <2>1, LenProperties, ElementOfSeq, EmptySeq
  <2>3. e.start \in Nat /\ e.before \in Nat /\ e.times \in Nat /\ Len(e.bytes) \in Nat
    BY <2>2, LenProperties DEF BurstT
  <2>4. \A a, c \in Nat : a * c \in Nat
    OBVIOUS
  <2>5. PICK m : m = Len(e.bytes) * e.times
    OBVIOUS
  <2>6. m \in Nat
    BY <2>3, <2>4, <2>5
  <2>7. num = e.before + e.times /\ EventBytes = e.start + m
    BY <1>2, <2>1, <2>5 DEF num, EventBytes
  <2>8. QED
    BY <2>3, <2>6, <2>7
<1>3. QED
  BY <1>1, <1>2

\* One more event, n times, in the batch.
LEMMA EventKept ==
  ASSUME InputInv, NEW n \in Nat \ {0}, NEW bytes \in Seq(Nat), NEW m, m = Meaning(bytes),
         Event(n, m, bytes)
  PROVE  InputInv'
<1>1. PICK e : e = [bytes |-> bytes, times |-> n, before |-> num, start |-> EventBytes]
  OBVIOUS
<1>2. events \in Seq(BurstT) /\ Happened /\ Within /\ num \in Nat /\ EventBytes \in Nat
  BY NumFacts DEF InputInv
<1>3. e \in BurstT /\ e.bytes = bytes /\ e.times = n /\ e.before = num /\ e.start = EventBytes
  BY <1>1, <1>2 DEF BurstT
<1>4. PICK L \in Nat : L = Len(events)
  BY <1>2, LenProperties
<1>5. events' = Append(events, e) /\ happened' = Append(happened, [meaning |-> m, times |-> n])
  BY <1>1 DEF Event
<1>6. /\ events' \in Seq(BurstT) /\ Len(events') = L + 1 /\ events'[L + 1] = e
      /\ \A k \in 1..L : events'[k] = events[k]
  BY <1>2, <1>3, <1>4, <1>5, AppendProperties
<1>7. num' = num + n
  <2>1. events' # <<>>
    BY <1>5, <1>6, EmptySeq
  <2>2. num' = events'[Len(events')].before + events'[Len(events')].times
    BY <2>1 DEF num
  <2>3. QED
    BY <1>3, <1>6, <2>2
<1>8. Within'
  <2>1. ASSUME NEW k \in 1..(L + 1) PROVE events'[k].before + events'[k].times <= num'
    <3>1. CASE k \in 1..L
      <4>1. events[k] \in BurstT /\ events[k].before + events[k].times <= num
        BY <1>2, <1>4, <3>1, ElementOfSeq DEF Within
      <4>2. events[k].before \in Nat /\ events[k].times \in Nat
        BY <4>1 DEF BurstT
      <4>3. QED
        BY <1>2, <1>6, <1>7, <3>1, <4>1, <4>2
    <3>2. CASE k = L + 1
      BY <1>2, <1>3, <1>6, <1>7, <3>2
    <3>3. QED
      BY <3>1, <3>2
  <2>2. QED
    BY <1>6, <2>1 DEF Within
<1>9. Happened'
  <2> DEFINE R(b, t) == [meaning |-> Meaning(b), times |-> t]
             H == [k \in 1..L |-> R(events[k].bytes, events[k].times)]
             G == [k \in 1..(L + 1) |-> R(events'[k].bytes, events'[k].times)]
             r == [meaning |-> m, times |-> n]
  <2>1. happened = H /\ r = R(bytes, n)
    BY <1>2, <1>4 DEF Happened
  <2> HIDE DEF R
  <2>2. happened' = [k \in 1..(L + 1) |-> IF k = L + 1 THEN r ELSE H[k]]
    <3> HIDE DEF r
    <3>1. happened' = Append(H, r)
      BY <1>5, <2>1 DEF r
    <3> DEFINE T == {H[k] : k \in 1..L} \cup {r}
    <3>2. H \in [1..L -> T] /\ r \in T
      OBVIOUS
    <3> HIDE DEF H, T
    <3>3. H \in Seq(T) /\ Len(H) = L
      BY <3>2, <1>4
    <3>4. /\ happened' \in Seq(T) /\ Len(happened') = L + 1 /\ happened'[L + 1] = r
          /\ \A k \in 1..L : happened'[k] = H[k]
      BY <3>1, <3>2, <3>3, AppendProperties
    <3>5. happened' \in [1..(L + 1) -> T]
      BY <3>4, LenProperties
    <3>6. \A k \in 1..(L + 1) : happened'[k] = IF k = L + 1 THEN r ELSE H[k]
      BY <3>4
    <3>7. QED
      BY <3>5, <3>6
  <2>3. ASSUME NEW k \in 1..(L + 1) PROVE (IF k = L + 1 THEN r ELSE H[k]) = G[k]
    <3>1. CASE k = L + 1
      BY <1>3, <1>6, <2>1, <3>1
    <3>2. CASE k \in 1..L
      BY <1>6, <3>2
    <3>3. QED
      BY <3>1, <3>2
  <2>4. happened' = G
    BY <2>2, <2>3
  <2>5. QED
    BY <1>6, <2>4 DEF Happened, R
<1>10. reading' = "typing" /\ EventsArrive'
  BY DEF Event, EventsArrive
<1>11. QED
  BY <1>6, <1>8, <1>9, <1>10 DEF InputInv

-----------------------------------------------------------------------------
(* The PDU *)

\* The four bits of the header hold a count of up to 15.
LEMMA HeaderCount ==
  ASSUME NEW n \in 0..15
  PROVE  (((n * 4) % 256) \div 4) % 16 = n
OBVIOUS

\* A length below 2^15 is read back from its two bytes.
LEMMA LongLength ==
  ASSUME NEW t \in Nat, t < 32768
  PROVE  (((128 + ((t \div 256) % 128)) % 128) * 256) + (t % 256) = t
<1>1. PICK q : q = t \div 256
  OBVIOUS
<1>2. PICK r : r = t % 256
  OBVIOUS
<1>3. q \in 0..127 /\ r \in 0..255 /\ t = (q * 256) + r
  BY <1>1, <1>2
<1>4. q % 128 = q /\ (128 + q) % 128 = q
  BY <1>3
<1>5. QED
  BY <1>1, <1>2, <1>3, <1>4

\* The server finds the count the client wrote, and the length it wrote, as long as
\* each fits its field.
LEMMA PduRead ==
  ASSUME events \in Seq(BurstT), sent_pdu = input_pdu
  PROVE  /\ num \in 1..255 => Counted = num
         /\ Counted \in Int /\ (Counted < 0 <=> num = 0)
         /\ Announced # Actual => Actual >= 32768
<1>1. PICK n \in Nat, m \in Nat : n = num /\ m = EventBytes
  BY NumFacts
<1>2. PICK c : c = IF n <= 15 THEN 0 ELSE 1
  OBVIOUS
<1>3. c \in {0, 1}
  BY <1>2
<1>4. PICK base, whole : base = 1 + (m + c) /\ whole = base + 2
  OBVIOUS
<1>5. base \in Nat /\ whole \in Nat
  BY <1>3, <1>4
<1>6. /\ sent_pdu.header = IF n <= 15 THEN (n * 4) % 256 ELSE 0
      /\ sent_pdu.count = IF n <= 15 THEN <<>> ELSE <<n % 256>>
      /\ sent_pdu.length = IF base + 1 < 128 THEN <<base + 1>>
                       ELSE <<128 + ((whole \div 256) % 128), whole % 256>>
  BY <1>1, <1>2, <1>4 DEF input_pdu, InHeader
<1>7. (num \in 1..255 => Counted = num) /\ Counted \in Int /\ (Counted < 0 <=> num = 0)
  <2>1. CASE n <= 15
    <3>1. (sent_pdu.header \div 4) % 16 = n /\ sent_pdu.count = <<>>
      <4>1. n \in 0..15
        BY ONLY <1>1, <2>1
      <4>2. (((n * 4) % 256) \div 4) % 16 = n
        BY ONLY <4>1, HeaderCount
      <4>3. QED
        BY <1>6, <2>1, <4>2
    <3>2. Counted = IF n # 0 THEN n ELSE -1
      BY <3>1 DEF Counted
    <3>3. QED
      BY ONLY <1>1, <3>2
  <2>2. CASE ~(n <= 15)
    <3>1. sent_pdu.header = 0 /\ sent_pdu.count = <<n % 256>>
      BY <1>6, <2>2
    <3>2. (0 \div 4) % 16 = 0 /\ <<n % 256>> # <<>> /\ <<n % 256>>[1] = n % 256
      OBVIOUS
    <3>3. Counted = n % 256
      BY <3>1, <3>2 DEF Counted
    <3>4. n % 256 \in Nat /\ (n \in 1..255 => n % 256 = n)
      BY ONLY <1>1
    <3>5. QED
      BY ONLY <1>1, <2>2, <3>3, <3>4
  <2>3. QED
    BY <2>1, <2>2
<1>8. Len(sent_pdu.count) = c
  <2>1. Len(<<>>) = 0 /\ Len(<<n % 256>>) = 1
    OBVIOUS
  <2>2. QED
    BY <1>2, <1>6, <2>1
<1>9. Announced # Actual => Actual >= 32768
  <2>1. CASE base + 1 < 128
    <3>1. sent_pdu.length = <<base + 1>>
      BY <1>6, <2>1
    <3>2. Len(sent_pdu.length) = 1 /\ sent_pdu.length[1] = base + 1
      BY <3>1
    <3>3. Announced = base + 1
      BY <3>2 DEF Announced
    <3>4. Actual = 1 + 1 + c + m
      BY <1>1, <1>8, <3>2 DEF Actual
    <3>5. QED
      BY ONLY <1>1, <1>3, <1>4, <3>3, <3>4
  <2>2. CASE ~(base + 1 < 128)
    <3>1. PICK l, r : l = 128 + ((whole \div 256) % 128) /\ r = whole % 256
      OBVIOUS
    <3>2. sent_pdu.length = <<l, r>>
      BY <1>6, <2>2, <3>1
    <3>3. Len(sent_pdu.length) = 2 /\ sent_pdu.length[1] = l /\ sent_pdu.length[2] = r
      BY <3>2
    <3>4. Announced = ((l % 128) * 256) + r
      BY <3>3 DEF Announced
    <3>5. Actual = 1 + 2 + c + m
      BY <1>1, <1>8, <3>3 DEF Actual
    <3>6. Actual = whole
      BY ONLY <1>1, <1>3, <1>4, <3>5
    <3>7. whole < 32768 => Announced = whole
      BY <1>5, <3>1, <3>4, LongLength
    <3>8. QED
      BY ONLY <1>5, <3>6, <3>7
  <2>3. QED
    BY <2>1, <2>2
<1>10. QED
  BY <1>7, <1>9

-----------------------------------------------------------------------------
(* Theorem *)

\* The server reads what was sent.
LEMMA ReadKept == ASSUME InputInv, server_reads PROVE InputInv'
<1>1. /\ UNCHANGED <<events, happened, sent_pdu>> /\ sent_pdu = input_pdu /\ events \in Seq(BurstT)
      /\ Happened /\ Within /\ num \in Nat
  BY NumFacts DEF InputInv, server_reads
<1>2. /\ num \in 1..255 => Counted = num
      /\ Counted \in Int /\ (Counted < 0 <=> num = 0)
      /\ Announced # Actual => Actual >= 32768
  BY <1>1, PduRead
<1>3. num' = num /\ Actual' = Actual /\ input_pdu' = input_pdu
  BY <1>1 DEF num, EventBytes, Actual, input_pdu, InHeader
<1>4. Happened' /\ Within' /\ events' \in Seq(BurstT) /\ sent_pdu' = input_pdu'
  BY <1>1, <1>3 DEF Happened, Within
<1>5. CASE Announced # Actual /\ reading' = "desync"
  BY <1>2, <1>3, <1>4, <1>5 DEF InputInv, EventsArrive
<1>6. CASE Counted < 0 /\ reading' = "malformed"
  BY <1>2, <1>3, <1>4, <1>6 DEF InputInv, EventsArrive
<1>7. CASE /\ Counted >= 0 /\ reading' = "read"
           /\ understood' = [k \in {k \in 1..Len(events) : events[k].before < Counted} |->
                 [meaning |-> Meaning(events[k].bytes),
                  times |-> IF events[k].before + events[k].times <= Counted
                            THEN events[k].times ELSE Counted - events[k].before]]
  <2>1. ASSUME num <= 255 PROVE understood' = happened
    <3>1. Counted = num
      BY <1>1, <1>2, <1>7, <2>1
    <3>2. ASSUME NEW k \in 1..Len(events)
          PROVE  events[k].before < Counted /\ events[k].before + events[k].times <= Counted
      <4>1. events[k] \in BurstT /\ events[k].before + events[k].times <= num
        BY <1>1, ElementOfSeq DEF Within
      <4>2. events[k].before \in Nat /\ events[k].times \in Nat \ {0}
        BY <4>1 DEF BurstT
      <4>3. QED
        BY <1>1, <3>1, <4>1, <4>2
    <3>3. {k \in 1..Len(events) : events[k].before < Counted} = 1..Len(events)
      BY <3>2
    <3>4. QED
      BY <1>1, <1>7, <3>2, <3>3 DEF Happened
  <2>2. EventsArrive'
    BY <1>1, <1>3, <1>7, <2>1 DEF EventsArrive
  <2>3. QED
    BY <1>4, <2>2 DEF InputInv
<1>8. QED
  BY <1>5, <1>6, <1>7 DEF server_reads

\* Every step of a behaviour about input.
LEMMA InputKept == ASSUME InputInv, InputNext PROVE InputInv'
<1>1. /\ Characters \subseteq Word16 /\ PointerFlags \subseteq Word16 /\ Positions \subseteq Word16
      /\ KeyCodes \subseteq Nat /\ Bursts \subseteq Nat \ {0}
  <2>1. ASSUME NEW v \in 0..255 PROVE v \in Word16
    BY DEF Word16
  <2>2. QED
    BY <2>1, InputAssumption
<1>2. \A p, e \in BOOLEAN : KeyFlags(p, e) \in Flags
  BY DEF KeyFlags, Flags
<1>3. ASSUME NEW n \in Bursts, NEW key \in KeyCodes, NEW p \in BOOLEAN, NEW e \in BOOLEAN,
             scancode_event(n, key, p, e)
      PROVE  InputInv'
  <2>1. PICK f \in Flags : f = KeyFlags(p, e)
    BY <1>2
  <2>2. PICK b, m : b = <<event_header(0, f), key>> /\ m = <<"scancode", f, key>>
    OBVIOUS
  <2>3. b \in Seq(Nat) /\ m = Meaning(b)
    BY <1>1, <2>2, ScancodeMeans
  <2>4. Event(n, m, b)
    BY <1>3, <2>1, <2>2 DEF scancode_event
  <2>5. QED
    BY <1>1, <2>3, <2>4, EventKept
<1>4. ASSUME NEW n \in Bursts, NEW code \in Characters, NEW p \in BOOLEAN,
             unicode_event(n, code, p)
      PROVE  InputInv'
  <2>1. PICK f \in Flags : f = KeyFlags(p, FALSE)
    BY <1>2
  <2>2. PICK b, m : b = <<event_header(4, f)>> \o le16(code) /\ m = <<"unicode", f, code>>
    OBVIOUS
  <2>3. b \in Seq(Nat) /\ m = Meaning(b)
    BY <1>1, <2>2, UnicodeMeans
  <2>4. Event(n, m, b)
    BY <1>4, <2>1, <2>2 DEF unicode_event
  <2>5. QED
    BY <1>1, <2>3, <2>4, EventKept
<1>5. ASSUME NEW n \in Bursts, NEW flags \in PointerFlags, NEW x \in Positions,
             NEW y \in Positions,
             mouse_event(n, flags, x, y) \/ mouse_x_event(n, flags, x, y)
      PROVE  InputInv'
  <2>1. PICK c \in MouseCodes :
          Event(n, MouseMeaning(c, flags, x, y), MouseBytes(c, flags, x, y))
    BY <1>5 DEF mouse_event, mouse_x_event, MouseKind, MouseBytes, MouseMeaning,
                MouseCodes
  <2>2. PICK b, m : /\ b = MouseBytes(c, flags, x, y)
                    /\ m = MouseMeaning(c, flags, x, y)
    OBVIOUS
  <2>3. b \in Seq(Nat) /\ m = Meaning(b)
    <3>1. flags \in Word16 /\ x \in Word16 /\ y \in Word16
      BY <1>1
    <3>2. b \in Seq(Nat) /\ Meaning(b) = MouseMeaning(c, flags, x, y)
      BY ONLY <2>2, <3>1, c \in MouseCodes, MouseMeans
    <3>3. QED
      BY <2>2, <3>2
  <2>4. QED
    BY <1>1, <2>1, <2>2, <2>3, EventKept
<1>6. CASE send_input
  BY <1>6 DEF send_input, InputInv, EventsArrive, Happened, Within, num, input_pdu,
              EventBytes, InHeader
<1>7. QED
  BY <1>3, <1>4, <1>5, <1>6, ReadKept DEF InputNext

\* Every event reaches the server as it happened, in order and as often, in any batch
\* of one to 255 events of any kind; a longer batch loses events but not the stream up
\* to 2^15 bytes, and only an empty one is malformed (the event builders, input_pdu).
THEOREM EventsUnderstood == CodecsSpec => []EventsArrive
<1>1. CodecsInit => InputInv
  <2> SUFFICES ASSUME CodecsInit PROVE InputInv
    OBVIOUS
  <2>1. events = <<>> /\ happened = <<>> /\ reading = "typing"
    BY DEF CodecsInit, InputInit
  <2>2. Len(events) = 0 /\ events \in Seq(BurstT)
    BY <2>1, EmptySeq
  <2>3. 1..Len(events) = {}
    BY <2>2
  <2>4. Happened /\ Within
    BY <2>1, <2>3 DEF Happened, Within
  <2>5. QED
    BY <2>1, <2>2, <2>4 DEF InputInv, EventsArrive
<1>2. InputInv /\ [CodecsNext]_codecsVars => InputInv'
  <2> SUFFICES ASSUME InputInv, [CodecsNext]_codecsVars PROVE InputInv'
    OBVIOUS
  <2>1. CASE UNCHANGED inputVars
    <3>1. UNCHANGED <<events, happened, sent_pdu, understood, reading>>
      BY <2>1 DEF inputVars
    <3>2. num' = num /\ EventBytes' = EventBytes
      BY <3>1 DEF num, EventBytes
    <3>3. Actual' = Actual /\ input_pdu' = input_pdu
      BY <3>1, <3>2 DEF Actual, input_pdu, InHeader
    <3>4. Happened' = Happened /\ Within' = Within /\ EventsArrive' = EventsArrive
      BY <3>1, <3>2, <3>3 DEF Happened, Within, EventsArrive
    <3>5. QED
      BY <3>1, <3>3, <3>4 DEF InputInv
  <2>2. CASE InputNext
    BY <2>2, InputKept
  <2>3. QED
    BY <2>1, <2>2 DEF CodecsNext, codecsVars, messageVars
<1>3. InputInv => EventsArrive
  BY DEF InputInv
<1>4. QED
  BY <1>1, <1>2, <1>3, PTL DEF CodecsSpec
=============================================================================
