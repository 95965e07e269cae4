------------------------------- MODULE Octets -------------------------------
(***************************************************************************)
(* Byte strings as the encoders and readers of the crate see them (BytesMut*)
(* and &[u8]): a sequence of runs, each a byte and how often it repeats, so*)
(* that a payload of 65535 bytes is one run.  A byte from 256 on stands for*)
(* payload no reader looks into.                                           *)
(***************************************************************************)
EXTENDS Integers, Sequences, FiniteSets

block(byte, n) == IF n = 0 THEN <<>> ELSE <<[byte |-> byte, count |-> n]>>
octets(bytes) == [k \in 1..Len(bytes) |-> [byte |-> bytes[k], count |-> 1]]

ByteStrings == Seq([byte : Int, count : Nat])

size[s \in ByteStrings] == IF s = <<>> THEN 0 ELSE s[1].count + size[Tail(s)]

\* s[n..] and s[..n]: without and with only the first n bytes
drop[s \in ByteStrings, n \in Nat] ==
  IF n = 0 \/ s = <<>> THEN s
  ELSE IF s[1].count <= n THEN drop[Tail(s), n - s[1].count]
  ELSE <<[s[1] EXCEPT !.count = @ - n]>> \o Tail(s)

take[s \in ByteStrings, n \in Nat] ==
  IF n = 0 \/ s = <<>> THEN <<>>
  ELSE IF s[1].count <= n THEN <<s[1]>> \o take[Tail(s), n - s[1].count]
  ELSE <<[s[1] EXCEPT !.count = n]>>

\* s[from..to], and s[i] counted from 0
part(s, from, to) == take[drop[s, from], to - from]
byteAt(s, i) == drop[s, i][1].byte

\* A number as n bytes, big end first, and as few bytes as hold it
bigEndian(v, n) == [k \in 1..n |-> (v \div (256 ^ (n - k))) % 256]
minimal[v \in Nat] == bigEndian(v, Cardinality({k \in 0..3 : v >= 256 ^ k}))

\* The bytes from..to as a number
number[s \in ByteStrings, from \in Nat, to \in Nat] ==
  IF from = to THEN 0 ELSE (number[s, from, to - 1] * 256) + byteAt(s, to - 1)

u16(v) == octets(bigEndian(v, 2))

-----------------------------------------------------------------------------
(* What a reader returns: a value and the bytes after it, or an Err *)

Err == [ok |-> FALSE]
Ok(value, rest) == [ok |-> TRUE, value |-> value, rest |-> rest]
=============================================================================
