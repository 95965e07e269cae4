-------------------------------- MODULE Asn1 --------------------------------
(***************************************************************************)
(* The three encodings of lengths and values the crate carries its PDUs in:*)
(* BER (mcs/ber.rs), DER (nla/der.rs) and PER (mcs/per.rs).                *)
(***************************************************************************)
EXTENDS Octets

TAG_INTEGER == 2
TAG_OCTET_STRING == 4
TAG_ENUMERATED == 10
TAG_SEQUENCE == 48
context_tag(n) == 160 + n

\* Definite lengths, the same in BER and DER
encode_len[n \in Nat] ==
  IF n < 128 THEN octets(<<n>>) ELSE octets(<<128 + Len(minimal[n])>> \o minimal[n])

tlv(tag, value) == octets(tag) \o encode_len[size[value]] \o value

\* Unsigned, minimal, a leading 0 where the first bit is set
integer(v) ==
  LET bytes == IF v = 0 THEN <<0>> ELSE minimal[v]
  IN tlv(<<TAG_INTEGER>>, octets(IF bytes[1] >= 128 THEN <<0>> \o bytes ELSE bytes))

\* connect.rs leaves that leading 0 out
uint(v) ==
  LET bytes == IF v = 0 THEN <<0>> ELSE minimal[v]
  IN octets(<<TAG_INTEGER, Len(bytes)>> \o bytes)

octet_string(bytes) == tlv(<<TAG_OCTET_STRING>>, bytes)
sequence(contents) == tlv(<<TAG_SEQUENCE>>, contents)
context(n, contents) == tlv(<<context_tag(n)>>, contents)

\* The constructed application tag: one byte below 31, else base 128 after 0x7f
application_tag_bytes(n) ==
  IF n < 31 THEN <<96 + n>>
  ELSE LET digits == Cardinality({k \in 0..3 : n >= 128 ^ k}) IN
       <<127>> \o [k \in 1..digits |->
                     ((n \div (128 ^ (digits - k))) % 128) + (IF k = digits THEN 0 ELSE 128)]

-----------------------------------------------------------------------------
(* Readers *)

\* A length of n bytes, as many as the first byte says
longLength[buf \in ByteStrings] ==
  LET n == byteAt(buf, 0) % 128 IN
  IF size[buf] < 1 + n THEN Err ELSE Ok(number[buf, 1, 1 + n], drop[buf, 1 + n])

ber_read_length[buf \in ByteStrings] ==
  IF buf = <<>> THEN Err
  ELSE IF byteAt(buf, 0) < 128 THEN Ok(byteAt(buf, 0), drop[buf, 1])
  ELSE longLength[buf]

\* DER takes neither the indefinite form nor more than four bytes
decode_len[buf \in ByteStrings] ==
  IF buf = <<>> THEN Err
  ELSE IF byteAt(buf, 0) < 128 THEN Ok(byteAt(buf, 0), drop[buf, 1])
  ELSE IF byteAt(buf, 0) % 128 \notin 1..4 THEN Err
  ELSE longLength[buf]

\* The contents a length announces
contents[n \in Nat, rest \in ByteStrings] ==
  IF size[rest] < n THEN Err ELSE Ok(take[rest, n], drop[rest, n])
contentsOf(length) == IF length.ok THEN contents[length.value, length.rest] ELSE Err

startsWith(buf, bytes) ==
  /\ size[buf] >= Len(bytes)
  /\ \A k \in 1..Len(bytes) : byteAt(buf, k - 1) = bytes[k]

\* BER: a tag of any number of bytes, and its contents
ber_expect(buf, tag) ==
  IF ~startsWith(buf, tag) THEN Err ELSE contentsOf(ber_read_length[drop[buf, Len(tag)]])

\* DER: any TLV; its tag is the first byte of buf
read_tlv[buf \in ByteStrings] == IF size[buf] < 2 THEN Err ELSE contentsOf(decode_len[drop[buf, 1]])
der_expect(buf, tag) ==
  IF size[buf] < 2 THEN Err
  ELSE IF byteAt(buf, 0) # tag THEN Err
  ELSE read_tlv[buf]

\* An INTEGER's contents as a number
read_integer(tlvRead) ==
  IF tlvRead.ok THEN Ok(number[tlvRead.value, 0, size[tlvRead.value]], tlvRead.rest) ELSE Err

-----------------------------------------------------------------------------
(* PER length determinants *)

\* From 0x4000 on a fragmented form, whose count is cut to 16 bits
write_length[n \in Nat] ==
  IF n < 128 THEN octets(<<n>>)
  ELSE IF n < 16384 THEN u16(n + 32768)
  ELSE octets(<<193>>) \o u16(n % 65536)

per_read_length[buf \in ByteStrings] ==
  IF buf = <<>> THEN Err
  ELSE LET first == byteAt(buf, 0) IN
       IF first < 128 THEN Ok(first, drop[buf, 1])
       ELSE IF first >= 192 \/ size[buf] < 2 THEN Err
       ELSE Ok(((first - 128) * 256) + byteAt(buf, 1), drop[buf, 2])

write_octet_string(bytes) == write_length[size[bytes]] \o bytes
=============================================================================
