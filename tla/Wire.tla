-------------------------------- MODULE Wire --------------------------------
(***************************************************************************)
(* One PDU on its way: built by its encoder, framed, read off the stream,  *)
(* unwrapped and parsed, each a step of its own.  Between the encoder and  *)
(* the framing a PDU may lose its end (a peer that miscounts, external).   *)
(* What the client sends is read by a server that keeps to the code's own  *)
(* readers; what the server sends is built the way its parser expects it.  *)
(***************************************************************************)
EXTENDS Asn1

CONSTANTS Initiators,      \* user ids an Attach User Confirm may carry (before the base)
          DataSizes,       \* bytes in a Send Data PDU
          BlockSizes,      \* bytes of GCC data blocks
          CookieSizes,     \* characters of the routing cookie's identity
          TsRequests,      \* TSRequests, and how many bytes each value has
          UpdateLists      \* fast-path updates a PDU may hold (all of them bounds)

ASSUME WireAssumption ==
  /\ Initiators \subseteq 0..65535
  /\ DataSizes \cup BlockSizes \cup CookieSizes \subseteq Nat

VARIABLES initiator,       \* the id the server confirmed, -1 before
          user_id,         \* what parse_attach_user_confirm made of it
          message,         \* the PDU's meaning: its kind and values
          pdu,             \* its bytes, then what is left of them after unwrapping
          link,            \* the stream
          meaning,         \* what the reader made of them
          progress,        \* "idle", "encoded", "framed", "unwrapped", "fields", then the outcome
          shortened        \* the PDU has lost its end

wireVars == <<initiator, user_id, message, pdu, link, meaning, progress, shortened>>

\* Payload bytes, told apart by what they are
PAYLOAD == 300
KEY == 301                 \* a byte of the H.221 key
COOKIE == 302              \* "Cookie: mstshash="
IDENTITY == 303
CRLF == 304

-----------------------------------------------------------------------------
(* MCS: the user id and Send Data *)

MCS_BASE == 1001
IO == 1003

\* The sum is a u16: an overflow panics in a debug build and wraps in a release one
attach_user_confirm(i) ==
  /\ progress = "idle" /\ initiator = -1
  /\ initiator' = i
  /\ user_id' = (i + MCS_BASE) % 65536
  /\ progress' \in {"idle"} \cup (IF i + MCS_BASE > 65535 THEN {"panic"} ELSE {})
  /\ UNCHANGED <<message, pdu, link, meaning, shortened>>

Encoded(kind, values, bytes) ==
  /\ progress = "idle"
  /\ message' = [kind |-> kind, values |-> values]
  /\ pdu' = bytes
  /\ progress' = "encoded"
  /\ UNCHANGED <<initiator, user_id, link, meaning, shortened>>

\* Mutant: the initiator goes out with its base
send_data_based(id, n) ==
  octets(<<100>>) \o u16(id) \o u16(IO) \o octets(<<112>>)
    \o write_octet_string(block(PAYLOAD, n))

send_data_request(id, n) ==
  octets(<<100>>) \o u16((id - MCS_BASE) % 65536) \o u16(IO) \o octets(<<112>>)
    \o write_octet_string(block(PAYLOAD, n))

send_data(n) ==
  /\ initiator # -1
  /\ Encoded("data", [from |-> initiator, channel |-> IO, data |-> block(PAYLOAD, n)],
             send_data_request(user_id, n))

\* The server's data (external), which carries its own user id
send_indication(n) ==
  Encoded("indication", [channel |-> IO, data |-> block(PAYLOAD, n)],
          octets(<<104>>) \o drop[send_data_request(1 + MCS_BASE, n), 1])

\* Initiator, channel and payload of a Send Data PDU
SendData(index, buf) ==
  IF size[buf] < 6 THEN Err
  ELSE IF byteAt(buf, 0) \div 4 # index THEN Err
  ELSE LET data == contentsOf(per_read_length[drop[buf, 6]]) IN
       IF data.ok
       THEN Ok([from |-> number[buf, 1, 3], channel |-> number[buf, 3, 5], data |-> data.value],
               data.rest)
       ELSE Err

\* The client does not look at the initiator
parse_send_data_indication(buf) ==
  LET r == SendData(26, buf) IN
  IF r.ok THEN Ok([channel |-> r.value.channel, data |-> r.value.data], r.rest) ELSE Err

\* The server (external) does
read_send_data_request(buf) == SendData(25, buf)

-----------------------------------------------------------------------------
(* MCS Connect and the GCC conference around the data blocks *)

domain_parameters(vals) ==
  LET v(k) == uint(vals[k]) IN
  sequence(v(1) \o v(2) \o v(3) \o v(4) \o v(5) \o v(6) \o v(7) \o v(8))

conference_create_request(n) ==
  LET gcc == octets(<<0, 8, 0, 16, 0, 1, 192, 0>>) \o block(KEY, 4)
               \o write_octet_string(block(PAYLOAD, n))
  IN octets(<<0, 5, 0, 20, 124, 0, 1>>) \o write_octet_string(gcc)

connect_initial(n) ==
  LET selector == octet_string(octets(<<1>>)) IN
  Encoded("connect_initial", [data |-> block(PAYLOAD, n)],
    tlv(application_tag_bytes(101),
      selector \o selector \o tlv(<<1>>, octets(<<255>>))
        \o domain_parameters(<<34, 2, 0, 1, 0, 1, 65535, 2>>)
        \o domain_parameters(<<1, 1, 1, 1, 0, 1, 1056, 2>>)
        \o domain_parameters(<<65535, 64535, 65535, 1, 0, 1, 65535, 2>>)
        \o octet_string(conference_create_request(n))))

\* The last of some consecutive BER values with these tags
berField(buf, tags) ==
  LET after[k \in 0..Len(tags)] ==
        IF k = 0 THEN Ok(<<>>, buf)
        ELSE LET r == after[k - 1] IN IF r.ok THEN ber_expect(r.rest, <<tags[k]>>) ELSE Err
  IN after[Len(tags)]

\* The server (external) reads the values back in order, down to the data blocks
read_connect_initial(buf) ==
  LET top  == ber_expect(buf, application_tag_bytes(101))
      user == IF top.ok THEN berField(top.value, <<4, 4, 1, 48, 48, 48, 4>>) ELSE Err
      gcc  == IF user.ok THEN contentsOf(per_read_length[drop[user.value, 7]]) ELSE Err
      data == IF gcc.ok THEN contentsOf(per_read_length[drop[gcc.value, 12]]) ELSE Err
  IN IF data.ok THEN Ok([data |-> data.value], data.rest) ELSE Err

\* A server's answer (external): result, a connect id, parameters and its data blocks
connect_response(n, result) ==
  LET gcc == octets(<<0, 5, 0, 20, 124, 0, 1, 42, 20, 118, 10, 1>>) \o block(KEY, 4)
               \o write_octet_string(block(PAYLOAD, n))
  IN Encoded("connect_response", [data |-> block(PAYLOAD, n), result |-> result],
       tlv(application_tag_bytes(102),
         tlv(<<TAG_ENUMERATED>>, octets(<<result>>)) \o integer(0)
           \o domain_parameters(<<34, 3, 0, 1, 0, 1, 65528, 2>>) \o octet_string(gcc)))

parse_connect_response(buf) ==
  LET top == ber_expect(buf, application_tag_bytes(102))
      result == IF top.ok THEN ber_expect(top.value, <<TAG_ENUMERATED>>) ELSE Err
  IN IF ~result.ok THEN Err
     ELSE IF ~startsWith(result.value, <<0>>) THEN Err
     ELSE berField(top.value, <<TAG_ENUMERATED, TAG_INTEGER, TAG_SEQUENCE, TAG_OCTET_STRING>>)

\* The blocks behind the first place where the whole key stands
parse_conference_create_response(gcc) ==
  LET keys == {k \in 1..Len(gcc) : gcc[k] = [byte |-> KEY, count |-> 4]} IN
  IF keys = {} THEN Err
  ELSE LET pos == CHOOSE k \in keys : \A j \in keys : k <= j
       IN contentsOf(per_read_length[SubSeq(gcc, pos + 1, Len(gcc))])

read_connect_response(buf) ==
  LET user == parse_connect_response(buf)
      data == IF user.ok THEN parse_conference_create_response(user.value) ELSE Err
  IN IF data.ok THEN Ok([data |-> data.value, result |-> 0], data.rest) ELSE Err

-----------------------------------------------------------------------------
(* X.224 Connection Request and Confirm *)

CR_CC_FIXED == 6
None == <<[byte |-> -1, count |-> 0]>>

\* NegotiationRequest and NegotiationResponse: type, flags, length and a value
nego(type, value) == octets(<<type, 0, 8, 0, value, 0, 0, 0>>)

\* The length indicator is cut to a byte
cr_cc(code, variable) ==
  octets(<<(CR_CC_FIXED + size[variable]) % 256, code, 0, 0, 0, 0, 0>>) \o variable

connection_request(n) ==
  Encoded("request", [cookie |-> block(IDENTITY, n), nego |-> nego(1, 3)],
          cr_cc(224, block(COOKIE, 17) \o block(IDENTITY, n) \o block(CRLF, 2) \o nego(1, 3)))

\* A server's confirm (external): without a response, a selection or a failure
connection_confirm(response) ==
  Encoded("confirm", [nego |-> response], cr_cc(208, IF response = None THEN <<>> ELSE response))

\* The part after the fixed header, as far as the indicator says
split_cr_cc(buf, code) ==
  IF size[buf] < CR_CC_FIXED + 1 THEN Err
  ELSE IF size[buf] < byteAt(buf, 0) + 1 \/ byteAt(buf, 1) # code THEN Err
  ELSE Ok(part(buf, CR_CC_FIXED + 1, byteAt(buf, 0) + 1), <<>>)

\* An indicator below the fixed header's length makes that range run backwards
split_panics(buf) ==
  IF size[buf] < CR_CC_FIXED + 1 THEN FALSE
  ELSE byteAt(buf, 0) < CR_CC_FIXED

\* The cookie, if there is a whole one, and the rest
take_cookie(body) ==
  LET line == {k \in 1..Len(body) : body[k] = [byte |-> CRLF, count |-> 2]} IN
  IF line # {} /\ part(body, 0, 17) = block(COOKIE, 17)
  THEN LET end == CHOOSE k \in line : TRUE IN
       Ok(SubSeq(body, 2, end - 1), SubSeq(body, end + 1, Len(body)))
  ELSE Ok(None, body)

\* Nothing there is no negotiation; anything else must be a whole one of these types
read_nego(body, types) ==
  IF body = <<>> THEN Ok(None, <<>>)
  ELSE IF size[body] < 8 THEN Err
  ELSE IF byteAt(body, 0) \notin types THEN Err
  ELSE Ok(part(body, 0, 8), drop[body, 8])

decode_request(buf) ==
  LET body == split_cr_cc(buf, 224) IN
  IF ~body.ok THEN Err
  ELSE LET cookie == take_cookie(body.value)
           asked  == read_nego(cookie.rest, {1})
       IN IF asked.ok THEN Ok([cookie |-> cookie.value, nego |-> asked.value], <<>>) ELSE Err

decode_confirm(buf) ==
  LET body == split_cr_cc(buf, 208)
      response == IF body.ok THEN read_nego(body.value, {2, 3}) ELSE Err
  IN IF response.ok THEN Ok([nego |-> response.value], <<>>) ELSE Err

-----------------------------------------------------------------------------
(* TSRequest *)

optional(n, value) == IF value = None THEN <<>> ELSE context(n, octet_string(value))

encode_ts_request(r) ==
  LET item(token) == sequence(context(0, octet_string(token)))
      items[k \in 0..Len(r.nego_tokens)] ==
        IF k = 0 THEN <<>> ELSE items[k - 1] \o item(r.nego_tokens[k])
      tokens == items[Len(r.nego_tokens)]
  IN sequence(context(0, integer(r.version))
       \o (IF tokens = <<>> THEN <<>> ELSE context(1, sequence(tokens)))
       \o optional(2, r.auth_info) \o optional(3, r.pub_key_auth)
       \o (IF r.error_code = -1 THEN <<>> ELSE context(4, integer(r.error_code)))
       \o optional(5, r.client_nonce))

ts_request(r) == Encoded("ts_request", r, encode_ts_request(r))

\* The tokens of a NegoData list
MAX_TOKENS == 2            \* bound on the tokens a TSRequest holds here
read_tokens(list) ==
  LET step(r) ==
        LET item == der_expect(r.rest, TAG_SEQUENCE)
            tok  == IF item.ok THEN der_expect(item.value, context_tag(0)) ELSE Err
            bytes == IF tok.ok THEN der_expect(tok.value, TAG_OCTET_STRING) ELSE Err
        IN IF bytes.ok THEN Ok(Append(r.value, bytes.value), item.rest) ELSE Err
      after[k \in 0..MAX_TOKENS] ==
        IF k = 0 THEN Ok(<<>>, list)
        ELSE LET r == after[k - 1] IN
             IF ~r.ok THEN Err ELSE IF r.rest = <<>> THEN r ELSE step(r)
  IN after[MAX_TOKENS]

NoRequest == [version |-> 0, nego_tokens |-> <<>>, auth_info |-> None, pub_key_auth |-> None,
              error_code |-> -1, client_nonce |-> None]

\* One field into the request; other tags, and a nonce that is not 32 bytes, are left out
put_field(req, tag, value) ==
  LET inner == IF tag \in {context_tag(2), context_tag(3), context_tag(5)}
               THEN der_expect(value, TAG_OCTET_STRING)
               ELSE IF tag = context_tag(1) THEN der_expect(value, TAG_SEQUENCE)
               ELSE read_integer(der_expect(value, TAG_INTEGER))
      tokens == IF tag = context_tag(1) /\ inner.ok THEN read_tokens(inner.value) ELSE inner
  IN IF tag \notin context_tag(0)..context_tag(5) THEN Ok(req, <<>>)
     ELSE IF ~tokens.ok THEN Err
     ELSE Ok(CASE tag = context_tag(0) -> [req EXCEPT !.version = inner.value]
               [] tag = context_tag(1) -> [req EXCEPT !.nego_tokens = @ \o tokens.value]
               [] tag = context_tag(2) -> [req EXCEPT !.auth_info = inner.value]
               [] tag = context_tag(3) -> [req EXCEPT !.pub_key_auth = inner.value]
               [] tag = context_tag(4) -> [req EXCEPT !.error_code = inner.value]
               [] OTHER -> IF size[inner.value] = 32
                           THEN [req EXCEPT !.client_nonce = inner.value] ELSE req, <<>>)

\* decode: the sequence's contents, then a turn of the loop for each field in it
decode_ts_request ==
  LET top == der_expect(pdu, TAG_SEQUENCE) IN
  /\ progress = "unwrapped" /\ message.kind = "ts_request"
  /\ IF top.ok
     THEN pdu' = top.value /\ meaning' = <<NoRequest>> /\ progress' = "fields"
     ELSE progress' = "error" /\ UNCHANGED <<pdu, meaning>>
  /\ UNCHANGED <<initiator, user_id, message, link, shortened>>

ts_request_field ==
  LET field == read_tlv[pdu]
      put   == IF field.ok THEN put_field(meaning[1], byteAt(pdu, 0), field.value) ELSE Err
  IN /\ progress = "fields" /\ pdu # <<>>
     /\ IF put.ok
        THEN pdu' = field.rest /\ meaning' = <<put.value>> /\ UNCHANGED progress
        ELSE progress' = "error" /\ UNCHANGED <<pdu, meaning>>
     /\ UNCHANGED <<initiator, user_id, message, link, shortened>>

ts_request_decoded ==
  /\ progress = "fields" /\ pdu = <<>>
  /\ progress' = "ok"
  /\ UNCHANGED <<initiator, user_id, message, pdu, link, meaning, shortened>>

-----------------------------------------------------------------------------
(* Fast-path output *)

littleEndian16(v) == octets(<<v % 256, v \div 256>>)

\* The server (external): a header, a length of one byte or two, and its updates; one
\* marked compressed has a byte of flags more
fast_path(updates, wide) ==
  LET one(u) == octets(<<u.code + (16 * u.frag) + (IF u.compressed THEN 128 ELSE 0)>>)
                  \o (IF u.compressed THEN octets(<<33>>) ELSE <<>>)
                  \o littleEndian16(size[u.data]) \o u.data
      all[k \in 0..Len(updates)] == IF k = 0 THEN <<>> ELSE all[k - 1] \o one(updates[k])
      body == all[Len(updates)]
  IN /\ wide \/ size[body] + 2 < 128
     /\ Encoded("fast_path",
          [k \in 1..Len(updates) |->
             [code |-> updates[k].code, frag |-> updates[k].frag, data |-> updates[k].data]],
          octets(<<0>>)
            \o (IF wide THEN u16(size[body] + 3 + 32768) ELSE octets(<<size[body] + 2>>)) \o body)

\* One byte, or two if the first one's high bit is set
read_fp_length[buf \in ByteStrings] ==
  IF buf = <<>> THEN Err
  ELSE IF byteAt(buf, 0) < 128 THEN Ok(byteAt(buf, 0), drop[buf, 1])
  ELSE IF size[buf] < 2 THEN Err
  ELSE Ok(number[buf, 0, 2] - 32768, drop[buf, 2])

\* One update; the data is handed on as it is
parse_update[buf \in ByteStrings] ==
  LET head == byteAt(buf, 0)
      at   == IF head >= 128 THEN 2 ELSE 1
  IN IF size[buf] < at + 2 THEN Err
     ELSE LET n == byteAt(buf, at) + (256 * byteAt(buf, at + 1)) IN
          IF size[buf] < at + 2 + n THEN Err
          ELSE Ok([code |-> head % 16, frag |-> (head \div 16) % 4,
                   data |-> part(buf, at + 2, at + 2 + n)],
                  drop[buf, at + 2 + n])

MAX_UPDATES == 2           \* bound on the updates of a PDU

\* An action or a security flag in the header is an error; a length below the header's
\* own takes everything there is
parse_output_pdu(buf) ==
  LET length == read_fp_length[drop[buf, 1]]
      used   == size[buf] - size[length.rest]
      n      == IF length.value >= used THEN length.value - used ELSE size[length.rest]
      body   == part(length.rest, 0, n)
      after[k \in 0..MAX_UPDATES] ==
        IF k = 0 THEN Ok(<<>>, body)
        ELSE LET r == after[k - 1] IN
             IF ~r.ok THEN Err
             ELSE IF r.rest = <<>> THEN r
             ELSE LET u == parse_update[r.rest] IN
                  IF u.ok THEN Ok(Append(r.value, u.value), u.rest) ELSE Err
  IN IF buf = <<>> THEN Err
     ELSE IF byteAt(buf, 0) % 4 # 0 \/ byteAt(buf, 0) \div 64 # 0 THEN Err
     ELSE IF ~length.ok THEN Err
     ELSE IF n > size[length.rest] THEN Err
     ELSE after[MAX_UPDATES]

-----------------------------------------------------------------------------
(* Framing *)

TPKT_HEADER_LEN == 4
MAX_TPKT_PAYLOAD == 65535 - TPKT_HEADER_LEN
wrap_data(payload) == octets(<<2, 240, 128>>) \o payload

\* A peer that leaves out the last n bytes of what it announces
shorten(n) ==
  /\ progress = "encoded" /\ ~shortened
  /\ pdu' = take[pdu, size[pdu] - n]
  /\ shortened' = TRUE
  /\ UNCHANGED <<initiator, user_id, message, link, meaning, progress>>

\* CredSSP and fast-path go out as they are, everything else in a TPKT and, unless it
\* is a Connection Request or Confirm, in an X.224 Data TPDU
write_tpkt ==
  LET kind    == message.kind
      payload == IF kind \in {"request", "confirm"} THEN pdu ELSE wrap_data(pdu)
  IN /\ progress = "encoded"
     /\ \/ /\ kind \in {"ts_request", "fast_path"}
           /\ link' = pdu
           /\ progress' = "framed"
        \/ /\ kind \notin {"ts_request", "fast_path"}
           /\ size[payload] > MAX_TPKT_PAYLOAD
           /\ progress' = "refused"
           /\ UNCHANGED link
        \/ /\ kind \notin {"ts_request", "fast_path"}
           /\ size[payload] <= MAX_TPKT_PAYLOAD
           /\ link' = octets(<<3, 0>>) \o u16(size[payload] + TPKT_HEADER_LEN) \o payload
           /\ progress' = "framed"
     /\ UNCHANGED <<initiator, user_id, message, pdu, meaning, shortened>>

Unwrapped(frame) ==
  /\ progress = "framed"
  /\ IF frame.ok
     THEN pdu' = frame.value /\ progress' = "unwrapped"
     ELSE progress' = "error" /\ UNCHANGED pdu
  /\ UNCHANGED <<initiator, user_id, message, link, meaning, shortened>>

\* The payload of a TPKT: what its length says, which must be there
tpktPayload ==
  LET total == number[link, 2, 4] IN
  IF total < TPKT_HEADER_LEN \/ size[link] < total THEN Err
  ELSE Ok(part(link, TPKT_HEADER_LEN, total), <<>>)

\* unwrap_data: what follows the header, whose length the first byte gives
unwrap_data(buf) ==
  IF size[buf] < 3 THEN Err
  ELSE IF byteAt(buf, 1) # 240 THEN Err
  ELSE Ok(drop[buf, byteAt(buf, 0) + 1], <<>>)

\* The connection sequence reads a TPKT, the negotiation one without a Data TPDU
read_tpkt ==
  /\ message.kind \in {"request", "confirm", "data", "connect_initial", "connect_response"}
  /\ Unwrapped(IF message.kind \in {"request", "confirm"} THEN tpktPayload
               ELSE IF tpktPayload.ok THEN unwrap_data(tpktPayload.value) ELSE Err)

\* The session tells the two framings apart by the first byte
read_frame_body ==
  LET length == read_fp_length[drop[link, 1]]
      header == size[link] - size[length.rest]
      total  == IF length.value < header THEN header ELSE length.value
  IN
  /\ message.kind \in {"indication", "fast_path"}
  /\ Unwrapped(IF byteAt(link, 0) = 3
               THEN IF tpktPayload.ok THEN unwrap_data(tpktPayload.value) ELSE Err
               ELSE IF ~length.ok THEN Err
               ELSE IF size[link] < total THEN Err
               ELSE Ok(part(link, 0, total), <<>>))

\* One TLV off the stream: tag, length and contents
read_der_tlv ==
  LET length == IF size[link] < 2 THEN Err ELSE ber_read_length[drop[link, 1]] IN
  /\ message.kind = "ts_request"
  /\ Unwrapped(IF ~contentsOf(length).ok THEN Err
               ELSE Ok(part(link, 0, size[link] - size[contentsOf(length).rest]), <<>>))

\* A PDU is parsed
Parsed(read) ==
  /\ progress = "unwrapped"
  /\ IF read.ok THEN meaning' = <<read.value>> /\ progress' = "ok"
     ELSE progress' = "error" /\ UNCHANGED meaning
  /\ UNCHANGED <<initiator, user_id, message, pdu, link, shortened>>

parse_mcs ==
  \/ message.kind = "data" /\ Parsed(read_send_data_request(pdu))
  \/ message.kind = "indication" /\ Parsed(parse_send_data_indication(pdu))
  \/ message.kind = "connect_initial" /\ Parsed(read_connect_initial(pdu))
  \/ message.kind = "connect_response" /\ Parsed(read_connect_response(pdu))

parse_x224 ==
  \/ message.kind = "request" /\ ~split_panics(pdu) /\ Parsed(decode_request(pdu))
  \/ message.kind = "confirm" /\ ~split_panics(pdu) /\ Parsed(decode_confirm(pdu))
  \/ /\ progress = "unwrapped" /\ message.kind = "request" /\ split_panics(pdu)
     /\ progress' = "panic"
     /\ UNCHANGED <<initiator, user_id, message, pdu, link, meaning, shortened>>

parse_fast_path == message.kind = "fast_path" /\ Parsed(parse_output_pdu(pdu))

-----------------------------------------------------------------------------
WireInit ==
  /\ initiator = -1 /\ user_id = 0
  /\ message = [kind |-> "none"] /\ pdu = <<>> /\ link = <<>> /\ meaning = <<>>
  /\ progress = "idle" /\ shortened = FALSE

WireNext ==
  \/ \E i \in Initiators : attach_user_confirm(i)
  \/ \E n \in DataSizes : send_data(n)
  \/ \E n \in DataSizes : send_indication(n)
  \/ \E n \in BlockSizes : connect_initial(n)
  \/ \E n \in BlockSizes, result \in {0, 1} : connect_response(n, result)
  \/ \E n \in CookieSizes : connection_request(n)
  \/ \E response \in {None, nego(2, 2), nego(3, 5)} : connection_confirm(response)
  \/ \E r \in TsRequests : ts_request(r)
  \/ \E u \in UpdateLists, wide \in BOOLEAN : fast_path(u, wide)
  \/ \E n \in {1, 2, size[pdu] \div 2, size[pdu] - 1} : n \in 1..(size[pdu] - 1) /\ shorten(n)
  \/ write_tpkt \/ read_tpkt \/ read_frame_body \/ read_der_tlv
  \/ parse_mcs \/ parse_x224 \/ parse_fast_path
  \/ decode_ts_request \/ ts_request_field \/ ts_request_decoded

-----------------------------------------------------------------------------
(* Properties *)

\* A PDU the encoders can express: PER lengths below 0x4000, a length indicator in a byte
Expressible ==
  CASE message.kind \in {"data", "indication"} -> size[message.values.data] < 16384
    [] message.kind = "connect_initial"  -> size[message.values.data] < 16370
    [] message.kind = "connect_response" -> size[message.values.data] < 16384
    [] message.kind = "request"          -> size[message.values.cookie] <= 222
    [] OTHER -> TRUE

\* A PDU means to its reader what its writer put in: whatever crosses BER, PER or DER,
\* X.224 and TPKT is read back value for value, a success only from a successful
\* Connect-Response; one whose end is missing is never taken for another; and none is
\* refused without such a reason, or for being longer than its length field holds.
MessageArrives ==
  /\ progress = "ok" /\ Expressible => meaning = <<message.values>> /\ ~shortened
  /\ progress = "error" =>
       \/ shortened \/ ~Expressible
       \/ message.kind = "connect_response" /\ message.values.result # 0
  /\ progress = "panic" => ~Expressible \/ initiator + MCS_BASE > 65535
=============================================================================
