---------------------------- MODULE NtlmMessages ----------------------------
(***************************************************************************)
(* The three NTLM messages (nla/ntlm.rs) and how the client answers a      *)
(* CHALLENGE (process_challenge of nla/client.rs, nla/ntlmv2.rs): security *)
(* buffers, target information, the responses and the MIC.  The server is  *)
(* external.  A message is its header's values, the header's size and the  *)
(* payload; a digest is the tuple it is taken over.                        *)
(***************************************************************************)
EXTENDS Octets

CONSTANTS Names,           \* sizes of target, domain and user names
          PairSizes,       \* sizes of a target-information value
          MaxPairs,        \* how many values there are
          Cuts             \* sizes a CHALLENGE may be cut to (all of them bounds)

ASSUME NtlmAssumption ==
  /\ Names \cup PairSizes \cup Cuts \subseteq Nat
  /\ MaxPairs \in Nat

VARIABLES account,          \* sizes of the client's domain and user name
          negotiate_msg,    \* NEGOTIATE as sent
          info,             \* the server's AV_PAIRs and the size of their blob
          challenge,        \* CHALLENGE as it arrives
          authenticate_msg, \* AUTHENTICATE as sent, and what it was built from
          decoded,          \* AUTHENTICATE as the server decodes it
          ntlm              \* how far the exchange is, or its outcome

ntlmVars == <<account, negotiate_msg, info, challenge, authenticate_msg, decoded, ntlm>>

\* Payload bytes, told apart by what they are
HEADER == 400
TARGET_NAME == 401
INFO == 402                \* a byte of the target information
DOMAIN_NAME == 403
USER == 404
LM == 405                  \* the LM response, and its zeros
ZERO == 406
PROOF_STR == 407
CLIENT_BLOB == 408         \* the part of temp before the target information
SESSION_KEY == 409

-----------------------------------------------------------------------------
(* Security buffers *)

\* A message in bytes; what a header's field refers to counts from its start
bytesOf(msg) == block(HEADER, msg.header) \o msg.payload
total(msg) == msg.header + size[msg.payload]

\* The length is cut to 16 bits
place(bytes, offset) == [len |-> size[bytes] % 65536, offset |-> offset]

slice(field, msg) ==
  IF field.offset + field.len > total(msg) THEN Err
  ELSE Ok(part(bytesOf(msg), field.offset, field.offset + field.len), <<>>)

\* slice(..).unwrap_or(&[])
sliceOrEmpty(field, msg) == LET s == slice(field, msg) IN IF s.ok THEN s.value ELSE <<>>

-----------------------------------------------------------------------------
(* NEGOTIATE *)

\* start: empty names behind the fixed header, which ends with a version
NEGOTIATE_LEN == 40
send_negotiate ==
  /\ ntlm = "start"
  /\ negotiate_msg' = [type |-> 1, version |-> TRUE, header |-> NEGOTIATE_LEN,
                       payload |-> <<>>, domain |-> [len |-> 0, offset |-> NEGOTIATE_LEN],
                       workstation |-> [len |-> 0, offset |-> NEGOTIATE_LEN]]
  /\ ntlm' = "challenge"
  /\ UNCHANGED <<account, info, challenge, authenticate_msg, decoded>>

-----------------------------------------------------------------------------
(* CHALLENGE and its target information *)

EOL == 0
NB_DOMAIN_NAME == 2
TIMESTAMP == 7
PairHeader == 4

\* Size of the first n pairs
upTo(pairs, n) ==
  LET sum[k \in 0..n] == IF k = 0 THEN 0 ELSE sum[k - 1] + PairHeader + pairs[k].len IN sum[n]

\* The server adds a pair to its target information (external)
server_pair(id, n) ==
  /\ ntlm = "challenge" /\ Len(info.pairs) < MaxPairs
  /\ LET pairs == Append(info.pairs, [id |-> id, len |-> n]) IN
     info' = [pairs |-> pairs, size |-> upTo(pairs, Len(pairs))]
  /\ UNCHANGED <<account, negotiate_msg, challenge, authenticate_msg, decoded, ntlm>>

CHALLENGE_LEN == 48

\* and sends it behind its name, maybe without its last n bytes, or the whole message
\* cut to its first c bytes (external; encode is the fixture's)
server_challenge(name, n, c) ==
  LET blob == info.size - n
      msg  == [type |-> 2, header |-> CHALLENGE_LEN,
               payload |-> block(TARGET_NAME, name) \o block(INFO, blob),
               target_name |-> place(block(TARGET_NAME, name), CHALLENGE_LEN),
               target_info |-> place(block(INFO, blob), CHALLENGE_LEN + name)]
  IN /\ ntlm = "challenge" /\ blob \in 0..65535
     /\ challenge' = [whole |-> msg,
                      msg |-> IF c < CHALLENGE_LEN THEN [msg EXCEPT !.header = c, !.payload = <<>>]
                              ELSE [msg EXCEPT !.payload = take[@, c - CHALLENGE_LEN]]]
     /\ info' = [info EXCEPT !.size = blob]
     /\ ntlm' = "challenged"
     /\ UNCHANGED <<account, negotiate_msg, authenticate_msg, decoded>>

\* Reading past the end panics where no length was checked before
decode_challenge_outcome(msg) ==
  CASE total(msg) < 12 -> "error"
    [] total(msg) \in 12..23 -> "panic"
    [] total(msg) \in 24..39 -> "error"
    [] total(msg) \in 40..47 -> "panic"
    [] OTHER -> "decoded"

\* The pairs before the end of the list: an EOL, a value that is not whole, or no
\* room for a header
parse_av_pairs(blob) ==
  LET n == size[blob]
      whole[k \in 0..Len(info.pairs)] ==
        \/ k = 0
        \/ whole[k - 1] /\ info.pairs[k].id # EOL /\ upTo(info.pairs, k) <= n
  IN {k \in 1..Len(info.pairs) : whole[k]}

\* extract_timestamp finds one: the first of eight bytes
has_timestamp(blob) == \E k \in parse_av_pairs(blob) :
                         info.pairs[k].id = TIMESTAMP /\ info.pairs[k].len = 8

-----------------------------------------------------------------------------
(* AUTHENTICATE *)

HEADER_LEN == 88

\* temp, the proof over it, and the response that carries both
temp(blob) == block(CLIENT_BLOB, 28) \o blob \o block(ZERO, 4)
nt_response(blob) == block(PROOF_STR, 16) \o temp(blob)
lm_response(blob) == block(IF has_timestamp(blob) THEN ZERO ELSE LM, 24)

Fields == <<"lm_response", "nt_response", "domain", "user", "workstation", "encrypted_session_key">>

\* Mutant: a field starts where the one before would end if its length were cut
Offset_cut(values, k) ==
  LET off[j \in 1..k] == IF j = 1 THEN HEADER_LEN ELSE off[j - 1] + (size[values[Fields[j - 1]]] % 65536)
  IN off[k]

\* A field starts where the one before ends
Offset(values, k) ==
  LET off[j \in 1..k] == IF j = 1 THEN HEADER_LEN ELSE off[j - 1] + size[values[Fields[j - 1]]]
  IN off[k]

\* encode: the values in this order behind the header, and a descriptor of each
encode(values, mic) ==
  LET at(k) == values[Fields[k]]
      f(k)  == place(at(k), Offset(values, k))
  IN [type |-> 3, header |-> HEADER_LEN, mic |-> mic,
      lm_response |-> f(1), nt_response |-> f(2), domain |-> f(3), user |-> f(4),
      workstation |-> f(5), encrypted_session_key |-> f(6),
      payload |-> at(1) \o at(2) \o at(3) \o at(4) \o at(5) \o at(6)]

ZeroMic == <<>>

\* compute_mic: over the other two messages and this one with a zero MIC
mic_over(neg, chal, values) == <<neg, chal, encode(values, ZeroMic)>>

\* process_challenge as far as the AUTHENTICATE it sends
answer_challenge ==
  LET msg    == challenge.msg
      blob   == sliceOrEmpty(msg.target_info, msg)
      values == [lm_response |-> lm_response(blob), nt_response |-> nt_response(blob),
                 domain |-> block(DOMAIN_NAME, account.domain), user |-> block(USER, account.user),
                 workstation |-> <<>>, encrypted_session_key |-> block(SESSION_KEY, 16)]
  IN /\ ntlm = "challenged"
     /\ UNCHANGED <<account, negotiate_msg, info, challenge, decoded>>
     /\ \/ /\ decode_challenge_outcome(msg) # "decoded"
           /\ ntlm' = decode_challenge_outcome(msg)
           /\ UNCHANGED authenticate_msg
        \/ /\ decode_challenge_outcome(msg) = "decoded"
           /\ authenticate_msg' = [values |-> values,
                               msg |-> encode(values, mic_over(negotiate_msg, msg, values))]
           /\ ntlm' = "authenticate"

\* AuthenticateMessage::decode, the server's side (external)
server_authenticate ==
  LET msg == authenticate_msg.msg
      read(k) == slice(msg[Fields[k]], msg)
  IN /\ ntlm = "authenticate"
     /\ UNCHANGED <<account, negotiate_msg, info, challenge, authenticate_msg>>
     /\ IF \A k \in 1..6 : read(k).ok
        THEN /\ decoded' = [name \in {Fields[k] : k \in 1..6} |-> slice(msg[name], msg).value]
             /\ ntlm' = "accepted"
        ELSE ntlm' = "refused" /\ UNCHANGED decoded

-----------------------------------------------------------------------------
NtlmInit ==
  /\ account \in [domain : Names, user : Names]
  /\ negotiate_msg = <<>> /\ challenge = <<>> /\ authenticate_msg = <<>> /\ decoded = <<>>
  /\ info = [pairs |-> <<>>, size |-> 0]
  /\ ntlm = "start"

NtlmNext ==
  \/ send_negotiate
  \/ \E id \in {EOL, NB_DOMAIN_NAME, TIMESTAMP}, n \in PairSizes : server_pair(id, n)
  \/ \E name \in Names, n \in {0, 1, 5}, c \in Cuts : server_challenge(name, n, c)
  \/ answer_challenge \/ server_authenticate

-----------------------------------------------------------------------------
(* Properties *)

\* What the server sent reached the client whole
Intact == challenge.msg = challenge.whole

\* The pairs the server put before the end of its list
Listed == {k \in 1..Len(info.pairs) : \A j \in 1..k : info.pairs[j].id # EOL /\ upTo(info.pairs, j) <= info.size}

\* An AUTHENTICATE is decoded to what it was built from, every field of up to 65535
\* bytes whatever the others' sizes; its proof is over the target information the server
\* sent, its LM response is zero exactly when that holds a timestamp, and its MIC is
\* over the two messages before it exactly when the CHALLENGE came whole.
AuthenticateArrives ==
  ntlm \in {"accepted", "refused"} =>
    /\ ntlm = "accepted"
    /\ \A k \in 1..6 : size[authenticate_msg.values[Fields[k]]] < 65536 =>
         decoded[Fields[k]] = authenticate_msg.values[Fields[k]]
    /\ decoded["domain"] = block(DOMAIN_NAME, account.domain)
    /\ decoded["user"] = block(USER, account.user)
    /\ Intact =>
         /\ info.size + 48 < 65536 => decoded["nt_response"] = nt_response(block(INFO, info.size))
         /\ decoded["lm_response"] = block(ZERO, 24)
              <=> \E k \in Listed : info.pairs[k].id = TIMESTAMP /\ info.pairs[k].len = 8
    /\ Intact <=> authenticate_msg.msg.mic
                    = <<negotiate_msg, challenge.whole, [authenticate_msg.msg EXCEPT !.mic = ZeroMic]>>
=============================================================================
