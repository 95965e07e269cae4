------------------------------ MODULE MCCodecs ------------------------------
(* The conversions on small pictures, messages and batches; contexts whose *)
(* sequence numbers wrap after two messages.                               *)
EXTENDS Codecs

CONSTANTS m0, m1           \* plaintexts, one of them empty
MCMsgLen == [m \in {m0, m1} |-> IF m = m0 THEN 0 ELSE 3]

MCBitmaps == {[width |-> 2, height |-> 6, bpp |-> 8, orders |-> 3, runs |-> {1, 8}],
              [width |-> 2, height |-> 20, bpp |-> 15, orders |-> 2, runs |-> {1, 2, 9, 33}],
              [width |-> 1, height |-> 1, bpp |-> 32, orders |-> 0, runs |-> {}]}

Str(f, w, h, n) == [format |-> f, width |-> w, height |-> h, segments |-> n]
MCStreams == {Str(0, 2, 1, 0), Str(32, 2, 2, 0), Str(16, 3, 2, 4), Str(48, 36, 1, 4),
              Str(1, 2, 2, 0), Str(57, 3, 3, 4), Str(48, 2, 0, 0)}
MCDeltas == {-128, 127}

Raw(bpp, d) == [bpp |-> bpp, compressed |-> FALSE, header |-> FALSE, decodes |-> d]
Packed(bpp, header, d) == [bpp |-> bpp, compressed |-> TRUE, header |-> header, decodes |-> d]
MCForms == {Raw(16, "good"), Raw(24, "bad"), Raw(32, "good"), Packed(15, TRUE, "good"),
            Packed(24, FALSE, "good"), Packed(32, TRUE, "good"), Packed(16, TRUE, "bad"),
            Packed(32, FALSE, "panics")}
Sz(w, h) == [width |-> w, height |-> h]
MCSizes == {Sz(1, 2), Sz(2, 2), Sz(4, 1)}
Ptr(b, w, h) == [bpp |-> b, width |-> w, height |-> h]
MCPointers == {Ptr(24, 1, 2), Ptr(24, 17, 2), Ptr(32, 3, 3), Ptr(16, 9, 1), Ptr(15, 3, 2)}

Ts(v, tokens, auth, key, code, nonce) ==
  [version |-> v, nego_tokens |-> tokens, auth_info |-> auth, pub_key_auth |-> key,
   error_code |-> code, client_nonce |-> nonce]
MCTsRequests ==
  {Ts(6, <<block(PAYLOAD, 40)>>, None, None, -1, None),
   Ts(6, <<block(PAYLOAD, 126), block(KEY, 300)>>, None, block(KEY, 127), -1, block(IDENTITY, 32)),
   Ts(2, <<>>, block(PAYLOAD, 65536), None, -1, None),
   Ts(200, <<>>, None, block(KEY, 128), 0, None),
   Ts(6, <<>>, None, <<>>, 32768, None)}
Up(code, frag, n, c) == [code |-> code, frag |-> frag, data |-> block(PAYLOAD, n), compressed |-> c]
MCUpdateLists ==
  {<<>>, <<Up(1, 0, 5, FALSE)>>, <<Up(1, 2, 122, FALSE)>>, <<Up(1, 0, 123, FALSE)>>,
   <<Up(11, 1, 16000, TRUE), Up(0, 3, 0, FALSE)>>, <<Up(9, 0, 60, TRUE), Up(6, 0, 0, FALSE)>>}
=============================================================================
