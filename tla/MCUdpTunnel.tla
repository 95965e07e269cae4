---------------------------- MODULE MCUdpTunnel ----------------------------
(* PDUs: an empty one, one of one byte, and one that is a single byte too  *)
(* long for the length field and whose bytes read as tunnel PDUs.          *)
EXTENDS UdpTunnel
MCRequests == {[request_id |-> 1, security_cookie |-> 7]}
MCPdus == {<<>>, <<5>>, <<2, 1, 0, 4, 5, 2, 0, 0, 4>>}
MCSubHeaders == {<<>>, <<6, 6>>}
=============================================================================
