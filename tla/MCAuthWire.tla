----------------------------- MODULE MCAuthWire -----------------------------
(* AuthWire with an empty string and one of 24 bytes.  33 is the type byte *)
(* of API_KEY_RESPONSE; with a key of 24 bytes its length is the type byte *)
(* of API_KEY_STATUS_RESP.                                                 *)
EXTENDS AuthWire

MCStrings == {<<>>, [i \in 1..24 |-> i]}
MCNumbers16 == {<<2, 1>>}
MCNumbers64 == {<<0, 0, 6, 5, 4, 3, 2, 33>>}
MCCodes == {0, 1, 33}
=============================================================================
