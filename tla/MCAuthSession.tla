---------------------------- MODULE MCAuthSession ----------------------------
(* AuthSession on a small instance.                                        *)
EXTENDS AuthSession

MCConns == 1..4
MCTokens == 1..4
=============================================================================
