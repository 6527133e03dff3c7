----------------------------- MODULE MCStreams ------------------------------
(* Streams for TLC: one camera.                                            *)
EXTENDS Streams

OneCam == <<0>>
=============================================================================
