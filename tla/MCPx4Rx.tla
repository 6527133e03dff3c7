------------------------------- MODULE MCPx4Rx -------------------------------
(* The receiver with a history of 3 and sequence numbers mod 8; at most    *)
(* one frame is lost in a row.                                             *)
EXTENDS Px4Rx

(* The instance is one the ring is meant for.                              *)
ASSUME Tolerable == ShortLosses /\ RecentCopies
=============================================================================
