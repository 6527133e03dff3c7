----------------------------- MODULE MCLinkLoop ------------------------------
(* The supervisor loop with the periods of the code, in ticks of 50 ms.    *)
(* Stalls may be longer than the health period.                            *)
EXTENDS LinkLoop
=============================================================================
