------------------------------ MODULE Px4Beats -------------------------------
(***************************************************************************)
(* The heartbeats PX4 sends over Ethernet, as seen by the arbiter.  PX4    *)
(* may send one heartbeat as a unicast datagram, which observe gets, and   *)
(* as a broadcast datagram, which watchEthernetBroadcast gets from a       *)
(* socket of its own.  A copy is lost, or arrives within a tick.           *)
(***************************************************************************)
EXTENDS Px4Link

CONSTANT Sendings  \* the ways PX4 sends a heartbeat, each a set of copies

Copies == {"unicast", "broadcast"}

ASSUME SendingsAssumption == Sendings \subseteq SUBSET Copies

VARIABLES
    inFlight,  \* copies of the last heartbeat that are still under way
    noted,     \* history: that heartbeat has been counted at least once
    beats      \* history: distinct heartbeats counted since Ethernet was left,
               \* up to RecoverN

beatVars == <<vars, inFlight, noted, beats>>

BeatInit == Init /\ inFlight = {} /\ noted = FALSE /\ beats = 0

EthBeat ==
    /\ inFlight = {}
    /\ inFlight' \in Sendings
    /\ noted' = FALSE
    /\ UNCHANGED <<vars, beats>>

LoseCopy(c) ==
    /\ c \in inFlight
    /\ inFlight' = inFlight \ {c}
    /\ UNCHANGED <<vars, noted, beats>>

HearCopy(c) ==
    /\ c \in inFlight
    /\ inFlight' = inFlight \ {c}
    /\ IF c = "unicast" THEN observe("eth") ELSE watchEthernetBroadcast
    /\ CountDead(0)
    /\ LET counted == snap'.ethHBSinceLoss > snap.ethHBSinceLoss
       IN  /\ noted' = (noted \/ counted)
           /\ beats' = IF counted /\ ~noted /\ beats < RecoverN THEN beats + 1 ELSE beats

Rest ==
    /\ \/ ArbiterStep /\ CountDead(0)
       \/ (\E l \in Links \ {"eth"} : observe(l)) /\ CountDead(0)
       \/ inFlight = {} /\ Tick /\ CountDead(1)
    /\ beats' = IF snap'.active = "eth" THEN 0 ELSE beats
    /\ UNCHANGED <<inFlight, noted>>

BeatNext ==
    \/ EthBeat
    \/ \E c \in Copies : LoseCopy(c)
    \/ \E c \in Copies : HearCopy(c)
    \/ Rest

BeatSpec == BeatInit /\ [][BeatNext]_beatVars

(* A copy under way is lost or heard; for the rest the arbiter's fairness. *)
BeatFairSpec ==
    BeatSpec /\ Fairness /\ WF_beatVars(\E c \in Copies : LoseCopy(c) \/ HearCopy(c))

(* The arbiter goes back to Ethernet only after RecoverN heartbeats of PX4 *)
(* ("One PX4 heartbeat on Ethernet is not enough to pull commands off      *)
(* UART", px4_link_test.go).                                               *)
RecoveryTakesRecoverNBeats ==
    [][snap.active # "eth" /\ snap'.active = "eth" => beats >= RecoverN]_beatVars
=============================================================================
