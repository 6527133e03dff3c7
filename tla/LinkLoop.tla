------------------------------ MODULE LinkLoop -------------------------------
(***************************************************************************)
(* The supervisor loop of forwarder/px4_link.go: one turn per received     *)
(* tick of a 50 ms ticker, and in a turn at most one of the health check   *)
(* (evaluate) and the 1 Hz partner heartbeat.  Time is counted in ticks.   *)
(* A turn comes d ticks after the one before it: d > 1 is a stall          *)
(* (evaluate and sendHeartbeat wait for txMu; the ticker drops ticks       *)
(* meanwhile).                                                             *)
(* Deadlines are kept relative to the last turn.                           *)
(***************************************************************************)
EXTENDS Integers

CONSTANTS
    HealthPeriod,  \* linkHealthPeriod (10 ticks)
    HBPeriod,      \* linkHeartbeatPeriod (20 ticks)
    HealthOffset,  \* linkHealthOffset (5 ticks)
    Push,          \* what a collision adds to the heartbeat (4 ticks)
    MaxGap,        \* the longest stall
    Calm           \* stalls up to this length do not stop the heartbeat

ASSUME LoopAssumption ==
    /\ HealthPeriod \in Nat \ {0} /\ HBPeriod \in Nat \ {0}
    /\ HealthOffset \in 1..HealthPeriod
    /\ Push \in Nat \ {0} /\ MaxGap \in Nat \ {0} /\ Calm \in Nat \ {0}

VARIABLES
    nextHealth,   \* ticks from the last turn to the deadline
    nextHB,
    sinceHealth,  \* history: ticks from the last health check to the last turn
    waited,       \* history: the same just before the last turn ran its phase
    turn          \* history: the last turn's delay and what was due in it

loopVars == <<nextHealth, nextHB, sinceHealth, waited, turn>>

Turns == [gap : 0..MaxGap, healthDue : BOOLEAN, hbDue : BOOLEAN]

LoopInit ==
    /\ nextHealth = HealthOffset
    /\ nextHB = HBPeriod
    /\ sinceHealth = 0
    /\ waited = 0
    /\ turn = [gap |-> 0, healthDue |-> FALSE, hbDue |-> FALSE]

\* Faulty: the next deadline is counted from the missed one only.
advanceOnce(late, period) == period - late

(* advanceDeadline, for a deadline that is `late' ticks in the past: the   *)
(* first one on its own grid that lies after now.                          *)
advanceDeadline(late, period) == period - (late % period)

AdvancedHealth(d) == IF nextHealth <= d
                     THEN advanceDeadline(d - nextHealth, HealthPeriod)
                     ELSE nextHealth - d

AdvancedHB(d) == IF nextHB <= d THEN advanceDeadline(d - nextHB, HBPeriod)
                 ELSE nextHB - d

\* Faulty: the heartbeat goes first and puts the health check off.
HeartbeatFirst(d, healthDue, hbDue) ==
    /\ nextHB' = AdvancedHB(d)
    /\ nextHealth' = IF healthDue /\ hbDue THEN Push ELSE AdvancedHealth(d)
    /\ sinceHealth' = IF healthDue /\ ~hbDue THEN 0 ELSE sinceHealth + d

\* Faulty: a heartbeat that loses its turn waits for the next health check.
HeartbeatBehindHealth(d, healthDue, hbDue) ==
    /\ nextHealth' = AdvancedHealth(d)
    /\ nextHB' = IF healthDue /\ hbDue THEN AdvancedHealth(d) ELSE AdvancedHB(d)
    /\ sinceHealth' = IF healthDue THEN 0 ELSE sinceHealth + d

(* nextLinkPhase: health wins a turn in which both are due and puts the    *)
(* heartbeat off by Push.                                                  *)
nextLinkPhase(d, healthDue, hbDue) ==
    /\ nextHealth' = AdvancedHealth(d)
    /\ nextHB' = IF healthDue /\ hbDue THEN Push ELSE AdvancedHB(d)
    /\ sinceHealth' = IF healthDue THEN 0 ELSE sinceHealth + d

(* One turn of the loop, d ticks after the previous one.                   *)
LoopTurn(d) ==
    LET healthDue == nextHealth <= d
        hbDue == nextHB <= d
    IN  /\ nextLinkPhase(d, healthDue, hbDue)
        /\ waited' = sinceHealth + d
        /\ turn' = [gap |-> d, healthDue |-> healthDue, hbDue |-> hbDue]

LoopNext == \E d \in 1..MaxGap : LoopTurn(d)

(* The runtime delivers the ticker's ticks as long as the program runs.    *)
LoopSpec == LoopInit /\ [][LoopNext]_loopVars /\ WF_loopVars(LoopNext)

-----------------------------------------------------------------------------
(* The shape of the state; after every turn both deadlines are ahead of    *)
(* it, the health check's by at most one period.                           *)
LoopTypeOK ==
    /\ nextHealth \in 1..HealthPeriod
    /\ nextHB \in Nat \ {0}
    /\ sinceHealth \in Nat
    /\ waited \in Nat
    /\ turn \in Turns

(* Health checks come at most a period and the excess of one stall apart,  *)
(* whatever the heartbeat does.  This is the EvalPeriod that the arbiter's *)
(* failover bound (Px4Link) rests on.                                      *)
HealthOnTime == waited <= HealthPeriod + MaxGap - 1

(* A heartbeat that loses turns to the health check is put off, not lost   *)
(* for ever: once the stalls are short, it is sent again and again.        *)
HeartbeatResumes ==
    <>[](turn.gap <= Calm) => []<>(turn.hbDue /\ ~turn.healthDue)
=============================================================================
