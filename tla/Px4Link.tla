------------------------------- MODULE Px4Link -------------------------------
(***************************************************************************)
(* The PX4 link arbiter of forwarder/px4_link.go: which of the three       *)
(* physical links to the flight controller (Ethernet, TELEM2, TELEM3)      *)
(* carries the commands, when it changes, and who may transmit on it.      *)
(*                                                                         *)
(* Time is a discrete tick.  The code keeps instants and only ever asks    *)
(* whether one lies within `loss' of now, so an instant is represented by  *)
(* its age, counted up to Loss and no further: age Loss means "at least    *)
(* Loss ago, or never".  holdUntil is the number of ticks left.            *)
(***************************************************************************)
EXTENDS Integers

CONSTANTS
    Loss,        \* link_loss_timeout, in ticks
    RecoverN,    \* eth_recover_heartbeats
    HBCap,       \* where noteHeartbeat stops counting (1000 in the code)
    EvalPeriod,  \* the supervisor runs evaluate at least this often (ticks)
    GenMod,      \* the width of the link generation (2^64 in the code)
    Writers      \* goroutines that send commands: the uplink reader, the web UI

\* configurePX4Links keeps its defaults unless the configured value is positive.
ASSUME LossAssumption == Loss \in Nat \ {0}
ASSUME RecoverAssumption == RecoverN \in Nat \ {0} /\ HBCap \in Nat \ {0}
ASSUME PeriodAssumption == EvalPeriod \in Nat \ {0}
ASSUME GenAssumption == GenMod \in Nat \ {0}
ASSUME WritersAssumption == "loop" \notin Writers

Links == {"eth", "telem2", "telem3"}
Idle == [by |-> "nobody", link |-> "none"]

VARIABLES
    ch,       \* ch[l]: the arbiter holds an open channel for link l
    hbAge,    \* hbAge[l]: age of the last PX4 heartbeat heard on l
    snap,     \* the linkSnap record
    gen,      \* generation: counts the link changes
    tx,       \* holder of txMu and the link it read under mu, or Idle
    started,  \* the supervisor has been started (px4SupervisorOnce)
    shown,    \* the link the web UI was last told (SetPX4LinkStatus)
    evalAge,  \* ticks since the last evaluate
    deadFor   \* history: ticks spent on a dead Ethernet with a UART open

vars == <<ch, hbAge, snap, gen, tx, started, shown, evalAge, deadFor>>

Snaps == [active : Links, entered : 0..Loss, holdUntil : 0..Loss,
          ethLost : BOOLEAN, ethHBSinceLoss : 0..HBCap]

Snap(active, entered, hold, lost, beats) ==
    [active |-> active, entered |-> entered, holdUntil |-> hold,
     ethLost |-> lost, ethHBSinceLoss |-> beats]

Fresh(l) == hbAge[l] < Loss

-----------------------------------------------------------------------------
(* stepLink, a pure function of the snapshot and of what was heard.  Each  *)
(* helper is one of its returns.  Every return with a reason changes the   *)
(* active link and no other return does.                                   *)

Enter(s, l) == Snap(l, 0, Loss, s.ethLost, s.ethHBSinceLoss)

\* Faulty: the beats counted on the UART survive the recovery.
RecoverKeepsBeats(s) == Snap("eth", 0, 0, FALSE, s.ethHBSinceLoss)

Recover(s) == Snap("eth", 0, 0, FALSE, 0)

LoseEth(s) == Snap(s.active, s.entered, s.holdUntil, TRUE, 0)

\* Faulty: one beat too few.
EthBackEarly(s, fresh, open) ==
    /\ s.active # "eth" /\ s.ethLost
    /\ s.ethHBSinceLoss >= RecoverN - 1
    /\ fresh["eth"] /\ open["eth"]

EthBack(s, fresh, open) ==
    /\ s.active # "eth" /\ s.ethLost
    /\ s.ethHBSinceLoss >= RecoverN
    /\ fresh["eth"] /\ open["eth"]

\* Faulty: the link that was just entered is judged at once.
HeldNever(s, open) == FALSE

Held(s, open) == s.holdUntil > 0 /\ open[s.active]

\* Faulty: an absent TELEM2 is not skipped.
StepEthTelem2Only(s, fresh, open) ==
    IF fresh["eth"] \/ s.entered < Loss THEN s
    ELSE IF open["telem2"] THEN Enter(LoseEth(s), "telem2")
    ELSE LoseEth(s)

StepEth(s, fresh, open) ==
    IF fresh["eth"] \/ s.entered < Loss THEN s
    ELSE IF open["telem2"] THEN Enter(LoseEth(s), "telem2")
    ELSE IF open["telem3"] THEN Enter(LoseEth(s), "telem3")
    ELSE LoseEth(s)

StepTelem2(s, fresh, open) ==
    IF ~(fresh["telem2"] /\ open["telem2"]) /\ open["telem3"]
    THEN Enter(s, "telem3") ELSE s

\* Faulty: TELEM2 coming back is not noticed.
StepTelem3Stays(s, fresh, open) == s

StepTelem3(s, fresh, open) ==
    IF fresh["telem2"] /\ open["telem2"] THEN Enter(s, "telem2") ELSE s

stepLink(s, fresh, open) ==
    IF EthBack(s, fresh, open) THEN Recover(s)
    ELSE IF Held(s, open) THEN s
    ELSE CASE s.active = "eth" -> StepEth(s, fresh, open)
           [] s.active = "telem2" -> StepTelem2(s, fresh, open)
           [] s.active = "telem3" -> StepTelem3(s, fresh, open)

-----------------------------------------------------------------------------
(* Ethernet is the active link, it is silent and past its window, and a    *)
(* UART could carry the commands.                                          *)
DeadEth ==
    /\ started
    /\ snap.active = "eth" /\ ~Fresh("eth") /\ snap.entered = Loss
    /\ ch["telem2"] \/ ch["telem3"]

Init ==
    /\ ch = [l \in Links |-> FALSE]
    /\ hbAge = [l \in Links |-> Loss]
    /\ snap = Snap("eth", 0, 0, FALSE, 0)
    /\ gen = 0
    /\ tx = Idle
    /\ started = FALSE
    /\ shown = "none"
    /\ evalAge = 0
    /\ deadFor = 0

(* startPX4LinkSupervisor: restarts the Ethernet window.                   *)
startPX4LinkSupervisor ==
    /\ ~started
    /\ started' = TRUE
    /\ snap' = Recover(snap)
    /\ shown' = "eth"
    /\ evalAge' = 0
    /\ UNCHANGED <<ch, hbAge, gen, tx>>

(* EventChannelOpen and EventChannelClose, handled by receiveAndForward.   *)
register(l) ==
    /\ ~ch[l]
    /\ ch' = [ch EXCEPT ![l] = TRUE]
    /\ UNCHANGED <<hbAge, snap, gen, tx, started, shown, evalAge>>

unregister(l) ==
    /\ ch[l]
    /\ ch' = [ch EXCEPT ![l] = FALSE]
    /\ UNCHANGED <<hbAge, snap, gen, tx, started, shown, evalAge>>

(* noteHeartbeat, under mu: the link is fresh, and Ethernet beats count    *)
(* towards recovery while a UART is active.                                *)
\* Faulty: the count has no ceiling.
NotedSnapUncapped(s, l) ==
    IF l = "eth" /\ s.ethLost /\ s.active # "eth"
    THEN Snap(s.active, s.entered, s.holdUntil, TRUE, s.ethHBSinceLoss + 1)
    ELSE s

NotedSnap(s, l) ==
    IF l = "eth" /\ s.ethLost /\ s.active # "eth" /\ s.ethHBSinceLoss < HBCap
    THEN Snap(s.active, s.entered, s.holdUntil, TRUE, s.ethHBSinceLoss + 1)
    ELSE s

noteHeartbeat(l) ==
    /\ hbAge' = [hbAge EXCEPT ![l] = 0]
    /\ snap' = NotedSnap(snap, l)
    /\ UNCHANGED <<ch, gen, tx, started, shown, evalAge>>

(* observe: a PX4 heartbeat frame comes out of an open channel.            *)
observe(l) == ch[l] /\ noteHeartbeat(l)

(* watchEthernetBroadcast: a broadcast copy, on a socket of its own.       *)
watchEthernetBroadcast == started /\ noteHeartbeat("eth")

\* Faulty: evaluate does not take txMu.
evaluateUnlocked ==
    /\ started
    /\ LET next == stepLink(snap, [l \in Links |-> Fresh(l)], ch)
       IN  /\ snap' = next
           /\ shown' = next.active
           /\ gen' = IF next.active # snap.active THEN (gen + 1) % GenMod ELSE gen
    /\ evalAge' = 0
    /\ UNCHANGED <<ch, hbAge, tx, started>>

\* Faulty: a change of link is not counted.
evaluateSilently ==
    /\ started
    /\ tx = Idle
    /\ snap' = stepLink(snap, [l \in Links |-> Fresh(l)], ch)
    /\ shown' = snap'.active
    /\ evalAge' = 0
    /\ UNCHANGED <<ch, hbAge, gen, tx, started>>

(* evaluate, by the supervisor loop, under txMu and mu.                    *)
evaluate ==
    /\ started
    /\ tx = Idle
    /\ LET next == stepLink(snap, [l \in Links |-> Fresh(l)], ch)
       IN  /\ snap' = next
           /\ shown' = next.active
           /\ gen' = IF next.active # snap.active THEN (gen + 1) % GenMod ELSE gen
    /\ evalAge' = 0
    /\ UNCHANGED <<ch, hbAge, tx, started>>

(* write and sendHeartbeat take txMu, read the active link and its channel *)
(* under mu and give up if the channel is nil.  The web writer and the     *)
(* loop exist once the supervisor is started.                              *)
BeginWrite(w) ==
    /\ tx = Idle
    /\ ch[snap.active]
    /\ w \in {"web", "loop"} => started
    /\ tx' = [by |-> w, link |-> snap.active]
    /\ UNCHANGED <<ch, hbAge, snap, gen, started, shown, evalAge>>

(* WriteMessageTo on that channel, then the deferred unlock of txMu.       *)
EndWrite(w) ==
    /\ tx.by = w
    /\ tx' = Idle
    /\ UNCHANGED <<ch, hbAge, snap, gen, started, shown, evalAge>>

Older(a) == IF a < Loss THEN a + 1 ELSE a
Less(h) == IF h > 0 THEN h - 1 ELSE 0

(* One tick of time.  The loop is late by less than EvalPeriod: time waits *)
(* for an evaluate that is due.                                            *)
Tick ==
    /\ started => evalAge < EvalPeriod
    /\ hbAge' = [l \in Links |-> Older(hbAge[l])]
    /\ snap' = Snap(snap.active, Older(snap.entered), Less(snap.holdUntil),
                    snap.ethLost, snap.ethHBSinceLoss)
    /\ evalAge' = IF started THEN evalAge + 1 ELSE 0
    /\ UNCHANGED <<ch, gen, tx, started, shown>>

(* How long the bad state of DeadEth has lasted without a break.           *)
CountDead(ticks) == deadFor' = IF DeadEth /\ DeadEth' THEN deadFor + ticks ELSE 0

(* What the arbiter and its users do, apart from hearing a heartbeat.      *)
ArbiterStep ==
    \/ startPX4LinkSupervisor
    \/ \E l \in Links : register(l) \/ unregister(l)
    \/ evaluate
    \/ \E w \in Writers \cup {"loop"} : BeginWrite(w) \/ EndWrite(w)

Heartbeat == (\E l \in Links : observe(l)) \/ watchEthernetBroadcast

Next ==
    \/ ArbiterStep /\ CountDead(0)
    \/ Heartbeat /\ CountDead(0)
    \/ Tick /\ CountDead(1)

Evaluates == evaluate /\ CountDead(0)
Ends == \E w \in Writers \cup {"loop"} : EndWrite(w) /\ CountDead(0)

(* Time passes, a started write ends, and the supervisor is started.  The  *)
(* loop competes for txMu with the writers: Go's mutex hands itself to a   *)
(* waiter that has starved, hence strong fairness for evaluate.            *)
Fairness ==
    /\ WF_vars(Tick /\ CountDead(1))
    /\ WF_vars(startPX4LinkSupervisor /\ CountDead(0))
    /\ WF_vars(Ends)
    /\ SF_vars(Evaluates)

Spec == Init /\ [][Next]_vars
FairSpec == Spec /\ Fairness

-----------------------------------------------------------------------------
(* The shape of the state; the beat counter and the generation stay within *)
(* their widths.                                                           *)
TypeOK ==
    /\ ch \in [Links -> BOOLEAN]
    /\ hbAge \in [Links -> 0..Loss]
    /\ snap \in Snaps
    /\ gen \in 0..(GenMod - 1)
    /\ tx \in {Idle} \cup [by : Writers \cup {"loop"}, link : Links]
    /\ started \in BOOLEAN
    /\ shown \in Links \cup {"none"}
    /\ evalAge \in 0..EvalPeriod
    /\ deadFor \in Nat

(* Whoever holds txMu is sending on the link that is active now: a command *)
(* or a heartbeat is never in the hands of the node for a link the arbiter *)
(* has already left.                                                       *)
TxOnActiveLink == tx # Idle => tx.link = snap.active

(* A UART carries the commands only while the loss of Ethernet is on       *)
(* record, so that its heartbeats count towards recovery, and beats are    *)
(* counted only then; the hold of a UART is what is left of its own loss   *)
(* window and Ethernet has none.                                           *)
RecoveryArmed ==
    /\ snap.active # "eth" => snap.ethLost
    /\ snap.ethHBSinceLoss > 0 => snap.active # "eth"
    /\ snap.holdUntil = IF snap.active = "eth" THEN 0 ELSE Loss - snap.entered

(* Commands never stay on a silent Ethernet for longer than one health     *)
(* period while a UART is open.                                            *)
FailoverInTime == deadFor <= EvalPeriod

(* stepLink's promise: a link that was just entered is not judged until    *)
(* its own window ends.  A change away from it before then is a recovery   *)
(* of Ethernet or follows the loss of its channel.                         *)
NotJudgedEarly ==
    [][snap'.active # snap.active =>
         \/ snap.entered = Loss
         \/ snap.active # "eth" /\ ~ch[snap.active]
         \/ snap.active # "eth" /\ snap'.active = "eth"]_vars

(* The arbiter keeps the promise of LinkChoice: the link changes only      *)
(* under txMu, and the receiver sees every change as a new generation.     *)
Choice == INSTANCE LinkChoice WITH LinkSet <- Links, First <- "eth",
              Gens <- GenMod, active <- snap.active, sending <- tx.link

ImplementsChoice == Choice!ChoiceSpec

Better(l) == CASE l = "eth" -> {}
               [] l = "telem2" -> {"eth"}
               [] l = "telem3" -> {"eth", "telem2"}

(* When the best link that is heard stays open and heard, and the better   *)
(* ones stay silent, the arbiter settles on it.                            *)
SettlesOnBestLink ==
    \A l \in Links :
        <>[](Fresh(l) /\ ch[l] /\ \A b \in Better(l) : ~Fresh(b))
            => <>[](snap.active = l)
=============================================================================
