---------------------------- MODULE Px4LinkProofs ----------------------------
(***************************************************************************)
(* Proofs about the PX4 link arbiter, for every loss window, recovery      *)
(* count, health period and set of writers, about the heartbeats it counts *)
(* before it goes back to Ethernet, and about the loop that calls it.      *)
(***************************************************************************)
EXTENDS Px4Beats, LinkLoop, TLAPS

(* RecoveryArmed, as a statement about one snapshot.                       *)
Armed(s) ==
    /\ s.active # "eth" => s.ethLost
    /\ s.ethHBSinceLoss > 0 => s.active # "eth"
    /\ s.holdUntil = IF s.active = "eth" THEN 0 ELSE Loss - s.entered

(* The inductive invariant.  Before the supervisor is started nobody       *)
(* leaves Ethernet, and a dead Ethernet is younger than the last evaluate. *)
IInv ==
    /\ TypeOK
    /\ Armed(snap)
    /\ TxOnActiveLink
    /\ ~started => snap.active = "eth"
    /\ deadFor <= evalAge

-----------------------------------------------------------------------------
(* What stepLink returns is a snapshot again, and an armed one.            *)
LEMMA StepLinkArmed ==
    ASSUME NEW s \in Snaps, Armed(s),
           NEW fresh \in [Links -> BOOLEAN], NEW open \in [Links -> BOOLEAN]
    PROVE  stepLink(s, fresh, open) \in Snaps /\ Armed(stepLink(s, fresh, open))
<1> USE LossAssumption, RecoverAssumption DEF Snaps, Snap, Links
<1>1. \A l \in Links \ {"eth"} :
        s.ethLost => /\ Enter(s, l) \in Snaps
                     /\ s.ethHBSinceLoss \in 0..HBCap => Armed(Enter(s, l))
  BY DEF Enter, Armed
<1>2. Recover(s) \in Snaps /\ Armed(Recover(s))
  BY DEF Recover, Armed
<1>3. CASE EthBack(s, fresh, open)
  BY <1>2, <1>3 DEF stepLink
<1>4. CASE ~EthBack(s, fresh, open) /\ Held(s, open)
  BY <1>4 DEF stepLink
<1>5. CASE ~EthBack(s, fresh, open) /\ ~Held(s, open)
  <2>1. CASE s.active = "eth"
    <3>1. stepLink(s, fresh, open) = StepEth(s, fresh, open)
      BY <1>5, <2>1 DEF stepLink
    <3>2. LoseEth(s) \in Snaps /\ Armed(LoseEth(s))
      BY <2>1 DEF LoseEth, Armed
    <3>3. \A l \in {"telem2", "telem3"} :
            Enter(LoseEth(s), l) \in Snaps /\ Armed(Enter(LoseEth(s), l))
      BY <2>1 DEF LoseEth, Enter, Armed
    <3> QED
      BY <3>1, <3>2, <3>3 DEF StepEth
  <2>2. CASE s.active = "telem2"
    <3>1. stepLink(s, fresh, open) = StepTelem2(s, fresh, open)
      BY <1>5, <2>2 DEF stepLink
    <3> QED
      BY <1>1, <2>2, <3>1 DEF StepTelem2, Armed
  <2>3. CASE s.active = "telem3"
    <3>1. stepLink(s, fresh, open) = StepTelem3(s, fresh, open)
      BY <1>5, <2>3 DEF stepLink
    <3> QED
      BY <1>1, <2>3, <3>1 DEF StepTelem3, Armed
  <2> QED
    BY <2>1, <2>2, <2>3
<1> QED
  BY <1>3, <1>4, <1>5

(* stepLink leaves a dead Ethernet for whichever UART is open.             *)
LEMMA StepLinkLeavesDeadEth ==
    ASSUME NEW s \in Snaps, Armed(s),
           NEW fresh \in [Links -> BOOLEAN], NEW open \in [Links -> BOOLEAN],
           s.active = "eth", ~fresh["eth"], s.entered = Loss,
           open["telem2"] \/ open["telem3"]
    PROVE  stepLink(s, fresh, open).active # "eth"
<1> USE LossAssumption DEF Snaps, Snap, Links
<1>1. ~EthBack(s, fresh, open) /\ ~Held(s, open)
  BY DEF EthBack, Held, Armed
<1>2. stepLink(s, fresh, open) = StepEth(s, fresh, open)
  BY <1>1 DEF stepLink
<1>3. \A l \in {"telem2", "telem3"} : Enter(LoseEth(s), l).active = l
  BY DEF Enter, LoseEth
<1> QED
  BY <1>2, <1>3 DEF StepEth

-----------------------------------------------------------------------------
(* Apart from the supervisor, only noteHeartbeat and time write the        *)
(* snapshot; both keep it an armed snapshot with the same active link.     *)
LEMMA NotedSnapArmed ==
    ASSUME NEW s \in Snaps, Armed(s), NEW l
    PROVE  /\ NotedSnap(s, l) \in Snaps /\ Armed(NotedSnap(s, l))
           /\ NotedSnap(s, l).active = s.active
BY RecoverAssumption DEF NotedSnap, Snaps, Snap, Armed

LEMMA AgedSnapArmed ==
    ASSUME NEW s \in Snaps, Armed(s),
           NEW t, t = Snap(s.active, Older(s.entered), Less(s.holdUntil),
                           s.ethLost, s.ethHBSinceLoss)
    PROVE  t \in Snaps /\ Armed(t) /\ t.active = s.active
BY LossAssumption DEF Older, Less, Snaps, Snap, Armed

(* A dead Ethernet is not counted across a step that resets evalAge, and   *)
(* otherwise for no more ticks than evalAge grows by.                      *)
LEMMA CountDeadBound ==
    ASSUME NEW n \in {0, 1}, CountDead(n), deadFor \in Nat, deadFor <= evalAge,
           evalAge \in Nat, evalAge' \in Nat,
           \/ evalAge' >= evalAge + n
           \/ ~DeadEth \/ ~DeadEth'
    PROVE  deadFor' \in Nat /\ deadFor' <= evalAge'
BY DEF CountDead

LEMMA InitInv == Init => IInv
<1> SUFFICES ASSUME Init PROVE IInv
  OBVIOUS
<1> USE LossAssumption, RecoverAssumption, PeriodAssumption, GenAssumption DEF Init
<1>1. snap \in Snaps /\ Armed(snap) /\ snap.active = "eth"
  BY DEF Snaps, Snap, Armed, Links
<1>2. ch \in [Links -> BOOLEAN] /\ hbAge \in [Links -> 0..Loss]
  OBVIOUS
<1>3. gen \in 0..(GenMod - 1) /\ evalAge \in 0..EvalPeriod
  OBVIOUS
<1>4. deadFor \in Nat /\ deadFor <= evalAge
  OBVIOUS
<1>5. TypeOK
  BY <1>1, <1>2, <1>3, <1>4, Zenon DEF TypeOK
<1>6. TxOnActiveLink
  BY DEF TxOnActiveLink
<1> QED
  BY <1>1, <1>4, <1>5, <1>6, Zenon DEF IInv

(* Every step keeps the inductive invariant.                               *)
LEMMA NextInv == IInv /\ [Next]_vars => IInv'
<1> SUFFICES ASSUME IInv, [Next]_vars PROVE IInv'
  OBVIOUS
<1> USE LossAssumption, PeriodAssumption, GenAssumption
<1>0. /\ TypeOK /\ Armed(snap) /\ TxOnActiveLink
      /\ ~started => snap.active = "eth"
      /\ deadFor <= evalAge /\ evalAge \in Nat /\ deadFor \in Nat
  BY DEF IInv, TypeOK
<1>1. CASE startPX4LinkSupervisor /\ CountDead(0)
  <2>1. ~DeadEth
    BY <1>1 DEF startPX4LinkSupervisor, DeadEth
  <2>2. deadFor' \in Nat /\ deadFor' <= evalAge'
    BY <1>0, <1>1, <2>1, CountDeadBound DEF startPX4LinkSupervisor
  <2>3. snap' \in Snaps /\ Armed(snap') /\ snap'.active = "eth"
    BY <1>1, RecoverAssumption
       DEF startPX4LinkSupervisor, Recover, Snaps, Snap, Armed, Links
  <2> QED
    BY <1>0, <1>1, <2>2, <2>3
       DEF startPX4LinkSupervisor, IInv, TypeOK, TxOnActiveLink, Links
<1>2. CASE (\E l \in Links : register(l) \/ unregister(l)) /\ CountDead(0)
  <2> PICK l \in Links : register(l) \/ unregister(l)
    BY <1>2
  <2>1. deadFor' \in Nat /\ deadFor' <= evalAge'
    BY <1>0, <1>2, CountDeadBound DEF register, unregister
  <2> QED
    BY <1>0, <2>1 DEF register, unregister, IInv, TypeOK, TxOnActiveLink
<1>3. CASE evaluate /\ CountDead(0)
  <2> DEFINE fresh == [l \in Links |-> Fresh(l)]
  <2>1. snap \in Snaps /\ fresh \in [Links -> BOOLEAN] /\ ch \in [Links -> BOOLEAN]
    BY <1>0 DEF TypeOK, Fresh
  <2>2. snap' = stepLink(snap, fresh, ch)
    BY <1>3 DEF evaluate
  <2>3. snap' \in Snaps /\ Armed(snap')
    BY <1>0, <2>1, <2>2, StepLinkArmed
  <2>4. DeadEth => ~DeadEth'
    <3> SUFFICES ASSUME DeadEth PROVE snap'.active # "eth"
      BY DEF DeadEth
    <3> QED
      BY <1>0, <2>1, <2>2, StepLinkLeavesDeadEth DEF DeadEth, Links
  <2>5. deadFor' \in Nat /\ deadFor' <= evalAge'
    BY <1>0, <1>3, <2>4, CountDeadBound DEF evaluate
  <2>6. gen' \in 0..(GenMod - 1)
    BY <1>0, <1>3 DEF evaluate, TypeOK
  <2>7. shown' \in Links
    BY <1>3, <2>2, <2>3 DEF evaluate, Snaps
  <2> QED
    BY <1>0, <1>3, <2>3, <2>5, <2>6, <2>7
       DEF evaluate, IInv, TypeOK, TxOnActiveLink
<1>4. CASE (\E w \in Writers \cup {"loop"} : BeginWrite(w) \/ EndWrite(w))
             /\ CountDead(0)
  <2> PICK w \in Writers \cup {"loop"} : BeginWrite(w) \/ EndWrite(w)
    BY <1>4
  <2>1. deadFor' \in Nat /\ deadFor' <= evalAge'
    BY <1>0, <1>4, CountDeadBound DEF BeginWrite, EndWrite
  <2>2. tx' \in {Idle} \cup [by : Writers \cup {"loop"}, link : Links]
    BY <1>0 DEF BeginWrite, EndWrite, TypeOK, Snaps
  <2> QED
    BY <1>0, <2>1, <2>2 DEF BeginWrite, EndWrite, IInv, TypeOK, TxOnActiveLink
<1>5. CASE Heartbeat /\ CountDead(0)
  <2> PICK l \in Links : noteHeartbeat(l)
    BY <1>5 DEF Heartbeat, observe, watchEthernetBroadcast, Links
  <2>1. deadFor' \in Nat /\ deadFor' <= evalAge'
    BY <1>0, <1>5, CountDeadBound DEF noteHeartbeat
  <2>2. snap' \in Snaps /\ Armed(snap') /\ snap'.active = snap.active
    BY <1>0, NotedSnapArmed DEF noteHeartbeat, TypeOK
  <2>3. hbAge' \in [Links -> 0..Loss]
    BY <1>0 DEF noteHeartbeat, TypeOK
  <2> QED
    BY <1>0, <2>1, <2>2, <2>3 DEF noteHeartbeat, IInv, TypeOK, TxOnActiveLink
<1>6. CASE Tick /\ CountDead(1)
  <2>1. evalAge' \in 0..EvalPeriod /\ (started => evalAge' = evalAge + 1)
    BY <1>0, <1>6 DEF Tick, TypeOK
  <2>2. ~started => ~DeadEth
    BY DEF DeadEth
  <2>3. deadFor' \in Nat /\ deadFor' <= evalAge'
    BY <1>0, <1>6, <2>1, <2>2, CountDeadBound
  <2>4. snap' \in Snaps /\ Armed(snap') /\ snap'.active = snap.active
    BY <1>0, <1>6, AgedSnapArmed DEF Tick, TypeOK
  <2>5. hbAge' \in [Links -> 0..Loss]
    BY <1>0, <1>6 DEF Tick, TypeOK, Older
  <2> QED
    BY <1>0, <1>6, <2>1, <2>3, <2>4, <2>5 DEF Tick, IInv, TypeOK, TxOnActiveLink
<1>7. CASE UNCHANGED vars
  BY <1>7, <1>0 DEF vars, IInv, TypeOK, TxOnActiveLink, Armed
<1> QED
  BY <1>1, <1>2, <1>3, <1>4, <1>5, <1>6, <1>7 DEF Next, ArbiterStep

(* The inductive invariant holds throughout.                               *)
LEMMA Invariance == Spec => []IInv
BY InitInv, NextInv, PTL DEF Spec

(* Every reachable state of the arbiter is well typed.                     *)
THEOREM TypeCorrect == Spec => []TypeOK
<1>1. IInv => TypeOK
  BY DEF IInv
<1> QED
  BY <1>1, Invariance, PTL

(* Nobody holds txMu for a link that is not the active one (evaluate takes *)
(* txMu before it changes the link).                                       *)
THEOREM TxSafe == Spec => []TxOnActiveLink
<1>1. IInv => TxOnActiveLink
  BY DEF IInv
<1> QED
  BY <1>1, Invariance, PTL

(* stepLink and noteHeartbeat keep the recovery of Ethernet armed exactly  *)
(* while a UART is active.                                                 *)
THEOREM RecoverySafe == Spec => []RecoveryArmed
<1>1. IInv => RecoveryArmed
  BY DEF IInv, Armed, RecoveryArmed
<1> QED
  BY <1>1, Invariance, PTL

(* A silent Ethernet with an open UART lasts at most one health period.    *)
THEOREM FailoverBound == Spec => []FailoverInTime
<1>1. IInv => FailoverInTime
  BY PeriodAssumption DEF IInv, TypeOK, FailoverInTime
<1> QED
  BY <1>1, Invariance, PTL

(* A link is not left inside its own window, except for a recovered        *)
(* Ethernet or when its channel is gone.                                   *)
THEOREM WindowRespected == Spec => NotJudgedEarly
<1> DEFINE A == snap'.active # snap.active =>
                  \/ snap.entered = Loss
                  \/ snap.active # "eth" /\ ~ch[snap.active]
                  \/ snap.active # "eth" /\ snap'.active = "eth"
<1>1. IInv /\ [Next]_vars => [A]_vars
  <2> SUFFICES ASSUME IInv, Next, snap'.active # snap.active
               PROVE  A
    OBVIOUS
  <2>0. snap \in Snaps /\ Armed(snap) /\ (~started => snap.active = "eth")
    BY DEF IInv, TypeOK
  <2>1. ~startPX4LinkSupervisor
    BY <2>0 DEF startPX4LinkSupervisor, Recover, Snap
  <2>2. \A l \in Links : ~noteHeartbeat(l)
    BY <2>0, NotedSnapArmed DEF noteHeartbeat
  <2>3. ~Tick
    BY <2>0, AgedSnapArmed DEF Tick
  <2>4. evaluate
    BY <2>1, <2>2, <2>3 DEF Next, ArbiterStep, Heartbeat, register, unregister,
       BeginWrite, EndWrite, observe, watchEthernetBroadcast, Links
  <2> DEFINE fresh == [l \in Links |-> Fresh(l)]
  <2>5. snap' = stepLink(snap, fresh, ch)
    BY <2>4 DEF evaluate
  <2>6. CASE EthBack(snap, fresh, ch)
    BY <2>5, <2>6 DEF stepLink, Recover, Snap, EthBack
  <2>7. CASE ~EthBack(snap, fresh, ch)
    <3>1. ~Held(snap, ch)
      BY <2>5, <2>7 DEF stepLink
    <3>2. CASE snap.active = "eth"
      <4>1. snap' = StepEth(snap, fresh, ch)
        BY <2>5, <2>7, <3>1, <3>2 DEF stepLink
      <4> QED
        BY <2>0, <3>2, <4>1, LossAssumption DEF StepEth, Snaps
    <3>3. CASE snap.active # "eth"
      BY <2>0, <3>1, <3>3, LossAssumption DEF Held, Armed, Snaps
    <3> QED
      BY <3>2, <3>3
  <2> QED
    BY <2>6, <2>7
<1> QED
  BY <1>1, Invariance, PTL DEF Spec, NotJudgedEarly

-----------------------------------------------------------------------------
(* Only evaluate changes the active link, and it holds txMu when it does.  *)
LEMMA OthersKeepLink ==
    ASSUME IInv, Next, ~evaluate
    PROVE  snap'.active = snap.active /\ gen' = gen
<1>0. snap \in Snaps /\ Armed(snap) /\ (~started => snap.active = "eth")
  BY DEF IInv, TypeOK
<1>1. startPX4LinkSupervisor => snap'.active = snap.active /\ gen' = gen
  BY <1>0 DEF startPX4LinkSupervisor, Recover, Snap
<1>2. \A l \in Links : noteHeartbeat(l) => snap'.active = snap.active /\ gen' = gen
  BY <1>0, NotedSnapArmed DEF noteHeartbeat
<1>3. Tick => snap'.active = snap.active /\ gen' = gen
  BY <1>0, AgedSnapArmed DEF Tick
<1> QED
  BY <1>1, <1>2, <1>3 DEF Next, ArbiterStep, Heartbeat, register, unregister,
     BeginWrite, EndWrite, observe, watchEthernetBroadcast, Links

(* The arbiter implements LinkChoice: its link changes, with a new         *)
(* generation, only while nobody transmits.                                *)
THEOREM ArbiterImplementsChoice == Spec => ImplementsChoice
<1>1. Init => Choice!ChoiceInit
  BY DEF Init, Choice!ChoiceInit, Snap, Idle
<1>2. IInv /\ [Next]_vars => [Choice!ChoiceNext]_(Choice!choiceVars)
  <2> SUFFICES ASSUME IInv, [Next]_vars
               PROVE  Choice!ChoiceNext \/ UNCHANGED Choice!choiceVars
    OBVIOUS
  <2> USE DEF Choice!choiceVars
  <2>0. /\ snap \in Snaps /\ TxOnActiveLink
        /\ tx \in {Idle} \cup [by : Writers \cup {"loop"}, link : Links]
        /\ IInv'
    BY NextInv DEF IInv, TypeOK
  <2>1. CASE evaluate
    <3>1. tx.link = "none" /\ tx' = tx
      BY <2>1 DEF evaluate, Idle
    <3>2. snap'.active \in Links
      BY <2>0 DEF IInv, TypeOK, Snaps
    <3>3. gen' = IF snap'.active # snap.active THEN (gen + 1) % GenMod ELSE gen
      BY <2>1 DEF evaluate
    <3> QED
      BY <3>1, <3>2, <3>3 DEF Choice!ChoiceNext, Choice!Switch
  <2>2. CASE \E w \in Writers \cup {"loop"} : BeginWrite(w)
    BY <2>2 DEF BeginWrite, Idle, Choice!ChoiceNext, Choice!BeginSend
  <2>3. CASE \E w \in Writers \cup {"loop"} : EndWrite(w)
    <3>1. tx = Idle \/ tx.link \in Links
      BY <2>0
    <3>2. tx' = Idle /\ UNCHANGED <<snap, gen>>
      BY <2>3 DEF EndWrite
    <3> QED
      BY <3>1, <3>2 DEF Idle, Links, Choice!ChoiceNext, Choice!EndSend
  <2>4. CASE UNCHANGED vars
    BY <2>4 DEF vars
  <2>5. CASE /\ Next /\ ~evaluate
             /\ ~\E w \in Writers \cup {"loop"} : BeginWrite(w) \/ EndWrite(w)
    <3>1. tx' = tx
      BY <2>5 DEF Next, ArbiterStep, Heartbeat, startPX4LinkSupervisor, register,
         unregister, observe, watchEthernetBroadcast, noteHeartbeat, Tick
    <3> QED
      BY <2>5, <3>1, OthersKeepLink
  <2> QED
    BY <2>1, <2>2, <2>3, <2>4, <2>5
<1> QED
  BY <1>1, <1>2, Invariance, PTL DEF Spec, ImplementsChoice, Choice!ChoiceSpec

-----------------------------------------------------------------------------
(* The recovery count (Px4Beats).  A step of Px4Beats is a step of the     *)
(* arbiter or leaves it alone.                                             *)
LEMMA BeatStepIsStep == [BeatNext]_beatVars => [Next]_vars
<1> SUFFICES ASSUME [BeatNext]_beatVars PROVE [Next]_vars
  OBVIOUS
<1>1. CASE EthBeat \/ UNCHANGED beatVars \/ \E c \in Copies : LoseCopy(c)
  BY <1>1 DEF EthBeat, LoseCopy, beatVars
<1>2. ASSUME NEW c \in Copies, HearCopy(c) PROVE Next
  <2>1. (IF c = "unicast" THEN observe("eth") ELSE watchEthernetBroadcast) /\ CountDead(0)
    BY <1>2 DEF HearCopy
  <2> QED  BY <2>1 DEF Next, Heartbeat, Links
<1>3. CASE Rest
  BY <1>3 DEF Rest, Next, Heartbeat
<1> QED  BY <1>1, <1>2, <1>3 DEF BeatNext

LEMMA BeatInvariance == BeatSpec => []IInv
<1>1. BeatInit => IInv
  BY InitInv DEF BeatInit
<1>2. IInv /\ [BeatNext]_beatVars => IInv'
  BY BeatStepIsStep, NextInv
<1> QED  BY <1>1, <1>2, PTL DEF BeatSpec

(* stepLink returns to Ethernet only on a count of RecoverN, and what it   *)
(* enters a UART with is the old count, or none if it left Ethernet, whose *)
(* window was over then.                                                   *)
LEMMA StepLinkCount ==
    ASSUME NEW s \in Snaps, Armed(s),
           NEW fresh \in [Links -> BOOLEAN], NEW open \in [Links -> BOOLEAN],
           NEW t, t = stepLink(s, fresh, open)
    PROVE  /\ s.active # "eth" /\ t.active = "eth" =>
                 s.ethHBSinceLoss >= RecoverN /\ t.entered = 0
           /\ s.active # "eth" /\ t.active # "eth" => t.ethHBSinceLoss = s.ethHBSinceLoss
           /\ s.active = "eth" /\ t.active # "eth" => t.ethHBSinceLoss = 0 /\ s.entered = Loss
           /\ s.active = "eth" /\ t.active = "eth" => t.entered = s.entered
<1> USE LossAssumption, RecoverAssumption DEF Snaps, Snap, Links
<1>1. CASE EthBack(s, fresh, open)
  BY <1>1 DEF stepLink, Recover, EthBack
<1>2. CASE ~EthBack(s, fresh, open) /\ Held(s, open)
  BY <1>2 DEF stepLink, Held, Armed
<1>3. CASE ~EthBack(s, fresh, open) /\ ~Held(s, open)
  <2>1. CASE s.active = "eth"
    <3>1. t = StepEth(s, fresh, open)
      BY <1>3, <2>1 DEF stepLink
    <3> QED  BY <2>1, <3>1 DEF StepEth, LoseEth, Enter
  <2>2. CASE s.active = "telem2"
    <3>1. t = StepTelem2(s, fresh, open)
      BY <1>3, <2>2 DEF stepLink
    <3> QED  BY <2>2, <3>1 DEF StepTelem2, Enter
  <2>3. CASE s.active = "telem3"
    <3>1. t = StepTelem3(s, fresh, open)
      BY <1>3, <2>3 DEF stepLink
    <3> QED  BY <2>3, <3>1 DEF StepTelem3, Enter
  <2> QED  BY <2>1, <2>2, <2>3
<1> QED  BY <1>1, <1>2, <1>3

(* A copy of the last heartbeat that could still be counted after another  *)
(* copy of it was.                                                         *)
Second == noted /\ inFlight # {}

(* The two counts, while a UART is active: the arbiter's is at most the    *)
(* true one, once for each copy.  A second copy that is still under way    *)
(* has its place in the bound, and if Ethernet is active again it was      *)
(* entered within the same tick.                                           *)
CountBound(copies) ==
    /\ inFlight \subseteq Copies /\ noted \in BOOLEAN /\ beats \in 0..RecoverN
    /\ copies = 1 => ~Second /\ \A c, d \in inFlight : c = d
    /\ noted => \A c, d \in inFlight : c = d
    /\ snap.active = "eth" /\ Second => snap.entered < Loss
    /\ snap.active # "eth" =>
          \/ beats = RecoverN
          \/ snap.ethHBSinceLoss + (IF Second THEN 1 ELSE 0) <= copies * beats

(* PX4 sends each heartbeat one way only.                                  *)
SentOnce == \A s \in Sendings : \A c, d \in s : c = d

(* The arbiter's steps, apart from a heartbeat on Ethernet: a UART's count *)
(* is kept, or was none when Ethernet was left.                            *)
LEMMA RestCount ==
    ASSUME IInv, Rest
    PROVE  /\ snap.active # "eth" /\ snap'.active # "eth" =>
                 snap'.ethHBSinceLoss = snap.ethHBSinceLoss
           /\ snap.active = "eth" /\ snap'.active # "eth" =>
                 snap'.ethHBSinceLoss = 0 /\ snap.entered = Loss
           /\ snap.active # "eth" /\ snap'.active = "eth" =>
                 snap.ethHBSinceLoss >= RecoverN /\ snap'.entered = 0
           /\ snap.active = "eth" /\ snap'.active = "eth" =>
                 inFlight = {} \/ snap'.entered <= snap.entered
<1> USE LossAssumption
<1>0. snap \in Snaps /\ Armed(snap) /\ ch \in [Links -> BOOLEAN] /\ (~started => snap.active = "eth")
  BY DEF IInv, TypeOK
<1>1. CASE startPX4LinkSupervisor
  BY <1>0, <1>1 DEF startPX4LinkSupervisor, Recover, Snap, Snaps
<1>2. CASE evaluate
  <2> DEFINE fresh == [l \in Links |-> Fresh(l)]
  <2>1. snap' = stepLink(snap, fresh, ch) /\ fresh \in [Links -> BOOLEAN]
    BY <1>2 DEF evaluate, Fresh
  <2> HIDE DEF fresh
  <2>2. snap.entered \in 0..Loss
    BY <1>0 DEF Snaps
  <2> QED  BY <1>0, <2>1, <2>2, StepLinkCount
<1>3. CASE UNCHANGED snap
  BY <1>0, <1>3 DEF Snaps
<1>4. CASE \E l \in Links \ {"eth"} : observe(l)
  BY <1>0, <1>3, <1>4 DEF observe, noteHeartbeat, NotedSnap
<1>5. CASE Tick /\ inFlight = {}
  BY <1>0, <1>5 DEF Tick, Snap, Snaps
<1> QED
  BY <1>1, <1>2, <1>3, <1>4, <1>5 DEF Rest, ArbiterStep, register, unregister, BeginWrite, EndWrite

(* A heartbeat on Ethernet counts at most once and changes nothing else of *)
(* the snapshot.                                                           *)
LEMMA HearCount ==
    ASSUME IInv, NEW c \in Copies, HearCopy(c)
    PROVE  /\ snap'.active = snap.active /\ snap'.entered = snap.entered
           /\ \/ snap'.ethHBSinceLoss = snap.ethHBSinceLoss
              \/ snap.active # "eth" /\ snap'.ethHBSinceLoss = snap.ethHBSinceLoss + 1
<1>1. snap' = NotedSnap(snap, "eth")
  BY DEF HearCopy, observe, watchEthernetBroadcast, noteHeartbeat
<1>2. snap \in Snaps
  BY DEF IInv, TypeOK
<1> QED  BY <1>1, <1>2 DEF NotedSnap, Snap, Snaps

LEMMA CountKept ==
    ASSUME NEW copies \in {1, 2}, copies = 1 => SentOnce,
           IInv, CountBound(copies), [BeatNext]_beatVars
    PROVE  CountBound(copies)'
<1> USE RecoverAssumption
<1>0. /\ inFlight \subseteq Copies /\ noted \in BOOLEAN /\ beats \in 0..RecoverN
      /\ copies = 1 => ~Second /\ \A c, d \in inFlight : c = d
      /\ noted => \A c, d \in inFlight : c = d
      /\ snap.active = "eth" /\ Second => snap.entered < Loss
  BY DEF CountBound
<1>a. snap.active # "eth" =>
          \/ beats = RecoverN
          \/ snap.ethHBSinceLoss + (IF Second THEN 1 ELSE 0) <= copies * beats
  BY DEF CountBound
<1>b. snap \in Snaps /\ snap.ethHBSinceLoss \in Nat
  BY DEF IInv, TypeOK, Snaps
<1>1. CASE EthBeat
  <2>1. /\ inFlight' \in Sendings /\ noted' = FALSE /\ UNCHANGED <<snap, beats>> /\ ~Second'
    BY <1>1 DEF EthBeat, Second, vars
  <2>2. inFlight' \subseteq Copies
    BY <2>1, SendingsAssumption
  <2>3. copies = 1 => \A c, d \in inFlight' : c = d
    BY <2>1 DEF SentOnce
  <2>4. snap.active # "eth" =>
          \/ beats = RecoverN
          \/ snap.ethHBSinceLoss + (IF Second' THEN 1 ELSE 0) <= copies * beats
    BY <1>0, <1>a, <1>b, <2>1
  <2> QED  BY <1>0, <2>1, <2>2, <2>3, <2>4 DEF CountBound
<1>2. ASSUME NEW c \in Copies, LoseCopy(c) PROVE CountBound(copies)'
  <2>1. inFlight' = inFlight \ {c} /\ UNCHANGED <<snap, noted, beats>>
    BY <1>2 DEF LoseCopy, vars
  <2>2. Second' => Second
    BY <2>1 DEF Second
  <2>3. snap.active # "eth" =>
          \/ beats = RecoverN
          \/ snap.ethHBSinceLoss + (IF Second' THEN 1 ELSE 0) <= copies * beats
    BY <1>0, <1>a, <1>b, <2>2
  <2> QED  BY <1>0, <2>1, <2>2, <2>3 DEF CountBound
<1>3. ASSUME NEW c \in Copies, HearCopy(c) PROVE CountBound(copies)'
  <2> DEFINE counted == snap'.ethHBSinceLoss > snap.ethHBSinceLoss
  <2>1. /\ c \in inFlight /\ inFlight' = inFlight \ {c} /\ noted' = (noted \/ counted)
        /\ beats' = IF counted /\ ~noted /\ beats < RecoverN THEN beats + 1 ELSE beats
    BY <1>3 DEF HearCopy
  <2>2. /\ snap'.active = snap.active /\ snap'.entered = snap.entered
        /\ \/ snap'.ethHBSinceLoss = snap.ethHBSinceLoss
           \/ snap.active # "eth" /\ snap'.ethHBSinceLoss = snap.ethHBSinceLoss + 1
    BY <1>3, HearCount
  <2>3. \A d, e \in inFlight' : d = e
    BY <1>0, <2>1 DEF Copies
  <2>4. noted => inFlight' = {}
    BY <1>0, <2>1
  <2>5. copies = 1 => inFlight' = {}
    BY <1>0, <2>1
  <2>6. inFlight' \subseteq Copies /\ noted' \in BOOLEAN /\ beats' \in 0..RecoverN
    BY <1>0, <2>1
  <2>q. ASSUME ~counted PROVE ~Second'
    <3>1. noted' = noted
      BY <1>0, <2>1, <2>q
    <3> QED  BY <2>4, <3>1 DEF Second
  <2>7. ASSUME snap'.active = "eth" PROVE ~Second'
    <3>1. ~counted
      BY <1>b, <2>2, <2>7
    <3> QED  BY <2>q, <3>1
  <2>8. ASSUME snap.active # "eth", beats' # RecoverN
        PROVE  snap'.ethHBSinceLoss + (IF Second' THEN 1 ELSE 0) <= copies * beats'
    <3>0. beats # RecoverN
      BY <1>0, <2>1, <2>8
    <3>1. CASE ~counted
      <4>1. snap'.ethHBSinceLoss = snap.ethHBSinceLoss /\ beats' = beats /\ ~Second'
        BY <1>b, <2>q, <2>1, <2>2, <3>1
      <4> QED  BY <1>0, <1>a, <1>b, <2>8, <3>0, <4>1
    <3>2. CASE counted /\ noted
      <4>1. /\ snap'.ethHBSinceLoss = snap.ethHBSinceLoss + 1 /\ beats' = beats
            /\ Second /\ ~Second'
        BY <1>b, <2>1, <2>2, <2>4, <3>2 DEF Second
      <4> QED  BY <1>0, <1>a, <1>b, <2>8, <3>0, <4>1
    <3>3. CASE counted /\ ~noted
      <4>1. /\ snap'.ethHBSinceLoss = snap.ethHBSinceLoss + 1 /\ beats' = beats + 1 /\ ~Second
        BY <1>0, <1>b, <2>1, <2>2, <3>0, <3>3 DEF Second
      <4>2. copies = 1 => ~Second'
        BY <2>5 DEF Second
      <4>3. snap.ethHBSinceLoss <= copies * beats
        BY <1>a, <2>8, <3>0, <4>1, <1>b
      <4> QED  BY <1>0, <1>b, <4>1, <4>2, <4>3
    <3> QED  BY <1>0, <2>1, <3>1, <3>2, <3>3
  <2>9. copies = 1 => ~Second'
    BY <2>5 DEF Second
  <2> QED  BY <2>2, <2>3, <2>6, <2>7, <2>8, <2>9 DEF CountBound
<1>4. CASE Rest
  <2>1. /\ UNCHANGED <<inFlight, noted>> /\ (Second' <=> Second)
        /\ beats' = IF snap'.active = "eth" THEN 0 ELSE beats
    BY <1>4 DEF Rest, Second
  <2>2. snap' \in Snaps /\ beats' \in 0..RecoverN
    BY <1>0, <2>1, BeatStepIsStep, NextInv DEF IInv, TypeOK
  <2>3. ASSUME snap'.active = "eth", Second' PROVE snap'.entered < Loss
    <3>1. inFlight # {} /\ snap.entered \in 0..Loss /\ snap'.entered \in 0..Loss
      BY <1>b, <2>1, <2>2, <2>3 DEF Second, Snaps
    <3> QED  BY <1>0, <1>4, <2>1, <2>3, <3>1, RestCount, LossAssumption
  <2>4. ASSUME snap'.active # "eth"
        PROVE  \/ beats' = RecoverN
               \/ snap'.ethHBSinceLoss + (IF Second' THEN 1 ELSE 0) <= copies * beats'
    <3>1. beats' = beats
      BY <2>1, <2>4
    <3>2. CASE snap.active # "eth"
      <4>1. snap'.ethHBSinceLoss = snap.ethHBSinceLoss
        BY <1>4, <2>4, <3>2, RestCount
      <4> QED  BY <1>a, <2>1, <3>1, <3>2, <4>1
    <3>3. CASE snap.active = "eth"
      <4>1. snap'.ethHBSinceLoss = 0 /\ snap.entered = Loss
        BY <1>4, <2>4, <3>3, RestCount
      <4>2. ~Second'
        BY <1>0, <2>1, <3>3, <4>1, LossAssumption
      <4> QED  BY <1>0, <3>1, <4>1, <4>2
    <3> QED  BY <3>2, <3>3
  <2> QED  BY <1>0, <2>1, <2>2, <2>3, <2>4 DEF CountBound
<1>5. CASE UNCHANGED beatVars
  <2>1. UNCHANGED <<snap, inFlight, noted, beats>>
    BY <1>5 DEF beatVars, vars
  <2> QED  BY <2>1 DEF CountBound, Second
<1> QED
  BY <1>1, <1>2, <1>3, <1>4, <1>5 DEF BeatNext

LEMMA CountInit ==
    ASSUME NEW copies \in {1, 2}, BeatInit PROVE CountBound(copies)
<1>1. inFlight = {} /\ noted = FALSE /\ beats = 0 /\ snap.active = "eth" /\ ~Second
  BY DEF BeatInit, Init, Snap, Second
<1>2. beats \in 0..RecoverN
  BY <1>1, RecoverAssumption
<1>3. inFlight \subseteq Copies /\ \A c, d \in inFlight : c = d
  BY <1>1
<1>4. noted \in BOOLEAN
  BY <1>1
<1> QED  BY <1>1, <1>2, <1>3, <1>4, Zenon DEF CountBound

(* Going back to Ethernet is a step of the supervisor, on a full count.    *)
LEMMA RecoveryCounted ==
    ASSUME IInv, [BeatNext]_beatVars, snap.active # "eth", snap'.active = "eth"
    PROVE  snap.ethHBSinceLoss >= RecoverN
<1>1. ASSUME NEW c \in Copies, HearCopy(c) PROVE FALSE
  BY <1>1, HearCount
<1>2. Rest
  BY <1>1 DEF BeatNext, EthBeat, LoseCopy, beatVars, vars
<1> QED  BY <1>2, RestCount

(* If PX4 sends each heartbeat once, the arbiter goes back to Ethernet     *)
(* only after RecoverN heartbeats of PX4 (noteHeartbeat and stepLink).     *)
THEOREM RecoveryNeedsBeats ==
    ASSUME SentOnce PROVE BeatSpec => RecoveryTakesRecoverNBeats
<1> DEFINE A == snap.active # "eth" /\ snap'.active = "eth" => beats >= RecoverN
<1>1. IInv /\ CountBound(1) /\ [BeatNext]_beatVars => CountBound(1)'
  BY CountKept
<1>2. IInv /\ CountBound(1) /\ [BeatNext]_beatVars => [A]_beatVars
  <2> SUFFICES ASSUME IInv, CountBound(1), [BeatNext]_beatVars,
                      snap.active # "eth", snap'.active = "eth"
               PROVE  beats >= RecoverN
    OBVIOUS
  <2>1. beats \in 0..RecoverN /\ snap.ethHBSinceLoss \in Nat
    BY DEF CountBound, IInv, TypeOK, Snaps
  <2>2. snap.ethHBSinceLoss >= RecoverN
    BY RecoveryCounted
  <2>3. beats = RecoverN \/ snap.ethHBSinceLoss <= beats
    BY <2>1 DEF CountBound
  <2> QED  BY <2>1, <2>2, <2>3, RecoverAssumption
<1>3. BeatInit => CountBound(1)
  BY CountInit
<1> QED
  BY <1>1, <1>2, <1>3, BeatInvariance, PTL DEF BeatSpec, RecoveryTakesRecoverNBeats

(* However PX4 sends its heartbeats: noteHeartbeat may count one twice, as *)
(* unicast and as broadcast, but never more, not even when one copy comes  *)
(* before a change of link and the other after it.  So going back to       *)
(* Ethernet takes at least half of RecoverN.                               *)
RecoveryTakesHalf ==
    [][snap.active # "eth" /\ snap'.active = "eth" => 2 * beats >= RecoverN]_beatVars

(* Going back to Ethernet takes half of RecoverN heartbeats, whatever      *)
(* copies of them arrive.                                                  *)
THEOREM RecoveryNeedsHalf == BeatSpec => RecoveryTakesHalf
<1> DEFINE A == snap.active # "eth" /\ snap'.active = "eth" => 2 * beats >= RecoverN
<1>1. IInv /\ CountBound(2) /\ [BeatNext]_beatVars => CountBound(2)'
  BY CountKept
<1>2. IInv /\ CountBound(2) /\ [BeatNext]_beatVars => [A]_beatVars
  <2> SUFFICES ASSUME IInv, CountBound(2), [BeatNext]_beatVars,
                      snap.active # "eth", snap'.active = "eth"
               PROVE  2 * beats >= RecoverN
    OBVIOUS
  <2>1. beats \in 0..RecoverN /\ snap.ethHBSinceLoss \in Nat
    BY DEF CountBound, IInv, TypeOK, Snaps
  <2>2. snap.ethHBSinceLoss >= RecoverN
    BY RecoveryCounted
  <2>3. beats = RecoverN \/ snap.ethHBSinceLoss <= 2 * beats
    BY <2>1 DEF CountBound
  <2> QED  BY <2>1, <2>2, <2>3, RecoverAssumption
<1>3. BeatInit => CountBound(2)
  BY CountInit
<1> QED
  BY <1>1, <1>2, <1>3, BeatInvariance, PTL DEF BeatSpec, RecoveryTakesHalf
-----------------------------------------------------------------------------
(* The supervisor loop.                                                    *)

(* What is left to the next health check and what has passed since the     *)
(* last one never add up to more than a period.                            *)
LoopInv ==
    /\ LoopTypeOK
    /\ sinceHealth + nextHealth <= HealthPeriod
    /\ HealthOnTime

(* advanceDeadline finds a deadline after now, at most one period ahead.   *)
LEMMA AdvanceInPeriod ==
    ASSUME NEW late \in Nat, NEW period \in Nat \ {0}
    PROVE  advanceDeadline(late, period) \in 1..period
BY DEF advanceDeadline

LEMMA LoopInitInv == LoopInit => LoopInv
BY LoopAssumption DEF LoopInit, LoopInv, LoopTypeOK, Turns, HealthOnTime

(* A turn of the loop keeps the invariant.                                 *)
LEMMA LoopNextInv == LoopInv /\ [LoopNext]_loopVars => LoopInv'
<1> SUFFICES ASSUME LoopInv, [LoopNext]_loopVars PROVE LoopInv'
  OBVIOUS
<1> USE LoopAssumption
<1>1. CASE LoopNext
  <2> PICK d \in 1..MaxGap : LoopTurn(d)
    BY <1>1 DEF LoopNext
  <2>1. nextHealth \in 1..HealthPeriod /\ nextHB \in Nat \ {0} /\ sinceHealth \in Nat
    BY DEF LoopInv, LoopTypeOK
  <2>2. sinceHealth + nextHealth <= HealthPeriod
    BY DEF LoopInv
  <2>3. AdvancedHealth(d) \in 1..HealthPeriod
    BY <2>1, AdvanceInPeriod DEF AdvancedHealth
  <2>4. AdvancedHB(d) \in Nat \ {0}
    BY <2>1, AdvanceInPeriod DEF AdvancedHB
  <2>5. turn' \in Turns
    BY DEF LoopTurn, Turns
  <2>6. nextHealth' \in 1..HealthPeriod /\ nextHB' \in Nat \ {0}
    BY <2>3, <2>4 DEF LoopTurn, nextLinkPhase
  <2>7. /\ sinceHealth' \in Nat /\ waited' \in Nat
        /\ sinceHealth' + nextHealth' <= HealthPeriod
    BY <2>1, <2>2, <2>3 DEF LoopTurn, nextLinkPhase, AdvancedHealth
  <2>8. waited' <= HealthPeriod + MaxGap - 1
    BY <2>1, <2>2 DEF LoopTurn
  <2> QED
    BY <2>5, <2>6, <2>7, <2>8 DEF LoopInv, LoopTypeOK, HealthOnTime
<1>2. CASE UNCHANGED loopVars
  BY <1>2 DEF loopVars, LoopInv, LoopTypeOK, HealthOnTime
<1> QED
  BY <1>1, <1>2

LEMMA LoopInvariance == LoopSpec => []LoopInv
BY LoopInitInv, LoopNextInv, PTL DEF LoopSpec

(* Every reachable state of the loop is well typed: after a turn both      *)
(* deadlines lie in the future.                                            *)
THEOREM LoopTypeCorrect == LoopSpec => []LoopTypeOK
<1>1. LoopInv => LoopTypeOK
  BY DEF LoopInv
<1> QED
  BY <1>1, LoopInvariance, PTL

(* No more than a health period and the excess of one stall passes between *)
(* two calls of evaluate.                                                  *)
THEOREM HealthChecksOnTime == LoopSpec => []HealthOnTime
<1>1. LoopInv => HealthOnTime
  BY DEF LoopInv
<1> QED
  BY <1>1, LoopInvariance, PTL
=============================================================================
