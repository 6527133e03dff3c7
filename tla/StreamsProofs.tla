---------------------------- MODULE StreamsProofs ----------------------------
(***************************************************************************)
(* Proofs that no publisher is lost sight of and that a stop lasts, for    *)
(* any cameras, any number of concurrent requests, watchdog loops,         *)
(* processes, faults and calls.                                            *)
(***************************************************************************)
EXTENDS Streams, TLAPS

States == {"none", "live", "stalled", "killed", "exited", "waited"}

Shape ==
    /\ st \in [Procs -> States]
    /\ pc = [a \in Actors |-> pc[a]]
    /\ new \in [Actors -> Procs \cup {None}]
    /\ victims \in [Callers -> SUBSET Procs]
    /\ streamerProcs \subseteq Procs

(* Only a goroutine between launch and track has an untracked process,     *)
(* only a stop that is terminating has victims, and only the goroutine of  *)
(* a process that was waited for runs.                                     *)
InHand ==
    /\ \A a \in Actors : new[a] # None => pc[a] = "track"
    /\ \A c \in Callers : victims[c] # {} => pc[c] = "term"
    /\ \A p \in Procs : pc[p] # "none" => st[p] = "waited"

(* The inductive invariant.                                                *)
IInv == Shape /\ InHand /\ NoOrphan

(* Restarts are suppressed while a stop runs and until the last of the     *)
(* processes it is responsible for is gone.                                *)
Suppressed == (under # {} => suppress) /\ (Stopping => suppress)

(* No loop and no exit goroutine is about to start a camera, and every     *)
(* process there still is falls under the suppression.                     *)
Quiet ==
    /\ \A l \in Loops : pc[l] = "off"
    /\ \A p \in Procs : pc[p] \in {"none", "sleep"} /\ (st[p] # "none" => p \in under)

(* Nobody but a stop is being served.                                      *)
OnlyStop ==
    \E c \in Callers :
        /\ pc[c] \in {"take", "term"} /\ op[c] = "stop"
        /\ \A d \in Callers \ {c} : pc[d] = "idle"

(* What a stop that ran alone leaves behind.                               *)
StopInv ==
    /\ Suppressed
    /\ halt \in {"no", "stopping", "yes"}
    /\ op = [c \in Callers |-> op[c]]
    /\ halt = "stopping" => Quiet /\ OnlyStop
    /\ halt = "yes" => Quiet /\ (\A c \in Callers : pc[c] = "idle") /\ Publishing = {}

-----------------------------------------------------------------------------
LEMMA NamesApart ==
    /\ None \notin Procs
    /\ Callers \subseteq Actors /\ Loops \subseteq Actors /\ Procs \subseteq Actors
    /\ Callers \cap Loops = {} /\ Callers \cap Procs = {} /\ Loops \cap Procs = {}
BY StreamsAssumption DEF None, Actors

(* A step after which every publisher ran before or has just been          *)
(* launched, and none was dropped from the list, from a goroutine's hands  *)
(* or from a stop's victims without being accounted for.                   *)
LEMMA StaysAccounted ==
    ASSUME NoOrphan,
           \A p \in Publishing' : p \in Publishing \/ \E a \in Actors : new'[a] = p,
           \A p \in Publishing' \cap streamerProcs :
               p \in streamerProcs' \/ \E c \in Callers : p \in victims'[c],
           \A p \in Publishing', a \in Actors : new[a] = p => new'[a] = p \/ p \in streamerProcs',
           \A p \in Publishing', c \in Callers : p \in victims[c] => p \in victims'[c]
    PROVE  NoOrphan'
BY DEF NoOrphan

(* Signals only end publishers.                                            *)
LEMMA KillKeeps ==
    ASSUME Shape, NEW ps, Kill(ps)
    PROVE  /\ st' \in [Procs -> States]
           /\ Publishing' = Publishing \ ps
           /\ \A p \in Procs : st[p] = "waited" => st'[p] = "waited"
BY DEF Shape, Kill, Publishing, States

(* A process changes its state and nobody moves.                           *)
LEMMA ProcessKeeps ==
    ASSUME IInv, NEW p \in Procs, Crash(p) \/ Stall(p) \/ Exit(p)
    PROVE  IInv'
<1>1. /\ \E x \in {"stalled", "exited"} : st' = [st EXCEPT ![p] = x]
      /\ st[p] # "waited" /\ (st[p] \notin {"live", "stalled"} => st'[p] = "exited")
      /\ UNCHANGED <<pc, new, victims, streamerProcs>>
  BY DEF Crash, Stall, Exit, who, Publishing, IInv, Shape
<1>2. Shape'
  BY <1>1 DEF IInv, Shape, States
<1>3. InHand'
  BY <1>1 DEF IInv, InHand, Shape
<1>4. Publishing' \subseteq Publishing
  BY <1>1 DEF Publishing, IInv, Shape
<1>5. NoOrphan'
  BY <1>1, <1>4, StaysAccounted DEF IInv
<1> QED  BY <1>2, <1>3, <1>5 DEF IInv

(* A step that moves actors between places where nothing is in hand.       *)
LEMMA QuietKeeps ==
    ASSUME IInv, UNCHANGED <<st, new, victims, streamerProcs>>,
           pc' = [a \in Actors |-> pc'[a]],
           \A a \in Actors : pc'[a] = pc[a] \/ pc[a] \notin {"track", "term", "none"}
    PROVE  IInv'
<1>1. Shape'
  BY DEF IInv, Shape
<1>2. InHand'
  BY NamesApart DEF IInv, InHand
<1>3. Publishing' = Publishing
  BY DEF Publishing
<1>4. NoOrphan'
  BY <1>3, StaysAccounted DEF IInv
<1> QED  BY <1>1, <1>2, <1>4 DEF IInv

LEMMA TimeKeeps ==
    ASSUME IInv, SuppressOver \/ \E c \in CamSet : CooldownOver(c)
    PROVE  IInv'
<1>1. UNCHANGED <<st, pc, new, victims, streamerProcs>>
  BY DEF SuppressOver, CooldownOver, procs, who
<1> QED  BY <1>1, QuietKeeps DEF IInv, Shape

LEMMA LoopKeeps ==
    ASSUME IInv, NEW l \in Loops, tick(l) \/ runStreamHealthCheck(l)
    PROVE  IInv'
<1>1. /\ pc[l] \in {"select", "look"} /\ \E x : pc' = [pc EXCEPT ![l] = x]
      /\ UNCHANGED <<st, new, victims, streamerProcs>>
  BY DEF tick, runStreamHealthCheck, streamWatchdogLoop, Goto, procs
<1>2. /\ pc' = [a \in Actors |-> pc'[a]]
      /\ \A a \in Actors : pc'[a] = pc[a] \/ pc[a] \notin {"track", "term", "none"}
  BY <1>1 DEF IInv, Shape
<1> QED  BY <1>1, <1>2, QuietKeeps

LEMMA RequestKeeps ==
    ASSUME IInv, NEW c \in Callers, Request(c) \/ StopStreamers(c) \/ StartStreamWatchdog(c)
    PROVE  IInv'
<1>1. UNCHANGED <<st, new, victims, streamerProcs>>
  BY DEF Request, StopStreamers, StartStreamWatchdog, procs
<1>2. /\ pc' = [a \in Actors |-> pc'[a]]
      /\ \A a \in Actors : pc'[a] = pc[a] \/ pc[a] \notin {"track", "term", "none"}
  <2>1. CASE Request(c)
    BY <2>1 DEF Request, Goto, IInv, Shape
  <2>2. CASE StopStreamers(c)
    BY <2>2 DEF StopStreamers
  <2>3. CASE StartStreamWatchdog(c)
    <3>1. CASE Goto(c, "idle")
      BY <2>3, <3>1 DEF StartStreamWatchdog, Goto, IInv, Shape
    <3>2. CASE \E l \in Loops : pc[l] = "off" /\ pc' = [pc EXCEPT ![c] = "idle", ![l] = "select"]
      <4>1. PICK l \in Loops : pc[l] = "off" /\ pc' = [pc EXCEPT ![c] = "idle", ![l] = "select"]
        BY <3>2
      <4>2. pc[c] = "launch"
        BY <2>3 DEF StartStreamWatchdog
      <4> QED  BY <4>1, <4>2 DEF IInv, Shape
    <3> QED  BY <2>3, <3>1, <3>2 DEF StartStreamWatchdog
  <2> QED  BY <2>1, <2>2, <2>3
<1> QED  BY <1>1, <1>2, QuietKeeps

LEMMA WaitKeeps ==
    ASSUME IInv, NEW p \in Procs, waitStreamerProc(p)
    PROVE  IInv'
<1>1. /\ st[p] = "exited" /\ streamerProcs' = streamerProcs \ {p} /\ UNCHANGED <<new, victims>>
      /\ \/ st' = [st EXCEPT ![p] = "waited"] /\ pc' = [pc EXCEPT ![p] = "sleep"]
         \/ st' = [st EXCEPT ![p] = "none"] /\ pc' = pc
  BY DEF waitStreamerProc, Goto
<1>2. pc[p] = "none"
  BY <1>1 DEF IInv, InHand
<1>3. Shape'
  BY <1>1 DEF IInv, Shape, States
<1>4. InHand'
  <2>1. CASE st' = [st EXCEPT ![p] = "waited"] /\ pc' = [pc EXCEPT ![p] = "sleep"]
    BY <1>1, <1>2, <2>1, NamesApart DEF IInv, Shape, InHand
  <2>2. CASE st' = [st EXCEPT ![p] = "none"] /\ pc' = pc
    BY <1>1, <1>2, <2>2, NamesApart DEF IInv, Shape, InHand
  <2> QED  BY <1>1, <2>1, <2>2
<1>5. Publishing' = Publishing /\ p \notin Publishing
  BY <1>1 DEF Publishing, IInv, Shape
<1>6. NoOrphan'
  BY <1>1, <1>5, StaysAccounted DEF IInv
<1> QED  BY <1>3, <1>4, <1>6 DEF IInv

(* The goroutine that an exit leaves behind ends.                          *)
LEMMA ExitDoneKeeps ==
    ASSUME IInv, NEW p \in Procs, ExitDone(p), pc[p] # "none", UNCHANGED victims,
           \/ UNCHANGED <<new, streamerProcs>> /\ pc[p] # "track"
           \/ Track(p)
    PROVE  IInv'
<1>1. /\ st[p] = "waited" /\ st' = [st EXCEPT ![p] = "none"] /\ pc' = [pc EXCEPT ![p] = "none"]
      /\ p \in Actors
  BY NamesApart DEF ExitDone, Goto, IInv, InHand
<1>2. /\ new' \in [Actors -> Procs \cup {None}] /\ new'[p] = None
      /\ \A a \in Actors : a # p => new'[a] = new[a]
      /\ streamerProcs \subseteq streamerProcs' /\ streamerProcs' \subseteq Procs
      /\ new[p] # None => new[p] \in streamerProcs'
  BY <1>1, NamesApart DEF Track, IInv, Shape, InHand
<1>3. Shape'
  BY <1>1, <1>2 DEF IInv, Shape, States
<1>4. InHand'
  BY <1>1, <1>2, NamesApart DEF IInv, Shape, InHand
<1>5. Publishing' \subseteq Publishing
  BY <1>1 DEF Publishing, IInv, Shape
<1>6. NoOrphan'
  BY <1>2, <1>5, NamesApart, StaysAccounted DEF IInv, Publishing
<1> QED  BY <1>3, <1>4, <1>6 DEF IInv

LEMMA ExitKeeps ==
    ASSUME IInv, NEW p \in Procs, onStreamerExited(p) \/ exitRestarted(p)
    PROVE  IInv'
<1>1. CASE exitRestarted(p)
  BY <1>1, ExitDoneKeeps DEF exitRestarted
<1>2. CASE onStreamerExited(p) /\ ExitDone(p)
  BY <1>2, ExitDoneKeeps DEF onStreamerExited
<1>3. CASE onStreamerExited(p) /\ Goto(p, "kill") /\ UNCHANGED st
  <2>1. /\ UNCHANGED <<st, new, victims, streamerProcs>>
        /\ pc[p] = "sleep" /\ pc' = [pc EXCEPT ![p] = "kill"]
    BY <1>3 DEF onStreamerExited, Goto
  <2> QED  BY <2>1, QuietKeeps DEF IInv, Shape
<1> QED  BY <1>1, <1>2, <1>3 DEF onStreamerExited

LEMMA RestartKeeps ==
    ASSUME IInv, NEW a \in Loops \cup Procs, restartOneStream(a)
    PROVE  IInv'
<1> DEFINE old == {p \in streamerProcs : cam[p] = CamOf(a)}
<1>1. /\ Kill(old) /\ streamerProcs' = streamerProcs \ old
      /\ pc[a] = "kill" /\ pc' = [pc EXCEPT ![a] = "spawn"] /\ UNCHANGED <<new, victims>>
  BY DEF restartOneStream, Goto
<1>2. Shape /\ a \in Actors
  BY NamesApart DEF IInv
<1> HIDE DEF old
<1>3. Shape'
  BY <1>1, <1>2, KillKeeps DEF Shape
<1>4. InHand'
  BY <1>1, <1>2, KillKeeps, NamesApart DEF IInv, Shape, InHand
<1>5. NoOrphan'
  BY <1>1, <1>2, KillKeeps, StaysAccounted DEF IInv
<1> QED  BY <1>3, <1>4, <1>5 DEF IInv

(* A launch takes a process nothing refers to into the hands of a          *)
(* goroutine that has none.                                                *)
LEMMA LaunchKeeps ==
    ASSUME IInv, NEW a \in Actors, NEW c, pc[a] \in {"spawn", "launch"}, Launch(a, c),
           UNCHANGED <<streamerProcs, victims>>
    PROVE  IInv'
<1>1. new[a] = None /\ pc' = [pc EXCEPT ![a] = "track"]
  BY DEF IInv, InHand, Launch, Goto
<1>2. CASE UNCHANGED <<st, new>>
  <2>1. Shape'
    BY <1>1, <1>2 DEF IInv, Shape
  <2>2. InHand'
    BY <1>1, <1>2, NamesApart DEF IInv, Shape, InHand
  <2>3. NoOrphan'
    BY <1>2 DEF IInv, NoOrphan, Publishing
  <2> QED  BY <2>1, <2>2, <2>3 DEF IInv
<1>3. CASE ~UNCHANGED <<st, new>>
  <2>1. PICK p \in Unused : st' = [st EXCEPT ![p] = "live"] /\ new' = [new EXCEPT ![a] = p]
    <3>1. /\ Unused # {}
          /\ LET p == CHOOSE q \in Unused : TRUE IN
                st' = [st EXCEPT ![p] = "live"] /\ new' = [new EXCEPT ![a] = p]
      BY <1>3 DEF Launch
    <3>2. (CHOOSE q \in Unused : TRUE) \in Unused
      BY <3>1
    <3> QED  BY <3>1, <3>2
  <2>2. p \in Procs /\ st[p] = "none" /\ pc[p] = "none" /\ p # a
    BY <2>1 DEF Unused, IInv, InHand
  <2>3. Shape'
    BY <1>1, <2>1, <2>2 DEF IInv, Shape, States
  <2>4. InHand'
    BY <1>1, <2>1, <2>2, NamesApart DEF IInv, Shape, InHand
  <2>5. Publishing' = Publishing \cup {p} /\ new'[a] = p
    BY <2>1, <2>2 DEF Publishing, IInv, Shape
  <2>6. \A b \in Actors : b # a => new'[b] = new[b]
    BY <2>1 DEF IInv, Shape
  <2>7. NoOrphan'
    BY <1>1, <2>5, <2>6, NamesApart, StaysAccounted DEF IInv, Publishing
  <2> QED  BY <2>3, <2>4, <2>7 DEF IInv
<1> QED  BY <1>2, <1>3

(* A loop or a request puts what it launched on the list.                  *)
LEMMA TrackKeeps ==
    ASSUME IInv, NEW a \in Callers \cup Loops, pc[a] = "track", Track(a),
           NEW l, Goto(a, l), UNCHANGED <<st, victims>>
    PROVE  IInv'
<1>1. /\ streamerProcs' = streamerProcs \cup ({new[a]} \ {None})
      /\ new' = [new EXCEPT ![a] = None] /\ pc' = [pc EXCEPT ![a] = l] /\ a \in Actors
  BY NamesApart DEF Track, Goto
<1>2. Shape'
  BY <1>1 DEF IInv, Shape
<1>3. InHand'
  BY <1>1, NamesApart DEF IInv, Shape, InHand
<1>4. \A b \in Actors : b # a => new'[b] = new[b]
  BY <1>1 DEF IInv, Shape
<1>5. Publishing' = Publishing
  BY DEF Publishing
<1>6. NoOrphan'
  BY <1>1, <1>4, <1>5, NamesApart, StaysAccounted DEF IInv, Publishing
<1> QED  BY <1>2, <1>3, <1>6 DEF IInv

LEMMA StopKeeps ==
    ASSUME IInv, NEW c \in Callers, stopTrackedStreamers(c) \/ terminate(c) \/ pkill(c)
    PROVE  IInv'
<1>0. Shape /\ c \in Actors /\ UNCHANGED new
  BY NamesApart DEF IInv, stopTrackedStreamers, terminate, pkill
<1>1. CASE stopTrackedStreamers(c)
  <2>1. /\ victims[c] = {} /\ victims' = [victims EXCEPT ![c] = streamerProcs]
        /\ streamerProcs' = {} /\ pc[c] = "take" /\ pc' = [pc EXCEPT ![c] = "term"] /\ UNCHANGED st
    BY <1>1 DEF stopTrackedStreamers, Goto, IInv, InHand
  <2>2. Shape'
    BY <1>0, <2>1 DEF Shape
  <2>3. InHand'
    BY <1>0, <2>1, NamesApart DEF IInv, Shape, InHand
  <2>4. Publishing' = Publishing
    BY <2>1 DEF Publishing
  <2>5. victims'[c] = streamerProcs /\ \A d \in Callers : d # c => victims'[d] = victims[d]
    BY <1>0, <2>1 DEF Shape
  <2>6. NoOrphan'
    BY <1>0, <2>1, <2>4, <2>5, StaysAccounted DEF IInv
  <2> QED  BY <2>2, <2>3, <2>6 DEF IInv
<1>2. CASE terminate(c)
  <2>1. PICK p \in victims[c] :
          \/ Kill({p}) /\ UNCHANGED victims
          \/ /\ p \notin Publishing /\ UNCHANGED st
             /\ victims' = [victims EXCEPT ![c] = victims[c] \ {p}]
    BY <1>2 DEF terminate
  <2>2. UNCHANGED <<pc, streamerProcs>> /\ pc[c] = "term"
    BY <1>2 DEF terminate
  <2>3. CASE Kill({p}) /\ UNCHANGED victims
    <3>1. Shape' /\ InHand'
      BY <1>0, <2>2, <2>3, KillKeeps DEF IInv, Shape, InHand
    <3>2. NoOrphan'
      BY <1>0, <2>2, <2>3, KillKeeps, StaysAccounted DEF IInv
    <3> QED  BY <3>1, <3>2 DEF IInv
  <2>4. CASE /\ p \notin Publishing /\ UNCHANGED st
             /\ victims' = [victims EXCEPT ![c] = victims[c] \ {p}]
    <3>1. Shape'
      BY <1>0, <2>2, <2>4 DEF Shape
    <3>2. InHand'
      BY <1>0, <2>2, <2>4 DEF IInv, Shape, InHand
    <3>3. Publishing' = Publishing
      BY <2>4 DEF Publishing
    <3>4. \A d \in Callers : victims'[d] = victims[d] \/ victims'[d] = victims[d] \ {p}
      BY <1>0, <2>4 DEF Shape
    <3>5. NoOrphan'
      BY <1>0, <2>2, <2>4, <3>3, <3>4, StaysAccounted DEF IInv
    <3> QED  BY <3>1, <3>2, <3>5 DEF IInv
  <2> QED  BY <2>1, <2>3, <2>4
<1>3. CASE pkill(c)
  <2>1. /\ Kill(Procs) /\ victims[c] = {} /\ UNCHANGED <<streamerProcs, victims>>
        /\ \E x : pc' = [pc EXCEPT ![c] = x]
    BY <1>3 DEF pkill
  <2>2. Shape'
    BY <1>0, <2>1, KillKeeps DEF Shape
  <2>3. pc[c] = "term"
    BY <1>3 DEF pkill
  <2>4. InHand'
    BY <1>0, <2>1, <2>3, KillKeeps, NamesApart DEF IInv, Shape, InHand
  <2>5. NoOrphan'
    BY <1>0, <2>1, KillKeeps, StaysAccounted DEF IInv
  <2> QED  BY <2>2, <2>4, <2>5 DEF IInv
<1> QED  BY <1>1, <1>2, <1>3

-----------------------------------------------------------------------------
LEMMA InitHolds == Init => IInv
<1> SUFFICES ASSUME Init PROVE IInv
  OBVIOUS
<1>1. Shape
  BY NamesApart DEF Init, Shape, States
<1>2. InHand
  BY NamesApart DEF Init, InHand
<1>3. NoOrphan
  BY DEF Init, NoOrphan, Publishing
<1> QED  BY <1>1, <1>2, <1>3 DEF IInv

LEMMA StepHolds == IInv /\ [Next]_vars => IInv'
<1> SUFFICES ASSUME IInv, [Next]_vars PROVE IInv'
  OBVIOUS
<1>1. CASE UNCHANGED vars
  <2>1. UNCHANGED <<st, pc, new, victims, streamerProcs>>
    BY <1>1 DEF vars, procs, who
  <2> QED  BY <2>1, QuietKeeps DEF IInv, Shape
<1>2. ASSUME NEW p \in Procs, Crash(p) \/ Stall(p) \/ Exit(p) PROVE IInv'
  BY <1>2, ProcessKeeps
<1>3. CASE SuppressOver \/ \E c \in CamSet : CooldownOver(c)
  BY <1>3, TimeKeeps
<1>4. ASSUME NEW p \in Procs, waitStreamerProc(p) PROVE IInv'
  BY <1>4, WaitKeeps
<1>5. ASSUME NEW p \in Procs, onStreamerExited(p) \/ exitRestarted(p) PROVE IInv'
  BY <1>5, ExitKeeps
<1>6. ASSUME NEW a \in Loops \cup Procs, restartOneStream(a) PROVE IInv'
  BY <1>6, RestartKeeps
<1>7. ASSUME NEW a \in Loops \cup Procs, restartLaunch(a) PROVE IInv'
  <2>1. a \in Actors /\ pc[a] = "spawn" /\ Launch(a, CamOf(a)) /\ UNCHANGED <<streamerProcs, victims>>
    BY <1>7, NamesApart DEF restartLaunch
  <2> QED  BY <2>1, LaunchKeeps
<1>8. ASSUME NEW l \in Loops, tick(l) \/ runStreamHealthCheck(l) PROVE IInv'
  BY <1>8, LoopKeeps
<1>9. ASSUME NEW l \in Loops, loopRestarted(l) PROVE IInv'
  <2>1. /\ pc[l] = "track" /\ Track(l) /\ UNCHANGED <<st, victims>>
        /\ \E x : Goto(l, x)
    BY <1>9 DEF loopRestarted, streamWatchdogLoop
  <2> QED  BY <2>1, TrackKeeps
<1>10. ASSUME NEW c \in Callers, Request(c) \/ StopStreamers(c) \/ StartStreamWatchdog(c) PROVE IInv'
  BY <1>10, RequestKeeps
<1>11. ASSUME NEW c \in Callers, stopTrackedStreamers(c) \/ terminate(c) \/ pkill(c) PROVE IInv'
  BY <1>11, StopKeeps
<1>12. ASSUME NEW c \in Callers, startMixedStreamers(c) PROVE IInv'
  <2>1. c \in Actors /\ pc[c] = "launch" /\ Launch(c, Head(todo[c])) /\ UNCHANGED <<streamerProcs, victims>>
    BY <1>12, NamesApart DEF startMixedStreamers
  <2> QED  BY <2>1, LaunchKeeps
<1>13. ASSUME NEW c \in Callers, startTrack(c) PROVE IInv'
  <2>1. pc[c] = "track" /\ Track(c) /\ Goto(c, "launch") /\ UNCHANGED <<st, victims>>
    BY <1>13 DEF startTrack
  <2> QED  BY <2>1, TrackKeeps
<1> QED
  BY <1>1, <1>2, <1>3, <1>4, <1>5, <1>6, <1>7, <1>8, <1>9, <1>10, <1>11, <1>12, <1>13 DEF Next

(* No publisher is ever lost sight of: whatever starts, stops, restarts,   *)
(* exits and health checks interleave, a process that holds a camera is on *)
(* streamerProcs, with the goroutine that launched it, or among the        *)
(* victims of a stop.                                                      *)
THEOREM NeverOrphaned == Spec => []NoOrphan
<1>1. IInv => NoOrphan
  BY DEF IInv
<1> QED  BY InitHolds, StepHolds, <1>1, PTL DEF Spec
-----------------------------------------------------------------------------
(* Whoever is about to start a camera, or to be served, is not there once  *)
(* a stop has run alone.                                                   *)
Busy(a) == pc[a] \in {"stop", "launch", "select", "look", "kill", "spawn", "track"}

LEMMA BusyMeansNo ==
    ASSUME StopInv, NEW a \in Actors, Busy(a)
    PROVE  halt = "no"
<1>1. CASE a \in Callers
  BY <1>1 DEF StopInv, OnlyStop, Busy
<1>2. CASE a \in Loops \cup Procs
  BY <1>2 DEF StopInv, Quiet, Busy
<1> QED  BY <1>1, <1>2 DEF Actors

(* A step of such an actor, with which no stop begins.                     *)
NoStopBegins == \A c \in Callers : pc'[c] = pc[c] \/ pc'[c] \notin {"take", "term"}

LEMMA BusyKeepsStop ==
    ASSUME StopInv, NEW a \in Actors, Busy(a), NoStopBegins,
           op' = op, suppress' = suppress, halt' = halt, under' \subseteq under
    PROVE  StopInv'
<1>1. halt = "no"
  BY BusyMeansNo
<1>2. Stopping' => Stopping
  BY DEF Stopping, NoStopBegins
<1>3. Suppressed'
  BY <1>2 DEF StopInv, Suppressed
<1> QED  BY <1>1, <1>3 DEF StopInv

LEMMA MoveBeginsNoStop ==
    ASSUME IInv, NEW a \in Actors, NEW x, pc' = [pc EXCEPT ![a] = x], x \notin {"take", "term"}
    PROVE  NoStopBegins
BY NamesApart DEF IInv, Shape, NoStopBegins

(* A step in which nobody moves and no process appears.                    *)
LEMMA StillKeepsStop ==
    ASSUME StopInv, UNCHANGED <<pc, op, suppress, under, halt>>,
           \A p \in Procs : st'[p] # "none" => st[p] # "none", Publishing' \subseteq Publishing
    PROVE  StopInv'
<1>1. Suppressed'
  BY DEF StopInv, Suppressed, Stopping
<1>2. Quiet => Quiet'
  BY DEF Quiet
<1>3. OnlyStop => OnlyStop'
  BY DEF OnlyStop
<1> QED  BY <1>1, <1>2, <1>3 DEF StopInv

LEMMA ProcessKeepsStop ==
    ASSUME StopInv, IInv, NEW p \in Procs, Crash(p) \/ Stall(p) \/ Exit(p)
    PROVE  StopInv'
<1>1. /\ \E x \in {"stalled", "exited"} : st' = [st EXCEPT ![p] = x]
      /\ st[p] # "none" /\ (st[p] \notin {"live", "stalled"} => st'[p] = "exited")
      /\ UNCHANGED <<pc, op, suppress, under, halt>>
  BY DEF Crash, Stall, Exit, who, dog, Publishing, IInv, Shape
<1>2. Publishing' \subseteq Publishing /\ \A q \in Procs : st'[q] # "none" => st[q] # "none"
  BY <1>1 DEF Publishing, IInv, Shape
<1> QED  BY <1>1, <1>2, StillKeepsStop

LEMMA TimeKeepsStop ==
    ASSUME StopInv, IInv, SuppressOver \/ \E c \in CamSet : CooldownOver(c)
    PROVE  StopInv'
<1>1. CASE SuppressOver
  <2>1. /\ under = {} /\ under' = {} /\ ~Stopping
        /\ UNCHANGED <<st, pc, op, halt>>
    BY <1>1 DEF SuppressOver, procs, who
  <2>2. Suppressed'
    BY <2>1 DEF Suppressed, Stopping
  <2>3. (Quiet => Quiet') /\ (OnlyStop => OnlyStop') /\ Publishing' = Publishing
    BY <2>1 DEF Quiet, OnlyStop, Publishing
  <2> QED  BY <2>1, <2>2, <2>3 DEF StopInv
<1>2. CASE \E c \in CamSet : CooldownOver(c)
  <2>1. UNCHANGED <<st, pc, op, suppress, under, halt>>
    BY <1>2 DEF CooldownOver, procs, who
  <2> QED  BY <2>1, StillKeepsStop DEF Publishing
<1> QED  BY <1>1, <1>2

(* A process leaves, or its goroutine goes to sleep or ends.               *)
LEMMA GoneKeepsStop ==
    ASSUME StopInv, IInv, NEW p \in Procs, NEW x \in {"none", "sleep"}, NEW y \in {"none", "waited"},
           pc' = [pc EXCEPT ![p] = x], st' = [st EXCEPT ![p] = y],
           under' = under \/ (y = "none" /\ under' = under \ {p}),
           st[p] # "none", UNCHANGED <<op, suppress, halt>>
    PROVE  StopInv'
<1>1. \A c \in Callers : pc'[c] = pc[c]
  BY NamesApart DEF IInv, Shape
<1>2. Suppressed'
  BY <1>1 DEF StopInv, Suppressed, Stopping
<1>3. Quiet => Quiet'
  BY NamesApart DEF Quiet, IInv, Shape
<1>4. OnlyStop => OnlyStop'
  BY <1>1 DEF OnlyStop
<1>5. Publishing' \subseteq Publishing
  BY DEF Publishing, IInv, Shape
<1> QED  BY <1>1, <1>2, <1>3, <1>4, <1>5 DEF StopInv

LEMMA WaitKeepsStop ==
    ASSUME StopInv, IInv, NEW p \in Procs, waitStreamerProc(p)
    PROVE  StopInv'
<1>1. st[p] = "exited" /\ UNCHANGED <<op, suppress, halt>>
  BY DEF waitStreamerProc
<1>2. pc[p] = "none"
  BY <1>1 DEF IInv, InHand
<1>3. pc = [pc EXCEPT ![p] = "none"]
  BY <1>2 DEF IInv, Shape
<1>4. \/ st' = [st EXCEPT ![p] = "waited"] /\ pc' = [pc EXCEPT ![p] = "sleep"] /\ under' = under
      \/ st' = [st EXCEPT ![p] = "none"] /\ pc' = pc /\ under' = under \ {p}
  BY DEF waitStreamerProc, Goto
<1> QED  BY <1>1, <1>3, <1>4, GoneKeepsStop

(* The goroutine of an exit wakes: after a stop it finds the suppression   *)
(* still in force.                                                         *)
LEMMA WakeKeepsStop ==
    ASSUME StopInv, IInv, NEW p \in Procs, onStreamerExited(p)
    PROVE  StopInv'
<1>1. pc[p] = "sleep" /\ st[p] = "waited" /\ UNCHANGED <<op, suppress, halt>>
  BY DEF onStreamerExited, IInv, InHand
<1>2. CASE ExitDone(p)
  BY <1>1, <1>2, GoneKeepsStop DEF ExitDone, Goto
<1>3. CASE ~suppress /\ Goto(p, "kill") /\ UNCHANGED under
  <2>1. pc' = [pc EXCEPT ![p] = "kill"]
    BY <1>3 DEF Goto
  <2>2. halt = "no"
    BY <1>1, <1>3 DEF StopInv, Quiet, Suppressed
  <2>3. \A c \in Callers : pc'[c] = pc[c]
    BY <2>1, NamesApart DEF IInv, Shape
  <2>4. Suppressed'
    BY <1>1, <1>3, <2>3 DEF StopInv, Suppressed, Stopping
  <2> QED  BY <1>1, <2>2, <2>4 DEF StopInv
<1> QED  BY <1>2, <1>3 DEF onStreamerExited

LEMMA RestartKeepsStop ==
    ASSUME StopInv, IInv, NEW a \in Loops \cup Procs,
           restartOneStream(a) \/ restartLaunch(a) \/ (a \in Procs /\ exitRestarted(a))
    PROVE  StopInv'
<1>1. /\ Busy(a) /\ a \in Actors
      /\ op' = op /\ suppress' = suppress /\ halt' = halt /\ under' \subseteq under
  BY NamesApart DEF restartOneStream, restartLaunch, exitRestarted, Launch, ExitDone, dog, Busy
<1>2. PICK x \in {"spawn", "track", "none"} : pc' = [pc EXCEPT ![a] = x]
  BY DEF restartOneStream, restartLaunch, exitRestarted, Launch, ExitDone, Goto
<1>3. NoStopBegins
  BY <1>1, <1>2, MoveBeginsNoStop
<1> QED  BY <1>1, <1>3, BusyKeepsStop

LEMMA LoopKeepsStop ==
    ASSUME StopInv, IInv, NEW l \in Loops, tick(l) \/ runStreamHealthCheck(l) \/ loopRestarted(l)
    PROVE  StopInv'
<1>1. /\ Busy(l) /\ l \in Actors
      /\ op' = op /\ suppress' = suppress /\ halt' = halt /\ under' = under
  BY NamesApart DEF tick, runStreamHealthCheck, loopRestarted, dog, Busy
<1>2. PICK x \in {"look", "kill", "select", "off"} : pc' = [pc EXCEPT ![l] = x]
  BY DEF tick, runStreamHealthCheck, loopRestarted, streamWatchdogLoop, Goto
<1>3. NoStopBegins
  BY <1>1, <1>2, MoveBeginsNoStop
<1> QED  BY <1>1, <1>3, BusyKeepsStop

LEMMA StartKeepsStop ==
    ASSUME StopInv, IInv, NEW c \in Callers, startMixedStreamers(c) \/ startTrack(c)
    PROVE  StopInv'
<1>1. /\ Busy(c) /\ c \in Actors
      /\ op' = op /\ suppress' = suppress /\ halt' = halt /\ under' = under
  BY NamesApart DEF startMixedStreamers, startTrack, dog, Busy
<1>2. PICK x \in {"launch", "track"} : pc' = [pc EXCEPT ![c] = x]
  BY DEF startMixedStreamers, startTrack, Launch, Goto
<1>3. NoStopBegins
  BY <1>1, <1>2, MoveBeginsNoStop
<1> QED  BY <1>1, <1>3, BusyKeepsStop

LEMMA WatchdogKeepsStop ==
    ASSUME StopInv, IInv, NEW c \in Callers, StartStreamWatchdog(c)
    PROVE  StopInv'
<1>1. /\ Busy(c) /\ c \in Actors
      /\ op' = op /\ suppress' = suppress /\ halt' = halt /\ under' = under
  BY NamesApart DEF StartStreamWatchdog, Busy
<1>2. CASE Goto(c, "idle")
  BY <1>1, <1>2, BusyKeepsStop, MoveBeginsNoStop DEF Goto
<1>3. CASE \E l \in Loops : pc' = [pc EXCEPT ![c] = "idle", ![l] = "select"]
  <2>1. PICK l \in Loops : pc' = [pc EXCEPT ![c] = "idle", ![l] = "select"]
    BY <1>3
  <2>2. ASSUME NEW d \in Callers PROVE pc'[d] = pc[d] \/ pc'[d] = "idle"
    BY <2>1, NamesApart DEF IInv, Shape
  <2>3. NoStopBegins
    BY <2>2 DEF NoStopBegins
  <2> QED  BY <1>1, <2>3, BusyKeepsStop
<1> QED  BY <1>2, <1>3 DEF StartStreamWatchdog

LEMMA RequestKeepsStop ==
    ASSUME StopInv, IInv, NEW c \in Callers, Request(c)
    PROVE  StopInv'
<1>1. /\ halt' = "no" /\ pc' = [pc EXCEPT ![c] = "stop"] /\ UNCHANGED <<suppress, under>>
      /\ \E o : op' = [op EXCEPT ![c] = o]
  BY DEF Request, Goto, dog
<1>2. \A d \in Callers : pc'[d] \in {pc[d], "stop"}
  BY <1>1, NamesApart DEF IInv, Shape
<1>3. Suppressed'
  BY <1>1, <1>2 DEF StopInv, Suppressed, Stopping
<1>4. op' = [d \in Callers |-> op'[d]]
  BY <1>1 DEF StopInv
<1> QED  BY <1>1, <1>3, <1>4 DEF StopInv

(* A stop begins.  If nobody else is active, the loops in their select     *)
(* return and every process falls under the suppression.                   *)
LEMMA StopStreamersKeepsStop ==
    ASSUME StopInv, IInv, NEW c \in Callers, StopStreamers(c)
    PROVE  StopInv'
<1>1. /\ suppress' = TRUE /\ under' = {p \in Procs : st[p] # "none"} /\ UNCHANGED <<op, st>>
      /\ pc' = [a \in Actors |-> IF a = c THEN "take"
                                 ELSE IF a \in Loops /\ pc[a] = "select" THEN "off" ELSE pc[a]]
      /\ halt' = IF op[c] = "stop" /\ Alone(c) THEN "stopping" ELSE "no"
  BY DEF StopStreamers, procs
<1>2. Suppressed'
  BY <1>1 DEF Suppressed
<1>3. ASSUME op[c] = "stop", Alone(c) PROVE Quiet' /\ OnlyStop'
  <2>1. pc'[c] = "take" /\ \A d \in Callers \ {c} : pc'[d] = "idle"
    BY <1>1, <1>3, NamesApart DEF Alone
  <2>2. \A l \in Loops : pc'[l] = "off"
    BY <1>1, <1>3, NamesApart DEF Alone
  <2>3. \A p \in Procs : pc'[p] \in {"none", "sleep"}
    BY <1>1, <1>3, NamesApart DEF Alone
  <2> QED  BY <1>1, <1>3, <2>1, <2>2, <2>3 DEF Quiet, OnlyStop
<1> QED  BY <1>1, <1>2, <1>3 DEF StopInv

LEMMA TerminateKeepsStop ==
    ASSUME StopInv, IInv, NEW c \in Callers, terminate(c)
    PROVE  StopInv'
<1>1. /\ UNCHANGED <<pc, op, suppress, under, halt>>
      /\ (\E p : Kill({p})) \/ st' = st
  BY DEF terminate, dog
<1>2. Publishing' \subseteq Publishing /\ \A q \in Procs : st'[q] # "none" => st[q] # "none"
  BY <1>1 DEF Publishing, Kill
<1> QED  BY <1>1, <1>2, StillKeepsStop

LEMMA TakeKeepsStop ==
    ASSUME StopInv, IInv, NEW c \in Callers, stopTrackedStreamers(c)
    PROVE  StopInv'
<1>1. /\ pc[c] = "take" /\ pc' = [pc EXCEPT ![c] = "term"] /\ c \in Actors
      /\ UNCHANGED <<st, op, suppress, under, halt>>
  BY NamesApart DEF stopTrackedStreamers, Goto, dog
<1>2. pc'[c] = "term" /\ \A a \in Actors \ {c} : pc'[a] = pc[a]
  BY <1>1 DEF IInv, Shape
<1>3. Suppressed'
  BY <1>1, <1>2 DEF StopInv, Suppressed, Stopping
<1>4. Quiet => Quiet'
  BY <1>1, <1>2, NamesApart DEF Quiet
<1>5. OnlyStop => OnlyStop'
  BY <1>1, <1>2, NamesApart DEF OnlyStop
<1>6. halt # "yes"
  BY <1>1 DEF StopInv
<1> QED  BY <1>1, <1>3, <1>4, <1>5, <1>6 DEF StopInv

(* The last signals of a stop.                                             *)
LEMMA PkillKeepsStop ==
    ASSUME StopInv, IInv, NEW c \in Callers, pkill(c)
    PROVE  StopInv'
<1>1. /\ pc[c] = "term" /\ Kill(Procs) /\ under' = under \cup Publishing /\ c \in Actors
      /\ halt' = IF halt = "stopping" THEN "yes" ELSE halt
      /\ UNCHANGED suppress
  BY NamesApart DEF pkill
<1>2. suppress
  BY <1>1 DEF StopInv, Suppressed, Stopping
<1>3. Suppressed'
  BY <1>1, <1>2 DEF Suppressed
<1>4. op' = [d \in Callers |-> op'[d]]
  BY DEF pkill, StopInv
<1>5. Publishing' = {}
  BY <1>1, KillKeeps DEF IInv, Publishing
<1>6. ASSUME halt = "stopping" PROVE Quiet' /\ \A d \in Callers : pc'[d] = "idle"
  <2>1. op[c] = "stop" /\ \A d \in Callers \ {c} : pc[d] = "idle"
    BY <1>1, <1>6 DEF StopInv, OnlyStop
  <2>2. pc' = [pc EXCEPT ![c] = "idle"]
    BY <2>1 DEF pkill
  <2>3. pc'[c] = "idle" /\ \A a \in Actors \ {c} : pc'[a] = pc[a]
    BY <1>1, <2>2 DEF IInv, Shape
  <2>4. \A p \in Procs : st'[p] # "none" => st[p] # "none"
    BY <1>1 DEF Kill, Publishing
  <2>5. Quiet'
    BY <1>1, <1>6, <2>3, <2>4, NamesApart DEF StopInv, Quiet
  <2> QED  BY <2>1, <2>3, <2>5, NamesApart
<1>7. halt # "yes"
  BY <1>1 DEF StopInv
<1> QED  BY <1>1, <1>3, <1>4, <1>5, <1>6, <1>7 DEF StopInv

LEMMA StopStep == StopInv /\ IInv /\ [Next]_vars => StopInv'
<1> SUFFICES ASSUME StopInv, IInv, [Next]_vars PROVE StopInv'
  OBVIOUS
<1>1. CASE UNCHANGED vars
  <2>1. UNCHANGED <<st, pc, op, suppress, under, halt>>
    BY <1>1 DEF vars, procs, who, dog
  <2> QED  BY <2>1, StillKeepsStop DEF Publishing
<1>2. ASSUME NEW p \in Procs, Crash(p) \/ Stall(p) \/ Exit(p) PROVE StopInv'
  BY <1>2, ProcessKeepsStop
<1>3. ASSUME NEW p \in Procs, waitStreamerProc(p) \/ onStreamerExited(p) PROVE StopInv'
  BY <1>3, WaitKeepsStop, WakeKeepsStop
<1>4. ASSUME NEW a \in Loops \cup Procs,
             restartOneStream(a) \/ restartLaunch(a) \/ (a \in Procs /\ exitRestarted(a))
      PROVE  StopInv'
  BY <1>4, RestartKeepsStop
<1>5. ASSUME NEW l \in Loops, tick(l) \/ runStreamHealthCheck(l) \/ loopRestarted(l) PROVE StopInv'
  BY <1>5, LoopKeepsStop
<1>6. ASSUME NEW c \in Callers,
             Request(c) \/ StopStreamers(c) \/ stopTrackedStreamers(c) \/ terminate(c) \/ pkill(c)
      PROVE  StopInv'
  BY <1>6, RequestKeepsStop, StopStreamersKeepsStop, TakeKeepsStop, TerminateKeepsStop, PkillKeepsStop
<1>7. ASSUME NEW c \in Callers, startMixedStreamers(c) \/ startTrack(c) \/ StartStreamWatchdog(c)
      PROVE  StopInv'
  BY <1>7, StartKeepsStop, WatchdogKeepsStop
<1> QED
  BY <1>1, <1>2, <1>3, <1>4, <1>5, <1>6, <1>7, TimeKeepsStop DEF Next

(* A stop that nobody else interfered with lasts: until the next request   *)
(* no publisher runs, because the goroutines of all the exits wake before  *)
(* suppressRestartUntil and the watchdog loops have returned.              *)
THEOREM StopLasts == Spec => []StopHolds
<1>1. Init => StopInv
  <2> SUFFICES ASSUME Init PROVE StopInv
    OBVIOUS
  <2>1. under = {} /\ halt = "no" /\ op = [c \in Callers |-> op[c]]
    BY DEF Init
  <2>2. \A c \in Callers : pc[c] = "idle"
    BY NamesApart DEF Init
  <2> QED  BY <2>1, <2>2 DEF StopInv, Suppressed, Stopping
<1>2. StopInv => StopHolds
  BY DEF StopInv, StopHolds
<1> QED  BY InitHolds, StepHolds, StopStep, <1>1, <1>2, PTL DEF Spec
=============================================================================
