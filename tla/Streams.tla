------------------------------ MODULE Streams -------------------------------
(***************************************************************************)
(* The camera publishers (camera_streamer.py, one process per enabled      *)
(* camera) and everyone who starts and stops them: the console's start,    *)
(* stop and restart requests and the boot-time start                       *)
(* (src/camera/streamer_launcher.go, src/web/camera_runtime.go), the       *)
(* watchdog loop, and the goroutine that each exit of a publisher leaves   *)
(* behind (src/camera/streamer_watchdog.go).  streamerMu makes the single  *)
(* looks at streamerProcs atomic; nothing spans a whole start, stop or     *)
(* restart, so they interleave.                                            *)
(***************************************************************************)
EXTENDS Naturals, Sequences, FiniteSets, SequencesExt

CONSTANTS
    Cams,       \* the enabled cameras in the order of their ids, a sequence
    Procs,      \* names of processes, reused when nothing refers to them
    Loops,      \* names of watchdog loops, reused when they have returned
    Callers,    \* requests that can be served at the same time
    MaxCalls,   \* bound: requests in a behaviour
    MaxFaults   \* bound: crashes, stalls and failed launches in a behaviour

ASSUME StreamsAssumption ==
    /\ Cams # <<>> /\ "none" \notin Procs
    /\ Callers \cap Loops = {} /\ Callers \cap Procs = {} /\ Loops \cap Procs = {}
    /\ MaxCalls \in Nat /\ MaxFaults \in Nat

VARIABLES
    st,         \* what the system knows of each process
    cam,        \* the camera a process publishes
    streamerProcs, \* the tracked processes
    pc,         \* where each caller, loop and exit goroutine is
    op,         \* what a caller was asked to do
    todo,       \* cameras a launch or a health check has still to look at
    new,        \* the process an actor has launched and not tracked yet
    victims,    \* the processes a stop has still to signal and wait for
    started,    \* has a launch of this caller succeeded
    watchdogRunning, \* also: the current watchdogStop is not closed
    watchdogCfg, \* has the watchdog ever been given a configuration
    suppress,   \* is it before suppressRestartUntil
    under,      \* the processes whose exit falls before suppressRestartUntil
    lastRestartAt, \* cameras whose last restart was within the cooldown
    calls, faults, \* history: requests and faults so far
    halt        \* history: nobody else was active when the last stop ran

who == <<pc, op, todo, new, victims, started>>
procs == <<st, cam, streamerProcs>>
dog == <<watchdogRunning, watchdogCfg, suppress, under, lastRestartAt>>
vars == <<procs, who, dog, calls, faults, halt>>

Actors == Callers \cup Loops \cup Procs
CamSet == ToSet(Cams)
None == "none"

Publishing == {p \in Procs : st[p] \in {"live", "stalled"}}
Unused == {p \in Procs : st[p] = "none" /\ \A c \in Callers : p \notin victims[c]}

(* isStreamerRunningForCamera: a tracked process that was not waited for.  *)
Running(c) == \E p \in streamerProcs : cam[p] = c

(* The statistics file of a camera is stale: whoever writes it has stalled. *)
Live(c) == \E p \in Procs : cam[p] = c /\ st[p] = "live"
Stalled(c) == ~Live(c) /\ \E p \in streamerProcs : cam[p] = c /\ st[p] = "stalled"

(* The camera a loop or an exit goroutine is dealing with.                 *)
CamOf(a) == IF a \in Procs THEN cam[a] ELSE Head(todo[a])

Fault == faults < MaxFaults /\ faults' = faults + 1
Goto(a, l) == pc' = [pc EXCEPT ![a] = l]

Init ==
    /\ st = [p \in Procs |-> "none"] /\ cam = [p \in Procs |-> Cams[1]]
    /\ streamerProcs = {}
    /\ pc = [a \in Actors |-> IF a \in Callers THEN "idle"
                              ELSE IF a \in Loops THEN "off" ELSE "none"]
    /\ op = [c \in Callers |-> None]
    /\ todo = [a \in Callers \cup Loops |-> <<>>]
    /\ new = [a \in Actors |-> None]
    /\ victims = [c \in Callers |-> {}]
    /\ started = [c \in Callers |-> FALSE]
    /\ watchdogRunning = FALSE /\ watchdogCfg = FALSE
    /\ suppress = FALSE /\ under = {} /\ lastRestartAt = {}
    /\ calls = 0 /\ faults = 0 /\ halt = "no"

-----------------------------------------------------------------------------
(* The processes (external): they crash or stall, and exit when signalled. *)

Crash(p) ==
    /\ Fault
    /\ p \in Publishing
    /\ st' = [st EXCEPT ![p] = "exited"]
    /\ UNCHANGED <<cam, streamerProcs, who, dog, calls, halt>>

Stall(p) ==
    /\ Fault
    /\ st[p] = "live"
    /\ st' = [st EXCEPT ![p] = "stalled"]
    /\ UNCHANGED <<cam, streamerProcs, who, dog, calls, halt>>

Exit(p) ==
    /\ st[p] = "killed"
    /\ st' = [st EXCEPT ![p] = "exited"]
    /\ UNCHANGED <<cam, streamerProcs, who, dog, calls, faults, halt>>

Kill(ps) == st' = [p \in Procs |-> IF p \in ps \cap Publishing THEN "killed" ELSE st[p]]

(* A publisher exits within 3 s of SIGTERM and a stop is over in less than *)
(* the 5 s of suppressRestartUntil, which is also enough for the goroutine *)
(* of every process of before the stop to wake after its 2 s.              *)
Stopping == \E c \in Callers : pc[c] \in {"take", "term"}

SuppressOver ==
    /\ suppress
    /\ under = {} /\ ~Stopping
    /\ suppress' = FALSE /\ under' = {}
    /\ UNCHANGED <<procs, who, watchdogRunning, watchdogCfg, lastRestartAt, calls, faults, halt>>

(* 20 s after a restart: that restart (0.8 s), the exit it caused, the     *)
(* goroutine left by the exit (2 s) and a stop in between are over.        *)
CooldownOver(c) ==
    /\ c \in lastRestartAt /\ ~Stopping
    /\ \A p \in Procs : st[p] \in {"killed", "exited", "waited"} => cam[p] # c
    /\ \A l \in Loops : pc[l] \in {"kill", "spawn", "track"} => CamOf(l) # c
    /\ lastRestartAt' = lastRestartAt \ {c}
    /\ UNCHANGED <<procs, who, watchdogRunning, watchdogCfg, suppress, under, calls, faults, halt>>

-----------------------------------------------------------------------------
(* startOnePythonStreamer: launch the process, which can fail, then track   *)
(* it under the lock.                                                      *)

Launch(a, c) ==
    /\ \/ /\ Unused # {}
          /\ LET p == CHOOSE q \in Unused : TRUE IN
                /\ st' = [st EXCEPT ![p] = "live"]
                /\ cam' = [cam EXCEPT ![p] = c]
                /\ new' = [new EXCEPT ![a] = p]
          /\ UNCHANGED faults
       \/ Fault /\ UNCHANGED <<st, cam, new>>
    /\ Goto(a, "track")

Track(a) ==
    /\ streamerProcs' = streamerProcs \cup ({new[a]} \ {None})
    /\ new' = [new EXCEPT ![a] = None]

(* waitStreamerProc takes its own process off the list and leaves a        *)
(* goroutine behind, unless the watchdog was never configured.             *)
waitByCamera(p) ==
    /\ st[p] = "exited" /\ \A a \in Actors : new[a] # p
    /\ streamerProcs' = {q \in streamerProcs : cam[q] # cam[p]}
    /\ IF watchdogCfg
       THEN st' = [st EXCEPT ![p] = "waited"] /\ Goto(p, "sleep") /\ UNCHANGED under
       ELSE st' = [st EXCEPT ![p] = "none"] /\ UNCHANGED pc /\ under' = under \ {p}
    /\ UNCHANGED <<cam, op, todo, new, victims, started, watchdogRunning, watchdogCfg,
                   suppress, lastRestartAt, calls, faults, halt>>

waitStreamerProc(p) ==
    /\ st[p] = "exited" /\ \A a \in Actors : new[a] # p
    /\ streamerProcs' = streamerProcs \ {p}
    /\ IF watchdogCfg
       THEN st' = [st EXCEPT ![p] = "waited"] /\ Goto(p, "sleep") /\ UNCHANGED under
       ELSE st' = [st EXCEPT ![p] = "none"] /\ UNCHANGED pc /\ under' = under \ {p}
    /\ UNCHANGED <<cam, op, todo, new, victims, started, watchdogRunning, watchdogCfg,
                   suppress, lastRestartAt, calls, faults, halt>>

(* The goroutine of onStreamerExited is done.                              *)
ExitDone(p) ==
    /\ Goto(p, "none")
    /\ st' = [st EXCEPT ![p] = "none"]
    /\ under' = under \ {p}

(* onStreamerExited, 2 s later: nothing to do after a stop or when the     *)
(* camera is published again or was restarted within the cooldown.         *)
exitWakesRegardless(p) ==
    /\ pc[p] = "sleep"
    /\ IF Running(cam[p]) \/ cam[p] \in lastRestartAt
       THEN ExitDone(p)
       ELSE Goto(p, "kill") /\ UNCHANGED <<st, under>>
    /\ UNCHANGED <<cam, streamerProcs, op, todo, new, victims, started, watchdogRunning,
                   watchdogCfg, suppress, lastRestartAt, calls, faults, halt>>

onStreamerExited(p) ==
    /\ pc[p] = "sleep"
    /\ IF suppress \/ Running(cam[p]) \/ cam[p] \in lastRestartAt
       THEN ExitDone(p)
       ELSE Goto(p, "kill") /\ UNCHANGED <<st, under>>
    /\ UNCHANGED <<cam, streamerProcs, op, todo, new, victims, started, watchdogRunning,
                   watchdogCfg, suppress, lastRestartAt, calls, faults, halt>>

-----------------------------------------------------------------------------
(* restartOneStream, by a watchdog loop or an exit goroutine that found    *)
(* the camera out of the cooldown.  lastRestartAt is looked at and set     *)
(* without a lock, so two of them can be here for one camera.  The         *)
(* camera's publishers are killed and taken off the list under the lock.   *)

restartOneStream(a) ==
    /\ pc[a] = "kill"
    /\ lastRestartAt' = lastRestartAt \cup {CamOf(a)}
    /\ LET old == {p \in streamerProcs : cam[p] = CamOf(a)} IN
        Kill(old) /\ streamerProcs' = streamerProcs \ old
    /\ Goto(a, "spawn")
    /\ UNCHANGED <<cam, op, todo, new, victims, started, watchdogRunning, watchdogCfg,
                   suppress, under, calls, faults, halt>>

restartLaunch(a) ==
    /\ pc[a] = "spawn"
    /\ Launch(a, CamOf(a))
    /\ UNCHANGED <<streamerProcs, op, todo, victims, started, dog, calls, halt>>

exitRestarted(p) ==
    /\ pc[p] = "track"
    /\ Track(p)
    /\ ExitDone(p)
    /\ UNCHANGED <<cam, op, todo, victims, started, watchdogRunning, watchdogCfg, suppress,
                   lastRestartAt, calls, faults, halt>>

-----------------------------------------------------------------------------
(* streamWatchdogLoop and runStreamHealthCheck.                            *)

tick(l) ==
    /\ pc[l] = "select"
    /\ Goto(l, "look")
    /\ todo' = [todo EXCEPT ![l] = Cams]
    /\ UNCHANGED <<procs, op, new, victims, started, dog, calls, faults, halt>>

(* On to the next camera, or back to the select, which reads the global    *)
(* watchdogStop anew: a closed one ends the loop, or a tick that is due as  *)
(* well is taken first; one that a new start has put there keeps the loop  *)
(* going.                                                                  *)
streamWatchdogLoop(l) ==
    LET rest == Tail(todo[l]) IN
    \/ rest # <<>> /\ Goto(l, "look") /\ todo' = [todo EXCEPT ![l] = rest]
    \/ /\ rest = <<>>
       /\ Goto(l, IF watchdogRunning THEN "select" ELSE "off")
       /\ todo' = [todo EXCEPT ![l] = <<>>]
    \/ /\ rest = <<>> /\ ~watchdogRunning
       /\ Goto(l, "look") /\ todo' = [todo EXCEPT ![l] = Cams]

(* A camera without a publisher, or one whose statistics are stale or show *)
(* a low frame rate, is restarted unless it is in its cooldown.            *)
checkStatsOnly(l) ==
    /\ pc[l] = "look"
    /\ IF Stalled(Head(todo[l])) /\ Head(todo[l]) \notin lastRestartAt
       THEN Goto(l, "kill") /\ UNCHANGED todo
       ELSE streamWatchdogLoop(l)
    /\ UNCHANGED <<procs, op, new, victims, started, dog, calls, faults, halt>>

runStreamHealthCheck(l) ==
    /\ pc[l] = "look"
    /\ IF /\ ~Running(Head(todo[l])) \/ Stalled(Head(todo[l]))
          /\ Head(todo[l]) \notin lastRestartAt
       THEN Goto(l, "kill") /\ UNCHANGED todo
       ELSE streamWatchdogLoop(l)
    /\ UNCHANGED <<procs, op, new, victims, started, dog, calls, faults, halt>>

loopRestarted(l) ==
    /\ pc[l] = "track"
    /\ Track(l)
    /\ streamWatchdogLoop(l)
    /\ UNCHANGED <<st, cam, op, victims, started, dog, calls, faults, halt>>

-----------------------------------------------------------------------------
(* The requests.  /api/camera/start is refused while a publisher runs;     *)
(* restart and the boot-time start are not.                                *)

Alone(c) ==
    /\ \A d \in Callers \ {c} : pc[d] = "idle"
    /\ \A l \in Loops : pc[l] \in {"off", "select"}
    /\ \A p \in Procs : pc[p] \in {"none", "sleep"}

Request(c) ==
    /\ pc[c] = "idle"
    /\ calls < MaxCalls /\ calls' = calls + 1
    /\ \E o \in {"start", "restart", "stop"} :
        /\ o = "start" => streamerProcs = {} /\ \A p \in Procs : st[p] \notin {"live", "stalled", "killed"}
        /\ op' = [op EXCEPT ![c] = o]
    /\ halt' = "no"
    /\ Goto(c, "stop")
    /\ UNCHANGED <<procs, todo, new, victims, started, dog, faults>>

(* StopStreamers: no restarts for 5 s, and the watchdog stops: a loop that *)
(* waits in its select returns.                                            *)
StopStreamers(c) ==
    /\ pc[c] = "stop"
    /\ suppress' = TRUE /\ under' = {p \in Procs : st[p] # "none"}
    /\ watchdogRunning' = FALSE
    /\ pc' = [a \in Actors |-> IF a = c THEN "take"
                               ELSE IF a \in Loops /\ pc[a] = "select" THEN "off" ELSE pc[a]]
    /\ halt' = IF op[c] = "stop" /\ Alone(c) THEN "stopping" ELSE "no"
    /\ UNCHANGED <<procs, op, todo, new, victims, started, watchdogCfg, lastRestartAt,
                   calls, faults>>

(* stopTrackedStreamers empties the list under the lock, ...               *)
stopTrackedStreamers(c) ==
    /\ pc[c] = "take"
    /\ victims' = [victims EXCEPT ![c] = streamerProcs]
    /\ streamerProcs' = {}
    /\ Goto(c, "term")
    /\ UNCHANGED <<st, cam, op, todo, new, started, dog, calls, faults, halt>>

(* ... signals one after the other and waits for each.                     *)
terminate(c) ==
    /\ pc[c] = "term" /\ \A p \in victims[c] : st[p] # "killed"
    /\ \E p \in victims[c] :
        IF p \in Publishing
        THEN Kill({p}) /\ UNCHANGED victims
        ELSE victims' = [victims EXCEPT ![c] = @ \ {p}] /\ UNCHANGED st
    /\ UNCHANGED <<cam, streamerProcs, pc, op, todo, new, started, dog, calls, faults, halt>>

(* pkill signals every publisher, tracked or not.  Then a stop is over, a  *)
(* restart turns into a start, and a start launches.                       *)
pkill(c) ==
    /\ pc[c] = "term" /\ victims[c] = {}
    /\ Kill(Procs) /\ under' = under \cup Publishing
    /\ pc' = [pc EXCEPT ![c] = CASE op[c] = "stop" -> "idle"
                                 [] op[c] = "restart" -> "stop"
                                 [] op[c] = "start" -> "launch"]
    /\ op' = [op EXCEPT ![c] = IF @ = "restart" THEN "start" ELSE None]
    /\ todo' = [todo EXCEPT ![c] = IF op[c] = "start" THEN Cams ELSE <<>>]
    /\ halt' = IF halt = "stopping" THEN "yes" ELSE halt
    /\ UNCHANGED <<cam, streamerProcs, new, victims, started, watchdogRunning, watchdogCfg,
                   suppress, lastRestartAt, calls, faults>>

(* startMixedStreamers goes on with the next camera when a launch fails.   *)
startMixedStreamers(c) ==
    /\ pc[c] = "launch" /\ todo[c] # <<>>
    /\ Launch(c, Head(todo[c]))
    /\ UNCHANGED <<streamerProcs, op, todo, victims, started, dog, calls, halt>>

startTrack(c) ==
    /\ pc[c] = "track"
    /\ Track(c)
    /\ Goto(c, "launch")
    /\ todo' = [todo EXCEPT ![c] = Tail(@)]
    /\ started' = [started EXCEPT ![c] = @ \/ new[c] # None]
    /\ UNCHANGED <<st, cam, op, victims, dog, calls, faults, halt>>

(* StartStreamers starts the watchdog if any publisher was launched.       *)
StartStreamWatchdog(c) ==
    /\ pc[c] = "launch" /\ todo[c] = <<>>
    /\ watchdogCfg' = (watchdogCfg \/ started[c])
    /\ watchdogRunning' = (watchdogRunning \/ started[c])
    /\ IF started[c] /\ ~watchdogRunning
       THEN \E l \in Loops : pc[l] = "off" /\ pc' = [pc EXCEPT ![c] = "idle", ![l] = "select"]
       ELSE Goto(c, "idle")
    /\ started' = [started EXCEPT ![c] = FALSE]
    /\ UNCHANGED <<procs, op, todo, new, victims, suppress, under, lastRestartAt, calls,
                   faults, halt>>

-----------------------------------------------------------------------------
Next ==
    \/ \E p \in Procs : Crash(p)
    \/ \E p \in Procs : Stall(p)
    \/ \E p \in Procs : Exit(p)
    \/ SuppressOver
    \/ \E c \in CamSet : CooldownOver(c)
    \/ \E p \in Procs : waitStreamerProc(p)
    \/ \E p \in Procs : onStreamerExited(p)
    \/ \E a \in Loops \cup Procs : restartOneStream(a)
    \/ \E a \in Loops \cup Procs : restartLaunch(a)
    \/ \E p \in Procs : exitRestarted(p)
    \/ \E l \in Loops : tick(l)
    \/ \E l \in Loops : runStreamHealthCheck(l)
    \/ \E l \in Loops : loopRestarted(l)
    \/ \E c \in Callers : Request(c)
    \/ \E c \in Callers : StopStreamers(c)
    \/ \E c \in Callers : stopTrackedStreamers(c)
    \/ \E c \in Callers : terminate(c)
    \/ \E c \in Callers : pkill(c)
    \/ \E c \in Callers : startMixedStreamers(c)
    \/ \E c \in Callers : startTrack(c)
    \/ \E c \in Callers : StartStreamWatchdog(c)

Spec == Init /\ [][Next]_vars

(* What one process, loop or caller does next; the crashes, the stalls and *)
(* the requests are left out.                                              *)
ExitStep(p) == Exit(p) \/ waitStreamerProc(p) \/ onStreamerExited(p) \/ exitRestarted(p)
RestartStep(a) == restartOneStream(a) \/ restartLaunch(a)
LoopStep(l) == tick(l) \/ runStreamHealthCheck(l) \/ loopRestarted(l)
CallerStep(c) ==
    \/ StopStreamers(c) \/ stopTrackedStreamers(c) \/ terminate(c) \/ pkill(c)
    \/ startMixedStreamers(c) \/ startTrack(c) \/ StartStreamWatchdog(c)

FairSpec ==
    /\ Spec
    /\ WF_vars(SuppressOver)
    /\ \A c \in CamSet : WF_vars(CooldownOver(c))
    /\ \A p \in Procs : WF_vars(ExitStep(p) \/ RestartStep(p))
    /\ \A l \in Loops : WF_vars(LoopStep(l) \/ RestartStep(l))
    /\ \A c \in Callers : WF_vars(CallerStep(c))

-----------------------------------------------------------------------------
(* No publisher runs that the program has lost sight of: one that holds a  *)
(* camera is on streamerProcs, or is about to be put there by the          *)
(* goroutine that launched it, or is being waited for by a stop.  Exits,   *)
(* restarts and stops edit the list concurrently.                          *)
NoOrphan ==
    \A p \in Publishing :
        \/ p \in streamerProcs
        \/ \E a \in Actors : new[a] = p
        \/ \E c \in Callers : p \in victims[c]

(* A stop that ran while nobody else was starting or restarting a camera   *)
(* lasts: neither the goroutines left by the exits it caused nor a         *)
(* watchdog brings a publisher back (suppressRestartUntil), provided the   *)
(* publishers exit within 3 s of SIGTERM.                                  *)
StopHolds == halt = "yes" => Publishing = {}

(* Faults and requests are finitely many, and after the last of them every *)
(* camera has a tracked publisher that delivers for good, if the watchdog  *)
(* is running at all.                                                      *)
CamerasReturn ==
    <>[](watchdogRunning => \A c \in CamSet : Running(c) /\ Live(c))
=============================================================================
