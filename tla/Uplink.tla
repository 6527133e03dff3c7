------------------------------- MODULE Uplink --------------------------------
(***************************************************************************)
(* The uplink of the forwarder to the cloud router: the life of senderNode *)
(* and of the camera and companion senders, who rebuilds them (the IP      *)
(* monitor, the startup goroutine of main.go and its cloud watcher), the   *)
(* reader of server commands that has to follow, the writers that use the  *)
(* node, the health flag and the auth client's callbacks.                  *)
(*                                                                         *)
(* A node is a number; a number nobody refers to any more is used again.   *)
(* A gomavlib node must be closed once: the second Close panics and takes  *)
(* the process with it.                                                    *)
(***************************************************************************)
EXTENDS Integers, FiniteSets

CONSTANTS
    Nodes,      \* numbers for the sender nodes that exist at one time
    Egress,     \* physical egress routes, "none" when there is none
    DialFails,  \* whether DialUDP may fail to resolve the server's name
    Writers,    \* which writers have something to send
    Reports     \* what the auth client finds out about its session

ASSUME UplinkAssumption ==
    /\ Nodes \subseteq Nat \ {0} /\ Nodes # {}
    /\ DialFails \in BOOLEAN
    /\ Writers \subseteq {"forward", "keepalive"}
    /\ Reports \subseteq {"network", "invalid", "restored"}

Rebuilders == {"monitor", "starter", "watcher"}
Bindings == {"public", "vpn"}
Causes == {"network", "invalid", "restored"}

VARIABLES
    sender,      \* f.senderNode
    bind,        \* bind[n]: the endpoint of node n until it is closed
    side,        \* the endpoint of the camera (or companion) sender
    pc,          \* pc[r]: where rebuilder r is
    held,        \* held[r]: the node it has captured, or made and not installed
    dialled,     \* dialled[r]: the endpoint it dialled for the side sender
    then,        \* where the monitor goes on after a rebuild
    sub,         \* the node whose events receiveFromServer reads
    rebuilt,     \* senderRebuildCh holds a signal
    resub,       \* receiveFromServer took the signal, is about to re-subscribe
    out,         \* the writer at work and the node it read
    healthy,     \* f.isHealthy
    forceCheck,  \* forceCheckCh holds a signal
    wasDown,     \* networkWasDown
    hadIP,       \* f.previousIP # ""
    route,       \* the physical egress now
    seenRoute,   \* f.previousPhysicalEgress
    vpn,         \* vpnManager.IsRunning()
    calls,       \* goroutines the auth client has started for its callbacks
    crashed      \* a node was closed twice

nodeVars == <<sender, bind, side>>
readVars == <<sub, rebuilt, resub>>
netVars == <<wasDown, hadIP, seenRoute>>
flagVars == <<healthy, forceCheck, netVars>>
jobVars == <<pc, held, dialled, then>>
vars == <<nodeVars, jobVars, readVars, out, healthy, forceCheck, netVars, route,
          vpn, calls, crashed>>

NoNode == 0
At(r, here) == pc[r] = here
Goto(r, there) == pc' = [pc EXCEPT ![r] = there]

(* getEndpointConf dials through the tunnel when it is up, and falls back  *)
(* to the public endpoint when that fails.                                 *)
Endpoints == {ep \in Bindings : IF ep = "vpn" THEN vpn ELSE ~vpn \/ DialFails}

(* A new node takes the least number that nobody holds.                    *)
InUse == {sender, sub, out.node} \cup {held[r] : r \in Rebuilders}
Free == Nodes \ InUse

(* New, NewWithVPN and Start: the tunnel is never up yet, so the sender is *)
(* bound to the public endpoint.                                           *)
Init ==
    /\ sender \in Nodes /\ \A n \in Nodes : sender <= n
    /\ sub = sender
    /\ bind = [n \in Nodes |-> IF n = sender THEN "public" ELSE "closed"]
    /\ side = "public"
    /\ pc = [r \in Rebuilders |-> IF r = "starter" THEN "begin" ELSE "idle"]
    /\ held = [r \in Rebuilders |-> NoNode]
    /\ dialled = [r \in Rebuilders |-> "public"]
    /\ then = "idle"
    /\ rebuilt = FALSE /\ resub = FALSE
    /\ out = [by |-> "nobody", node |-> NoNode]
    /\ healthy = TRUE /\ forceCheck = FALSE
    /\ wasDown = FALSE /\ hadIP = FALSE /\ seenRoute = "none"
    /\ route \in Egress
    /\ vpn = FALSE
    /\ calls = {}
    /\ crashed = FALSE

-----------------------------------------------------------------------------
(* rebuildSender and RebindUplink, step by step.                           *)

Capture(r) ==
    /\ At(r, "capture")
    /\ held' = [held EXCEPT ![r] = sender]
    /\ Goto(r, "close")
    /\ UNCHANGED <<nodeVars, dialled, then, readVars, out, flagVars, vpn,
                   calls, crashed>>

(* Mutants: a Close that may be called again; one that also clears the     *)
(* pointer.                                                                *)
CloseTwice(r) ==
    /\ At(r, "close")
    /\ bind' = [bind EXCEPT ![held[r]] = "closed"]
    /\ held' = [held EXCEPT ![r] = NoNode]
    /\ Goto(r, "create")
    /\ UNCHANGED <<sender, side, dialled, then, readVars, out, flagVars, vpn,
                   calls, crashed>>

CloseAndClear(r) ==
    /\ At(r, "close")
    /\ bind' = [bind EXCEPT ![held[r]] = "closed"]
    /\ sender' = NoNode
    /\ held' = [held EXCEPT ![r] = NoNode]
    /\ Goto(r, "create")
    /\ UNCHANGED <<side, dialled, then, readVars, out, flagVars, vpn, calls,
                   crashed>>

CloseOld(r) ==
    /\ At(r, "close")
    /\ IF bind[held[r]] # "closed"
       THEN /\ bind' = [bind EXCEPT ![held[r]] = "closed"]
            /\ held' = [held EXCEPT ![r] = NoNode]
            /\ Goto(r, "create")
            /\ UNCHANGED crashed
       ELSE crashed' = TRUE /\ UNCHANGED <<bind, pc, held>>
    /\ UNCHANGED <<sender, side, dialled, then, readVars, out, flagVars, vpn,
                   calls>>

(* Mutant: no new node, and the rebuilder gives up.                        *)
CreateFails(r) ==
    /\ At(r, "create")
    /\ Goto(r, IF r = "monitor" THEN "idle" ELSE "done")
    /\ UNCHANGED <<nodeVars, held, dialled, then, readVars, out, flagVars, vpn,
                   calls, crashed>>

Create(r) ==
    /\ At(r, "create")
    /\ \E n \in Free, ep \in Endpoints :
         /\ \A m \in Free : n <= m
         /\ bind' = [bind EXCEPT ![n] = ep]
         /\ held' = [held EXCEPT ![r] = n]
    /\ Goto(r, "swap")
    /\ UNCHANGED <<sender, side, dialled, then, readVars, out, flagVars, vpn,
                   calls, crashed>>

Swap(r) ==
    /\ At(r, "swap")
    /\ sender' = held[r]
    /\ held' = [held EXCEPT ![r] = NoNode]
    /\ Goto(r, "dial")
    /\ UNCHANGED <<bind, side, dialled, then, readVars, out, flagVars, vpn,
                   calls, crashed>>

(* initCameraSender and initCompanionSender are the same steps on two      *)
(* nodes, one after the other, and `side' stands for either: the endpoint  *)
(* is dialled, then under the node's own lock the old node is closed and   *)
(* replaced.                                                               *)
DialSide(r) ==
    /\ At(r, "dial")
    /\ \E ep \in Endpoints : dialled' = [dialled EXCEPT ![r] = ep]
    /\ Goto(r, "set")
    /\ UNCHANGED <<nodeVars, held, then, readVars, out, flagVars, vpn, calls,
                   crashed>>

SetSide(r) ==
    /\ At(r, "set")
    /\ side' = dialled[r]
    /\ dialled' = [dialled EXCEPT ![r] = "public"]
    /\ Goto(r, "signal")
    /\ UNCHANGED <<sender, bind, held, then, readVars, out, flagVars, vpn,
                   calls, crashed>>

(* Mutant: RebindUplink does not signal.                                   *)
MonitorSignals(r) ==
    /\ At(r, "signal")
    /\ rebuilt' = (rebuilt \/ r = "monitor")
    /\ Goto(r, IF r = "monitor" THEN "finish" ELSE "done")
    /\ UNCHANGED <<nodeVars, held, dialled, then, sub, resub, out, flagVars,
                   vpn, calls, crashed>>

(* The signal is dropped when one is already waiting.                      *)
Signal(r) ==
    /\ At(r, "signal")
    /\ rebuilt' = TRUE
    /\ Goto(r, IF r = "monitor" THEN "finish" ELSE "done")
    /\ UNCHANGED <<nodeVars, held, dialled, then, sub, resub, out, flagVars,
                   vpn, calls, crashed>>

(* The end of the monitor's rebuildSender.  ForceReconnect, which an       *)
(* initial bind leaves out, closes the auth connection and has a goroutine *)
(* recover it: what comes of that are the callbacks below.                 *)
FinishRebuild ==
    /\ At("monitor", "finish")
    /\ healthy' = TRUE
    /\ Goto("monitor", then) /\ then' = "idle"
    /\ UNCHANGED <<nodeVars, held, dialled, readVars, out, forceCheck, netVars,
                   vpn, calls, crashed>>

Rebuild(r) ==
    \/ Capture(r) \/ CloseOld(r) \/ Create(r) \/ Swap(r)
    \/ DialSide(r) \/ SetSide(r) \/ Signal(r)

-----------------------------------------------------------------------------
MonitorRebuilds(next) == Goto("monitor", "capture") /\ then' = next
MonitorGoes(there) == Goto("monitor", there) /\ UNCHANGED then

(* checkIP of monitorIPChange, on its ticker or on forceCheckCh.  First    *)
(* checkPhysicalEgressChange: a changed route is a rebuild.                *)
CheckEgress(forced) ==
    /\ At("monitor", "idle")
    /\ forced => forceCheck
    /\ forceCheck' = (forceCheck /\ ~forced)
    /\ \/ /\ route \in {"none", seenRoute}
          /\ MonitorGoes("ip")
          /\ UNCHANGED seenRoute
       \/ /\ route # "none" /\ seenRoute = "none"
          /\ seenRoute' = route
          /\ MonitorGoes("ip")
       \/ /\ route # "none" /\ seenRoute \notin {"none", route}
          /\ seenRoute' = route
          /\ MonitorRebuilds("ip")
    /\ UNCHANGED <<nodeVars, held, dialled, readVars, out, healthy, wasDown,
                   hadIP, vpn, calls, crashed>>

(* Mutants: an address that comes back is only recorded; an unhealthy      *)
(* uplink with an unchanged address is left alone.                         *)
CheckIPRecords ==
    /\ At("monitor", "ip")
    /\ IF ~vpn
       THEN /\ healthy' = (healthy /\ wasDown)
            /\ wasDown' = TRUE /\ UNCHANGED hadIP
       ELSE wasDown' = FALSE /\ hadIP' = TRUE /\ healthy' = TRUE
    /\ MonitorGoes("idle")
    /\ UNCHANGED <<nodeVars, held, dialled, readVars, out, forceCheck,
                   seenRoute, vpn, calls, crashed>>

CheckIPChanges ==
    /\ At("monitor", "ip")
    /\ \/ /\ ~vpn
          /\ healthy' = (healthy /\ wasDown)
          /\ wasDown' = TRUE
          /\ MonitorGoes("idle")
          /\ UNCHANGED hadIP
       \/ /\ vpn
          /\ wasDown' = FALSE /\ hadIP' = TRUE
          /\ IF wasDown \/ ~hadIP
             THEN MonitorRebuilds("idle") ELSE MonitorGoes("idle")
          /\ UNCHANGED healthy
    /\ UNCHANGED <<nodeVars, held, dialled, readVars, out, forceCheck,
                   seenRoute, vpn, calls, crashed>>

(* Then the IP: getCurrentIP is empty until the tunnel is up, and from     *)
(* then on always the assigned address.  The network was down, or this is  *)
(* the first address seen: both rebuild.                                   *)
CheckIP ==
    /\ At("monitor", "ip")
    /\ \/ /\ ~vpn
          /\ healthy' = (healthy /\ wasDown)
          /\ wasDown' = TRUE
          /\ MonitorGoes("idle")
          /\ UNCHANGED hadIP
       \/ /\ vpn /\ (wasDown \/ ~hadIP)
          /\ wasDown' = FALSE /\ hadIP' = TRUE
          /\ MonitorRebuilds("idle")
          /\ UNCHANGED healthy
       \/ /\ vpn /\ ~wasDown /\ hadIP
          /\ IF healthy THEN MonitorGoes("idle") ELSE MonitorRebuilds("idle")
          /\ UNCHANGED <<healthy, wasDown, hadIP>>
    /\ UNCHANGED <<nodeVars, held, dialled, readVars, out, forceCheck,
                   seenRoute, vpn, calls, crashed>>

Monitor ==
    \/ \E forced \in BOOLEAN : CheckEgress(forced)
    \/ CheckIP
    \/ Rebuild("monitor")
    \/ FinishRebuild

-----------------------------------------------------------------------------
(* main.go: runAuthWhenReady starts the watcher when there is no egress    *)
(* yet, authenticates (startAuthWithRetry repeats a failed attempt), then  *)
(* brings the tunnel up and rebinds.  A tunnel that does not start is not  *)
(* tried again.                                                            *)
StartAuth ==
    /\ At("starter", "begin")
    /\ pc' = [pc EXCEPT !["starter"] = "auth",
                        !["watcher"] = IF route = "none" THEN "waiting"
                                                         ELSE "done"]
    /\ UNCHANGED <<nodeVars, held, dialled, then, readVars, out, flagVars, vpn,
                   calls, crashed>>

Authenticated ==
    /\ At("starter", "auth")
    /\ calls' = calls \cup {"restored"}
    /\ Goto("starter", "vpn")
    /\ UNCHANGED <<nodeVars, held, dialled, then, readVars, out, flagVars, vpn,
                   crashed>>

StartVpn(ok) ==
    /\ At("starter", "vpn")
    /\ vpn' = ok
    /\ Goto("starter", IF ok THEN "capture" ELSE "done")
    /\ UNCHANGED <<nodeVars, held, dialled, then, readVars, out, flagVars,
                   calls, crashed>>

WatchCloud ==
    /\ At("watcher", "waiting")
    /\ route # "none" /\ vpn
    /\ Goto("watcher", "capture")
    /\ UNCHANGED <<nodeVars, held, dialled, then, readVars, out, flagVars, vpn,
                   calls, crashed>>

Startup ==
    \/ StartAuth \/ Authenticated \/ WatchCloud
    \/ \E ok \in BOOLEAN : StartVpn(ok)
    \/ Rebuild("starter") \/ Rebuild("watcher")

HasSession == pc["starter"] \notin {"begin", "auth"}

-----------------------------------------------------------------------------
(* receiveFromServer: the signal, then the new node's event channel.       *)
TakeSignal ==
    /\ rebuilt /\ ~resub
    /\ rebuilt' = FALSE /\ resub' = TRUE
    /\ UNCHANGED <<nodeVars, jobVars, sub, out, flagVars, vpn, calls, crashed>>

Resubscribe ==
    /\ resub
    /\ sub' = sender /\ resub' = FALSE
    /\ UNCHANGED <<nodeVars, jobVars, rebuilt, out, flagVars, vpn, calls,
                   crashed>>

(* The writers: receiveAndForward checks the tunnel and the health flag,   *)
(* sendMavlinkKeepAlive only that there is a session.  Each then reads the *)
(* node under senderMu and writes to it outside the lock.  The writers do  *)
(* not touch each other's state, so one at a time is enough.               *)
MayWrite(by) ==
    CASE by = "forward"   -> vpn /\ healthy
      [] by = "keepalive" -> HasSession

BeginWrite(by) ==
    /\ out.by = "nobody" /\ MayWrite(by)
    /\ out' = [by |-> by, node |-> NoNode]
    /\ UNCHANGED <<nodeVars, jobVars, readVars, flagVars, vpn, calls, crashed>>

ReadSender ==
    /\ out.by # "nobody" /\ out.node = NoNode
    /\ out' = [out EXCEPT !.node = sender]
    /\ UNCHANGED <<nodeVars, jobVars, readVars, flagVars, vpn, calls, crashed>>

EndWrite ==
    /\ out.node # NoNode
    /\ out' = [by |-> "nobody", node |-> NoNode]
    /\ UNCHANGED <<nodeVars, jobVars, readVars, flagVars, vpn, calls, crashed>>

Write == (\E by \in Writers : BeginWrite(by)) \/ ReadSender \/ EndWrite

-----------------------------------------------------------------------------
(* The callbacks of SetAuthClient.  markConnected and markDisconnected     *)
(* start each in a goroutine of its own, so they run in any order.         *)
RunCallback(c) ==
    /\ c \in calls
    /\ calls' = calls \ {c}
    /\ healthy' = (c = "restored")
    /\ forceCheck' = (forceCheck \/ c = IF healthy THEN "network" ELSE "restored")
    /\ UNCHANGED <<nodeVars, jobVars, readVars, out, netVars, vpn, crashed>>

(* The auth client as the forwarder sees it: a session that exists is lost *)
(* for one of two causes, or confirmed by a refresh or a new login.        *)
Report(c) ==
    /\ HasSession /\ c \in Reports
    /\ calls' = calls \cup {c}
    /\ UNCHANGED <<nodeVars, jobVars, readVars, out, flagVars, vpn, crashed>>

Auth == \E c \in Causes : RunCallback(c) \/ Report(c)

(* The route table outside the process.                                    *)
RouteChanges ==
    /\ route' \in Egress \ {route}
    /\ UNCHANGED <<nodeVars, jobVars, readVars, out, flagVars, vpn, calls,
                   crashed>>

Next ==
    \/ /\ ~crashed
       /\ \/ (Monitor \/ Startup \/ TakeSignal \/ Resubscribe \/ Write \/ Auth)
             /\ UNCHANGED route
          \/ RouteChanges
    \/ crashed /\ UNCHANGED vars

Spec == Init /\ [][Next]_vars

(* Every goroutine of the process runs; the session, the routes and the    *)
(* writers' traffic are not assumed to do anything.                        *)
FairSpec ==
    /\ Spec
    /\ WF_vars(~crashed /\ Monitor /\ UNCHANGED route)
    /\ \A r \in {"starter", "watcher"} :
         WF_vars(~crashed /\ Rebuild(r) /\ UNCHANGED route)
    /\ WF_vars(~crashed /\ (TakeSignal \/ Resubscribe) /\ UNCHANGED route)
    /\ \A c \in Causes : WF_vars(~crashed /\ RunCallback(c) /\ UNCHANGED route)

-----------------------------------------------------------------------------
Replacing == {"create", "swap"}
Replaced == {"dial", "set", "signal"}
Pcs == Replacing \cup Replaced \cup
       {"begin", "auth", "vpn", "waiting", "idle", "ip", "capture", "close",
        "finish", "done"}

(* The shape of the state.                                                 *)
TypeOK ==
    /\ sender \in Nodes /\ sub \in Nodes
    /\ bind \in [Nodes -> Bindings \cup {"closed"}]
    /\ side \in Bindings
    /\ pc \in [Rebuilders -> Pcs] /\ then \in {"ip", "idle"}
    /\ held \in [Rebuilders -> Nodes \cup {NoNode}]
    /\ dialled \in [Rebuilders -> Bindings]
    /\ out \in [by : {"nobody", "forward", "keepalive"},
               node : Nodes \cup {NoNode}]
    /\ {rebuilt, resub, healthy, forceCheck} \subseteq BOOLEAN
    /\ {wasDown, hadIP, vpn, crashed} \subseteq BOOLEAN
    /\ route \in Egress /\ seenRoute \in Egress \cup {"none"}
    /\ calls \subseteq Causes

(* receiveFromServer is never left on the closed channel of a replaced     *)
(* node: it reads the current node, or a signal to re-subscribe is on its  *)
(* way, although signals are dropped when one is waiting and three         *)
(* goroutines replace the node (forwarder.go:1270-1273, 1628-1631).        *)
SubscribedOrSignalled ==
    \/ sub = sender \/ rebuilt \/ resub
    \/ \E r \in Rebuilders : pc[r] \in Replaced

(* There is never more than one open uplink node: no interleaving of the   *)
(* three rebuilders leaks a node, whose socket would give the server a     *)
(* second source port (sendMavlinkKeepAlive relies on there being one).    *)
OneUplink ==
    \A m, n \in Nodes : bind[m] # "closed" /\ bind[n] # "closed" => m = n

(* The writers' node is closed only while its replacement is being made:   *)
(* no rebuild ends with a closed senderNode, on which every write is lost  *)
(* without an error.                                                       *)
DeadOnlyWhileReplaced ==
    bind[sender] # "closed" \/ \E r \in Rebuilders : pc[r] \in Replacing

(* No node is closed twice, whoever rebuilds: gomavlib's Close panics the  *)
(* second time.                                                            *)
ClosedOnce == ~crashed

(* Once the tunnel is up no sender stays bound to the public endpoint,     *)
(* whoever dialled before it was up and installs the endpoint late: from   *)
(* some time on the side senders use the tunnel, and so does the sender    *)
(* whenever it is open.                                                    *)
MovesToTunnel ==
    vpn ~> [](crashed \/ (bind[sender] # "public" /\ side = "vpn"))

(* With the tunnel up an unhealthy uplink becomes healthy again, in        *)
(* whatever order the auth client's callbacks run.                         *)
HealthReturns == (vpn /\ ~healthy) ~> (healthy \/ crashed)
=============================================================================
