---------------------------- MODULE UplinkProofs -----------------------------
(***************************************************************************)
(* Proofs about Uplink for every set of routes, reports and writers, with  *)
(* or without failing dials: whatever the three rebuilders, the reader and *)
(* the callbacks do, in whatever order, there is at most one open sender   *)
(* node, the sender is closed only while somebody is replacing it, and the *)
(* reader is subscribed to it or about to be.                              *)
(***************************************************************************)
EXTENDS Uplink, TLAPS

(* What rebuilder r may rely on while it holds a node or owes one.  The    *)
(* node made by a rebuilder is open and nobody else knows it; while a      *)
(* replacement is being made the sender is closed.                         *)
Held ==
    /\ \A r \in Rebuilders : pc[r] = "close" => held[r] \in Nodes
    /\ \A r \in Rebuilders : pc[r] = "swap" =>
         held[r] \in Nodes /\ bind[held[r]] # "closed" /\ held[r] # sender
    /\ \A r \in Rebuilders : pc[r] \in Replacing => bind[sender] = "closed"
    /\ \A q, r \in Rebuilders :
         pc[q] = "close" /\ pc[r] = "swap" => held[q] # held[r]

(* At most one rebuilder is between Close and the swap, and every open     *)
(* node is the sender or the one that rebuilder made.                      *)
Owned ==
    /\ \A q, r \in Rebuilders : pc[q] \in Replacing /\ pc[r] \in Replacing => q = r
    /\ \A n \in Nodes : bind[n] # "closed" =>
         n = sender \/ \E r \in Rebuilders : pc[r] = "swap" /\ held[r] = n

(* The watcher does nothing before runAuthWhenReady starts it.             *)
Unstarted == pc["starter"] = "begin" => pc["watcher"] = "idle"

(* The inductive invariant.                                                *)
IInv == /\ TypeOK /\ Held /\ Owned /\ Unstarted
        /\ DeadOnlyWhileReplaced /\ SubscribedOrSignalled

(* The steps a rebuilder takes between reading and replacing the sender.   *)
Busy == {"close", "create", "swap"}

-----------------------------------------------------------------------------
(* A step that leaves the nodes alone and neither enters nor leaves the    *)
(* replacement of one keeps what the invariant says of the nodes.          *)
LEMMA QuietStep ==
    ASSUME Held, Owned, DeadOnlyWhileReplaced,
           UNCHANGED <<sender, bind, held>>,
           \A r \in Rebuilders :
             pc'[r] = pc[r] \/ (pc[r] \notin Busy /\ pc'[r] \notin Busy)
    PROVE  Held' /\ Owned' /\ DeadOnlyWhileReplaced'
<1>1. \A r \in Rebuilders :
        /\ pc'[r] = "close" <=> pc[r] = "close"
        /\ pc'[r] = "swap" <=> pc[r] = "swap"
        /\ pc'[r] \in Replacing <=> pc[r] \in Replacing
  BY DEF Busy, Replacing
<1>2. Held'
  BY <1>1 DEF Held
<1>3. Owned'
  BY <1>1 DEF Owned
<1>4. DeadOnlyWhileReplaced'
  BY <1>1 DEF DeadOnlyWhileReplaced
<1> QED  BY <1>2, <1>3, <1>4

(* A step that leaves the reader, the sender and the rebuilders that still *)
(* have to signal alone keeps the reader's guarantee.                      *)
LEMMA QuietReader ==
    ASSUME SubscribedOrSignalled, UNCHANGED <<sender, readVars>>,
           \A r \in Rebuilders : pc[r] \in Replaced => pc'[r] \in Replaced
    PROVE  SubscribedOrSignalled'
BY DEF SubscribedOrSignalled, readVars

(* The invariant holds when the forwarder has started.                     *)
LEMMA InitInv == Init => IInv
<1> SUFFICES ASSUME Init PROVE IInv
  OBVIOUS
<1> USE UplinkAssumption
<1>1. TypeOK
  <2>1. pc \in [Rebuilders -> Pcs]
    BY DEF Init, Rebuilders, Pcs
  <2>2. /\ bind \in [Nodes -> Bindings \cup {"closed"}] /\ side \in Bindings
        /\ held \in [Rebuilders -> Nodes \cup {NoNode}]
        /\ dialled \in [Rebuilders -> Bindings]
    BY DEF Init, Bindings
  <2>3. out \in [by : {"nobody", "forward", "keepalive"}, node : Nodes \cup {NoNode}]
    BY DEF Init
  <2> QED  BY <2>1, <2>2, <2>3 DEF Init, TypeOK
<1>2. \A r \in Rebuilders : pc[r] \in {"begin", "idle"}
  BY DEF Init
<1>3. Held
  BY <1>2 DEF Held, Replacing
<1>4. Owned
  BY <1>2 DEF Owned, Replacing, Init
<1>5. DeadOnlyWhileReplaced /\ SubscribedOrSignalled /\ Unstarted
  BY DEF Init, DeadOnlyWhileReplaced, SubscribedOrSignalled, Unstarted, Rebuilders
<1> QED  BY <1>1, <1>3, <1>4, <1>5 DEF IInv

-----------------------------------------------------------------------------
(* rebuildSender and RebindUplink, one step at a time, for whichever       *)
(* rebuilder runs them.                                                    *)
LEMMA RebuildInv ==
    ASSUME IInv, NEW r \in Rebuilders, Rebuild(r), UNCHANGED route
    PROVE  IInv'
<1> USE DEF IInv, nodeVars, readVars, flagVars, netVars
<1> DEFINE Node == Held' /\ Owned' /\ DeadOnlyWhileReplaced'
<1>0. pc \in [Rebuilders -> Pcs] /\ held \in [Rebuilders -> Nodes \cup {NoNode}]
  BY DEF TypeOK
<1>u. Unstarted'
  <2>1. /\ pc[r] \notin {"begin", "idle"}
        /\ \/ pc' = pc
           \/ \E here \in Pcs \ {"begin"} : pc' = [pc EXCEPT ![r] = here]
    BY DEF Rebuild, Capture, CloseOld, Create, Swap, DialSide, SetSide, Signal,
           At, Goto, Pcs, Replacing, Replaced
  <2> QED  BY <2>1, <1>0 DEF Unstarted, Rebuilders
<1> USE <1>u
<1>1. CASE Capture(r)
  <2>1. TypeOK'
    BY <1>1 DEF Capture, Goto, TypeOK, Pcs
  <2>2. /\ pc' = [pc EXCEPT ![r] = "close"] /\ pc[r] = "capture"
        /\ held' = [held EXCEPT ![r] = sender]
        /\ UNCHANGED <<sender, bind, readVars>>
    BY <1>1 DEF Capture, Goto, At
  <2>3. Node
    BY <2>2, <1>0 DEF Held, Owned, DeadOnlyWhileReplaced, Replacing, TypeOK
  <2>4. SubscribedOrSignalled'
    BY <2>2, <1>0, QuietReader DEF Replaced
  <2> QED  BY <2>1, <2>3, <2>4
<1>2. CASE CloseOld(r)
  <2>1. CASE bind[held[r]] = "closed"
    <3>1. TypeOK'
      BY <1>2, <2>1 DEF CloseOld, TypeOK
    <3>2. UNCHANGED <<sender, bind, held, pc, readVars>>
      BY <1>2, <2>1 DEF CloseOld
    <3> QED  BY <3>1, <3>2, QuietStep, QuietReader
  <2>2. CASE bind[held[r]] # "closed"
    <3>1. /\ pc' = [pc EXCEPT ![r] = "create"] /\ pc[r] = "close"
          /\ held' = [held EXCEPT ![r] = NoNode]
          /\ bind' = [bind EXCEPT ![held[r]] = "closed"]
          /\ UNCHANGED <<sender, readVars>>
      BY <1>2, <2>2 DEF CloseOld, Goto, At
    <3>2. TypeOK'
      BY <1>2, <2>2 DEF CloseOld, Goto, TypeOK, Pcs, Replacing, NoNode
    <3>3. held[r] = sender /\ \A q \in Rebuilders : pc[q] \notin Replacing
      BY <3>1, <2>2 DEF Held, Owned
    <3>4. bind'[sender] = "closed" /\ \A n \in Nodes : bind'[n] = "closed"
      BY <3>1, <3>3 DEF Owned, TypeOK, Replacing
    <3>5. Held'
      BY <3>1, <3>3, <3>4, <1>0 DEF Held, Replacing
    <3>6. Owned'
      BY <3>1, <3>3, <3>4, <1>0 DEF Owned, Replacing
    <3>7. DeadOnlyWhileReplaced'
      BY <3>1, <1>0 DEF DeadOnlyWhileReplaced, Replacing
    <3>8. SubscribedOrSignalled'
      BY <3>1, <1>0, QuietReader DEF Replaced
    <3> QED  BY <3>2, <3>5, <3>6, <3>7, <3>8
  <2> QED  BY <2>1, <2>2
<1>3. CASE Create(r)
  <2>1. PICK n \in Free, ep \in Endpoints :
          /\ bind' = [bind EXCEPT ![n] = ep]
          /\ held' = [held EXCEPT ![r] = n]
    BY <1>3 DEF Create
  <2>2. /\ pc' = [pc EXCEPT ![r] = "swap"] /\ pc[r] = "create"
        /\ UNCHANGED <<sender, readVars>>
    BY <1>3 DEF Create, Goto, At
  <2>3. /\ n \in Nodes /\ n # sender /\ \A q \in Rebuilders : held[q] # n
        /\ ep \in Bindings /\ ep # "closed"
    BY DEF Free, InUse, Endpoints, Bindings
  <2>4. TypeOK'
    BY <1>3, <2>1, <2>3 DEF Create, Goto, TypeOK, Pcs, Replacing
  <2>5. \A q \in Rebuilders : q # r => pc[q] \notin Replacing /\ pc'[q] = pc[q]
    BY <2>2, <1>0 DEF Owned, Replacing
  <2>6. bind'[n] = ep /\ \A m \in Nodes : m # n => bind'[m] = bind[m]
    BY <2>1, <2>3 DEF TypeOK
  <2>7. held'[r] = n /\ \A q \in Rebuilders : q # r => held'[q] = held[q]
    BY <2>1, <1>0
  <2>8. sender \in Nodes /\ bind[sender] = "closed"
    BY <2>2 DEF Held, TypeOK, Replacing
  <2>9. Held'
    BY <2>2, <2>3, <2>5, <2>6, <2>7, <2>8, <1>0 DEF Held, Replacing
  <2>10. Owned'
    BY <2>2, <2>3, <2>5, <2>6, <2>7, <2>8, <1>0 DEF Owned, Replacing
  <2>11. DeadOnlyWhileReplaced'
    BY <2>2, <1>0 DEF DeadOnlyWhileReplaced, Replacing
  <2>12. SubscribedOrSignalled'
    BY <2>2, <1>0, QuietReader DEF Replaced
  <2> QED  BY <2>4, <2>9, <2>10, <2>11, <2>12
<1>4. CASE Swap(r)
  <2>1. /\ pc' = [pc EXCEPT ![r] = "dial"] /\ pc[r] = "swap"
        /\ held' = [held EXCEPT ![r] = NoNode]
        /\ sender' = held[r] /\ UNCHANGED <<bind, readVars>>
    BY <1>4 DEF Swap, Goto, At
  <2>2. held[r] \in Nodes /\ bind[held[r]] # "closed" /\ bind[sender] = "closed"
    BY <2>1 DEF Held, Replacing
  <2>3. TypeOK'
    BY <1>4, <2>2 DEF Swap, Goto, TypeOK, Pcs, Replaced, NoNode
  <2>4. \A q \in Rebuilders : pc'[q] \notin Replacing
    BY <2>1, <1>0 DEF Owned, Replacing
  <2>5. Held'
    BY <2>1, <2>4, <1>0 DEF Held, Replacing
  <2>6. Owned'
    <3>1. \A n \in Nodes : bind'[n] # "closed" => n = sender'
      BY <2>1, <2>2 DEF Owned, Replacing
    <3> QED  BY <3>1, <2>4 DEF Owned
  <2>7. DeadOnlyWhileReplaced'
    BY <2>1, <2>2 DEF DeadOnlyWhileReplaced
  <2>8. SubscribedOrSignalled'
    BY <2>1, <1>0 DEF SubscribedOrSignalled, Replaced
  <2> QED  BY <2>3, <2>5, <2>6, <2>7, <2>8
<1>5. CASE DialSide(r)
  <2>1. TypeOK'
    BY <1>5 DEF DialSide, Goto, TypeOK, Pcs, Replaced, Endpoints
  <2>2. /\ pc' = [pc EXCEPT ![r] = "set"] /\ pc[r] = "dial"
        /\ UNCHANGED <<sender, bind, held, readVars>>
    BY <1>5 DEF DialSide, Goto, At
  <2> QED  BY <2>1, <2>2, <1>0, QuietStep, QuietReader DEF Busy, Replaced
<1>6. CASE SetSide(r)
  <2>1. TypeOK'
    BY <1>6 DEF SetSide, Goto, TypeOK, Pcs, Replaced, Bindings
  <2>2. /\ pc' = [pc EXCEPT ![r] = "signal"] /\ pc[r] = "set"
        /\ UNCHANGED <<sender, bind, held, readVars>>
    BY <1>6 DEF SetSide, Goto, At
  <2> QED  BY <2>1, <2>2, <1>0, QuietStep, QuietReader DEF Busy, Replaced
<1>7. CASE Signal(r)
  <2>1. TypeOK'
    BY <1>7 DEF Signal, Goto, TypeOK, Pcs
  <2>2. /\ pc' = [pc EXCEPT ![r] = IF r = "monitor" THEN "finish" ELSE "done"]
        /\ pc[r] = "signal" /\ rebuilt'
        /\ UNCHANGED <<sender, bind, held>>
    BY <1>7 DEF Signal, Goto, At
  <2>3. Node
    BY <2>2, <1>0, QuietStep DEF Busy
  <2>4. SubscribedOrSignalled'
    BY <2>2 DEF SubscribedOrSignalled
  <2> QED  BY <2>1, <2>3, <2>4
<1> QED  BY <1>1, <1>2, <1>3, <1>4, <1>5, <1>6, <1>7 DEF Rebuild

-----------------------------------------------------------------------------
(* The monitor outside a rebuild and the startup goroutines move no node.  *)
LEMMA MonitorInv ==
    ASSUME IInv, Monitor, UNCHANGED route
    PROVE  IInv'
<1> USE DEF IInv, nodeVars, readVars, flagVars, netVars
<1>0. pc \in [Rebuilders -> Pcs] /\ "monitor" \in Rebuilders
  BY DEF TypeOK, Rebuilders
<1>1. CASE \E forced \in BOOLEAN : CheckEgress(forced)
  <2>1. /\ pc["monitor"] = "idle"
        /\ \E here \in {"ip", "capture"} : pc' = [pc EXCEPT !["monitor"] = here]
        /\ UNCHANGED <<sender, bind, held, readVars>>
    BY <1>1 DEF CheckEgress, MonitorGoes, MonitorRebuilds, Goto, At
  <2>2. forceCheck' \in BOOLEAN /\ seenRoute' \in Egress \cup {"none"}
    BY <1>1 DEF CheckEgress, TypeOK
  <2>3. /\ then' \in {"ip", "idle"}
        /\ UNCHANGED <<nodeVars, held, dialled, readVars, out, healthy, wasDown,
                       hadIP, vpn, calls, crashed>>
    BY <1>1 DEF CheckEgress, MonitorGoes, MonitorRebuilds, TypeOK
  <2>4. pc' \in [Rebuilders -> Pcs]
    BY <2>1, <1>0 DEF Pcs
  <2>5. TypeOK'
    BY <2>2, <2>3, <2>4 DEF TypeOK
  <2> QED  BY <2>1, <2>5, <1>0, QuietStep, QuietReader DEF Busy, Replaced, Unstarted
<1>2. CASE CheckIP
  <2>1. /\ pc["monitor"] = "ip"
        /\ \E here \in {"idle", "capture"} : pc' = [pc EXCEPT !["monitor"] = here]
        /\ UNCHANGED <<sender, bind, held, readVars>>
    BY <1>2 DEF CheckIP, MonitorGoes, MonitorRebuilds, Goto, At
  <2>2. TypeOK'
    <3>1. /\ then' \in {"ip", "idle"}
          /\ UNCHANGED <<nodeVars, held, dialled, readVars, out, forceCheck,
                         seenRoute, vpn, calls, crashed>>
      BY <1>2 DEF CheckIP, MonitorGoes, MonitorRebuilds, TypeOK
    <3>2. pc' \in [Rebuilders -> Pcs]
      BY <2>1, <1>0 DEF Pcs
    <3>3. {healthy', wasDown', hadIP'} \subseteq BOOLEAN
      BY <1>2 DEF CheckIP, TypeOK
    <3> QED  BY <3>1, <3>2, <3>3 DEF TypeOK
  <2> QED  BY <2>1, <2>2, <1>0, QuietStep, QuietReader DEF Busy, Replaced, Unstarted
<1>3. CASE Rebuild("monitor")
  BY <1>0, <1>3, RebuildInv
<1>4. CASE FinishRebuild
  <2>1. /\ pc["monitor"] = "finish" /\ then \in {"ip", "idle"}
        /\ pc' = [pc EXCEPT !["monitor"] = then]
        /\ UNCHANGED <<sender, bind, held, readVars>>
    BY <1>4 DEF FinishRebuild, Goto, At, TypeOK
  <2>2. TypeOK'
    BY <1>4, <2>1 DEF FinishRebuild, TypeOK, Pcs
  <2> QED  BY <2>1, <2>2, <1>0, QuietStep, QuietReader DEF Busy, Replaced, Unstarted
<1> QED  BY <1>1, <1>2, <1>3, <1>4 DEF Monitor

LEMMA StartupInv ==
    ASSUME IInv, Startup, UNCHANGED route
    PROVE  IInv'
<1> USE DEF IInv, nodeVars, readVars, flagVars, netVars
<1>0. pc \in [Rebuilders -> Pcs] /\ {"starter", "watcher"} \subseteq Rebuilders
  BY DEF TypeOK, Rebuilders
<1>1. CASE StartAuth
  <2>1. /\ pc["starter"] = "begin"
        /\ \E here \in {"waiting", "done"} :
             pc' = [pc EXCEPT !["starter"] = "auth", !["watcher"] = here]
        /\ UNCHANGED <<sender, bind, held, readVars>>
    BY <1>1 DEF StartAuth, At
  <2>2. TypeOK'
    BY <1>1, <2>1 DEF StartAuth, TypeOK, Pcs
  <2> QED  BY <2>1, <2>2, <1>0, QuietStep, QuietReader DEF Busy, Replaced, Unstarted
<1>2. CASE Authenticated
  <2>1. /\ pc["starter"] = "auth" /\ pc' = [pc EXCEPT !["starter"] = "vpn"]
        /\ UNCHANGED <<sender, bind, held, readVars>>
    BY <1>2 DEF Authenticated, At, Goto
  <2>2. TypeOK'
    BY <1>2, <2>1 DEF Authenticated, TypeOK, Pcs, Causes
  <2> QED  BY <2>1, <2>2, <1>0, QuietStep, QuietReader DEF Busy, Replaced, Unstarted
<1>3. CASE WatchCloud
  <2>1. /\ pc["watcher"] = "waiting" /\ pc' = [pc EXCEPT !["watcher"] = "capture"]
        /\ UNCHANGED <<sender, bind, held, readVars>>
    BY <1>3 DEF WatchCloud, At, Goto
  <2>2. TypeOK'
    BY <1>3, <2>1 DEF WatchCloud, TypeOK, Pcs
  <2> QED  BY <2>1, <2>2, <1>0, QuietStep, QuietReader DEF Busy, Replaced, Unstarted
<1>4. CASE \E ok \in BOOLEAN : StartVpn(ok)
  <2>1. /\ pc["starter"] = "vpn"
        /\ \E here \in {"capture", "done"} : pc' = [pc EXCEPT !["starter"] = here]
        /\ UNCHANGED <<sender, bind, held, readVars>>
    BY <1>4 DEF StartVpn, At, Goto
  <2>2. TypeOK'
    <3>1. vpn' \in BOOLEAN
      BY <1>4 DEF StartVpn
    <3>2. UNCHANGED <<nodeVars, held, dialled, then, readVars, out, flagVars,
                      calls, crashed>>
      BY <1>4 DEF StartVpn
    <3>3. pc' \in [Rebuilders -> Pcs]
      BY <2>1, <1>0 DEF Pcs
    <3> QED  BY <3>1, <3>2, <3>3 DEF TypeOK
  <2> QED  BY <2>1, <2>2, <1>0, QuietStep, QuietReader DEF Busy, Replaced, Unstarted
<1>5. CASE Rebuild("starter") \/ Rebuild("watcher")
  BY <1>0, <1>5, RebuildInv
<1> QED  BY <1>1, <1>2, <1>3, <1>4, <1>5 DEF Startup

(* Every step of the process or of its surroundings keeps the invariant.   *)
LEMMA NextInv == IInv /\ [Next]_vars => IInv'
<1> SUFFICES ASSUME IInv, [Next]_vars PROVE IInv'
  OBVIOUS
<1> USE DEF IInv, nodeVars, readVars, flagVars, netVars, jobVars, Unstarted
<1>1. CASE Monitor /\ UNCHANGED route
  BY <1>1, MonitorInv
<1>2. CASE Startup /\ UNCHANGED route
  BY <1>2, StartupInv
<1>3. CASE TakeSignal /\ UNCHANGED route
  <2>1. TypeOK'
    BY <1>3 DEF TakeSignal, TypeOK
  <2>2. SubscribedOrSignalled'
    BY <1>3 DEF TakeSignal, SubscribedOrSignalled
  <2> QED  BY <1>3, <2>1, <2>2, QuietStep DEF TakeSignal
<1>4. CASE Resubscribe /\ UNCHANGED route
  <2>1. TypeOK'
    BY <1>4 DEF Resubscribe, TypeOK
  <2>2. SubscribedOrSignalled'
    BY <1>4 DEF Resubscribe, SubscribedOrSignalled
  <2> QED  BY <1>4, <2>1, <2>2, QuietStep DEF Resubscribe
<1>5. CASE Write /\ UNCHANGED route
  <2>1. out' \in [by : {"nobody", "forward", "keepalive"}, node : Nodes \cup {NoNode}]
    BY <1>5, UplinkAssumption DEF Write, BeginWrite, ReadSender, EndWrite, TypeOK
  <2>2. UNCHANGED <<nodeVars, jobVars, readVars, flagVars, vpn, calls, crashed, route>>
    BY <1>5 DEF Write, BeginWrite, ReadSender, EndWrite
  <2>3. TypeOK'
    BY <2>1, <2>2 DEF TypeOK
  <2> QED  BY <2>2, <2>3, QuietStep, QuietReader
<1>6. CASE Auth /\ UNCHANGED route
  <2>1. /\ UNCHANGED <<nodeVars, jobVars, readVars, out, netVars, vpn, crashed, route>>
        /\ calls' \subseteq Causes /\ {healthy', forceCheck'} \subseteq BOOLEAN
    BY <1>6 DEF Auth, RunCallback, Report, TypeOK
  <2>2. TypeOK'
    BY <2>1 DEF TypeOK
  <2> QED  BY <2>1, <2>2, QuietStep, QuietReader
<1>7. CASE RouteChanges
  <2>1. TypeOK'
    BY <1>7 DEF RouteChanges, TypeOK
  <2> QED  BY <1>7, <2>1, QuietStep, QuietReader DEF RouteChanges
<1>8. CASE UNCHANGED vars
  <2>1. TypeOK'
    BY <1>8 DEF vars, TypeOK
  <2> QED  BY <1>8, <2>1, QuietStep, QuietReader DEF vars
<1> QED  BY <1>1, <1>2, <1>3, <1>4, <1>5, <1>6, <1>7, <1>8 DEF Next

LEMMA Invariance == Spec => []IInv
BY InitInv, NextInv, PTL DEF Spec

-----------------------------------------------------------------------------
(* The state keeps its shape: in particular senderNode, and the node a     *)
(* rebuilder is about to close, is always a node.                          *)
THEOREM UplinkTypeCorrect == Spec => []TypeOK
BY Invariance, PTL DEF IInv

(* receiveFromServer is subscribed to the current node or will be told to  *)
(* re-subscribe, for any number of rebuilds by the monitor, the startup    *)
(* goroutine and the cloud watcher.                                        *)
THEOREM ReaderFollows == Spec => []SubscribedOrSignalled
BY Invariance, PTL DEF IInv

(* The sender node is closed only while a rebuilder is replacing it.       *)
THEOREM SenderAlive == Spec => []DeadOnlyWhileReplaced
BY Invariance, PTL DEF IInv

(* No interleaving of the rebuilders leaves two uplink nodes open.         *)
THEOREM OneUplinkNode == Spec => []OneUplink
<1>1. IInv => OneUplink
  BY DEF IInv, Held, Owned, OneUplink, Replacing
<1> QED  BY <1>1, Invariance, PTL
=============================================================================
