---------------------------- MODULE ParamBridge ----------------------------
(***************************************************************************)
(* The parameter bridge of the web console (MAVLinkBridge in               *)
(* src/web/server.go) between the frames receiveAndForward reads from the  *)
(* autopilot and the commands that go back to it: the console's own and    *)
(* those receiveFromServer relays from the cloud.                          *)
(*                                                                         *)
(* HTTP handlers list or set parameters.  The autopilot acts on a request  *)
(* when it is written and its PARAM_VALUE frames wait on the link (`up`);  *)
(* the forwarder hands them to a channel of fixed capacity (`ch`); one     *)
(* goroutine moves them into the cache the handlers poll.                  *)
(***************************************************************************)
EXTENDS Naturals, Sequences, FiniteSets

CONSTANTS
    Names,      \* the parameters of the autopilot
    RealNames,  \* those of type REAL32; PX4 has no types but this and INT32
    Values,     \* the values a parameter may take
    First,      \* the value every parameter starts with
    Handlers,   \* the HTTP requests that can be served at the same time
    ChanCap,    \* capacity of paramValueCh (100)
    MaxUp,      \* bound: frames on the link from the autopilot
    MaxCalls    \* bound: requests and foreign frames in a behaviour

ASSUME ParamAssumption ==
    /\ IsFiniteSet(Names) /\ Names # {} /\ RealNames \subseteq Names
    /\ First \in Values
    /\ ChanCap \in Nat \ {0} /\ MaxUp \in Nat \ {0} /\ MaxCalls \in Nat

VARIABLES
    px4,        \* the wire form of each parameter of the autopilot
    listing,    \* the names a PARAM_REQUEST_LIST still has to stream
    up,         \* frames on the way from the autopilot to receiveAndForward
    down,       \* the message under way from the cloud
    ch,         \* paramValueCh
    cache,      \* paramCache, None where a name has no entry
    received,   \* paramReceived
    total,      \* paramTotal
    loading,    \* paramLoading
    pixhawkSysID, \* bridge.pixhawkSysID, 0 until a heartbeat came (connected)
    cloud,      \* the kinds of our own frames the cloud has seen
    pc,         \* where each handler is
    req,        \* the set request of a handler
    fresh,      \* lastUpdate.After(startTime), for each waiting handler
    got,        \* the value the handler answers with
    calls,      \* requests and foreign frames so far
    lost,       \* history: a frame was lost or a full channel dropped it
    quiet,      \* history: nothing but this handler's set could cause a frame
    returned    \* history: kinds of our own frames sent back to the autopilot

bridge == <<cache, received, total, loading>>
handlers == <<pc, req, fresh, got, quiet>>
history == <<calls, lost, returned>>
vars == <<px4, listing, up, down, ch, bridge, pixhawkSysID, cloud, handlers, history>>

None == "none"
Types == {"int", "real"}
PixhawkID == 1
GcsID == 255

TypeOf(n) == IF n \in RealNames THEN "real" ELSE "int"

(* SetParameter puts the bits of an int32 into the float of the message    *)
(* for the integer types and the number itself for the others.             *)
Encode(v, t) == <<IF t = "int" THEN "bits" ELSE "number", v>>

(* processParamValues reads the float by the type the autopilot reports: a *)
(* mismatch of form and type would give some other number.                 *)
Decode(w, t) == IF w[1] = (IF t = "int" THEN "bits" ELSE "number")
                THEN w[2] ELSE "garbled"

(* A request for no particular type is sent as INT32 (getMavParamType).    *)
getMavParamType(s) == IF s \in {"FLOAT", "float", "REAL32"} THEN "real" ELSE "int"
TypeNames == {"float", "other"}

Heartbeat(s) == [sys |-> s, kind |-> "heartbeat", name |-> None, value |-> None]
ParamValue(s, n, w) == [sys |-> s, kind |-> "param", name |-> n, value |-> w]

Idle(h) == pc[h] = "idle"
Connected == pixhawkSysID # 0
Called == calls < MaxCalls /\ calls' = calls + 1

(* Nobody else has anything under way that makes the autopilot send a      *)
(* PARAM_VALUE.                                                            *)
Undisturbed(h) == /\ up = <<>> /\ ch = <<>> /\ listing = {}
                  /\ \A g \in Handlers \ {h} : Idle(g)
Disturb(h) == [g \in Handlers |-> IF g = h THEN Undisturbed(h) ELSE FALSE]

Init ==
    /\ px4 = [n \in Names |-> Encode(First, TypeOf(n))]
    /\ listing = {} /\ up = <<>> /\ down = <<>> /\ ch = <<>>
    /\ cache = [n \in Names |-> None]
    /\ received = 0 /\ total = 0 /\ loading = FALSE
    /\ pixhawkSysID = 0 /\ cloud = {}
    /\ pc = [h \in Handlers |-> "idle"]
    /\ req = [h \in Handlers |-> <<>>]
    /\ fresh = [h \in Handlers |-> FALSE]
    /\ got = [h \in Handlers |-> None]
    /\ quiet = [h \in Handlers |-> FALSE]
    /\ calls = 0 /\ lost = FALSE /\ returned = {}

-----------------------------------------------------------------------------
(* The autopilot and the link to it (external).                            *)

(* PX4 takes a PARAM_SET whose type is the parameter's and reports the new *)
(* value; it ignores one of another type.                                  *)
TakeSet(n, w) ==
    IF w = Encode(w[2], TypeOf(n))
    THEN /\ Len(up) < MaxUp
         /\ px4' = [px4 EXCEPT ![n] = w]
         /\ up' = Append(up, ParamValue(PixhawkID, n, w))
    ELSE UNCHANGED <<px4, up>>

(* PX4 streams one more parameter of the list it was asked for.            *)
Px4Stream ==
    /\ Len(up) < MaxUp
    /\ \E n \in listing :
        /\ listing' = listing \ {n}
        /\ up' = Append(up, ParamValue(PixhawkID, n, px4[n]))
    /\ UNCHANGED <<px4, down, ch, bridge, pixhawkSysID, cloud, handlers, history>>

(* PX4 sends its heartbeat; only the ones at the start are of interest.    *)
Px4Heartbeat ==
    /\ ~Connected /\ up = <<>>
    /\ up' = Append(up, Heartbeat(PixhawkID))
    /\ UNCHANGED <<px4, listing, down, ch, bridge, pixhawkSysID, cloud, handlers, history>>

(* A ground station or simulator (system 255) on the same network sends    *)
(* frames of its own, with values that are not the autopilot's.            *)
GcsFrame ==
    /\ Called /\ Len(up) < MaxUp
    /\ \E n \in Names :
           up' = Append(up, ParamValue(GcsID, n, Encode("foreign", TypeOf(n))))
    /\ UNCHANGED <<px4, listing, down, ch, bridge, pixhawkSysID, cloud, handlers, lost, returned>>

(* The link loses a frame.                                                 *)
LinkLoss ==
    /\ up # <<>>
    /\ up' = Tail(up)
    /\ lost' = TRUE
    /\ UNCHANGED <<px4, listing, down, ch, bridge, pixhawkSysID, cloud, handlers, calls, returned>>

-----------------------------------------------------------------------------
(* receiveAndForward on one frame, as far as the console is concerned.     *)

(* HandleParamValue: a full channel skips the message.                     *)
HandleParamValueUncapped(f) == ch' = Append(ch, f) /\ UNCHANGED lost

HandleParamValue(f) ==
    IF Len(ch) < ChanCap
    THEN ch' = Append(ch, f) /\ UNCHANGED lost
    ELSE lost' = TRUE /\ UNCHANGED ch

(* HandleHeartbeat keeps the system ID of the first heartbeat.             *)
HandleHeartbeat(s) == pixhawkSysID' = IF Connected THEN pixhawkSysID ELSE s

(* Frames of system 255 are rejected.  A heartbeat connects the console, a *)
(* PARAM_VALUE goes to the bridge; then the frame goes on to the cloud if  *)
(* a heartbeat has been seen.                                              *)
receiveAndForwardTrusting ==
    /\ up # <<>>
    /\ up' = Tail(up)
    /\ LET f == Head(up) IN
        /\ IF f.kind = "heartbeat" THEN HandleHeartbeat(f.sys) ELSE UNCHANGED pixhawkSysID
        /\ IF f.kind = "param" THEN HandleParamValue(f) ELSE UNCHANGED <<ch, lost>>
        /\ cloud' = IF pixhawkSysID' # 0 THEN cloud \cup {f.kind} ELSE cloud
    /\ UNCHANGED <<px4, listing, down, bridge, handlers, calls, returned>>

receiveAndForward ==
    /\ up # <<>>
    /\ up' = Tail(up)
    /\ LET f == Head(up) IN
        IF f.sys = GcsID
        THEN UNCHANGED <<ch, lost, pixhawkSysID, cloud>>
        ELSE /\ IF f.kind = "heartbeat" THEN HandleHeartbeat(f.sys) ELSE UNCHANGED pixhawkSysID
             /\ IF f.kind = "param" THEN HandleParamValue(f) ELSE UNCHANGED <<ch, lost>>
             /\ cloud' = IF pixhawkSysID' # 0 THEN cloud \cup {f.kind} ELSE cloud
    /\ UNCHANGED <<px4, listing, down, bridge, handlers, calls, returned>>

(* The cloud (external) sends a PARAM_SET of its own (system 255) or       *)
(* reflects a frame it was sent by us; one message at a time is under way. *)
CloudSends ==
    /\ down = <<>>
    /\ \/ \E k \in cloud : down' = <<[sys |-> PixhawkID, kind |-> k]>> /\ UNCHANGED calls
       \/ /\ Called
          /\ \E n \in Names, v \in Values :
                down' = <<[sys |-> GcsID, kind |-> "set", name |-> n, value |-> v]>>
    /\ UNCHANGED <<px4, listing, up, ch, bridge, pixhawkSysID, cloud, handlers, lost, returned>>

(* What receiveFromServer drops: frames with the autopilot's own system    *)
(* ID, once that is known, and telemetry whoever sent it.                  *)
DropsTelemetryOnly(m) == m.kind = "heartbeat"

Drops(m) ==
    \/ Connected /\ m.sys = pixhawkSysID
    \/ m.kind = "heartbeat"

receiveFromServer ==
    /\ down # <<>>
    /\ down' = <<>>
    /\ LET m == Head(down) IN
        IF Drops(m) THEN UNCHANGED <<px4, up, quiet, returned>>
        ELSE IF m.kind = "set"
        THEN /\ TakeSet(m.name, Encode(m.value, TypeOf(m.name)))
             /\ quiet' = [g \in Handlers |-> FALSE]
             /\ UNCHANGED returned
        ELSE returned' = returned \cup {m.kind} /\ UNCHANGED <<px4, up, quiet>>
    /\ UNCHANGED <<listing, ch, bridge, pixhawkSysID, cloud, pc, req, fresh, got, calls, lost>>

-----------------------------------------------------------------------------
(* processParamValues: the goroutine that fills the cache.  The update     *)
(* time it notes is what every waiting handler looks at, whatever the      *)
(* parameter.                                                              *)
processCounting ==
    /\ ch # <<>>
    /\ ch' = Tail(ch)
    /\ LET f == Head(ch) IN
        cache' = [cache EXCEPT ![f.name] = Decode(f.value, TypeOf(f.name))]
    /\ total' = Cardinality(Names)
    /\ received' = received + 1
    /\ loading' = (loading /\ received' < total')
    /\ fresh' = [h \in Handlers |-> fresh[h] \/ pc[h] = "waiting"]
    /\ UNCHANGED <<px4, listing, up, down, pixhawkSysID, cloud, pc, req, got, quiet, history>>

Cached(c) == {n \in Names : c[n] # None}

processParamValues ==
    /\ ch # <<>>
    /\ ch' = Tail(ch)
    /\ LET f == Head(ch) IN
        cache' = [cache EXCEPT ![f.name] = Decode(f.value, TypeOf(f.name))]
    /\ total' = Cardinality(Names)
    /\ received' = Cardinality(Cached(cache'))
    /\ loading' = (loading /\ received' < total')
    /\ fresh' = [h \in Handlers |-> fresh[h] \/ pc[h] = "waiting"]
    /\ UNCHANGED <<px4, listing, up, down, pixhawkSysID, cloud, pc, req, got, quiet, history>>

(* RequestParameterList clears the cache under the lock, then writes.      *)
ClearCache ==
    /\ cache' = [n \in Names |-> None]
    /\ received' = 0 /\ total' = 0
    /\ loading' = TRUE

RequestParameterList(h) ==
    /\ Idle(h) /\ Connected /\ Called
    /\ ClearCache
    /\ pc' = [pc EXCEPT ![h] = "listing"]
    /\ quiet' = Disturb(h)
    /\ UNCHANGED <<px4, listing, up, down, ch, pixhawkSysID, cloud, req, fresh, got, lost, returned>>

(* The write reaches PX4, which starts the list over; or is lost on the    *)
(* link; or fails, and then loading is over.                               *)
listWrittenKeepsLoading(h) ==
    /\ pc[h] = "listing"
    /\ \/ listing' = Names /\ UNCHANGED lost
       \/ lost' = TRUE /\ UNCHANGED listing
       \/ UNCHANGED <<listing, lost>>
    /\ pc' = [pc EXCEPT ![h] = "idle"]
    /\ UNCHANGED <<px4, up, down, ch, bridge, pixhawkSysID, cloud, req, fresh, got, quiet, calls, returned>>

listWritten(h) ==
    /\ pc[h] = "listing"
    /\ \/ listing' = Names /\ UNCHANGED <<lost, bridge>>
       \/ lost' = TRUE /\ UNCHANGED <<listing, bridge>>
       \/ loading' = FALSE /\ UNCHANGED <<listing, lost, cache, received, total>>
    /\ pc' = [pc EXCEPT ![h] = "idle"]
    /\ UNCHANGED <<px4, up, down, ch, pixhawkSysID, cloud, req, fresh, got, quiet, calls, returned>>

(* SetParameter writes a PARAM_SET, which may get lost on the link.  (If   *)
(* the write fails the handler answers so at once and nothing changes.)    *)
SetParameter(h) ==
    /\ Idle(h) /\ Connected /\ Called
    /\ \E n \in Names, v \in Values, s \in TypeNames :
        /\ req' = [req EXCEPT ![h] = <<n, v>>]
        /\ \/ TakeSet(n, Encode(v, getMavParamType(s)))
           \/ UNCHANGED <<px4, up>>
    /\ pc' = [pc EXCEPT ![h] = "sent"]
    /\ quiet' = Disturb(h)
    /\ UNCHANGED <<listing, down, ch, bridge, pixhawkSysID, cloud, fresh, got, lost, returned>>

(* waitForParamResponse notes the time only after the write.               *)
waitForParamResponse(h) ==
    /\ pc[h] = "sent"
    /\ pc' = [pc EXCEPT ![h] = "waiting"]
    /\ fresh' = [fresh EXCEPT ![h] = FALSE]
    /\ UNCHANGED <<px4, listing, up, down, ch, bridge, pixhawkSysID, cloud, req, got, quiet, history>>

(* A tick of the poll finds an entry for the name, and an update since.    *)
pollAnyEntry(h) ==
    /\ pc[h] = "waiting"
    /\ cache[req[h][1]] # None
    /\ got' = [got EXCEPT ![h] = cache[req[h][1]]]
    /\ pc' = [pc EXCEPT ![h] = "success"]
    /\ UNCHANGED <<px4, listing, up, down, ch, bridge, pixhawkSysID, cloud, req, fresh, quiet, history>>

poll(h) ==
    /\ pc[h] = "waiting"
    /\ cache[req[h][1]] # None /\ fresh[h]
    /\ got' = [got EXCEPT ![h] = cache[req[h][1]]]
    /\ pc' = [pc EXCEPT ![h] = "success"]
    /\ UNCHANGED <<px4, listing, up, down, ch, bridge, pixhawkSysID, cloud, req, fresh, quiet, history>>

(* The handler answers: a success, or a failure after responseTimeout.     *)
answer(h) ==
    /\ pc[h] \in {"success", "waiting"}
    /\ pc' = [pc EXCEPT ![h] = "idle"]
    /\ req' = [req EXCEPT ![h] = <<>>]
    /\ fresh' = [fresh EXCEPT ![h] = FALSE]
    /\ got' = [got EXCEPT ![h] = None]
    /\ quiet' = [quiet EXCEPT ![h] = FALSE]
    /\ UNCHANGED <<px4, listing, up, down, ch, bridge, pixhawkSysID, cloud, history>>

Next ==
    \/ Px4Stream
    \/ Px4Heartbeat
    \/ GcsFrame
    \/ LinkLoss
    \/ receiveAndForward
    \/ CloudSends
    \/ receiveFromServer
    \/ processParamValues
    \/ \E h \in Handlers : RequestParameterList(h)
    \/ \E h \in Handlers : listWritten(h)
    \/ \E h \in Handlers : SetParameter(h)
    \/ \E h \in Handlers : waitForParamResponse(h)
    \/ \E h \in Handlers : poll(h)
    \/ \E h \in Handlers : answer(h)

Spec == Init /\ [][Next]_vars

(* The goroutines of the forwarder and of the bridge keep running, a       *)
(* handler that cleared the cache goes on to its write, and an autopilot   *)
(* that was asked for the list goes on sending it.                         *)
FairSpec ==
    /\ Spec
    /\ WF_vars(Px4Stream)
    /\ WF_vars(receiveAndForward)
    /\ WF_vars(processParamValues)
    /\ \A h \in Handlers : WF_vars(listWritten(h))

-----------------------------------------------------------------------------
TypeOK ==
    /\ px4 \in [Names -> {"bits", "number"} \X Values]
    /\ listing \subseteq Names
    /\ Len(up) <= MaxUp /\ Len(down) <= 1 /\ Len(ch) <= ChanCap
    /\ cache \in [Names -> Values \cup {None, "garbled", "foreign"}]
    /\ received \in 0..Cardinality(Names) /\ total \in {0, Cardinality(Names)}
    /\ loading \in BOOLEAN /\ lost \in BOOLEAN
    /\ pixhawkSysID \in 0..255
    /\ pc \in [Handlers -> {"idle", "listing", "sent", "waiting", "success"}]
    /\ fresh \in [Handlers -> BOOLEAN] /\ quiet \in [Handlers -> BOOLEAN]
    /\ calls \in 0..MaxCalls

(* The cache catches up: when no frame was lost and none is on its way,    *)
(* every entry holds the value the autopilot has, in spite of sets by the  *)
(* console and by the cloud that overlap a list being streamed, and of     *)
(* other systems' PARAM_VALUE frames on the same link.                     *)
CacheCoherent ==
    ~lost /\ up = <<>> /\ ch = <<>> =>
        \A n \in Cached(cache) : cache[n] = Decode(px4[n], TypeOf(n))

(* processParamValues ends the loading only with every parameter in the    *)
(* cache: reports of sets that arrive during the list, and a second list   *)
(* request that clears the cache half-way, do not make it end early.       *)
LoadedIsComplete ==
    [][ch # <<>> /\ ch' = Tail(ch) /\ loading /\ ~loading' => Cached(cache') = Names]_vars

(* A loading that RequestParameterList began is over at some time unless a *)
(* frame is lost: there is no order of the handlers' clearing and writing, *)
(* the stream and the goroutine in which it waits for entries that were    *)
(* already cleared again.                                                  *)
LoadingEnds == loading ~> (~loading \/ lost)

(* While nothing else makes the autopilot report a parameter, a set that   *)
(* is answered with "successfully set" was taken, and the answer carries   *)
(* the value that was asked for: an old entry of the cache is not a        *)
(* confirmation.                                                           *)
LoneSetTaken ==
    \A h \in Handlers : pc[h] = "success" /\ quiet[h] =>
        LET n == req[h][1] IN
        got[h] = req[h][2] /\ px4[n] = Encode(req[h][2], TypeOf(n))

(* No frame of the autopilot that the cloud reflects is written back to    *)
(* it, before or after the first heartbeat (the loop prevention of         *)
(* receiveFromServer): nothing of ours reaches the cloud before the        *)
(* console knows the system ID the filter compares with.                   *)
NoEcho == returned = {}
=============================================================================
