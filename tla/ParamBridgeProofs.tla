-------------------------- MODULE ParamBridgeProofs --------------------------
(***************************************************************************)
(* Proofs about the parameter bridge for any parameters, values, number of *)
(* concurrent requests, capacity of the channel and length of the link's   *)
(* queue: nothing of ours is echoed to the autopilot, a loading ends with  *)
(* a complete cache, the cache catches up with the autopilot, a set that   *)
(* nothing disturbs is confirmed by its own report only, and the queues,   *)
(* the counts and what is decoded stay within their types.                 *)
(***************************************************************************)
EXTENDS ParamBridge, FiniteSetTheorems, TLAPS

Wire == {"bits", "number"} \X (Values \cup {"foreign"})
Frame == [sys : {PixhawkID, GcsID}, kind : {"heartbeat", "param"},
          name : Names \cup {None}, value : Wire \cup {None}]
OwnValue == {f \in Frame : f.sys = PixhawkID /\ f.kind = "param" /\ f.name \in Names}

Shape ==
    /\ px4 = [n \in Names |-> px4[n]]
    /\ \A n \in Names : px4[n] \in Wire
    /\ up \in Seq(Frame) /\ ch \in Seq(OwnValue)
    /\ \A i \in 1..Len(up) : up[i].kind = "param" => up[i].name \in Names
    /\ listing \subseteq Names
    /\ cache = [n \in Names |-> cache[n]]

(* What comes back from the cloud under our system ID was sent when that   *)
(* ID was known.                                                           *)
Downlink ==
    \/ down = <<>>
    \/ \E k \in {"heartbeat", "param"} : Connected /\ down = <<[sys |-> PixhawkID, kind |-> k]>>
    \/ \E n \in Names, v \in Values :
          down = <<[sys |-> GcsID, kind |-> "set", name |-> n, value |-> v]>>

EchoInv ==
    /\ pixhawkSysID \in {0, PixhawkID}
    /\ cloud \subseteq {"heartbeat", "param"}
    /\ cloud # {} => Connected
    /\ Downlink
    /\ NoEcho

-----------------------------------------------------------------------------
LEMMA EncodeWire ==
    ASSUME NEW v \in Values \cup {"foreign"}, NEW t
    PROVE  Encode(v, t) \in Wire
BY DEF Encode, Wire

LEMMA ParamFrame ==
    ASSUME NEW s \in {PixhawkID, GcsID}, NEW n \in Names, NEW w \in Wire
    PROVE  /\ ParamValue(s, n, w) \in Frame
           /\ ParamValue(s, n, w).sys = s /\ ParamValue(s, n, w).kind = "param"
           /\ ParamValue(s, n, w).name = n /\ ParamValue(s, n, w).value = w
BY DEF ParamValue, Frame

(* A frame the autopilot or somebody else puts on the link.                *)
LEMMA AppendShape ==
    ASSUME Shape, NEW f \in Frame, f.kind = "param" => f.name \in Names
    PROVE  /\ Append(up, f) \in Seq(Frame)
           /\ \A i \in 1..Len(Append(up, f)) :
                 Append(up, f)[i].kind = "param" => Append(up, f)[i].name \in Names
BY DEF Shape

LEMMA HeadOfUp ==
    ASSUME Shape, up # <<>>
    PROVE  /\ Head(up) \in Frame /\ Tail(up) \in Seq(Frame)
           /\ Head(up).kind = "param" => Head(up).name \in Names
           /\ \A i \in 1..Len(Tail(up)) : Tail(up)[i].kind = "param" => Tail(up)[i].name \in Names
<1>1. up \in Seq(Frame) /\ Head(up) = up[1] /\ 1 \in 1..Len(up)
  BY DEF Shape
<1>2. Head(up) \in Frame /\ Tail(up) \in Seq(Frame)
  BY <1>1
<1>3. \A i \in 1..Len(Tail(up)) : Tail(up)[i] = up[i + 1] /\ i + 1 \in 1..Len(up)
  BY <1>1
<1> QED  BY <1>1, <1>2, <1>3 DEF Shape

(* A PARAM_SET that is taken or ignored.                                   *)
LEMMA SetTaken ==
    ASSUME Shape, NEW n \in Names, NEW w \in Wire, TakeSet(n, w)
    PROVE  \/ UNCHANGED <<px4, up>>
           \/ /\ px4' = [px4 EXCEPT ![n] = w]
              /\ up' = Append(up, ParamValue(PixhawkID, n, w))
              /\ w = Encode(w[2], TypeOf(n))
BY DEF TakeSet

-----------------------------------------------------------------------------
LEMMA InitShape == Init => Shape /\ EchoInv
<1> SUFFICES ASSUME Init PROVE Shape /\ EchoInv
  OBVIOUS
<1>1. \A n \in Names : Encode(First, TypeOf(n)) \in Wire
  BY EncodeWire, ParamAssumption
<1>2. px4 = [n \in Names |-> Encode(First, TypeOf(n))]
  BY DEF Init
<1>3. up = <<>> /\ ch = <<>> /\ listing = {} /\ cache = [n \in Names |-> None]
  BY DEF Init
<1>4. Shape
  BY <1>1, <1>2, <1>3 DEF Shape
<1>5. EchoInv
  BY DEF Init, EchoInv, Downlink, NoEcho, PixhawkID
<1> QED  BY <1>4, <1>5

(* What the autopilot, another system and the link do to `up`.             *)
LEMMA LinkShape ==
    ASSUME Shape, Px4Stream \/ Px4Heartbeat \/ GcsFrame \/ LinkLoss
    PROVE  Shape'
<1>0. UNCHANGED <<px4, ch, cache>> /\ listing' \subseteq Names
  BY DEF Px4Stream, Px4Heartbeat, GcsFrame, LinkLoss, Shape, bridge
<1>1. CASE Px4Stream
  <2>1. PICK n \in listing : up' = Append(up, ParamValue(PixhawkID, n, px4[n]))
    BY <1>1 DEF Px4Stream
  <2>2. n \in Names /\ px4[n] \in Wire
    BY DEF Shape
  <2> QED  BY <1>0, <2>1, <2>2, ParamFrame, AppendShape DEF Shape
<1>2. CASE Px4Heartbeat
  <2>1. up' = Append(up, Heartbeat(PixhawkID))
    BY <1>2 DEF Px4Heartbeat
  <2>2. Heartbeat(PixhawkID) \in Frame /\ Heartbeat(PixhawkID).kind = "heartbeat"
    BY DEF Heartbeat, Frame
  <2> QED  BY <1>0, <2>1, <2>2, AppendShape DEF Shape
<1>3. CASE GcsFrame
  <2>1. PICK n \in Names : up' = Append(up, ParamValue(GcsID, n, Encode("foreign", TypeOf(n))))
    BY <1>3 DEF GcsFrame
  <2>2. Encode("foreign", TypeOf(n)) \in Wire
    BY EncodeWire
  <2> QED  BY <1>0, <2>1, <2>2, ParamFrame, AppendShape DEF Shape
<1>4. CASE LinkLoss
  <2>1. up # <<>> /\ up' = Tail(up)
    BY <1>4 DEF LinkLoss
  <2> QED  BY <1>0, <2>1, HeadOfUp DEF Shape
<1> QED  BY <1>1, <1>2, <1>3, <1>4

LEMMA ForwardShape ==
    ASSUME Shape, receiveAndForward
    PROVE  /\ Shape'
           /\ Head(up) \in Frame
           /\ \/ ch' = ch /\ Head(up) \notin OwnValue /\ lost' = lost
              \/ ch' = Append(ch, Head(up)) /\ Head(up) \in OwnValue /\ lost' = lost
              \/ ch' = ch /\ lost'
<1>1. /\ up # <<>> /\ up' = Tail(up) /\ UNCHANGED <<px4, listing, cache>>
  BY DEF receiveAndForward, bridge
<1>2. Head(up) \in Frame /\ (Head(up).kind = "param" => Head(up).name \in Names)
  BY <1>1, HeadOfUp
<1>3. \/ ch' = ch /\ Head(up) \notin OwnValue /\ lost' = lost
      \/ ch' = Append(ch, Head(up)) /\ Head(up) \in OwnValue /\ lost' = lost
      \/ ch' = ch /\ lost'
  <2>1. CASE Head(up).sys = GcsID
    BY <2>1 DEF receiveAndForward, OwnValue, GcsID, PixhawkID
  <2>2. CASE Head(up).sys # GcsID /\ Head(up).kind = "param"
    <3>1. HandleParamValue(Head(up))
      BY <2>2 DEF receiveAndForward
    <3>2. Head(up) \in OwnValue
      BY <1>2, <2>2 DEF OwnValue, Frame
    <3> QED  BY <3>1, <3>2 DEF HandleParamValue
  <2>3. CASE Head(up).sys # GcsID /\ Head(up).kind # "param"
    BY <2>3 DEF receiveAndForward, OwnValue
  <2> QED  BY <2>1, <2>2, <2>3
<1>4. ch' \in Seq(OwnValue)
  BY <1>3 DEF Shape
<1>5. Shape'
  BY <1>1, <1>4, HeadOfUp DEF Shape
<1> QED  BY <1>2, <1>3, <1>5

LEMMA SetShape ==
    ASSUME Shape, NEW n \in Names, NEW w \in Wire, TakeSet(n, w),
           UNCHANGED <<ch, listing, cache>>
    PROVE  Shape'
<1>1. CASE UNCHANGED <<px4, up>>
  BY <1>1 DEF Shape
<1>2. CASE px4' = [px4 EXCEPT ![n] = w] /\ up' = Append(up, ParamValue(PixhawkID, n, w))
  <2>1. px4' = [m \in Names |-> px4'[m]] /\ \A m \in Names : px4'[m] \in Wire
    BY <1>2 DEF Shape
  <2> QED  BY <1>2, <2>1, ParamFrame, AppendShape DEF Shape
<1> QED  BY <1>1, <1>2, SetTaken

LEMMA HeadOfCh ==
    ASSUME Shape, ch # <<>>
    PROVE  /\ Head(ch) \in OwnValue /\ Tail(ch) \in Seq(OwnValue) /\ Head(ch).name \in Names
           /\ Tail(ch) # ch
BY DEF Shape, OwnValue

(* A message from the cloud is dropped, or is a set the autopilot takes or *)
(* ignores; nothing else gets through.                                     *)
LEMMA ServerStep ==
    ASSUME Shape, EchoInv, receiveFromServer
    PROVE  /\ UNCHANGED <<ch, listing, cache, received, total, loading, lost, cloud, pixhawkSysID>>
           /\ UNCHANGED <<pc, req, fresh, got>>
           /\ down' = <<>> /\ returned' = returned
           /\ \/ UNCHANGED <<px4, up, quiet>>
              \/ /\ quiet' = [g \in Handlers |-> FALSE]
                 /\ \E n \in Names, w \in Wire : TakeSet(n, w)
<1>1. /\ UNCHANGED <<ch, listing, cache, received, total, loading, lost, cloud, pixhawkSysID>>
      /\ UNCHANGED <<pc, req, fresh, got>> /\ down # <<>> /\ down' = <<>>
  BY DEF receiveFromServer, bridge
<1>2. CASE \E k \in {"heartbeat", "param"} : Connected /\ down = <<[sys |-> PixhawkID, kind |-> k]>>
  <2>1. Drops(Head(down))
    BY <1>2 DEF EchoInv, Connected, Drops, PixhawkID
  <2> QED  BY <1>1, <2>1 DEF receiveFromServer
<1>3. CASE \E n \in Names, v \in Values :
             down = <<[sys |-> GcsID, kind |-> "set", name |-> n, value |-> v]>>
  <2>1. PICK n \in Names, v \in Values :
          down = <<[sys |-> GcsID, kind |-> "set", name |-> n, value |-> v]>>
    BY <1>3
  <2>2. Head(down).kind = "set" /\ Head(down).name = n /\ Head(down).value = v
    BY <2>1
  <2>3. Encode(v, TypeOf(n)) \in Wire
    BY EncodeWire
  <2>4. \/ UNCHANGED <<px4, up, quiet, returned>>
        \/ /\ quiet' = [g \in Handlers |-> FALSE] /\ UNCHANGED returned
           /\ TakeSet(n, Encode(v, TypeOf(n)))
    BY <2>2 DEF receiveFromServer
  <2> QED  BY <1>1, <2>3, <2>4
<1> QED  BY <1>1, <1>2, <1>3 DEF EchoInv, Downlink

(* Nothing but these steps touches what the invariants speak of.           *)
LEMMA ShapeKept == Shape /\ EchoInv /\ [Next]_vars => Shape'
<1> SUFFICES ASSUME Shape, EchoInv, [Next]_vars PROVE Shape'
  OBVIOUS
<1>1. CASE Px4Stream \/ Px4Heartbeat \/ GcsFrame \/ LinkLoss
  BY <1>1, LinkShape
<1>2. CASE receiveAndForward
  BY <1>2, ForwardShape
<1>3. CASE receiveFromServer
  BY <1>3, ServerStep, SetShape DEF Shape
<1>4. CASE processParamValues
  <2>1. /\ ch # <<>> /\ ch' = Tail(ch) /\ UNCHANGED <<px4, up, listing>>
        /\ cache' = [cache EXCEPT ![Head(ch).name] = Decode(Head(ch).value, TypeOf(Head(ch).name))]
    BY <1>4 DEF processParamValues
  <2>2. cache' = [n \in Names |-> cache'[n]]
    BY <2>1 DEF Shape
  <2> QED  BY <2>1, <2>2, HeadOfCh DEF Shape
<1>5. ASSUME NEW h \in Handlers, RequestParameterList(h) PROVE Shape'
  <2>1. cache' = [n \in Names |-> None] /\ UNCHANGED <<px4, up, ch, listing>>
    BY <1>5 DEF RequestParameterList, ClearCache
  <2> QED  BY <2>1 DEF Shape
<1>6. ASSUME NEW h \in Handlers, listWritten(h) PROVE Shape'
  <2>1. UNCHANGED <<px4, up, ch, cache>> /\ listing' \in {listing, Names}
    BY <1>6 DEF listWritten, bridge
  <2> QED  BY <2>1 DEF Shape
<1>7. ASSUME NEW h \in Handlers, SetParameter(h) PROVE Shape'
  <2>1. UNCHANGED <<ch, listing, cache>>
    BY <1>7 DEF SetParameter, bridge
  <2>2. CASE UNCHANGED <<px4, up>>
    BY <2>1, <2>2 DEF Shape
  <2>3. ASSUME NEW n \in Names, NEW v \in Values, NEW s, TakeSet(n, Encode(v, getMavParamType(s)))
        PROVE  Shape'
    BY <2>1, <2>3, EncodeWire, SetShape
  <2> QED  BY <1>7, <2>2, <2>3 DEF SetParameter
<1>8. CASE \/ CloudSends \/ UNCHANGED vars
           \/ \E h \in Handlers : waitForParamResponse(h) \/ poll(h) \/ answer(h)
  <2>1. UNCHANGED <<px4, up, ch, listing, cache>>
    BY <1>8 DEF CloudSends, vars, bridge, waitForParamResponse, poll, answer
  <2> QED  BY <2>1 DEF Shape
<1> QED
  BY <1>1, <1>2, <1>3, <1>4, <1>5, <1>6, <1>7, <1>8 DEF Next

LEMMA EchoKept == Shape /\ EchoInv /\ [Next]_vars => EchoInv'
<1> SUFFICES ASSUME Shape, EchoInv, [Next]_vars PROVE EchoInv'
  OBVIOUS
<1>1. CASE receiveAndForward
  <2>0. Head(up) \in Frame
    BY <1>1, HeadOfUp DEF receiveAndForward
  <2>1. UNCHANGED <<down, returned>>
    BY <1>1 DEF receiveAndForward
  <2>2. /\ pixhawkSysID' \in {pixhawkSysID, PixhawkID}
        /\ \/ cloud' = cloud
           \/ pixhawkSysID' # 0 /\ cloud' = cloud \cup {Head(up).kind}
        /\ Connected => Connected'
    <3>1. CASE Head(up).sys = GcsID
      BY <1>1, <3>1 DEF receiveAndForward, Connected
    <3>2. CASE Head(up).sys # GcsID
      <4>1. Head(up).sys = PixhawkID
        BY <2>0, <3>2 DEF Frame
      <4>2. /\ IF Head(up).kind = "heartbeat" THEN HandleHeartbeat(Head(up).sys) ELSE UNCHANGED pixhawkSysID
            /\ cloud' = IF pixhawkSysID' # 0 THEN cloud \cup {Head(up).kind} ELSE cloud
        BY <1>1, <3>2 DEF receiveAndForward
      <4> QED  BY <4>1, <4>2 DEF HandleHeartbeat, Connected, PixhawkID
    <3> QED  BY <3>1, <3>2
  <2>3. Head(up).kind \in {"heartbeat", "param"}
    BY <2>0 DEF Frame
  <2>4. Downlink'
    BY <2>1, <2>2 DEF EchoInv, Downlink
  <2> QED  BY <2>1, <2>2, <2>3, <2>4 DEF EchoInv, NoEcho, Connected, PixhawkID
<1>2. CASE receiveFromServer
  BY <1>2, ServerStep DEF EchoInv, Downlink, NoEcho, Connected
<1>3. CASE CloudSends
  <2>1. UNCHANGED <<pixhawkSysID, cloud, returned>>
    BY <1>3 DEF CloudSends
  <2>2. Downlink'
    BY <1>3, <2>1 DEF CloudSends, Downlink, EchoInv, Connected
  <2> QED  BY <2>1, <2>2 DEF EchoInv, NoEcho, Connected
<1>4. CASE UNCHANGED <<down, pixhawkSysID, cloud, returned>>
  BY <1>4 DEF EchoInv, Downlink, NoEcho, Connected
<1>5. CASE \/ Px4Stream \/ Px4Heartbeat \/ GcsFrame \/ LinkLoss \/ processParamValues \/ UNCHANGED vars
           \/ \E h \in Handlers : \/ RequestParameterList(h) \/ listWritten(h) \/ SetParameter(h)
                                  \/ waitForParamResponse(h) \/ poll(h) \/ answer(h)
  BY <1>4, <1>5
  DEF Px4Stream, Px4Heartbeat, GcsFrame, LinkLoss, processParamValues, vars, history,
      RequestParameterList, listWritten, SetParameter, waitForParamResponse, poll, answer
<1> QED  BY <1>1, <1>2, <1>3, <1>5 DEF Next

(* No frame the cloud reflects to us is written to the autopilot: nothing  *)
(* of ours reaches the cloud before the system ID that receiveFromServer   *)
(* compares with is known, and it is never forgotten.                      *)
THEOREM NothingEchoed == Spec => []NoEcho
<1>1. Shape /\ EchoInv /\ [Next]_vars => (Shape /\ EchoInv)'
  BY ShapeKept, EchoKept
<1>2. EchoInv => NoEcho
  BY DEF EchoInv
<1> QED  BY InitShape, <1>1, <1>2, PTL DEF Spec

(* Of the steps that take a frame off the channel, only the goroutine's    *)
(* exists: the channel never equals its own tail.                          *)
LEMMA OnlyProcessTakes ==
    ASSUME Shape, EchoInv, [Next]_vars, ch # <<>>, ch' = Tail(ch)
    PROVE  processParamValues
<1>0. Tail(ch) # ch /\ \A f \in OwnValue : Tail(ch) # Append(ch, f)
  BY DEF Shape
<1>1. ASSUME receiveAndForward PROVE FALSE
  BY <1>0, <1>1, ForwardShape
<1>2. ASSUME receiveFromServer PROVE FALSE
  BY <1>0, <1>2, ServerStep
<1>3. ASSUME \/ Px4Stream \/ Px4Heartbeat \/ GcsFrame \/ LinkLoss \/ CloudSends \/ UNCHANGED vars
             \/ \E h \in Handlers : \/ RequestParameterList(h) \/ listWritten(h) \/ SetParameter(h)
                                    \/ waitForParamResponse(h) \/ poll(h) \/ answer(h)
      PROVE  FALSE
  <2>1. UNCHANGED ch
    BY <1>3 DEF Px4Stream, Px4Heartbeat, GcsFrame, LinkLoss, CloudSends, vars,
      RequestParameterList, listWritten, SetParameter, waitForParamResponse, poll, answer
  <2> QED  BY <1>0, <2>1
<1> QED  BY <1>1, <1>2, <1>3 DEF Next

(* When processParamValues ends a loading, every parameter is in the       *)
(* cache, however many lists and sets overlap.                             *)
THEOREM LoadingComplete == Spec => LoadedIsComplete
<1>1. ASSUME Shape, EchoInv, [Next]_vars, ch # <<>>, ch' = Tail(ch), loading, ~loading'
      PROVE  Cached(cache') = Names
  <2>1. processParamValues
    BY <1>1, OnlyProcessTakes
  <2>2. ~(Cardinality(Cached(cache')) < Cardinality(Names))
    BY <1>1, <2>1 DEF processParamValues
  <2>3. Cached(cache') \subseteq Names /\ IsFiniteSet(Names)
    BY ParamAssumption DEF Cached
  <2>4. /\ Cardinality(Cached(cache')) <= Cardinality(Names)
        /\ Cardinality(Cached(cache')) = Cardinality(Names) => Cached(cache') = Names
    BY <2>3, FS_Subset
  <2>5. Cardinality(Cached(cache')) \in Nat /\ Cardinality(Names) \in Nat
    BY <2>3, FS_Subset, FS_CardinalityType
  <2> QED  BY <2>2, <2>4, <2>5
<1>2. Shape /\ EchoInv /\ [Next]_vars =>
        [ch # <<>> /\ ch' = Tail(ch) /\ loading /\ ~loading' => Cached(cache') = Names]_vars
  BY <1>1
<1>3. Shape /\ EchoInv /\ [Next]_vars => (Shape /\ EchoInv)'
  BY ShapeKept, EchoKept
<1> QED  BY InitShape, <1>2, <1>3, PTL DEF Spec, LoadedIsComplete

-----------------------------------------------------------------------------
(* The frames about a parameter: the last one on a queue, and none.        *)

About(f, n) == f \in OwnValue /\ f.name = n

Latest(s, n, w) ==
    \A i \in 1..Len(s) :
        About(s[i], n) /\ (\A j \in 1..Len(s) : j > i => ~About(s[j], n)) => s[i].value = w

Free(s, n) == \A i \in 1..Len(s) : ~About(s[i], n)

(* Where the autopilot's value of a parameter is found: in the last report *)
(* on the link, else in the last one in the channel, else in the cache,    *)
(* unless that was cleared.                                                *)
Traced(n) ==
    /\ Latest(up, n, px4[n])
    /\ Free(up, n) => Latest(ch, n, px4[n])
    /\ Free(up, n) /\ Free(ch, n) => cache[n] \in {None, Decode(px4[n], TypeOf(n))}

CacheInv == ~lost => \A n \in Names : Traced(n)

LEMMA LatestAppended ==
    ASSUME NEW s \in Seq(Frame), NEW f \in Frame, NEW n, NEW w, About(f, n), f.value = w
    PROVE  Latest(Append(s, f), n, w) /\ ~Free(Append(s, f), n)
<1>1. /\ Len(Append(s, f)) = Len(s) + 1 /\ Append(s, f)[Len(s) + 1] = f /\ Len(s) \in Nat
  OBVIOUS
<1>2. Len(s) + 1 \in 1..(Len(s) + 1)
  BY <1>1
<1>3. \A i \in 1..(Len(s) + 1) : i = Len(s) + 1 \/ Len(s) + 1 > i
  BY <1>1
<1> QED  BY <1>1, <1>2, <1>3 DEF Latest, Free

LEMMA OtherAppended ==
    ASSUME NEW s \in Seq(Frame), NEW f \in Frame, NEW n, NEW w, ~About(f, n)
    PROVE  /\ Latest(s, n, w) => Latest(Append(s, f), n, w)
           /\ Free(Append(s, f), n) <=> Free(s, n)
<1>1. /\ Len(Append(s, f)) = Len(s) + 1 /\ Append(s, f)[Len(s) + 1] = f /\ Len(s) \in Nat
      /\ \A i \in 1..Len(s) : Append(s, f)[i] = s[i]
  OBVIOUS
<1>2. \A i \in 1..(Len(s) + 1) : i = Len(s) + 1 \/ i \in 1..Len(s)
  BY <1>1
<1>3. \A i \in 1..Len(s) : i \in 1..(Len(s) + 1)
  BY <1>1
<1> QED  BY <1>1, <1>2, <1>3 DEF Latest, Free

LEMMA TailTaken ==
    ASSUME NEW s \in Seq(Frame), s # <<>>, NEW n, NEW w
    PROVE  /\ Latest(s, n, w) => Latest(Tail(s), n, w)
           /\ Free(Tail(s), n) /\ ~About(Head(s), n) => Free(s, n)
           /\ Free(s, n) => Free(Tail(s), n)
           /\ Free(Tail(s), n) /\ About(Head(s), n) /\ Latest(s, n, w) => Head(s).value = w
<1>1. /\ Len(s) \in Nat /\ Len(s) > 0 /\ Len(Tail(s)) = Len(s) - 1 /\ Head(s) = s[1]
      /\ \A i \in 1..Len(Tail(s)) : Tail(s)[i] = s[i + 1]
  OBVIOUS
<1>2. \A i \in 1..Len(s) : i = 1 \/ (i - 1 \in 1..Len(Tail(s)) /\ (i - 1) + 1 = i)
  BY <1>1
<1>3. \A i \in 1..Len(Tail(s)) : i + 1 \in 1..Len(s) /\ i \in Nat
  BY <1>1
<1>4. Latest(s, n, w) => Latest(Tail(s), n, w)
  <2> SUFFICES ASSUME Latest(s, n, w), NEW i \in 1..Len(Tail(s)), About(Tail(s)[i], n),
                      \A j \in 1..Len(Tail(s)) : j > i => ~About(Tail(s)[j], n)
               PROVE  Tail(s)[i].value = w
    BY DEF Latest
  <2>1. \A j \in 1..Len(s) : j > i + 1 => ~About(s[j], n)
    <3> SUFFICES ASSUME NEW j \in 1..Len(s), j > i + 1 PROVE ~About(s[j], n)
      OBVIOUS
    <3>1. j - 1 \in 1..Len(Tail(s)) /\ j - 1 > i /\ (j - 1) + 1 = j
      BY <1>1
    <3> QED  BY <1>1, <3>1
  <2> QED  BY <1>1, <1>3, <2>1 DEF Latest
<1>5. Free(Tail(s), n) /\ ~About(Head(s), n) => Free(s, n)
  BY <1>1, <1>2 DEF Free
<1>6. Free(s, n) => Free(Tail(s), n)
  BY <1>1, <1>3 DEF Free
<1>7. Free(Tail(s), n) /\ About(Head(s), n) /\ Latest(s, n, w) => Head(s).value = w
  <2> SUFFICES ASSUME Free(Tail(s), n), About(Head(s), n), Latest(s, n, w)
               PROVE  Head(s).value = w
    OBVIOUS
  <2>1. \A j \in 1..Len(s) : j > 1 => ~About(s[j], n)
    <3> SUFFICES ASSUME NEW j \in 1..Len(s), j > 1 PROVE ~About(s[j], n)
      OBVIOUS
    <3>1. j - 1 \in 1..Len(Tail(s)) /\ (j - 1) + 1 = j
      BY <1>1
    <3> QED  BY <1>1, <3>1 DEF Free
  <2>2. 1 \in 1..Len(s)
    BY <1>1
  <2> QED  BY <1>1, <2>1, <2>2 DEF Latest
<1> QED  BY <1>4, <1>5, <1>6, <1>7

-----------------------------------------------------------------------------
LEMMA ChOfFrames == Shape => ch \in Seq(Frame)
BY DEF Shape, OwnValue

(* The autopilot reports the value it has.                                 *)
LEMMA ReportTraced ==
    ASSUME Shape, CacheInv, NEW n \in Names, NEW w \in Wire,
           up' = Append(up, ParamValue(PixhawkID, n, w)), px4' = [px4 EXCEPT ![n] = w],
           UNCHANGED <<ch, cache, lost>>
    PROVE  CacheInv'
<1> SUFFICES ASSUME ~lost, NEW m \in Names PROVE Traced(m)'
  BY DEF CacheInv
<1> DEFINE f == ParamValue(PixhawkID, n, w)
<1>0. Traced(m) /\ up \in Seq(Frame)
  BY DEF CacheInv, Shape
<1>1. f \in Frame /\ f \in OwnValue /\ f.name = n /\ f.value = w /\ up' = Append(up, f)
  BY ParamFrame DEF OwnValue
<1> HIDE DEF f
<1>2. CASE m = n
  <2>1. px4'[m] = w /\ About(f, m)
    BY <1>1, <1>2 DEF Shape, About
  <2>2. Latest(up', m, px4'[m]) /\ ~Free(up', m)
    BY <1>0, <1>1, <2>1, LatestAppended
  <2> QED  BY <2>2 DEF Traced
<1>3. CASE m # n
  <2>1. px4'[m] = px4[m] /\ ~About(f, m)
    BY <1>1, <1>3 DEF Shape, About
  <2>2. (Latest(up, m, px4[m]) => Latest(up', m, px4[m])) /\ (Free(up', m) <=> Free(up, m))
    BY <1>0, <1>1, <2>1, OtherAppended
  <2> QED  BY <1>0, <2>1, <2>2 DEF Traced
<1> QED  BY <1>2, <1>3

(* A frame that is no report of the autopilot.                             *)
LEMMA ForeignTraced ==
    ASSUME Shape, CacheInv, NEW f \in Frame, f \notin OwnValue, up' = Append(up, f),
           UNCHANGED <<px4, ch, cache, lost>>
    PROVE  CacheInv'
<1> SUFFICES ASSUME ~lost, NEW m \in Names PROVE Traced(m)'
  BY DEF CacheInv
<1>0. Traced(m) /\ up \in Seq(Frame) /\ ~About(f, m)
  BY DEF CacheInv, Shape, About
<1>1. (Latest(up, m, px4[m]) => Latest(up', m, px4[m])) /\ (Free(up', m) <=> Free(up, m))
  BY <1>0, OtherAppended
<1> QED  BY <1>0, <1>1 DEF Traced

LEMMA ForwardTraced ==
    ASSUME Shape, CacheInv, receiveAndForward
    PROVE  CacheInv'
<1> SUFFICES ASSUME ~lost', NEW m \in Names PROVE Traced(m)'
  BY DEF CacheInv
<1>1. up # <<>> /\ up' = Tail(up) /\ UNCHANGED <<px4, cache>>
  BY DEF receiveAndForward, bridge
<1>2. /\ Head(up) \in Frame /\ lost' = lost
      /\ \/ ch' = ch /\ Head(up) \notin OwnValue
         \/ ch' = Append(ch, Head(up)) /\ Head(up) \in OwnValue
  BY ForwardShape
<1>3. Traced(m) /\ up \in Seq(Frame) /\ ch \in Seq(Frame)
  BY <1>2, ChOfFrames DEF CacheInv, Shape
<1>4. /\ Latest(up, m, px4[m]) => Latest(up', m, px4[m])
      /\ Free(up', m) /\ ~About(Head(up), m) => Free(up, m)
      /\ Free(up', m) /\ About(Head(up), m) /\ Latest(up, m, px4[m]) => Head(up).value = px4[m]
  BY <1>1, <1>3, TailTaken
<1>5. CASE About(Head(up), m)
  <2>1. ch' = Append(ch, Head(up))
    BY <1>2, <1>5 DEF About
  <2>2. Free(up', m) => Head(up).value = px4[m]
    BY <1>3, <1>4, <1>5 DEF Traced
  <2>3. ~Free(ch', m) /\ (Free(up', m) => Latest(ch', m, px4[m]))
    BY <1>2, <1>3, <1>5, <2>1, <2>2, LatestAppended
  <2> QED  BY <1>1, <1>3, <1>4, <2>3 DEF Traced
<1>6. CASE ~About(Head(up), m)
  <2>1. (Latest(ch, m, px4[m]) => Latest(ch', m, px4[m])) /\ (Free(ch', m) <=> Free(ch, m))
    BY <1>2, <1>3, <1>6, OtherAppended
  <2> QED  BY <1>1, <1>3, <1>4, <1>6, <2>1 DEF Traced
<1> QED  BY <1>5, <1>6

LEMMA ProcessTraced ==
    ASSUME Shape, CacheInv, processParamValues
    PROVE  CacheInv'
<1> SUFFICES ASSUME ~lost, NEW m \in Names PROVE Traced(m)'
  BY DEF CacheInv, processParamValues, history
<1>1. /\ ch # <<>> /\ ch' = Tail(ch) /\ UNCHANGED <<px4, up>>
      /\ cache' = [cache EXCEPT ![Head(ch).name] = Decode(Head(ch).value, TypeOf(Head(ch).name))]
  BY DEF processParamValues
<1>2. Traced(m) /\ ch \in Seq(Frame) /\ Head(ch) \in OwnValue /\ Head(ch).name \in Names
  BY <1>1, ChOfFrames, HeadOfCh DEF CacheInv
<1>3. /\ Latest(ch, m, px4[m]) => Latest(ch', m, px4[m])
      /\ Free(ch', m) /\ ~About(Head(ch), m) => Free(ch, m)
      /\ Free(ch', m) /\ About(Head(ch), m) /\ Latest(ch, m, px4[m]) => Head(ch).value = px4[m]
  BY <1>1, <1>2, TailTaken
<1>4. CASE About(Head(ch), m)
  <2>1. cache'[m] = Decode(Head(ch).value, TypeOf(m))
    BY <1>1, <1>4 DEF Shape, About
  <2> QED  BY <1>1, <1>2, <1>3, <1>4, <2>1 DEF Traced
<1>5. CASE ~About(Head(ch), m)
  <2>1. cache'[m] = cache[m]
    BY <1>1, <1>2, <1>5 DEF Shape, About
  <2> QED  BY <1>1, <1>2, <1>3, <1>5, <2>1 DEF Traced
<1> QED  BY <1>4, <1>5

(* A set that is taken changes the parameter and reports it in one step.   *)
LEMMA SetTraced ==
    ASSUME Shape, CacheInv, NEW n \in Names, NEW w \in Wire, TakeSet(n, w),
           UNCHANGED <<ch, cache, lost>>
    PROVE  CacheInv'
<1>1. CASE UNCHANGED <<px4, up>>
  BY <1>1 DEF CacheInv, Traced
<1>2. CASE px4' = [px4 EXCEPT ![n] = w] /\ up' = Append(up, ParamValue(PixhawkID, n, w))
  BY <1>2, ReportTraced
<1> QED  BY <1>1, <1>2, SetTaken

LEMMA CacheKept == Shape /\ EchoInv /\ CacheInv /\ [Next]_vars => CacheInv'
<1> SUFFICES ASSUME Shape, EchoInv, CacheInv, [Next]_vars PROVE CacheInv'
  OBVIOUS
<1>1. CASE Px4Stream
  <2>1. PICK n \in listing : up' = Append(up, ParamValue(PixhawkID, n, px4[n]))
    BY <1>1 DEF Px4Stream
  <2>2. n \in Names /\ px4[n] \in Wire /\ px4 = [px4 EXCEPT ![n] = px4[n]]
    BY DEF Shape
  <2>3. UNCHANGED <<px4, ch, cache, lost>>
    BY <1>1 DEF Px4Stream, bridge, history
  <2> QED  BY <2>1, <2>2, <2>3, ReportTraced
<1>2. CASE Px4Heartbeat
  <2>1. up' = Append(up, Heartbeat(PixhawkID)) /\ UNCHANGED <<px4, ch, cache, lost>>
    BY <1>2 DEF Px4Heartbeat, bridge, history
  <2>2. Heartbeat(PixhawkID) \in Frame /\ Heartbeat(PixhawkID) \notin OwnValue
    BY DEF Heartbeat, Frame, OwnValue
  <2> QED  BY <2>1, <2>2, ForeignTraced
<1>3. CASE GcsFrame
  <2>1. PICK n \in Names : up' = Append(up, ParamValue(GcsID, n, Encode("foreign", TypeOf(n))))
    BY <1>3 DEF GcsFrame
  <2>2. UNCHANGED <<px4, ch, cache, lost>>
    BY <1>3 DEF GcsFrame, bridge
  <2>3. Encode("foreign", TypeOf(n)) \in Wire
    BY EncodeWire
  <2>4. /\ ParamValue(GcsID, n, Encode("foreign", TypeOf(n))) \in Frame
        /\ ParamValue(GcsID, n, Encode("foreign", TypeOf(n))) \notin OwnValue
    BY <2>3, ParamFrame DEF OwnValue, GcsID, PixhawkID
  <2> QED  BY <2>1, <2>2, <2>4, ForeignTraced
<1>4. CASE LinkLoss
  BY <1>4 DEF LinkLoss, CacheInv
<1>5. CASE receiveAndForward
  BY <1>5, ForwardTraced
<1>6. CASE receiveFromServer
  <2>1. UNCHANGED <<ch, cache, lost>>
    BY <1>6, ServerStep
  <2>2. CASE UNCHANGED <<px4, up>>
    BY <2>1, <2>2 DEF CacheInv, Traced
  <2> QED  BY <1>6, <2>1, <2>2, ServerStep, SetTraced
<1>7. CASE processParamValues
  BY <1>7, ProcessTraced
<1>8. ASSUME NEW h \in Handlers, RequestParameterList(h) PROVE CacheInv'
  <2>1. cache' = [n \in Names |-> None] /\ UNCHANGED <<px4, up, ch, lost>>
    BY <1>8 DEF RequestParameterList, ClearCache
  <2> QED  BY <2>1 DEF CacheInv, Traced
<1>9. ASSUME NEW h \in Handlers, SetParameter(h) PROVE CacheInv'
  <2>1. UNCHANGED <<ch, cache, lost>>
    BY <1>9 DEF SetParameter, bridge
  <2>2. CASE UNCHANGED <<px4, up>>
    BY <2>1, <2>2 DEF CacheInv, Traced
  <2>3. ASSUME NEW n \in Names, NEW v \in Values, NEW s, TakeSet(n, Encode(v, getMavParamType(s)))
        PROVE  CacheInv'
    <3>1. Encode(v, getMavParamType(s)) \in Wire
      BY EncodeWire
    <3> QED  BY <2>1, <2>3, <3>1, SetTraced
  <2> QED  BY <1>9, <2>2, <2>3 DEF SetParameter
<1>10. CASE \/ CloudSends \/ UNCHANGED vars
            \/ \E h \in Handlers : listWritten(h) \/ waitForParamResponse(h) \/ poll(h) \/ answer(h)
  <2>1. UNCHANGED <<px4, up, ch, cache>> /\ (~lost' => ~lost)
    <3>1. CASE CloudSends \/ UNCHANGED vars
      BY <3>1 DEF CloudSends, vars, bridge, history
    <3>2. ASSUME NEW h \in Handlers, listWritten(h) \/ waitForParamResponse(h)
          PROVE  UNCHANGED <<px4, up, ch, cache>> /\ (~lost' => ~lost)
      BY <3>2 DEF listWritten, waitForParamResponse, bridge, history
    <3>3. ASSUME NEW h \in Handlers, poll(h) \/ answer(h)
          PROVE  UNCHANGED <<px4, up, ch, cache>> /\ (~lost' => ~lost)
      BY <3>3 DEF poll, answer, bridge, history
    <3> QED  BY <1>10, <3>1, <3>2, <3>3
  <2> QED  BY <2>1 DEF CacheInv, Traced
<1> QED
  BY <1>1, <1>2, <1>3, <1>4, <1>5, <1>6, <1>7, <1>8, <1>9, <1>10 DEF Next

(* When no frame was lost and none is under way, every entry of the cache  *)
(* is the autopilot's value: reports pass through the link and the channel *)
(* in order, and only the autopilot's are let in.                          *)
THEOREM CacheCatchesUp == Spec => []CacheCoherent
<1>1. Init => CacheInv
  <2> SUFFICES ASSUME Init, NEW n \in Names
               PROVE  Traced(n)
    BY DEF CacheInv
  <2>1. up = <<>> /\ ch = <<>> /\ cache[n] = None
    BY DEF Init
  <2>2. Latest(up, n, px4[n]) /\ Latest(ch, n, px4[n])
    BY <2>1 DEF Latest
  <2> QED  BY <2>1, <2>2 DEF Traced
<1>2. Shape /\ EchoInv /\ CacheInv /\ [Next]_vars => (Shape /\ EchoInv /\ CacheInv)'
  BY ShapeKept, EchoKept, CacheKept
<1>3. CacheInv => CacheCoherent
  <2> SUFFICES ASSUME CacheInv, ~lost, up = <<>>, ch = <<>>, NEW n \in Cached(cache)
               PROVE  cache[n] = Decode(px4[n], TypeOf(n))
    BY DEF CacheCoherent
  <2>1. n \in Names /\ cache[n] # None /\ Traced(n)
    BY DEF Cached, CacheInv
  <2>2. Free(up, n) /\ Free(ch, n)
    BY DEF Free
  <2> QED  BY <2>1, <2>2 DEF Traced
<1> QED  BY InitShape, <1>1, <1>2, <1>3, PTL DEF Spec

-----------------------------------------------------------------------------
(* A set that nothing disturbs.                                            *)

HandlerShape ==
    /\ pc = [h \in Handlers |-> pc[h]] /\ req = [h \in Handlers |-> req[h]]
    /\ fresh = [h \in Handlers |-> fresh[h]] /\ got = [h \in Handlers |-> got[h]]
    /\ quiet = [h \in Handlers |-> quiet[h]]

Only(s, n, w) == \A i \in 1..Len(s) : s[i] \in OwnValue => s[i].name = n /\ s[i].value = w
Silent(s) == \A i \in 1..Len(s) : s[i] \notin OwnValue

(* The set of h was taken, and everything that comes from the autopilot    *)
(* reports it; or it was not, and nothing comes.                           *)
Taken(h, n, v) ==
    /\ px4[n] = Encode(v, TypeOf(n))
    /\ Only(up, n, Encode(v, TypeOf(n))) /\ Only(ch, n, Encode(v, TypeOf(n)))
    /\ pc[h] = "waiting" /\ fresh[h] => cache[n] = v
    /\ pc[h] = "success" => got[h] = v
Ignored(h) ==
    /\ Silent(up) /\ Silent(ch)
    /\ pc[h] = "waiting" => ~fresh[h]
    /\ pc[h] # "success"

Pending(h) == quiet[h] /\ pc[h] \in {"sent", "waiting", "success"}

LoneInv(h) ==
    /\ listing = {}
    /\ \A g \in Handlers : g # h => pc[g] = "idle"
    /\ \E n \in Names, v \in Values : req[h] = <<n, v>> /\ (Taken(h, n, v) \/ Ignored(h))

SetInv == HandlerShape /\ \A h \in Handlers : Pending(h) => LoneInv(h)

LEMMA OnlyAppended ==
    ASSUME NEW s \in Seq(Frame), NEW f \in Frame, NEW n, NEW w
    PROVE  /\ f \notin OwnValue /\ Silent(s) => Silent(Append(s, f))
           /\ f \notin OwnValue /\ Only(s, n, w) => Only(Append(s, f), n, w)
           /\ f.name = n /\ f.value = w /\ Only(s, n, w) => Only(Append(s, f), n, w)
<1>1. /\ Len(Append(s, f)) = Len(s) + 1 /\ Append(s, f)[Len(s) + 1] = f /\ Len(s) \in Nat
      /\ \A i \in 1..Len(s) : Append(s, f)[i] = s[i]
  OBVIOUS
<1>2. \A i \in 1..(Len(s) + 1) : i = Len(s) + 1 \/ i \in 1..Len(s)
  BY <1>1
<1> QED  BY <1>1, <1>2 DEF Only, Silent

LEMMA OnlyTail ==
    ASSUME NEW s \in Seq(Frame), s # <<>>, NEW n, NEW w
    PROVE  /\ Silent(s) => Silent(Tail(s)) /\ Head(s) \notin OwnValue
           /\ Only(s, n, w) =>
                 Only(Tail(s), n, w) /\ (Head(s) \in OwnValue => Head(s).name = n /\ Head(s).value = w)
<1>1. /\ Len(Tail(s)) = Len(s) - 1 /\ Head(s) = s[1] /\ 1 \in 1..Len(s)
      /\ \A i \in 1..Len(Tail(s)) : Tail(s)[i] = s[i + 1] /\ i + 1 \in 1..Len(s)
  OBVIOUS
<1> QED  BY <1>1 DEF Only, Silent

(* Frames that are no reports arrive, and frames are lost or passed on.    *)
LEMMA LoneLink ==
    ASSUME Shape, NEW h \in Handlers, LoneInv(h),
           Px4Stream \/ Px4Heartbeat \/ GcsFrame \/ LinkLoss \/ receiveAndForward
    PROVE  LoneInv(h)'
<1>0. /\ UNCHANGED <<px4, cache, pc, req, fresh, got>> /\ UNCHANGED listing
      /\ up \in Seq(Frame) /\ ch \in Seq(Frame)
  BY ChOfFrames DEF LoneInv, Px4Stream, Px4Heartbeat, GcsFrame, LinkLoss, receiveAndForward, bridge,
     handlers, Shape
<1>1. PICK n \in Names, v \in Values : req[h] = <<n, v>> /\ (Taken(h, n, v) \/ Ignored(h))
  BY DEF LoneInv
<1> DEFINE w == Encode(v, TypeOf(n))
<1>2. /\ Only(up, n, w) /\ Only(ch, n, w) => Only(up', n, w) /\ Only(ch', n, w)
      /\ Silent(up) /\ Silent(ch) => Silent(up') /\ Silent(ch')
  <2> HIDE DEF w
  <2>1. CASE Px4Stream
    BY <2>1 DEF LoneInv, Px4Stream
  <2>2. CASE Px4Heartbeat
    <3>1. up' = Append(up, Heartbeat(PixhawkID)) /\ UNCHANGED ch
      BY <2>2 DEF Px4Heartbeat
    <3>2. Heartbeat(PixhawkID) \in Frame /\ Heartbeat(PixhawkID) \notin OwnValue
      BY DEF Heartbeat, Frame, OwnValue
    <3> QED  BY <1>0, <3>1, <3>2, OnlyAppended
  <2>3. CASE GcsFrame
    <3>1. PICK m \in Names : up' = Append(up, ParamValue(GcsID, m, Encode("foreign", TypeOf(m))))
      BY <2>3 DEF GcsFrame
    <3>2. Encode("foreign", TypeOf(m)) \in Wire
      BY EncodeWire
    <3>3. /\ ParamValue(GcsID, m, Encode("foreign", TypeOf(m))) \in Frame
          /\ ParamValue(GcsID, m, Encode("foreign", TypeOf(m))) \notin OwnValue
      BY <3>2, ParamFrame DEF OwnValue, GcsID, PixhawkID
    <3>4. UNCHANGED ch
      BY <2>3 DEF GcsFrame
    <3> QED  BY <1>0, <3>1, <3>3, <3>4, OnlyAppended
  <2>4. CASE LinkLoss
    <3>1. up # <<>> /\ up' = Tail(up) /\ UNCHANGED ch
      BY <2>4 DEF LinkLoss
    <3> QED  BY <1>0, <3>1, OnlyTail
  <2>5. CASE receiveAndForward
    <3>1. up # <<>> /\ up' = Tail(up) /\ Head(up) \in Frame
      BY <2>5, ForwardShape DEF receiveAndForward
    <3>2. ch' = ch \/ (ch' = Append(ch, Head(up)) /\ Head(up) \in OwnValue)
      BY <2>5, ForwardShape
    <3>3. /\ Silent(up) => Silent(up') /\ Head(up) \notin OwnValue
          /\ Only(up, n, w) =>
                Only(up', n, w) /\ (Head(up) \in OwnValue => Head(up).name = n /\ Head(up).value = w)
      BY <1>0, <3>1, OnlyTail
    <3>4. CASE ch' = ch
      BY <3>3, <3>4
    <3>5. CASE ch' = Append(ch, Head(up)) /\ Head(up) \in OwnValue
      BY <1>0, <3>1, <3>3, <3>5, OnlyAppended
    <3> QED  BY <3>2, <3>4, <3>5
  <2> QED  BY <2>1, <2>2, <2>3, <2>4, <2>5
<1>3. Taken(h, n, v)' \/ Ignored(h)'
  BY <1>0, <1>1, <1>2 DEF Taken, Ignored
<1> QED  BY <1>0, <1>1, <1>3 DEF LoneInv

(* The report is decoded to the value that was asked for.                  *)
LEMMA LoneProcess ==
    ASSUME Shape, HandlerShape, NEW h \in Handlers, LoneInv(h), processParamValues
    PROVE  LoneInv(h)'
<1>0. /\ UNCHANGED <<px4, up, pc, req, got, listing>>
      /\ ch # <<>> /\ ch' = Tail(ch) /\ ch \in Seq(Frame)
      /\ cache' = [cache EXCEPT ![Head(ch).name] = Decode(Head(ch).value, TypeOf(Head(ch).name))]
  BY ChOfFrames DEF processParamValues
<1>1. Head(ch) \in OwnValue
  BY <1>0, HeadOfCh
<1>2. PICK n \in Names, v \in Values : req[h] = <<n, v>> /\ (Taken(h, n, v) \/ Ignored(h))
  BY DEF LoneInv
<1>3. Taken(h, n, v)
  BY <1>0, <1>1, <1>2, OnlyTail DEF Ignored
<1>4. /\ Only(ch', n, Encode(v, TypeOf(n)))
      /\ Head(ch).name = n /\ Head(ch).value = Encode(v, TypeOf(n))
  BY <1>0, <1>1, <1>3, OnlyTail DEF Taken
<1>5. Decode(Encode(v, TypeOf(n)), TypeOf(n)) = v
  BY DEF Decode, Encode
<1>6. cache'[n] = v
  BY <1>0, <1>4, <1>5 DEF Shape
<1>7. Taken(h, n, v)'
  BY <1>0, <1>3, <1>4, <1>6 DEF Taken
<1> QED  BY <1>0, <1>2, <1>7 DEF LoneInv

(* A set that starts undisturbed: it is taken only in the parameter's own  *)
(* type, and then it is the only report under way.                         *)
LEMMA LoneStarts ==
    ASSUME Shape, HandlerShape, NEW h \in Handlers, SetParameter(h), quiet'[h]
    PROVE  LoneInv(h)'
<1>1. PICK n \in Names, v \in Values, s \in TypeNames :
        /\ req' = [req EXCEPT ![h] = <<n, v>>]
        /\ TakeSet(n, Encode(v, getMavParamType(s))) \/ UNCHANGED <<px4, up>>
  BY DEF SetParameter
<1>2. /\ pc' = [pc EXCEPT ![h] = "sent"] /\ quiet' = Disturb(h)
      /\ UNCHANGED <<listing, ch>>
  BY DEF SetParameter
<1>3. Undisturbed(h)
  BY <1>2 DEF Disturb
<1>4. /\ up = <<>> /\ ch = <<>> /\ listing = {} /\ pc'[h] = "sent" /\ req'[h] = <<n, v>>
      /\ \A g \in Handlers : g # h => pc'[g] = "idle"
  BY <1>1, <1>2, <1>3 DEF Undisturbed, Idle, HandlerShape
<1> DEFINE w == Encode(v, getMavParamType(s))
<1>5. CASE UNCHANGED <<px4, up>>
  <2>1. Ignored(h)'
    BY <1>2, <1>4, <1>5 DEF Ignored, Silent
  <2> QED  BY <1>2, <1>4, <2>1 DEF LoneInv
<1>6. CASE /\ px4' = [px4 EXCEPT ![n] = w]
           /\ up' = Append(up, ParamValue(PixhawkID, n, w))
           /\ w = Encode(w[2], TypeOf(n))
  <2>1. w = Encode(v, TypeOf(n)) /\ w \in Wire
    BY <1>6, EncodeWire DEF Encode
  <2>2. px4'[n] = Encode(v, TypeOf(n))
    BY <1>6, <2>1 DEF Shape
  <2> HIDE DEF w
  <2>3. Only(up', n, w)
    <3>1. Only(up, n, w) /\ up \in Seq(Frame)
      BY <1>4 DEF Only, Shape
    <3> DEFINE f == ParamValue(PixhawkID, n, w)
    <3>2. f \in Frame /\ f.name = n /\ f.value = w
      BY <2>1, ParamFrame
    <3>3. up' = Append(up, f)
      BY <1>6
    <3> HIDE DEF f
    <3> QED  BY <3>1, <3>2, <3>3, OnlyAppended
  <2>4. Only(ch', n, w)
    <3>1. ch' = <<>>
      BY <1>2, <1>4
    <3> QED  BY <3>1 DEF Only
  <2>5. Taken(h, n, v)'
    BY <1>4, <2>1, <2>2, <2>3, <2>4 DEF Taken
  <2> QED  BY <1>2, <1>4, <2>5 DEF LoneInv
<1> QED  BY <1>1, <1>5, <1>6, EncodeWire, SetTaken

(* Waiting begins without an update, and a poll answers with the cache.    *)
LEMMA LoneWaits ==
    ASSUME HandlerShape, NEW h \in Handlers, LoneInv(h), waitForParamResponse(h) \/ poll(h)
    PROVE  LoneInv(h)'
<1>1. UNCHANGED <<px4, up, ch, cache, listing, req>>
  BY DEF waitForParamResponse, poll, bridge
<1>2. PICK n \in Names, v \in Values : req[h] = <<n, v>> /\ (Taken(h, n, v) \/ Ignored(h))
  BY DEF LoneInv
<1>3. \A g \in Handlers : g # h => pc'[g] = "idle"
  BY DEF waitForParamResponse, poll, HandlerShape, LoneInv
<1>4. CASE waitForParamResponse(h)
  <2>1. pc'[h] = "waiting" /\ ~fresh'[h]
    BY <1>4 DEF waitForParamResponse, HandlerShape
  <2>2. Taken(h, n, v)' \/ Ignored(h)'
    BY <1>1, <1>2, <2>1 DEF Taken, Ignored
  <2> QED  BY <1>1, <1>2, <1>3, <2>2 DEF LoneInv
<1>5. CASE poll(h)
  <2>1. pc[h] = "waiting" /\ fresh[h] /\ pc'[h] = "success" /\ got'[h] = cache[n]
    BY <1>2, <1>5 DEF poll, HandlerShape
  <2>2. Taken(h, n, v)'
    BY <1>1, <1>2, <2>1 DEF Taken, Ignored
  <2> QED  BY <1>1, <1>2, <1>3, <2>2 DEF LoneInv
<1> QED  BY <1>4, <1>5

LEMMA HandlersKept == Shape /\ EchoInv /\ HandlerShape /\ [Next]_vars => HandlerShape'
<1> SUFFICES ASSUME Shape, EchoInv, HandlerShape, [Next]_vars PROVE HandlerShape'
  OBVIOUS
<1>1. CASE \/ Px4Stream \/ Px4Heartbeat \/ GcsFrame \/ LinkLoss \/ receiveAndForward \/ CloudSends
           \/ UNCHANGED vars
  BY <1>1 DEF Px4Stream, Px4Heartbeat, GcsFrame, LinkLoss, receiveAndForward, CloudSends, vars,
     handlers, HandlerShape
<1>2. CASE receiveFromServer
  BY <1>2, ServerStep DEF HandlerShape
<1>3. CASE processParamValues
  BY <1>3 DEF processParamValues, HandlerShape
<1>4. ASSUME NEW h \in Handlers, RequestParameterList(h) \/ SetParameter(h) PROVE HandlerShape'
  <2>1. /\ \E x : pc' = [pc EXCEPT ![h] = x]
        /\ \E x : req' = [req EXCEPT ![h] = x]
        /\ UNCHANGED <<fresh, got>> /\ quiet' = Disturb(h)
    <3>1. req = [req EXCEPT ![h] = req[h]]
      BY DEF HandlerShape
    <3> QED  BY <1>4, <3>1 DEF RequestParameterList, SetParameter
  <2> QED  BY <2>1 DEF HandlerShape, Disturb
<1>5. ASSUME NEW h \in Handlers,
             listWritten(h) \/ waitForParamResponse(h) \/ poll(h) \/ answer(h)
      PROVE  HandlerShape'
  BY <1>5 DEF listWritten, waitForParamResponse, poll, answer, HandlerShape
<1> QED  BY <1>1, <1>2, <1>3, <1>4, <1>5 DEF Next

LEMMA LoneKept ==
    ASSUME Shape, EchoInv, SetInv, [Next]_vars, NEW h \in Handlers, Pending(h)'
    PROVE  LoneInv(h)'
<1>0. HandlerShape /\ (Pending(h) => LoneInv(h))
  BY DEF SetInv
<1>1. CASE UNCHANGED <<px4, up, ch, cache, listing, handlers>>
  <2>1. Pending(h) /\ UNCHANGED <<pc, req, fresh, got, quiet>>
    BY <1>1 DEF handlers, Pending
  <2> QED  BY <1>0, <1>1, <2>1 DEF LoneInv, Taken, Ignored
<1>2. CASE Px4Stream \/ Px4Heartbeat \/ GcsFrame \/ LinkLoss \/ receiveAndForward
  <2>1. Pending(h)
    BY <1>2 DEF Px4Stream, Px4Heartbeat, GcsFrame, LinkLoss, receiveAndForward, handlers, Pending
  <2> QED  BY <1>0, <1>2, <2>1, LoneLink
<1>3. CASE CloudSends \/ UNCHANGED vars
  BY <1>1, <1>3 DEF CloudSends, vars, bridge
<1>4. CASE receiveFromServer
  <2>1. UNCHANGED <<px4, up, quiet>>
    BY <1>4, ServerStep DEF Pending
  <2> QED  BY <1>1, <1>4, <2>1, ServerStep DEF handlers
<1>5. CASE processParamValues
  <2>1. Pending(h)
    BY <1>5 DEF processParamValues, Pending
  <2> QED  BY <1>0, <1>5, <2>1, LoneProcess
<1>6. ASSUME NEW g \in Handlers, RequestParameterList(g) PROVE FALSE
  BY <1>0, <1>6 DEF RequestParameterList, Disturb, Pending, HandlerShape
<1>7. ASSUME NEW g \in Handlers, SetParameter(g) PROVE LoneInv(h)'
  <2>1. h = g
    BY <1>7 DEF SetParameter, Disturb, Pending
  <2> QED  BY <1>0, <1>7, <2>1, LoneStarts DEF Pending
<1>8. ASSUME NEW g \in Handlers,
             listWritten(g) \/ waitForParamResponse(g) \/ poll(g) \/ answer(g)
      PROVE  LoneInv(h)'
  <2>1. CASE g # h
    <3>1. pc'[h] = pc[h] /\ quiet'[h] = quiet[h] /\ pc[g] # "idle"
      BY <1>0, <1>8, <2>1 DEF listWritten, waitForParamResponse, poll, answer, HandlerShape
    <3>2. Pending(h)
      BY <3>1 DEF Pending
    <3> QED  BY <1>0, <2>1, <3>1, <3>2 DEF LoneInv
  <2>2. CASE g = h
    <3>1. ~listWritten(h) /\ ~answer(h)
      BY <1>0 DEF listWritten, answer, Pending, HandlerShape
    <3>2. Pending(h)
      BY <1>8, <2>2, <3>1 DEF waitForParamResponse, poll, Pending
    <3> QED  BY <1>0, <1>8, <2>2, <3>1, <3>2, LoneWaits
  <2> QED  BY <2>1, <2>2
<1> QED  BY <1>2, <1>3, <1>4, <1>5, <1>6, <1>7, <1>8 DEF Next

(* A set that nothing disturbs is answered with success only when the      *)
(* autopilot took it, and with the value that was asked for: the update    *)
(* waitForParamResponse waits for can then only be the report of this set. *)
THEOREM LoneSetConfirmed == Spec => []LoneSetTaken
<1>1. Init => SetInv
  BY DEF Init, SetInv, HandlerShape, Pending
<1>2. Shape /\ EchoInv /\ SetInv /\ [Next]_vars => (Shape /\ EchoInv /\ SetInv)'
  BY ShapeKept, EchoKept, HandlersKept, LoneKept DEF SetInv
<1>3. SetInv => LoneSetTaken
  <2> SUFFICES ASSUME SetInv, NEW h \in Handlers, pc[h] = "success", quiet[h]
               PROVE  /\ got[h] = req[h][2]
                      /\ px4[req[h][1]] = Encode(req[h][2], TypeOf(req[h][1]))
    BY DEF LoneSetTaken
  <2>1. LoneInv(h)
    BY DEF SetInv, Pending
  <2>2. PICK n \in Names, v \in Values : req[h] = <<n, v>> /\ (Taken(h, n, v) \/ Ignored(h))
    BY <2>1 DEF LoneInv
  <2>3. Taken(h, n, v)
    BY <2>2 DEF Ignored
  <2>4. px4[n] = Encode(v, TypeOf(n)) /\ got[h] = v
    BY <2>3 DEF Taken
  <2>5. req[h][1] = n /\ req[h][2] = v
    BY <2>2
  <2> QED  BY <2>4, <2>5
<1> QED  BY InitShape, <1>1, <1>2, <1>3, PTL DEF Spec

-----------------------------------------------------------------------------
(* The shape and the bounds of the state.  What a report carries is in one *)
(* of the two forms, so that decoding it gives a value of the cache.       *)

Carries(f) == f.kind = "param" => f.value \in Wire
Decoded == Values \cup {None, "garbled", "foreign"}

WireInv ==
    /\ px4 \in [Names -> {"bits", "number"} \X Values]
    /\ \A i \in 1..Len(up) : Carries(up[i])
    /\ \A i \in 1..Len(ch) : Carries(ch[i])
    /\ cache \in [Names -> Decoded]

(* The channel and the link's queue stay within their capacities, and the  *)
(* console's counts within the number of parameters.                       *)
BoundInv ==
    /\ Len(up) <= MaxUp /\ Len(down) <= 1 /\ Len(ch) <= ChanCap
    /\ received \in 0..Cardinality(Names) /\ total \in {0, Cardinality(Names)}
    /\ loading \in BOOLEAN /\ lost \in BOOLEAN
    /\ calls \in 0..MaxCalls

HandlerTypes ==
    /\ pc \in [Handlers -> {"idle", "listing", "sent", "waiting", "success"}]
    /\ fresh \in [Handlers -> BOOLEAN] /\ quiet \in [Handlers -> BOOLEAN]

LEMMA CarriesAppended ==
    ASSUME NEW s \in Seq(Frame), NEW f \in Frame, \A i \in 1..Len(s) : Carries(s[i]), Carries(f)
    PROVE  \A i \in 1..Len(Append(s, f)) : Carries(Append(s, f)[i])
<1>1. /\ Len(Append(s, f)) = Len(s) + 1 /\ Append(s, f)[Len(s) + 1] = f /\ Len(s) \in Nat
      /\ \A i \in 1..Len(s) : Append(s, f)[i] = s[i]
  OBVIOUS
<1>2. \A i \in 1..(Len(s) + 1) : i = Len(s) + 1 \/ i \in 1..Len(s)
  BY <1>1
<1> QED  BY <1>1, <1>2

LEMMA CarriesTail ==
    ASSUME NEW s \in Seq(Frame), s # <<>>, \A i \in 1..Len(s) : Carries(s[i])
    PROVE  Carries(Head(s)) /\ \A i \in 1..Len(Tail(s)) : Carries(Tail(s)[i])
<1>1. /\ Head(s) = s[1] /\ 1 \in 1..Len(s)
      /\ \A i \in 1..Len(Tail(s)) : Tail(s)[i] = s[i + 1] /\ i + 1 \in 1..Len(s)
  OBVIOUS
<1> QED  BY <1>1

(* A PARAM_SET the autopilot takes or ignores.                             *)
LEMMA SetWires ==
    ASSUME Shape, WireInv, NEW n \in Names, NEW v \in Values, NEW t,
           TakeSet(n, Encode(v, t)), UNCHANGED <<ch, cache>>
    PROVE  WireInv'
<1>1. Encode(v, t) \in {"bits", "number"} \X Values /\ Encode(v, t) \in Wire
  BY EncodeWire DEF Encode
<1>2. CASE UNCHANGED <<px4, up>>
  BY <1>2 DEF WireInv
<1>3. CASE /\ px4' = [px4 EXCEPT ![n] = Encode(v, t)]
           /\ up' = Append(up, ParamValue(PixhawkID, n, Encode(v, t)))
  <2> DEFINE f == ParamValue(PixhawkID, n, Encode(v, t))
  <2>1. f \in Frame /\ Carries(f)
    BY <1>1, ParamFrame DEF Carries
  <2>2. \A i \in 1..Len(up') : Carries(up'[i])
    BY <1>3, <2>1, CarriesAppended DEF Shape, WireInv
  <2>3. px4' \in [Names -> {"bits", "number"} \X Values]
    BY <1>1, <1>3 DEF WireInv
  <2> QED  BY <2>2, <2>3 DEF WireInv
<1> QED  BY <1>1, <1>2, <1>3, SetTaken

(* A message of the cloud that is a set carries a value of the parameter.  *)
LEMMA ServerSet ==
    ASSUME Shape, EchoInv, receiveFromServer
    PROVE  \/ UNCHANGED <<px4, up>>
           \/ \E n \in Names, v \in Values : TakeSet(n, Encode(v, TypeOf(n)))
<1>1. CASE \E k \in {"heartbeat", "param"} : Connected /\ down = <<[sys |-> PixhawkID, kind |-> k]>>
  <2>1. Drops(Head(down))
    BY <1>1 DEF EchoInv, Connected, Drops, PixhawkID
  <2> QED  BY <2>1 DEF receiveFromServer
<1>2. ASSUME NEW n \in Names, NEW v \in Values,
             down = <<[sys |-> GcsID, kind |-> "set", name |-> n, value |-> v]>>
      PROVE  UNCHANGED <<px4, up>> \/ TakeSet(n, Encode(v, TypeOf(n)))
  <2>1. Head(down).kind = "set" /\ Head(down).name = n /\ Head(down).value = v
    BY <1>2
  <2> QED  BY <2>1 DEF receiveFromServer
<1>3. down # <<>>
  BY DEF receiveFromServer
<1> QED  BY <1>1, <1>2, <1>3 DEF EchoInv, Downlink

LEMMA WireKept == Shape /\ EchoInv /\ WireInv /\ [Next]_vars => WireInv'
<1> SUFFICES ASSUME Shape, EchoInv, WireInv, [Next]_vars PROVE WireInv'
  OBVIOUS
<1>0. up \in Seq(Frame) /\ ch \in Seq(Frame)
  BY ChOfFrames DEF Shape
<1>w. /\ \A i \in 1..Len(up) : Carries(up[i])
      /\ \A i \in 1..Len(ch) : Carries(ch[i])
  BY DEF WireInv
<1>1. ASSUME NEW f \in Frame, Carries(f), up' = Append(up, f), UNCHANGED <<px4, ch, cache>>
      PROVE  WireInv'
  BY <1>0, <1>w, <1>1, CarriesAppended DEF WireInv
<1>2. CASE Px4Stream
  <2>1. PICK n \in listing : up' = Append(up, ParamValue(PixhawkID, n, px4[n]))
    BY <1>2 DEF Px4Stream
  <2>2. n \in Names /\ px4[n] \in Wire
    BY DEF Shape
  <2>3. ParamValue(PixhawkID, n, px4[n]) \in Frame /\ Carries(ParamValue(PixhawkID, n, px4[n]))
    BY <2>2, ParamFrame DEF Carries
  <2> QED  BY <1>1, <1>2, <2>1, <2>3 DEF Px4Stream, bridge
<1>3. CASE Px4Heartbeat
  <2>1. Heartbeat(PixhawkID) \in Frame /\ Carries(Heartbeat(PixhawkID))
    BY DEF Heartbeat, Frame, Carries
  <2> QED  BY <1>1, <1>3, <2>1 DEF Px4Heartbeat, bridge
<1>4. CASE GcsFrame
  <2>1. PICK n \in Names : up' = Append(up, ParamValue(GcsID, n, Encode("foreign", TypeOf(n))))
    BY <1>4 DEF GcsFrame
  <2> DEFINE f == ParamValue(GcsID, n, Encode("foreign", TypeOf(n)))
  <2>2. Encode("foreign", TypeOf(n)) \in Wire
    BY EncodeWire
  <2>3. f \in Frame /\ Carries(f)
    BY <2>2, ParamFrame DEF Carries
  <2> QED  BY <1>1, <1>4, <2>1, <2>3 DEF GcsFrame, bridge
<1>5. CASE LinkLoss
  <2>1. up # <<>> /\ up' = Tail(up) /\ UNCHANGED <<px4, ch, cache>>
    BY <1>5 DEF LinkLoss, bridge
  <2> QED  BY <1>0, <1>w, <2>1, CarriesTail DEF WireInv
<1>6. CASE receiveAndForward
  <2>1. up # <<>> /\ up' = Tail(up) /\ UNCHANGED <<px4, cache>>
    BY <1>6 DEF receiveAndForward, bridge
  <2>2. Carries(Head(up)) /\ \A i \in 1..Len(up') : Carries(up'[i])
    BY <1>0, <1>w, <2>1, CarriesTail
  <2>3. Head(up) \in Frame /\ (ch' = ch \/ ch' = Append(ch, Head(up)))
    BY <1>6, ForwardShape
  <2>4. \A i \in 1..Len(ch') : Carries(ch'[i])
    BY <1>0, <1>w, <2>2, <2>3, CarriesAppended
  <2> QED  BY <2>1, <2>2, <2>4 DEF WireInv
<1>7. CASE receiveFromServer
  <2>1. UNCHANGED <<ch, cache>>
    BY <1>7 DEF receiveFromServer, bridge
  <2>2. CASE UNCHANGED <<px4, up>>
    BY <2>1, <2>2 DEF WireInv
  <2> QED  BY <1>7, <2>1, <2>2, ServerSet, SetWires
<1>8. CASE processParamValues
  <2>1. /\ ch # <<>> /\ ch' = Tail(ch) /\ UNCHANGED <<px4, up>>
        /\ cache' = [cache EXCEPT ![Head(ch).name] = Decode(Head(ch).value, TypeOf(Head(ch).name))]
    BY <1>8 DEF processParamValues
  <2>2. Carries(Head(ch)) /\ \A i \in 1..Len(ch') : Carries(ch'[i])
    BY <1>0, <1>w, <2>1, CarriesTail
  <2>3. Head(ch).value \in Wire
    BY <2>1, <2>2, HeadOfCh DEF Carries, OwnValue
  <2>4. Decode(Head(ch).value, TypeOf(Head(ch).name)) \in Decoded
    BY <2>3 DEF Decode, Wire, Decoded
  <2>5. cache' \in [Names -> Decoded]
    BY <2>1, <2>4 DEF WireInv
  <2> QED  BY <2>1, <2>2, <2>5 DEF WireInv
<1>9. ASSUME NEW h \in Handlers, RequestParameterList(h) PROVE WireInv'
  <2>1. cache' = [n \in Names |-> None] /\ UNCHANGED <<px4, up, ch>>
    BY <1>9 DEF RequestParameterList, ClearCache
  <2> QED  BY <2>1 DEF WireInv, Decoded
<1>10. ASSUME NEW h \in Handlers, SetParameter(h) PROVE WireInv'
  <2>1. UNCHANGED <<ch, cache>>
    BY <1>10 DEF SetParameter, bridge
  <2>2. CASE UNCHANGED <<px4, up>>
    BY <2>1, <2>2 DEF WireInv
  <2>3. ASSUME NEW n \in Names, NEW v \in Values, NEW s, TakeSet(n, Encode(v, getMavParamType(s)))
        PROVE  WireInv'
    BY <2>1, <2>3, SetWires
  <2> QED  BY <1>10, <2>2, <2>3 DEF SetParameter
<1>11. CASE \/ CloudSends \/ UNCHANGED vars
            \/ \E h \in Handlers : listWritten(h) \/ waitForParamResponse(h) \/ poll(h) \/ answer(h)
  <2>1. UNCHANGED <<px4, up, ch, cache>>
    BY <1>11 DEF CloudSends, vars, bridge, listWritten, waitForParamResponse, poll, answer
  <2> QED  BY <2>1 DEF WireInv
<1> QED
  BY <1>2, <1>3, <1>4, <1>5, <1>6, <1>7, <1>8, <1>9, <1>10, <1>11 DEF Next

(* The queues: a full channel takes no frame, and the autopilot puts none  *)
(* on a full link.                                                         *)
LEMMA QueuesBounded ==
    ASSUME Shape, EchoInv, BoundInv, [Next]_vars
    PROVE  Len(up') <= MaxUp /\ Len(down') <= 1 /\ Len(ch') <= ChanCap
<1> USE ParamAssumption
<1>0. /\ up \in Seq(Frame) /\ ch \in Seq(Frame) /\ Len(up) <= MaxUp /\ Len(ch) <= ChanCap
      /\ Len(down) <= 1
  BY ChOfFrames DEF Shape, BoundInv
<1>1. /\ \A f : Len(Append(up, f)) = Len(up) + 1 /\ Len(Append(ch, f)) = Len(ch) + 1
      /\ up # <<>> => Len(Tail(up)) = Len(up) - 1
      /\ ch # <<>> => Len(Tail(ch)) = Len(ch) - 1
      /\ Len(up) \in Nat /\ Len(ch) \in Nat
  BY <1>0
<1>2. ASSUME NEW n, NEW w, TakeSet(n, w) PROVE Len(up') <= MaxUp
  BY <1>0, <1>1, <1>2 DEF TakeSet
<1>3. CASE Px4Stream \/ Px4Heartbeat \/ GcsFrame
  <2>1. UNCHANGED <<down, ch>>
    BY <1>3 DEF Px4Stream, Px4Heartbeat, GcsFrame
  <2>2. up = <<>> => Len(up) = 0
    OBVIOUS
  <2>3. Len(up) < MaxUp /\ \E f : up' = Append(up, f)
    BY <1>3, <2>2 DEF Px4Stream, Px4Heartbeat, GcsFrame
  <2> QED  BY <1>0, <1>1, <2>1, <2>3
<1>4. CASE LinkLoss
  BY <1>0, <1>1, <1>4 DEF LinkLoss
<1>5. CASE receiveAndForward
  <2>1. up # <<>> /\ up' = Tail(up) /\ down' = down
    BY <1>5 DEF receiveAndForward
  <2>2. ch' = ch \/ (Len(ch) < ChanCap /\ ch' = Append(ch, Head(up)))
    BY <1>5 DEF receiveAndForward, HandleParamValue
  <2> QED  BY <1>0, <1>1, <2>1, <2>2
<1>6. CASE CloudSends
  <2>1. UNCHANGED <<up, ch>> /\ \E m : down' = <<m>>
    BY <1>6 DEF CloudSends
  <2> QED  BY <1>0, <2>1
<1>7. CASE receiveFromServer
  <2>1. down' = <<>> /\ ch' = ch
    BY <1>7 DEF receiveFromServer
  <2>2. Len(up') <= MaxUp
    BY <1>0, <1>2, <1>7, ServerSet
  <2> QED  BY <1>0, <2>1, <2>2
<1>8. CASE processParamValues
  <2>1. ch # <<>> /\ ch' = Tail(ch) /\ up' = up /\ down' = down
    BY <1>8 DEF processParamValues
  <2> QED  BY <1>0, <1>1, <2>1
<1>9. ASSUME NEW h \in Handlers, SetParameter(h) PROVE Len(up') <= MaxUp /\ UNCHANGED <<down, ch>>
  BY <1>0, <1>2, <1>9 DEF SetParameter
<1>10. CASE \/ UNCHANGED vars
            \/ \E h \in Handlers : \/ RequestParameterList(h) \/ listWritten(h)
                                   \/ waitForParamResponse(h) \/ poll(h) \/ answer(h)
  <2>1. UNCHANGED <<up, down, ch>>
    BY <1>10 DEF vars, RequestParameterList, listWritten, waitForParamResponse, poll, answer
  <2> QED  BY <1>0, <2>1
<1> QED
  BY <1>0, <1>3, <1>4, <1>5, <1>6, <1>7, <1>8, <1>9, <1>10 DEF Next

(* The counts: paramReceived is the number of cached names, which are some *)
(* of the parameters.                                                      *)
LEMMA CountsBounded ==
    ASSUME Shape, EchoInv, BoundInv, [Next]_vars
    PROVE  /\ received' \in 0..Cardinality(Names) /\ total' \in {0, Cardinality(Names)}
           /\ loading' \in BOOLEAN
<1>0. /\ received \in 0..Cardinality(Names) /\ total \in {0, Cardinality(Names)}
      /\ loading \in BOOLEAN /\ Cardinality(Names) \in Nat
  BY ParamAssumption, FS_CardinalityType DEF BoundInv
<1>1. CASE processParamValues
  <2>1. Cached(cache') \in SUBSET Names
    BY DEF Cached
  <2>2. Cardinality(Cached(cache')) \in Nat /\ Cardinality(Cached(cache')) <= Cardinality(Names)
    BY <2>1, ParamAssumption, FS_Subset, FS_CardinalityType
  <2>3. /\ received' = Cardinality(Cached(cache')) /\ total' = Cardinality(Names)
        /\ loading' = (loading /\ received' < total')
    BY <1>1 DEF processParamValues
  <2> QED  BY <1>0, <2>2, <2>3
<1>2. ASSUME NEW h \in Handlers, RequestParameterList(h)
      PROVE  received' = 0 /\ total' = 0 /\ loading' = TRUE
  BY <1>2 DEF RequestParameterList, ClearCache
<1>3. ASSUME NEW h \in Handlers, listWritten(h)
      PROVE  UNCHANGED <<received, total>> /\ loading' \in {loading, FALSE}
  BY <1>3 DEF listWritten, bridge
<1>4. CASE UNCHANGED <<received, total, loading>>
  BY <1>0, <1>4
<1>5. CASE \/ Px4Stream \/ Px4Heartbeat \/ GcsFrame \/ LinkLoss \/ receiveAndForward
           \/ CloudSends \/ receiveFromServer \/ UNCHANGED vars
           \/ \E h \in Handlers : \/ SetParameter(h) \/ waitForParamResponse(h)
                                  \/ poll(h) \/ answer(h)
  BY <1>4, <1>5 DEF Px4Stream, Px4Heartbeat, GcsFrame, LinkLoss, receiveAndForward, CloudSends,
     receiveFromServer, vars, bridge, SetParameter, waitForParamResponse, poll, answer
<1>6. ASSUME NEW h \in Handlers, RequestParameterList(h) \/ listWritten(h)
      PROVE  /\ received' \in 0..Cardinality(Names) /\ total' \in {0, Cardinality(Names)}
             /\ loading' \in BOOLEAN
  <2>1. loading' \in BOOLEAN
    BY <1>0, <1>2, <1>3, <1>6, Zenon
  <2>2. \/ received' = 0 /\ total' = 0
        \/ received' = received /\ total' = total
    BY <1>2, <1>3, <1>6, Zenon
  <2> QED  BY <1>0, <2>1, <2>2
<1> QED  BY <1>1, <1>5, <1>6 DEF Next

(* What the behaviour has seen so far.                                     *)
LEMMA HistoryTyped ==
    ASSUME Shape, EchoInv, BoundInv, [Next]_vars
    PROVE  lost' \in BOOLEAN /\ calls' \in 0..MaxCalls
<1>0. lost \in BOOLEAN /\ calls \in 0..MaxCalls /\ MaxCalls \in Nat
  BY ParamAssumption DEF BoundInv
<1>1. Called => calls' \in 0..MaxCalls
  BY <1>0 DEF Called
<1>2. (lost' = lost \/ lost' = TRUE) /\ (calls' = calls \/ Called)
  BY DEF Next, vars, history, Px4Stream, Px4Heartbeat, GcsFrame, LinkLoss, receiveAndForward,
     HandleParamValue, CloudSends, receiveFromServer, processParamValues, RequestParameterList,
     listWritten, SetParameter, waitForParamResponse, poll, answer
<1> QED  BY <1>0, <1>1, <1>2

LEMMA HandlersTyped ==
    ASSUME HandlerTypes, Shape, EchoInv, [Next]_vars
    PROVE  HandlerTypes'
<1>1. CASE \/ Px4Stream \/ Px4Heartbeat \/ GcsFrame \/ LinkLoss \/ receiveAndForward \/ CloudSends
           \/ UNCHANGED vars
  BY <1>1 DEF Px4Stream, Px4Heartbeat, GcsFrame, LinkLoss, receiveAndForward, CloudSends, vars,
     handlers, HandlerTypes
<1>2. CASE receiveFromServer
  <2>1. UNCHANGED <<pc, fresh>> /\ (quiet' = quiet \/ quiet' = [g \in Handlers |-> FALSE])
    BY <1>2, ServerStep
  <2> QED  BY <2>1 DEF HandlerTypes
<1>3. CASE processParamValues
  <2>1. UNCHANGED <<pc, quiet>> /\ fresh' = [h \in Handlers |-> fresh[h] \/ pc[h] = "waiting"]
    BY <1>3 DEF processParamValues
  <2> QED  BY <2>1 DEF HandlerTypes
<1>4. ASSUME NEW h \in Handlers, RequestParameterList(h) \/ SetParameter(h) PROVE HandlerTypes'
  <2>1. Disturb(h) \in [Handlers -> BOOLEAN]
    BY DEF Disturb, Undisturbed, Idle
  <2>2. /\ \E x \in {"listing", "sent"} : pc' = [pc EXCEPT ![h] = x]
        /\ fresh' = fresh /\ quiet' = Disturb(h)
    BY <1>4 DEF RequestParameterList, SetParameter
  <2> QED  BY <2>1, <2>2 DEF HandlerTypes
<1>5. ASSUME NEW h \in Handlers,
             listWritten(h) \/ waitForParamResponse(h) \/ poll(h) \/ answer(h)
      PROVE  HandlerTypes'
  BY <1>5 DEF listWritten, waitForParamResponse, poll, answer, HandlerTypes
<1> QED  BY <1>1, <1>2, <1>3, <1>4, <1>5 DEF Next

(* Every reachable state is well typed and within its bounds: the channel  *)
(* never holds more than its capacity, paramReceived never exceeds the     *)
(* number of parameters, and whatever the autopilot and the cloud do,      *)
(* processParamValues decodes what it takes.                               *)
THEOREM TypeCorrect == Spec => []TypeOK
<1> DEFINE TInv == WireInv /\ BoundInv /\ HandlerTypes
<1>1. Init => TInv
  <2> SUFFICES ASSUME Init PROVE TInv
    OBVIOUS
  <2>1. WireInv
    <3>1. \A n \in Names : Encode(First, TypeOf(n)) \in {"bits", "number"} \X Values
      BY ParamAssumption DEF Encode
    <3> QED  BY <3>1 DEF Init, WireInv, Decoded
  <2>2. BoundInv
    <3>1. Cardinality(Names) \in Nat /\ MaxUp \in Nat /\ ChanCap \in Nat /\ MaxCalls \in Nat
      BY ParamAssumption, FS_CardinalityType
    <3>2. /\ up = <<>> /\ down = <<>> /\ ch = <<>> /\ received = 0 /\ total = 0 /\ calls = 0
          /\ loading = FALSE /\ lost = FALSE
      BY DEF Init
    <3>3. Len(up) = 0 /\ Len(down) = 0 /\ Len(ch) = 0
      BY <3>2
    <3>4. loading \in BOOLEAN /\ lost \in BOOLEAN
      BY <3>2, Zenon
    <3>5. /\ Len(up) <= MaxUp /\ Len(down) <= 1 /\ Len(ch) <= ChanCap
          /\ received \in 0..Cardinality(Names) /\ total \in {0, Cardinality(Names)}
          /\ calls \in 0..MaxCalls
      BY <3>1, <3>2, <3>3
    <3> QED  BY <3>4, <3>5, Zenon DEF BoundInv
  <2>3. HandlerTypes
    BY DEF Init, HandlerTypes
  <2> QED  BY <2>1, <2>2, <2>3
<1>2. Shape /\ EchoInv /\ TInv /\ [Next]_vars => (Shape /\ EchoInv /\ TInv)'
  <2> SUFFICES ASSUME Shape, EchoInv, TInv, [Next]_vars PROVE (Shape /\ EchoInv /\ TInv)'
    OBVIOUS
  <2>1. BoundInv'
    BY QueuesBounded, CountsBounded, HistoryTyped DEF BoundInv
  <2> QED  BY <2>1, ShapeKept, EchoKept, WireKept, HandlersTyped
<1>3. Shape /\ EchoInv /\ TInv => TypeOK
  <2> SUFFICES ASSUME Shape, EchoInv, TInv PROVE TypeOK
    OBVIOUS
  <2>1. /\ px4 \in [Names -> {"bits", "number"} \X Values]
        /\ cache \in [Names -> Values \cup {None, "garbled", "foreign"}]
    BY Zenon DEF WireInv, Decoded
  <2>2. listing \subseteq Names
    BY DEF Shape
  <2>3. pixhawkSysID \in 0..255
    BY DEF EchoInv, PixhawkID
  <2> QED  BY <2>1, <2>2, <2>3, Zenon DEF BoundInv, HandlerTypes, TypeOK
<1> QED  BY InitShape, <1>1, <1>2, <1>3, PTL DEF Spec
=============================================================================
