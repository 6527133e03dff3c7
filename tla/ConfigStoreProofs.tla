-------------------------- MODULE ConfigStoreProofs --------------------------
(***************************************************************************)
(* Proofs about ConfigStore for any number of handlers, any values, any    *)
(* number of requests and crashes: no save wipes settings out; requests    *)
(* served one by one lose nothing; and the JSON files follow config.yaml.  *)
(***************************************************************************)
EXTENDS ConfigStore, TLAPS

Kinds == {"stream", "primary", "mode", "priority", "driver", "port"}

(* A whole configuration, none of whose settings is empty.                 *)
AnyText == UNION {Texts(f) : f \in Settings}
IsConfig(c) == c \in [Settings -> AnyText] /\ \A f \in Settings : c[f] \in Texts(f)

-----------------------------------------------------------------------------
(* What the helpers do to a configuration.                                 *)

LEMMA TextsOf ==
    /\ Texts("stream") = {InitialConfig["stream"]} \cup (Values["stream"] \cup {"filled", "default"})
    /\ Texts("primary") = {InitialConfig["primary"]} \cup {"cam0", "cam1"}
    /\ Texts("mode") = {InitialConfig["mode"]} \cup (Values["mode"] \cup {"wifi_only", "prefer_4g"})
    /\ Texts("driver") = {InitialConfig["driver"]} \cup (Values["driver"] \cup {"sim7600_qmi"})
    /\ Texts("port") = {InitialConfig["port"]} \cup Values["port"]
BY DEF Texts

(* A configuration stays one when a setting gets one of its values.        *)
LEMMA SetKeeps ==
    ASSUME NEW c, IsConfig(c), NEW f \in Settings, NEW v \in Texts(f),
           NEW d, d = [c EXCEPT ![f] = v]
    PROVE  /\ IsConfig(d) /\ d[f] = v
           /\ \A g \in Settings : g # f => d[g] = c[g]
BY DEF IsConfig, AnyText

LEMMA InitialIsConfig == IsConfig(InitialConfig)
<1>1. \A f \in Settings : InitialConfig[f] \in Texts(f)
  BY DEF Texts
<1>2. InitialConfig \in [Settings -> AnyText]
  <2>1. \A f \in Settings : InitialConfig[f] \in AnyText
    BY <1>1 DEF AnyText
  <2> QED  BY <2>1, ConfigAssumption
<1> QED  BY <1>1, <1>2 DEF IsConfig

LEMMA SizeIsNat ==
    ASSUME NEW c, IsConfig(c)
    PROVE  Size(c) \in Nat
<1>1. \A f \in Settings : Length(f, c[f]) \in Nat
  BY ConfigAssumption DEF IsConfig
<1> QED  BY <1>1 DEF Size, Settings

LEMMA DefaultsKeep ==
    ASSUME NEW c, IsConfig(c)
    PROVE  EnsureDefaultStreams(c) = c
<1>1. c["stream"] # ""
  BY ConfigAssumption DEF IsConfig, Settings
<1> QED  BY <1>1 DEF EnsureDefaultStreams, IsConfig, Settings

LEMMA NormalizeKeeps ==
    ASSUME NEW c, IsConfig(c)
    PROVE  /\ IsConfig(Normalize(c))
           /\ Normalize(c)["stream"] = (IF c["stream"] = "bare" THEN "filled" ELSE c["stream"])
           /\ \A f \in Settings \ {"stream"} : Normalize(c)[f] = c[f]
<1> DEFINE d == IF c["driver"] = "" THEN "sim7600_qmi" ELSE c["driver"]
           s == IF c["stream"] = "bare" THEN "filled" ELSE c["stream"]
<1>1. d = c["driver"] /\ s \in Texts("stream") /\ "stream" \in Settings
  BY ConfigAssumption, TextsOf DEF IsConfig, Settings
<1>2. Normalize(c) = [c EXCEPT !["stream"] = s]
  BY <1>1 DEF Normalize, IsConfig, Settings
<1>3. IsConfig(Normalize(c)) /\ Normalize(c)["stream"] = s
      /\ \A f \in Settings : f # "stream" => Normalize(c)[f] = c[f]
  <2> HIDE DEF s
  <2> QED  BY <1>1, <1>2 DEF IsConfig, AnyText
<1> QED  BY <1>3

LEMMA NormalizeTwice ==
    ASSUME NEW c, IsConfig(c)
    PROVE  Normalize(Normalize(c)) = Normalize(c)
<1> DEFINE n == Normalize(c)
<1>1. /\ IsConfig(n) /\ n["stream"] # "bare"
      /\ IsConfig(Normalize(n)) /\ \A f \in Settings : Normalize(n)[f] = n[f]
  BY NormalizeKeeps DEF Settings
<1> QED  BY <1>1 DEF IsConfig

(* A request changes the setting it is about and no other.                 *)
LEMMA ChangedKeeps ==
    ASSUME NEW c, IsConfig(c), NEW k \in Kinds, NEW v \in Values[k]
    PROVE  /\ IsConfig(Changed(k, c, v))
           /\ k \notin CameraSettings => \A f \in CameraSettings : Changed(k, c, v)[f] = c[f]
<1> USE TextsOf, SetKeeps, DefaultsKeep DEF Settings, CameraSettings, Kinds
<1>1. CASE k = "stream"
  <2>1. Changed(k, c, v) = [c EXCEPT !["stream"] = v]
    BY <1>1 DEF Changed, saveCameraStreamFromUI
  <2> QED  BY <1>1, <2>1
<1>2. CASE k = "primary"
  <2> DEFINE w == IF v \in {"cam0", "cam1"} THEN v ELSE c["primary"]
  <2>1. Changed(k, c, v) = [c EXCEPT !["primary"] = w]
    BY <1>2 DEF Changed, saveCameraGlobalFromUI
  <2>2. w \in Texts("primary")
    BY DEF IsConfig
  <2> HIDE DEF w
  <2> QED  BY <1>2, <2>1, <2>2
<1>3. CASE k = "mode"
  <2>1. Changed(k, c, v) = [c EXCEPT !["mode"] = v]
    BY <1>3 DEF Changed, applyNetworkMode
  <2> QED  BY <1>3, <2>1
<1>4. CASE k = "priority"
  <2> DEFINE w == IF v = "wifi" THEN "wifi_only" ELSE "prefer_4g"
  <2>1. Changed(k, c, v) = [c EXCEPT !["mode"] = w]
    BY <1>4 DEF Changed, applyNetworkMode, legacyPriorityToMode
  <2>2. w \in Texts("mode")
    OBVIOUS
  <2> HIDE DEF w
  <2> QED  BY <1>4, <2>1, <2>2
<1>5. CASE k = "driver"
  <2>1. Changed(k, c, v) = [c EXCEPT !["driver"] = v]
    BY <1>5 DEF Changed, applyCellularModule
  <2> QED  BY <1>5, <2>1
<1>6. CASE k = "port"
  <2>1. Changed(k, c, v) = [c EXCEPT !["port"] = v]
    BY <1>6 DEF Changed, updateNetwork
  <2> QED  BY <1>6, <2>1
<1> QED  BY <1>1, <1>2, <1>3, <1>4, <1>5, <1>6

(* The camera settings of a configuration, none of them empty.             *)
LEMMA CameraPartIs ==
    ASSUME NEW c, IsConfig(c)
    PROVE  /\ CameraPart(c) = [f \in CameraSettings |-> c[f]]
           /\ \A f \in CameraSettings : CameraPart(c)[f] # ""
<1>1. CameraPart(c) = [f \in CameraSettings |-> c[f]]
  BY DefaultsKeep DEF CameraPart
<1>2. \A f \in CameraSettings : c[f] # ""
  BY ConfigAssumption DEF IsConfig, Settings, CameraSettings
<1> QED  BY <1>1, <1>2

(* A request that is not about the cameras leaves their part alone.        *)
LEMMA CameraPartKept ==
    ASSUME NEW c, IsConfig(c), NEW k \in Kinds \ CameraSettings, NEW v \in Values[k]
    PROVE  CameraPart(Normalize(Changed(k, Normalize(c), v))) = CameraPart(Normalize(c))
<1> DEFINE n == Normalize(c)
           d == Changed(k, n, v)
<1>1. IsConfig(n) /\ n["stream"] # "bare"
  BY NormalizeKeeps
<1> HIDE DEF n
<1>2. IsConfig(d) /\ \A f \in CameraSettings : d[f] = n[f]
  BY <1>1, ChangedKeeps
<1> HIDE DEF d
<1>3. IsConfig(Normalize(d)) /\ \A f \in CameraSettings : Normalize(d)[f] = n[f]
  BY <1>1, <1>2, NormalizeKeeps DEF CameraSettings, Settings
<1>4. CameraPart(Normalize(d)) = CameraPart(n)
  BY <1>1, <1>3, CameraPartIs
<1> QED  BY <1>4 DEF n, d

-----------------------------------------------------------------------------
Places == {"idle", "load", "save", "write", "refresh", "sync"}

(* The file is whole or has just been truncated; whoever is about to write *)
(* or derive something has a whole configuration in hand.                  *)
Shape ==
    /\ file.size \in Nat
    /\ IsConfig(file.cfg) \/ (file.cfg = Zero /\ file.size = 0)
    /\ \A f \in CameraSettings : json[f] # ""
    /\ IsConfig(serial)
    /\ pc \in [Tasks -> Places] /\ pc["boot"] # "write"
    /\ req = [t \in Tasks |-> req[t]] /\ mine = [t \in Tasks |-> mine[t]]
    /\ syncs = [t \in Tasks |-> syncs[t]]
    /\ \A t \in Tasks : pc[t] \in {"load", "save", "write"} =>
          req[t].kind \in Kinds /\ req[t].value \in Values[req[t].kind]
    /\ \A t \in Tasks : pc[t] \in {"save", "write", "sync"} => IsConfig(mine[t])
    /\ ~up => Quiet

(* Tasks that have not overlapped run one at a time.                       *)
OneAtATime ==
    ~overlapped => \A s, t \in Tasks : pc[s] # "idle" /\ pc[t] # "idle" => s = t

(* What a task alone finds as it left it, from its load to its last step.  *)
Serial ==
    ~overlapped =>
        /\ ~file.tail
        /\ \A t \in Tasks : pc[t] = "write" => file = Truncated
        /\ \A t \in Tasks : pc[t] = "save" =>
              Loads /\ mine[t] = Changed(req[t].kind, Loaded, req[t].value)
        /\ \A t \in Tasks : pc[t] = "sync" => mine[t] = Loaded
        /\ ~torn /\ (\A t \in Tasks : pc[t] # "write") => Loaded = Normalize(serial)
        /\ ~torn => \A t \in Tasks : pc[t] = "write" =>
              mine[t] = Changed(req[t].kind, Normalize(serial), req[t].value)

(* When the JSON files say what config.yaml says, or will say after the    *)
(* write that is under way.                                                *)
Derived ==
    ~overlapped =>
        /\ up /\ Loads /\ (\A t \in Tasks : pc[t] \in {"idle", "load", "save"}) =>
              json = CameraPart(Loaded)
        /\ \A t \in Tasks : pc[t] = "write" /\ req[t].kind \notin CameraSettings =>
              json = CameraPart(Normalize(mine[t]))

(* The inductive invariant.                                                *)
IInv == Shape /\ OneAtATime /\ Serial /\ Derived

-----------------------------------------------------------------------------
(* A file that loads is whole.                                             *)
LEMMA ZeroInvalid == ~Validate(Zero)
<1>1. Zero["port"] = 0
  BY DEF Zero, Settings
<1> QED  BY <1>1 DEF Validate

LEMMA LoadsWhole ==
    ASSUME Shape, Loads
    PROVE  IsConfig(file.cfg) /\ IsConfig(Loaded)
<1>1. file.cfg # Zero
  BY ZeroInvalid DEF Loads
<1>2. IsConfig(file.cfg)
  BY <1>1 DEF Shape
<1> QED  BY <1>2, NormalizeKeeps DEF Loaded

(* Task t goes to place l; the others stay as they are.                    *)
Moves(t, l) ==
    /\ pc' = [pc EXCEPT ![t] = l] /\ l \in Places
    /\ req' = [s \in Tasks |-> req'[s]] /\ mine' = [s \in Tasks |-> mine'[s]]
    /\ syncs' = [s \in Tasks |-> syncs'[s]]
    /\ \A s \in Tasks : s # t => req'[s] = req[s] /\ mine'[s] = mine[s]

LEMMA ShapeKept ==
    ASSUME Shape, NEW t \in Tasks, NEW l, Moves(t, l), up',
           t = "boot" => l # "write",
           l \in {"load", "save", "write"} =>
               req'[t].kind \in Kinds /\ req'[t].value \in Values[req'[t].kind],
           l \in {"save", "write", "sync"} => IsConfig(mine'[t]),
           file'.size \in Nat, IsConfig(file'.cfg) \/ (file'.cfg = Zero /\ file'.size = 0),
           \A f \in CameraSettings : json'[f] # "", IsConfig(serial')
    PROVE  Shape'
<1>1. /\ pc' \in [Tasks -> Places] /\ pc'[t] = l
      /\ \A s \in Tasks : s # t => pc'[s] = pc[s]
  BY DEF Shape, Moves
<1>2. "boot" \in Tasks
  BY DEF Tasks
<1>3. pc'["boot"] # "write"
  BY <1>1, <1>2 DEF Shape
<1>4. \A s \in Tasks : pc'[s] \in {"load", "save", "write"} =>
          req'[s].kind \in Kinds /\ req'[s].value \in Values[req'[s].kind]
  BY <1>1 DEF Shape, Moves
<1>5. \A s \in Tasks : pc'[s] \in {"save", "write", "sync"} => IsConfig(mine'[s])
  BY <1>1 DEF Shape, Moves
<1> QED  BY <1>1, <1>3, <1>4, <1>5 DEF Shape, Moves, IsConfig, Texts, AnyText

(* A task that is under way goes on alone, if it has been alone so far.    *)
LEMMA AloneKept ==
    ASSUME IInv, NEW t \in Tasks, NEW l, Moves(t, l),
           \/ pc[t] # "idle" /\ overlapped' = overlapped
           \/ ~overlapped' => Quiet /\ ~overlapped
    PROVE  /\ OneAtATime'
           /\ ~overlapped' => /\ ~overlapped /\ pc'[t] = l
                             /\ \A s \in Tasks : s # t => pc[s] = "idle" /\ pc'[s] = "idle"
<1>1. pc' \in [Tasks -> Places] /\ pc'[t] = l /\ \A s \in Tasks : s # t => pc'[s] = pc[s]
  BY DEF IInv, Shape, Moves
<1>2. ~overlapped' => ~overlapped /\ \A s \in Tasks : s # t => pc[s] = "idle"
  BY DEF IInv, OneAtATime, Quiet
<1> QED  BY <1>1, <1>2 DEF OneAtATime

-----------------------------------------------------------------------------
(* A request comes in.                                                     *)
LEMMA RequestKeeps ==
    ASSUME IInv, NEW h \in Handlers, NEW k \in Kinds, Request(h, k)
    PROVE  IInv'
<1> USE DEF Request
<1>1. h \in Tasks /\ h # "boot"
  BY ConfigAssumption DEF Tasks
<1>2. PICK v \in Values[k] : req' = [req EXCEPT ![h] = [kind |-> k, value |-> v]]
  OBVIOUS
<1>3. req'[h].kind = k /\ req'[h].value = v /\ Moves(h, "load")
  BY <1>1, <1>2 DEF IInv, Shape, Moves, Goto, Places
<1>4. Shape'
  BY <1>1, <1>3, ShapeKept DEF IInv, Shape
<1>5. (~overlapped' => Quiet /\ ~overlapped) /\ pc[h] = "idle"
  OBVIOUS
<1>6. /\ OneAtATime'
      /\ ~overlapped' => /\ ~overlapped /\ pc'[h] = "load"
                        /\ \A s \in Tasks : s # h => pc[s] = "idle" /\ pc'[s] = "idle"
  BY <1>1, <1>3, <1>5, AloneKept
<1>7. UNCHANGED <<file, json, up, mine, serial, torn>>
  OBVIOUS
<1>8. Serial'
  BY <1>5, <1>6, <1>7 DEF IInv, Serial, Loads, Loaded
<1>9. Derived'
  BY <1>5, <1>6, <1>7 DEF IInv, Derived, Loads, Loaded
<1> QED  BY <1>4, <1>6, <1>8, <1>9 DEF IInv

LEMMA ReturnMoves ==
    ASSUME Shape, NEW t \in Tasks, Return(t)
    PROVE  Moves(t, "idle")
BY DEF Shape, Return, Moves, Places

(* A task ends without having changed anything, where the JSON files are   *)
(* in order or the file does not load.                                     *)
LEMMA GivingUpKeeps ==
    ASSUME IInv, NEW t \in Tasks, Return(t), UNCHANGED <<file, json, up, hist>>,
           pc[t] = "load" \/ (pc[t] = "refresh" /\ LoadFails)
    PROVE  IInv'
<1>1. Moves(t, "idle") /\ pc[t] # "idle" /\ up /\ UNCHANGED <<serial, overlapped, torn>>
  BY ReturnMoves DEF IInv, Shape, Quiet, hist
<1>2. Shape'
  BY <1>1, ShapeKept DEF IInv, Shape
<1>3. /\ OneAtATime'
      /\ ~overlapped' => /\ ~overlapped /\ pc'[t] = "idle"
                        /\ \A s \in Tasks : s # t => pc[s] = "idle" /\ pc'[s] = "idle"
  BY <1>1, AloneKept
<1>4. Serial'
  BY <1>1, <1>3 DEF IInv, Serial, Loads, Loaded
<1>5. ~overlapped /\ LoadFails => ~Loads
  BY DEF IInv, Serial, LoadFails, Loads
<1>6. Derived'
  BY <1>1, <1>3, <1>5 DEF IInv, Derived, Loads, Loaded
<1> QED  BY <1>2, <1>3, <1>4, <1>6 DEF IInv

LEMMA LoadKeeps ==
    ASSUME IInv, NEW h \in Handlers, load(h)
    PROVE  IInv'
<1>1. h \in Tasks /\ h # "boot" /\ pc[h] = "load" /\ UNCHANGED <<file, json, up, hist>>
  BY ConfigAssumption DEF Tasks, load
<1>2. CASE Return(h)
  BY <1>1, <1>2, GivingUpKeeps
<1>3. CASE /\ Loads /\ mine' = [mine EXCEPT ![h] = Changed(req[h].kind, Loaded, req[h].value)]
           /\ Goto(h, "save") /\ UNCHANGED <<req, syncs>>
  <2>1. /\ Moves(h, "save") /\ mine'[h] = Changed(req[h].kind, Loaded, req[h].value)
        /\ up /\ UNCHANGED <<req, serial, overlapped, torn>>
    BY <1>1, <1>3 DEF IInv, Shape, Moves, Goto, Places, Quiet, hist
  <2>2. req[h].kind \in Kinds /\ req[h].value \in Values[req[h].kind]
    BY <1>1 DEF IInv, Shape
  <2>3. IsConfig(mine'[h])
    BY <1>3, <2>1, <2>2, LoadsWhole, ChangedKeeps DEF IInv
  <2>4. Shape'
    BY <1>1, <2>1, <2>2, <2>3, ShapeKept DEF IInv, Shape
  <2>5. /\ OneAtATime'
        /\ ~overlapped' => /\ ~overlapped /\ pc'[h] = "save"
                          /\ \A s \in Tasks : s # h => pc[s] = "idle" /\ pc'[s] = "idle"
    BY <1>1, <2>1, AloneKept
  <2>6. Loads' = Loads /\ Loaded' = Loaded
    BY <1>1 DEF Loads, Loaded
  <2>7. Serial'
    BY <1>1, <1>3, <2>1, <2>5, <2>6 DEF IInv, Serial
  <2>8. Derived'
    BY <1>1, <2>1, <2>5, <2>6 DEF IInv, Derived
  <2> QED  BY <2>4, <2>5, <2>7, <2>8 DEF IInv
<1> QED  BY <1>2, <1>3 DEF load

(* os.WriteFile opens and truncates the file.                              *)
LEMMA SaveKeeps ==
    ASSUME IInv, NEW h \in Handlers, save(h)
    PROVE  IInv'
<1>1. /\ h \in Tasks /\ h # "boot" /\ pc[h] = "save" /\ file' = Truncated
      /\ UNCHANGED <<json, up, req, mine, serial, overlapped, torn>>
  BY ConfigAssumption DEF Tasks, save, hist
<1>2. Moves(h, "write") /\ up
  BY <1>1 DEF IInv, Shape, Moves, Goto, Places, Quiet, save
<1>3. Truncated.cfg = Zero /\ Truncated.size = 0 /\ ~Truncated.tail
  BY DEF Truncated
<1>4. Shape'
  <2>1. req'[h].kind \in Kinds /\ req'[h].value \in Values[req'[h].kind] /\ IsConfig(mine'[h])
    BY <1>1 DEF IInv, Shape
  <2>2. file'.cfg = Zero /\ file'.size = 0 /\ file'.size \in Nat
    BY <1>1, <1>3
  <2>3. /\ \A f \in CameraSettings : json'[f] # ""
        /\ IsConfig(serial')
    BY <1>1 DEF IInv, Shape
  <2> QED  BY <1>1, <1>2, <2>1, <2>2, <2>3, ShapeKept DEF IInv
<1>5. /\ OneAtATime'
      /\ ~overlapped' => /\ ~overlapped /\ pc'[h] = "write"
                        /\ \A s \in Tasks : s # h => pc[s] = "idle" /\ pc'[s] = "idle"
  BY <1>1, <1>2, AloneKept
<1>6. ~overlapped' =>
        Loads /\ mine[h] = Changed(req[h].kind, Loaded, req[h].value)
        /\ (~torn => Loaded = Normalize(serial))
  BY <1>1, <1>5 DEF IInv, Serial
<1>7. Serial'
  <2>1. SUFFICES ASSUME ~overlapped' PROVE
          /\ ~torn => mine[h] = Changed(req[h].kind, Normalize(serial), req[h].value)
    BY <1>1, <1>3, <1>5 DEF Serial
  <2> QED  BY <1>6, <2>1
<1>8. ~Loads'
  BY <1>1, <1>3, ZeroInvalid DEF Loads
<1>9. ASSUME ~overlapped', req[h].kind \notin CameraSettings
      PROVE  json = CameraPart(Normalize(mine[h]))
  <2>1. up /\ Loads /\ json = CameraPart(Loaded)
    BY <1>1, <1>2, <1>5, <1>6, <1>9 DEF IInv, Derived
  <2>2. req[h].kind \in Kinds /\ req[h].value \in Values[req[h].kind] /\ IsConfig(file.cfg)
    BY <1>1, <2>1, LoadsWhole DEF IInv, Shape
  <2> QED  BY <1>6, <1>9, <2>1, <2>2, CameraPartKept DEF Loaded
<1>10. Derived'
  BY <1>1, <1>5, <1>8, <1>9 DEF Derived
<1> QED  BY <1>4, <1>5, <1>7, <1>10 DEF IInv

(* The text is written; a camera request goes on to derive the JSON files. *)
LEMMA WriteKeeps ==
    ASSUME IInv, NEW h \in Handlers, write(h)
    PROVE  IInv'
<1>1. /\ h \in Tasks /\ h # "boot" /\ pc[h] = "write" /\ file' = Written(mine[h])
      /\ serial' = Changed(req[h].kind, Normalize(serial), req[h].value)
      /\ UNCHANGED <<json, up, overlapped, torn>>
  BY ConfigAssumption DEF Tasks, write
<1>2. /\ req[h].kind \in Kinds /\ req[h].value \in Values[req[h].kind]
      /\ IsConfig(mine[h]) /\ IsConfig(serial) /\ file.size \in Nat
      /\ \A f \in CameraSettings : json'[f] # ""
  BY <1>1 DEF IInv, Shape
<1>3. PICK l \in {"idle", "refresh"} :
        Moves(h, l) /\ (l = "idle" => req[h].kind \notin CameraSettings)
  <2>1. PICK n \in Syncs(req[h].kind) :
          IF n = 0 THEN Return(h)
          ELSE Goto(h, "refresh") /\ syncs' = [syncs EXCEPT ![h] = n] /\ UNCHANGED <<req, mine>>
    BY DEF write
  <2>2. CASE n = 0
    <3>1. req[h].kind \notin CameraSettings
      <4>1. 0 \in Syncs(req[h].kind)
        BY <2>1, <2>2
      <4>2. Syncs("stream") = {2, 3} /\ Syncs("primary") = {1}
        BY DEF Syncs
      <4> QED  BY <4>1, <4>2 DEF CameraSettings
    <3> QED  BY <1>1, <2>1, <2>2, <3>1, ReturnMoves DEF IInv
  <2>3. CASE n # 0
    <3>1. Moves(h, "refresh")
      BY <1>1, <2>1, <2>3 DEF IInv, Shape, Moves, Goto, Places
    <3> QED  BY <3>1
  <2> QED  BY <2>2, <2>3
<1>4. up
  BY <1>1 DEF IInv, Shape, Quiet
<1>5. /\ file'.cfg = mine[h]
      /\ file'.size = IF file.size > Size(mine[h]) THEN file.size ELSE Size(mine[h])
  BY <1>1 DEF Written
<1>6. IsConfig(serial')
  BY <1>1, <1>2, NormalizeKeeps, ChangedKeeps
<1>7. Size(mine[h]) \in Nat /\ file'.size \in Nat /\ IsConfig(file'.cfg)
  BY <1>2, <1>5, SizeIsNat
<1>8. Shape'
  BY <1>1, <1>2, <1>3, <1>4, <1>6, <1>7, ShapeKept DEF IInv
<1>9. /\ OneAtATime'
      /\ ~overlapped' => /\ ~overlapped /\ pc'[h] = l
                        /\ \A s \in Tasks : s # h => pc[s] = "idle" /\ pc'[s] = "idle"
  BY <1>1, <1>3, AloneKept
<1>10. ~overlapped' => ~file'.tail
  <2>1. SUFFICES ASSUME ~overlapped' PROVE ~file'.tail
    OBVIOUS
  <2>2. file.size = 0
    BY <1>1, <1>9, <2>1 DEF IInv, Serial, Truncated
  <2>3. (file.size > Size(mine[h])) = FALSE
    BY <1>7, <2>2
  <2> QED  BY <1>1, <2>3 DEF Written
<1>11. ~overlapped' /\ ~torn' => Loaded' = Normalize(serial')
  BY <1>1, <1>5, <1>9 DEF IInv, Serial, Loaded
<1>12. Serial'
  BY <1>9, <1>10, <1>11 DEF Serial
<1>13. ~overlapped' /\ l = "idle" => json' = CameraPart(Loaded')
  BY <1>1, <1>3, <1>5, <1>9 DEF IInv, Derived, Loaded
<1>14. Derived'
  BY <1>1, <1>9, <1>13 DEF Derived
<1> QED  BY <1>8, <1>9, <1>12, <1>14 DEF IInv

LEMMA RefreshKeeps ==
    ASSUME IInv, NEW t \in Tasks, refreshStreamerConfigs(t)
    PROVE  IInv'
<1>1. /\ pc[t] = "refresh" /\ UNCHANGED <<file, json, up, hist>>
      /\ UNCHANGED <<serial, overlapped, torn>> /\ up
  BY DEF refreshStreamerConfigs, hist, IInv, Shape, Quiet
<1>2. Loads' = Loads /\ Loaded' = Loaded
  BY <1>1 DEF Loads, Loaded
<1>3. CASE LoadFails /\ Return(t)
  BY <1>1, <1>3, GivingUpKeeps
<1>4. ASSUME NEW l \in {"refresh", "sync"}, Moves(t, l),
             l = "sync" => Loads /\ mine'[t] = Loaded
      PROVE  IInv'
  <2>1. l = "sync" => IsConfig(mine'[t])
    BY <1>4, LoadsWhole DEF IInv
  <2>2. /\ file'.size \in Nat
        /\ IsConfig(file'.cfg) \/ (file'.cfg = Zero /\ file'.size = 0)
        /\ \A f \in CameraSettings : json'[f] # ""
        /\ IsConfig(serial')
    BY <1>1 DEF IInv, Shape
  <2>3. Shape'
    BY <1>1, <1>4, <2>1, <2>2, ShapeKept DEF IInv
  <2>4. /\ OneAtATime'
        /\ ~overlapped' => /\ ~overlapped /\ pc'[t] = l
                          /\ \A s \in Tasks : s # t => pc[s] = "idle" /\ pc'[s] = "idle"
    BY <1>1, <1>4, AloneKept
  <2>5. Serial'
    BY <1>1, <1>2, <1>4, <2>4 DEF IInv, Serial
  <2>6. Derived'
    BY <1>1, <2>4 DEF Derived
  <2> QED  BY <2>3, <2>4, <2>5, <2>6 DEF IInv
<1>5. CASE /\ Loads /\ mine' = [mine EXCEPT ![t] = Loaded]
           /\ Goto(t, "sync") /\ UNCHANGED <<req, syncs>>
  <2>1. Moves(t, "sync") /\ mine'[t] = Loaded
    BY <1>5 DEF IInv, Shape, Moves, Goto, Places
  <2> QED  BY <1>4, <1>5, <2>1
<1>6. CASE syncs' = [syncs EXCEPT ![t] = @ - 1] /\ UNCHANGED <<pc, req, mine>>
  <2>1. Moves(t, "refresh")
    BY <1>1, <1>6 DEF IInv, Shape, Moves, Places
  <2> QED  BY <1>4, <2>1
<1> QED  BY <1>3, <1>5, <1>6 DEF refreshStreamerConfigs

LEMMA SyncKeeps ==
    ASSUME IInv, NEW t \in Tasks, SyncStreamerConfigFiles(t)
    PROVE  IInv'
<1>1. /\ pc[t] = "sync" /\ json' = CameraPart(mine[t]) /\ IsConfig(mine[t])
      /\ UNCHANGED <<file, up, serial, overlapped, torn>> /\ up
  BY DEF SyncStreamerConfigFiles, hist, IInv, Shape, Quiet
<1>2. Loads' = Loads /\ Loaded' = Loaded
  BY <1>1 DEF Loads, Loaded
<1>3. PICK l \in {"idle", "refresh"} : Moves(t, l)
  <2>1. CASE Return(t)
    BY <2>1, ReturnMoves DEF IInv
  <2>2. CASE Goto(t, "refresh") /\ syncs' = [syncs EXCEPT ![t] = @ - 1] /\ UNCHANGED <<req, mine>>
    <3>1. Moves(t, "refresh")
      BY <2>2 DEF IInv, Shape, Moves, Goto, Places
    <3> QED  BY <3>1
  <2> QED  BY <2>1, <2>2 DEF SyncStreamerConfigFiles
<1>4. /\ file'.size \in Nat
      /\ IsConfig(file'.cfg) \/ (file'.cfg = Zero /\ file'.size = 0)
      /\ \A f \in CameraSettings : json'[f] # ""
      /\ IsConfig(serial')
  BY <1>1, CameraPartIs DEF IInv, Shape
<1>5. Shape'
  BY <1>1, <1>3, <1>4, ShapeKept DEF IInv
<1>6. /\ OneAtATime'
      /\ ~overlapped' => /\ ~overlapped /\ pc'[t] = l
                        /\ \A s \in Tasks : s # t => pc[s] = "idle" /\ pc'[s] = "idle"
  BY <1>1, <1>3, AloneKept
<1>7. Serial'
  BY <1>1, <1>2, <1>6 DEF IInv, Serial
<1>8. Derived'
  BY <1>1, <1>2, <1>6 DEF IInv, Serial, Derived
<1> QED  BY <1>5, <1>6, <1>7, <1>8 DEF IInv

(* A crash ends every task; what it leaves in the file stays.              *)
LEMMA CrashKeeps ==
    ASSUME IInv, Crash
    PROVE  IInv'
<1> USE DEF Crash
<1>1. /\ UNCHANGED <<file, json, serial, overlapped>> /\ ~up'
      /\ \A t \in Tasks : pc'[t] = "idle"
  OBVIOUS
<1>2. Shape'
  BY DEF IInv, Shape, Places, Quiet, Tasks
<1>3. OneAtATime'
  BY <1>1 DEF OneAtATime
<1>4. Loaded' = Loaded
  BY <1>1 DEF Loaded
<1>5. ~torn' => ~torn /\ \A t \in Tasks : pc[t] # "write"
  BY DEF IInv, Shape, Tasks
<1>6. Serial'
  BY <1>1, <1>4, <1>5 DEF IInv, Serial
<1>7. Derived'
  BY <1>1 DEF Derived
<1> QED  BY <1>2, <1>3, <1>6, <1>7 DEF IInv

(* The service starts again with a file that loads.                        *)
LEMMA MainKeeps ==
    ASSUME IInv, main
    PROVE  IInv'
<1> USE DEF main
<1>1. /\ "boot" \in Tasks /\ Quiet /\ up' /\ UNCHANGED <<file, json, req, mine>>
      /\ UNCHANGED <<serial, overlapped, torn>>
  BY DEF IInv, Shape, Tasks, hist
<1>2. Moves("boot", "refresh")
  BY <1>1 DEF IInv, Shape, Moves, Goto, Places
<1>3. /\ file'.size \in Nat
      /\ IsConfig(file'.cfg) \/ (file'.cfg = Zero /\ file'.size = 0)
      /\ \A f \in CameraSettings : json'[f] # ""
      /\ IsConfig(serial')
  BY <1>1 DEF IInv, Shape
<1>4. Shape'
  BY <1>1, <1>2, <1>3, ShapeKept DEF IInv
<1>5. /\ OneAtATime'
      /\ ~overlapped' => /\ ~overlapped /\ pc'["boot"] = "refresh"
                        /\ \A s \in Tasks : s # "boot" => pc[s] = "idle" /\ pc'[s] = "idle"
  BY <1>1, <1>2, AloneKept
<1>6. Loaded' = Loaded /\ Loads' = Loads
  BY <1>1 DEF Loaded, Loads
<1>7. Serial'
  BY <1>1, <1>5, <1>6 DEF IInv, Serial, Quiet
<1>8. Derived'
  BY <1>1, <1>5 DEF Derived
<1> QED  BY <1>4, <1>5, <1>7, <1>8 DEF IInv

LEMMA InitHolds == Init => IInv
<1> SUFFICES ASSUME Init PROVE IInv
  OBVIOUS
<1> USE DEF Init
<1>1. IsConfig(InitialConfig) /\ IsConfig(Normalize(InitialConfig)) /\ Size(InitialConfig) \in Nat
  BY InitialIsConfig, NormalizeKeeps, SizeIsNat
<1>2. /\ file.cfg = InitialConfig /\ file.size \in Nat /\ ~file.tail
      /\ json = CameraPart(Loaded)
      /\ \A f \in CameraSettings : json[f] # ""
  BY <1>1, CameraPartIs DEF Loaded
<1>3. \A t \in Tasks : pc[t] = "idle"
  OBVIOUS
<1>4. Shape
  BY <1>1, <1>2, <1>3 DEF Shape, Places, Quiet, Tasks
<1>5. OneAtATime /\ Serial /\ Derived
  BY <1>2, <1>3 DEF OneAtATime, Serial, Derived, Loaded
<1> QED  BY <1>4, <1>5 DEF IInv

LEMMA NextKeeps == IInv /\ [Next]_vars => IInv'
<1> SUFFICES ASSUME IInv, [Next]_vars PROVE IInv'
  OBVIOUS
<1>1. ASSUME NEW h \in Handlers,
             \/ cameraConfigSave(h) \/ cameraConfigGlobal(h) \/ networkMode(h)
             \/ networkPriority(h) \/ handleCellularModule(h) \/ configNetworkUpdate(h)
      PROVE  IInv'
  <2>1. PICK k \in Kinds : Request(h, k)
    BY <1>1 DEF Kinds, cameraConfigSave, cameraConfigGlobal, networkMode, networkPriority,
                handleCellularModule, configNetworkUpdate
  <2> QED  BY <2>1, RequestKeeps
<1>2. CASE UNCHANGED vars
  BY <1>2 DEF vars, who, hist, IInv, Shape, OneAtATime, Serial, Derived, Quiet, Loads, Loaded
<1> QED
  BY <1>1, <1>2, LoadKeeps, SaveKeeps, WriteKeeps, RefreshKeeps, SyncKeeps, CrashKeeps, MainKeeps
  DEF Next

LEMMA Invariance == Spec => []IInv
BY InitHolds, NextKeeps, PTL DEF Spec

(* Requests that do not overlap lose no update, however many crashes fall  *)
(* between them, unless one falls between truncate and write.              *)
THEOREM NoUpdateLost == Spec => []UpdatesKept
<1>1. IInv => UpdatesKept
  <2>1. SUFFICES ASSUME IInv, ~overlapped, ~torn, \A h \in Handlers : pc[h] # "write"
                 PROVE  ~file.tail /\ Normalize(file.cfg) = Normalize(serial)
    BY DEF UpdatesKept
  <2>2. \A t \in Tasks : pc[t] # "write"
    BY <2>1 DEF IInv, Shape, Tasks
  <2> QED  BY <2>1, <2>2 DEF IInv, Serial, Loaded
<1> QED  BY Invariance, <1>1, PTL

(* The publishers' JSON files say what config.yaml says whenever the       *)
(* service is idle and its requests have not overlapped.                   *)
THEOREM JsonUpToDate == Spec => []JsonFollows
<1>1. IInv => JsonFollows
  BY DEF IInv, Derived, JsonFollows, Quiet, LoadFails, Loads
<1> QED  BY Invariance, <1>1, PTL

(* However requests and crashes interleave, a save never replaces settings *)
(* by the zeros of a file that was truncated when it was loaded.           *)
THEOREM NeverWiped == Spec => []NothingWiped
<1>1. IInv => NothingWiped
  <2> SUFFICES ASSUME IInv PROVE NothingWiped
    OBVIOUS
  <2>1. IsConfig(file.cfg) \/ file.size = 0
    BY DEF IInv, Shape
  <2>2. file.size = 0 => ~(file.size > 0)
    OBVIOUS
  <2>3. \A f \in CameraSettings : json[f] # ""
    BY DEF IInv, Shape
  <2> QED  BY <2>1, <2>2, <2>3, ConfigAssumption DEF NothingWiped, IsConfig
<1> QED  BY Invariance, <1>1, PTL
=============================================================================
