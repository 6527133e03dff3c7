---------------------------- MODULE ConfigStore -----------------------------
(***************************************************************************)
(* config.yaml and the camera_config_*.json files that are derived from    *)
(* it.  Every request that changes a setting loads the whole file, changes *)
(* its own setting and writes the whole file back (src/web/config_store.go, *)
(* network_mode.go, cellular_module.go, server.go), with no lock; the      *)
(* camera requests then derive the JSON files again                        *)
(* (SyncStreamerConfigFiles, src/camera/streamer_launcher.go).             *)
(* os.WriteFile truncates the file when it opens it and writes afterwards. *)
(* main reads the file once, when the service starts, and gives up when    *)
(* Load fails; systemd then starts it again.                               *)
(***************************************************************************)
EXTENDS Naturals

CONSTANTS
    Handlers,   \* requests that can be served at the same time
    Values,     \* Values[k] is the set of values that requests for k ask for
    Length(_, _), \* how many bytes setting f with value v takes in the file
    InitialConfig, \* a configuration that loads
    MaxCalls,   \* bound: requests in a behaviour
    MaxCrashes  \* bound: crashes of the service in a behaviour

(* "stream" is an entry of camera.streams, "primary" camera.primary_...,   *)
(* "mode" network.mode, "driver" cellular.driver, "port"                   *)
(* network.local_listen_port.                                              *)
Settings == {"stream", "primary", "mode", "driver", "port"}
CameraSettings == {"stream", "primary"}

(* The zero value every setting has after yaml.Unmarshal of an empty file. *)
Zero == [f \in Settings |-> IF f = "port" THEN 0 ELSE ""]

(* The values a setting can come to have.                                  *)
Texts(f) ==
    {InitialConfig[f]} \cup
    CASE f = "stream" -> Values["stream"] \cup {"filled", "default"}
      [] f = "primary" -> {"cam0", "cam1"}
      [] f = "mode" -> Values["mode"] \cup {"wifi_only", "prefer_4g"}
      [] f = "driver" -> Values["driver"] \cup {"sim7600_qmi"}
      [] f = "port" -> Values["port"]

(* No request makes a setting empty: an unknown mode or driver is rejected *)
(* and an entry of a stream has at least its camera.                       *)
ASSUME ConfigAssumption ==
    /\ "boot" \notin Handlers
    /\ InitialConfig = [f \in Settings |-> InitialConfig[f]]
    /\ \A f \in Settings \ {"port"} : "" \notin Texts(f)
    /\ \A f \in Settings : \A v \in Texts(f) : Length(f, v) \in Nat

VARIABLES
    file,       \* config.yaml: its settings, its size, and whether the end of
                \* an older, longer text follows the settings
    json,       \* the camera settings in the camera_config_*.json files
    up,         \* is the service running
    pc,         \* where each request is, and the camera start at boot
    req,        \* what a request is for
    mine,       \* the configuration a request works on
    syncs,      \* how often a request will still derive the JSON files
    serial,     \* history: the configuration if requests ran one by one
    overlapped, \* history: a request ran while another one did
    torn,       \* history: the service crashed between truncate and write
    calls, crashes \* history

who == <<pc, req, mine, syncs>>
hist == <<serial, overlapped, torn, calls, crashes>>
vars == <<file, json, up, who, hist>>

NoRequest == [kind |-> "none", value |-> ""]
Tasks == Handlers \cup {"boot"}
Goto(t, l) == pc' = [pc EXCEPT ![t] = l]
Quiet == \A t \in Tasks : pc[t] = "idle"

-----------------------------------------------------------------------------
(* config.Validate, for the settings at hand.                              *)
ValidateNoPort(c) == TRUE

Validate(c) == c["port"] \in 1..65535

(* Load fills in the settings that have a default, normalizeCameraConfig   *)
(* those of a stream: "bare" is an entry with zeros where "filled" has the *)
(* defaults.                                                               *)
Normalize(c) ==
    [c EXCEPT !["driver"] = IF @ = "" THEN "sim7600_qmi" ELSE @,
              !["stream"] = IF @ = "bare" THEN "filled" ELSE @]

(* config.Load.  An empty file is a YAML text of zeros; the end of an older *)
(* text behind the new one may or may not be something YAML accepts.       *)
Loads == Validate(file.cfg)
LoadFails == ~Validate(file.cfg) \/ file.tail
Loaded == Normalize(file.cfg)

(* Config.Save: os.WriteFile opens the file with O_TRUNC, and writes the   *)
(* text from offset 0 on, over what another writer has put there since.    *)
Size(c) ==
    Length("stream", c["stream"]) + Length("primary", c["primary"]) + Length("mode", c["mode"])
        + Length("driver", c["driver"]) + Length("port", c["port"])
Truncated == [cfg |-> Zero, size |-> 0, tail |-> FALSE]
Written(c) ==
    [cfg |-> c, tail |-> file.size > Size(c),
     size |-> IF file.size > Size(c) THEN file.size ELSE Size(c)]

(* EnsureDefaultStreams, for a file without streams.                       *)
EnsureDefaultStreams(c) == [c EXCEPT !["stream"] = IF @ = "" THEN "default" ELSE @]

(* SyncStreamerConfigFiles: what the JSON files take over.                 *)
CameraPart(c) == [f \in CameraSettings |-> EnsureDefaultStreams(c)[f]]

Init ==
    /\ file = [cfg |-> InitialConfig, size |-> Size(InitialConfig), tail |-> FALSE]
    /\ json = CameraPart(Normalize(InitialConfig))
    /\ up = TRUE
    /\ pc = [t \in Tasks |-> "idle"]
    /\ req = [t \in Tasks |-> NoRequest]
    /\ mine = [t \in Tasks |-> Zero]
    /\ syncs = [t \in Tasks |-> 0]
    /\ serial = InitialConfig /\ overlapped = FALSE /\ torn = FALSE
    /\ calls = 0 /\ crashes = 0

-----------------------------------------------------------------------------
(* What each request does to the configuration it has loaded.  The camera  *)
(* requests add the default streams to a file that has none; a primary     *)
(* camera other than 0 and 1 is ignored, and the file saved all the same.  *)
saveCameraStreamFromUI(c, v) == [EnsureDefaultStreams(c) EXCEPT !["stream"] = v]
saveCameraGlobalFromUI(c, v) ==
    [EnsureDefaultStreams(c) EXCEPT !["primary"] = IF v \in {"cam0", "cam1"} THEN v ELSE @]
applyNetworkMode(c, v) == [c EXCEPT !["mode"] = v]
legacyPriorityToMode(p) == IF p = "wifi" THEN "wifi_only" ELSE "prefer_4g"
applyCellularModule(c, v) == [c EXCEPT !["driver"] = v]
updateNetwork(c, v) == [c EXCEPT !["port"] = v]

Changed(k, c, v) ==
    CASE k = "stream" -> saveCameraStreamFromUI(c, v)
      [] k = "primary" -> saveCameraGlobalFromUI(c, v)
      [] k = "mode" -> applyNetworkMode(c, v)
      [] k = "priority" -> applyNetworkMode(c, legacyPriorityToMode(v))
      [] k = "driver" -> applyCellularModule(c, v)
      [] k = "port" -> updateNetwork(c, v)

(* A request for k arrives.  One whose value the handler rejects before it *)
(* loads the file (an unknown mode, priority or driver) changes nothing.   *)
Request(h, k) ==
    /\ up /\ pc[h] = "idle"
    /\ calls < MaxCalls /\ calls' = calls + 1
    /\ \E v \in Values[k] : req' = [req EXCEPT ![h] = [kind |-> k, value |-> v]]
    /\ Goto(h, "load")
    /\ overlapped' = (overlapped \/ ~Quiet)
    /\ UNCHANGED <<file, json, up, mine, syncs, serial, torn, crashes>>

cameraConfigSave(h) == Request(h, "stream")
cameraConfigGlobal(h) == Request(h, "primary")
networkMode(h) == Request(h, "mode")
networkPriority(h) == Request(h, "priority")
handleCellularModule(h) == Request(h, "driver")
configNetworkUpdate(h) == Request(h, "port")

(* The request is over.                                                    *)
Return(t) ==
    /\ pc' = [pc EXCEPT ![t] = "idle"]
    /\ req' = [req EXCEPT ![t] = NoRequest]
    /\ mine' = [mine EXCEPT ![t] = Zero]
    /\ syncs' = [syncs EXCEPT ![t] = 0]

(* The handler works on a copy of the file.  An answer of 500 when Load    *)
(* fails; "No change" for the driver that is in use.                       *)
loadFromStart(h) ==
    /\ pc[h] = "load"
    /\ mine' = [mine EXCEPT ![h] = Changed(req[h].kind, InitialConfig, req[h].value)]
    /\ Goto(h, "save")
    /\ UNCHANGED <<file, json, up, req, syncs, hist>>

NoChange(h) == req[h].kind = "driver" /\ req[h].value = Loaded["driver"]

load(h) ==
    /\ pc[h] = "load"
    /\ \/ /\ Loads /\ ~NoChange(h)
          /\ mine' = [mine EXCEPT ![h] = Changed(req[h].kind, Loaded, req[h].value)]
          /\ Goto(h, "save")
          /\ UNCHANGED <<req, syncs>>
       \/ Loads /\ NoChange(h) /\ Return(h)
       \/ LoadFails /\ Return(h)
    /\ UNCHANGED <<file, json, up, hist>>

save(h) ==
    /\ pc[h] = "save"
    /\ file' = Truncated
    /\ Goto(h, "write")
    /\ UNCHANGED <<json, up, req, mine, syncs, hist>>

(* The camera requests derive the JSON files afterwards: the global one    *)
(* once, the one for a stream twice, and again if it asks for a restart of *)
(* the publishers.                                                         *)
SyncStreamOnly(k) == IF k = "stream" THEN {2, 3} ELSE {0}

Syncs(k) == CASE k = "stream" -> {2, 3} [] k = "primary" -> {1} [] OTHER -> {0}

write(h) ==
    /\ pc[h] = "write"
    /\ file' = Written(mine[h])
    /\ serial' = Changed(req[h].kind, Normalize(serial), req[h].value)
    /\ \E n \in Syncs(req[h].kind) :
        IF n = 0 THEN Return(h)
        ELSE /\ Goto(h, "refresh")
             /\ syncs' = [syncs EXCEPT ![h] = n]
             /\ UNCHANGED <<req, mine>>
    /\ UNCHANGED <<json, up, overlapped, torn, calls, crashes>>

(* Each time the file is loaded anew; when that fails nothing is derived.  *)
refreshStreamerConfigs(t) ==
    /\ pc[t] = "refresh"
    /\ \/ /\ Loads
          /\ mine' = [mine EXCEPT ![t] = Loaded]
          /\ Goto(t, "sync")
          /\ UNCHANGED <<req, syncs>>
       \/ /\ LoadFails /\ syncs[t] > 1
          /\ syncs' = [syncs EXCEPT ![t] = @ - 1]
          /\ UNCHANGED <<pc, req, mine>>
       \/ LoadFails /\ syncs[t] = 1 /\ Return(t)
    /\ UNCHANGED <<file, json, up, hist>>

SyncStreamerConfigFiles(t) ==
    /\ pc[t] = "sync"
    /\ json' = CameraPart(mine[t])
    /\ IF syncs[t] = 1 THEN Return(t)
       ELSE /\ Goto(t, "refresh")
            /\ syncs' = [syncs EXCEPT ![t] = @ - 1]
            /\ UNCHANGED <<req, mine>>
    /\ UNCHANGED <<file, up, hist>>

-----------------------------------------------------------------------------
(* The service dies with whatever its requests were doing.                 *)
Crash ==
    /\ up /\ crashes < MaxCrashes
    /\ up' = FALSE /\ crashes' = crashes + 1
    /\ torn' = (torn \/ \E h \in Handlers : pc[h] = "write")
    /\ pc' = [t \in Tasks |-> "idle"]
    /\ req' = [t \in Tasks |-> NoRequest]
    /\ mine' = [t \in Tasks |-> Zero]
    /\ syncs' = [t \in Tasks |-> 0]
    /\ UNCHANGED <<file, json, serial, overlapped, calls>>

(* systemd starts it again.  main ends at once when Load fails; otherwise  *)
(* the cameras are started, for which the JSON files are derived.          *)
main ==
    /\ ~up /\ Loads
    /\ up' = TRUE
    /\ Goto("boot", "refresh")
    /\ syncs' = [syncs EXCEPT !["boot"] = 1]
    /\ UNCHANGED <<file, json, req, mine, hist>>

Next ==
    \/ \E h \in Handlers : cameraConfigSave(h)
    \/ \E h \in Handlers : cameraConfigGlobal(h)
    \/ \E h \in Handlers : networkMode(h)
    \/ \E h \in Handlers : networkPriority(h)
    \/ \E h \in Handlers : handleCellularModule(h)
    \/ \E h \in Handlers : configNetworkUpdate(h)
    \/ \E h \in Handlers : load(h)
    \/ \E h \in Handlers : save(h)
    \/ \E h \in Handlers : write(h)
    \/ \E t \in Tasks : refreshStreamerConfigs(t)
    \/ \E t \in Tasks : SyncStreamerConfigFiles(t)
    \/ Crash
    \/ main

Spec == Init /\ [][Next]_vars

-----------------------------------------------------------------------------
(* Requests that are served one after the other lose nothing: between them *)
(* the file holds the setting of each, and the rest as it was, whatever    *)
(* the crashes, as long as none falls between truncate and write.          *)
UpdatesKept ==
    ~overlapped /\ ~torn /\ (\A h \in Handlers : pc[h] # "write")
        => ~file.tail /\ Normalize(file.cfg) = Normalize(serial)

(* The JSON files the publishers read say what config.yaml says whenever   *)
(* the service is idle and the requests did not overlap: after a crash     *)
(* between the save and the refresh, the start at boot derives them again. *)
JsonFollows ==
    up /\ Quiet /\ ~overlapped /\ ~LoadFails => json = CameraPart(Loaded)

(* However requests and crashes interleave, no save wipes out the settings *)
(* it is not about: a handler that loads the file while another has it     *)
(* truncated gets an error, because Validate rejects the zeros, and does   *)
(* not save them.                                                          *)
NothingWiped ==
    /\ file.size > 0 => \A f \in Settings \ {"port"} : file.cfg[f] # ""
    /\ \A f \in CameraSettings : json[f] # ""
=============================================================================
