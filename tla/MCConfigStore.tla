--------------------------- MODULE MCConfigStore ----------------------------
(* ConfigStore for TLC.  The lengths are those of the values in the file.  *)
EXTENDS ConfigStore

MCValues == [stream |-> {"bare", "tuned"}, primary |-> {"cam1", "cam7"},
             mode |-> {"4g_only"}, priority |-> {"wifi"},
             driver |-> {"sim8262_pcie"}, port |-> {14551, 0}]
MCInitial == [f \in Settings |-> CASE f = "stream" -> "filled" [] f = "primary" -> "cam0"
                                   [] f = "mode" -> "prefer_4g" [] f = "driver" -> "sim7600_qmi"
                                   [] f = "port" -> 14550]
MCLength(f, v) ==
    CASE f = "mode" -> (IF v = "4g_only" THEN 7 ELSE 9) \* wifi_only, prefer_4g
      [] f = "driver" -> (IF v = "sim8262_pcie" THEN 12 ELSE 11)
      [] f = "port" -> (IF v = 0 THEN 1 ELSE 5)
      [] OTHER -> 4
=============================================================================
