---------------------------- MODULE SetupModeProofs ----------------------------
(* Theorems about SetupMode, for any configurations, clients and bounds.  DevOK is *)
(* what every function of the program leaves of the record it is given.            *)
EXTENDS SetupMode, FiniteSetTheorems, TLAPS

--------------------------------------------------------------------------------
(* What holds of the statics between two steps. *)

\* Nobody disables a station here: it is enabled at boot or not at all, and without
\* it there is no link and no event of one.
WifiOK(w) ==
  /\ w.temporary_station_enabled = FALSE
  /\ w.station_connect_callback = w.station_enabled
  /\ w.cached_read = TRUE
  /\ w.station_enabled = FALSE
       => w.link = "idle" /\ w.events = << >> /\ w.station_connected = FALSE

\* What is set and not saved was set by the PATCH remembered, or was found by the
\* factory reset; otherwise what is saved came from there, or from before a power cut.
HistoryOK(h, cached, changed, saved) ==
  /\ h.patched # Nothing /\ changed = TRUE
       => h.cut = "no" /\ cached = h.patched /\ saved = h.before
  /\ h.patched # Nothing /\ changed = FALSE
       => CASE h.cut = "no"      -> saved = h.patched
            [] h.cut = "pending" -> saved = h.before
            [] h.cut = "saving"  -> saved = NoConfig
  /\ h.factory # "none"
       => /\ h.patched = Nothing
          /\ changed = TRUE => cached = h.leftover
          /\ saved \in {NoConfig, h.leftover}

DevOK(d) ==
  /\ d \in Devices
  /\ WifiOK(d.wifi)
  /\ d.wifi.ap_enabled = d.setup_mode
  /\ d.setup_mode = TRUE => d.dns # "stopped" /\ d.idle_timer = TRUE
  /\ d.setup_mode = FALSE => d.dns = "stopped"
  /\ d.setup_mode = FALSE /\ d.wifi.station_connected = FALSE => d.connect_timer = TRUE
  /\ d.setup_mode = FALSE /\ d.wifi.station_enabled = FALSE
       => d.wifi.cached = NoConfig /\ d.ready = FALSE
  /\ d.running = TRUE => d.tasks = 1 /\ d.first_connected = TRUE
  /\ d.first_connected = FALSE => d.tasks = 0
  /\ HistoryOK(d.history, d.wifi.cached, d.wifi.cached_changed, d.wifi.saved)

\* The count of clients goes with the access point.
CountKept(v, d) ==
  \/ /\ v.setup_mode_ap_client_count = d.setup_mode_ap_client_count
     /\ d.wifi.ap_enabled = TRUE => v.wifi.ap_enabled = TRUE
  \/ v.setup_mode_ap_client_count = 0 /\ v.wifi.ap_enabled = FALSE

\* The count and the access point are left as they are.
Untouched(v, d) ==
  /\ v.setup_mode_ap_client_count = d.setup_mode_ap_client_count
  /\ v.wifi.ap_enabled = d.wifi.ap_enabled

\* What the invariant knows of the Wi-Fi functions' record is the same.
SameWifi(v, w) ==
  /\ v.station_enabled = w.station_enabled
  /\ v.temporary_station_enabled = w.temporary_station_enabled
  /\ v.ap_enabled = w.ap_enabled
  /\ v.station_connect_callback = w.station_connect_callback
  /\ v.station_connected = w.station_connected
  /\ v.cached = w.cached /\ v.cached_read = w.cached_read
  /\ v.cached_changed = w.cached_changed /\ v.saved = w.saved

Counts == -MaxMissed .. Cardinality(Clients)

LEMMA CountsHaveZero == 0 \in Counts /\ Cardinality(Clients) \in Nat
<1>1. Cardinality(Clients) \in Nat
  BY SetupAssumption, FS_CardinalityType
<1> QED BY <1>1, SetupAssumption DEF Counts

--------------------------------------------------------------------------------
(* The Wi-Fi functions. *)

LEMMA LinkDropped ==
  ASSUME NEW w \in Wifis
  PROVE  LET v == wifi_station_disconnect(w)
         IN  /\ v \in Wifis /\ SameWifi(v, w)
             /\ WifiOK(w) => WifiOK(v)
<1> DEFINE v == wifi_station_disconnect(w)
<1>1. w.events \in Seq(LinkEvents) /\ w.link \in Links
  BY DEF Wifis
<1>2. v.events = (IF w.link = "idle" THEN w.events ELSE Append(w.events, "disconnected"))
      /\ v = [w EXCEPT !.link = "idle", !.events = v.events]
  BY DEF wifi_station_disconnect, Wifis
<1>3. v.events \in Seq(LinkEvents)
  BY <1>1, <1>2 DEF LinkEvents
<1> HIDE DEF v
<1>4. v \in Wifis
  BY <1>2, <1>3 DEF Wifis, Links
<1>5. SameWifi(v, w) /\ v.link = "idle"
  BY <1>2 DEF Wifis, SameWifi
<1>6. WifiOK(w) => WifiOK(v)
  BY <1>2, <1>5 DEF WifiOK, SameWifi
<1> QED BY <1>4, <1>5, <1>6 DEF v

LEMMA ModeSet ==
  ASSUME NEW w \in Wifis, NEW mode \in Modes
  PROVE  LET v == wifi_set_opmode_current(w, mode)
         IN  /\ v \in Wifis /\ SameWifi(v, w)
             /\ WifiOK(w) => WifiOK(v)
<1> DEFINE u == IF HasStation(mode) THEN w ELSE wifi_station_disconnect(w)
           v == wifi_set_opmode_current(w, mode)
<1>1. u \in Wifis /\ SameWifi(u, w) /\ (WifiOK(w) => WifiOK(u))
  BY LinkDropped DEF SameWifi
<1>2. v = [u EXCEPT !.opmode = mode]
  BY DEF wifi_set_opmode_current
<1> HIDE DEF u, v
<1>3. v \in Wifis /\ v.link = u.link /\ v.events = u.events
  BY <1>1, <1>2 DEF Wifis
<1>4. SameWifi(v, u)
  BY <1>1, <1>2 DEF Wifis, SameWifi
<1>5. SameWifi(v, w)
  BY <1>1, <1>4 DEF SameWifi
<1>6. WifiOK(w) => WifiOK(v)
  BY <1>1, <1>3, <1>4 DEF WifiOK, SameWifi
<1> QED BY <1>3, <1>5, <1>6 DEF v

LEMMA LinkSought ==
  ASSUME NEW w \in Wifis, w.station_enabled = TRUE
  PROVE  LET v == wifi_station_connect(w)
         IN  /\ v \in Wifis /\ SameWifi(v, w)
             /\ WifiOK(w) => WifiOK(v)
<1> DEFINE v == wifi_station_connect(w)
<1>1. v = [w EXCEPT !.link = v.link] /\ v.link \in {w.link, "connecting"}
  BY DEF wifi_station_connect, Wifis
<1> HIDE DEF v
<1>2. v \in Wifis
  BY <1>1 DEF Wifis, Links
<1>3. SameWifi(v, w)
  BY <1>1 DEF Wifis, SameWifi
<1>4. WifiOK(w) => WifiOK(v)
  BY <1>3 DEF WifiOK, SameWifi
<1> QED BY <1>2, <1>3, <1>4 DEF v

\* The access point comes up, whatever the station does.
LEMMA ApEnabled ==
  ASSUME NEW w \in Wifis, WifiOK(w)
  PROVE  LET v == wifi_ap_enable(w)
         IN  /\ v \in Wifis /\ WifiOK(v) /\ v.ap_enabled = TRUE
             /\ v.station_enabled = w.station_enabled
             /\ v.station_connected = w.station_connected
             /\ v.cached = w.cached /\ v.cached_changed = w.cached_changed
             /\ v.saved = w.saved
<1> DEFINE station == w.station_enabled \/ w.temporary_station_enabled
           mode == IF station THEN "stationap" ELSE "softap"
           u == wifi_set_opmode_current(w, mode)
           v == wifi_ap_enable(w)
<1>1. CASE w.ap_enabled = TRUE
  BY <1>1 DEF wifi_ap_enable
<1>2. CASE w.ap_enabled = FALSE
  <2>1. u \in Wifis /\ SameWifi(u, w) /\ WifiOK(u)
    BY ModeSet DEF Modes
  <2> DEFINE reconnect == u.reconnect /\ ~station
  <2>2. v = [u EXCEPT !.ap_enabled = TRUE, !.reconnect = reconnect]
    BY <1>2 DEF wifi_ap_enable
  <2>3. reconnect \in BOOLEAN
    OBVIOUS
  <2> HIDE DEF u, v, reconnect
  <2>4. v \in Wifis
    BY <2>1, <2>2, <2>3 DEF Wifis
  <2>5. /\ v.ap_enabled = TRUE /\ v.link = u.link /\ v.events = u.events
        /\ v.station_enabled = u.station_enabled
        /\ v.temporary_station_enabled = u.temporary_station_enabled
        /\ v.station_connect_callback = u.station_connect_callback
        /\ v.station_connected = u.station_connected
        /\ v.cached = u.cached /\ v.cached_read = u.cached_read
        /\ v.cached_changed = u.cached_changed /\ v.saved = u.saved
    BY <2>1, <2>2 DEF Wifis
  <2>6. WifiOK(v)
    BY <2>1, <2>5 DEF WifiOK
  <2> QED BY <2>1, <2>4, <2>5, <2>6 DEF SameWifi, v
<1> QED BY <1>1, <1>2 DEF Wifis

LEMMA Scanned ==
  ASSUME NEW w \in Wifis, WifiOK(w), NEW user \in BOOLEAN
  PROVE  LET v == wifi_scan(w, user, FALSE)
         IN  v \in Wifis /\ SameWifi(v, w) /\ WifiOK(v)
<1> DEFINE u == IF w.station_enabled \/ w.temporary_station_enabled THEN w
                ELSE wifi_set_opmode_current(w, IF w.ap_enabled THEN "stationap"
                                                ELSE "station")
           v == wifi_scan(w, user, FALSE)
<1>1. u \in Wifis /\ SameWifi(u, w) /\ WifiOK(u)
  BY ModeSet DEF Modes, SameWifi
<1>2. v = u \/ v = [u EXCEPT !.scanning = TRUE, !.scan_callback = user]
  BY DEF wifi_scan
<1> HIDE DEF u, v
<1>3. v \in Wifis /\ v.link = u.link /\ v.events = u.events
  BY ZenonT(60), <1>1, <1>2 DEF Wifis
<1>4. SameWifi(v, u)
  BY <1>1, <1>2 DEF Wifis, SameWifi
<1> QED BY <1>1, <1>3, <1>4 DEF WifiOK, SameWifi, v

--------------------------------------------------------------------------------
(* The functions of the program. *)

\* What nobody but the button's driver looks at.
LEMMA PlainChange ==
  ASSUME NEW d, DevOK(d), NEW pin \in BOOLEAN, NEW elapsed \in 0 .. 2,
         NEW state \in {"IDLE", "PRESSED", "TRIGGERED", "RESET"}
  PROVE  LET v == [d EXCEPT !.pin = pin, !.elapsed = elapsed, !.setup_mode_state = state]
         IN  DevOK(v) /\ Untouched(v, d)
<1> DEFINE v == [d EXCEPT !.pin = pin, !.elapsed = elapsed, !.setup_mode_state = state]
<1>1. d \in Devices
  BY DEF DevOK
<1>2. v \in Devices
  BY <1>1 DEF Devices
<1>3. /\ v.wifi = d.wifi /\ v.setup_mode = d.setup_mode /\ v.dns = d.dns
      /\ v.idle_timer = d.idle_timer /\ v.connect_timer = d.connect_timer
      /\ v.ready = d.ready /\ v.running = d.running /\ v.tasks = d.tasks
      /\ v.first_connected = d.first_connected /\ v.history = d.history
      /\ v.setup_mode_ap_client_count = d.setup_mode_ap_client_count
  BY <1>1 DEF Devices
<1> HIDE DEF v
<1>4. DevOK(v) /\ Untouched(v, d)
  BY <1>2, <1>3 DEF DevOK, Untouched
<1> QED BY <1>4 DEF v

\* A change of the Wi-Fi record that the program does not notice.
LEMMA WifiChanged ==
  ASSUME NEW d, DevOK(d), NEW w \in Wifis, SameWifi(w, d.wifi), WifiOK(w)
  PROVE  DevOK([d EXCEPT !.wifi = w]) /\ CountKept([d EXCEPT !.wifi = w], d)
<1> DEFINE v == [d EXCEPT !.wifi = w]
<1>1. d \in Devices
  BY DEF DevOK
<1>2. v \in Devices
  BY <1>1 DEF Devices
<1>3. /\ v.wifi = w /\ v.setup_mode = d.setup_mode /\ v.dns = d.dns
      /\ v.idle_timer = d.idle_timer /\ v.connect_timer = d.connect_timer
      /\ v.ready = d.ready /\ v.running = d.running /\ v.tasks = d.tasks
      /\ v.first_connected = d.first_connected /\ v.history = d.history
      /\ v.setup_mode_ap_client_count = d.setup_mode_ap_client_count
  BY <1>1 DEF Devices
<1> HIDE DEF v
<1>4. DevOK(v) /\ CountKept(v, d)
  BY <1>2, <1>3 DEF DevOK, CountKept, SameWifi
<1> QED BY <1>4 DEF v

\* A start with a configuration that was saved is a good one; nothing else of d is
\* left but what it starts from.
LEMMA Starts ==
  ASSUME NEW d, NEW saved \in Configs \cup {NoConfig},
         d.pin \in BOOLEAN, d.history \in Histories,
         HistoryOK(d.history, saved, FALSE, saved)
  PROVE  LET v == user_init(d, saved)
         IN  /\ DevOK(v) /\ v.setup_mode_ap_client_count = 0 /\ v.wifi.ap_enabled = FALSE
             /\ v.pin = d.pin
<1> DEFINE w0 == wifi_init(saved)
           w == ensure_station_config_read(w0)
           u == IF w.cached = NoConfig THEN w ELSE wifi_station_enable(w)
           h == [d.history EXCEPT !.factory = IF @ = "done" THEN "booted" ELSE @]
           v == user_init(d, saved)
<1>1. << >> \in Seq(LinkEvents) /\ 0 \in Counters
  BY WifiAssumption DEF Counters
<1>2. w0 \in Wifis
  BY <1>1 DEF wifi_init, Wifis, Modes, Links
<1>3. w = [w0 EXCEPT !.cached = saved, !.cached_read = TRUE, !.cached_changed = FALSE]
  BY DEF ensure_station_config_read, wifi_init
<1>4. /\ w \in Wifis /\ WifiOK(w) /\ w.station_enabled = FALSE /\ w.ap_enabled = FALSE
      /\ w.cached = saved /\ w.saved = saved /\ w.cached_changed = FALSE
      /\ w.station_connected = FALSE /\ w.temporary_station_enabled = FALSE
      /\ w.link = "idle" /\ w.events = << >>
  <2>1. w \in Wifis
    BY ZenonT(60), <1>2, <1>3 DEF Wifis
  <2>2. /\ w.station_enabled = FALSE /\ w.ap_enabled = FALSE
        /\ w.cached = saved /\ w.saved = saved /\ w.cached_changed = FALSE
        /\ w.station_connected = FALSE /\ w.temporary_station_enabled = FALSE
        /\ w.link = "idle" /\ w.events = << >> /\ w.cached_read = TRUE
        /\ w.station_connect_callback = FALSE
    <3>1. /\ w0.station_enabled = FALSE /\ w0.ap_enabled = FALSE
          /\ w0.saved = saved /\ w0.station_connected = FALSE
          /\ w0.temporary_station_enabled = FALSE
          /\ w0.link = "idle" /\ w0.events = << >>
          /\ w0.station_connect_callback = FALSE
      BY DEF wifi_init
    <3> HIDE DEF w0, w
    <3> QED BY <1>2, <1>3, <3>1 DEF Wifis
  <2> QED BY <2>1, <2>2 DEF WifiOK
<1> HIDE DEF w0, w
<1>5. /\ u \in Wifis /\ WifiOK(u) /\ u.ap_enabled = FALSE
      /\ u.cached = saved /\ u.saved = saved /\ u.cached_changed = FALSE
      /\ u.station_enabled = FALSE => saved = NoConfig
  <2>1. CASE w.cached = NoConfig
    BY <1>4, <2>1
  <2>2. CASE w.cached # NoConfig
    <3> DEFINE alone   == wifi_station_temporary_disable(w)
               enabled == [alone EXCEPT !.station_enabled = TRUE]
               set     == wifi_set_opmode_current(enabled, "station")
               moded   == [set EXCEPT !.reconnect = TRUE]
               loaded  == ensure_station_config_read(moded)
               linked  == wifi_station_connect(loaded)
    <3>1. alone = w
      BY <1>4 DEF wifi_station_temporary_disable
    <3>2. /\ enabled \in Wifis /\ enabled.station_enabled = TRUE
          /\ enabled.ap_enabled = FALSE /\ enabled.cached = saved
          /\ enabled.saved = saved /\ enabled.cached_changed = FALSE
          /\ enabled.temporary_station_enabled = FALSE /\ enabled.cached_read = TRUE
      BY <1>4, <3>1 DEF Wifis, WifiOK
    <3>3. set \in Wifis /\ SameWifi(set, enabled)
      BY <3>2, ModeSet DEF Modes
    <3> HIDE DEF alone, enabled, set
    <3>4. moded \in Wifis /\ SameWifi(moded, set)
      BY <3>3 DEF Wifis, SameWifi
    <3> HIDE DEF moded
    <3>5. loaded = moded
      BY <3>2, <3>3, <3>4 DEF ensure_station_config_read, SameWifi
    <3> HIDE DEF loaded
    <3>6. linked \in Wifis /\ SameWifi(linked, loaded)
      <4>1. loaded \in Wifis /\ loaded.station_enabled = TRUE
        BY <3>2, <3>3, <3>4, <3>5 DEF SameWifi
      <4> QED BY <4>1, LinkSought
    <3>7. u = [linked EXCEPT !.station_connect_callback = TRUE, !.auto_scan_timer = TRUE]
      <4>1. (IF w.ap_enabled THEN "stationap" ELSE "station") = "station"
            /\ (~w.ap_enabled) = TRUE
        BY <1>4
      <4>2. loaded.cached # NoConfig
        BY <1>4, <2>2, <3>2, <3>3, <3>4, <3>5 DEF SameWifi
      <4> QED BY <1>4, <2>2, <4>1, <4>2
                 DEF wifi_station_enable, alone, enabled, set, moded, loaded
    <3> HIDE DEF linked, u
    <3>8. /\ linked.station_enabled = TRUE /\ linked.ap_enabled = FALSE
          /\ linked.cached = saved /\ linked.saved = saved
          /\ linked.cached_changed = FALSE /\ linked.cached_read = TRUE
          /\ linked.temporary_station_enabled = FALSE
      BY <3>2, <3>3, <3>4, <3>5, <3>6 DEF SameWifi
    <3>9. u \in Wifis
      BY <3>6, <3>7 DEF Wifis
    <3>10. /\ u.station_enabled = TRUE /\ u.ap_enabled = FALSE
           /\ u.cached = saved /\ u.saved = saved
           /\ u.cached_changed = FALSE /\ u.cached_read = TRUE
           /\ u.temporary_station_enabled = FALSE /\ u.station_connect_callback = TRUE
      BY <3>6, <3>7, <3>8 DEF Wifis
    <3> QED BY <3>9, <3>10 DEF WifiOK
  <2> QED BY <2>1, <2>2
<1> DEFINE blank == [wifi |-> wifi_init(saved), ready |-> FALSE,
     setup_mode |-> FALSE, setup_mode_state |-> "IDLE", elapsed |-> 0,
     setup_mode_ap_client_count |-> 0,
     connect_timer |-> FALSE, idle_timer |-> FALSE, reset_timer |-> FALSE,
     first_connected |-> FALSE, running |-> FALSE, tasks |-> 0,
     dns |-> "stopped", pin |-> d.pin,
     history |-> h]
<1>6. v = [blank EXCEPT !.connect_timer = TRUE, !.wifi = u]
  BY DEF user_init, main_init, w, w0
<1> HIDE DEF u, v
<1>7. 0 \in -MaxMissed .. Cardinality(Clients)
  BY CountsHaveZero DEF Counts
<1>8. /\ v.wifi = u /\ v.ready = FALSE /\ v.setup_mode = FALSE
      /\ v.setup_mode_state = "IDLE" /\ v.elapsed = 0
      /\ v.setup_mode_ap_client_count = 0 /\ v.connect_timer = TRUE
      /\ v.idle_timer = FALSE /\ v.reset_timer = FALSE /\ v.first_connected = FALSE
      /\ v.running = FALSE /\ v.tasks = 0 /\ v.dns = "stopped" /\ v.pin = d.pin
      /\ v.history = h
  BY <1>6
<1>9. h \in Histories /\ HistoryOK(h, saved, FALSE, saved)
  <2> DEFINE f == IF d.history.factory = "done" THEN "booted" ELSE d.history.factory
  <2>1. f \in {"none", "done", "booted"} /\ (f = "none" <=> d.history.factory = "none")
    BY DEF Histories
  <2>2. h = [d.history EXCEPT !.factory = f]
    BY DEF Histories
  <2> HIDE DEF f, h
  <2>3. h \in Histories
    BY <2>1, <2>2 DEF Histories
  <2>4. /\ h.patched = d.history.patched /\ h.before = d.history.before
        /\ h.cut = d.history.cut /\ h.leftover = d.history.leftover /\ h.factory = f
    BY <2>2 DEF Histories
  <2> QED BY <2>1, <2>3, <2>4 DEF HistoryOK
<1> HIDE DEF h
<1>10. v \in Devices
  <2>1. v = [wifi |-> u, ready |-> FALSE,
             setup_mode |-> FALSE, setup_mode_state |-> "IDLE", elapsed |-> 0,
             setup_mode_ap_client_count |-> 0,
             connect_timer |-> TRUE, idle_timer |-> FALSE, reset_timer |-> FALSE,
             first_connected |-> FALSE, running |-> FALSE, tasks |-> 0,
             dns |-> "stopped", pin |-> d.pin, history |-> h]
    BY <1>6
  <2> QED BY <1>5, <1>7, <1>9, <2>1 DEF Devices
<1>11. DevOK(v)
  BY <1>5, <1>8, <1>9, <1>10 DEF DevOK
<1> QED BY <1>5, <1>8, <1>11 DEF v

LEMMA SavedIs ==
  ASSUME NEW w \in Wifis
  PROVE  /\ wifi_save_config(w).saved = (IF w.cached_changed = TRUE THEN w.cached ELSE w.saved)
         /\ wifi_save_config(w).saved \in Configs \cup {NoConfig}
<1> DEFINE v == IF w.station_enabled THEN w
                ELSE wifi_set_opmode_current(w, IF w.ap_enabled THEN "stationap"
                                                ELSE "station")
<1>1. v \in Wifis
  BY ModeSet DEF Modes
<1>2. wifi_save_config(w)
        = IF ~w.cached_changed THEN w
          ELSE [v EXCEPT !.saved = w.cached, !.cached_changed = FALSE, !.cached_read = TRUE]
  BY DEF wifi_save_config
<1> HIDE DEF v
<1>3. w.cached \in Configs \cup {NoConfig} /\ w.saved \in Configs \cup {NoConfig}
      /\ w.cached_changed \in BOOLEAN
  BY DEF Wifis
<1> QED BY <1>1, <1>2, <1>3 DEF Wifis

LEMMA Restarts ==
  ASSUME NEW d, DevOK(d)
  PROVE  LET v == on_system_reset(d)
         IN  /\ DevOK(v) /\ CountKept(v, d) /\ v.wifi.ap_enabled = FALSE
<1> DEFINE saved == wifi_save_config(d.wifi).saved
           v == on_system_reset(d)
<1>1. /\ d \in Devices /\ d.wifi \in Wifis /\ d.pin \in BOOLEAN
      /\ d.history \in Histories /\ d.wifi.cached_changed \in BOOLEAN
  BY DEF DevOK, Devices, Wifis
<1>2. /\ saved = (IF d.wifi.cached_changed = TRUE THEN d.wifi.cached ELSE d.wifi.saved)
      /\ saved \in Configs \cup {NoConfig}
  BY <1>1, SavedIs
<1>3. v = user_init(d, saved)
  BY DEF on_system_reset
<1> HIDE DEF saved, v
<1>4. HistoryOK(d.history, saved, FALSE, saved)
  BY <1>1, <1>2 DEF DevOK, HistoryOK, Histories
<1>5. DevOK(v) /\ v.setup_mode_ap_client_count = 0 /\ v.wifi.ap_enabled = FALSE
  BY <1>1, <1>2, <1>3, <1>4, Starts
<1> QED BY <1>5 DEF CountKept, v

\* The core stops and the reset timer is armed, or not.
LEMMA Stops ==
  ASSUME NEW d, DevOK(d), NEW armed \in BOOLEAN
  PROVE  LET v == [d EXCEPT !.running = FALSE, !.reset_timer = armed]
         IN  DevOK(v) /\ CountKept(v, d)
<1> DEFINE v == [d EXCEPT !.running = FALSE, !.reset_timer = armed]
<1>1. d \in Devices
  BY DEF DevOK
<1>2. v \in Devices
  BY <1>1 DEF Devices
<1>3. /\ v.wifi = d.wifi /\ v.setup_mode = d.setup_mode /\ v.dns = d.dns
      /\ v.idle_timer = d.idle_timer /\ v.connect_timer = d.connect_timer
      /\ v.ready = d.ready /\ v.running = FALSE /\ v.tasks = d.tasks
      /\ v.first_connected = d.first_connected /\ v.history = d.history
      /\ v.setup_mode_ap_client_count = d.setup_mode_ap_client_count
  BY <1>1 DEF Devices
<1> HIDE DEF v
<1>4. DevOK(v) /\ CountKept(v, d)
  BY <1>2, <1>3 DEF DevOK, CountKept
<1> QED BY <1>4 DEF v

LEMMA Resets ==
  ASSUME NEW d, DevOK(d), NEW delayed \in BOOLEAN
  PROVE  DevOK(system_reset(d, delayed)) /\ CountKept(system_reset(d, delayed), d)
<1>1. d \in Devices /\ d.reset_timer \in BOOLEAN
  BY DEF DevOK, Devices
<1>2. CASE delayed = TRUE
  <2>1. system_reset(d, delayed) = [d EXCEPT !.running = FALSE, !.reset_timer = TRUE]
    BY <1>1, <1>2 DEF system_reset, core_stop
  <2> QED BY <2>1, Stops
<1>3. CASE delayed = FALSE
  <2> DEFINE u == [d EXCEPT !.running = FALSE, !.reset_timer = d.reset_timer]
  <2>1. core_stop(d) = u
    BY <1>1 DEF core_stop, Devices
  <2>2. DevOK(u) /\ CountKept(u, d)
    BY <1>1, Stops
  <2>3. system_reset(d, delayed) = on_system_reset(u)
    BY <1>3, <2>1 DEF system_reset
  <2> HIDE DEF u
  <2> DEFINE v == on_system_reset(u)
  <2>4. DevOK(v) /\ CountKept(v, u) /\ v.wifi.ap_enabled = FALSE
    BY <2>2, Restarts
  <2> HIDE DEF v
  <2>5. CountKept(v, d)
    BY <2>2, <2>4 DEF CountKept
  <2> QED BY <2>3, <2>4, <2>5 DEF v
<1> QED BY <1>2, <1>3

LEMMA Blank ==
  /\ NoHistory \in Histories /\ NoHistory.factory = "none"
  /\ NoHistory.patched = Nothing /\ NoHistory.cut = "no"
BY DEF NoHistory, Histories

LEMMA FactoryResets ==
  ASSUME NEW d, DevOK(d)
  PROVE  DevOK(FactoryReset(d)) /\ Untouched(FactoryReset(d), d)
<1> DEFINE w == wifi_reset(d.wifi)
           leftover == IF d.wifi.cached_changed THEN d.wifi.cached ELSE NoConfig
           h == [NoHistory EXCEPT !.factory = "done", !.leftover = leftover]
           v == FactoryReset(d)
<1>1. d \in Devices /\ d.wifi \in Wifis
  BY DEF DevOK, Devices
<1>2. w = [d.wifi EXCEPT !.saved = NoConfig]
  BY DEF wifi_reset
<1>3. v = [d EXCEPT !.wifi = w, !.history = h]
  BY <1>1 DEF FactoryReset, Devices
<1>4. /\ h \in Histories
      /\ HistoryOK(h, d.wifi.cached, d.wifi.cached_changed, NoConfig)
  <2>1. leftover \in Configs \cup {NoConfig}
        /\ (d.wifi.cached_changed = TRUE => leftover = d.wifi.cached)
    BY <1>1 DEF Wifis
  <2> HIDE DEF leftover
  <2>2. /\ h \in Histories /\ h.factory = "done" /\ h.leftover = leftover
        /\ h.patched = Nothing
    BY <2>1, Blank DEF Histories
  <2> HIDE DEF h
  <2> QED BY <2>1, <2>2 DEF HistoryOK
<1> HIDE DEF w, v, h
<1>5. w \in Wifis
  BY <1>1, <1>2 DEF Wifis
<1>6. /\ w.ap_enabled = d.wifi.ap_enabled /\ w.saved = NoConfig
      /\ w.station_enabled = d.wifi.station_enabled
      /\ w.station_connected = d.wifi.station_connected
      /\ w.temporary_station_enabled = d.wifi.temporary_station_enabled
      /\ w.station_connect_callback = d.wifi.station_connect_callback
      /\ w.cached = d.wifi.cached /\ w.cached_changed = d.wifi.cached_changed
      /\ w.cached_read = d.wifi.cached_read
      /\ w.link = d.wifi.link /\ w.events = d.wifi.events
  BY <1>1, <1>2 DEF Wifis
<1>7. v \in Devices
  BY <1>1, <1>3, <1>4, <1>5 DEF Devices
<1>8. /\ v.wifi = w /\ v.setup_mode = d.setup_mode /\ v.dns = d.dns
      /\ v.idle_timer = d.idle_timer /\ v.connect_timer = d.connect_timer
      /\ v.ready = d.ready /\ v.running = d.running /\ v.tasks = d.tasks
      /\ v.first_connected = d.first_connected /\ v.history = h
      /\ v.setup_mode_ap_client_count = d.setup_mode_ap_client_count
  BY <1>1, <1>3 DEF Devices
<1>9. WifiOK(w)
  BY <1>6 DEF DevOK, WifiOK
<1>10. DevOK(v) /\ Untouched(v, d)
  BY <1>4, <1>6, <1>7, <1>8, <1>9 DEF DevOK, Untouched
<1> QED BY <1>10 DEF v

\* Setup mode is entered, with all of it, or left by a restart.
LEMMA Toggles ==
  ASSUME NEW d, DevOK(d)
  PROVE  LET v == system_setup_mode_toggle(d)
         IN  /\ DevOK(v) /\ CountKept(v, d)
             /\ d.setup_mode = FALSE => v.setup_mode = TRUE
<1> DEFINE v == system_setup_mode_toggle(d)
<1>1. d \in Devices /\ d.wifi \in Wifis /\ d.setup_mode \in BOOLEAN
  BY DEF DevOK, Devices
<1>2. CASE d.setup_mode = TRUE
  <2> DEFINE u == [d EXCEPT !.idle_timer = FALSE]
             t == on_system_reset(core_stop(u))
  <2>1. v = t
    BY <1>2 DEF system_setup_mode_toggle, system_reset
  <2>2. t = on_system_reset(d)
    BY <1>1 DEF on_system_reset, core_stop, user_init, Devices
  <2> QED BY <1>2, <2>1, <2>2, Restarts
<1>3. CASE d.setup_mode = FALSE
  <2> DEFINE w == wifi_ap_enable(d.wifi)
             dns == IF d.dns = "stopped" THEN "listening" ELSE d.dns
  <2>1. v = [d EXCEPT !.setup_mode = TRUE, !.idle_timer = TRUE, !.wifi = w, !.dns = dns]
    BY <1>1, <1>3 DEF system_setup_mode_toggle, Devices
  <2>2. /\ w \in Wifis /\ WifiOK(w) /\ w.ap_enabled = TRUE
        /\ w.station_enabled = d.wifi.station_enabled
        /\ w.station_connected = d.wifi.station_connected
        /\ w.cached = d.wifi.cached /\ w.cached_changed = d.wifi.cached_changed
        /\ w.saved = d.wifi.saved
    BY <1>1, ApEnabled DEF DevOK
  <2>3. dns \in {"listening", "closed"}
    BY <1>1 DEF Devices
  <2> HIDE DEF v, w, dns
  <2>4. v \in Devices
    BY <1>1, <2>1, <2>2, <2>3 DEF Devices
  <2>5. /\ v.wifi = w /\ v.setup_mode = TRUE /\ v.dns = dns
        /\ v.idle_timer = TRUE /\ v.connect_timer = d.connect_timer
        /\ v.ready = d.ready /\ v.running = d.running /\ v.tasks = d.tasks
        /\ v.first_connected = d.first_connected /\ v.history = d.history
        /\ v.setup_mode_ap_client_count = d.setup_mode_ap_client_count
    BY <1>1, <2>1 DEF Devices
  <2>6. DevOK(v) /\ CountKept(v, d)
    BY <2>2, <2>3, <2>4, <2>5 DEF DevOK, CountKept
  <2> QED BY <2>5, <2>6 DEF v
<1> QED BY <1>1, <1>2, <1>3

\* In setup mode nobody depends on the timer of the connection.
LEMMA Fired ==
  ASSUME NEW d, DevOK(d)
  PROVE  LET v == [d EXCEPT !.connect_timer = FALSE]
         IN  d.setup_mode = TRUE => DevOK(v) /\ CountKept(v, d)
<1> SUFFICES ASSUME d.setup_mode = TRUE
             PROVE  /\ DevOK([d EXCEPT !.connect_timer = FALSE])
                    /\ CountKept([d EXCEPT !.connect_timer = FALSE], d)
  OBVIOUS
<1> DEFINE v == [d EXCEPT !.connect_timer = FALSE]
<1>1. d \in Devices
  BY DEF DevOK
<1>2. v \in Devices
  BY <1>1 DEF Devices
<1>3. /\ v.wifi = d.wifi /\ v.setup_mode = d.setup_mode /\ v.dns = d.dns
      /\ v.idle_timer = d.idle_timer
      /\ v.ready = d.ready /\ v.running = d.running /\ v.tasks = d.tasks
      /\ v.first_connected = d.first_connected /\ v.history = d.history
      /\ v.setup_mode_ap_client_count = d.setup_mode_ap_client_count
  BY <1>1 DEF Devices
<1> HIDE DEF v
<1>4. DevOK(v) /\ CountKept(v, d)
  BY <1>2, <1>3 DEF DevOK, CountKept
<1> QED BY <1>4 DEF v

LEMMA ConnectTimesOut ==
  ASSUME NEW d, DevOK(d)
  PROVE  LET v == on_wifi_connect_timeout_setup_mode(d)
         IN  DevOK(v) /\ CountKept(v, d)
<1> DEFINE v == on_wifi_connect_timeout_setup_mode(d)
           fired == [d EXCEPT !.connect_timer = FALSE]
<1>1. d \in Devices /\ d.setup_mode \in BOOLEAN /\ d.wifi \in Wifis
  BY DEF DevOK, Devices
<1>2. CASE d.setup_mode = TRUE
  <2>1. v = fired
    BY <1>1, <1>2 DEF on_wifi_connect_timeout_setup_mode
  <2> QED BY <1>2, <2>1, Fired
<1>3. CASE d.setup_mode = FALSE
  <2> DEFINE t == system_setup_mode_toggle(d)
             u == [t EXCEPT !.connect_timer = FALSE]
  <2>1. DevOK(t) /\ CountKept(t, d) /\ t.setup_mode = TRUE
    BY <1>3, Toggles
  <2>2. v = u
    BY <1>1, <1>3 DEF on_wifi_connect_timeout_setup_mode, system_setup_mode_toggle, Devices
  <2> HIDE DEF t
  <2>3. DevOK(u) /\ CountKept(u, t)
    BY <2>1, Fired
  <2>4. t.setup_mode_ap_client_count = u.setup_mode_ap_client_count /\ u.wifi = t.wifi
    BY <2>1 DEF DevOK, Devices
  <2>5. CountKept(u, d)
    BY <2>1, <2>4 DEF CountKept
  <2> QED BY <2>2, <2>3, <2>5
<1> QED BY <1>1, <1>2, <1>3

LEMMA IdleTimesOut ==
  ASSUME NEW d, DevOK(d)
  PROVE  LET v == on_setup_mode_idle_timeout(d)
         IN  DevOK(v) /\ CountKept(v, d)
<1>1. CountKept(d, d)
  BY DEF CountKept
<1> QED BY <1>1, Toggles DEF on_setup_mode_idle_timeout

LEMMA Readies ==
  ASSUME NEW d, DevOK(d)
  PROVE  LET v == on_system_ready(d)
         IN  DevOK(v) /\ CountKept(v, d)
<1> DEFINE t == IF d.wifi.cached = NoConfig /\ ~d.setup_mode
                THEN system_setup_mode_toggle(d) ELSE d
           u == [t EXCEPT !.ready = TRUE]
<1>1. d \in Devices /\ d.setup_mode \in BOOLEAN /\ d.wifi \in Wifis
  BY DEF DevOK, Devices
<1>2. DevOK(t) /\ CountKept(t, d)
  <2>1. CountKept(d, d)
    BY DEF CountKept
  <2> QED BY <2>1, Toggles
<1>3. t.setup_mode = FALSE => t.wifi.station_enabled = TRUE
  <2>1. CASE d.wifi.cached = NoConfig /\ ~d.setup_mode
    BY <1>1, <2>1, Toggles
  <2>2. CASE ~(d.wifi.cached = NoConfig /\ ~d.setup_mode)
    <3>1. t = d
      BY <2>2
    <3>2. d.wifi.station_enabled \in BOOLEAN
      BY <1>1 DEF Wifis
    <3> HIDE DEF t
    <3> QED BY <1>1, <2>2, <3>1, <3>2 DEF DevOK
  <2> QED BY <2>1, <2>2
<1>4. on_system_ready(d) = u
  <2>1. ensure_station_config_read(d.wifi) = d.wifi
    BY DEF ensure_station_config_read, DevOK, WifiOK
  <2>2. [d EXCEPT !.ready = TRUE, !.wifi = ensure_station_config_read(@)]
          = [d EXCEPT !.ready = TRUE]
    BY <1>1, <2>1 DEF Devices
  <2> DEFINE r == [d EXCEPT !.ready = TRUE]
  <2>3. r.wifi = d.wifi /\ r.setup_mode = d.setup_mode /\ r.dns = d.dns
    BY <1>1 DEF Devices
  <2>4. CASE d.wifi.cached = NoConfig /\ ~d.setup_mode
    BY <1>1, <2>2, <2>3, <2>4 DEF on_system_ready, system_setup_mode_toggle, Devices
  <2>5. CASE ~(d.wifi.cached = NoConfig /\ ~d.setup_mode)
    BY <2>2, <2>3, <2>5 DEF on_system_ready
  <2> QED BY <2>4, <2>5
<1> HIDE DEF t
<1>5. t \in Devices
  BY <1>2 DEF DevOK
<1>6. u \in Devices
  BY <1>5 DEF Devices
<1>7. /\ u.wifi = t.wifi /\ u.setup_mode = t.setup_mode /\ u.dns = t.dns
      /\ u.idle_timer = t.idle_timer /\ u.connect_timer = t.connect_timer
      /\ u.ready = TRUE /\ u.running = t.running /\ u.tasks = t.tasks
      /\ u.first_connected = t.first_connected /\ u.history = t.history
      /\ u.setup_mode_ap_client_count = t.setup_mode_ap_client_count
  BY <1>5 DEF Devices
<1> HIDE DEF u
<1>8. DevOK(u) /\ CountKept(u, d)
  BY <1>2, <1>3, <1>6, <1>7 DEF DevOK, CountKept
<1> QED BY <1>4, <1>8

\* A connection was made or lost; both come in events, which no station has none of.
LEMMA GetsIp ==
  ASSUME NEW d, DevOK(d), d.wifi.events # << >>
  PROVE  LET w == [d.wifi EXCEPT !.events = Tail(@)]
             v == [IF ToldConnected(w) THEN on_wifi_connect(d, TRUE) ELSE d
                     EXCEPT !.wifi = on_got_ip(w)]
         IN  DevOK(v) /\ CountKept(v, d)
<1> DEFINE w == [d.wifi EXCEPT !.events = Tail(@)]
           x == on_got_ip(w)
           u == IF ToldConnected(w) THEN on_wifi_connect(d, TRUE) ELSE d
           v == [u EXCEPT !.wifi = x]
<1> SUFFICES DevOK(v) /\ CountKept(v, d)
  OBVIOUS
<1>1. d \in Devices /\ d.wifi \in Wifis /\ d.wifi.events \in Seq(LinkEvents)
  BY DEF DevOK, Devices, Wifis
<1>2. Tail(d.wifi.events) \in Seq(LinkEvents)
  BY <1>1
<1>3. w \in Wifis /\ SameWifi(w, d.wifi)
  BY <1>1, <1>2 DEF Wifis, SameWifi
<1>4. d.wifi.station_enabled = TRUE /\ d.wifi.station_connect_callback = TRUE
  BY <1>1 DEF DevOK, WifiOK, Wifis
<1> HIDE DEF w
<1>5. x = [w EXCEPT !.station_connected = TRUE, !.temporary_connect_timer = FALSE]
  BY DEF on_got_ip
<1> HIDE DEF x
<1>6. x \in Wifis
  BY <1>3, <1>5 DEF Wifis
<1>7. /\ x.station_connected = TRUE
      /\ x.station_enabled = d.wifi.station_enabled
      /\ x.temporary_station_enabled = d.wifi.temporary_station_enabled
      /\ x.ap_enabled = d.wifi.ap_enabled
      /\ x.station_connect_callback = d.wifi.station_connect_callback
      /\ x.cached = d.wifi.cached /\ x.cached_read = d.wifi.cached_read
      /\ x.cached_changed = d.wifi.cached_changed /\ x.saved = d.wifi.saved
  BY <1>3, <1>5 DEF Wifis, SameWifi
<1>8. WifiOK(x)
  BY <1>4, <1>7 DEF DevOK, WifiOK
<1>9. /\ d.running \in BOOLEAN /\ d.tasks \in 0 .. 1 /\ d.first_connected \in BOOLEAN
      /\ d.setup_mode \in BOOLEAN
  BY <1>1 DEF Devices
<1>10. /\ u \in Devices /\ u.setup_mode = d.setup_mode /\ u.dns = d.dns
       /\ u.idle_timer = d.idle_timer /\ u.ready = d.ready
       /\ u.history = d.history
       /\ u.setup_mode_ap_client_count = d.setup_mode_ap_client_count
       /\ u.running = TRUE => u.tasks = 1 /\ u.first_connected = TRUE
       /\ u.first_connected = FALSE => u.tasks = 0
  <2> DEFINE r == [d EXCEPT !.connect_timer = FALSE, !.first_connected = TRUE]
             q == [r EXCEPT !.running = TRUE, !.tasks = @ + 1]
  <2>1. /\ r \in Devices /\ r.running = d.running /\ r.tasks = d.tasks
        /\ r.setup_mode = d.setup_mode /\ r.dns = d.dns
        /\ r.idle_timer = d.idle_timer /\ r.ready = d.ready
        /\ r.history = d.history
        /\ r.setup_mode_ap_client_count = d.setup_mode_ap_client_count
        /\ r.first_connected = TRUE
    BY <1>1 DEF Devices
  <2>2. \/ u = d
        \/ u = r
        \/ u = q /\ d.first_connected = FALSE
    BY <1>9 DEF on_wifi_connect, core_start
  <2> HIDE DEF u, r
  <2>3. CASE u = d
    BY <1>1, <2>3 DEF DevOK
  <2>4. CASE u = r
    BY <1>9, <2>1, <2>4 DEF DevOK
  <2>5. CASE u = q /\ d.first_connected = FALSE
    <3>1. r.tasks = 0 /\ 1 \in 0 .. 1
      BY <2>1, <2>5 DEF DevOK
    <3>2. u = [r EXCEPT !.running = TRUE, !.tasks = 1]
      BY <2>1, <2>5, <3>1 DEF Devices
    <3> HIDE DEF q
    <3> QED BY ZenonT(60), <2>1, <3>1, <3>2 DEF Devices
  <2> QED BY <2>2, <2>3, <2>4, <2>5
<1> HIDE DEF u
<1>11. v \in Devices
  BY <1>6, <1>10 DEF Devices
<1>12. /\ v.wifi = x /\ v.setup_mode = u.setup_mode /\ v.dns = u.dns
       /\ v.idle_timer = u.idle_timer
       /\ v.ready = u.ready /\ v.running = u.running /\ v.tasks = u.tasks
       /\ v.first_connected = u.first_connected /\ v.history = u.history
       /\ v.setup_mode_ap_client_count = u.setup_mode_ap_client_count
  BY <1>10 DEF Devices
<1> HIDE DEF v
<1> QED BY <1>4, <1>7, <1>8, <1>10, <1>11, <1>12 DEF DevOK, CountKept

LEMMA Disconnects ==
  ASSUME NEW d, DevOK(d), d.wifi.events # << >>
  PROVE  LET w == [d.wifi EXCEPT !.events = Tail(@)]
             v == [IF ToldDisconnected(w) THEN on_wifi_connect(d, FALSE) ELSE d
                     EXCEPT !.wifi = on_disconnected(w, FALSE)]
         IN  DevOK(v) /\ CountKept(v, d)
<1> DEFINE w == [d.wifi EXCEPT !.events = Tail(@)]
           x == on_disconnected(w, FALSE)
           u == IF ToldDisconnected(w) THEN on_wifi_connect(d, FALSE) ELSE d
           v == [u EXCEPT !.wifi = x]
<1> SUFFICES DevOK(v) /\ CountKept(v, d)
  OBVIOUS
<1>1. d \in Devices /\ d.wifi \in Wifis /\ d.wifi.events \in Seq(LinkEvents)
  BY DEF DevOK, Devices, Wifis
<1>2. Tail(d.wifi.events) \in Seq(LinkEvents)
  BY <1>1
<1>3. w \in Wifis /\ SameWifi(w, d.wifi)
  BY <1>1, <1>2 DEF Wifis, SameWifi
<1>4. d.wifi.station_enabled = TRUE /\ d.wifi.station_connect_callback = TRUE
  BY <1>1 DEF DevOK, WifiOK, Wifis
<1> HIDE DEF w
<1> DEFINE timer == w.temporary_connect_timer \/ w.temporary_station_enabled
<1>5. x = [w EXCEPT !.station_connected = FALSE, !.temporary_connect_timer = timer]
      /\ timer \in BOOLEAN
  BY DEF on_disconnected
<1> HIDE DEF x, timer
<1>6. x \in Wifis
  BY <1>3, <1>5 DEF Wifis
<1>7. /\ x.station_connected = FALSE
      /\ x.station_enabled = d.wifi.station_enabled
      /\ x.temporary_station_enabled = d.wifi.temporary_station_enabled
      /\ x.ap_enabled = d.wifi.ap_enabled
      /\ x.station_connect_callback = d.wifi.station_connect_callback
      /\ x.cached = d.wifi.cached /\ x.cached_read = d.wifi.cached_read
      /\ x.cached_changed = d.wifi.cached_changed /\ x.saved = d.wifi.saved
  BY <1>3, <1>5 DEF Wifis, SameWifi
<1>8. WifiOK(x)
  BY <1>4, <1>7 DEF DevOK, WifiOK
<1>9. /\ u \in Devices /\ u.setup_mode = d.setup_mode /\ u.dns = d.dns
      /\ u.idle_timer = d.idle_timer /\ u.ready = d.ready
      /\ u.history = d.history
      /\ u.setup_mode_ap_client_count = d.setup_mode_ap_client_count
      /\ u.running = d.running /\ u.tasks = d.tasks
      /\ u.first_connected = d.first_connected
      /\ u.setup_mode = FALSE => u.connect_timer = TRUE
  <2>1. CASE ToldDisconnected(w)
    <3>1. u = [d EXCEPT !.connect_timer = TRUE]
      BY <2>1 DEF on_wifi_connect
    <3> HIDE DEF u
    <3> QED BY <1>1, <3>1 DEF Devices
  <2>2. CASE ~ToldDisconnected(w)
    <3>1. u = d
      BY <2>2
    <3>2. d.wifi.station_connected = FALSE
      BY <1>1, <1>3, <1>4, <2>2 DEF ToldDisconnected, SameWifi, Wifis
    <3> HIDE DEF u
    <3> QED BY <1>1, <3>1, <3>2 DEF DevOK
  <2> QED BY <2>1, <2>2
<1> HIDE DEF u
<1>10. v \in Devices
  BY <1>6, <1>9 DEF Devices
<1>11. /\ v.wifi = x /\ v.setup_mode = u.setup_mode /\ v.dns = u.dns
       /\ v.idle_timer = u.idle_timer /\ v.connect_timer = u.connect_timer
       /\ v.ready = u.ready /\ v.running = u.running /\ v.tasks = u.tasks
       /\ v.first_connected = u.first_connected /\ v.history = u.history
       /\ v.setup_mode_ap_client_count = u.setup_mode_ap_client_count
  BY <1>9 DEF Devices
<1> HIDE DEF v
<1> QED BY <1>4, <1>7, <1>8, <1>9, <1>10, <1>11 DEF DevOK, CountKept

\* The DNS server and the core's task.
LEMMA Serves ==
  ASSUME NEW d, DevOK(d), NEW invalid \in BOOLEAN, d.dns = "listening"
  PROVE  LET v == [d EXCEPT !.dns = IF invalid THEN "closed" ELSE "listening"]
         IN  DevOK(v) /\ CountKept(v, d)
<1> DEFINE dns == IF invalid THEN "closed" ELSE "listening"
           v == [d EXCEPT !.dns = dns]
<1> SUFFICES DevOK(v) /\ CountKept(v, d)
  OBVIOUS
<1>1. d \in Devices /\ d.setup_mode = TRUE
  BY DEF DevOK, Devices
<1>2. dns \in {"listening", "closed"}
  OBVIOUS
<1> HIDE DEF dns
<1>3. v \in Devices
  BY <1>1, <1>2 DEF Devices
<1>4. /\ v.wifi = d.wifi /\ v.setup_mode = d.setup_mode /\ v.dns = dns
      /\ v.idle_timer = d.idle_timer /\ v.connect_timer = d.connect_timer
      /\ v.ready = d.ready /\ v.running = d.running /\ v.tasks = d.tasks
      /\ v.first_connected = d.first_connected /\ v.history = d.history
      /\ v.setup_mode_ap_client_count = d.setup_mode_ap_client_count
  BY <1>1 DEF Devices
<1> HIDE DEF v
<1> QED BY <1>1, <1>2, <1>3, <1>4 DEF DevOK, CountKept

LEMMA Handles ==
  ASSUME NEW d, DevOK(d), d.tasks > 0
  PROVE  DevOK(core_task_handler(d)) /\ CountKept(core_task_handler(d), d)
<1> DEFINE tasks == IF d.running THEN d.tasks ELSE d.tasks - 1
           v == core_task_handler(d)
<1>1. d \in Devices /\ d.tasks = 1 /\ d.running \in BOOLEAN /\ d.first_connected \in BOOLEAN
  BY DEF DevOK, Devices
<1>2. tasks \in 0 .. 1 /\ (d.running = TRUE => tasks = 1)
  BY <1>1
<1>3. v = [d EXCEPT !.tasks = tasks]
  BY DEF core_task_handler
<1> HIDE DEF tasks, v
<1>4. v \in Devices
  BY <1>1, <1>2, <1>3 DEF Devices
<1>5. /\ v.wifi = d.wifi /\ v.setup_mode = d.setup_mode /\ v.dns = d.dns
      /\ v.idle_timer = d.idle_timer /\ v.connect_timer = d.connect_timer
      /\ v.ready = d.ready /\ v.running = d.running /\ v.tasks = tasks
      /\ v.first_connected = d.first_connected /\ v.history = d.history
      /\ v.setup_mode_ap_client_count = d.setup_mode_ap_client_count
  BY <1>1, <1>3 DEF Devices
<1>6. d.first_connected = TRUE
  BY <1>1 DEF DevOK
<1>7. DevOK(v) /\ CountKept(v, d)
  BY <1>2, <1>4, <1>5, <1>6 DEF DevOK, CountKept
<1> QED BY <1>7 DEF v

LEMMA ReadsButton ==
  ASSUME NEW d, DevOK(d)
  PROVE  DevOK(ReadButton(d)) /\ Untouched(ReadButton(d), d)
<1> DEFINE v == ReadButton(d)
           Of(state) == [d EXCEPT !.setup_mode_state = state, !.elapsed = 0]
<1>1. d \in Devices /\ d.pin \in BOOLEAN
  BY DEF DevOK, Devices
<1>2. ASSUME NEW state \in {"IDLE", "PRESSED"}
      PROVE  DevOK(Of(state)) /\ Untouched(Of(state), d)
  <2>1. Of(state) = [d EXCEPT !.pin = d.pin, !.elapsed = 0, !.setup_mode_state = state]
    BY <1>1 DEF Devices
  <2>2. 0 \in 0 .. 2
    OBVIOUS
  <2> QED BY <1>1, <2>1, <2>2, PlainChange
<1>3. Untouched(d, d)
  BY DEF Untouched
<1>4. v \in {d, Of("IDLE"), Of("PRESSED")}
  BY DEF ReadButton
<1> HIDE DEF v, Of
<1>5. DevOK(v) /\ Untouched(v, d)
  BY <1>2, <1>3, <1>4
<1> QED BY <1>5 DEF v

LEMMA Updates ==
  ASSUME NEW d, DevOK(d)
  PROVE  DevOK(update(d)) /\ CountKept(update(d), d)
<1>1. /\ d \in Devices /\ d.pin \in BOOLEAN /\ d.elapsed \in 0 .. 2
      /\ d.setup_mode \in BOOLEAN
  BY DEF DevOK, Devices
<1>2. CountKept(d, d)
  BY DEF CountKept
<1>3. CASE d.setup_mode_state = "RESET"
  BY <1>2, <1>3 DEF update
<1>4. CASE d.setup_mode_state # "RESET" /\ d.elapsed = 2
  <2> DEFINE f == FactoryReset(d)
             u == [f EXCEPT !.setup_mode_state = "RESET"]
             v == system_reset(u, TRUE)
  <2>1. update(d) = v
    BY <1>4 DEF update
  <2>2. DevOK(f) /\ Untouched(f, d)
    BY FactoryResets
  <2> HIDE DEF f
  <2>3. DevOK(u) /\ Untouched(u, f)
    <3>1. f \in Devices /\ f.pin \in BOOLEAN /\ f.elapsed \in 0 .. 2
      BY <2>2 DEF DevOK, Devices
    <3>2. u = [f EXCEPT !.pin = f.pin, !.elapsed = f.elapsed, !.setup_mode_state = "RESET"]
      BY <3>1 DEF Devices
    <3> QED BY <2>2, <3>1, <3>2, PlainChange
  <2> HIDE DEF u
  <2>4. DevOK(v) /\ CountKept(v, u)
    BY <2>3, Resets
  <2> HIDE DEF v
  <2>5. CountKept(v, d)
    BY <2>2, <2>3, <2>4 DEF CountKept, Untouched
  <2> QED BY <2>1, <2>4, <2>5
<1>5. CASE d.setup_mode_state = "PRESSED" /\ d.elapsed = 1
  <2> DEFINE u == [d EXCEPT !.setup_mode_state = "TRIGGERED"]
             t == system_setup_mode_toggle(u)
             b == ReadButton(t)
  <2>1. update(d) \in {t, b}
    BY <1>1, <1>5 DEF update
  <2>2. DevOK(u) /\ Untouched(u, d)
    <3>1. u = [d EXCEPT !.pin = d.pin, !.elapsed = d.elapsed,
                        !.setup_mode_state = "TRIGGERED"]
      BY <1>1 DEF Devices
    <3> QED BY <1>1, <3>1, PlainChange
  <2> HIDE DEF u
  <2>3. DevOK(t) /\ CountKept(t, u)
    BY <2>2, Toggles
  <2> HIDE DEF t
  <2>4. DevOK(b) /\ Untouched(b, t)
    BY <2>3, ReadsButton
  <2> HIDE DEF b
  <2>5. CountKept(t, d) /\ CountKept(b, d)
    BY <2>2, <2>3, <2>4 DEF CountKept, Untouched
  <2> QED BY <2>1, <2>3, <2>4, <2>5
<1>6. CASE /\ d.setup_mode_state # "RESET" /\ d.elapsed # 2
           /\ ~(d.setup_mode_state = "PRESSED" /\ d.elapsed = 1)
  <2>1. update(d) = ReadButton(d)
    BY <1>6 DEF update
  <2> QED BY <2>1, ReadsButton DEF CountKept, Untouched
<1> QED BY <1>3, <1>4, <1>5, <1>6

\* Settings by the API: a change of the configuration.
LEMMA Patches ==
  ASSUME NEW d, DevOK(d), NEW c \in Configs \cup {NoConfig},
         d.setup_mode = TRUE \/ d.wifi.station_enabled = TRUE
  PROVE  LET h == [NoHistory EXCEPT !.patched = c, !.before = d.wifi.saved]
             v == [d EXCEPT !.wifi = wifi_set(d.wifi, c), !.history = h]
         IN  DevOK(v) /\ Untouched(v, d)
<1> DEFINE w == wifi_set(d.wifi, c)
           h == [NoHistory EXCEPT !.patched = c, !.before = d.wifi.saved]
           v == [d EXCEPT !.wifi = w, !.history = h]
<1> SUFFICES DevOK(v) /\ Untouched(v, d)
  OBVIOUS
<1>1. d \in Devices /\ d.wifi \in Wifis
  BY DEF DevOK, Devices
<1>2. w = [d.wifi EXCEPT !.cached = c, !.cached_changed = TRUE]
  BY DEF wifi_set, ensure_station_config_read, DevOK, WifiOK
<1> HIDE DEF w
<1>3. w \in Wifis
  BY <1>1, <1>2 DEF Wifis
<1>4. /\ w.ap_enabled = d.wifi.ap_enabled /\ w.saved = d.wifi.saved
      /\ w.station_enabled = d.wifi.station_enabled
      /\ w.station_connected = d.wifi.station_connected
      /\ w.temporary_station_enabled = d.wifi.temporary_station_enabled
      /\ w.station_connect_callback = d.wifi.station_connect_callback
      /\ w.cached = c /\ w.cached_changed = TRUE
      /\ w.cached_read = d.wifi.cached_read
      /\ w.link = d.wifi.link /\ w.events = d.wifi.events
  BY <1>1, <1>2 DEF Wifis
<1>5. h \in Histories /\ HistoryOK(h, c, TRUE, d.wifi.saved)
  <2>1. d.wifi.saved \in Configs \cup {NoConfig}
    BY <1>1 DEF Wifis
  <2>2. /\ h \in Histories /\ h.factory = "none" /\ h.patched = c
        /\ h.before = d.wifi.saved /\ h.cut = "no"
    BY <2>1, Blank DEF Histories
  <2> HIDE DEF h
  <2> QED BY <2>2 DEF HistoryOK
<1> HIDE DEF h
<1>6. v \in Devices
  BY <1>1, <1>3, <1>5 DEF Devices
<1>7. /\ v.wifi = w /\ v.setup_mode = d.setup_mode /\ v.dns = d.dns
      /\ v.idle_timer = d.idle_timer /\ v.connect_timer = d.connect_timer
      /\ v.ready = d.ready /\ v.running = d.running /\ v.tasks = d.tasks
      /\ v.first_connected = d.first_connected /\ v.history = h
      /\ v.setup_mode_ap_client_count = d.setup_mode_ap_client_count
  BY <1>1 DEF Devices
<1>8. WifiOK(w)
  BY <1>4 DEF DevOK, WifiOK
<1> HIDE DEF v
<1> QED BY <1>4, <1>5, <1>6, <1>7, <1>8 DEF DevOK, Untouched

LEMMA CutsPower ==
  ASSUME NEW d, DevOK(d), NEW saving \in BOOLEAN, saving => d.wifi.cached_changed
  PROVE  LET cut == IF d.wifi.cached_changed /\ d.history.patched # Nothing
                    THEN [d EXCEPT !.history.cut = IF saving THEN "saving" ELSE "pending"]
                    ELSE d
             v == user_init(cut, IF saving THEN NoConfig ELSE d.wifi.saved)
         IN  DevOK(v) /\ CountKept(v, d)
<1> DEFINE noted == d.wifi.cached_changed /\ d.history.patched # Nothing
           how == IF saving THEN "saving" ELSE "pending"
           h == IF noted THEN [d.history EXCEPT !.cut = how] ELSE d.history
           u == IF noted THEN [d EXCEPT !.history.cut = how] ELSE d
           saved == IF saving THEN NoConfig ELSE d.wifi.saved
           v == user_init(u, saved)
<1>1. /\ d \in Devices /\ d.wifi.saved \in Configs \cup {NoConfig}
      /\ d.wifi.cached_changed \in BOOLEAN /\ d.history \in Histories
  BY DEF DevOK, Devices, Wifis
<1>2. u.pin \in BOOLEAN /\ u.history = h
  BY <1>1 DEF Devices
<1>3. saved \in Configs \cup {NoConfig}
  BY <1>1
<1>4. h \in Histories /\ HistoryOK(h, saved, FALSE, saved)
  <2>1. HistoryOK(d.history, d.wifi.cached, d.wifi.cached_changed, d.wifi.saved)
    BY DEF DevOK
  <2>2. CASE noted
    <3>1. h = [d.history EXCEPT !.cut = how] /\ d.wifi.cached_changed = TRUE
          /\ d.history.patched # Nothing
      BY <1>1, <2>2
    <3>2. h \in Histories /\ h.cut = how /\ h.patched = d.history.patched
          /\ h.before = d.history.before /\ h.factory = d.history.factory
      BY <1>1, <3>1 DEF Histories
    <3>3. d.wifi.saved = d.history.before /\ d.history.factory = "none"
      BY <2>1, <3>1 DEF HistoryOK
    <3>4. CASE saving = TRUE
      <4>1. saved = NoConfig /\ h.cut = "saving"
        BY <3>2, <3>4
      <4> HIDE DEF h, saved
      <4> QED BY <3>2, <3>3, <4>1 DEF HistoryOK
    <3>5. CASE saving = FALSE
      <4>1. saved = h.before /\ h.cut = "pending"
        BY <3>2, <3>3, <3>5
      <4> HIDE DEF h, saved
      <4> QED BY <3>2, <3>3, <4>1 DEF HistoryOK
    <3> QED BY <3>4, <3>5
  <2>3. CASE ~noted
    <3>1. h = d.history /\ (d.wifi.cached_changed = FALSE \/ h.patched = Nothing)
      BY <1>1, <2>3
    <3>2. d.wifi.cached_changed = FALSE => saved = d.wifi.saved
      BY <1>1
    <3> HIDE DEF h
    <3> QED BY <1>1, <2>1, <3>1, <3>2 DEF HistoryOK
  <2> QED BY <2>2, <2>3
<1> HIDE DEF h, u, saved
<1>5. DevOK(v) /\ v.setup_mode_ap_client_count = 0 /\ v.wifi.ap_enabled = FALSE
  BY <1>2, <1>3, <1>4, Starts
<1> HIDE DEF v
<1>6. DevOK(v) /\ CountKept(v, d)
  BY <1>5 DEF CountKept
<1> QED BY <1>6 DEF v, u, saved

--------------------------------------------------------------------------------
(* The clients of the access point. *)

Leased(cs) == {c \in Clients : cs[c] = "leased"}

LEMMA LeasedFinite ==
  ASSUME NEW cs
  PROVE  /\ IsFiniteSet(Leased(cs)) /\ Cardinality(Leased(cs)) \in Nat
         /\ Cardinality(Leased(cs)) <= Cardinality(Clients)
<1>1. IsFiniteSet(Leased(cs)) /\ Cardinality(Leased(cs)) <= Cardinality(Clients)
  BY SetupAssumption, FS_Subset DEF Leased
<1> QED BY <1>1, FS_CardinalityType

\* The count is the clients that have an address, less those that left without one
\* since the access point came up; without the access point there are none of either.
IInv ==
  /\ DevOK(dev)
  /\ clients \in [Clients -> {"away", "joined", "leased"}]
  /\ missed \in 0 .. MaxMissed
  /\ network \in BOOLEAN /\ ops \in 0 .. MaxOps
  /\ \A c \in Clients : clients[c] # "away" => dev.wifi.ap_enabled = TRUE
  /\ dev.wifi.ap_enabled = FALSE => missed = 0
  /\ dev.setup_mode_ap_client_count = Cardinality(Leased(clients)) - missed

LEMMA BecomesKeeps ==
  ASSUME IInv, NEW d, DevOK(d), CountKept(d, dev), Becomes(d),
         network' \in BOOLEAN, ops' \in 0 .. MaxOps
  PROVE  IInv'
<1>1. dev' = d
  BY DEF Becomes
<1>2. d.wifi.ap_enabled \in BOOLEAN
  BY DEF DevOK, Devices, Wifis
<1>3. CASE d.wifi.ap_enabled = TRUE
  <2>1. clients' = clients /\ missed' = missed
        /\ d.setup_mode_ap_client_count = dev.setup_mode_ap_client_count
    BY <1>3 DEF Becomes, CountKept
  <2> QED BY <1>1, <1>3, <2>1 DEF IInv, DevOK, WifiOK, Leased
<1>4. CASE d.wifi.ap_enabled = FALSE
  <2>1. clients' = [c \in Clients |-> "away"] /\ missed' = 0
    BY <1>4 DEF Becomes
  <2>2. Leased(clients') = {}
    BY <2>1 DEF Leased
  <2>3. Cardinality(Leased(clients')) = 0
    BY <2>2, FS_EmptySet
  <2>4. d.setup_mode_ap_client_count = 0
    <3>1. CASE d.setup_mode_ap_client_count = 0
      BY <3>1
    <3>2. CASE /\ d.setup_mode_ap_client_count = dev.setup_mode_ap_client_count
               /\ dev.wifi.ap_enabled # TRUE
      <4>1. Leased(clients) = {}
        BY <3>2 DEF IInv, Leased
      <4>2. Cardinality(Leased(clients)) = 0
        BY <4>1, FS_EmptySet
      <4>3. missed = 0
        BY <3>2 DEF IInv, DevOK, Devices, Wifis
      <4> QED BY <3>2, <4>2, <4>3 DEF IInv
    <3> QED BY <1>4, <3>1, <3>2 DEF CountKept
  <2>5. \A c \in Clients : clients'[c] = "away"
    BY <2>1
  <2>6. clients' \in [Clients -> {"away", "joined", "leased"}]
    BY <2>1
  <2>7. missed' \in 0 .. MaxMissed
    BY <2>1, SetupAssumption
  <2> QED BY <1>1, <2>1, <2>3, <2>4, <2>5, <2>6, <2>7 DEF IInv, DevOK, WifiOK, Leased
<1> QED BY <1>2, <1>3, <1>4

LEMMA InitIInv == Init => IInv
<1> SUFFICES ASSUME Init PROVE IInv
  OBVIOUS
<1> DEFINE e == [pin |-> FALSE, history |-> NoHistory]
<1>1. PICK saved \in Configs \cup {NoConfig} : dev = user_init(e, saved)
  BY DEF Init
<1>2. /\ e.pin = FALSE /\ e.history \in Histories
      /\ HistoryOK(e.history, saved, FALSE, saved)
  BY DEF NoHistory, Histories, HistoryOK
<1> HIDE DEF e
<1>3. DevOK(dev) /\ dev.setup_mode_ap_client_count = 0
  BY <1>1, <1>2, Starts
<1>4. clients = [c \in Clients |-> "away"] /\ missed = 0
  BY DEF Init
<1>5. Leased(clients) = {}
  BY <1>4 DEF Leased
<1>6. Cardinality(Leased(clients)) = 0
  BY <1>5, FS_EmptySet
<1>7. network \in BOOLEAN /\ ops \in 0 .. MaxOps /\ missed \in 0 .. MaxMissed
  BY <1>4, SetupAssumption DEF Init
<1>8. /\ \A c \in Clients : clients[c] = "away"
      /\ clients \in [Clients -> {"away", "joined", "leased"}]
  BY <1>4
<1> QED BY <1>3, <1>4, <1>6, <1>7, <1>8 DEF IInv

\* Where the API is reached there is a station or the device's own network.
LEMMA ReachedBySome ==
  ASSUME IInv, Reached
  PROVE  dev.setup_mode = TRUE \/ dev.wifi.station_enabled = TRUE
<1>1. /\ dev.wifi.station_connected \in BOOLEAN /\ dev.wifi.station_enabled \in BOOLEAN
      /\ dev.setup_mode \in BOOLEAN
  BY DEF IInv, DevOK, Devices, Wifis
<1>2. CASE dev.wifi.station_connected
  BY <1>1, <1>2 DEF IInv, DevOK, WifiOK
<1>3. CASE \E c \in Clients : clients[c] # "away"
  BY <1>1, <1>3 DEF IInv, DevOK
<1> QED BY <1>2, <1>3 DEF Reached

LEMMA NextIInv ==
  ASSUME IInv, Next
  PROVE  IInv'
<1>1. /\ DevOK(dev) /\ dev \in Devices /\ dev.wifi \in Wifis /\ WifiOK(dev.wifi)
      /\ dev.pin \in BOOLEAN /\ dev.elapsed \in 0 .. 2
      /\ dev.setup_mode_state \in {"IDLE", "PRESSED", "TRIGGERED", "RESET"}
  BY DEF IInv, DevOK, Devices
<1>2. ASSUME NEW d, DevOK(d) /\ CountKept(d, dev), Do(d)
      PROVE  IInv'
  <2>1. network' \in BOOLEAN /\ ops' \in 0 .. MaxOps /\ Becomes(d)
    BY <1>2 DEF Do, IInv
  <2> QED BY <1>2, <2>1, BecomesKeeps
<1>3. ASSUME NEW d, DevOK(d) /\ CountKept(d, dev), UserDoes(d)
      PROVE  IInv'
  <2>1. network' \in BOOLEAN /\ ops' \in 0 .. MaxOps /\ Becomes(d)
    BY <1>3, SetupAssumption DEF UserDoes, IInv
  <2> QED BY <1>3, <2>1, BecomesKeeps
<1>4. ASSUME NEW w \in Wifis, SameWifi(w, dev.wifi) /\ WifiOK(w), SdkDo(w)
      PROVE  IInv'
  BY <1>1, <1>2, <1>4, WifiChanged DEF SdkDo
<1>5. CASE SystemReady
  BY <1>1, <1>2, <1>5, Readies DEF SystemReady
<1>6. CASE Update
  BY <1>1, <1>2, <1>6, Updates DEF Update
<1>7. CASE CoreTask
  BY <1>1, <1>2, <1>7, Handles DEF CoreTask
<1>8. CASE ConnectTimeout
  BY <1>1, <1>2, <1>8, ConnectTimesOut DEF ConnectTimeout
<1>9. CASE IdleTimeout
  BY <1>1, <1>2, <1>9, IdleTimesOut DEF IdleTimeout
<1>10. CASE ResetTimeout
  BY <1>1, <1>2, <1>10, Restarts DEF ResetTimeout
<1>11. ASSUME NEW weak \in BOOLEAN, AutoScan(weak)
       PROVE  IInv'
  <2> DEFINE w == on_auto_scan(dev.wifi, weak, FALSE)
  <2>1. Do([dev EXCEPT !.wifi = w])
    BY <1>11 DEF AutoScan
  <2>2. w \in Wifis /\ SameWifi(w, dev.wifi) /\ WifiOK(w)
    <3>1. CASE w = [dev.wifi EXCEPT !.auto_scan_timer = FALSE]
      <4> HIDE DEF w
      <4>1. w \in Wifis /\ w.link = dev.wifi.link /\ w.events = dev.wifi.events
        BY <1>1, <3>1 DEF Wifis
      <4>2. SameWifi(w, dev.wifi)
        BY <1>1, <3>1 DEF Wifis, SameWifi
      <4> QED BY <1>1, <4>1, <4>2 DEF WifiOK, SameWifi
    <3>2. CASE w = wifi_scan(dev.wifi, FALSE, FALSE)
      <4>1. FALSE \in BOOLEAN
        OBVIOUS
      <4> HIDE DEF w
      <4> QED BY <1>1, <3>2, <4>1, Scanned
    <3>3. CASE w = dev.wifi
      <4> HIDE DEF w
      <4> QED BY <1>1, <3>3 DEF SameWifi
    <3> QED BY <3>1, <3>2, <3>3 DEF on_auto_scan
  <2> HIDE DEF w
  <2> QED BY <1>4, <2>1, <2>2 DEF SdkDo
<1>12. ASSUME NEW ok \in BOOLEAN, ScanDone(ok)
       PROVE  IInv'
  <2> DEFINE w == on_wifi_scan_done(dev.wifi, ok, NoBssid)
             done == [dev.wifi EXCEPT !.scanning = FALSE, !.scan_callback = FALSE]
             cleared == [done EXCEPT !.better_counter = 0, !.better_bssid = NoBssid]
  <2>1. Do([dev EXCEPT !.wifi = w])
    BY <1>12 DEF ScanDone
  <2>2. w \in {done, cleared}
    BY DEF on_wifi_scan_done, Jumps, SteadilyBetter
  <2>3. 0 \in Counters
    BY WifiAssumption DEF Counters
  <2>4. done \in Wifis /\ cleared \in Wifis
    BY ZenonT(60), <1>1, <2>3 DEF Wifis
  <2>5. /\ SameWifi(done, dev.wifi) /\ SameWifi(cleared, dev.wifi)
        /\ done.link = dev.wifi.link /\ done.events = dev.wifi.events
        /\ cleared.link = dev.wifi.link /\ cleared.events = dev.wifi.events
    BY <1>1 DEF Wifis, SameWifi
  <2> HIDE DEF w, done, cleared
  <2>6. w \in Wifis /\ SameWifi(w, dev.wifi) /\ WifiOK(w)
    BY <1>1, <2>2, <2>4, <2>5 DEF WifiOK, SameWifi
  <2> QED BY <1>4, <2>1, <2>6 DEF SdkDo
<1>13. CASE GotIp
  BY <1>1, <1>2, <1>13, GetsIp DEF GotIp
<1>14. CASE Disconnected
  BY <1>1, <1>2, <1>14, Disconnects DEF Disconnected
<1>15. ASSUME NEW invalid \in BOOLEAN, process_request(invalid)
       PROVE  IInv'
  BY <1>1, <1>2, <1>15, Serves DEF process_request
<1>16. CASE Attempt
  <2>1. dev.wifi.station_enabled = TRUE /\ SdkDo(wifi_station_connect(dev.wifi))
    BY <1>1, <1>16 DEF Attempt, Wifis
  <2> QED BY <1>1, <1>4, <2>1, LinkSought
<1>17. CASE LinkUp
  <2> DEFINE w == [dev.wifi EXCEPT !.link = "up", !.events = Append(@, "got_ip")]
  <2>1. dev.wifi.station_enabled = TRUE
    BY <1>1, <1>17 DEF LinkUp, WifiOK, Wifis
  <2>2. dev.wifi.events \in Seq(LinkEvents) /\ "got_ip" \in LinkEvents
    BY <1>1 DEF Wifis, LinkEvents
  <2>3. Append(dev.wifi.events, "got_ip") \in Seq(LinkEvents)
    BY <2>2
  <2>4. w = [dev.wifi EXCEPT !.link = "up", !.events = Append(dev.wifi.events, "got_ip")]
    BY <1>1 DEF Wifis
  <2>5. SdkDo(w)
    BY <1>17 DEF LinkUp
  <2> HIDE DEF w
  <2>6. w \in Wifis
    BY <1>1, <2>3, <2>4 DEF Wifis, Links
  <2>7. SameWifi(w, dev.wifi)
    BY <1>1, <2>4 DEF Wifis, SameWifi
  <2>8. WifiOK(w)
    BY <1>1, <2>1, <2>7 DEF WifiOK, SameWifi
  <2> QED BY <1>4, <2>5, <2>6, <2>7, <2>8
<1>18. CASE LinkDown
  <2>1. SdkDo(wifi_station_disconnect(dev.wifi))
    BY <1>18 DEF LinkDown
  <2> QED BY <1>1, <1>4, <2>1, LinkDropped
<1>19. CASE NetworkChanges
  BY <1>19 DEF NetworkChanges, IInv, Leased, DevOK, WifiOK
<1>20. ASSUME NEW c \in Clients, ClientJoins(c)
       PROVE  IInv'
  <2> DEFINE w == on_ap_client_connected(dev.wifi)
             v == [dev EXCEPT !.wifi = w]
  <2>1. w = [dev.wifi EXCEPT !.temporary_connect_timer = FALSE]
    BY DEF on_ap_client_connected
  <2>2. /\ dev.wifi.ap_enabled = TRUE /\ clients[c] = "away" /\ dev' = v
        /\ clients' = [clients EXCEPT ![c] = "joined"]
        /\ UNCHANGED <<missed, network, ops>>
    BY <1>1, <1>20 DEF ClientJoins, Wifis
  <2> HIDE DEF w
  <2>3. w \in Wifis /\ w.link = dev.wifi.link /\ w.events = dev.wifi.events
    BY <1>1, <2>1 DEF Wifis
  <2>4. SameWifi(w, dev.wifi)
    BY <1>1, <2>1 DEF Wifis, SameWifi
  <2>5. WifiOK(w)
    BY <1>1, <2>3, <2>4 DEF WifiOK, SameWifi
  <2>6. DevOK(v) /\ v.wifi = w
        /\ v.setup_mode_ap_client_count = dev.setup_mode_ap_client_count
    BY <1>1, <2>3, <2>4, <2>5, WifiChanged DEF Devices
  <2> HIDE DEF v
  <2>7. Leased(clients') = Leased(clients)
    BY <2>2 DEF Leased, IInv
  <2>8. /\ clients' \in [Clients -> {"away", "joined", "leased"}]
        /\ dev'.wifi.ap_enabled = TRUE
    BY <2>2, <2>4, <2>6 DEF IInv, SameWifi
  <2> QED BY <2>2, <2>6, <2>7, <2>8 DEF IInv, DevOK, WifiOK, Leased
<1>21. ASSUME NEW c \in Clients, ClientGetsIp(c) \/ ClientLeaves(c)
       PROVE  IInv'
  <2> DEFINE n == dev'.setup_mode_ap_client_count
  <2>1. /\ dev.setup_mode_ap_client_count \in Int
        /\ dev.setup_mode_ap_client_count >= -MaxMissed
        /\ dev.setup_mode_ap_client_count <= Cardinality(Clients)
        /\ Cardinality(Clients) \in Nat /\ MaxMissed \in Nat
    BY <1>1, CountsHaveZero, SetupAssumption DEF Devices
  <2>2. PICK m \in Int : dev' = [dev EXCEPT !.setup_mode_ap_client_count = m]
    BY <1>21, <2>1 DEF ClientGetsIp, ClientLeaves, on_setup_mode_ap_client
  <2>3. /\ dev'.wifi = dev.wifi /\ n = m
        /\ clients' \in [Clients -> {"away", "joined", "leased"}]
        /\ clients[c] # "away"
        /\ \A b \in Clients : clients'[b] # "away" => clients[b] # "away"
        /\ UNCHANGED <<network, ops>>
    BY <1>1, <1>21, <2>2 DEF ClientGetsIp, ClientLeaves, IInv, Devices
  <2>4. missed' \in 0 .. MaxMissed /\ n = Cardinality(Leased(clients')) - missed'
    <3>1. IsFiniteSet(Leased(clients)) /\ Cardinality(Leased(clients)) \in Nat
      BY LeasedFinite
    <3>2. CASE ClientGetsIp(c)
      <4>1. n = dev.setup_mode_ap_client_count + 1 /\ missed' = missed
        BY <1>1, <3>2 DEF ClientGetsIp, on_setup_mode_ap_client, Devices
      <4>2. c \notin Leased(clients) /\ Leased(clients') = Leased(clients) \cup {c}
        BY <3>2 DEF ClientGetsIp, Leased, IInv
      <4>3. Cardinality(Leased(clients')) = Cardinality(Leased(clients)) + 1
        BY <3>1, <4>2, FS_AddElement
      <4> QED BY <2>1, <3>1, <4>1, <4>3 DEF IInv
    <3>3. CASE ClientLeaves(c) /\ clients[c] = "leased"
      <4>1. n = dev.setup_mode_ap_client_count - 1 /\ missed' = missed
        BY <1>1, <3>3 DEF ClientLeaves, on_setup_mode_ap_client, Devices
      <4>2. c \in Leased(clients) /\ Leased(clients') = Leased(clients) \ {c}
        BY <3>3 DEF ClientLeaves, Leased, IInv
      <4>3. Cardinality(Leased(clients')) = Cardinality(Leased(clients)) - 1
        BY <3>1, <4>2, FS_RemoveElement
      <4> QED BY <2>1, <3>1, <4>1, <4>3 DEF IInv
    <3>4. CASE ClientLeaves(c) /\ clients[c] # "leased"
      <4>1. n = dev.setup_mode_ap_client_count - 1
            /\ missed' = missed + 1 /\ missed < MaxMissed
        BY <1>1, <3>4 DEF ClientLeaves, on_setup_mode_ap_client, Devices
      <4>2. Leased(clients') = Leased(clients)
        BY <3>4 DEF ClientLeaves, Leased, IInv
      <4> QED BY <2>1, <3>1, <4>1, <4>2 DEF IInv
    <3> QED BY <1>21, <3>2, <3>3, <3>4
  <2>5. n \in -MaxMissed .. Cardinality(Clients)
    <3>1. /\ Cardinality(Leased(clients')) \in Nat
          /\ Cardinality(Leased(clients')) <= Cardinality(Clients)
      BY LeasedFinite
    <3> QED BY <2>1, <2>4, <3>1
  <2>6. DevOK(dev')
    <3> DEFINE v == dev'
    <3>1. v \in Devices
      BY <1>1, <2>2, <2>3, <2>5 DEF Devices
    <3>2. /\ v.wifi = dev.wifi /\ v.setup_mode = dev.setup_mode /\ v.dns = dev.dns
          /\ v.idle_timer = dev.idle_timer /\ v.connect_timer = dev.connect_timer
          /\ v.ready = dev.ready /\ v.running = dev.running /\ v.tasks = dev.tasks
          /\ v.first_connected = dev.first_connected /\ v.history = dev.history
      BY <1>1, <2>2 DEF Devices
    <3> HIDE DEF v
    <3>3. DevOK(v)
      BY <1>1, <3>1, <3>2 DEF DevOK
    <3> QED BY <3>3 DEF v
  <2>7. /\ \A b \in Clients : clients'[b] # "away" => dev'.wifi.ap_enabled = TRUE
        /\ dev'.wifi.ap_enabled = TRUE
    BY <2>3 DEF IInv
  <2> QED BY <2>3, <2>4, <2>6, <2>7 DEF IInv, DevOK, WifiOK, Leased
<1>22. CASE Press \/ Release \/ TimePasses
  <2>1. PICK pin \in BOOLEAN, elapsed \in 0 .. 2 :
          LET v == [dev EXCEPT !.pin = pin, !.elapsed = elapsed]
          IN  Do(v) \/ UserDoes(v)
    <3>1. CASE Press
      <4>1. UserDoes([dev EXCEPT !.pin = TRUE, !.elapsed = dev.elapsed])
        BY <1>1, <3>1 DEF Press, Devices
      <4> QED BY <1>1, <4>1
    <3>2. CASE Release
      <4>1. Do([dev EXCEPT !.pin = FALSE, !.elapsed = dev.elapsed])
        BY <1>1, <3>2 DEF Release, Devices
      <4> QED BY <1>1, <4>1
    <3>3. CASE TimePasses
      <4>1. Do([dev EXCEPT !.pin = dev.pin, !.elapsed = dev.elapsed + 1])
        BY <1>1, <3>3 DEF TimePasses, Devices
      <4>2. dev.elapsed + 1 \in 0 .. 2
        BY <1>1, <3>3 DEF TimePasses
      <4> QED BY <1>1, <4>1, <4>2
    <3> QED BY <1>22, <3>1, <3>2, <3>3
  <2> DEFINE v == [dev EXCEPT !.pin = pin, !.elapsed = elapsed]
  <2>2. v = [dev EXCEPT !.pin = pin, !.elapsed = elapsed,
                        !.setup_mode_state = dev.setup_mode_state]
    BY <1>1 DEF Devices
  <2>3. Do(v) \/ UserDoes(v)
    BY <2>1
  <2> HIDE DEF v
  <2>4. DevOK(v) /\ Untouched(v, dev)
    BY <1>1, <2>2, PlainChange
  <2>5. CountKept(v, dev)
    BY <2>4 DEF CountKept, Untouched
  <2> QED BY <1>2, <1>3, <2>3, <2>4, <2>5
<1>23. ASSUME NEW c \in Configs \cup {NoConfig}, NEW valid \in BOOLEAN, PatchDevice(c, valid)
       PROVE  IInv'
  <2> DEFINE h == [NoHistory EXCEPT !.patched = c, !.before = dev.wifi.saved]
             u == [dev EXCEPT !.wifi = wifi_set(dev.wifi, c), !.history = h]
             v == IF valid THEN system_reset(u, TRUE) ELSE u
  <2>1. UserDoes(v) /\ Reached
    BY <1>1, <1>23 DEF PatchDevice, Devices
  <2>3. DevOK(u) /\ Untouched(u, dev)
    BY <1>1, <2>1, ReachedBySome, Patches
  <2> HIDE DEF h, u
  <2>4. /\ DevOK(system_reset(u, TRUE)) /\ CountKept(system_reset(u, TRUE), u)
        /\ CountKept(u, u)
    BY <2>3, Resets DEF CountKept
  <2>5. DevOK(v) /\ CountKept(v, u)
    BY <2>3, <2>4
  <2> HIDE DEF v
  <2>6. CountKept(v, dev)
    BY <2>3, <2>5 DEF CountKept, Untouched
  <2> QED BY <1>3, <2>1, <2>5, <2>6
<1>24. ASSUME NEW factory \in BOOLEAN, PostReset(factory)
       PROVE  IInv'
  <2> DEFINE u == IF factory THEN FactoryReset(dev) ELSE dev
             v == system_reset(u, TRUE)
  <2>1. UserDoes(v)
    BY <1>24 DEF PostReset
  <2>2. DevOK(u) /\ Untouched(u, dev)
    BY <1>1, FactoryResets DEF Untouched
  <2> HIDE DEF u
  <2>3. DevOK(v) /\ CountKept(v, u)
    BY <2>2, Resets
  <2> HIDE DEF v
  <2>4. CountKept(v, dev)
    BY <2>2, <2>3 DEF CountKept, Untouched
  <2> QED BY <1>3, <2>1, <2>3, <2>4
<1>25. CASE GetWifi
  <2>1. Do([dev EXCEPT !.wifi = wifi_scan(dev.wifi, TRUE, FALSE)])
    BY <1>25 DEF GetWifi
  <2>2. TRUE \in BOOLEAN
    OBVIOUS
  <2> QED BY <1>1, <1>4, <2>1, <2>2, Scanned DEF SdkDo
<1>26. ASSUME NEW saving \in BOOLEAN, PowerCut(saving)
       PROVE  IInv'
  BY <1>1, <1>3, <1>26, CutsPower DEF PowerCut
<1> QED BY <1>5, <1>6, <1>7, <1>8, <1>9, <1>10, <1>11, <1>12, <1>13, <1>14, <1>15,
           <1>16, <1>17, <1>18, <1>19, <1>20, <1>21, <1>22, <1>23, <1>24, <1>25,
           <1>26 DEF Next

THEOREM SetupInvariance == Spec => []IInv
<1>1. IInv /\ UNCHANGED vars => IInv'
  BY DEF IInv, vars, DevOK, WifiOK, Leased
<1> QED BY InitIInv, NextIInv, <1>1, PTL DEF Spec

--------------------------------------------------------------------------------

\* Whatever the button, the API, the timers, the network and the power do: a device
\* that is not connected has the timer armed that takes it to setup mode, or is
\* there, with its access point, its DNS server and its idle timer.
THEOREM AlwaysReachable == Spec => []Reachable
<1>1. IInv => Reachable
  BY DEF IInv, DevOK, WifiOK, Reachable, ConnectWatched, SetupModeServes, Devices, Wifis
<1> QED BY SetupInvariance, <1>1, PTL

\* The core's task is never in the queue twice, however starts and stops follow each
\* other while a delayed reset is under way.
THEOREM CoreTaskOnce == Spec => []OneCoreTask
<1>1. IInv => OneCoreTask
  BY DEF IInv, DevOK, OneCoreTask, Devices
<1> QED BY SetupInvariance, <1>1, PTL

\* What the user did last, a PATCH of the configuration or a factory reset, is what
\* the device starts with, through delays, timeouts and restarts of every kind; what
\* a power cut before the restart makes of it is said as well.
THEOREM UserAlwaysHonoured == Spec => []UserHonoured
<1>1. IInv => UserHonoured
  BY DEF IInv, DevOK, HistoryOK, UserHonoured, PatchKept, FactoryResetSticks,
         Devices, Wifis, Histories
<1> QED BY SetupInvariance, <1>1, PTL

\* The idle timeout takes the access point from no more clients with an address than
\* have left it without one, however many come and go and in whatever order.
THEOREM ClientsSpared == Spec => IdleSparesClients
<1> DEFINE A == dev.idle_timer /\ dev' = on_setup_mode_idle_timeout(dev) /\ dev' # dev
                  => Cardinality({c \in Clients : clients[c] = "leased"}) <= missed
<1>1. IInv => A
  <2> SUFFICES ASSUME IInv, dev' = on_setup_mode_idle_timeout(dev), dev' # dev
               PROVE  Cardinality(Leased(clients)) <= missed
    BY DEF Leased
  <2>1. dev.setup_mode_ap_client_count <= 0
    BY DEF on_setup_mode_idle_timeout
  <2>2. Cardinality(Leased(clients)) \in Nat
    BY LeasedFinite
  <2> QED BY <2>1, <2>2 DEF IInv
<1> QED BY SetupInvariance, <1>1, PTL DEF Spec, IdleSparesClients

================================================================================
