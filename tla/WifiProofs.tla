------------------------------- MODULE WifiProofs -------------------------------
(* Theorems about WifiApi, for any configurations, any number of better access     *)
(* points and any number of events under way.  Good is what every function of      *)
(* wifi.c leaves of the record it is given; there is a lemma for each of them.     *)
EXTENDS WifiApi, SequenceTheorems, TLAPS

--------------------------------------------------------------------------------
(* What holds of a record between two calls. *)

\* The last event under way says what the link is; with none, the module knows.
LinkKnown(w) ==
  /\ w.events = << >> => (w.station_connected = TRUE <=> w.link = "up")
  /\ w.events # << >> => (w.events[Len(w.events)] = "got_ip" <=> w.link = "up")

\* v is w but for what the SDK keeps.
SameStatics(v, w) ==
  /\ v.station_enabled = w.station_enabled
  /\ v.temporary_station_enabled = w.temporary_station_enabled
  /\ v.ap_enabled = w.ap_enabled /\ v.reconnect = w.reconnect
  /\ v.station_connected = w.station_connected
  /\ v.temporary_connect_timer = w.temporary_connect_timer
  /\ v.auto_scan_timer = w.auto_scan_timer
  /\ v.scanning = w.scanning /\ v.scan_callback = w.scan_callback
  /\ v.better_bssid = w.better_bssid /\ v.better_counter = w.better_counter

\* The parts of RadioServes and AutoScanScheduled for a record.
Fits(w) ==
  /\ w.station_enabled = TRUE \/ w.temporary_station_enabled = TRUE => HasStation(w.opmode)
  /\ w.ap_enabled = TRUE <=> w.opmode \in {"softap", "stationap"}
  /\ w.station_enabled = TRUE => w.reconnect = ~w.ap_enabled
  /\ w.temporary_station_enabled = TRUE => w.reconnect = FALSE
  /\ w.temporary_connect_timer = TRUE => w.temporary_station_enabled = TRUE
  /\ w.station_enabled = FALSE \/ w.temporary_station_enabled = FALSE
  /\ w.station_enabled = TRUE => w.auto_scan_timer = TRUE

Good(w) == w \in Wifis /\ Fits(w) /\ LinkKnown(w)

\* No scan begins or ends, and its findings are left alone.
SameScan(v, w) ==
  /\ v.scanning = w.scanning /\ v.scan_callback = w.scan_callback
  /\ v.better_bssid = w.better_bssid /\ v.better_counter = w.better_counter

LEMMA Appended ==
  ASSUME NEW s \in Seq(LinkEvents), NEW e \in LinkEvents
  PROVE  /\ Append(s, e) \in Seq(LinkEvents) /\ Append(s, e) # << >>
         /\ Append(s, e)[Len(Append(s, e))] = e
OBVIOUS

LEMMA Disconnected ==
  ASSUME NEW w \in Wifis
  PROVE  LET v == wifi_station_disconnect(w)
         IN  /\ v \in Wifis /\ SameStatics(v, w) /\ v.opmode = w.opmode
             /\ v.link = "idle"
             /\ LinkKnown(w) => LinkKnown(v)
<1> DEFINE v == wifi_station_disconnect(w)
<1>1. w.events \in Seq(LinkEvents) /\ w.link \in Links
  BY DEF Wifis
<1>2. v.events = (IF w.link = "idle" THEN w.events ELSE Append(w.events, "disconnected"))
  BY DEF wifi_station_disconnect, Wifis
<1>3. v.events \in Seq(LinkEvents)
  BY <1>1, <1>2, Appended DEF LinkEvents
<1>4. v = [w EXCEPT !.link = "idle", !.events = v.events]
  BY <1>2 DEF wifi_station_disconnect
<1>5. v \in Wifis /\ v.opmode = w.opmode /\ v.link = "idle"
      /\ v.station_connected = w.station_connected
  BY <1>3, <1>4 DEF Wifis, Links
<1>6. SameStatics(v, w)
  BY <1>4 DEF SameStatics, Wifis
<1>7. LinkKnown(w) => LinkKnown(v)
  BY <1>1, <1>2, <1>5, Appended DEF LinkKnown, LinkEvents
<1> QED BY <1>5, <1>6, <1>7

LEMMA ModeSet ==
  ASSUME NEW w \in Wifis, NEW mode \in Modes
  PROVE  LET v == wifi_set_opmode_current(w, mode)
         IN  /\ v \in Wifis /\ SameStatics(v, w) /\ v.opmode = mode
             /\ LinkKnown(w) => LinkKnown(v)
<1> DEFINE u == IF HasStation(mode) THEN w ELSE wifi_station_disconnect(w)
           v == wifi_set_opmode_current(w, mode)
<1>1. u \in Wifis /\ SameStatics(u, w) /\ (LinkKnown(w) => LinkKnown(u))
  BY Disconnected DEF SameStatics, Wifis
<1>2. v = [u EXCEPT !.opmode = mode]
  BY DEF wifi_set_opmode_current
<1> HIDE DEF u, v
<1>3. v \in Wifis /\ v.opmode = mode /\ v.events = u.events /\ v.link = u.link
      /\ v.station_connected = u.station_connected
  BY <1>1, <1>2 DEF Wifis
<1>4. SameStatics(v, w)
  BY <1>1, <1>2, <1>3 DEF SameStatics, Wifis
<1>5. LinkKnown(w) => LinkKnown(v)
  BY <1>1, <1>3 DEF LinkKnown
<1> QED BY <1>3, <1>4, <1>5 DEF v

LEMMA Connecting ==
  ASSUME NEW w \in Wifis
  PROVE  LET v == wifi_station_connect(w)
         IN  /\ v \in Wifis /\ SameStatics(v, w) /\ v.opmode = w.opmode
             /\ LinkKnown(w) => LinkKnown(v)
<1> DEFINE v == wifi_station_connect(w)
<1>1. v = [w EXCEPT !.link = v.link] /\ v.link \in {w.link, "connecting"}
      /\ (v.link # w.link => w.link = "idle")
  BY DEF wifi_station_connect, Wifis
<1> HIDE DEF v
<1>2. v \in Wifis /\ v.opmode = w.opmode /\ v.events = w.events
      /\ v.station_connected = w.station_connected
  BY <1>1 DEF Wifis, Links
<1>3. SameStatics(v, w)
  BY <1>1, <1>2 DEF SameStatics, Wifis
<1>4. LinkKnown(w) => LinkKnown(v)
  BY <1>1, <1>2 DEF LinkKnown
<1> QED BY <1>2, <1>3, <1>4 DEF v

--------------------------------------------------------------------------------
(* The functions of wifi.c. *)

\* A function that changes a few of the flags of a record that fits.
LEMMA ReadConfig ==
  ASSUME NEW w \in Wifis
  PROVE  LET v == ensure_station_config_read(w)
         IN  /\ v \in Wifis /\ SameStatics(v, w)
             /\ v.opmode = w.opmode /\ v.link = w.link /\ v.events = w.events
<1> DEFINE v == ensure_station_config_read(w)
<1>1. CASE w.cached_read
  BY <1>1 DEF ensure_station_config_read, SameStatics
<1>2. CASE ~w.cached_read
  <2>1. v = [w EXCEPT !.cached = w.saved, !.cached_read = TRUE, !.cached_changed = FALSE]
    BY <1>2 DEF ensure_station_config_read
  <2> HIDE DEF v
  <2>2. v \in Wifis
    BY <2>1 DEF Wifis
  <2>3. SameStatics(v, w) /\ v.opmode = w.opmode /\ v.link = w.link /\ v.events = w.events
    BY <2>1 DEF Wifis, SameStatics
  <2> QED BY <2>2, <2>3 DEF v
<1> QED BY <1>1, <1>2

LEMMA GoodTemporaryDisable ==
  ASSUME NEW w \in Wifis, Good(w)
  PROVE  /\ Good(wifi_station_temporary_disable(w))
         /\ SameScan(wifi_station_temporary_disable(w), w)
<1>1. CASE w.temporary_station_enabled = FALSE
  BY <1>1 DEF wifi_station_temporary_disable, SameScan
<1>2. CASE w.temporary_station_enabled = TRUE
  <2> DEFINE mode == IF w.ap_enabled THEN "softap" ELSE "null"
             u == wifi_set_opmode_current(wifi_station_disconnect(w), mode)
             v == wifi_station_temporary_disable(w)
  <2>1. u \in Wifis /\ SameStatics(u, w) /\ u.opmode = mode /\ LinkKnown(u)
    BY Disconnected, ModeSet DEF Good, SameStatics, Modes
  <2>2. v = [u EXCEPT !.temporary_station_enabled = FALSE,
                      !.station_connect_callback = FALSE, !.temporary_connect_timer = FALSE]
    BY <1>2 DEF wifi_station_temporary_disable
  <2> HIDE DEF u, v
  <2>3. /\ v \in Wifis /\ v.opmode = mode
        /\ v.temporary_station_enabled = FALSE /\ v.temporary_connect_timer = FALSE
        /\ v.station_enabled = w.station_enabled /\ v.ap_enabled = w.ap_enabled
        /\ v.reconnect = w.reconnect /\ v.auto_scan_timer = w.auto_scan_timer
        /\ v.link = u.link /\ v.events = u.events
        /\ v.station_connected = u.station_connected
        /\ SameScan(v, w)
    BY ZenonT(60), <2>1, <2>2 DEF Wifis, SameStatics, SameScan
  <2>4. Fits(v)
    BY <1>2, <2>3 DEF Good, Fits, HasStation, Wifis
  <2>5. LinkKnown(v)
    BY <2>1, <2>3 DEF LinkKnown
  <2> QED BY <2>3, <2>4, <2>5 DEF Good, v
<1> QED BY <1>1, <1>2 DEF Wifis

LEMMA TemporaryIsOff ==
  ASSUME NEW w \in Wifis, Good(w)
  PROVE  LET v == wifi_station_temporary_disable(w)
         IN  /\ v.ap_enabled = w.ap_enabled
             /\ v.temporary_station_enabled = FALSE /\ v.temporary_connect_timer = FALSE
<1>1. CASE w.temporary_station_enabled = FALSE
  BY <1>1 DEF wifi_station_temporary_disable, Good, Fits, Wifis
<1>2. CASE w.temporary_station_enabled = TRUE
  <2> DEFINE u == wifi_set_opmode_current(wifi_station_disconnect(w),
                                          IF w.ap_enabled THEN "softap" ELSE "null")
             v == wifi_station_temporary_disable(w)
  <2>1. u \in Wifis /\ SameStatics(u, w)
    BY Disconnected, ModeSet DEF Good, SameStatics, Modes
  <2>2. v = [u EXCEPT !.temporary_station_enabled = FALSE,
                      !.station_connect_callback = FALSE, !.temporary_connect_timer = FALSE]
    BY <1>2 DEF wifi_station_temporary_disable
  <2> HIDE DEF u, v
  <2> QED BY <2>1, <2>2 DEF Wifis, SameStatics, v
<1> QED BY <1>1, <1>2 DEF Wifis

LEMMA GoodStationDisable ==
  ASSUME NEW w \in Wifis, Good(w)
  PROVE  Good(wifi_station_disable(w)) /\ SameScan(wifi_station_disable(w), w)
<1>1. CASE w.station_enabled = FALSE
  BY <1>1 DEF wifi_station_disable, SameScan
<1>2. CASE w.station_enabled = TRUE
  <2> DEFINE u == wifi_set_opmode_current(wifi_station_disconnect(w),
                                          IF w.ap_enabled THEN "softap" ELSE "null")
             v == wifi_station_disable(w)
  <2>1. /\ u \in Wifis /\ SameStatics(u, w) /\ LinkKnown(u)
        /\ u.opmode = (IF w.ap_enabled THEN "softap" ELSE "null")
    BY Disconnected, ModeSet DEF Good, SameStatics, Modes
  <2>2. v = [u EXCEPT !.station_enabled = FALSE, !.station_connect_callback = FALSE]
    BY <1>2 DEF wifi_station_disable
  <2> HIDE DEF u, v
  <2>3. v \in Wifis /\ v.opmode = (IF w.ap_enabled THEN "softap" ELSE "null")
    BY ZenonT(60), <2>1, <2>2 DEF Wifis, Modes
  <2>4. /\ v.link = u.link /\ v.events = u.events
        /\ v.station_connected = u.station_connected
        /\ SameScan(v, w)
        /\ v.station_enabled = FALSE
        /\ v.temporary_station_enabled = w.temporary_station_enabled
        /\ v.ap_enabled = w.ap_enabled
        /\ v.reconnect = w.reconnect
        /\ v.auto_scan_timer = w.auto_scan_timer
        /\ v.temporary_connect_timer = w.temporary_connect_timer
    BY <2>1, <2>2 DEF Wifis, SameStatics, SameScan
  <2>5. Fits(v)
    BY <1>2, <2>3, <2>4 DEF Good, Fits, HasStation, Wifis
  <2>6. LinkKnown(v)
    BY <2>1, <2>4 DEF LinkKnown
  <2> QED BY <2>3, <2>4, <2>5, <2>6 DEF Good, v
<1> QED BY <1>1, <1>2 DEF Wifis

LEMMA GoodTemporaryEnable ==
  ASSUME NEW w \in Wifis, Good(w)
  PROVE  /\ Good(wifi_station_temporary_enable(w))
         /\ SameScan(wifi_station_temporary_enable(w), w)
<1>1. CASE w.station_enabled = TRUE
  BY <1>1 DEF wifi_station_temporary_enable, SameScan
<1>2. CASE w.station_enabled = FALSE
  <2> DEFINE u == wifi_station_connect(wifi_set_opmode_current(w,
                    IF w.ap_enabled THEN "stationap" ELSE "station"))
             v == wifi_station_temporary_enable(w)
  <2>1. /\ u \in Wifis /\ SameStatics(u, w) /\ LinkKnown(u)
        /\ u.opmode = (IF w.ap_enabled THEN "stationap" ELSE "station")
    BY Connecting, ModeSet DEF Good, SameStatics, Modes
  <2>2. v = [u EXCEPT !.temporary_station_enabled = TRUE, !.reconnect = FALSE, 
                      !.temporary_connect_timer = TRUE, !.station_connect_callback = TRUE]
    BY <1>2 DEF wifi_station_temporary_enable
  <2> HIDE DEF u, v
  <2>3. v \in Wifis /\ v.opmode = (IF w.ap_enabled THEN "stationap" ELSE "station")
    BY ZenonT(60), <2>1, <2>2 DEF Wifis, Modes
  <2>4. /\ v.link = u.link /\ v.events = u.events
        /\ v.station_connected = u.station_connected
        /\ SameScan(v, w)
        /\ v.station_enabled = w.station_enabled
        /\ v.temporary_station_enabled = TRUE
        /\ v.ap_enabled = w.ap_enabled
        /\ v.reconnect = FALSE
        /\ v.auto_scan_timer = w.auto_scan_timer
        /\ v.temporary_connect_timer = TRUE
    BY <2>1, <2>2 DEF Wifis, SameStatics, SameScan
  <2>5. Fits(v)
    BY <1>2, <2>3, <2>4 DEF Good, Fits, HasStation, Wifis
  <2>6. LinkKnown(v)
    BY <2>1, <2>4 DEF LinkKnown
  <2> QED BY <2>3, <2>4, <2>5, <2>6 DEF Good, v
<1> QED BY <1>1, <1>2 DEF Wifis

LEMMA GoodApEnable ==
  ASSUME NEW w \in Wifis, Good(w)
  PROVE  Good(wifi_ap_enable(w)) /\ SameScan(wifi_ap_enable(w), w)
<1>1. CASE w.ap_enabled = TRUE
  BY <1>1 DEF wifi_ap_enable, SameScan
<1>2. CASE w.ap_enabled = FALSE
  <2> DEFINE station == w.station_enabled \/ w.temporary_station_enabled
             mode == IF station THEN "stationap" ELSE "softap"
             reconnect == w.reconnect /\ ~station
             u == wifi_set_opmode_current(w, mode)
             v == wifi_ap_enable(w)
  <2>1. u \in Wifis /\ SameStatics(u, w) /\ u.opmode = mode /\ LinkKnown(u)
    BY ModeSet DEF Good, SameStatics, Modes
  <2>2. mode \in Modes /\ reconnect \in BOOLEAN
    BY DEF Modes
  <2>3. v = [u EXCEPT !.ap_enabled = TRUE, !.reconnect = reconnect]
    <3>1. u.reconnect = w.reconnect
      BY <2>1 DEF SameStatics
    <3> QED BY <1>2, <3>1 DEF wifi_ap_enable
  <2> HIDE DEF u, v, reconnect, mode
  <2>4. v \in Wifis
    BY <2>1, <2>3, <2>2 DEF Wifis
  <2>5. /\ v.opmode = mode /\ v.link = u.link /\ v.events = u.events
        /\ v.station_connected = u.station_connected
        /\ SameScan(v, w)
        /\ v.station_enabled = w.station_enabled
        /\ v.temporary_station_enabled = w.temporary_station_enabled
        /\ v.ap_enabled = TRUE /\ v.reconnect = reconnect
        /\ v.auto_scan_timer = w.auto_scan_timer
        /\ v.temporary_connect_timer = w.temporary_connect_timer
    BY <2>1, <2>3 DEF Wifis, SameStatics, SameScan
  <2>6. Fits(v)
    BY <1>2, <2>5 DEF Good, Fits, HasStation, Wifis, mode, reconnect
  <2>7. LinkKnown(v)
    BY <2>1, <2>5 DEF LinkKnown
  <2> QED BY <2>4, <2>5, <2>6, <2>7 DEF Good, v
<1> QED BY <1>1, <1>2 DEF Wifis

LEMMA GoodApDisable ==
  ASSUME NEW w \in Wifis, Good(w)
  PROVE  Good(wifi_ap_disable(w)) /\ SameScan(wifi_ap_disable(w), w)
<1>1. CASE w.ap_enabled = FALSE
  BY <1>1 DEF wifi_ap_disable, SameScan
<1>2. CASE w.ap_enabled = TRUE
  <2> DEFINE station == w.station_enabled \/ w.temporary_station_enabled
             mode == IF station THEN "station" ELSE "null"
             reconnect == w.reconnect \/ w.station_enabled
             u == wifi_set_opmode_current(w, mode)
             v == wifi_ap_disable(w)
  <2>1. u \in Wifis /\ SameStatics(u, w) /\ u.opmode = mode /\ LinkKnown(u)
    BY ModeSet DEF Good, SameStatics, Modes
  <2>2. mode \in Modes /\ reconnect \in BOOLEAN
    BY DEF Modes
  <2>3. v = [u EXCEPT !.ap_enabled = FALSE, !.reconnect = reconnect]
    <3>1. u.reconnect = w.reconnect
      BY <2>1 DEF SameStatics
    <3> QED BY <1>2, <3>1 DEF wifi_ap_disable
  <2> HIDE DEF u, v, reconnect, mode
  <2>4. v \in Wifis
    BY ZenonT(60), <2>1, <2>3, <2>2 DEF Wifis
  <2>5. /\ v.opmode = mode /\ v.link = u.link /\ v.events = u.events
        /\ v.station_connected = u.station_connected
        /\ SameScan(v, w)
        /\ v.station_enabled = w.station_enabled
        /\ v.temporary_station_enabled = w.temporary_station_enabled
        /\ v.ap_enabled = FALSE /\ v.reconnect = reconnect
        /\ v.auto_scan_timer = w.auto_scan_timer
        /\ v.temporary_connect_timer = w.temporary_connect_timer
    BY <2>1, <2>3 DEF Wifis, SameStatics, SameScan
  <2>6. Fits(v)
    BY <1>2, <2>5 DEF Good, Fits, HasStation, Wifis, mode, reconnect
  <2>7. LinkKnown(v)
    BY <2>1, <2>5 DEF LinkKnown
  <2> QED BY <2>4, <2>5, <2>6, <2>7 DEF Good, v
<1> QED BY <1>1, <1>2 DEF Wifis

\* Telling the station whether to reconnect changes that field and nothing else.
LEMMA ReconnectSet ==
  ASSUME NEW w \in Wifis, NEW b \in BOOLEAN
  PROVE  [w EXCEPT !.reconnect = b] \in Wifis
BY DEF Wifis

LEMMA GoodStationEnable ==
  ASSUME NEW w \in Wifis, Good(w)
  PROVE  Good(wifi_station_enable(w)) /\ SameScan(wifi_station_enable(w), w)
<1>1. CASE w.station_enabled = TRUE
  BY <1>1 DEF wifi_station_enable, SameScan
<1>2. CASE w.station_enabled = FALSE
  <2> DEFINE mode    == IF w.ap_enabled THEN "stationap" ELSE "station"
             alone   == wifi_station_temporary_disable(w)
             enabled == [alone EXCEPT !.station_enabled = TRUE]
             set     == wifi_set_opmode_current(enabled, mode)
             moded   == [set EXCEPT !.reconnect = ~w.ap_enabled]
             loaded  == ensure_station_config_read(moded)
             u == IF loaded.cached = NoConfig THEN loaded ELSE wifi_station_connect(loaded)
             v == wifi_station_enable(w)
  <2>1. /\ alone \in Wifis /\ LinkKnown(alone) /\ SameScan(alone, w)
        /\ alone.ap_enabled = w.ap_enabled
        /\ alone.temporary_station_enabled = FALSE /\ alone.temporary_connect_timer = FALSE
    BY GoodTemporaryDisable, TemporaryIsOff DEF Good
  <2> HIDE DEF alone
  <2>2. /\ enabled \in Wifis /\ SameScan(enabled, w)
        /\ enabled.station_enabled = TRUE /\ enabled.ap_enabled = w.ap_enabled
        /\ enabled.temporary_station_enabled = FALSE
        /\ enabled.temporary_connect_timer = FALSE
        /\ enabled.events = alone.events /\ enabled.link = alone.link
        /\ enabled.station_connected = alone.station_connected
    BY <2>1 DEF Wifis, SameScan
  <2>3. LinkKnown(enabled)
    BY <2>1, <2>2 DEF LinkKnown
  <2> HIDE DEF enabled
  <2>4. set \in Wifis /\ SameStatics(set, enabled) /\ set.opmode = mode /\ LinkKnown(set)
    BY <2>2, <2>3, ModeSet DEF Modes
  <2> HIDE DEF set
  <2>5. /\ moded \in Wifis
        /\ moded.reconnect = (~w.ap_enabled) /\ moded.opmode = mode
        /\ moded.station_enabled = TRUE /\ moded.ap_enabled = w.ap_enabled
        /\ moded.temporary_station_enabled = FALSE /\ moded.temporary_connect_timer = FALSE
        /\ SameScan(moded, w) /\ moded.events = set.events /\ moded.link = set.link
        /\ moded.station_connected = set.station_connected
    <3>1. (~w.ap_enabled) \in BOOLEAN
      BY DEF Wifis
    <3>2. moded \in Wifis
      BY <2>4, <3>1, ReconnectSet
    <3>3. /\ moded.reconnect = (~w.ap_enabled)
          /\ \A f \in DOMAIN set \ {"reconnect"} : moded[f] = set[f]
          /\ DOMAIN set = DOMAIN w
      BY <2>4 DEF Wifis
    <3> HIDE DEF moded
    <3>4. /\ moded.opmode = mode
          /\ moded.station_enabled = TRUE /\ moded.ap_enabled = w.ap_enabled
          /\ moded.temporary_station_enabled = FALSE
          /\ moded.temporary_connect_timer = FALSE
      BY <2>2, <2>4, <3>3 DEF Wifis, SameStatics
    <3>5. SameScan(moded, w) /\ moded.events = set.events /\ moded.link = set.link
          /\ moded.station_connected = set.station_connected
      BY SMTT(60), <2>2, <2>4, <3>3 DEF Wifis, SameScan, SameStatics
    <3> QED BY <3>2, <3>3, <3>4, <3>5
  <2>6. LinkKnown(moded)
    BY <2>4, <2>5 DEF LinkKnown
  <2> HIDE DEF moded, mode
  <2>7. loaded \in Wifis /\ SameStatics(loaded, moded) /\ loaded.opmode = mode
        /\ LinkKnown(loaded)
    BY <2>5, <2>6, ReadConfig DEF LinkKnown, SameStatics
  <2> HIDE DEF loaded
  <2>8. u \in Wifis /\ SameStatics(u, moded) /\ u.opmode = mode /\ LinkKnown(u)
    BY <2>7, Connecting DEF SameStatics
  <2>9. v = [u EXCEPT !.station_connect_callback = TRUE, !.auto_scan_timer = TRUE]
    BY <1>2 DEF wifi_station_enable, alone, enabled, set, moded, loaded, mode
  <2> HIDE DEF u, v
  <2>10. /\ v \in Wifis /\ v.opmode = mode /\ v.auto_scan_timer = TRUE
         /\ v.link = u.link /\ v.events = u.events
         /\ v.station_connected = u.station_connected
    BY <2>8, <2>9 DEF Wifis
  <2>11. /\ SameScan(v, w) /\ v.reconnect = (~w.ap_enabled)
         /\ v.station_enabled = TRUE /\ v.ap_enabled = w.ap_enabled
         /\ v.temporary_station_enabled = FALSE /\ v.temporary_connect_timer = FALSE
    BY <2>5, <2>8, <2>9 DEF Wifis, SameStatics, SameScan
  <2>12. Fits(v)
    BY <2>10, <2>11 DEF Fits, HasStation, mode, Wifis
  <2>13. LinkKnown(v)
    BY <2>8, <2>10 DEF LinkKnown
  <2> QED BY <2>10, <2>11, <2>12, <2>13 DEF Good, v
<1> QED BY <1>1, <1>2 DEF Wifis

\* What a step leaves alone that changes nothing but the configuration.
SameRadio(v, w) ==
  SameStatics(v, w) /\ v.opmode = w.opmode /\ v.link = w.link /\ v.events = w.events

LEMMA SameRadioGood ==
  ASSUME NEW w \in Wifis, Good(w), NEW v \in Wifis, SameRadio(v, w)
  PROVE  Good(v) /\ SameScan(v, w)
BY DEF Good, Fits, LinkKnown, SameScan, SameRadio, SameStatics, HasStation

LEMMA GoodSet ==
  ASSUME NEW w \in Wifis, Good(w), NEW c \in Configs \cup {NoConfig}
  PROVE  Good(wifi_set(w, c)) /\ SameScan(wifi_set(w, c), w)
<1> DEFINE u == ensure_station_config_read(w)
           v == wifi_set(w, c)
<1>1. u \in Wifis /\ SameRadio(u, w)
  BY ReadConfig DEF SameRadio
<1>2. v = [u EXCEPT !.cached = c, !.cached_changed = TRUE]
  BY DEF wifi_set
<1> HIDE DEF u, v
<1>3. v \in Wifis
  BY <1>1, <1>2 DEF Wifis
<1>4. SameRadio(v, w)
  BY <1>1, <1>2 DEF Wifis, SameRadio, SameStatics
<1> QED BY <1>3, <1>4, SameRadioGood DEF v

LEMMA GoodReset ==
  ASSUME NEW w \in Wifis, Good(w)
  PROVE  Good(wifi_reset(w)) /\ SameScan(wifi_reset(w), w)
<1>1. wifi_reset(w) \in Wifis
  BY DEF wifi_reset, Wifis
<1>2. SameRadio(wifi_reset(w), w)
  BY DEF wifi_reset, Wifis, SameRadio, SameStatics
<1> QED BY <1>1, <1>2, SameRadioGood

\* Where nobody uses a station, a station in the mode is in nobody's way.
LEMMA StationAdded ==
  ASSUME NEW w \in Wifis, Good(w)
  PROVE  LET v == wifi_set_opmode_current(w, IF w.ap_enabled THEN "stationap"
                                                             ELSE "station")
         IN  Good(v) /\ SameStatics(v, w)
<1> DEFINE mode == IF w.ap_enabled THEN "stationap" ELSE "station"
           v == wifi_set_opmode_current(w, mode)
<1>1. v \in Wifis /\ SameStatics(v, w) /\ v.opmode = mode /\ LinkKnown(v)
  BY ModeSet DEF Good, Modes
<1> HIDE DEF v
<1>2. Fits(v)
  BY <1>1 DEF Good, Fits, HasStation, SameStatics, Wifis
<1> QED BY <1>1, <1>2 DEF Good, v

LEMMA GoodSave ==
  ASSUME NEW w \in Wifis, Good(w)
  PROVE  Good(wifi_save_config(w)) /\ SameScan(wifi_save_config(w), w)
<1>1. CASE ~w.cached_changed
  BY <1>1 DEF wifi_save_config, SameScan
<1>2. CASE w.cached_changed
  <2> DEFINE u == IF w.station_enabled THEN w
                  ELSE wifi_set_opmode_current(w, IF w.ap_enabled THEN "stationap"
                                                  ELSE "station")
             v == wifi_save_config(w)
  <2>1. Good(u) /\ u \in Wifis /\ SameStatics(u, w)
    BY StationAdded DEF Good, SameStatics
  <2>2. v = [u EXCEPT !.saved = w.cached, !.cached_changed = FALSE, !.cached_read = TRUE]
    BY <1>2 DEF wifi_save_config
  <2> HIDE DEF u, v
  <2>3. v \in Wifis
    BY <2>1, <2>2 DEF Wifis
  <2>4. SameRadio(v, u)
    BY <2>1, <2>2 DEF Wifis, SameRadio, SameStatics
  <2> QED BY <2>1, <2>3, <2>4, SameRadioGood DEF v, SameScan, SameStatics
<1> QED BY <1>1, <1>2

LEMMA GoodConnect ==
  ASSUME NEW w \in Wifis, Good(w)
  PROVE  Good(wifi_station_connect(w)) /\ SameStatics(wifi_station_connect(w), w)
<1> DEFINE v == wifi_station_connect(w)
<1>1. v \in Wifis /\ SameStatics(v, w) /\ v.opmode = w.opmode /\ LinkKnown(v)
  BY Connecting DEF Good
<1> HIDE DEF v
<1>2. Fits(v)
  BY <1>1 DEF Good, Fits, SameStatics
<1> QED BY <1>1, <1>2 DEF Good, v

LEMMA GoodDisconnect ==
  ASSUME NEW w \in Wifis, Good(w)
  PROVE  Good(wifi_station_disconnect(w)) /\ SameStatics(wifi_station_disconnect(w), w)
<1> DEFINE v == wifi_station_disconnect(w)
<1>1. v \in Wifis /\ SameStatics(v, w) /\ v.opmode = w.opmode /\ LinkKnown(v)
  BY Disconnected DEF Good
<1> HIDE DEF v
<1>2. Fits(v)
  BY <1>1 DEF Good, Fits, SameStatics
<1> QED BY <1>1, <1>2 DEF Good, v

\* A change of the flags of a scan and of its findings.
LEMMA ScanFlagsGood ==
  ASSUME NEW w \in Wifis, Good(w), NEW v \in Wifis,
         v = [w EXCEPT !.scanning = v.scanning, !.scan_callback = v.scan_callback,
                       !.better_bssid = v.better_bssid, !.better_counter = v.better_counter]
  PROVE  Good(v) /\ v.link = w.link /\ v.events = w.events
<1>1. /\ v.station_enabled = w.station_enabled /\ v.ap_enabled = w.ap_enabled
      /\ v.temporary_station_enabled = w.temporary_station_enabled
      /\ v.temporary_connect_timer = w.temporary_connect_timer
      /\ v.auto_scan_timer = w.auto_scan_timer /\ v.reconnect = w.reconnect
      /\ v.opmode = w.opmode
      /\ v.station_connected = w.station_connected
      /\ v.link = w.link /\ v.events = w.events
  BY DEF Wifis
<1> QED BY <1>1 DEF Good, Fits, LinkKnown

\* A scan under way is left alone; one that starts has the callback it was given.
LEMMA GoodScan ==
  ASSUME NEW w \in Wifis, Good(w), NEW user \in BOOLEAN, NEW ota_busy \in BOOLEAN
  PROVE  LET v == wifi_scan(w, user, ota_busy)
         IN  /\ Good(v)
             /\ v.better_bssid = w.better_bssid /\ v.better_counter = w.better_counter
             /\ IF ScanStarts(w, ota_busy)
                THEN v.scanning = TRUE /\ v.scan_callback = user
                ELSE v.scanning = w.scanning /\ v.scan_callback = w.scan_callback
<1> DEFINE u == IF w.station_enabled \/ w.temporary_station_enabled THEN w
                ELSE wifi_set_opmode_current(w, IF w.ap_enabled THEN "stationap"
                                                ELSE "station")
           v == wifi_scan(w, user, ota_busy)
<1>1. Good(u) /\ u \in Wifis /\ SameStatics(u, w)
  BY StationAdded DEF Good, SameStatics
<1>2. CASE w.scanning \/ ota_busy
  <2>1. v = u
    BY <1>2 DEF wifi_scan
  <2> QED BY <1>1, <1>2, <2>1 DEF SameStatics, ScanStarts
<1>3. CASE ~(w.scanning \/ ota_busy)
  <2>1. v = [u EXCEPT !.scanning = TRUE, !.scan_callback = user]
    BY <1>3 DEF wifi_scan
  <2> HIDE DEF u, v
  <2>2. v \in Wifis
    BY <1>1, <2>1 DEF Wifis
  <2>3. /\ v.scanning = TRUE /\ v.scan_callback = user
        /\ v.better_bssid = u.better_bssid /\ v.better_counter = u.better_counter
    BY <1>1, <2>1 DEF Wifis
  <2>4. v = [u EXCEPT !.scanning = v.scanning, !.scan_callback = v.scan_callback,
                      !.better_bssid = v.better_bssid, !.better_counter = v.better_counter]
    BY <1>1, <2>1, <2>3 DEF Wifis
  <2>5. Good(v)
    BY <1>1, <2>2, <2>4, ScanFlagsGood
  <2> QED BY <1>1, <1>3, <2>3, <2>5 DEF SameStatics, ScanStarts, v
<1> QED BY <1>2, <1>3

\* The timer of automatic scans ends only where there is no station to scan for.
LEMMA GoodAutoScan ==
  ASSUME NEW w \in Wifis, Good(w), NEW weak \in BOOLEAN, NEW ota_busy \in BOOLEAN
  PROVE  LET v == on_auto_scan(w, weak, ota_busy)
         IN  /\ Good(v)
             /\ v.better_bssid = w.better_bssid /\ v.better_counter = w.better_counter
             /\ w.scanning => v.scanning = w.scanning /\ v.scan_callback = w.scan_callback
<1> DEFINE v == on_auto_scan(w, weak, ota_busy)
<1> SUFFICES /\ Good(v)
             /\ v.better_bssid = w.better_bssid /\ v.better_counter = w.better_counter
             /\ w.scanning => v.scanning = w.scanning /\ v.scan_callback = w.scan_callback
  OBVIOUS
<1>1. CASE w.station_enabled = FALSE
  <2>1. v = [w EXCEPT !.auto_scan_timer = FALSE]
    BY <1>1 DEF on_auto_scan
  <2> HIDE DEF v
  <2>2. v \in Wifis
    BY <2>1 DEF Wifis
  <2>3. /\ SameScan(v, w) /\ v.opmode = w.opmode
        /\ v.station_enabled = w.station_enabled /\ v.ap_enabled = w.ap_enabled
        /\ v.temporary_station_enabled = w.temporary_station_enabled
        /\ v.temporary_connect_timer = w.temporary_connect_timer
        /\ v.reconnect = w.reconnect
        /\ v.station_connected = w.station_connected
        /\ v.link = w.link /\ v.events = w.events
    BY <2>1 DEF Wifis, SameScan
  <2>4. Fits(v) /\ LinkKnown(v)
    BY <1>1, <2>3 DEF Good, Fits, LinkKnown
  <2>5. Good(v) /\ SameScan(v, w)
    BY <2>2, <2>3, <2>4 DEF Good
  <2> QED BY <2>5 DEF SameScan
<1>2. CASE w.station_enabled = TRUE
  <2>1. CASE ~w.ap_enabled /\ weak
    <3>1. v = wifi_scan(w, FALSE, ota_busy)
      BY <1>2, <2>1 DEF on_auto_scan
    <3> DEFINE u == wifi_scan(w, FALSE, ota_busy)
    <3>2. /\ Good(u)
          /\ u.better_bssid = w.better_bssid /\ u.better_counter = w.better_counter
          /\ w.scanning => u.scanning = w.scanning /\ u.scan_callback = w.scan_callback
      <4>1. FALSE \in BOOLEAN
        OBVIOUS
      <4> QED BY <4>1, GoodScan DEF ScanStarts
    <3> HIDE DEF u
    <3> QED BY <3>1, <3>2 DEF u
  <2>2. CASE ~(~w.ap_enabled /\ weak)
    BY <1>2, <2>2 DEF on_auto_scan
  <2> QED BY <2>1, <2>2
<1> QED BY <1>1, <1>2 DEF Wifis

\* The link comes up, with its event behind those that are under way.
LEMMA GoodUp ==
  ASSUME NEW w \in Wifis, Good(w)
  PROVE  LET v == [w EXCEPT !.link = "up", !.events = Append(@, "got_ip")]
         IN  Good(v) /\ SameScan(v, w)
<1> DEFINE v == [w EXCEPT !.link = "up", !.events = Append(@, "got_ip")]
<1>1. w.events \in Seq(LinkEvents) /\ v.link = "up"
      /\ v.events = Append(w.events, "got_ip")
  BY DEF Wifis
<1>2. v.events \in Seq(LinkEvents) /\ v.events # << >> /\ v.events[Len(v.events)] = "got_ip"
  BY <1>1, Appended DEF LinkEvents
<1>3. v = [w EXCEPT !.link = "up", !.events = v.events]
  BY <1>1
<1> HIDE DEF v
<1>4. v \in Wifis
  BY <1>2, <1>3 DEF Wifis, Links
<1>5. /\ SameScan(v, w) /\ v.opmode = w.opmode
      /\ v.station_enabled = w.station_enabled /\ v.ap_enabled = w.ap_enabled
      /\ v.temporary_station_enabled = w.temporary_station_enabled
      /\ v.temporary_connect_timer = w.temporary_connect_timer
      /\ v.auto_scan_timer = w.auto_scan_timer /\ v.reconnect = w.reconnect
  BY <1>3 DEF Wifis, SameScan
<1>6. Fits(v)
  BY <1>5 DEF Good, Fits
<1>7. LinkKnown(v)
  BY <1>1, <1>2 DEF LinkKnown
<1> QED BY <1>4, <1>5, <1>6, <1>7 DEF Good, v

\* The last of the events is the last still when one is delivered; what it says is
\* what the module knows once none are left.
LEMMA Delivered ==
  ASSUME NEW s \in Seq(LinkEvents), s # << >>
  PROVE  /\ Tail(s) \in Seq(LinkEvents) /\ Head(s) \in LinkEvents
         /\ Tail(s) = << >> => s[Len(s)] = Head(s)
         /\ Tail(s) # << >> => Tail(s)[Len(Tail(s))] = s[Len(s)]
<1>1. Len(s) \in Nat /\ Len(s) >= 1 /\ s[1] \in LinkEvents /\ Head(s) = s[1]
  OBVIOUS
<1>2. Tail(s) \in Seq(LinkEvents) /\ Len(Tail(s)) = Len(s) - 1
  OBVIOUS
<1>3. \A i \in 1 .. Len(s) - 1 : Tail(s)[i] = s[i + 1]
  OBVIOUS
<1>4. Tail(s) = << >> => Len(s) = 1
  BY <1>1, <1>2
<1>5. Tail(s) # << >> => Len(Tail(s)) \in 1 .. Len(s) - 1
  BY <1>1, <1>2
<1> QED BY <1>1, <1>2, <1>3, <1>4, <1>5

LEMMA GoodDeliver ==
  ASSUME NEW w \in Wifis, Good(w), w.events # << >>, NEW auth_expired \in BOOLEAN
  PROVE  LET rest == [w EXCEPT !.events = Tail(@)]
             v    == IF Head(w.events) = "got_ip" THEN on_got_ip(rest)
                     ELSE on_disconnected(rest, auth_expired)
         IN  Good(v) /\ SameScan(v, w)
<1> DEFINE rest == [w EXCEPT !.events = Tail(@)]
           v == IF Head(w.events) = "got_ip" THEN on_got_ip(rest)
                ELSE on_disconnected(rest, auth_expired)
<1>1. /\ w.events \in Seq(LinkEvents) /\ rest.events = Tail(w.events)
      /\ rest = [w EXCEPT !.events = rest.events]
  BY DEF Wifis
<1>2. /\ rest.events \in Seq(LinkEvents) /\ Head(w.events) \in LinkEvents
      /\ rest.events = << >> => w.events[Len(w.events)] = Head(w.events)
      /\ rest.events # << >> => rest.events[Len(rest.events)] = w.events[Len(w.events)]
  BY <1>1, Delivered
<1> SUFFICES Good(v) /\ SameScan(v, w)
  OBVIOUS
<1> HIDE DEF rest
<1>3. rest \in Wifis
  BY <1>1, <1>2 DEF Wifis
<1>4. /\ SameScan(rest, w) /\ rest.opmode = w.opmode /\ rest.link = w.link
      /\ rest.station_enabled = w.station_enabled /\ rest.ap_enabled = w.ap_enabled
      /\ rest.temporary_station_enabled = w.temporary_station_enabled
      /\ rest.temporary_connect_timer = w.temporary_connect_timer
      /\ rest.auto_scan_timer = w.auto_scan_timer /\ rest.reconnect = w.reconnect
  BY <1>1 DEF Wifis, SameScan
<1>5. CASE Head(w.events) = "got_ip"
  <2>1. v = [rest EXCEPT !.station_connected = TRUE, !.temporary_connect_timer = FALSE]
    BY <1>5 DEF on_got_ip
  <2> HIDE DEF v
  <2>2. v \in Wifis
    BY <1>3, <2>1 DEF Wifis
  <2>3. /\ SameScan(v, w) /\ v.opmode = w.opmode /\ v.link = w.link
        /\ v.station_enabled = w.station_enabled /\ v.ap_enabled = w.ap_enabled
        /\ v.temporary_station_enabled = w.temporary_station_enabled
        /\ v.temporary_connect_timer = FALSE
        /\ v.auto_scan_timer = w.auto_scan_timer /\ v.reconnect = w.reconnect
        /\ v.station_connected = TRUE /\ v.events = rest.events
    BY <1>3, <1>4, <2>1 DEF Wifis, SameScan
  <2>4. Fits(v)
    BY <2>3 DEF Good, Fits
  <2>5. LinkKnown(v)
    BY <1>2, <1>5, <2>3 DEF Good, LinkKnown
  <2> QED BY <2>2, <2>3, <2>4, <2>5 DEF Good, v
<1>6. CASE Head(w.events) # "got_ip"
  <2> DEFINE timer == rest.temporary_connect_timer \/ rest.temporary_station_enabled
             u == [rest EXCEPT !.station_connected = FALSE,
                               !.temporary_connect_timer = timer]
  <2>1. timer \in BOOLEAN /\ (timer = TRUE <=> w.temporary_station_enabled = TRUE)
    BY <1>3, <1>4 DEF Wifis, Good, Fits
  <2> HIDE DEF timer
  <2>2. u \in Wifis
    BY ZenonT(60), <1>3, <2>1 DEF Wifis
  <2>3. /\ SameScan(u, w) /\ u.opmode = w.opmode /\ u.link = w.link
        /\ u.station_enabled = w.station_enabled /\ u.ap_enabled = w.ap_enabled
        /\ u.temporary_station_enabled = w.temporary_station_enabled
        /\ u.temporary_connect_timer = timer
        /\ u.auto_scan_timer = w.auto_scan_timer /\ u.reconnect = w.reconnect
        /\ u.station_connected = FALSE /\ u.events = rest.events
    BY <1>3, <1>4, <2>1 DEF Wifis, SameScan
  <2>4. Fits(u)
    BY <2>1, <2>3 DEF Good, Fits
  <2>5. LinkKnown(u)
    BY <1>2, <1>6, <2>3 DEF Good, LinkKnown
  <2>6. Good(u)
    BY <2>2, <2>4, <2>5 DEF Good
  <2>7. v \in {u, wifi_station_connect(u)}
    BY <1>6 DEF on_disconnected, on_temporary_connect, timer
  <2> HIDE DEF u, v
  <2>8. Good(v) /\ SameScan(v, w)
    BY <2>2, <2>3, <2>6, <2>7, GoodConnect DEF SameScan, SameStatics
  <2> QED BY <2>8 DEF v
<1> QED BY <1>5, <1>6

LEMMA GoodApClient ==
  ASSUME NEW w \in Wifis, Good(w)
  PROVE  Good(on_ap_client_connected(w)) /\ SameScan(on_ap_client_connected(w), w)
<1> DEFINE v == on_ap_client_connected(w)
<1>1. v = [w EXCEPT !.temporary_connect_timer = FALSE]
  BY DEF on_ap_client_connected
<1> HIDE DEF v
<1>2. v \in Wifis
  BY <1>1 DEF Wifis
<1>3. /\ SameScan(v, w) /\ v.opmode = w.opmode
      /\ v.station_enabled = w.station_enabled /\ v.ap_enabled = w.ap_enabled
      /\ v.temporary_station_enabled = w.temporary_station_enabled
      /\ v.temporary_connect_timer = FALSE
      /\ v.auto_scan_timer = w.auto_scan_timer /\ v.reconnect = w.reconnect
      /\ v.station_connected = w.station_connected
      /\ v.link = w.link /\ v.events = w.events
  BY <1>1 DEF Wifis, SameScan
<1>4. Fits(v) /\ LinkKnown(v)
  BY <1>3 DEF Good, Fits, LinkKnown
<1> QED BY <1>2, <1>3, <1>4 DEF Good, v

--------------------------------------------------------------------------------
(* The end of a scan. *)

\* What automatic scans found, and how often in a row, is in streak.
Backed(w, s) ==
  /\ w.better_bssid # NoBssid => w.better_bssid = s.bssid
  /\ w.better_bssid = NoBssid => w.better_counter = 0
  /\ BetterCount # 0 => w.better_counter <= s.n

Streaks == [bssid : Bssids \cup {NoBssid}, n : 0 .. BetterCount]

\* MoreOf for a streak that need not be the present one.
Longer(s, best) ==
  [bssid |-> best,
   n |-> IF best = NoBssid THEN 0
         ELSE IF ~Follows(s.bssid, best) THEN IF BetterCount = 0 THEN 0 ELSE 1
         ELSE IF s.n < BetterCount THEN s.n + 1 ELSE s.n]

LEMMA LongerStreak ==
  ASSUME NEW s \in Streaks, NEW best \in Bssids \cup {NoBssid}
  PROVE  /\ Longer(s, best) \in Streaks /\ Longer(s, best).bssid = best
         /\ best # NoBssid /\ Follows(s.bssid, best) /\ s.n < BetterCount
              => Longer(s, best).n = s.n + 1
         /\ best # NoBssid /\ Follows(s.bssid, best) /\ s.n >= BetterCount
              => Longer(s, best).n = s.n
         /\ best # NoBssid /\ BetterCount # 0 => Longer(s, best).n >= 1
<1>1. s.n \in Nat /\ s.n <= BetterCount /\ BetterCount \in Nat
  BY WifiAssumption DEF Streaks
<1>2. Longer(s, best).bssid = best
  BY DEF Longer
<1>3. Longer(s, best).n = IF best = NoBssid THEN 0
         ELSE IF ~Follows(s.bssid, best) THEN IF BetterCount = 0 THEN 0 ELSE 1
         ELSE IF s.n < BetterCount THEN s.n + 1 ELSE s.n
  BY DEF Longer
<1>4. Longer(s, best).n \in 0 .. BetterCount
  BY <1>1, <1>3
<1>5. Longer(s, best) \in Streaks
  BY <1>4 DEF Longer, Streaks
<1> QED BY <1>1, <1>2, <1>3, <1>5

\* A scan ends, whatever it found; only one that jumps touches the link, and the
\* scans in a row before it were enough.
LEMMA GoodScanDone ==
  ASSUME NEW w \in Wifis, Good(w), NEW s \in Streaks, Backed(w, s),
         NEW ok \in BOOLEAN, NEW best \in Bssids \cup {NoBssid}
  PROVE  LET v == on_wifi_scan_done(w, ok, best)
             t == IF ok /\ ~w.scan_callback THEN Longer(s, best) ELSE s
         IN  /\ Good(v) /\ t \in Streaks /\ Backed(v, t)
             /\ v.link # w.link \/ v.events # w.events => t.n >= BetterCount
<1> DEFINE done    == [w EXCEPT !.scanning = FALSE, !.scan_callback = FALSE]
           cleared == [done EXCEPT !.better_counter = 0, !.better_bssid = NoBssid]
           v == on_wifi_scan_done(w, ok, best)
           t == IF ok /\ ~w.scan_callback THEN Longer(s, best) ELSE s
<1> SUFFICES /\ Good(v) /\ t \in Streaks /\ Backed(v, t)
             /\ v.link # w.link \/ v.events # w.events => t.n >= BetterCount
  OBVIOUS
<1>1. /\ t \in Streaks
      /\ ok /\ ~w.scan_callback => t = Longer(s, best)
      /\ ~(ok /\ ~w.scan_callback) => t = s
  BY LongerStreak
<1>2. done \in Wifis /\ done.better_bssid = w.better_bssid
      /\ done.better_counter = w.better_counter
      /\ done.scanning = FALSE /\ done.scan_callback = FALSE
  BY DEF Wifis
<1>3. done = [w EXCEPT !.scanning = done.scanning, !.scan_callback = done.scan_callback,
                       !.better_bssid = done.better_bssid,
                       !.better_counter = done.better_counter]
  BY <1>2 DEF Wifis
<1>4. 0 \in Counters
  BY WifiAssumption DEF Counters
<1>5. cleared = [done EXCEPT !.better_counter = 0, !.better_bssid = NoBssid]
  OBVIOUS
<1>6. \/ ~ok /\ v = done
      \/ ok /\ Jumps(w, best) /\ v = wifi_station_connect(wifi_station_disconnect(cleared))
      \/ /\ ok /\ ~Jumps(w, best) /\ SteadilyBetter(w, best)
         /\ v = [done EXCEPT !.better_counter = (@ + 1) % 256, !.better_bssid = best]
      \/ ok /\ v = cleared
  BY DEF on_wifi_scan_done
<1> HIDE DEF done, cleared, t, v
<1>7. Good(done) /\ done.link = w.link /\ done.events = w.events
  BY <1>2, <1>3, ScanFlagsGood
<1>8. /\ cleared \in Wifis /\ cleared.better_bssid = NoBssid /\ cleared.better_counter = 0
      /\ cleared.scanning = FALSE /\ cleared.scan_callback = FALSE
  BY <1>2, <1>4, <1>5 DEF Wifis
<1>9. cleared = [done EXCEPT !.scanning = cleared.scanning,
                             !.scan_callback = cleared.scan_callback,
                             !.better_bssid = cleared.better_bssid,
                             !.better_counter = cleared.better_counter]
  BY <1>2, <1>5, <1>8 DEF Wifis
<1>10. Good(cleared) /\ cleared.link = w.link /\ cleared.events = w.events
  BY <1>2, <1>7, <1>8, <1>9, ScanFlagsGood
<1>11. t.n \in Nat /\ s.n \in Nat /\ BetterCount \in Nat
  BY <1>1, WifiAssumption DEF Streaks
<1>12. w.better_counter \in Nat
  <2>1. w.better_counter \in Counters
    BY DEF Wifis
  <2>2. Counters \subseteq Nat
    <3>1. CASE BetterCount = 0
      BY <3>1 DEF Counters
    <3>2. CASE BetterCount # 0
      BY <3>2, WifiAssumption DEF Counters
    <3> QED BY <3>1, <3>2
  <2> QED BY <2>1, <2>2
<1>13. CASE ~ok /\ v = done
  BY <1>1, <1>2, <1>7, <1>13 DEF Backed
<1>14. CASE ok /\ v = cleared
  BY <1>1, <1>8, <1>10, <1>11, <1>14 DEF Backed
<1>15. CASE /\ ok /\ Jumps(w, best)
            /\ v = wifi_station_connect(wifi_station_disconnect(cleared))
  <2> DEFINE u == wifi_station_disconnect(cleared)
  <2>1. Good(u) /\ u \in Wifis /\ SameStatics(u, cleared)
    BY <1>8, <1>10, GoodDisconnect DEF Good
  <2> HIDE DEF u
  <2>2. v = wifi_station_connect(u)
    BY <1>15 DEF u
  <2>3. Good(v) /\ SameStatics(v, u)
    BY <2>1, <2>2, GoodConnect
  <2>4. v.better_bssid = NoBssid /\ v.better_counter = 0
    BY <1>8, <2>1, <2>3 DEF SameStatics
  <2>5. Backed(v, t)
    BY <1>11, <2>4 DEF Backed
  <2>6. /\ BetterCount # 0 /\ w.better_counter + 1 >= BetterCount /\ best # NoBssid
        /\ SameBetter(w, best) /\ t = Longer(s, best)
    BY <1>1, <1>15 DEF Jumps, SteadilyBetter
  <2>7. t.n >= 1
    BY <2>6, LongerStreak
  <2>8. t.n >= BetterCount
    <3>1. CASE w.better_bssid = NoBssid
      BY <1>11, <2>6, <2>7, <3>1 DEF Backed
    <3>2. CASE w.better_bssid # NoBssid
      <4>1. Follows(s.bssid, best) /\ w.better_counter <= s.n
        BY <2>6, <3>2 DEF Backed, SameBetter, Follows
      <4>2. CASE s.n < BetterCount
        <5>1. t.n = s.n + 1
          BY <2>6, <4>1, <4>2, LongerStreak
        <5> QED BY <1>11, <1>12, <2>6, <4>1, <5>1
      <4>3. CASE s.n >= BetterCount
        BY <2>6, <4>1, <4>3, LongerStreak
      <4> QED BY <1>11, <4>2, <4>3
    <3> QED BY <2>6, <3>1, <3>2
  <2> QED BY <1>1, <2>3, <2>5, <2>8
<1>16. CASE /\ ok /\ ~Jumps(w, best) /\ SteadilyBetter(w, best)
            /\ v = [done EXCEPT !.better_counter = (@ + 1) % 256, !.better_bssid = best]
  <2> DEFINE next == (w.better_counter + 1) % 256
  <2>1. next \in 0 .. 255 /\ next <= w.better_counter + 1
    BY <1>12
  <2>2. v = [done EXCEPT !.better_counter = next, !.better_bssid = best]
    BY <1>2, <1>16 DEF Wifis
  <2> HIDE DEF next
  <2>3. BetterCount # 0 => w.better_counter + 1 < BetterCount
    BY <1>11, <1>12, <1>16 DEF Jumps
  <2>4. next \in Counters
    BY <1>11, <1>12, <2>1, <2>3 DEF Counters
  <2>5. v \in Wifis /\ v.better_counter = next /\ v.better_bssid = best
    BY <1>2, <2>2, <2>4 DEF Wifis
  <2>6. v = [done EXCEPT !.scanning = v.scanning, !.scan_callback = v.scan_callback,
                         !.better_bssid = v.better_bssid,
                         !.better_counter = v.better_counter]
    BY <1>2, <2>2, <2>5 DEF Wifis
  <2>7. Good(v) /\ v.link = w.link /\ v.events = w.events
    BY <1>2, <1>7, <2>5, <2>6, ScanFlagsGood
  <2>8. /\ best # NoBssid /\ SameBetter(w, best) /\ t = Longer(s, best)
    BY <1>1, <1>16 DEF SteadilyBetter
  <2>9. BetterCount # 0 => next <= t.n
    <3> SUFFICES ASSUME BetterCount # 0 PROVE next <= t.n
      OBVIOUS
    <3>1. CASE w.better_bssid = NoBssid
      <4>1. t.n >= 1
        BY <2>8, LongerStreak
      <4>2. w.better_counter = 0
        BY <3>1 DEF Backed
      <4> QED BY <1>11, <2>1, <4>1, <4>2
    <3>2. CASE w.better_bssid # NoBssid
      <4>1. Follows(s.bssid, best) /\ w.better_counter <= s.n
        BY <2>8, <3>2 DEF Backed, SameBetter, Follows
      <4>2. CASE s.n < BetterCount
        <5>1. t.n = s.n + 1
          BY <2>8, <4>1, <4>2, LongerStreak
        <5> QED BY <1>11, <1>12, <2>1, <4>1, <5>1
      <4>3. CASE s.n >= BetterCount
        <5>1. t.n = s.n
          BY <2>8, <4>1, <4>3, LongerStreak
        <5> QED BY <1>11, <1>12, <2>1, <2>3, <4>3, <5>1
      <4> QED BY <1>11, <4>2, <4>3
    <3> QED BY <2>8, <3>1, <3>2
  <2>10. t.bssid = best
    BY <2>8, LongerStreak
  <2>11. Backed(v, t)
    BY <2>5, <2>8, <2>9, <2>10 DEF Backed
  <2> QED BY <1>1, <2>7, <2>11
<1> QED BY <1>6, <1>13, <1>14, <1>15, <1>16

--------------------------------------------------------------------------------
(* The invariant. *)

IInv ==
  /\ Good(wifi) /\ asked \in BOOLEAN
  /\ asked = TRUE => wifi.scanning = TRUE /\ wifi.scan_callback = TRUE
  /\ streak \in Streaks /\ Backed(wifi, streak)

\* What a call does that begins and ends no scan of another.
Steady(v, w) ==
  /\ Good(v) /\ v.better_bssid = w.better_bssid /\ v.better_counter = w.better_counter
  /\ w.scanning => v.scanning = w.scanning /\ v.scan_callback = w.scan_callback

LEMMA CallKeeps ==
  ASSUME IInv, NEW v, Steady(v, wifi), wifi' = v, UNCHANGED <<asked, streak>>
  PROVE  IInv' /\ (wifi.scanning => wifi'.scanning)
BY DEF IInv, Steady, Backed, Streaks, Good, Fits, LinkKnown

LEMMA InitIInv == Init => IInv
<1> SUFFICES ASSUME Init PROVE IInv
  OBVIOUS
<1>1. PICK saved \in Configs \cup {NoConfig} : wifi = wifi_init(saved)
  BY DEF Init
<1>2. 0 \in Counters /\ BetterCount \in Nat
  BY WifiAssumption DEF Counters
<1>3. << >> \in Seq(LinkEvents)
  OBVIOUS
<1>4. wifi \in Wifis
  BY <1>1, <1>2, <1>3 DEF wifi_init, Wifis, Modes, Links
<1>5. Fits(wifi) /\ LinkKnown(wifi)
  BY <1>1 DEF wifi_init, Fits, LinkKnown, HasStation
<1>6. streak \in Streaks
  BY <1>2 DEF Init, Streaks
<1>7. Backed(wifi, streak)
  BY <1>1, <1>2 DEF Init, Backed, wifi_init
<1> QED BY <1>4, <1>5, <1>6, <1>7 DEF Init, IInv, Good

\* A step leaves the invariant, and a scan that it does not end goes on.
LEMMA NextIInv ==
  ASSUME IInv, Next
  PROVE  /\ IInv'
         /\ \/ wifi.scanning => wifi'.scanning
            \/ \E ok \in BOOLEAN, best \in Bssids \cup {NoBssid} : ScanDone(ok, best)
<1> DEFINE Kept == IInv' /\ (wifi.scanning => wifi'.scanning)
<1>1. wifi \in Wifis /\ Good(wifi)
  BY DEF IInv, Good
<1>2. ASSUME NEW v, Good(v) /\ SameScan(v, wifi), Call(v)
      PROVE  Kept
  BY <1>2, CallKeeps DEF Call, Steady, SameScan
<1>3. ASSUME NEW v, Good(v) /\ SameStatics(v, wifi), Call(v)
      PROVE  Kept
  BY <1>2, <1>3 DEF SameStatics, SameScan
<1>4. CASE StationEnable
  BY <1>1, <1>2, <1>4, GoodStationEnable DEF StationEnable
<1>5. CASE StationDisable
  BY <1>1, <1>2, <1>5, GoodStationDisable DEF StationDisable
<1>6. CASE TemporaryEnable
  BY <1>1, <1>2, <1>6, GoodTemporaryEnable DEF TemporaryEnable
<1>7. CASE TemporaryDisable
  BY <1>1, <1>2, <1>7, GoodTemporaryDisable DEF TemporaryDisable
<1>8. CASE ApEnable
  BY <1>1, <1>2, <1>8, GoodApEnable DEF ApEnable
<1>9. CASE ApDisable
  BY <1>1, <1>2, <1>9, GoodApDisable DEF ApDisable
<1>10. CASE SaveConfig
  BY <1>1, <1>2, <1>10, GoodSave DEF SaveConfig
<1>11. CASE Reset
  BY <1>1, <1>2, <1>11, GoodReset DEF Reset
<1>12. ASSUME NEW c \in Configs \cup {NoConfig}, SetConfig(c)
       PROVE  Kept
  BY <1>1, <1>2, <1>12, GoodSet DEF SetConfig
<1>13. ASSUME NEW ota_busy \in BOOLEAN, UserScan(ota_busy)
       PROVE  Kept
  <2> DEFINE v == wifi_scan(wifi, TRUE, ota_busy)
  <2>1. /\ Good(v)
        /\ v.better_bssid = wifi.better_bssid /\ v.better_counter = wifi.better_counter
        /\ IF ScanStarts(wifi, ota_busy)
           THEN v.scanning = TRUE /\ v.scan_callback = TRUE
           ELSE v.scanning = wifi.scanning /\ v.scan_callback = wifi.scan_callback
    <3>1. TRUE \in BOOLEAN
      OBVIOUS
    <3> QED BY <1>1, <3>1, GoodScan
  <2>2. /\ wifi' = v /\ streak' = streak
        /\ asked' = (asked \/ ScanStarts(wifi, ota_busy))
    BY <1>13 DEF UserScan
  <2> HIDE DEF v
  <2>3. Good(wifi)' /\ streak' \in Streaks /\ Backed(wifi, streak)'
    BY <2>1, <2>2 DEF IInv, Backed, Good, Fits, LinkKnown
  <2>4. asked' \in BOOLEAN
    BY <2>2
  <2>5. asked' = TRUE => wifi'.scanning = TRUE /\ wifi'.scan_callback = TRUE
    BY <2>1, <2>2 DEF IInv
  <2>6. wifi.scanning => wifi'.scanning
    BY <2>1, <2>2 DEF ScanStarts
  <2> QED BY <2>3, <2>4, <2>5, <2>6 DEF IInv
<1>14. ASSUME NEW weak \in BOOLEAN, NEW ota_busy \in BOOLEAN, AutoScan(weak, ota_busy)
       PROVE  Kept
  <2> DEFINE v == on_auto_scan(wifi, weak, ota_busy)
  <2>1. Steady(v, wifi)
    BY <1>1, GoodAutoScan DEF Steady
  <2>2. wifi' = v /\ UNCHANGED <<asked, streak>>
    BY <1>14 DEF AutoScan, Call
  <2> HIDE DEF v
  <2> QED BY <2>1, <2>2, CallKeeps
<1>15. CASE TemporaryConnect
  BY <1>1, <1>3, <1>15, GoodConnect DEF TemporaryConnect, on_temporary_connect
<1>16. ASSUME NEW ok \in BOOLEAN, NEW best \in Bssids \cup {NoBssid}, ScanDone(ok, best)
       PROVE  IInv'
  <2> DEFINE v == on_wifi_scan_done(wifi, ok, best)
             t == IF ok /\ ~wifi.scan_callback THEN Longer(streak, best) ELSE streak
  <2>1. Good(v) /\ t \in Streaks /\ Backed(v, t)
    BY <1>1, GoodScanDone DEF IInv
  <2>2. wifi' = v /\ streak' = t /\ asked' = (asked /\ ~wifi.scan_callback)
    BY <1>16 DEF ScanDone, MoreOf, Longer
  <2> HIDE DEF v, t
  <2>3. asked' = FALSE
    BY <2>2 DEF IInv
  <2> QED BY <2>1, <2>2, <2>3 DEF IInv, Good, Fits, LinkKnown, Backed
<1>17. CASE Attempt
  BY <1>1, <1>3, <1>17, GoodConnect DEF Attempt
<1>18. CASE LinkUp
  BY <1>1, <1>2, <1>18, GoodUp DEF LinkUp
<1>19. CASE LinkDown
  BY <1>1, <1>3, <1>19, GoodDisconnect DEF LinkDown
<1>20. ASSUME NEW auth_expired \in BOOLEAN, Deliver(auth_expired)
       PROVE  Kept
  <2> DEFINE rest == [wifi EXCEPT !.events = Tail(@)]
             v    == IF Head(wifi.events) = "got_ip" THEN on_got_ip(rest)
                     ELSE on_disconnected(rest, auth_expired)
  <2>1. wifi.events # << >> /\ wifi' = v /\ UNCHANGED <<asked, streak>>
    BY <1>20 DEF Deliver
  <2>2. Good(v) /\ SameScan(v, wifi)
    BY <1>1, <2>1, GoodDeliver
  <2> HIDE DEF v
  <2>3. Steady(v, wifi)
    BY <2>2 DEF Steady, SameScan
  <2> QED BY <2>1, <2>3, CallKeeps
<1>21. CASE ApClientConnected
  BY <1>1, <1>2, <1>21, GoodApClient DEF ApClientConnected
<1> QED BY <1>4, <1>5, <1>6, <1>7, <1>8, <1>9, <1>10, <1>11, <1>12, <1>13, <1>14,
           <1>15, <1>16, <1>17, <1>18, <1>19, <1>20, <1>21 DEF Next

LEMMA StutterIInv == IInv /\ UNCHANGED vars => IInv'
BY DEF IInv, Good, Fits, LinkKnown, Backed, vars

THEOREM WifiInvariance == Spec => []IInv
<1>1. IInv /\ [Next]_vars => IInv'
  BY NextIInv, StutterIInv
<1> QED BY InitIInv, <1>1, PTL DEF Spec

--------------------------------------------------------------------------------

\* Whatever was enabled and disabled, in whatever order and with whatever events
\* still under way, the radio, its reconnect policy and its timers fit what is
\* enabled: eight functions of wifi.c set the mode, each from what it knows.
THEOREM RadioAlwaysServes == Spec => []RadioServes
<1>1. IInv => RadioServes
  BY DEF IInv, Good, Fits, RadioServes, ModeServes, ReconnectOnlyWithoutAp,
         TemporaryTimerOwned, Wifis
<1> QED BY WifiInvariance, <1>1, PTL

\* Automatic scans go on while the station is enabled, and whoever started a scan
\* keeps its callback until the scan ends.
THEOREM ScansAlwaysGoOn == Spec => []ScansGoOn
<1>1. IInv => ScansGoOn
  BY DEF IInv, Good, Fits, ScansGoOn, AutoScanScheduled, UserScanAnswered, Wifis
<1> QED BY WifiInvariance, <1>1, PTL

\* Once its events are in, the module knows whether the link is up, whatever was
\* enabled or disabled while they were under way.
THEOREM LinkIsTracked == Spec => []ConnectedTracksLink
<1>1. IInv => ConnectedTracksLink
  BY DEF IInv, Good, LinkKnown, ConnectedTracksLink, Wifis
<1> QED BY WifiInvariance, <1>1, PTL

\* The end of a scan touches the link only where better_count automatic scans in a
\* row have found the same better access point, one whose BSSID begins with 0 being
\* followed by any other.
THEOREM JumpsAreBacked == Spec => JumpsToSteadyOnly
<1> DEFINE A == wifi.scanning /\ ~wifi'.scanning
                  /\ <<wifi'.link, wifi'.events>> # <<wifi.link, wifi.events>>
                => streak'.n >= BetterCount
<1>1. ASSUME IInv, [Next]_vars PROVE [A]_vars
  <2>1. CASE UNCHANGED vars
    BY <2>1
  <2>2. CASE Next
    <3> SUFFICES ASSUME wifi.scanning, ~wifi'.scanning,
                        <<wifi'.link, wifi'.events>> # <<wifi.link, wifi.events>>
                 PROVE  streak'.n >= BetterCount
      OBVIOUS
    <3>1. PICK ok \in BOOLEAN, best \in Bssids \cup {NoBssid} : ScanDone(ok, best)
      BY <1>1, <2>2, NextIInv
    <3> DEFINE v == on_wifi_scan_done(wifi, ok, best)
               t == IF ok /\ ~wifi.scan_callback THEN Longer(streak, best) ELSE streak
    <3>2. v.link # wifi.link \/ v.events # wifi.events => t.n >= BetterCount
      BY <1>1, GoodScanDone DEF IInv, Good
    <3>3. wifi' = v /\ streak' = t
      BY <3>1 DEF ScanDone, MoreOf, Longer
    <3> HIDE DEF v, t
    <3> QED BY <3>2, <3>3
  <2> QED BY <1>1, <2>1, <2>2
<1> QED BY WifiInvariance, <1>1, PTL DEF Spec, JumpsToSteadyOnly

================================================================================
