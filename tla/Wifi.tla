---------------------------------- MODULE Wifi ----------------------------------
(***************************************************************************)
(* The functions of src/espgoodies/wifi.c on its static variables, kept in *)
(* one record, and the little of the SDK they set: the operating mode, the *)
(* reconnect policy, the state of the station's link, the configuration in *)
(* flash and the link events not delivered yet.  The SDK calls succeed.    *)
(***************************************************************************)
EXTENDS Integers, Sequences

CONSTANTS
  Configs,      \* station configurations with an SSID
  Pinned,       \* those that name a BSSID, which does not begin with a byte of 0
  NoConfig,     \* a configuration without an SSID
  AccessPoints, \* better access points a scan may find, by what identifies one
  NoBssid,      \* better_bssid cleared
  BetterCount   \* better_count: WIFI_BETTER_COUNT, or 0

\* A BSSID: its last five bytes, by which wifi_bssid_cmp knows an access point,
\* and whether the first one, "as it may actually change", is 0.
Bssids == [zero : BOOLEAN, ap : AccessPoints]

ASSUME WifiAssumption ==
  /\ Pinned \subseteq Configs
  /\ NoConfig \notin Configs
  /\ NoBssid \notin Bssids
  /\ BetterCount \in Nat

Modes     == {"null", "station", "softap", "stationap"}
Links     == {"idle", "connecting", "up"}
LinkEvents == {"disconnected", "got_ip"}

\* better_counter stays below better_count; without one it is a free 8-bit count.
Counters == IF BetterCount = 0 THEN 0 .. 255 ELSE 0 .. BetterCount - 1

Wifis ==
  [station_enabled : BOOLEAN, temporary_station_enabled : BOOLEAN,
   ap_enabled : BOOLEAN, station_connect_callback : BOOLEAN,
   station_connected : BOOLEAN, temporary_connect_timer : BOOLEAN,
   auto_scan_timer : BOOLEAN, scanning : BOOLEAN, scan_callback : BOOLEAN,
   better_bssid : Bssids \cup {NoBssid}, better_counter : Counters,
   cached : Configs \cup {NoConfig}, cached_read : BOOLEAN, cached_changed : BOOLEAN,
   opmode : Modes, reconnect : BOOLEAN, link : Links, saved : Configs \cup {NoConfig},
   events : Seq(LinkEvents)]

\* The statics at boot, after wifi_init.
wifi_init(saved) ==
  [station_enabled |-> FALSE, temporary_station_enabled |-> FALSE,
   ap_enabled |-> FALSE, station_connect_callback |-> FALSE,
   station_connected |-> FALSE, temporary_connect_timer |-> FALSE,
   auto_scan_timer |-> FALSE, scanning |-> FALSE, scan_callback |-> FALSE,
   better_bssid |-> NoBssid, better_counter |-> 0,
   cached |-> NoConfig, cached_read |-> FALSE, cached_changed |-> FALSE,
   opmode |-> "null", reconnect |-> TRUE, link |-> "idle", saved |-> saved,
   events |-> << >>]

--------------------------------------------------------------------------------
(* The SDK. *)

HasStation(mode) == mode \in {"station", "stationap"}

wifi_station_disconnect(w) ==
  [w EXCEPT !.link = "idle",
            !.events = IF w.link = "idle" THEN @ ELSE Append(@, "disconnected")]

wifi_set_opmode_current(w, mode) ==
  LET v == IF HasStation(mode) THEN w ELSE wifi_station_disconnect(w)
  IN  [v EXCEPT !.opmode = mode]

wifi_station_connect(w) ==
  [w EXCEPT !.link = IF @ = "idle" /\ HasStation(w.opmode) THEN "connecting" ELSE @]

--------------------------------------------------------------------------------
(* The configuration. *)

ensure_station_config_read(w) ==
  IF w.cached_read
  THEN w
  ELSE [w EXCEPT !.cached = w.saved, !.cached_read = TRUE, !.cached_changed = FALSE]

\* wifi_set_ssid, wifi_set_psk or wifi_set_bssid: the configuration becomes c.
wifi_set(w, c) ==
  [ensure_station_config_read(w) EXCEPT !.cached = c, !.cached_changed = TRUE]

wifi_reset(w) == [w EXCEPT !.saved = NoConfig]

\* mutant: the configuration is saved whether it was changed or not
SavedAlways(w) ==
  LET v == ensure_station_config_read(w)
  IN  [v EXCEPT !.saved = v.cached, !.cached_changed = FALSE]

wifi_save_config(w) ==
  IF ~w.cached_changed
  THEN w
  ELSE LET v == IF w.station_enabled THEN w
                ELSE wifi_set_opmode_current(w, IF w.ap_enabled THEN "stationap"
                                                ELSE "station")
       IN  [v EXCEPT !.saved = w.cached, !.cached_changed = FALSE, !.cached_read = TRUE]

--------------------------------------------------------------------------------
(* Station and access point. *)

wifi_station_temporary_disable(w) ==
  IF ~w.temporary_station_enabled
  THEN w
  ELSE [wifi_set_opmode_current(wifi_station_disconnect(w),
                                IF w.ap_enabled THEN "softap" ELSE "null")
          EXCEPT !.temporary_station_enabled = FALSE, !.station_connect_callback = FALSE,
                 !.temporary_connect_timer = FALSE]

\* With a non-zero interval of automatic scans, as its only caller has it.
wifi_station_enable(w) ==
  LET enabled == [wifi_station_temporary_disable(w) EXCEPT !.station_enabled = TRUE]
      moded   == [wifi_set_opmode_current(enabled, IF w.ap_enabled THEN "stationap"
                                                   ELSE "station")
                    EXCEPT !.reconnect = ~w.ap_enabled]
      loaded  == ensure_station_config_read(moded)
  IN  IF w.station_enabled
      THEN w
      ELSE [IF loaded.cached = NoConfig THEN loaded ELSE wifi_station_connect(loaded)
              EXCEPT !.station_connect_callback = TRUE, !.auto_scan_timer = TRUE]

wifi_station_disable(w) ==
  IF ~w.station_enabled
  THEN w
  ELSE [wifi_set_opmode_current(wifi_station_disconnect(w),
                                IF w.ap_enabled THEN "softap" ELSE "null")
          EXCEPT !.station_enabled = FALSE, !.station_connect_callback = FALSE]

wifi_station_temporary_enable(w) ==
  IF w.station_enabled
  THEN w
  ELSE [wifi_station_connect(wifi_set_opmode_current(w, IF w.ap_enabled THEN "stationap"
                                                        ELSE "station"))
          EXCEPT !.temporary_station_enabled = TRUE, !.reconnect = FALSE,
                 !.temporary_connect_timer = TRUE, !.station_connect_callback = TRUE]

wifi_ap_enable(w) ==
  LET station == w.station_enabled \/ w.temporary_station_enabled
  IN  IF w.ap_enabled
      THEN w
      ELSE [wifi_set_opmode_current(w, IF station THEN "stationap" ELSE "softap")
              EXCEPT !.ap_enabled = TRUE, !.reconnect = @ /\ ~station]

\* mutant: the temporary station is forgotten when the access point goes
TemporaryForgotten(w) ==
  IF ~w.ap_enabled
  THEN w
  ELSE [wifi_set_opmode_current(w, IF w.station_enabled THEN "station" ELSE "null")
          EXCEPT !.ap_enabled = FALSE, !.reconnect = @ \/ w.station_enabled]

\* mutant: the station is left without automatic reconnection
ReconnectNotRestored(w) ==
  LET station == w.station_enabled \/ w.temporary_station_enabled
  IN  IF ~w.ap_enabled
      THEN w
      ELSE [wifi_set_opmode_current(w, IF station THEN "station" ELSE "null")
              EXCEPT !.ap_enabled = FALSE]

wifi_ap_disable(w) ==
  LET station == w.station_enabled \/ w.temporary_station_enabled
  IN  IF ~w.ap_enabled
      THEN w
      ELSE [wifi_set_opmode_current(w, IF station THEN "station" ELSE "null")
              EXCEPT !.ap_enabled = FALSE, !.reconnect = @ \/ w.station_enabled]

--------------------------------------------------------------------------------
(* Scanning. *)

\* mutant: a scan that is under way is not looked at
ScanTwice(w, user, ota_busy) ==
  LET v == IF w.station_enabled \/ w.temporary_station_enabled THEN w
           ELSE wifi_set_opmode_current(w, IF w.ap_enabled THEN "stationap"
                                           ELSE "station")
  IN  IF ota_busy THEN v
      ELSE [v EXCEPT !.scanning = TRUE, !.scan_callback = user]

\* user: the caller passes a callback.
wifi_scan(w, user, ota_busy) ==
  LET v == IF w.station_enabled \/ w.temporary_station_enabled THEN w
           ELSE wifi_set_opmode_current(w, IF w.ap_enabled THEN "stationap"
                                           ELSE "station")
  IN  IF w.scanning \/ ota_busy THEN v
      ELSE [v EXCEPT !.scanning = TRUE, !.scan_callback = user]

\* Whether wifi_scan returns TRUE.
ScanStarts(w, ota_busy) == ~w.scanning /\ ~ota_busy

\* mutant: any better access point counts, not only that of the last time
AnyBetter(w, best) ==
  /\ ~w.scan_callback /\ w.station_enabled /\ ~w.ap_enabled /\ w.station_connected
  /\ w.cached \notin Pinned
  /\ best # NoBssid

\* The access point remembered is best's.  One whose BSSID begins with 0 is taken
\* for none, as wifi_get_bssid takes the one of a configuration for none.
SameBetter(w, best) ==
  w.better_bssid = NoBssid \/ w.better_bssid.zero \/ w.better_bssid.ap = best.ap

\* best: the strongest access point found, if it has our SSID, is considerably
\* better and not the one we are connected to.
SteadilyBetter(w, best) ==
  /\ ~w.scan_callback /\ w.station_enabled /\ ~w.ap_enabled /\ w.station_connected
  /\ w.cached \notin Pinned
  /\ best # NoBssid
  /\ SameBetter(w, best)

\* The scan makes better_counter reach better_count.
Jumps(w, best) ==
  /\ BetterCount # 0
  /\ SteadilyBetter(w, best)
  /\ w.better_counter + 1 >= BetterCount

on_wifi_scan_done(w, ok, best) ==
  LET done    == [w EXCEPT !.scanning = FALSE, !.scan_callback = FALSE]
      cleared == [done EXCEPT !.better_counter = 0, !.better_bssid = NoBssid]
  IN  IF ~ok THEN done
      ELSE IF Jumps(w, best)
           THEN wifi_station_connect(wifi_station_disconnect(cleared))
      ELSE IF SteadilyBetter(w, best)
           THEN [done EXCEPT !.better_counter = (@ + 1) % 256, !.better_bssid = best]
      ELSE cleared

\* mutant: the next scan is only scheduled by one that takes place
OnlyWhenScanning(w, weak, ota_busy) ==
  IF w.station_enabled /\ ~w.ap_enabled /\ weak
  THEN wifi_scan(w, FALSE, ota_busy)
  ELSE [w EXCEPT !.auto_scan_timer = FALSE]

\* weak: the signal is below min_rssi_threshold.
on_auto_scan(w, weak, ota_busy) ==
  IF ~w.station_enabled
  THEN [w EXCEPT !.auto_scan_timer = FALSE]
  ELSE IF ~w.ap_enabled /\ weak THEN wifi_scan(w, FALSE, ota_busy) ELSE w

--------------------------------------------------------------------------------
(* Events.  The callbacks of the application are the caller's part. *)

on_temporary_connect(w) == wifi_station_connect(w)

\* The callback is told of a change only.
ToldDisconnected(w) == w.station_connect_callback /\ w.station_connected
ToldConnected(w)    == w.station_connect_callback /\ ~w.station_connected

\* mutant: an event that nobody is told of is dropped
DroppedUntold(w, auth_expired) ==
  LET v == [w EXCEPT !.station_connected = FALSE,
                     !.temporary_connect_timer = @ \/ w.temporary_station_enabled]
  IN  IF ~w.station_connect_callback THEN w
      ELSE IF w.temporary_station_enabled /\ auth_expired THEN on_temporary_connect(v)
      ELSE v

\* mutant: the timer is armed whether a temporary station is enabled or not
TimerForAnyStation(w, auth_expired) ==
  LET v == [w EXCEPT !.station_connected = FALSE, !.temporary_connect_timer = TRUE]
  IN  IF w.temporary_station_enabled /\ auth_expired THEN on_temporary_connect(v) ELSE v

on_disconnected(w, auth_expired) ==
  LET v == [w EXCEPT !.station_connected = FALSE,
                     !.temporary_connect_timer = @ \/ w.temporary_station_enabled]
  IN  IF w.temporary_station_enabled /\ auth_expired THEN on_temporary_connect(v) ELSE v

on_got_ip(w) ==
  [w EXCEPT !.station_connected = TRUE, !.temporary_connect_timer = FALSE]

on_ap_client_connected(w) == [w EXCEPT !.temporary_connect_timer = FALSE]

================================================================================
