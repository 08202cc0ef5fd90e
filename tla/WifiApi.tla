--------------------------------- MODULE WifiApi ---------------------------------
(***************************************************************************)
(* src/espgoodies/wifi.c under any sequence of calls of the API that       *)
(* wifi.h offers, with its timers, its scans and the SDK's events, which   *)
(* are delivered after what caused them.                                   *)
(***************************************************************************)
EXTENDS Wifi

CONSTANT MaxEvents   \* bound: events not delivered yet

VARIABLES
  wifi,
  asked,    \* history: a caller waits for the results of the scan it started
  streak    \* history: what the last automatic scan found, for how many in a row
vars == <<wifi, asked, streak>>

Init ==
  /\ \E saved \in Configs \cup {NoConfig} : wifi = wifi_init(saved)
  /\ asked = FALSE
  /\ streak = [bssid |-> NoBssid, n |-> 0]

--------------------------------------------------------------------------------
(* Calls. *)

Call(new) ==
  /\ Len(wifi.events) < MaxEvents
  /\ wifi' = new
  /\ UNCHANGED <<asked, streak>>

StationEnable    == Call(wifi_station_enable(wifi))
StationDisable   == Call(wifi_station_disable(wifi))
TemporaryEnable  == Call(wifi_station_temporary_enable(wifi))
TemporaryDisable == Call(wifi_station_temporary_disable(wifi))
ApEnable         == Call(wifi_ap_enable(wifi))
ApDisable        == Call(wifi_ap_disable(wifi))
SetConfig(c)     == Call(wifi_set(wifi, c))
SaveConfig       == Call(wifi_save_config(wifi))
Reset            == Call(wifi_reset(wifi))

UserScan(ota_busy) ==
  /\ Len(wifi.events) < MaxEvents
  /\ wifi' = wifi_scan(wifi, TRUE, ota_busy)
  /\ asked' = (asked \/ ScanStarts(wifi, ota_busy))
  /\ UNCHANGED streak

--------------------------------------------------------------------------------
(* Timers and the end of a scan. *)

AutoScan(weak, ota_busy) ==
  wifi.auto_scan_timer /\ Call(on_auto_scan(wifi, weak, ota_busy))

TemporaryConnect ==
  wifi.temporary_connect_timer /\ Call(on_temporary_connect(wifi))

\* An automatic scan that found best goes on where the one before it left off:
\* that one had found the same access point, or one whose BSSID begins with 0.
Follows(earlier, best) ==
  earlier # NoBssid /\ (earlier.ap = best.ap \/ earlier.zero)

MoreOf(best) ==
  [bssid |-> best,
   n |-> IF best = NoBssid THEN 0
         ELSE IF ~Follows(streak.bssid, best) THEN IF BetterCount = 0 THEN 0 ELSE 1
         ELSE IF streak.n < BetterCount THEN streak.n + 1 ELSE streak.n]

ScanDone(ok, best) ==
  /\ wifi.scanning /\ Len(wifi.events) < MaxEvents
  /\ wifi' = on_wifi_scan_done(wifi, ok, best)
  /\ asked' = (asked /\ ~wifi.scan_callback)
  /\ streak' = IF ok /\ ~wifi.scan_callback THEN MoreOf(best) ELSE streak

--------------------------------------------------------------------------------
(* The link, and its events. *)

Attempt ==
  /\ wifi.link = "idle" /\ wifi.reconnect /\ wifi.station_enabled
  /\ Call(wifi_station_connect(wifi))

LinkUp ==
  /\ wifi.link = "connecting"
  /\ Call([wifi EXCEPT !.link = "up", !.events = Append(@, "got_ip")])

LinkDown ==
  wifi.link # "idle" /\ Call(wifi_station_disconnect(wifi))

Deliver(auth_expired) ==
  /\ wifi.events # << >>
  /\ LET w == [wifi EXCEPT !.events = Tail(@)]
     IN  wifi' = IF Head(wifi.events) = "got_ip" THEN on_got_ip(w)
                 ELSE on_disconnected(w, auth_expired)
  /\ UNCHANGED <<asked, streak>>

ApClientConnected == wifi.ap_enabled /\ Call(on_ap_client_connected(wifi))

Next ==
  \/ StationEnable \/ StationDisable \/ TemporaryEnable \/ TemporaryDisable
  \/ ApEnable \/ ApDisable \/ SaveConfig \/ Reset
  \/ \E c \in Configs \cup {NoConfig} : SetConfig(c)
  \/ \E ota_busy \in BOOLEAN : UserScan(ota_busy)
  \/ \E weak, ota_busy \in BOOLEAN : AutoScan(weak, ota_busy)
  \/ TemporaryConnect
  \/ \E ok \in BOOLEAN, best \in Bssids \cup {NoBssid} : ScanDone(ok, best)
  \/ Attempt \/ LinkUp \/ LinkDown
  \/ \E auth_expired \in BOOLEAN : Deliver(auth_expired)
  \/ ApClientConnected

Spec == Init /\ [][Next]_vars

--------------------------------------------------------------------------------
(* Properties. *)

\* Whatever was enabled and disabled, in whatever order, the radio is in a mode
\* that serves what is enabled now (wifi_set_opmode_current is called by eight
\* functions, each from what it knows of the others).
ModeServes ==
  /\ wifi.station_enabled \/ wifi.temporary_station_enabled => HasStation(wifi.opmode)
  /\ wifi.ap_enabled <=> wifi.opmode \in {"softap", "stationap"}

\* The station reconnects by itself exactly when there is no access point to be
\* disturbed by it; a temporary station never does.
ReconnectOnlyWithoutAp ==
  /\ wifi.station_enabled => (wifi.reconnect <=> ~wifi.ap_enabled)
  /\ wifi.temporary_station_enabled => ~wifi.reconnect

\* The attempts to reach a temporary network end with it, and the two kinds of
\* station exclude each other: a late event never makes the device look for a
\* network it was told to leave.
TemporaryTimerOwned ==
  /\ wifi.temporary_connect_timer => wifi.temporary_station_enabled
  /\ ~(wifi.station_enabled /\ wifi.temporary_station_enabled)

\* The radio, its reconnect policy and its timers fit what is enabled, after any
\* sequence of calls and late events.
RadioServes == ModeServes /\ ReconnectOnlyWithoutAp /\ TemporaryTimerOwned

\* Automatic scans go on for as long as the station is enabled: a scan skipped,
\* refused or failed, or a station stopped and started, does not end them.
AutoScanScheduled == wifi.station_enabled => wifi.auto_scan_timer

\* A caller whose scan was started gets its results: no other scan takes the
\* callback from it.
UserScanAnswered == asked => wifi.scanning /\ wifi.scan_callback

\* Scans of both kinds come to their end, whatever comes between.
ScansGoOn == AutoScanScheduled /\ UserScanAnswered

\* When all events are in, the module knows whether the station is connected, also
\* when it was disabled and enabled again in between.
ConnectedTracksLink ==
  wifi.events = << >> => (wifi.station_connected <=> wifi.link = "up")

\* A scan makes the device leave its access point only when better_count automatic
\* scans in a row have found the same better one.  After one that begins with 0 any
\* other counts as the same: the code takes it for none (wifi.c:867).
JumpsToSteadyOnly ==
  [][wifi.scanning /\ ~wifi'.scanning /\ <<wifi'.link, wifi'.events>> # <<wifi.link, wifi.events>>
       => streak'.n >= BetterCount]_vars

================================================================================
