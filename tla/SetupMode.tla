------------------------------- MODULE SetupMode -------------------------------
(***************************************************************************)
(* How the device finds its way to a network and back: the setup mode of   *)
(* src/espgoodies/system.c, the timers and callbacks of src/user_main.c,   *)
(* the task of src/core.c and the captive server of                        *)
(* src/espgoodies/dnsserver.c, on top of the Wi-Fi functions.  The statics *)
(* are one record, which a restart replaces.                               *)
(*                                                                         *)
(* Timers fire at any time after they are armed.  Around the device: a     *)
(* network that comes and goes, clients of its access point, a user with a *)
(* button and the API, and power cuts.                                     *)
(***************************************************************************)
EXTENDS Wifi, FiniteSets

CONSTANTS
  Clients,     \* stations that join the device's access point
  MaxOps,      \* bound: presses of the button, API calls and power cuts
  MaxMissed,   \* bound: clients that leave before they are given an address
  Nothing      \* no configuration was set

ASSUME SetupAssumption ==
  /\ IsFiniteSet(Clients)
  /\ MaxOps \in Nat /\ MaxMissed \in Nat
  /\ Nothing \notin Configs \cup {NoConfig}

VARIABLES
  dev,       \* the statics of the program, the pin of the button, the history
  clients,   \* the clients of the access point
  missed,    \* those that left it before they were given an address, counted
  network,   \* the configured network can be reached
  ops        \* what the user has done, counted
vars == <<dev, clients, missed, network, ops>>

\* What the user did last to the configuration: a factory reset, with what it found
\* set and not saved, or a PATCH, with what was saved before, and the power cut that
\* came before the restart or in the saving of it.
Histories ==
  [factory : {"none", "done", "booted"}, leftover : Configs \cup {NoConfig},
   patched : Configs \cup {NoConfig, Nothing}, before : Configs \cup {NoConfig},
   cut : {"no", "pending", "saving"}]

NoHistory ==
  [factory |-> "none", leftover |-> NoConfig,
   patched |-> Nothing, before |-> NoConfig, cut |-> "no"]

Devices ==
  [wifi : Wifis, ready : BOOLEAN, setup_mode : BOOLEAN,
   setup_mode_state : {"IDLE", "PRESSED", "TRIGGERED", "RESET"},
   elapsed : 0 .. 2,  \* button held: up to hold, up to reset_hold, longer
   setup_mode_ap_client_count : -MaxMissed .. Cardinality(Clients),
   connect_timer : BOOLEAN, idle_timer : BOOLEAN, reset_timer : BOOLEAN,
   first_connected : BOOLEAN, running : BOOLEAN, tasks : 0 .. 1,
   dns : {"stopped", "listening", "closed"},
   pin : BOOLEAN, history : Histories]

--------------------------------------------------------------------------------
(* Starting and restarting. *)

\* The timer is armed; the station is enabled when a network is configured.
main_init(d) ==
  LET w == ensure_station_config_read(d.wifi)
  IN  [d EXCEPT !.connect_timer = TRUE,
                !.wifi = IF w.cached = NoConfig THEN w ELSE wifi_station_enable(w)]

\* system_init comes before main_init: the pin of the button is not set yet when it
\* looks for a button that is active.
user_init(d, saved) ==
  main_init(
    [wifi |-> wifi_init(saved), ready |-> FALSE,
     setup_mode |-> FALSE, setup_mode_state |-> "IDLE", elapsed |-> 0,
     setup_mode_ap_client_count |-> 0,
     connect_timer |-> FALSE, idle_timer |-> FALSE, reset_timer |-> FALSE,
     first_connected |-> FALSE, running |-> FALSE, tasks |-> 0,
     dns |-> "stopped", pin |-> d.pin,
     history |-> [d.history EXCEPT !.factory = IF @ = "done" THEN "booted" ELSE @]])

\* mutant: the restart that ends setup mode or a delay does not save
RestartUnsaved(d) == user_init(d, d.wifi.saved)

on_system_reset(d) == user_init(d, wifi_save_config(d.wifi).saved)

core_start(d) ==
  IF d.running THEN d ELSE [d EXCEPT !.running = TRUE, !.tasks = @ + 1]

core_stop(d) == [d EXCEPT !.running = FALSE]

\* The callback of user_main.c stops the core and the listening of the TCP server;
\* requests on connections that are open still come.
system_reset(d, delayed) ==
  IF delayed THEN [core_stop(d) EXCEPT !.reset_timer = TRUE]
  ELSE on_system_reset(core_stop(d))

\* The button's or the API's.  config_factory_reset, which both call too, writes
\* another part of the flash.
FactoryReset(d) ==
  [d EXCEPT !.wifi = wifi_reset(@),
            !.history = [NoHistory EXCEPT
              !.factory = "done",
              !.leftover = IF d.wifi.cached_changed THEN d.wifi.cached ELSE NoConfig]]

--------------------------------------------------------------------------------
(* Setup mode. *)

\* With on_setup_mode of user_main.c, its callback.
system_setup_mode_toggle(d) ==
  IF d.setup_mode
  THEN system_reset([d EXCEPT !.idle_timer = FALSE], FALSE)
  ELSE [d EXCEPT !.setup_mode = TRUE, !.idle_timer = TRUE,
                 !.wifi = wifi_ap_enable(@),
                 !.dns = IF @ = "stopped" THEN "listening" ELSE @]

\* mutant: setup mode is not entered at start, whatever is configured
ReadyOnly(d) == [d EXCEPT !.ready = TRUE]

on_system_ready(d) ==
  LET r == [d EXCEPT !.ready = TRUE, !.wifi = ensure_station_config_read(@)]
  IN  IF r.wifi.cached = NoConfig /\ ~r.setup_mode
      THEN system_setup_mode_toggle(r)
      ELSE r

on_wifi_connect_timeout_setup_mode(d) ==
  LET fired == [d EXCEPT !.connect_timer = FALSE]
  IN  IF d.setup_mode THEN fired ELSE system_setup_mode_toggle(fired)

\* mutant: clients are not looked at
ClientsIgnored(d) ==
  IF d.setup_mode /\ ~d.wifi.station_connected THEN system_setup_mode_toggle(d) ELSE d

\* mutant: the idle timer is not a repeating one
IdleOnce(d) ==
  LET fired == [d EXCEPT !.idle_timer = FALSE]
  IN  IF d.setup_mode /\ ~d.wifi.station_connected /\ d.setup_mode_ap_client_count <= 0
      THEN system_setup_mode_toggle(fired)
      ELSE fired

on_setup_mode_idle_timeout(d) ==
  IF d.setup_mode /\ ~d.wifi.station_connected /\ d.setup_mode_ap_client_count <= 0
  THEN system_setup_mode_toggle(d)
  ELSE d

\* mutant: the timer is not armed again when the connection is lost
NotRearmed(d, connected) ==
  IF ~connected
  THEN d
  ELSE LET r == [d EXCEPT !.connect_timer = FALSE, !.first_connected = TRUE]
       IN  IF d.first_connected THEN r ELSE core_start(r)

\* mutant: the core is started with every connection, running or not
StartsAnyTime(d, connected) ==
  IF ~connected
  THEN [d EXCEPT !.connect_timer = TRUE]
  ELSE [d EXCEPT !.connect_timer = FALSE, !.first_connected = TRUE,
                 !.running = TRUE, !.tasks = @ + 1]

\* The automatic look-up for firmware it also starts is part of module Ota.
on_wifi_connect(d, connected) ==
  IF ~connected
  THEN [d EXCEPT !.connect_timer = TRUE]
  ELSE LET r == [d EXCEPT !.connect_timer = FALSE, !.first_connected = TRUE]
       IN  IF d.first_connected THEN r ELSE core_start(r)

on_setup_mode_ap_client(d, connected) ==
  [d EXCEPT !.setup_mode_ap_client_count = IF connected THEN @ + 1 ELSE @ - 1]

--------------------------------------------------------------------------------
(* The system task. *)

ReadButton(d) ==
  IF d.pin /\ d.setup_mode_state = "IDLE"
  THEN [d EXCEPT !.setup_mode_state = "PRESSED", !.elapsed = 0]
  ELSE IF ~d.pin /\ d.setup_mode_state # "IDLE"
  THEN [d EXCEPT !.setup_mode_state = "IDLE", !.elapsed = 0]
  ELSE d

update(d) ==
  LET triggered == [d EXCEPT !.setup_mode_state = "TRIGGERED"]
  IN  CASE d.setup_mode_state = "RESET" -> d
        [] d.setup_mode_state # "RESET" /\ d.elapsed = 2 ->
             system_reset([FactoryReset(d) EXCEPT !.setup_mode_state = "RESET"], TRUE)
        [] d.setup_mode_state = "PRESSED" /\ d.elapsed = 1 ->
             IF d.setup_mode THEN system_setup_mode_toggle(triggered)
             ELSE ReadButton(system_setup_mode_toggle(triggered))
        [] OTHER -> ReadButton(d)

core_task_handler(d) == [d EXCEPT !.tasks = IF d.running THEN @ ELSE @ - 1]

--------------------------------------------------------------------------------
(* Steps of the device. *)

\* The access point and its clients go with a restart.
Becomes(d) ==
  /\ dev' = d
  /\ clients' = IF d.wifi.ap_enabled THEN clients ELSE [c \in Clients |-> "away"]
  /\ missed' = IF d.wifi.ap_enabled THEN missed ELSE 0

Do(d) == Becomes(d) /\ UNCHANGED <<network, ops>>

SystemReady    == ~dev.ready /\ Do(on_system_ready(dev))
Update         == Do(update(dev))
CoreTask       == dev.tasks > 0 /\ Do(core_task_handler(dev))
ConnectTimeout == dev.connect_timer /\ Do(on_wifi_connect_timeout_setup_mode(dev))
IdleTimeout    == dev.idle_timer /\ Do(on_setup_mode_idle_timeout(dev))
ResetTimeout   == dev.reset_timer /\ Do(on_system_reset(dev))

AutoScan(weak) ==
  /\ dev.wifi.auto_scan_timer
  /\ Do([dev EXCEPT !.wifi = on_auto_scan(@, weak, FALSE)])

ScanDone(ok) ==
  /\ dev.wifi.scanning
  /\ Do([dev EXCEPT !.wifi = on_wifi_scan_done(@, ok, NoBssid)])

\* The callback of the application first, then the rest of on_wifi_event.
GotIp ==
  /\ dev.wifi.events # << >> /\ Head(dev.wifi.events) = "got_ip"
  /\ LET w == [dev.wifi EXCEPT !.events = Tail(@)]
     IN  Do([IF ToldConnected(w) THEN on_wifi_connect(dev, TRUE) ELSE dev
               EXCEPT !.wifi = on_got_ip(w)])

Disconnected ==
  /\ dev.wifi.events # << >> /\ Head(dev.wifi.events) = "disconnected"
  /\ LET w == [dev.wifi EXCEPT !.events = Tail(@)]
     IN  Do([IF ToldDisconnected(w) THEN on_wifi_connect(dev, FALSE) ELSE dev
               EXCEPT !.wifi = on_disconnected(w, FALSE)])

\* Invalid: of a wrong size, or no query.  Any other packet is answered, and the
\* server listens for the next one.
process_request(invalid) ==
  /\ dev.dns = "listening"
  /\ Do([dev EXCEPT !.dns = IF invalid THEN "closed" ELSE "listening"])

--------------------------------------------------------------------------------
(* The network and the clients. *)

SdkDo(w) == Do([dev EXCEPT !.wifi = w])

Attempt ==
  /\ dev.wifi.link = "idle" /\ dev.wifi.reconnect /\ dev.wifi.station_enabled
  /\ dev.wifi.events = << >>
  /\ SdkDo(wifi_station_connect(dev.wifi))

LinkUp ==
  /\ dev.wifi.link = "connecting" /\ network /\ dev.wifi.events = << >>
  /\ SdkDo([dev.wifi EXCEPT !.link = "up", !.events = Append(@, "got_ip")])

LinkDown ==
  /\ dev.wifi.link # "idle" /\ dev.wifi.events = << >>
  /\ SdkDo(wifi_station_disconnect(dev.wifi))

NetworkChanges ==
  /\ network' = ~network
  /\ network => dev.wifi.link # "up"
  /\ UNCHANGED <<dev, clients, missed, ops>>

ClientJoins(c) ==
  /\ dev.wifi.ap_enabled /\ clients[c] = "away"
  /\ dev' = [dev EXCEPT !.wifi = on_ap_client_connected(@)]
  /\ clients' = [clients EXCEPT ![c] = "joined"]
  /\ UNCHANGED <<missed, network, ops>>

ClientGetsIp(c) ==
  /\ clients[c] = "joined"
  /\ dev' = on_setup_mode_ap_client(dev, TRUE)
  /\ clients' = [clients EXCEPT ![c] = "leased"]
  /\ UNCHANGED <<missed, network, ops>>

\* With an address or, before it was given one, without.
ClientLeaves(c) ==
  /\ \/ clients[c] = "leased" /\ UNCHANGED missed
     \/ clients[c] = "joined" /\ missed < MaxMissed /\ missed' = missed + 1
  /\ dev' = on_setup_mode_ap_client(dev, FALSE)
  /\ clients' = [clients EXCEPT ![c] = "away"]
  /\ UNCHANGED <<network, ops>>

--------------------------------------------------------------------------------
(* The user. *)

UserDoes(d) ==
  /\ ops < MaxOps /\ ops' = ops + 1
  /\ Becomes(d)
  /\ UNCHANGED network

Press == ~dev.pin /\ UserDoes([dev EXCEPT !.pin = TRUE])

Release ==
  dev.pin /\ Do([dev EXCEPT !.pin = FALSE])

TimePasses ==
  /\ dev.pin /\ dev.setup_mode_state # "IDLE" /\ dev.elapsed < 2
  /\ Do([dev EXCEPT !.elapsed = @ + 1])

\* The API is reached through either network.
Reached == dev.wifi.station_connected \/ \E c \in Clients : clients[c] # "away"

\* api_patch_device with Wi-Fi attributes; an attribute further on may be refused.
PatchDevice(c, valid) ==
  LET set == [dev EXCEPT
                !.wifi = wifi_set(@, c),
                !.history = [NoHistory EXCEPT !.patched = c, !.before = dev.wifi.saved]]
  IN  /\ Reached
      /\ c = NoConfig => dev.wifi.cached = NoConfig   \* validate_wifi_ssid
      /\ UserDoes(IF valid THEN system_reset(set, TRUE) ELSE set)

PostReset(factory) ==
  /\ Reached
  /\ UserDoes(system_reset(IF factory THEN FactoryReset(dev) ELSE dev, TRUE))

GetWifi ==
  Reached /\ Do([dev EXCEPT !.wifi = wifi_scan(@, TRUE, FALSE)])

\* A power cut in wifi_save_config, after system_restore, leaves no configuration.
PowerCut(saving) ==
  LET cut == IF dev.wifi.cached_changed /\ dev.history.patched # Nothing
             THEN [dev EXCEPT !.history.cut = IF saving THEN "saving" ELSE "pending"]
             ELSE dev
  IN  /\ saving => dev.wifi.cached_changed
      /\ UserDoes(user_init(cut, IF saving THEN NoConfig ELSE dev.wifi.saved))

--------------------------------------------------------------------------------
Init ==
  /\ \E saved \in Configs \cup {NoConfig} :
       dev = user_init([pin |-> FALSE, history |-> NoHistory], saved)
  /\ clients = [c \in Clients |-> "away"] /\ missed = 0
  /\ network \in BOOLEAN
  /\ ops = 0

Next ==
  \/ SystemReady \/ Update \/ CoreTask \/ ConnectTimeout \/ IdleTimeout \/ ResetTimeout
  \/ \E weak \in BOOLEAN : AutoScan(weak)
  \/ \E ok \in BOOLEAN : ScanDone(ok)
  \/ GotIp \/ Disconnected
  \/ \E invalid \in BOOLEAN : process_request(invalid)
  \/ Attempt \/ LinkUp \/ LinkDown \/ NetworkChanges
  \/ \E c \in Clients : ClientJoins(c) \/ ClientGetsIp(c) \/ ClientLeaves(c)
  \/ Press \/ Release \/ TimePasses
  \/ \E c \in Configs \cup {NoConfig}, valid \in BOOLEAN : PatchDevice(c, valid)
  \/ \E factory \in BOOLEAN : PostReset(factory)
  \/ GetWifi
  \/ \E saving \in BOOLEAN : PowerCut(saving)

Spec == Init /\ [][Next]_vars

\* Tasks, timers and callbacks run; the SDK tries to reconnect when told to, and an
\* attempt that can succeed does so in the end.  Restarts are minutes apart, so that
\* the event of a connection is not lost in one again and again.
Fairness ==
  /\ WF_vars(SystemReady) /\ WF_vars(Attempt)
  /\ WF_vars(ConnectTimeout) /\ WF_vars(IdleTimeout) /\ WF_vars(ResetTimeout)
  /\ WF_vars(Disconnected) /\ SF_vars(LinkUp) /\ SF_vars(GotIp)

FairSpec == Spec /\ Fairness

--------------------------------------------------------------------------------
(* Properties. *)

TypeOK ==
  /\ dev \in Devices
  /\ clients \in [Clients -> {"away", "joined", "leased"}]
  /\ missed \in 0 .. MaxMissed
  /\ network \in BOOLEAN /\ ops \in 0 .. MaxOps

\* A device that is neither connected nor in setup mode has the timer armed that
\* takes it to setup mode, whatever became of the connection (user_main.c:167).
ConnectWatched ==
  ~dev.setup_mode /\ ~dev.wifi.station_connected => dev.connect_timer

\* A device that can be reached by no network it knows of offers one of its own,
\* with its DNS server, and the timer armed that ends it.
SetupModeServes ==
  /\ dev.ready /\ ~dev.wifi.station_enabled => dev.setup_mode
  /\ dev.setup_mode <=> dev.wifi.ap_enabled
  /\ dev.setup_mode <=> dev.dns # "stopped"
  /\ dev.setup_mode => dev.idle_timer

\* The user has a way to the device, now or when a timer fires: over the network or
\* over the device's own.
Reachable == ConnectWatched /\ SetupModeServes

\* The core task is in the queue once while it runs; never twice.
OneCoreTask == dev.running => dev.tasks = 1

\* The configuration set by a PATCH, answered 204 or refused for an attribute further
\* on, is the one the device will start with: every way to the restart saves it.  Only
\* a power cut before that loses it: the device starts with what was saved before, or
\* with nothing when the cut came in the saving.
PatchKept ==
  LET h == dev.history
  IN  h.patched # Nothing
        => CASE h.cut = "no"      -> \/ dev.wifi.saved = h.patched
                                     \/ /\ dev.wifi.cached = h.patched
                                        /\ dev.wifi.cached_changed
             [] h.cut = "pending" -> dev.wifi.saved = h.before
             [] h.cut = "saving"  -> dev.wifi.saved = NoConfig

\* While the network is there and nobody uses the access point, a configured device
\* is connected again and again, from whatever state a lost network, a timeout or
\* the user left it in.
Reconnects ==
  <>[](network /\ dev.wifi.saved # NoConfig /\ \A c \in Clients : clients[c] = "away")
    => []<>dev.wifi.station_connected

\* The comment at user_main.c:144, "Don't reset if AP has clients", and how far the
\* count bears it out: the device restarts under no more clients with an address than
\* have left without one, each of which hides another; under none if none has.
IdleSparesClients ==
  [][dev.idle_timer /\ dev' = on_setup_mode_idle_timeout(dev) /\ dev' # dev
       => Cardinality({c \in Clients : clients[c] = "leased"}) <= missed]_vars

\* system.c:437, "resetting to factory defaults": after the restart there is no
\* network configured, but for one that was set and not saved before, which the
\* restart still saves; by the API or the button, with restarts, timeouts and power
\* cuts in between.
FactoryResetSticks ==
  dev.history.factory = "booted" => dev.wifi.saved \in {NoConfig, dev.history.leftover}

\* What the user did last to the configuration is what the device starts with.
UserHonoured == PatchKept /\ FactoryResetSticks

================================================================================
