--------------------------------- MODULE Device ---------------------------------
(***************************************************************************)
(* The device from reset to reset: modules Boot and ConfigStore put        *)
(* together in the order of user_init of src/user_main.c.  The reboot loop *)
(* check resets the configuration through the flash, step by step; a reset *)
(* of any kind, a sleep and a power cut stop whatever the program is       *)
(* doing, a save included, and the next boot loads what the flash holds.   *)
(*                                                                         *)
(* The application calls sleep_init after the check.                       *)
(***************************************************************************)
EXTENDS Boot, ConfigStore

VARIABLE failed   \* history: an operation of the flash failed since the boot
device_vars == <<vars, store_vars, failed>>

DeviceInit == Init /\ StoreInit /\ failed = FALSE

--------------------------------------------------------------------------------
(* Boot. *)

Check ==
  /\ \/ system_check_reboot_loop /\ CheckRebootLoop(FALSE)
     \/ ResettingConfiguration /\ CheckRebootLoop(TRUE)
  /\ UNCHANGED failed

\* The reset of the configuration is over when its save is.
Flash ==
  /\ \/ EraseOrWrite /\ UNCHANGED failed
     \/ FlashFails /\ failed' = TRUE
  /\ IF phase = "wiping" /\ data' = Nothing THEN flashcfg_reset ELSE UNCHANGED vars

Awake(action) == phase = "awake" /\ action /\ UNCHANGED <<vars, failed>>

SleepInit ==
  /\ sleep_init
  /\ IF phase' = "asleep" THEN PowerCut ELSE UNCHANGED store_vars
  /\ UNCHANGED failed

--------------------------------------------------------------------------------
(* Running. *)

Configure ==
  \/ \E v \in Settings, valid \in BOOLEAN : Awake(PatchDevice(v, valid))
  \/ Awake(config_factory_reset)

GoToSleep ==
  \/ /\ ~Saving /\ at = "running"
     /\ \E wake_interval \in Intervals : on_sleep(wake_interval)
     /\ UNCHANGED <<store_vars, failed>>
  \/ FallAsleep /\ PowerCut /\ UNCHANGED failed

\* The program starts again.
Start(reset) == reset /\ (Reboot \/ PowerBack) /\ failed' = FALSE

\* A restart of the program's own never comes in the middle of a save.
Reset ==
  \/ Start(Crash) \/ Start(ExternalReset)
  \/ (Saving => step = 0) /\ Start(SoftRestart)

WakeUpAgain == Start(WakeUp)

CutPower ==
  /\ PowerOff
  /\ PowerCut \/ (phase = "asleep" /\ UNCHANGED store_vars)
  /\ UNCHANGED failed

DeviceNext ==
  \/ Check \/ Flash \/ SleepInit
  \/ \E ok \in BOOLEAN : Awake(system_config_load(ok)) \/ Awake(config_init(ok))
  \/ Configure \/ GoToSleep
  \/ Reset \/ WakeUpAgain \/ Start(PowerOn) \/ CutPower

DeviceSpec == DeviceInit /\ [][DeviceNext]_device_vars

\* The program boots, operations of the flash end, and the timer of a deep sleep
\* ends it.
DeviceFairness ==
  /\ WF_device_vars(Check) /\ WF_device_vars(Flash) /\ WF_device_vars(SleepInit)
  /\ WF_device_vars(WakeUpAgain)

FairDeviceSpec == DeviceSpec /\ DeviceFairness

--------------------------------------------------------------------------------
(* Properties. *)

\* A device that keeps crashing is not started with the settings that may be the
\* reason: past the maximum of unexpected resets in a row it starts with the
\* defaults, unless the flash fails, even if resets cut the erasing short before.
StartsAfresh ==
  [][at' = "running" /\ at # "running" /\ streak > MAX_UNEXP_RESET_COUNT /\ ~failed
       => ram' = Default]_device_vars

\* Nothing but a user, or a reboot loop, makes a device give up settings that were
\* saved to the end: no other reset, no sleep, no power-on, no failed read of the
\* flash and no garbage in RTC memory.
KeptUnlessLoop ==
  [][kept # Nothing /\ kept' = Nothing
       => at = "running" \/ streak > MAX_UNEXP_RESET_COUNT]_device_vars

================================================================================
