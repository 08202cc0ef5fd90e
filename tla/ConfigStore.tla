------------------------------- MODULE ConfigStore -------------------------------
(***************************************************************************)
(* The two configuration slots in flash (src/espgoodies/flashcfg.c), what  *)
(* is loaded from them at boot and saved to them (src/config.c and         *)
(* system_config_load of src/espgoodies/system.c), with power cuts and     *)
(* flash operations that fail.                                             *)
(*                                                                         *)
(* A sector is erased at once and its first page, which holds all the      *)
(* settings, is programmed at once.  Settings are one value.               *)
(***************************************************************************)
EXTENDS Integers

CONSTANTS
  Values,    \* settings other than the defaults
  Default,   \* zeros, read as the default settings
  Erased,    \* bytes of 0xFF
  Nothing    \* no save under way, nothing known to be saved

ASSUME StoreAssumption ==
  /\ Default \notin Values /\ Erased \notin Values \cup {Default}
  /\ Nothing \notin Values \cup {Default}

VARIABLES
  flash,   \* the sectors from FLASH_CONFIG_ADDR on
  ram,     \* the settings in use
  at,      \* where the program is
  slot, data, step,   \* the arguments of flashcfg_save, and how far it is
  kept     \* history: the settings saved last, unless a save was cut or failed
store_vars == <<flash, ram, at, slot, data, step, kept>>

Slots   == {"default", "system"}
Sectors == 0 .. 2

\* In sectors.
FLASH_CONFIG_SIZE(s) == IF s = "default" THEN 2 ELSE 1

FLASH_CONFIG_OFFS(s) == IF s = "default" THEN 0 ELSE 2

Settings == Values \cup {Default}
Places   == {"off", "check", "system_config_load", "config_init", "running"}

StoreInit ==
  /\ flash \in [Sectors -> {Erased}] \cup
              {[n \in Sectors |-> IF n = 0 THEN v ELSE Default] : v \in Settings}
  /\ ram = Default
  /\ at = "check"
  /\ slot = "default" /\ data = Nothing /\ step = 0
  /\ kept = Nothing

--------------------------------------------------------------------------------
(* flashcfg.c. *)

Saving == data # Nothing

\* The call; what follows are its steps.
flashcfg_save(s, d) ==
  /\ slot' = s /\ data' = d /\ step' = 0
  /\ kept' = IF s = "default" THEN Nothing ELSE kept

Return(new) ==
  /\ data' = Nothing /\ step' = 0
  /\ kept' = new

\* mutant: the sectors are written before they are erased
WrittenFirst(n, size) ==
  IF n < size THEN (IF n = 0 THEN data ELSE Default) ELSE Erased

\* What the n-th step makes of its sector: first all are erased, then all are written.
StepResult(n, size) ==
  IF n < size THEN Erased ELSE IF n = size THEN data ELSE Default

EraseOrWrite ==
  LET size   == FLASH_CONFIG_SIZE(slot)
      sector == FLASH_CONFIG_OFFS(slot) + (step % size)
  IN  /\ Saving /\ at # "off"
      /\ flash' = [flash EXCEPT ![sector] = StepResult(step, size)]
      /\ IF step + 1 < 2 * size
         THEN step' = step + 1 /\ UNCHANGED <<data, kept>>
         ELSE Return(IF slot = "default" THEN data ELSE kept)
      /\ UNCHANGED <<ram, at, slot>>

\* The result is FALSE, which no caller looks at.
FlashFails ==
  /\ Saving /\ at # "off"
  /\ Return(kept)
  /\ UNCHANGED <<flash, ram, at, slot>>

\* When reading fails, which no caller looks at, the buffer is still full of zeros.
flashcfg_load(s, ok) == IF ok THEN flash[FLASH_CONFIG_OFFS(s)] ELSE Default

--------------------------------------------------------------------------------
(* Boot. *)

\* mutant: settings are taken for an erased sector
AnythingErased(loaded) == TRUE

\* The first 32 bytes, which no setting uses, tell.
LooksErased(loaded) == loaded = Erased

\* system_check_reboot_loop may find a loop (module Boot).
CheckRebootLoop(loop) ==
  /\ at = "check" /\ ~Saving
  /\ at' = "system_config_load"
  /\ IF loop THEN flashcfg_save("default", Default)
     ELSE UNCHANGED <<slot, data, step, kept>>
  /\ UNCHANGED <<flash, ram>>

system_config_load(ok) ==
  /\ at = "system_config_load" /\ ~Saving
  /\ at' = "config_init"
  /\ IF LooksErased(flashcfg_load("system", ok)) THEN flashcfg_save("system", Default)
     ELSE UNCHANGED <<slot, data, step, kept>>
  /\ UNCHANGED <<flash, ram>>

config_init(ok) ==
  /\ at = "config_init" /\ ~Saving
  /\ at' = "running"
  /\ LET loaded == flashcfg_load("default", ok)
     IN  IF LooksErased(loaded)
         THEN ram' = Default /\ flashcfg_save("default", Default)
         ELSE ram' = loaded /\ UNCHANGED <<slot, data, step, kept>>
  /\ UNCHANGED flash

--------------------------------------------------------------------------------
(* Running. *)

\* api_patch_device: the attributes before a rejected one are set.
PatchDevice(v, valid) ==
  /\ at = "running" /\ ~Saving
  /\ ram' = v
  /\ IF valid THEN flashcfg_save("default", v) ELSE UNCHANGED <<slot, data, step, kept>>
  /\ UNCHANGED <<flash, at>>

\* The settings in use stay until the restart.
config_factory_reset ==
  /\ at = "running" /\ ~Saving
  /\ flashcfg_save("default", Default)
  /\ UNCHANGED <<flash, ram, at>>

Reboots ==
  /\ at' = "check" /\ ram' = Default
  /\ data' = Nothing /\ step' = 0
  /\ UNCHANGED <<flash, slot, kept>>

\* A watchdog, an exception or an external reset may come at any time; so may a cut.
Reboot == at # "off" /\ Reboots

PowerCut ==
  /\ at # "off" /\ at' = "off"
  /\ data' = Nothing /\ step' = 0
  /\ UNCHANGED <<flash, ram, slot, kept>>

PowerBack == at = "off" /\ Reboots

StoreNext ==
  \/ EraseOrWrite \/ FlashFails
  \/ \E b \in BOOLEAN : CheckRebootLoop(b) \/ system_config_load(b) \/ config_init(b)
  \/ \E v \in Settings, valid \in BOOLEAN : PatchDevice(v, valid)
  \/ config_factory_reset
  \/ Reboot \/ PowerCut \/ PowerBack

ConfigStoreSpec == StoreInit /\ [][StoreNext]_store_vars

--------------------------------------------------------------------------------
(* Properties. *)

StoreTypeOK ==
  /\ flash \in [Sectors -> Settings \cup {Erased}]
  /\ ram \in Settings
  /\ at \in Places
  /\ slot \in Slots /\ data \in Settings \cup {Nothing} /\ step \in 0 .. 3
  /\ kept \in Settings \cup {Nothing}

\* What config_init would load.
Stored ==
  LET loaded == flashcfg_load("default", TRUE)
  IN  IF LooksErased(loaded) THEN Default ELSE loaded

\* At every moment a boot finds the old settings, the new ones or the defaults,
\* whichever step of a save the power cut or the failure came after.
Store == INSTANCE Settings WITH
  stored  <- Stored,
  saving  <- IF Saving /\ slot = "default" THEN data ELSE Nothing,
  written <- Saving /\ slot = "default" /\ step > FLASH_CONFIG_SIZE("default")
StoreSpec == Store!Spec

\* Settings saved to the end are what is loaded from then on, through restarts, power
\* cuts and the boots they lead to, until others are saved.
SavedStays == kept # Nothing => Stored = kept

\* A save, cut or not, leaves the other slot as it is: the first two sectors are the
\* default slot's, the third is the system slot.
SlotsApart ==
  [][\A n \in Sectors :
       flash'[n] # flash[n] => slot = IF n = 2 THEN "system" ELSE "default"]_store_vars

================================================================================
