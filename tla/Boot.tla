---------------------------------- MODULE Boot ----------------------------------
(***************************************************************************)
(* Resets of every kind, and what the words of RTC memory tell the program *)
(* that starts after them: src/espgoodies/rtc.c, system_check_reboot_loop  *)
(* of src/espgoodies/system.c and src/espgoodies/sleep.c.  The sleep       *)
(* functions are the library's: an application calls sleep_init at boot    *)
(* and arms the timer of on_sleep.  RTC operations succeed; the count of   *)
(* boots, which nobody reads, is left out.  Module Device has the flash.   *)
(***************************************************************************)
EXTENDS Integers

CONSTANTS
  MAX_UNEXP_RESET_COUNT,
  MAX_SLEEP_DURATION,      \* seconds in a round of sleep
  WordLimit,               \* 1024: words of sleep from here on are invalid
  Intervals,               \* wake intervals of the application, in minutes
  Garbage,                 \* what a word of RTC memory may be at power-on
  MaxStreak                \* bound: unexpected resets in a row

ASSUME BootAssumption ==
  /\ MAX_UNEXP_RESET_COUNT \in Nat
  /\ MAX_SLEEP_DURATION \in Nat \ {0} /\ WordLimit \in Nat \ {0}
  /\ Intervals \subseteq Nat \ {0} /\ Garbage \subseteq Nat
  /\ MaxStreak \in Nat

\* SLEEP_WAKE_INTERVAL_MAX of sleep.h, a week, is 336 rounds: sleep_init takes the count
\* that on_sleep leaves for one.
ASSUME IntervalAssumption ==
  \A wake_interval \in Intervals :
    (wake_interval * 60) \div MAX_SLEEP_DURATION <= WordLimit

VARIABLES
  rtc,         \* the words: full boot test (magic or not), unexpected resets, sleep
  reason,      \* why the program was started last
  phase,       \* where it is
  full_boot,   \* RTC memory was not there before
  streak,      \* history: unexpected resets in a row
  wiped,       \* history: flashcfg_reset has returned since the streak began
  want, slept  \* history: seconds announced by on_sleep, and told to sleep for them
vars == <<rtc, reason, phase, full_boot, streak, wiped, want, slept>>

Reasons == {"power", "unexpected", "soft", "deep_sleep", "external"}
Phases  == {"off", "boot", "wiping", "sleep_init", "awake", "dozing", "asleep"}

Rtcs == [magic : BOOLEAN, unexp_reset_count : Nat, sleep_count : Nat, sleep_rem : Nat]

Init ==
  /\ rtc \in [magic : {FALSE}, unexp_reset_count : Garbage, sleep_count : Garbage,
              sleep_rem : Garbage]
  /\ reason = "power" /\ phase = "boot" /\ full_boot = TRUE
  /\ streak = 0 /\ wiped = FALSE /\ want = 0 /\ slept = 0

--------------------------------------------------------------------------------
(* user_init: rtc_init and system_check_reboot_loop. *)

\* What rtc_init finds out, before it writes the word.
FullBoot == ~rtc.magic

\* What system_check_reboot_loop reads; full: what rtc_init has just found out.
rtc_get_value(full) == IF full THEN 0 ELSE rtc.unexp_reset_count

\* mutant: one reset later
LaterLoop(full) ==
  reason = "unexpected" /\ rtc_get_value(full) > MAX_UNEXP_RESET_COUNT

RebootLoop(full) ==
  reason = "unexpected" /\ rtc_get_value(full) >= MAX_UNEXP_RESET_COUNT

\* mutant: a reset that was not unexpected leaves the count
CountKept(full) ==
  IF reason = "unexpected" THEN rtc_get_value(full) + 1 ELSE rtc_get_value(full)

NextCount(full) ==
  IF reason = "unexpected" THEN rtc_get_value(full) + 1 ELSE 0

system_check_reboot_loop ==
  /\ phase = "boot" /\ ~RebootLoop(FullBoot)
  /\ full_boot' = FullBoot
  /\ rtc' = [rtc EXCEPT !.magic = TRUE, !.unexp_reset_count = NextCount(FullBoot)]
  /\ phase' = "sleep_init"
  /\ UNCHANGED <<reason, streak, wiped, want, slept>>

\* rtc_init has written its word; the flash is erased and written, which takes time.
ResettingConfiguration ==
  /\ phase = "boot" /\ RebootLoop(FullBoot)
  /\ full_boot' = FullBoot
  /\ rtc' = [rtc EXCEPT !.magic = TRUE]
  /\ phase' = "wiping"
  /\ UNCHANGED <<reason, streak, wiped, want, slept>>

flashcfg_reset ==
  /\ phase = "wiping"
  /\ wiped' = TRUE
  /\ rtc' = [rtc EXCEPT !.unexp_reset_count = NextCount(full_boot)]
  /\ phase' = "sleep_init"
  /\ UNCHANGED <<reason, full_boot, streak, want, slept>>

--------------------------------------------------------------------------------
(* Sleep. *)

\* Counted until it is more than was announced.
SleepFor(seconds) ==
  /\ phase' = "asleep"
  /\ slept' = IF slept > want THEN slept ELSE slept + seconds

\* mutant: one round less than announced
TwoRounds == [rtc EXCEPT !.sleep_count = @ - 2]

\* mutant: the same round again
SameRound == rtc

NextRound == [rtc EXCEPT !.sleep_count = @ - 1]

\* At once, without the system's clean-up (system_deep_sleep_instant).
sleep_init ==
  LET sleep_count == IF full_boot THEN 0 ELSE rtc.sleep_count
      sleep_rem   == IF full_boot THEN 0 ELSE rtc.sleep_rem
      invalid     == sleep_count >= WordLimit \/ sleep_rem >= WordLimit
  IN  /\ phase = "sleep_init"
      /\ \/ /\ invalid \/ (sleep_count = 0 /\ sleep_rem = 0)
            /\ phase' = "awake"
            /\ UNCHANGED <<rtc, slept>>
         \/ /\ ~invalid /\ sleep_count > 0
            /\ rtc' = NextRound
            /\ SleepFor(MAX_SLEEP_DURATION)
         \/ /\ ~invalid /\ sleep_count = 0 /\ sleep_rem > 0
            /\ rtc' = [rtc EXCEPT !.sleep_rem = 0]
            /\ SleepFor(sleep_rem)
      /\ UNCHANGED <<reason, full_boot, streak, wiped, want>>

\* The program goes on for a moment after system_deep_sleep.
on_sleep(wake_interval) ==
  LET wake_interval_seconds == wake_interval * 60
      sleep_count           == wake_interval_seconds \div MAX_SLEEP_DURATION
      sleep_rem             == wake_interval_seconds % MAX_SLEEP_DURATION
  IN  /\ phase = "awake"
      /\ rtc' = [rtc EXCEPT !.sleep_count = IF sleep_count > 0 THEN sleep_count - 1 ELSE 0,
                            !.sleep_rem = IF sleep_count > 0 THEN sleep_rem ELSE 0]
      /\ want' = wake_interval_seconds
      /\ slept' = IF sleep_count > 0 THEN MAX_SLEEP_DURATION ELSE sleep_rem
      /\ phase' = "dozing"
      /\ UNCHANGED <<reason, full_boot, streak, wiped>>

FallAsleep ==
  /\ phase = "dozing" /\ phase' = "asleep"
  /\ UNCHANGED <<rtc, reason, full_boot, streak, wiped, want, slept>>

--------------------------------------------------------------------------------
(* Resets. *)

Restarts(why) ==
  /\ reason' = why /\ phase' = "boot"
  /\ streak' = IF why = "unexpected" THEN streak + 1 ELSE 0
  /\ wiped' = (wiped /\ why = "unexpected")
  /\ UNCHANGED <<full_boot, want, slept>>

WakeUp == phase = "asleep" /\ UNCHANGED rtc /\ Restarts("deep_sleep")

\* A watchdog or a fatal exception.
Crash ==
  /\ phase \in {"wiping", "sleep_init", "awake", "dozing"} /\ streak < MaxStreak
  /\ UNCHANGED rtc
  /\ Restarts("unexpected")

\* on_system_reset, or an allocation that fails: rtc_reset, then system_restart.
SoftRestart ==
  /\ phase \in {"wiping", "sleep_init", "awake", "dozing"}
  /\ rtc' = [rtc EXCEPT !.magic = FALSE]
  /\ Restarts("soft")

ExternalReset == phase # "off" /\ UNCHANGED rtc /\ Restarts("external")

PowerOff ==
  /\ phase # "off" /\ phase' = "off"
  /\ UNCHANGED <<rtc, reason, full_boot, streak, wiped, want, slept>>

PowerOn ==
  /\ phase = "off" /\ phase' = "boot" /\ reason' = "power"
  /\ rtc' \in [magic : {FALSE}, unexp_reset_count : Garbage, sleep_count : Garbage,
               sleep_rem : Garbage]
  /\ streak' = 0 /\ wiped' = FALSE /\ want' = 0 /\ slept' = 0
  /\ UNCHANGED <<full_boot>>

Next ==
  \/ system_check_reboot_loop \/ ResettingConfiguration \/ flashcfg_reset
  \/ sleep_init \/ FallAsleep \/ WakeUp
  \/ \E wake_interval \in Intervals : on_sleep(wake_interval)
  \/ Crash \/ SoftRestart \/ ExternalReset \/ PowerOff \/ PowerOn

Spec == Init /\ [][Next]_vars

\* The program boots, and the timer of a deep sleep ends it.
Fairness ==
  /\ WF_vars(system_check_reboot_loop) /\ WF_vars(ResettingConfiguration)
  /\ WF_vars(flashcfg_reset) /\ WF_vars(sleep_init) /\ WF_vars(WakeUp)

FairSpec == Spec /\ Fairness

--------------------------------------------------------------------------------
(* Properties. *)

TypeOK ==
  /\ rtc \in Rtcs /\ reason \in Reasons /\ phase \in Phases
  /\ full_boot \in BOOLEAN /\ streak \in 0 .. MaxStreak /\ wiped \in BOOLEAN
  /\ want \in Nat /\ slept \in Nat

\* Only a reboot loop costs the user the configuration: more unexpected resets in a
\* row than the maximum, with no intended restart, sleep or power-on in between, and
\* never the garbage that RTC memory holds at power-on.
WipedInLoopOnly ==
  [][phase # "wiping" /\ phase' = "wiping" => streak > MAX_UNEXP_RESET_COUNT]_vars

\* A configuration that may be what makes the device crash is gone once it got past
\* the check that many times, even if the first attempts to erase it were cut short.
LoopWipes ==
  phase \in {"sleep_init", "awake"} /\ streak > MAX_UNEXP_RESET_COUNT => wiped

\* A sleeping device wakes up: the rounds end, if it is left alone and has power.
Wakes ==
  <>[][~(Crash \/ SoftRestart \/ ExternalReset)]_vars
    => (phase = "asleep" ~> phase \in {"awake", "off"})

\* sleep.c:115, "about to sleep for a total of %d seconds": a device that its timer
\* woke up for good has slept that long, in as many rounds as it took, with resets in
\* between, unless the last round is one that sleep_init takes for invalid; and the
\* rounds never add up to more than that, as long as Garbage is nothing that
\* sleep_init takes for a count.
SleepsAsAnnounced ==
  /\ slept <= want
  /\ phase = "awake" /\ reason = "deep_sleep" /\ want % MAX_SLEEP_DURATION < WordLimit
    => slept = want

================================================================================
