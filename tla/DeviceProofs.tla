------------------------------ MODULE DeviceProofs ------------------------------
(* Theorems about Boot, about the configuration store, for any settings, and about *)
(* Device: it implements both of its parts, so that their theorems are its own,    *)
(* and what holds between them.                                                    *)
EXTENDS Device, TLAPS

--------------------------------------------------------------------------------
(* The inductive invariant: between boots the word in RTC memory counts the      *)
(* streak, except for boots that did not survive the reset of the configuration, *)
(* which only a word at the maximum leads to.                                    *)

Unexp == rtc.unexp_reset_count

BootCount ==
  phase = "boot" =>
    IF reason = "unexpected"
    THEN /\ rtc.magic /\ Unexp + 1 <= streak
         /\ Unexp + 1 >= streak \/ Unexp >= MAX_UNEXP_RESET_COUNT
    ELSE streak = 0

WipingCount ==
  phase = "wiping" =>
    /\ rtc.magic /\ reason = "unexpected" /\ ~full_boot
    /\ Unexp + 1 <= streak /\ Unexp >= MAX_UNEXP_RESET_COUNT

RunningCount ==
  phase \in {"sleep_init", "awake", "dozing"} =>
    /\ rtc.magic /\ Unexp <= streak
    /\ Unexp >= streak \/ Unexp >= MAX_UNEXP_RESET_COUNT

IInv == TypeOK /\ BootCount /\ WipingCount /\ RunningCount /\ LoopWipes

\* The words of RTC memory have their types after any of the updates.
LEMMA WordsTyped ==
  ASSUME rtc \in Rtcs,
         NEW m \in BOOLEAN, NEW n \in Nat, NEW c \in Nat, NEW r \in Nat
  PROVE  /\ [rtc EXCEPT !.magic = m] \in Rtcs
         /\ [rtc EXCEPT !.magic = TRUE, !.unexp_reset_count = n] \in Rtcs
         /\ [rtc EXCEPT !.unexp_reset_count = n] \in Rtcs
         /\ [rtc EXCEPT !.sleep_count = c] \in Rtcs
         /\ [rtc EXCEPT !.sleep_rem = r] \in Rtcs
         /\ [rtc EXCEPT !.sleep_count = c, !.sleep_rem = r] \in Rtcs
BY DEF Rtcs

LEMMA CountTyped ==
  ASSUME TypeOK, NEW full \in BOOLEAN
  PROVE  NextCount(full) \in Nat
BY DEF TypeOK, Rtcs, NextCount, rtc_get_value

LEMMA InitIInv == Init => IInv
<1> SUFFICES ASSUME Init PROVE IInv
  OBVIOUS
<1>1. rtc \in Rtcs
  BY BootAssumption DEF Init, Rtcs
<1>2. TypeOK
  <2>1. /\ reason = "power" /\ phase = "boot" /\ full_boot = TRUE
        /\ streak = 0 /\ wiped = FALSE /\ want = 0 /\ slept = 0
    BY DEF Init
  <2>2. reason \in Reasons /\ phase \in Phases
    BY <2>1 DEF Reasons, Phases
  <2>3. streak \in 0 .. MaxStreak /\ want \in Nat /\ slept \in Nat
    BY <2>1, BootAssumption
  <2> QED BY <1>1, <2>1, <2>2, <2>3 DEF TypeOK
<1> QED
  BY <1>2 DEF Init, IInv, BootCount, WipingCount, RunningCount, LoopWipes

\* A reset of any kind, but one at power-on.
LEMMA RestartIInv ==
  ASSUME IInv, NEW why \in Reasons, Restarts(why), rtc' \in Rtcs,
         why = "unexpected"
           => /\ phase \in {"wiping", "sleep_init", "awake", "dozing"}
              /\ streak < MaxStreak /\ rtc' = rtc
  PROVE  IInv'
<1>1. /\ reason' = why /\ phase' = "boot"
      /\ streak' = IF why = "unexpected" THEN streak + 1 ELSE 0
      /\ wiped' = (wiped /\ why = "unexpected")
      /\ UNCHANGED <<full_boot, want, slept>>
  BY DEF Restarts
<1>2. TypeOK'
  BY <1>1, BootAssumption DEF IInv, TypeOK, Phases
<1>3. BootCount'
  <2>1. CASE why = "unexpected"
    <3>1. rtc.magic /\ Unexp <= streak
      BY <2>1, BootAssumption
        DEF IInv, TypeOK, Rtcs, Unexp, WipingCount, RunningCount
    <3>2. Unexp >= streak \/ Unexp >= MAX_UNEXP_RESET_COUNT
      BY <2>1 DEF IInv, WipingCount, RunningCount
    <3>3. rtc' = rtc /\ streak' = streak + 1 /\ reason' = "unexpected"
      BY <1>1, <2>1
    <3>4. Unexp \in Nat /\ streak \in Nat
      BY DEF IInv, TypeOK, Rtcs, Unexp
    <3> QED BY <3>1, <3>2, <3>3, <3>4 DEF BootCount, Unexp
  <2>2. CASE why # "unexpected"
    BY <1>1, <2>2 DEF BootCount
  <2> QED BY <2>1, <2>2
<1>4. WipingCount' /\ RunningCount' /\ LoopWipes'
  BY <1>1 DEF WipingCount, RunningCount, LoopWipes
<1> QED BY <1>2, <1>3, <1>4 DEF IInv

LEMMA CheckIInv == IInv /\ system_check_reboot_loop => IInv'
<1> SUFFICES ASSUME IInv, system_check_reboot_loop PROVE IInv'
  OBVIOUS
<1>1. /\ phase = "boot" /\ ~RebootLoop(FullBoot)
      /\ full_boot' = FullBoot /\ phase' = "sleep_init"
      /\ rtc' = [rtc EXCEPT !.magic = TRUE,
                            !.unexp_reset_count = NextCount(FullBoot)]
      /\ UNCHANGED <<reason, streak, wiped, want, slept>>
  BY DEF system_check_reboot_loop
<1>2. /\ rtc \in Rtcs /\ rtc.magic \in BOOLEAN /\ FullBoot \in BOOLEAN
      /\ Unexp \in Nat /\ streak \in Nat
  BY DEF IInv, TypeOK, Rtcs, Unexp, FullBoot
<1>3. NextCount(FullBoot) \in Nat
  BY <1>2, CountTyped DEF IInv
<1>4. rtc' \in Rtcs
  BY <1>1, <1>2, <1>3, WordsTyped
<1>5. TypeOK'
  BY <1>1, <1>2, <1>4 DEF IInv, TypeOK, Phases
<1>6. rtc'.magic /\ Unexp' = NextCount(FullBoot)
  BY <1>1, <1>2 DEF Rtcs, Unexp
<1>7. CASE reason = "unexpected"
  <2>1. Unexp' = Unexp + 1 /\ Unexp < MAX_UNEXP_RESET_COUNT
    BY <1>1, <1>2, <1>6, <1>7, BootAssumption
      DEF IInv, BootCount, NextCount, rtc_get_value, RebootLoop, Unexp, FullBoot
  <2>2. Unexp + 1 <= streak /\ Unexp + 1 >= streak
    BY <1>1, <1>2, <1>7, <2>1, BootAssumption DEF IInv, BootCount
  <2>3. streak' = streak /\ ~(streak > MAX_UNEXP_RESET_COUNT)
    BY <1>1, <1>2, <2>1, <2>2, BootAssumption
  <2>4. RunningCount'
    BY <1>6, <2>1, <2>2, <2>3 DEF RunningCount
  <2>5. BootCount' /\ WipingCount' /\ LoopWipes'
    BY <1>1, <2>3 DEF BootCount, WipingCount, LoopWipes
  <2> QED BY <1>5, <2>4, <2>5 DEF IInv
<1>8. CASE reason # "unexpected"
  <2>1. streak' = 0 /\ Unexp' = 0
    BY <1>1, <1>6, <1>8 DEF IInv, BootCount, NextCount
  <2>2. RunningCount' /\ LoopWipes'
    BY <1>6, <2>1, BootAssumption DEF RunningCount, LoopWipes
  <2>3. BootCount' /\ WipingCount'
    BY <1>1 DEF BootCount, WipingCount
  <2> QED BY <1>5, <2>2, <2>3 DEF IInv
<1> QED BY <1>7, <1>8

LEMMA ResettingIInv == IInv /\ ResettingConfiguration => IInv'
<1> SUFFICES ASSUME IInv, ResettingConfiguration PROVE IInv'
  OBVIOUS
<1>1. /\ phase = "boot" /\ RebootLoop(FullBoot)
      /\ full_boot' = FullBoot /\ phase' = "wiping"
      /\ rtc' = [rtc EXCEPT !.magic = TRUE]
      /\ UNCHANGED <<reason, streak, wiped, want, slept>>
  BY DEF ResettingConfiguration
<1>2. rtc \in Rtcs /\ rtc.magic \in BOOLEAN /\ FullBoot \in BOOLEAN
  BY DEF IInv, TypeOK, Rtcs, FullBoot
<1>3. rtc' \in Rtcs /\ rtc'.magic /\ Unexp' = Unexp
  BY <1>1, <1>2 DEF Rtcs, Unexp
<1>4. TypeOK'
  BY <1>1, <1>2, <1>3 DEF IInv, TypeOK, Phases
<1>5. reason = "unexpected"
  BY <1>1 DEF RebootLoop
<1>6. rtc.magic /\ Unexp + 1 <= streak /\ Unexp >= MAX_UNEXP_RESET_COUNT
  BY <1>1, <1>5 DEF IInv, BootCount, RebootLoop, rtc_get_value, Unexp, FullBoot
<1>7. WipingCount'
  <2>1. ~full_boot' /\ reason' = "unexpected" /\ streak' = streak
    BY <1>1, <1>5, <1>6 DEF FullBoot
  <2> QED BY <1>3, <1>6, <2>1 DEF WipingCount
<1>8. BootCount' /\ RunningCount' /\ LoopWipes'
  BY <1>1 DEF BootCount, RunningCount, LoopWipes
<1> QED BY <1>4, <1>7, <1>8 DEF IInv

LEMMA WipeIInv == IInv /\ flashcfg_reset => IInv'
<1> SUFFICES ASSUME IInv, flashcfg_reset PROVE IInv'
  OBVIOUS
<1>1. /\ phase = "wiping" /\ wiped' = TRUE
      /\ rtc' = [rtc EXCEPT !.unexp_reset_count = NextCount(full_boot)]
      /\ phase' = "sleep_init"
      /\ UNCHANGED <<reason, full_boot, streak, want, slept>>
  BY DEF flashcfg_reset
<1>2. rtc \in Rtcs /\ Unexp \in Nat /\ streak \in Nat /\ full_boot \in BOOLEAN
  BY DEF IInv, TypeOK, Rtcs, Unexp
<1>3. NextCount(full_boot) \in Nat
  BY <1>2, CountTyped DEF IInv
<1>4. rtc' \in Rtcs
  BY <1>1, <1>2, <1>3, WordsTyped
<1>5. TypeOK'
  BY <1>1, <1>2, <1>4 DEF IInv, TypeOK, Phases
<1>6. rtc'.magic /\ Unexp' = Unexp + 1
  BY <1>1, <1>2 DEF IInv, WipingCount, Rtcs, Unexp, NextCount, rtc_get_value
<1>7. Unexp + 1 <= streak /\ Unexp >= MAX_UNEXP_RESET_COUNT
  BY <1>1 DEF IInv, WipingCount
<1>8. RunningCount'
  BY <1>1, <1>2, <1>6, <1>7, BootAssumption DEF RunningCount
<1>9. BootCount' /\ WipingCount' /\ LoopWipes'
  BY <1>1 DEF BootCount, WipingCount, LoopWipes
<1> QED BY <1>5, <1>8, <1>9 DEF IInv

\* The words of the reboot counter are not those of sleep.
LEMMA SleepIInv ==
  ASSUME IInv, rtc' \in Rtcs, rtc'.magic = rtc.magic, Unexp' = Unexp,
         phase' \in {"awake", "dozing", "asleep"},
         phase \in {"sleep_init", "awake", "dozing"},
         phase = "dozing" => phase' = "asleep",
         want' \in Nat, slept' \in Nat,
         UNCHANGED <<reason, full_boot, streak, wiped>>
  PROVE  IInv'
<1>1. TypeOK'
  BY DEF IInv, TypeOK, Phases
<1>2. BootCount' /\ WipingCount' /\ RunningCount'
  BY DEF IInv, BootCount, WipingCount, RunningCount
<1>3. LoopWipes'
  BY DEF IInv, LoopWipes
<1> QED BY <1>1, <1>2, <1>3 DEF IInv

LEMMA SleepInitIInv == IInv /\ sleep_init => IInv'
<1> SUFFICES ASSUME IInv, sleep_init PROVE IInv'
  OBVIOUS
<1>1. /\ phase = "sleep_init" /\ UNCHANGED <<reason, full_boot, streak, wiped, want>>
      /\ phase' \in {"awake", "asleep"}
  BY DEF sleep_init, SleepFor
<1>2. rtc \in Rtcs /\ want \in Nat /\ slept \in Nat
  BY DEF IInv, TypeOK
<1>3. /\ rtc' \in Rtcs /\ rtc'.magic = rtc.magic /\ Unexp' = Unexp
      /\ slept' \in Nat
  <2>1. CASE UNCHANGED <<rtc, slept>>
    BY <1>2, <2>1 DEF Unexp
  <2>2. CASE rtc.sleep_count > 0 /\ rtc' = NextRound /\ SleepFor(MAX_SLEEP_DURATION)
    <3>1. rtc.sleep_count - 1 \in Nat
      BY <1>2, <2>2 DEF Rtcs
    <3>2. rtc' = [rtc EXCEPT !.sleep_count = rtc.sleep_count - 1]
      BY <2>2 DEF NextRound
    <3>3. rtc' \in Rtcs /\ rtc'.magic = rtc.magic /\ Unexp' = Unexp
      BY <1>2, <3>1, <3>2 DEF Rtcs, Unexp
    <3>4. slept' \in Nat
      BY <1>2, <2>2, BootAssumption DEF SleepFor
    <3> QED BY <3>3, <3>4
  <2>3. CASE rtc' = [rtc EXCEPT !.sleep_rem = 0] /\ SleepFor(rtc.sleep_rem)
    <3>1. rtc' \in Rtcs /\ rtc'.magic = rtc.magic /\ Unexp' = Unexp
      BY <1>2, <2>3 DEF Rtcs, Unexp
    <3>2. slept' \in Nat
      BY <1>2, <2>3 DEF SleepFor, Rtcs
    <3> QED BY <3>1, <3>2
  <2> QED BY <1>2, <2>1, <2>2, <2>3 DEF sleep_init
<1> QED BY <1>1, <1>2, <1>3, SleepIInv

LEMMA OnSleepIInv ==
  ASSUME IInv, NEW wake_interval \in Intervals, on_sleep(wake_interval)
  PROVE  IInv'
<1> DEFINE seconds == wake_interval * 60
           rounds == seconds \div MAX_SLEEP_DURATION
           rem == seconds % MAX_SLEEP_DURATION
<1>1. seconds \in Nat
  BY BootAssumption
<1>2. rounds \in Nat /\ rem \in Nat
  <2> HIDE DEF seconds
  <2> QED BY <1>1, BootAssumption
<1>3. /\ phase = "awake" /\ phase' = "dozing"
      /\ rtc' = [rtc EXCEPT !.sleep_count = IF rounds > 0 THEN rounds - 1 ELSE 0,
                            !.sleep_rem = IF rounds > 0 THEN rem ELSE 0]
      /\ want' = seconds
      /\ slept' = IF rounds > 0 THEN MAX_SLEEP_DURATION ELSE rem
      /\ UNCHANGED <<reason, full_boot, streak, wiped>>
  BY DEF on_sleep
<1> HIDE DEF rounds, rem, seconds
<1>4. (IF rounds > 0 THEN rounds - 1 ELSE 0) \in Nat /\ (IF rounds > 0 THEN rem ELSE 0) \in Nat
  BY <1>2
<1>5. rtc \in Rtcs
  BY DEF IInv, TypeOK
<1>6. rtc' \in Rtcs
  BY <1>3, <1>4, <1>5, WordsTyped
<1>7. rtc'.magic = rtc.magic /\ Unexp' = Unexp
  BY <1>3, <1>5 DEF Rtcs, Unexp
<1>8. want' \in Nat /\ slept' \in Nat
  BY <1>1, <1>2, <1>3, BootAssumption
<1> QED BY <1>3, <1>6, <1>7, <1>8, SleepIInv

LEMMA NextIInv == IInv /\ [Next]_vars => IInv'
<1> SUFFICES ASSUME IInv, [Next]_vars PROVE IInv'
  OBVIOUS
<1>0. rtc \in Rtcs /\ rtc.magic \in BOOLEAN /\ want \in Nat /\ slept \in Nat
  BY DEF IInv, TypeOK, Rtcs
<1>1. CASE system_check_reboot_loop
  BY <1>1, CheckIInv
<1>2. CASE ResettingConfiguration
  BY <1>2, ResettingIInv
<1>3. CASE flashcfg_reset
  BY <1>3, WipeIInv
<1>4. CASE sleep_init
  BY <1>4, SleepInitIInv
<1>5. CASE FallAsleep
  BY <1>0, <1>5, SleepIInv DEF FallAsleep, Unexp
<1>6. CASE WakeUp
  BY <1>0, <1>6, RestartIInv DEF WakeUp, Reasons
<1>7. ASSUME NEW wake_interval \in Intervals, on_sleep(wake_interval) PROVE IInv'
  BY <1>7, OnSleepIInv
<1>8. CASE Crash
  BY <1>0, <1>8, RestartIInv DEF Crash, Reasons
<1>9. CASE SoftRestart
  <2>1. rtc' \in Rtcs
    BY <1>0, <1>9 DEF SoftRestart, Rtcs
  <2> QED BY <1>9, <2>1, RestartIInv DEF SoftRestart, Reasons
<1>10. CASE ExternalReset
  BY <1>0, <1>10, RestartIInv DEF ExternalReset, Reasons
<1>11. CASE PowerOff
  <2>1. TypeOK'
    BY <1>11 DEF PowerOff, IInv, TypeOK, Phases
  <2>2. BootCount' /\ WipingCount' /\ RunningCount' /\ LoopWipes'
    BY <1>11 DEF PowerOff, BootCount, WipingCount, RunningCount, LoopWipes
  <2> QED BY <2>1, <2>2 DEF IInv
<1>12. CASE PowerOn
  <2>1. rtc' \in Rtcs
    BY <1>12, BootAssumption DEF PowerOn, Rtcs
  <2>2. TypeOK'
    <3>1. /\ reason' = "power" /\ phase' = "boot" /\ full_boot' = full_boot
          /\ streak' = 0 /\ wiped' = FALSE /\ want' = 0 /\ slept' = 0
      BY <1>12 DEF PowerOn
    <3>2. reason' \in Reasons /\ phase' \in Phases
      BY <3>1 DEF Reasons, Phases
    <3>3. streak' \in 0 .. MaxStreak /\ want' \in Nat /\ slept' \in Nat
      BY <3>1, BootAssumption
    <3> QED BY <2>1, <3>1, <3>2, <3>3 DEF IInv, TypeOK
  <2>3. BootCount' /\ WipingCount' /\ RunningCount' /\ LoopWipes'
    BY <1>12 DEF PowerOn, BootCount, WipingCount, RunningCount, LoopWipes
  <2> QED BY <2>2, <2>3 DEF IInv
<1>13. CASE UNCHANGED vars
  BY <1>13 DEF vars, IInv, TypeOK, BootCount, WipingCount, RunningCount, LoopWipes, Unexp
<1> QED
  BY <1>1, <1>2, <1>3, <1>4, <1>5, <1>6, <1>7, <1>8, <1>9, <1>10, <1>11, <1>12,
     <1>13 DEF Next

THEOREM Invariance == Spec => []IInv
BY InitIInv, NextIInv, PTL DEF Spec

--------------------------------------------------------------------------------

\* Every variable keeps to its type.
THEOREM TypeCorrect == Spec => []TypeOK
<1>1. IInv => TypeOK
  BY DEF IInv
<1> QED BY <1>1, Invariance, PTL

\* In a reboot loop the configuration is given up (system.c:297), even when the first
\* attempts are cut short by the next reset.
THEOREM LoopIsBroken == Spec => []LoopWipes
<1>1. IInv => LoopWipes
  BY DEF IInv
<1> QED BY <1>1, Invariance, PTL

\* Nothing but a reboot loop costs the user the configuration.
THEOREM OnlyLoopsWipe == Spec => WipedInLoopOnly
<1>1. ASSUME IInv, [Next]_vars
      PROVE  [phase # "wiping" /\ phase' = "wiping"
                => streak > MAX_UNEXP_RESET_COUNT]_vars
  <2>1. CASE ResettingConfiguration
    <3>1. reason = "unexpected" /\ Unexp >= MAX_UNEXP_RESET_COUNT /\ phase = "boot"
      BY <1>1, <2>1
        DEF ResettingConfiguration, RebootLoop, IInv, BootCount, rtc_get_value, Unexp, FullBoot
    <3>2. Unexp + 1 <= streak
      BY <1>1, <3>1 DEF IInv, BootCount
    <3>3. Unexp \in Nat /\ streak \in Nat
      BY <1>1 DEF IInv, TypeOK, Rtcs, Unexp
    <3> QED BY <3>1, <3>2, <3>3, BootAssumption
  <2>2. CASE phase' = phase \/ phase' # "wiping"
    BY <2>2
  <2> QED
    BY <1>1, <2>1, <2>2 DEF Next, vars, system_check_reboot_loop, flashcfg_reset,
      sleep_init, SleepFor, FallAsleep, WakeUp, on_sleep, Crash, SoftRestart,
      ExternalReset, PowerOff, PowerOn, Restarts
<1> QED BY <1>1, Invariance, PTL DEF Spec, WipedInLoopOnly

--------------------------------------------------------------------------------
(* The rounds of a sleep.  What was slept and what the words still hold add up to *)
(* what was announced, or nothing was announced and sleep_init takes the words    *)
(* for invalid.                                                                    *)

\* What RTC memory holds at power-on is nothing that sleep_init takes for a count.
GarbageInvalid == \A g \in Garbage : g >= WordLimit

NoRounds ==
  /\ rtc.sleep_count >= WordLimit /\ want = 0 /\ slept = 0
  /\ phase \notin {"dozing", "asleep"} /\ reason # "deep_sleep"

SomeRounds ==
  /\ rtc.sleep_count < WordLimit
  /\ slept + rtc.sleep_count * MAX_SLEEP_DURATION + rtc.sleep_rem = want
  /\ rtc.sleep_rem \in {0, want % MAX_SLEEP_DURATION}

\* A device that woke up for good has no round left, or one that is not valid.
NoneLeft ==
  phase = "awake" /\ reason = "deep_sleep" =>
    (rtc.sleep_count = 0 /\ rtc.sleep_rem = 0) \/ rtc.sleep_rem >= WordLimit

\* RTC memory survives a deep sleep.
Remembered ==
  /\ phase = "asleep" \/ (phase = "boot" /\ reason = "deep_sleep") => rtc.magic
  /\ phase = "sleep_init" /\ reason = "deep_sleep" => ~full_boot

Rounds == (NoRounds \/ SomeRounds) /\ NoneLeft /\ Remembered

LEMMA RoundsMean ==
  ASSUME TypeOK, Rounds
  PROVE  SleepsAsAnnounced
<1> DEFINE left == rtc.sleep_count * MAX_SLEEP_DURATION
<1>1. /\ slept \in Nat /\ want \in Nat /\ rtc.sleep_count \in Nat /\ rtc.sleep_rem \in Nat
      /\ MAX_SLEEP_DURATION \in Nat /\ WordLimit \in Nat
  BY BootAssumption DEF TypeOK, Rtcs
<1>2. left \in Nat /\ (rtc.sleep_count = 0 => left = 0)
  BY <1>1
<1>3. CASE NoRounds
  BY <1>3 DEF NoRounds, SleepsAsAnnounced
<1>4. CASE SomeRounds
  <2>1. slept + left + rtc.sleep_rem = want
    BY <1>4 DEF SomeRounds
  <2> HIDE DEF left
  <2>2. slept <= want
    BY <1>1, <1>2, <2>1
  <2>3. ASSUME phase = "awake", reason = "deep_sleep", want % MAX_SLEEP_DURATION < WordLimit
        PROVE  slept = want
    <3>1. want % MAX_SLEEP_DURATION \in Nat
      BY <1>1, BootAssumption
    <3>2. rtc.sleep_rem < WordLimit
      BY <1>1, <1>4, <2>3, <3>1 DEF SomeRounds
    <3>3. rtc.sleep_count = 0 /\ rtc.sleep_rem = 0
      BY <1>1, <2>3, <3>2 DEF Rounds, NoneLeft
    <3> QED BY <1>1, <1>2, <2>1, <3>3
  <2> QED BY <2>2, <2>3 DEF SleepsAsAnnounced
<1> QED BY <1>3, <1>4 DEF Rounds

LEMMA InitRounds == GarbageInvalid /\ Init => Rounds
<1> SUFFICES ASSUME GarbageInvalid, Init PROVE Rounds
  OBVIOUS
<1>1. rtc.sleep_count \in Garbage /\ reason = "power" /\ phase = "boot" /\ want = 0 /\ slept = 0
  BY DEF Init
<1> QED BY <1>1 DEF GarbageInvalid, Rounds, NoRounds, NoneLeft, Remembered

\* A step that leaves the rounds alone, and the device neither falls asleep nor is awake.
LEMMA KeptRounds ==
  ASSUME Rounds, rtc'.sleep_count = rtc.sleep_count, rtc'.sleep_rem = rtc.sleep_rem,
         UNCHANGED <<want, slept>>,
         NoRounds => phase' \notin {"dozing", "asleep"} /\ reason' # "deep_sleep",
         NoneLeft', Remembered'
  PROVE  Rounds'
BY DEF Rounds, NoRounds, SomeRounds

\* One more round: what is told to sleep for is taken from what the words hold.
LEMMA RoundOver ==
  ASSUME TypeOK, Rounds, ~full_boot, sleep_init, phase' = "asleep", rtc.magic
  PROVE  Rounds'
<1> DEFINE left == rtc.sleep_count * MAX_SLEEP_DURATION
           left1 == (rtc.sleep_count - 1) * MAX_SLEEP_DURATION
<1>1. /\ slept \in Nat /\ want \in Nat /\ rtc.sleep_count \in Nat /\ rtc.sleep_rem \in Nat
      /\ MAX_SLEEP_DURATION \in Nat /\ WordLimit \in Nat /\ rtc \in Rtcs
  BY BootAssumption DEF TypeOK, Rtcs
<1>2. /\ left \in Nat /\ left1 = left - MAX_SLEEP_DURATION
      /\ rtc.sleep_count = 0 => left = 0
  BY <1>1
<1>3. rtc.sleep_count < WordLimit /\ UNCHANGED <<want, reason>>
  BY <1>1 DEF sleep_init
<1>4. /\ SomeRounds /\ slept + left + rtc.sleep_rem = want
      /\ rtc.sleep_rem \in {0, want % MAX_SLEEP_DURATION}
  BY <1>1, <1>3 DEF Rounds, NoRounds, SomeRounds
<1> HIDE DEF left
<1>5. ~(slept > want)
  BY <1>1, <1>2, <1>4
<1>6. CASE rtc.sleep_count > 0 /\ rtc' = NextRound /\ SleepFor(MAX_SLEEP_DURATION)
  <2>1. /\ rtc'.sleep_count = rtc.sleep_count - 1 /\ rtc'.sleep_rem = rtc.sleep_rem
        /\ rtc'.magic /\ slept' = slept + MAX_SLEEP_DURATION
    BY <1>1, <1>5, <1>6 DEF NextRound, SleepFor, Rtcs
  <2>2. rtc'.sleep_count * MAX_SLEEP_DURATION = left1
    BY <2>1
  <2> HIDE DEF left1
  <2>3. slept' + left1 + rtc'.sleep_rem = want' /\ rtc'.sleep_count < WordLimit
    BY <1>1, <1>2, <1>3, <1>4, <2>1
  <2> QED BY <1>3, <1>4, <2>1, <2>2, <2>3 DEF Rounds, SomeRounds, NoneLeft, Remembered
<1>7. CASE rtc.sleep_count = 0 /\ rtc' = [rtc EXCEPT !.sleep_rem = 0] /\ SleepFor(rtc.sleep_rem)
  <2>1. /\ rtc'.sleep_count = 0 /\ rtc'.sleep_rem = 0
        /\ rtc'.magic /\ slept' = slept + rtc.sleep_rem
    BY <1>1, <1>5, <1>7 DEF SleepFor, Rtcs
  <2>2. slept' = want'
    BY <1>1, <1>2, <1>3, <1>4, <1>7, <2>1
  <2>3. rtc'.sleep_count * MAX_SLEEP_DURATION = 0
    BY <1>1, <2>1
  <2>4. slept' + 0 + 0 = want' /\ 0 < WordLimit
    BY <1>1, <1>3, <1>7, <2>2
  <2> QED BY <2>1, <2>3, <2>4 DEF Rounds, SomeRounds, NoneLeft, Remembered
<1> QED BY <1>6, <1>7 DEF sleep_init

LEMMA SleepInitRounds == IInv /\ Rounds /\ sleep_init => Rounds'
<1> SUFFICES ASSUME IInv, Rounds, sleep_init PROVE Rounds'
  OBVIOUS
<1>1. /\ phase = "sleep_init" /\ phase' \in {"awake", "asleep"} /\ rtc.magic
      /\ UNCHANGED <<reason, full_boot, want>> /\ full_boot \in BOOLEAN
  BY DEF sleep_init, SleepFor, IInv, TypeOK, RunningCount
<1>2. CASE phase' = "asleep"
  <2>1. ~full_boot
    BY <1>2 DEF sleep_init
  <2> QED BY <1>1, <1>2, <2>1, RoundOver DEF IInv
<1>3. CASE phase' = "awake"
  <2>1. UNCHANGED <<rtc, slept>>
    BY <1>3 DEF sleep_init, SleepFor
  <2>2. NoneLeft'
    <3>1. SUFFICES ASSUME reason = "deep_sleep"
                   PROVE  (rtc.sleep_count = 0 /\ rtc.sleep_rem = 0) \/ rtc.sleep_rem >= WordLimit
      BY <1>1, <2>1 DEF NoneLeft
    <3>2. ~full_boot /\ rtc.sleep_count < WordLimit
      BY <1>1, <3>1 DEF Rounds, Remembered, NoRounds, SomeRounds
    <3>3. rtc.sleep_count \in Nat /\ WordLimit \in Nat
      BY BootAssumption DEF IInv, TypeOK, Rtcs
    <3> QED BY <1>3, <3>2, <3>3 DEF sleep_init, SleepFor
  <2>3. Remembered'
    BY <1>3 DEF Remembered
  <2> QED BY <1>1, <1>3, <2>1, <2>2, <2>3, KeptRounds DEF Rounds, NoRounds
<1> QED BY <1>1, <1>2, <1>3

\* The quotient and the remainder of on_sleep.
LEMMA Divided ==
  ASSUME NEW w \in Nat, NEW d \in Nat \ {0}
  PROVE  /\ w \div d \in Nat /\ w % d \in Nat
         /\ w = (w \div d) * d + (w % d)
         /\ (w \div d) * d = d + ((w \div d) - 1) * d
OBVIOUS

LEMMA OnSleepRounds ==
  ASSUME IInv, Rounds, NEW wake_interval \in Intervals, on_sleep(wake_interval)
  PROVE  Rounds'
<1> DEFINE seconds == wake_interval * 60
           rounds == seconds \div MAX_SLEEP_DURATION
           rem == seconds % MAX_SLEEP_DURATION
<1>1. seconds \in Nat /\ rounds <= WordLimit
  BY BootAssumption, IntervalAssumption
<1>2. /\ phase = "awake" /\ phase' = "dozing"
      /\ rtc' = [rtc EXCEPT !.sleep_count = IF rounds > 0 THEN rounds - 1 ELSE 0,
                            !.sleep_rem = IF rounds > 0 THEN rem ELSE 0]
      /\ want' = seconds
      /\ slept' = IF rounds > 0 THEN MAX_SLEEP_DURATION ELSE rem
  BY DEF on_sleep
<1>3. /\ rounds \in Nat /\ rem \in Nat
      /\ seconds = rounds * MAX_SLEEP_DURATION + rem
      /\ rounds * MAX_SLEEP_DURATION = MAX_SLEEP_DURATION + (rounds - 1) * MAX_SLEEP_DURATION
  <2> HIDE DEF seconds
  <2> QED BY <1>1, BootAssumption, Divided
<1>4. /\ rtc \in Rtcs /\ MAX_SLEEP_DURATION \in Nat \ {0} /\ WordLimit \in Nat
  BY BootAssumption DEF IInv, TypeOK
<1>5. rem = want' % MAX_SLEEP_DURATION
  BY <1>2
<1> HIDE DEF seconds, rounds, rem
<1>6. CASE rounds > 0
  <2>1. rtc'.sleep_count = rounds - 1 /\ rtc'.sleep_rem = rem /\ slept' = MAX_SLEEP_DURATION
    BY <1>2, <1>4, <1>6 DEF Rtcs
  <2>2. rtc'.sleep_count < WordLimit
    BY <1>1, <1>3, <1>4, <2>1
  <2>3. rtc'.sleep_count * MAX_SLEEP_DURATION = (rounds - 1) * MAX_SLEEP_DURATION
    BY <2>1
  <2> DEFINE left == (rounds - 1) * MAX_SLEEP_DURATION
  <2>4. want' = MAX_SLEEP_DURATION + left + rem
    BY <1>2, <1>3
  <2> HIDE DEF left
  <2>5. slept' + rtc'.sleep_count * MAX_SLEEP_DURATION + rtc'.sleep_rem = want'
    BY <2>1, <2>3, <2>4 DEF left
  <2> QED BY <1>2, <1>5, <2>1, <2>2, <2>5 DEF Rounds, SomeRounds, NoneLeft, Remembered
<1>7. CASE ~(rounds > 0)
  <2>1. rtc'.sleep_count = 0 /\ rtc'.sleep_rem = 0 /\ slept' = rem
    BY <1>2, <1>4, <1>7 DEF Rtcs
  <2>2. rounds = 0 /\ rounds * MAX_SLEEP_DURATION = 0
    BY <1>3, <1>4, <1>7
  <2>3. slept' = want'
    BY <1>2, <1>3, <2>1, <2>2
  <2>4. rtc'.sleep_count * MAX_SLEEP_DURATION = 0
    BY <1>4, <2>1
  <2>5. slept' + 0 + 0 = want' /\ 0 < WordLimit
    BY <1>2, <1>1, <2>3, BootAssumption
  <2> QED BY <1>2, <2>1, <2>4, <2>5 DEF Rounds, SomeRounds, NoneLeft, Remembered
<1> QED BY <1>6, <1>7

LEMMA NextRounds == GarbageInvalid /\ IInv /\ IInv' /\ Rounds /\ [Next]_vars => Rounds'
<1> SUFFICES ASSUME GarbageInvalid, IInv, IInv', Rounds, [Next]_vars PROVE Rounds'
  OBVIOUS
<1>0. rtc \in Rtcs /\ rtc.magic \in BOOLEAN
  BY DEF IInv, TypeOK, Rtcs
<1>1. CASE system_check_reboot_loop
  <2>1. /\ rtc'.sleep_count = rtc.sleep_count /\ rtc'.sleep_rem = rtc.sleep_rem
        /\ UNCHANGED <<want, slept, reason>> /\ phase = "boot" /\ phase' = "sleep_init"
        /\ full_boot' = ~rtc.magic
    BY <1>0, <1>1 DEF system_check_reboot_loop, FullBoot, Rtcs
  <2>2. NoneLeft' /\ Remembered'
    BY <2>1 DEF NoneLeft, Remembered, Rounds
  <2> QED BY <2>1, <2>2, KeptRounds DEF NoRounds
<1>2. CASE ResettingConfiguration
  <2>1. /\ rtc'.sleep_count = rtc.sleep_count /\ rtc'.sleep_rem = rtc.sleep_rem
        /\ UNCHANGED <<want, slept, reason>> /\ phase' = "wiping"
    BY <1>0, <1>2 DEF ResettingConfiguration, Rtcs
  <2>2. NoneLeft' /\ Remembered'
    BY <2>1 DEF NoneLeft, Remembered
  <2> QED BY <2>1, <2>2, KeptRounds DEF NoRounds
<1>3. CASE flashcfg_reset
  <2>1. /\ rtc'.sleep_count = rtc.sleep_count /\ rtc'.sleep_rem = rtc.sleep_rem
        /\ UNCHANGED <<want, slept, reason>> /\ phase = "wiping" /\ phase' = "sleep_init"
    BY <1>0, <1>3 DEF flashcfg_reset, Rtcs
  <2>2. reason = "unexpected"
    BY <2>1 DEF IInv, WipingCount
  <2>3. NoneLeft' /\ Remembered'
    BY <2>1, <2>2 DEF NoneLeft, Remembered
  <2> QED BY <2>1, <2>3, KeptRounds DEF NoRounds
<1>4. CASE sleep_init
  BY <1>4, SleepInitRounds
<1>5. CASE FallAsleep
  <2>1. phase = "dozing" /\ phase' = "asleep" /\ UNCHANGED <<rtc, want, slept>> /\ rtc.magic
    BY <1>5 DEF FallAsleep, IInv, RunningCount
  <2>2. NoneLeft' /\ Remembered'
    BY <2>1 DEF NoneLeft, Remembered
  <2> QED BY <2>1, <2>2, KeptRounds DEF NoRounds
<1>6. CASE WakeUp
  <2>1. phase = "asleep" /\ phase' = "boot" /\ UNCHANGED <<rtc, want, slept>>
    BY <1>6 DEF WakeUp, Restarts
  <2>2. NoneLeft' /\ Remembered'
    BY <2>1 DEF NoneLeft, Remembered, Rounds
  <2> QED BY <2>1, <2>2, KeptRounds DEF NoRounds
<1>7. ASSUME NEW wake_interval \in Intervals, on_sleep(wake_interval) PROVE Rounds'
  BY <1>7, OnSleepRounds
<1>8. CASE Crash \/ SoftRestart \/ ExternalReset
  <2>1. /\ phase' = "boot" /\ reason' \in {"unexpected", "soft", "external"}
        /\ rtc'.sleep_count = rtc.sleep_count /\ rtc'.sleep_rem = rtc.sleep_rem
        /\ UNCHANGED <<want, slept>>
    BY <1>0, <1>8 DEF Crash, SoftRestart, ExternalReset, Restarts, Rtcs
  <2>2. NoneLeft' /\ Remembered'
    BY <2>1 DEF NoneLeft, Remembered
  <2> QED BY <2>1, <2>2, KeptRounds DEF NoRounds
<1>9. CASE PowerOff
  <2>1. phase' = "off" /\ UNCHANGED <<rtc, reason, want, slept>>
    BY <1>9 DEF PowerOff
  <2>2. NoneLeft' /\ Remembered'
    BY <2>1 DEF NoneLeft, Remembered
  <2> QED BY <2>1, <2>2, KeptRounds DEF NoRounds
<1>10. CASE PowerOn
  <2>1. /\ phase' = "boot" /\ reason' = "power" /\ want' = 0 /\ slept' = 0
        /\ rtc'.sleep_count \in Garbage
    BY <1>10 DEF PowerOn
  <2> QED BY <2>1 DEF GarbageInvalid, Rounds, NoRounds, NoneLeft, Remembered
<1>11. CASE UNCHANGED vars
  BY <1>11 DEF vars, Rounds, NoRounds, SomeRounds, NoneLeft, Remembered
<1> QED
  BY <1>1, <1>2, <1>3, <1>4, <1>5, <1>6, <1>7, <1>8, <1>9, <1>10, <1>11 DEF Next

\* A device sleeps for as long as it announced (sleep.c:115), in rounds that resets of
\* every kind may come between, and never longer.
THEOREM SleepsLongEnough ==
  ASSUME GarbageInvalid
  PROVE  Spec => []SleepsAsAnnounced
<1>1. Init => Rounds
  BY InitRounds, GarbageInvalid
<1>2. IInv /\ IInv' /\ Rounds /\ [Next]_vars => Rounds'
  BY NextRounds, GarbageInvalid
<1>3. IInv /\ Rounds => SleepsAsAnnounced
  BY RoundsMean DEF IInv
<1> QED BY <1>1, <1>2, <1>3, Invariance, PTL DEF Spec

--------------------------------------------------------------------------------
(* The inductive invariant: how far a save is tells what the slot holds. *)

Progress ==
  /\ Saving => step < 2 * FLASH_CONFIG_SIZE(slot)
  /\ Saving /\ slot = "default" => kept = Nothing
  /\ Saving /\ slot = "default" /\ step \in {1, 2} => flash[0] = Erased
  /\ Saving /\ slot = "default" /\ step = 3 => flash[0] = data

StoreIInv == StoreTypeOK /\ Progress /\ SavedStays

\* What a step of a save does, with its arithmetic done: the default slot is erased
\* in two steps and written in two, the system slot in one and one.
LEMMA EraseOrWriteSteps ==
  ASSUME StoreIInv, EraseOrWrite
  PROVE  /\ Saving /\ UNCHANGED <<ram, at, slot>>
         /\ \/ /\ slot = "default" /\ step = 0
               /\ flash' = [flash EXCEPT ![0] = Erased]
               /\ step' = 1 /\ UNCHANGED <<data, kept>>
            \/ /\ slot = "default" /\ step = 1
               /\ flash' = [flash EXCEPT ![1] = Erased]
               /\ step' = 2 /\ UNCHANGED <<data, kept>>
            \/ /\ slot = "default" /\ step = 2
               /\ flash' = [flash EXCEPT ![0] = data]
               /\ step' = 3 /\ UNCHANGED <<data, kept>>
            \/ /\ slot = "default" /\ step = 3
               /\ flash' = [flash EXCEPT ![1] = Default]
               /\ data' = Nothing /\ step' = 0 /\ kept' = data
            \/ /\ slot = "system" /\ step = 0
               /\ flash' = [flash EXCEPT ![2] = Erased]
               /\ step' = 1 /\ UNCHANGED <<data, kept>>
            \/ /\ slot = "system" /\ step = 1
               /\ flash' = [flash EXCEPT ![2] = data]
               /\ data' = Nothing /\ step' = 0 /\ kept' = kept
<1>1. Saving /\ UNCHANGED <<ram, at, slot>>
  BY DEF EraseOrWrite
<1>2. slot \in {"default", "system"} /\ step \in 0 .. 3
  BY DEF StoreIInv, StoreTypeOK, Slots
<1>3. step < 2 * FLASH_CONFIG_SIZE(slot)
  BY <1>1 DEF StoreIInv, Progress
<1>4. PICK size \in {1, 2}, sector \in 0 .. 2 :
        /\ size = FLASH_CONFIG_SIZE(slot)
        /\ sector = FLASH_CONFIG_OFFS(slot) + (step % size)
  <2>1. CASE slot = "default"
    <3>1. FLASH_CONFIG_SIZE(slot) = 2 /\ FLASH_CONFIG_OFFS(slot) = 0
      BY <2>1 DEF FLASH_CONFIG_SIZE, FLASH_CONFIG_OFFS
    <3>2. step % 2 \in 0 .. 1
      BY <1>2
    <3> QED BY <3>1, <3>2
  <2>2. CASE slot = "system"
    <3>1. FLASH_CONFIG_SIZE(slot) = 1 /\ FLASH_CONFIG_OFFS(slot) = 2
      BY <2>2 DEF FLASH_CONFIG_SIZE, FLASH_CONFIG_OFFS
    <3>2. step % 1 = 0
      BY <1>2
    <3> QED BY <3>1, <3>2
  <2> QED BY <1>2, <2>1, <2>2
<1>5. /\ flash' = [flash EXCEPT ![sector] = StepResult(step, size)]
      /\ step + 1 < 2 * size => step' = step + 1 /\ UNCHANGED <<data, kept>>
      /\ ~(step + 1 < 2 * size)
           => /\ data' = Nothing /\ step' = 0
              /\ kept' = IF slot = "default" THEN data ELSE kept
  BY <1>4 DEF EraseOrWrite, Return
<1>6. CASE slot = "default"
  <2>1. size = 2 /\ sector = step % 2
    BY <1>2, <1>4, <1>6 DEF FLASH_CONFIG_SIZE, FLASH_CONFIG_OFFS
  <2>2. CASE step = 0
    <3>1. sector = 0 /\ StepResult(step, size) = Erased
      BY <2>1, <2>2 DEF StepResult
    <3>2. flash' = [flash EXCEPT ![0] = Erased]
      BY <1>5, <3>1
    <3>3. step' = 1 /\ UNCHANGED <<data, kept>>
      BY <1>5, <2>1, <2>2
    <3> QED BY <1>1, <1>6, <2>2, <3>2, <3>3
  <2>3. CASE step = 1
    <3>1. sector = 1 /\ StepResult(step, size) = Erased
      BY <2>1, <2>3 DEF StepResult
    <3>2. flash' = [flash EXCEPT ![1] = Erased]
      BY <1>5, <3>1
    <3>3. step' = 2 /\ UNCHANGED <<data, kept>>
      BY <1>5, <2>1, <2>3
    <3> QED BY <1>1, <1>6, <2>3, <3>2, <3>3
  <2>4. CASE step = 2
    <3>1. sector = 0 /\ StepResult(step, size) = data
      BY <2>1, <2>4 DEF StepResult
    <3>2. flash' = [flash EXCEPT ![0] = data]
      BY <1>5, <3>1
    <3>3. step' = 3 /\ UNCHANGED <<data, kept>>
      BY <1>5, <2>1, <2>4
    <3> QED BY <1>1, <1>6, <2>4, <3>2, <3>3
  <2>5. CASE step = 3
    <3>1. sector = 1 /\ StepResult(step, size) = Default
      BY <2>1, <2>5 DEF StepResult
    <3>2. flash' = [flash EXCEPT ![1] = Default]
      BY <1>5, <3>1
    <3>3. data' = Nothing /\ step' = 0 /\ kept' = data
      BY <1>5, <1>6, <2>1, <2>5
    <3> QED BY <1>1, <1>6, <2>5, <3>2, <3>3
  <2> QED BY <1>2, <2>2, <2>3, <2>4, <2>5
<1>7. CASE slot = "system"
  <2>1. size = 1
    BY <1>4, <1>7 DEF FLASH_CONFIG_SIZE
  <2>2. sector = 2
    <3>1. step % 1 = 0
      BY <1>2
    <3> QED BY <1>4, <1>7, <2>1, <3>1 DEF FLASH_CONFIG_OFFS
  <2>3. CASE step = 0
    <3>1. StepResult(step, size) = Erased
      BY <2>1, <2>3 DEF StepResult
    <3>2. flash' = [flash EXCEPT ![2] = Erased]
      BY <1>5, <2>2, <3>1
    <3>3. step' = 1 /\ UNCHANGED <<data, kept>>
      BY <1>5, <2>1, <2>3
    <3> QED BY <1>1, <1>7, <2>3, <3>2, <3>3
  <2>4. CASE step = 1
    <3>1. StepResult(step, size) = data
      BY <2>1, <2>4 DEF StepResult
    <3>2. flash' = [flash EXCEPT ![2] = data]
      BY <1>5, <2>2, <3>1
    <3>3. data' = Nothing /\ step' = 0 /\ kept' = kept
      BY <1>5, <1>7, <2>1, <2>4
    <3> QED BY <1>1, <1>7, <2>4, <3>2, <3>3
  <2>5. step = 0 \/ step = 1
    BY <1>2, <1>3, <1>4, <2>1
  <2> QED BY <2>3, <2>4, <2>5
<1> QED BY <1>2, <1>6, <1>7

LEMMA StoredIs ==
  Stored = IF flash[0] = Erased THEN Default ELSE flash[0]
BY DEF Stored, LooksErased, flashcfg_load, FLASH_CONFIG_OFFS

LEMMA StoredIsNext ==
  Stored' = IF flash'[0] = Erased THEN Default ELSE flash'[0]
BY DEF Stored, LooksErased, flashcfg_load, FLASH_CONFIG_OFFS

\* The beginning of a save, from wherever it is called.
LEMMA SaveBegins ==
  ASSUME StoreIInv, ~Saving, UNCHANGED flash, ram' \in Settings, at' \in Places,
         NEW s \in Slots, NEW d \in Settings, flashcfg_save(s, d)
  PROVE  StoreIInv'
<1>1. slot' = s /\ data' = d /\ step' = 0
  BY DEF flashcfg_save
<1>2. kept' = IF s = "default" THEN Nothing ELSE kept
  BY DEF flashcfg_save
<1>3. StoreTypeOK'
  BY <1>1, <1>2 DEF StoreIInv, StoreTypeOK
<1>4. Progress'
  BY <1>1, <1>2 DEF Progress, FLASH_CONFIG_SIZE
<1>5. SavedStays'
  BY <1>2, StoredIs, StoredIsNext DEF StoreIInv, SavedStays
<1> QED BY <1>3, <1>4, <1>5 DEF StoreIInv

\* A step that saves nothing and leaves the flash alone, or gives a save up.
LEMMA NoSave ==
  ASSUME StoreIInv, UNCHANGED <<flash, slot, kept>>, ram' \in Settings, at' \in Places,
         \/ ~Saving /\ UNCHANGED <<data, step>>
         \/ data' = Nothing /\ step' = 0
  PROVE  StoreIInv'
<1>1. data' = Nothing /\ step' \in 0 .. 3
  BY DEF StoreIInv, StoreTypeOK, Saving
<1>2. StoreTypeOK'
  BY <1>1 DEF StoreIInv, StoreTypeOK
<1>3. Progress'
  BY <1>1 DEF Progress, Saving
<1>4. SavedStays'
  BY StoredIs, StoredIsNext DEF StoreIInv, SavedStays
<1> QED BY <1>2, <1>3, <1>4 DEF StoreIInv

LEMMA StoreInitIInv == StoreInit => StoreIInv
<1> SUFFICES ASSUME StoreInit PROVE StoreIInv
  OBVIOUS
<1>1. StoreTypeOK
  BY DEF StoreInit, StoreTypeOK, Settings, Places, Slots, Sectors
<1>2. Progress /\ SavedStays
  BY DEF StoreInit, Progress, SavedStays, Saving
<1> QED BY <1>1, <1>2 DEF StoreIInv

LEMMA EraseOrWriteIInv == StoreIInv /\ EraseOrWrite => StoreIInv'
<1> SUFFICES ASSUME StoreIInv, EraseOrWrite PROVE StoreIInv'
  OBVIOUS
<1>1. Saving /\ UNCHANGED <<ram, at, slot>>
  BY EraseOrWriteSteps
<1>2. flash \in [0 .. 2 -> Settings \cup {Erased}] /\ data \in Settings
  BY <1>1 DEF StoreIInv, StoreTypeOK, Saving, Sectors
<1>3. Erased \notin Settings /\ Nothing \notin Settings /\ Default \in Settings
  BY StoreAssumption DEF Settings
<1>4. StoreTypeOK'
  BY <1>1, <1>2, <1>3, EraseOrWriteSteps DEF StoreIInv, StoreTypeOK, Sectors
<1>5. Progress'
  <2>1. CASE slot = "default"
    BY <1>1, <1>2, <2>1, EraseOrWriteSteps
      DEF StoreIInv, Progress, Saving, FLASH_CONFIG_SIZE
  <2>2. CASE slot = "system"
    BY <1>1, <1>2, <2>2, EraseOrWriteSteps
      DEF StoreIInv, Progress, Saving, FLASH_CONFIG_SIZE
  <2> QED BY <2>1, <2>2 DEF StoreIInv, StoreTypeOK, Slots
<1>6. SavedStays'
  <2>1. CASE slot = "default" /\ step # 3
    BY <1>1, <2>1, EraseOrWriteSteps DEF StoreIInv, Progress, SavedStays
  <2>2. CASE slot = "default" /\ step = 3
    <3>1. flash'[0] = data /\ kept' = data
      BY <1>1, <1>2, <2>2, EraseOrWriteSteps DEF StoreIInv, Progress
    <3> QED BY <3>1, <1>2, <1>3, StoredIsNext DEF SavedStays
  <2>3. CASE slot = "system"
    <3>1. flash'[0] = flash[0] /\ kept' = kept
      BY <1>1, <1>2, <2>3, EraseOrWriteSteps
    <3> QED BY <3>1, StoredIs, StoredIsNext DEF StoreIInv, SavedStays
  <2> QED BY <2>1, <2>2, <2>3 DEF StoreIInv, StoreTypeOK, Slots
<1> QED BY <1>4, <1>5, <1>6 DEF StoreIInv

LEMMA StoreNextIInv == StoreIInv /\ [StoreNext]_store_vars => StoreIInv'
<1> SUFFICES ASSUME StoreIInv, [StoreNext]_store_vars PROVE StoreIInv'
  OBVIOUS
<1> USE DEF StoreIInv
<1>0. Default \in Settings /\ "default" \in Slots /\ "system" \in Slots
  BY DEF Settings, Slots
<1>1. CASE EraseOrWrite
  BY <1>1, EraseOrWriteIInv
<1>2. CASE FlashFails
  BY <1>2, NoSave DEF FlashFails, Return, StoreTypeOK
<1>3. ASSUME NEW loop \in BOOLEAN, CheckRebootLoop(loop) PROVE StoreIInv'
  <2>1. ~Saving /\ UNCHANGED <<flash, ram>> /\ at' \in Places
    BY <1>3 DEF CheckRebootLoop, Places
  <2>2. CASE flashcfg_save("default", Default)
    BY <1>0, <2>1, <2>2, SaveBegins DEF StoreTypeOK
  <2>3. CASE UNCHANGED <<slot, data, step, kept>>
    BY <2>1, <2>3, NoSave DEF StoreTypeOK
  <2> QED BY <1>3, <2>2, <2>3 DEF CheckRebootLoop
<1>4. ASSUME NEW ok \in BOOLEAN, system_config_load(ok) PROVE StoreIInv'
  <2>1. ~Saving /\ UNCHANGED <<flash, ram>> /\ at' \in Places
    BY <1>4 DEF system_config_load, Places
  <2>2. CASE flashcfg_save("system", Default)
    BY <1>0, <2>1, <2>2, SaveBegins DEF StoreTypeOK
  <2>3. CASE UNCHANGED <<slot, data, step, kept>>
    BY <2>1, <2>3, NoSave DEF StoreTypeOK
  <2> QED BY <1>4, <2>2, <2>3 DEF system_config_load
<1>5. ASSUME NEW ok \in BOOLEAN, config_init(ok) PROVE StoreIInv'
  <2>1. ~Saving /\ UNCHANGED flash /\ at' \in Places
    BY <1>5 DEF config_init, Places
  <2>2. CASE LooksErased(flashcfg_load("default", ok))
    BY <1>0, <1>5, <2>1, <2>2, SaveBegins DEF config_init
  <2>3. CASE ~LooksErased(flashcfg_load("default", ok))
    <3>1. UNCHANGED <<slot, data, step, kept>>
      BY <1>5, <2>3 DEF config_init
    <3>2. ram' \in Settings
      BY <1>0, <1>5, <2>3
        DEF config_init, flashcfg_load, LooksErased, FLASH_CONFIG_OFFS, StoreTypeOK, Sectors
    <3> QED BY <2>1, <3>1, <3>2, NoSave
  <2> QED BY <2>2, <2>3
<1>6. ASSUME NEW v \in Settings, NEW valid \in BOOLEAN, PatchDevice(v, valid)
      PROVE  StoreIInv'
  <2>1. ~Saving /\ UNCHANGED <<flash, at>> /\ ram' = v
    BY <1>6 DEF PatchDevice
  <2>2. CASE valid
    BY <1>0, <1>6, <2>1, <2>2, SaveBegins DEF PatchDevice, StoreTypeOK
  <2>3. CASE ~valid
    BY <1>6, <2>1, <2>3, NoSave DEF PatchDevice, StoreTypeOK
  <2> QED BY <2>2, <2>3
<1>7. CASE config_factory_reset
  BY <1>0, <1>7, SaveBegins DEF config_factory_reset, StoreTypeOK
<1>8. CASE Reboot \/ PowerBack
  BY <1>0, <1>8, NoSave DEF Reboot, PowerBack, Reboots, Places
<1>9. CASE PowerCut
  BY <1>9, NoSave DEF PowerCut, Places, StoreTypeOK
<1>10. CASE UNCHANGED store_vars
  <2>1. StoreTypeOK' /\ Progress'
    BY <1>10 DEF store_vars, StoreTypeOK, Progress, Saving
  <2>2. SavedStays'
    BY <1>10, StoredIs, StoredIsNext DEF store_vars, SavedStays
  <2> QED BY <2>1, <2>2
<1> QED
  BY <1>1, <1>2, <1>3, <1>4, <1>5, <1>6, <1>7, <1>8, <1>9, <1>10 DEF StoreNext

THEOREM StoreInvariance == ConfigStoreSpec => []StoreIInv
BY StoreInitIInv, StoreNextIInv, PTL DEF ConfigStoreSpec

--------------------------------------------------------------------------------

\* Every variable keeps to its type, and no sector is touched but those of the slots.
THEOREM StoreTypeCorrect == ConfigStoreSpec => []StoreTypeOK
<1>1. StoreIInv => StoreTypeOK
  BY DEF StoreIInv
<1> QED BY <1>1, StoreInvariance, PTL

\* Settings saved to the end are what every later boot finds (config.c:13), until
\* others are saved.
THEOREM SettingsStay == ConfigStoreSpec => []SavedStays
<1>1. StoreIInv => SavedStays
  BY DEF StoreIInv
<1> QED BY <1>1, StoreInvariance, PTL

\* The offsets and sizes of flashcfg.h keep the slots apart.
THEOREM OtherSlotUntouched == ConfigStoreSpec => SlotsApart
<1>1. ASSUME StoreIInv, [StoreNext]_store_vars
      PROVE  [\A n \in Sectors :
                flash'[n] # flash[n] => slot = IF n = 2 THEN "system" ELSE "default"]_store_vars
  <2>1. CASE EraseOrWrite
    BY <1>1, <2>1, EraseOrWriteSteps DEF StoreIInv, StoreTypeOK, Sectors
  <2>2. CASE UNCHANGED flash
    BY <2>2
  <2> QED
    BY <1>1, <2>1, <2>2 DEF StoreNext, store_vars, FlashFails, CheckRebootLoop,
      system_config_load, config_init, PatchDevice, config_factory_reset, Reboot,
      Reboots, PowerCut, PowerBack
<1> QED BY <1>1, StoreInvariance, PTL DEF ConfigStoreSpec, SlotsApart

--------------------------------------------------------------------------------
(* The store is what Settings promises. *)

saving  == IF Saving /\ slot = "default" THEN data ELSE Nothing
written == Saving /\ slot = "default" /\ step > FLASH_CONFIG_SIZE("default")

\* A step that leaves the flash alone begins a save, ends one or is none.
LEMMA FlashAlone ==
  ASSUME StoreIInv, UNCHANGED flash,
         \/ data' = Nothing
         \/ UNCHANGED <<slot, data, step>>
         \/ ~Saving /\ \E s \in Slots, d \in Settings : flashcfg_save(s, d)
  PROVE  [Store!Next]_(Store!vars)
<1>1. Stored' = Stored
  BY StoredIs, StoredIsNext
<1>2. CASE data' = Nothing
  <2>1. saving' = Nothing /\ written' = FALSE
    BY <1>2 DEF saving, written, Saving
  <2>2. CASE saving = Nothing
    <3>1. written = FALSE
      BY <2>2 DEF saving, written, Saving
    <3> QED BY <1>1, <2>1, <2>2, <3>1 DEF Store!vars, saving, written
  <2>3. CASE saving # Nothing
    BY <1>1, <2>1, <2>3 DEF Store!Next, Store!End, saving, written
  <2> QED BY <2>2, <2>3
<1>3. CASE UNCHANGED <<slot, data, step>>
  BY <1>1, <1>3 DEF Store!vars, Saving
<1>4. ASSUME ~Saving, NEW s \in Slots, NEW d \in Settings, flashcfg_save(s, d)
      PROVE  [Store!Next]_(Store!vars)
  <2>1. slot' = s /\ data' = d /\ step' = 0
    BY <1>4 DEF flashcfg_save
  <2>2. saving = Nothing /\ written = FALSE
    BY <1>4 DEF saving, written
  <2>3. written' = FALSE
    BY <2>1 DEF written, FLASH_CONFIG_SIZE
  <2>4. CASE s = "default"
    <3>1. saving' = d
      BY <2>1, <2>4 DEF saving, Saving
    <3>2. Store!Begin(d)
      BY <1>1, <2>2, <2>3, <3>1 DEF Store!Begin, saving, written
    <3> QED BY <3>2 DEF Store!Next, Settings
  <2>5. CASE s # "default"
    <3>1. saving' = Nothing
      BY <2>1, <2>5 DEF saving
    <3> QED BY <1>1, <2>2, <2>3, <3>1 DEF Store!vars, saving, written
  <2> QED BY <2>4, <2>5
<1> QED BY <1>2, <1>3, <1>4

LEMMA EraseOrWriteRefines ==
  ASSUME StoreIInv, EraseOrWrite
  PROVE  [Store!Next]_(Store!vars)
<1>1. Saving /\ slot' = slot
  BY EraseOrWriteSteps
<1>2. flash \in [0 .. 2 -> Settings \cup {Erased}] /\ data \in Settings
  BY <1>1 DEF StoreIInv, StoreTypeOK, Saving, Sectors
<1>3. Erased \notin Settings /\ Nothing \notin Settings /\ Default \in Settings
  BY StoreAssumption DEF Settings
<1>4. FLASH_CONFIG_SIZE("default") = 2
  BY DEF FLASH_CONFIG_SIZE
<1>5. CASE slot = "system"
  <2>1. saving = Nothing /\ saving' = Nothing /\ written = FALSE /\ written' = FALSE
    BY <1>1, <1>5 DEF saving, written
  <2>2. flash'[0] = flash[0]
    BY <1>1, <1>2, <1>5, EraseOrWriteSteps
  <2> QED BY <2>1, <2>2, StoredIs, StoredIsNext DEF Store!vars, saving, written
<1>6. CASE slot = "default"
  <2>1. saving = data /\ (written <=> step > 2)
    BY <1>1, <1>4, <1>6 DEF saving, written
  <2>2. CASE step = 0
    <3>1. Stored' = Default
      BY <1>1, <1>2, <1>6, <2>2, EraseOrWriteSteps, StoredIsNext
    <3>2. data' = data /\ step' = 1
      BY <1>6, <2>2, EraseOrWriteSteps
    <3>3. saving' = saving /\ ~written /\ ~written'
      BY <1>1, <1>4, <2>1, <2>2, <3>2 DEF saving, written, Saving
    <3> QED
      BY <1>2, <1>3, <2>1, <3>1, <3>3 DEF Store!Next, Store!Lose, saving, written
  <2>3. CASE step = 1
    <3>1. Stored' = Stored
      BY <1>1, <1>2, <1>6, <2>3, EraseOrWriteSteps, StoredIs, StoredIsNext
    <3>2. data' = data /\ step' = 2
      BY <1>6, <2>3, EraseOrWriteSteps
    <3>3. saving' = saving /\ ~written /\ ~written'
      BY <1>1, <1>4, <2>1, <2>3, <3>2 DEF saving, written, Saving
    <3> QED BY <3>1, <3>3 DEF Store!vars, saving, written
  <2>4. CASE step = 2
    <3>1. Stored' = data
      BY <1>1, <1>2, <1>3, <1>6, <2>4, EraseOrWriteSteps, StoredIsNext
    <3>2. data' = data /\ step' = 3
      BY <1>6, <2>4, EraseOrWriteSteps
    <3>3. saving' = saving /\ written'
      BY <1>1, <1>4, <1>6, <2>1, <3>2 DEF saving, written, Saving
    <3> QED
      BY <1>2, <1>3, <2>1, <3>1, <3>3 DEF Store!Next, Store!Write, saving, written
  <2>5. CASE step = 3
    <3>1. Stored' = Stored
      BY <1>1, <1>2, <1>6, <2>5, EraseOrWriteSteps, StoredIs, StoredIsNext
    <3>2. data' = Nothing
      BY <1>6, <2>5, EraseOrWriteSteps
    <3>3. saving' = Nothing /\ ~written'
      BY <3>2 DEF saving, written, Saving
    <3> QED
      BY <1>2, <1>3, <2>1, <3>1, <3>3 DEF Store!Next, Store!End, saving, written
  <2> QED BY <2>2, <2>3, <2>4, <2>5 DEF StoreIInv, StoreTypeOK
<1> QED BY <1>5, <1>6 DEF StoreIInv, StoreTypeOK, Slots

LEMMA StoreInitRefines == StoreInit => Store!Init
<1> SUFFICES ASSUME StoreInit PROVE Store!Init
  OBVIOUS
<1>1. flash[0] \in Settings \cup {Erased} /\ data = Nothing
  BY DEF StoreInit, Sectors, Settings
<1>2. Stored \in Settings
  BY <1>1, StoredIs DEF Settings
<1> QED BY <1>1, <1>2 DEF Store!Init, Saving, Settings

LEMMA StoreNextRefines == StoreIInv /\ [StoreNext]_store_vars => [Store!Next]_(Store!vars)
<1> SUFFICES ASSUME StoreIInv, [StoreNext]_store_vars PROVE [Store!Next]_(Store!vars)
  OBVIOUS
<1>0. Default \in Settings /\ "default" \in Slots /\ "system" \in Slots
  BY DEF Settings, Slots
<1>1. CASE EraseOrWrite
  BY <1>1, EraseOrWriteRefines
<1>2. CASE FlashFails \/ Reboot \/ PowerBack \/ PowerCut
  BY <1>2, FlashAlone DEF FlashFails, Return, Reboot, PowerBack, PowerCut, Reboots
<1>3. ASSUME NEW b \in BOOLEAN,
             CheckRebootLoop(b) \/ system_config_load(b) \/ config_init(b)
      PROVE  [Store!Next]_(Store!vars)
  <2>1. UNCHANGED flash /\ ~Saving
    BY <1>3 DEF CheckRebootLoop, system_config_load, config_init
  <2>2. \/ UNCHANGED <<slot, data, step>>
        \/ flashcfg_save("default", Default) \/ flashcfg_save("system", Default)
    BY <1>3 DEF CheckRebootLoop, system_config_load, config_init
  <2> QED BY <1>0, <2>1, <2>2, FlashAlone
<1>4. ASSUME NEW v \in Settings, NEW valid \in BOOLEAN, PatchDevice(v, valid)
      PROVE  [Store!Next]_(Store!vars)
  BY <1>0, <1>4, FlashAlone DEF PatchDevice
<1>5. CASE config_factory_reset
  BY <1>0, <1>5, FlashAlone DEF config_factory_reset
<1>6. CASE UNCHANGED store_vars
  BY <1>6, FlashAlone DEF store_vars
<1> QED BY <1>1, <1>2, <1>3, <1>4, <1>5, <1>6 DEF StoreNext

\* Whatever fails and whenever it does, a boot finds the old settings, the new ones or
\* the defaults (flashcfg.c:37).
THEOREM StoreRefinement == ConfigStoreSpec => StoreSpec
<1>1. ConfigStoreSpec => Store!Init /\ [][Store!Next]_(Store!vars)
  BY StoreInitRefines, StoreNextRefines, StoreInvariance, PTL DEF ConfigStoreSpec
<1> QED BY <1>1 DEF StoreSpec, Store!Spec

--------------------------------------------------------------------------------
(* Each step of the device is one of Boot's or none, and one of ConfigStore's or   *)
(* none.                                                                           *)

LEMMA DeviceStepsBoot == [DeviceNext]_device_vars => [Next]_vars
<1> SUFFICES ASSUME [DeviceNext]_device_vars PROVE [Next]_vars
  OBVIOUS
<1>1. CASE Check
  BY <1>1 DEF Check, Next
<1>2. CASE Flash
  BY <1>2 DEF Flash, Next
<1>3. CASE SleepInit
  BY <1>3 DEF SleepInit, Next
<1>4. ASSUME NEW ok \in BOOLEAN, Awake(system_config_load(ok)) \/ Awake(config_init(ok))
      PROVE  [Next]_vars
  BY <1>4 DEF Awake
<1>5. CASE Configure
  BY <1>5 DEF Configure, Awake
<1>6. CASE GoToSleep
  BY <1>6 DEF GoToSleep, Next
<1>7. CASE Reset \/ WakeUpAgain \/ Start(PowerOn) \/ CutPower
  BY <1>7 DEF Reset, WakeUpAgain, Start, CutPower, Next
<1>8. CASE UNCHANGED device_vars
  BY <1>8 DEF device_vars
<1> QED BY <1>1, <1>2, <1>3, <1>4, <1>5, <1>6, <1>7, <1>8 DEF DeviceNext

LEMMA DeviceStepsStore == [DeviceNext]_device_vars => [StoreNext]_store_vars
<1> SUFFICES ASSUME [DeviceNext]_device_vars PROVE [StoreNext]_store_vars
  OBVIOUS
<1>1. CASE Check
  BY <1>1 DEF Check, StoreNext
<1>2. CASE Flash
  BY <1>2 DEF Flash, StoreNext
<1>3. CASE SleepInit
  BY <1>3 DEF SleepInit, StoreNext
<1>4. ASSUME NEW ok \in BOOLEAN, Awake(system_config_load(ok)) \/ Awake(config_init(ok))
      PROVE  [StoreNext]_store_vars
  BY <1>4 DEF Awake, StoreNext
<1>5. CASE Configure
  BY <1>5 DEF Configure, Awake, StoreNext
<1>6. CASE GoToSleep
  BY <1>6 DEF GoToSleep, StoreNext
<1>7. CASE Reset \/ WakeUpAgain \/ Start(PowerOn) \/ CutPower
  BY <1>7 DEF Reset, WakeUpAgain, Start, CutPower, StoreNext
<1>8. CASE UNCHANGED device_vars
  BY <1>8 DEF device_vars
<1> QED BY <1>1, <1>2, <1>3, <1>4, <1>5, <1>6, <1>7, <1>8 DEF DeviceNext

\* The device's resets and sleeps are those of Boot.
THEOREM DeviceBoots == DeviceSpec => Spec
<1>1. DeviceInit => Init
  BY DEF DeviceInit
<1> QED BY <1>1, DeviceStepsBoot, PTL DEF DeviceSpec, Spec

\* The device's use of its flash is that of ConfigStore.
THEOREM DeviceStores == DeviceSpec => ConfigStoreSpec
<1>1. DeviceInit => StoreInit
  BY DEF DeviceInit
<1> QED BY <1>1, DeviceStepsStore, PTL DEF DeviceSpec, ConfigStoreSpec

\* So that, on the device too, settings saved to the end stay, a boot finds old
\* settings, new ones or the defaults, and a reboot loop leads to the reset of the
\* configuration.
THEOREM DeviceKeepsPromises == DeviceSpec => []SavedStays /\ StoreSpec /\ []LoopWipes
BY DeviceBoots, DeviceStores, SettingsStay, StoreRefinement, LoopIsBroken

\* And what is announced to the user is how long the device sleeps, whatever is done to
\* its flash.
THEOREM DeviceSleeps ==
  ASSUME GarbageInvalid
  PROVE  DeviceSpec => []SleepsAsAnnounced
BY GarbageInvalid, DeviceBoots, SleepsLongEnough

--------------------------------------------------------------------------------
(* What holds between the two: where the program is for either of them, and what   *)
(* the flash holds between the check and the moment when it is loaded.             *)

Together ==
  /\ phase = "boot" => at = "check" /\ ~Saving
  /\ phase = "wiping" =>
       at = "system_config_load" /\ Saving /\ slot = "default" /\ data = Default
  /\ phase = "sleep_init" => at = "system_config_load"
  /\ phase \in {"sleep_init", "awake"} /\ at = "system_config_load" => ~Saving
  /\ Saving /\ at = "config_init" => slot = "system"

Loading ==
  phase \in {"sleep_init", "awake"} /\ at \in {"system_config_load", "config_init"}

Wiped == Loading /\ streak > MAX_UNEXP_RESET_COUNT /\ ~failed => flash[0] = Default

KeptInFlash == kept # Nothing => flash[0] = kept

DeviceIInv == IInv /\ StoreIInv /\ Together /\ Wiped /\ KeptInFlash

Invariants == Together /\ Wiped /\ KeptInFlash

LEMMA DeviceInitIInv == DeviceInit => DeviceIInv
<1> SUFFICES ASSUME DeviceInit PROVE DeviceIInv
  OBVIOUS
<1>1. IInv /\ StoreIInv
  BY InitIInv, StoreInitIInv DEF DeviceInit
<1>2. Together /\ Wiped /\ KeptInFlash
  BY DEF DeviceInit, Init, StoreInit, Together, Wiped, Loading, KeptInFlash, Saving
<1> QED BY <1>1, <1>2 DEF DeviceIInv

\* A boot that finds no loop has not had too many unexpected resets before it.
LEMMA NoLoopNoStreak ==
  ASSUME IInv, system_check_reboot_loop
  PROVE  ~(streak > MAX_UNEXP_RESET_COUNT)
<1>1. phase = "boot" /\ ~RebootLoop(FullBoot)
  BY DEF system_check_reboot_loop
<1>2. Unexp \in Nat /\ streak \in Nat
  BY DEF IInv, TypeOK, Rtcs, Unexp
<1>3. CASE reason = "unexpected"
  <2>1. rtc.magic /\ Unexp + 1 <= streak
        /\ (Unexp + 1 >= streak \/ Unexp >= MAX_UNEXP_RESET_COUNT)
    BY <1>1, <1>3 DEF IInv, BootCount
  <2>2. ~(Unexp >= MAX_UNEXP_RESET_COUNT)
    BY <1>1, <1>3, <2>1 DEF RebootLoop, rtc_get_value, FullBoot, Unexp
  <2> QED BY <1>2, <2>1, <2>2, BootAssumption
<1>4. CASE reason # "unexpected"
  <2>1. streak = 0
    BY <1>1, <1>4 DEF IInv, BootCount
  <2> QED BY <2>1, BootAssumption
<1> QED BY <1>3, <1>4

LEMMA CheckDeviceIInv == DeviceIInv /\ Check => Invariants'
<1> SUFFICES ASSUME DeviceIInv, Check PROVE Invariants'
  OBVIOUS
<1>1. at' = "system_config_load" /\ ~Saving /\ UNCHANGED <<flash, failed>>
  BY DEF Check, CheckRebootLoop
<1>2. CASE system_check_reboot_loop /\ CheckRebootLoop(FALSE)
  <2>1. phase' = "sleep_init" /\ UNCHANGED <<streak, data, kept>>
    BY <1>2 DEF system_check_reboot_loop, CheckRebootLoop
  <2>2. ~(streak' > MAX_UNEXP_RESET_COUNT)
    BY <1>2, <2>1, NoLoopNoStreak DEF DeviceIInv
  <2> QED
    BY <1>1, <2>1, <2>2
      DEF Invariants, Together, Wiped, KeptInFlash, DeviceIInv, Saving
<1>3. CASE ResettingConfiguration /\ CheckRebootLoop(TRUE)
  <2>1. /\ phase' = "wiping" /\ slot' = "default" /\ data' = Default /\ kept' = Nothing
    BY <1>3 DEF ResettingConfiguration, CheckRebootLoop, flashcfg_save
  <2> QED
    BY <1>1, <2>1, StoreAssumption
      DEF Invariants, Together, Wiped, Loading, KeptInFlash, Saving
<1> QED BY <1>2, <1>3 DEF Check

\* A step of a save changes the first sector only if it is one of the default slot.
LEMMA FlashDeviceIInv == DeviceIInv /\ Flash => Invariants'
<1> SUFFICES ASSUME DeviceIInv, Flash PROVE Invariants'
  OBVIOUS
<1>1. Saving /\ UNCHANGED <<at, slot, ram, streak>>
  BY DEF Flash, EraseOrWrite, FlashFails, flashcfg_reset, vars
<1>2. \/ phase' = phase /\ (phase = "wiping" => data' # Nothing)
      \/ phase = "wiping" /\ phase' = "sleep_init" /\ data' = Nothing
  BY DEF Flash, flashcfg_reset, vars
<1>3. data' = data \/ data' = Nothing
  BY EraseOrWriteSteps DEF DeviceIInv, Flash, FlashFails, Return
<1>4. flash \in [Sectors -> Settings \cup {Erased}] /\ 0 \in Sectors /\ 1 \in Sectors /\ 2 \in Sectors
  BY DEF DeviceIInv, StoreIInv, StoreTypeOK, Sectors
<1>5. Together'
  BY <1>1, <1>2, <1>3 DEF DeviceIInv, Together, Saving
<1>6. slot = "system" => flash'[0] = flash[0] /\ kept' = kept
  BY <1>4, EraseOrWriteSteps DEF DeviceIInv, Flash, FlashFails, Return
<1>7. slot = "default" =>
        \/ kept' = Nothing
        \/ kept' = data /\ flash'[0] = data /\ data' = Nothing
  <2>1. slot = "default" => kept = Nothing
    BY <1>1 DEF DeviceIInv, StoreIInv, Progress
  <2>2. slot = "default" /\ step = 3 => flash[0] = data
    BY <1>1 DEF DeviceIInv, StoreIInv, Progress
  <2>3. CASE FlashFails
    BY <2>1, <2>3 DEF FlashFails, Return
  <2>4. CASE EraseOrWrite
    BY <1>4, <2>1, <2>2, <2>4, EraseOrWriteSteps DEF DeviceIInv
  <2> QED BY <2>3, <2>4 DEF Flash
<1>8. KeptInFlash'
  BY <1>6, <1>7, <1>1 DEF DeviceIInv, KeptInFlash, StoreIInv, StoreTypeOK, Slots
<1>9. Wiped'
  <2> SUFFICES ASSUME Loading', streak' > MAX_UNEXP_RESET_COUNT, ~failed'
               PROVE  flash'[0] = Default
    BY DEF Wiped
  <2>1. EraseOrWrite /\ failed' = failed
    BY DEF Flash
  <2>2. CASE phase = "wiping" /\ phase' = "sleep_init" /\ data' = Nothing
    <3>1. slot = "default" /\ data = Default
      BY <2>2 DEF DeviceIInv, Together
    <3>2. step = 3
      BY <2>1, <2>2, <3>1, EraseOrWriteSteps, StoreAssumption DEF DeviceIInv, Saving
    <3>3. flash[0] = Default
      BY <1>1, <3>1, <3>2 DEF DeviceIInv, StoreIInv, Progress
    <3> QED BY <1>4, <2>1, <3>1, <3>2, <3>3, EraseOrWriteSteps DEF DeviceIInv
  <2>3. CASE phase' = phase
    <3>1. phase \in {"sleep_init", "awake"} /\ at = "config_init"
      BY <1>1, <2>3 DEF Loading, DeviceIInv, Together
    <3>2. slot = "system"
      BY <1>1, <3>1 DEF DeviceIInv, Together
    <3>3. flash[0] = Default
      BY <1>1, <2>1, <3>1 DEF DeviceIInv, Wiped, Loading
    <3> QED BY <1>6, <3>2, <3>3
  <2> QED BY <1>2, <2>2, <2>3
<1> QED BY <1>5, <1>8, <1>9 DEF Invariants

\* The other steps of the boot find no save under way, or begin one that leaves the
\* first sector to its own steps.
LEMMA BootDeviceIInv ==
  ASSUME DeviceIInv,
         \/ SleepInit
         \/ \E ok \in BOOLEAN : Awake(system_config_load(ok)) \/ Awake(config_init(ok))
  PROVE  Invariants'
<1>1. CASE SleepInit
  <2>1. phase = "sleep_init" /\ at = "system_config_load" /\ ~Saving
        /\ UNCHANGED <<streak, failed, flash, kept>>
    BY <1>1 DEF SleepInit, sleep_init, PowerCut, store_vars, DeviceIInv, Together
  <2>2. \/ phase' = "awake" /\ UNCHANGED store_vars
        \/ phase' = "asleep" /\ at' = "off"
    BY <1>1 DEF SleepInit, sleep_init, SleepFor, PowerCut
  <2> QED
    BY <2>1, <2>2
      DEF store_vars, Invariants, Together, Wiped, Loading, KeptInFlash, DeviceIInv, Saving
<1>2. ASSUME NEW ok \in BOOLEAN, Awake(system_config_load(ok))
      PROVE  Invariants'
  <2>1. /\ phase = "awake" /\ UNCHANGED <<phase, streak, failed, flash, kept>>
        /\ at = "system_config_load" /\ at' = "config_init" /\ ~Saving
        /\ slot' = "system" \/ UNCHANGED data
    BY <1>2 DEF Awake, vars, system_config_load, flashcfg_save
  <2> QED
    BY <2>1 DEF Invariants, Together, Wiped, Loading, KeptInFlash, DeviceIInv, Saving
<1>3. ASSUME NEW ok \in BOOLEAN, Awake(config_init(ok))
      PROVE  Invariants'
  <2>1. /\ phase = "awake" /\ UNCHANGED <<phase, flash>> /\ at' = "running"
        /\ kept' = kept \/ kept' = Nothing
    BY <1>3 DEF Awake, vars, config_init, flashcfg_save
  <2> QED
    BY <2>1 DEF Invariants, Together, Wiped, Loading, KeptInFlash, DeviceIInv, Saving
<1> QED BY <1>1, <1>2, <1>3

\* A program that runs has nothing to load, nor has one that stops or starts again.
LEMMA RunningDeviceIInv ==
  ASSUME DeviceIInv,
         Configure \/ GoToSleep \/ Reset \/ WakeUpAgain \/ Start(PowerOn) \/ CutPower
  PROVE  Invariants'
<1>1. flash' = flash /\ kept' \in {kept, Nothing}
  BY DEF Configure, Awake, PatchDevice, config_factory_reset, flashcfg_save, GoToSleep,
         PowerCut, Reset, WakeUpAgain, Start, Reboot, PowerBack, Reboots, CutPower,
         store_vars
<1>2. \/ phase' = "awake" /\ at' = "running"
      \/ /\ phase' \in {"dozing", "asleep", "off"}
         /\ at' = "off" \/ UNCHANGED <<at, slot, data>>
      \/ phase' = "boot" /\ at' = "check" /\ data' = Nothing
  <2>1. Configure => phase' = "awake" /\ at' = "running"
    BY DEF Configure, Awake, vars, PatchDevice, config_factory_reset
  <2>2. GoToSleep => phase' \in {"dozing", "asleep"}
    BY DEF GoToSleep, on_sleep, FallAsleep
  <2>5. GoToSleep \/ CutPower => at' = "off" \/ UNCHANGED <<at, slot, data>>
    BY DEF GoToSleep, CutPower, PowerCut, store_vars
  <2>3. CutPower => phase' = "off"
    BY DEF CutPower, PowerOff
  <2>4. Reset \/ WakeUpAgain \/ Start(PowerOn) =>
          phase' = "boot" /\ at' = "check" /\ data' = Nothing
    BY DEF Reset, WakeUpAgain, Start, Crash, ExternalReset, SoftRestart, WakeUp, PowerOn,
           Restarts, Reboot, PowerBack, Reboots
  <2> QED BY <2>1, <2>2, <2>3, <2>4, <2>5
<1> QED
  BY <1>1, <1>2 DEF Invariants, Together, Wiped, Loading, KeptInFlash, DeviceIInv, Saving

LEMMA DeviceNextIInv == DeviceIInv /\ [DeviceNext]_device_vars => DeviceIInv'
<1> SUFFICES ASSUME DeviceIInv, [DeviceNext]_device_vars PROVE DeviceIInv'
  OBVIOUS
<1>1. IInv'
  BY DeviceStepsBoot, NextIInv DEF DeviceIInv
<1>2. StoreIInv'
  BY DeviceStepsStore, StoreNextIInv DEF DeviceIInv
<1>3. Invariants'
  <2>1. CASE UNCHANGED device_vars
    BY <2>1 DEF device_vars, vars, store_vars, Invariants, Together, Wiped, Loading,
                KeptInFlash, DeviceIInv, Saving
  <2>2. CASE DeviceNext
    BY <2>2, CheckDeviceIInv, FlashDeviceIInv, BootDeviceIInv, RunningDeviceIInv
      DEF DeviceNext
  <2> QED BY <2>1, <2>2
<1> QED BY <1>1, <1>2, <1>3 DEF DeviceIInv, Invariants

\* What the device is, whatever resets, power cuts and failures it goes through.
THEOREM DeviceInvariance == DeviceSpec => []DeviceIInv
BY DeviceInitIInv, DeviceNextIInv, PTL DEF DeviceSpec

--------------------------------------------------------------------------------
(* The promises of the two together. *)

\* The flash that a boot finds was wiped whenever the boots before it were too many
\* (user_main.c, user_init): it is the order of the check, the wiping and the loading
\* that makes it so.
THEOREM LoopStartsAfresh == DeviceSpec => StartsAfresh
<1>1. ASSUME DeviceIInv, [DeviceNext]_device_vars
      PROVE  [at' = "running" /\ at # "running"
                /\ streak > MAX_UNEXP_RESET_COUNT /\ ~failed
                  => ram' = Default]_device_vars
  <2> SUFFICES ASSUME DeviceNext, at' = "running", at # "running",
                      streak > MAX_UNEXP_RESET_COUNT, ~failed
               PROVE  ram' = Default
    BY <1>1
  <2>1. PICK ok \in BOOLEAN : Awake(config_init(ok))
    BY DEF DeviceNext, Check, CheckRebootLoop, Flash, EraseOrWrite, FlashFails, SleepInit,
           PowerCut, store_vars, Awake, system_config_load, Configure, PatchDevice,
           config_factory_reset, GoToSleep, Reset, WakeUpAgain, Start, Reboot, PowerBack,
           Reboots, CutPower
  <2>2. flash[0] = Default
    BY <1>1, <2>1 DEF Awake, config_init, DeviceIInv, Wiped, Loading
  <2> QED
    BY <2>1, <2>2 DEF Awake, config_init, flashcfg_load, FLASH_CONFIG_OFFS
<1> QED BY <1>1, DeviceInvariance, PTL DEF DeviceSpec, StartsAfresh

\* Of all that happens to a device only a user and a reboot loop make it give up the
\* settings it saved.
THEOREM SavedUnlessLoop == DeviceSpec => KeptUnlessLoop
<1>1. ASSUME DeviceIInv, [DeviceNext]_device_vars
      PROVE  [kept # Nothing /\ kept' = Nothing
                => at = "running" \/ streak > MAX_UNEXP_RESET_COUNT]_device_vars
  <2> SUFFICES ASSUME DeviceNext, kept # Nothing, kept' = Nothing, at # "running"
               PROVE  streak > MAX_UNEXP_RESET_COUNT
    BY <1>1
  <2>1. flash[0] = kept /\ kept \in Settings /\ kept # Erased
    BY <1>1, StoreAssumption
      DEF DeviceIInv, KeptInFlash, StoreIInv, StoreTypeOK, Settings
  <2>2. CASE Check
    <3>1. ResettingConfiguration
      BY <2>2 DEF Check, CheckRebootLoop
    <3>2. /\ phase = "boot" /\ reason = "unexpected"
          /\ (IF ~rtc.magic THEN 0 ELSE Unexp) >= MAX_UNEXP_RESET_COUNT
      BY <3>1 DEF ResettingConfiguration, RebootLoop, rtc_get_value, FullBoot, Unexp
    <3>4. rtc.magic /\ Unexp + 1 <= streak
      BY <1>1, <3>2 DEF DeviceIInv, IInv, BootCount
    <3>3. Unexp \in Nat /\ streak \in Nat
      BY <1>1 DEF DeviceIInv, IInv, TypeOK, Rtcs, Unexp
    <3> QED BY <3>2, <3>3, <3>4, BootAssumption
  <2>3. CASE Flash
    <3>1. Saving /\ (slot = "default" => kept = Nothing)
      BY <1>1, <2>3
        DEF Flash, EraseOrWrite, FlashFails, DeviceIInv, StoreIInv, Progress
    <3> QED BY <1>1, <2>3, <3>1, EraseOrWriteSteps
              DEF Flash, FlashFails, Return, DeviceIInv
  <2>4. ASSUME NEW ok \in BOOLEAN, Awake(config_init(ok)) PROVE FALSE
    BY <2>1, <2>4, StoreAssumption
      DEF Awake, config_init, flashcfg_load, FLASH_CONFIG_OFFS, LooksErased, flashcfg_save
  <2> QED
    BY <2>2, <2>3, <2>4
      DEF DeviceNext, SleepInit,
          PowerCut, store_vars, Awake, system_config_load, flashcfg_save, Configure,
          PatchDevice, config_factory_reset, GoToSleep, Reset, WakeUpAgain, Start, Reboot,
          PowerBack, Reboots, CutPower
<1> QED BY <1>1, DeviceInvariance, PTL DEF DeviceSpec, KeptUnlessLoop

================================================================================
