----------------------------------- MODULE Pwm -----------------------------------
(***************************************************************************)
(* Pulse width modulation by a timer interrupt, src/espgoodies/drivers/    *)
(* pwm.c: the phases of a cycle that prepare_phases computes, and the      *)
(* three sets of them that apply_config and the interrupt handler share.   *)
(*                                                                         *)
(* The time that a phase takes is its ticks and one more for the overhead; *)
(* a phase of fewer than SHORT ticks is waited for in the handler.  Masks  *)
(* are sets of channels.  pwm_setup is called with some channels, while    *)
(* the timer does not run; the period is at least 2 * SHORT + 2.           *)
(***************************************************************************)
EXTENDS Integers, Sequences, SequencesExt, FiniteSets, FiniteSetsExt

CONSTANTS
  Channels,       \* 1 .. channel_count
  SHORT,          \* 16
  Periods,        \* periods that frequencies are turned into
  FIRST_PERIOD,   \* the one of pwm_setup
  Percents,       \* duties that are asked for
  MaxChanges      \* bound: calls of pwm_set_duty and pwm_set_freq

ASSUME PwmAssumption ==
  /\ IsFiniteSet(Channels) /\ Channels \subseteq Nat
  /\ SHORT \in Nat /\ Percents \subseteq 0 .. 100 /\ MaxChanges \in Nat
  /\ \A period \in Periods \cup {FIRST_PERIOD} : period \in Nat /\ period >= 2 * SHORT + 2

VARIABLES
  phase_sets,      \* each with the configuration that it was computed for
  current_phase, next_phase, current_phase_no,   \* sets by number, 0 for NULL
  current_period, current_duties,
  enabled,
  timer,           \* "off", "armed", or "idle": it counts on and nobody has set it
  applying,        \* where apply_config is: "no", "preparing", "prepared"
  target,          \* the set it has chosen
  level,           \* of the channels' outputs
  on_time,         \* history: ticks that each was on for in this cycle of
  cycle,           \*   how many before it with the same set, or -1 if it is not a whole one
  last,            \* history: on_time of a cycle that has just ended, and the duties
  changes
config_vars == <<current_period, current_duties, changes>>
shared_vars == <<phase_sets, current_phase, next_phase, current_phase_no, timer, level>>
history_vars == <<on_time, cycle, last>>
pwm_vars == <<config_vars, shared_vars, history_vars, enabled, applying, target>>

--------------------------------------------------------------------------------
(* prepare_phases.  The first phase of the array is the first of the sequence. *)

Phase(ticks, on, off) == [ticks |-> ticks, on_mask |-> on, off_mask |-> off]

Flip(mask, other) == (mask \ other) \cup (other \ mask)

\* The elements of a finite set in an order, which is a set of pairs.
InOrder(S, Before) ==
  CHOOSE seq \in [1 .. Cardinality(S) -> S] :
    \A i, j \in 1 .. Cardinality(S) : i < j => <<seq[i], seq[j]>> \in Before

\* Channels with less than half the period go on at the start of it and off later,
\* the others the other way round; by the times of that, and by number at one time.
Unshifted(duties, period) ==
  LET Early  == {c \in Channels : duties[c] > 0 /\ duties[c] < period \div 2}
      Late   == {c \in Channels : duties[c] < period /\ duties[c] >= period \div 2}
      Always == {c \in Channels : duties[c] >= period}
      Event(c) == IF c \in Early THEN Phase(duties[c], {}, {c})
                  ELSE Phase(period - duties[c], {c}, {})
      Sooner == {p \in (Early \cup Late) \X (Early \cup Late) :
                   \/ Event(p[1]).ticks < Event(p[2]).ticks
                   \/ Event(p[1]).ticks = Event(p[2]).ticks /\ p[1] < p[2]}
      events == InOrder(Early \cup Late, Sooner)
  IN  <<Phase(0, Early \cup Always, Channels \ (Early \cup Always))>>
      \o [i \in 1 .. Cardinality(Early \cup Late) |-> Event(events[i])]
      \o <<Phase(period, {}, {})>>

Flipped(phases, i, off, on) ==
  [phases EXCEPT ![i].off_mask = Flip(@, off), ![i].on_mask = Flip(@, on)]

\* mutant: a channel is moved, and its phase at the start of the period is not flipped
ShiftedAlone(phases, l, r, diff, period) ==
  LET p == phases[r]
  IN  [Flipped(phases, l, p.off_mask, p.on_mask) EXCEPT
         ![r] = Phase(period - diff, p.off_mask, p.on_mask)]

\* The event at r is moved to l, and the other event of its channels, which was at
\* the start of the period, towards the end of the one before.
Shifted(phases, l, r, diff, period) ==
  LET p     == phases[r]
      moved == Flipped(phases, l, p.off_mask, p.on_mask)
  IN  [Flipped(moved, 1, p.on_mask, p.off_mask) EXCEPT
         ![r] = Phase(period - diff, p.off_mask, p.on_mask)]

\* The event at r, and the last one before it that is not moved.
ShiftEvent(s, r, period) ==
  LET diff == s.phases[r].ticks - s.phases[s.l].ticks
  IN  IF diff \in 1 .. SHORT
      THEN [s EXCEPT !.phases = Shifted(@, s.l, r, diff, period)]
      ELSE [s EXCEPT !.l = r]

\* No two events are closer than SHORT.
ShiftLeft(phases, period) ==
  LET after[r \in DOMAIN phases] == IF r = 1 THEN [phases |-> phases, l |-> 1]
                                    ELSE ShiftEvent(after[r - 1], r, period)
  IN  after[Len(phases)].phases

\* Sorted again, with one phase for each time.
MergeSame(phases) ==
  LET Times == {phases[i].ticks : i \in DOMAIN phases}
      times == InOrder(Times, {p \in Times \X Times : p[1] < p[2]})
      At(t) == {phases[i] : i \in {j \in DOMAIN phases : phases[j].ticks = t}}
  IN  [n \in 1 .. Cardinality(Times) |->
         Phase(times[n], UNION {p.on_mask : p \in At(times[n])},
                         UNION {p.off_mask : p \in At(times[n])})]

\* The last one ends the cycle and lasts for nothing.
Durations(phases) ==
  [i \in DOMAIN phases |->
    [phases[i] EXCEPT !.ticks = IF i = Len(phases) THEN 0
                                ELSE phases[i + 1].ticks - phases[i].ticks - 1]]

\* mutant: a short phase may be the last
NoCyclicShift(phases) == phases

\* The handler must not wait for the last phase of a cycle.
CyclicShift(phases) ==
  LET count == Len(phases) - 1
  IN  IF phases[count].ticks < SHORT
      THEN SubSeq(phases, 2, count) \o <<phases[1], Last(phases)>>
      ELSE phases

prepare_phases(duties, period) ==
  CyclicShift(Durations(MergeSame(ShiftLeft(Unshifted(duties, period), period))))

--------------------------------------------------------------------------------
(* The main task. *)

Unset == [phases |-> << >>, period |-> 0, duties |-> [c \in Channels |-> 0]]

Rest == [c \in Channels |-> 0]

PwmInit ==
  /\ phase_sets = [s \in 1 .. 3 |-> Unset]
  /\ current_phase = 0 /\ next_phase = 0 /\ current_phase_no = 1
  /\ current_period = 0 /\ current_duties = Rest
  /\ enabled = FALSE /\ timer = "off" /\ applying = "no" /\ target = 1
  /\ level = [c \in Channels |-> FALSE]
  /\ on_time = Rest /\ cycle = -1 /\ last = << >>
  /\ changes = 0

\* mutant: two sets do
TwoSets == IF 1 \in {next_phase, current_phase} THEN 2 ELSE 1

FreeSet ==
  IF 1 \notin {next_phase, current_phase} THEN 1
  ELSE IF 2 \notin {next_phase, current_phase} THEN 2 ELSE 3

\* apply_config, up to the first write to the set.
ChooseSet ==
  /\ target' = FreeSet
  /\ applying' = "preparing"
  /\ phase_sets' = [phase_sets EXCEPT ![FreeSet] = Unset]

pwm_setup ==
  /\ applying = "no" /\ timer = "off" /\ current_period = 0
  /\ current_period' = FIRST_PERIOD /\ current_duties' = Rest
  /\ ChooseSet
  /\ UNCHANGED <<changes, current_phase, next_phase, current_phase_no, timer, level,
                 history_vars, enabled>>

SetUp == applying = "no" /\ current_period # 0

Changed(duties, period) ==
  /\ SetUp /\ changes < MaxChanges
  /\ changes' = changes + 1
  /\ current_duties' = duties /\ current_period' = period
  /\ ChooseSet
  /\ UNCHANGED <<current_phase, next_phase, current_phase_no, timer, level, history_vars,
                 enabled>>

pwm_set_duty(c, duty) ==
  Changed([current_duties EXCEPT ![c] = (duty * current_period) \div 100], current_period)

\* pwm_get_duty
Percent(c) == (current_duties[c] * 100) \div current_period

pwm_set_freq(period) ==
  Changed([c \in Channels |-> (Percent(c) * period) \div 100], period)

Prepare ==
  /\ applying = "preparing"
  /\ phase_sets' = [phase_sets EXCEPT ![target] =
       [phases |-> prepare_phases(current_duties, current_period),
        period |-> current_period, duties |-> current_duties]]
  /\ applying' = "prepared"
  /\ UNCHANGED <<config_vars, current_phase, next_phase, current_phase_no, timer, level,
                 history_vars, enabled, target>>

Output(p) == level' = [c \in Channels |-> (level[c] \/ c \in p.on_mask) /\ c \notin p.off_mask]

Apply ==
  LET phases      == phase_sets[target].phases
      phase_count == Len(phases) - 1
  IN  /\ applying = "prepared" /\ applying' = "no"
      /\ CASE phase_count = 1 ->
                /\ timer' = "off" /\ next_phase' = 0
                /\ Output(phases[1])
                /\ UNCHANGED <<current_phase, current_phase_no, history_vars>>
           [] phase_count # 1 /\ next_phase = 0 ->
                /\ current_phase' = target /\ next_phase' = target
                /\ current_phase_no' = phase_count
                /\ timer' = "armed"
                /\ cycle' = -1 /\ on_time' = Rest /\ last' = << >>
                /\ UNCHANGED level
           [] OTHER ->
                /\ next_phase' = target
                /\ UNCHANGED <<current_phase, current_phase_no, timer, level, history_vars>>
      /\ UNCHANGED <<phase_sets, config_vars, enabled, target>>

pwm_enable == SetUp /\ ~enabled /\ enabled' = TRUE
              /\ UNCHANGED <<config_vars, shared_vars, history_vars, applying, target>>

pwm_disable == SetUp /\ enabled /\ enabled' = FALSE
               /\ UNCHANGED <<config_vars, shared_vars, history_vars, applying, target>>

--------------------------------------------------------------------------------
(* The interrupt. *)

\* What the handler does from position n of a set on, until it sets the timer: the
\* phases it writes out.
RunFrom(phases, n) ==
  LET stop == {i \in n .. Len(phases) : phases[i].ticks >= SHORT}
  IN  SubSeq(phases, n, IF stop = {} THEN Len(phases) ELSE Min(stop))

OnTime(phases, levels, times) ==
  LET after[i \in 0 .. Len(phases)] ==
        IF i = 0 THEN [levels |-> levels, times |-> times]
        ELSE LET p  == phases[i]
                 up == [c \in Channels |->
                          (after[i - 1].levels[c] \/ c \in p.on_mask) /\ c \notin p.off_mask]
             IN  [levels |-> up,
                  times  |-> [c \in Channels |-> after[i - 1].times[c] +
                                (IF up[c] THEN p.ticks + 1 ELSE 0)]]
  IN  after[Len(phases)]

\* With the timer left alone when PWM is not enabled.
intr_handler ==
  LET at       == phase_sets[current_phase].phases[current_phase_no]
      wraps    == at.on_mask = {} /\ at.off_mask = {}
      set      == IF wraps THEN next_phase ELSE current_phase
      first    == IF wraps THEN 1 ELSE current_phase_no
      run      == RunFrom(phase_sets[set].phases, first)
      result   == OnTime(run, level, IF wraps THEN Rest ELSE on_time)
  IN  /\ timer = "armed"
      /\ IF ~enabled
         THEN timer' = "idle" /\ UNCHANGED <<current_phase, current_phase_no, level, history_vars>>
         ELSE /\ current_phase' = set
              /\ current_phase_no' = first + Len(run)
              /\ level' = result.levels
              /\ on_time' = result.times
              /\ cycle' = IF ~wraps THEN cycle
                          ELSE IF set = current_phase /\ cycle < 1 THEN cycle + 1
                          ELSE IF set = current_phase THEN cycle ELSE 0
              /\ last' = IF wraps /\ cycle = 1
                         THEN <<on_time, phase_sets[current_phase].duties>> ELSE << >>
              /\ UNCHANGED timer
      /\ UNCHANGED <<phase_sets, next_phase, config_vars, enabled, applying, target>>

\* The counter, which nobody stopped, comes round.
TimerComesRound ==
  /\ timer = "idle" /\ timer' = "armed"
  /\ UNCHANGED <<config_vars, phase_sets, current_phase, next_phase, current_phase_no, level,
                 history_vars, enabled, applying, target>>

PwmNext ==
  \/ pwm_setup \/ pwm_enable \/ pwm_disable
  \/ \E c \in Channels, duty \in Percents : pwm_set_duty(c, duty)
  \/ \E period \in Periods : pwm_set_freq(period)
  \/ Prepare \/ Apply
  \/ intr_handler \/ TimerComesRound

PwmSpec == PwmInit /\ [][PwmNext]_pwm_vars

--------------------------------------------------------------------------------
(* Properties. *)

\* The handler never reads a set that apply_config is writing, and never past the
\* end of one, whatever the duties and whenever they are changed.
PhasesInRange ==
  timer # "off" => current_phase_no \in DOMAIN phase_sets[current_phase].phases

\* A cycle that repeats a set is on, for every channel, for its duty: near duties,
\* which share an event, and short ones, which are moved to the end of the cycle,
\* too.  And the set that goes on is that of the last configuration, or, if no
\* channel changes, the timer is off and the outputs are what the duties say.
DutiesOut ==
  /\ last # << >> => last[1] = last[2]
  /\ SetUp =>
       IF timer = "off"
       THEN \A c \in Channels : current_duties[c] = IF level[c] THEN current_period ELSE 0
       ELSE /\ phase_sets[next_phase].duties = current_duties
            /\ phase_sets[next_phase].period = current_period

================================================================================
