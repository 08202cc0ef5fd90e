--------------------------------- MODULE Uptime ---------------------------------
(***************************************************************************)
(* system_uptime_us of src/espgoodies/system.c: the time since the program *)
(* started, made of differences of a counter of microseconds that          *)
(* overflows.                                                              *)
(*                                                                         *)
(* The system task calls it all the time; the time between two calls is    *)
(* less than a period of the counter by more than the second that tells an *)
(* overflow.                                                               *)
(***************************************************************************)
EXTENDS Integers

CONSTANTS
  Period,    \* 2^32: of system_get_time
  Second,    \* 1000000
  MaxTime    \* bound

ASSUME UptimeAssumption == Period \in Nat /\ Second \in Nat /\ Second < Period

UINT_MAX == Period - 1

VARIABLES
  system_time,            \* system_get_time
  last_time_us, uptime_us,
  now, called,            \* history: the true time, and that of the last call
  overflows               \* history: of the counter, until the last call
uptime_vars == <<system_time, last_time_us, uptime_us, now, called, overflows>>

UptimeInit ==
  /\ system_time = 0 /\ last_time_us = 0 /\ uptime_us = 0
  /\ now = 0 /\ called = 0 /\ overflows = 0

TimePasses(d) ==
  /\ now + d <= MaxTime
  /\ now + d - called < Period - Second
  /\ now' = now + d
  /\ system_time' = IF system_time + d < Period THEN system_time + d
                    ELSE system_time + d - Period
  /\ UNCHANGED <<last_time_us, uptime_us, called, overflows>>

\* mutant: a whole second and more
LongAgo == system_time - last_time_us < -Second - 1

Overflow == system_time - last_time_us < -Second

system_uptime_us ==
  /\ uptime_us' = uptime_us + (IF Overflow THEN system_time + UINT_MAX - last_time_us
                               ELSE system_time - last_time_us)
  /\ last_time_us' = system_time
  /\ called' = now
  /\ overflows' = IF system_time < last_time_us THEN overflows + 1 ELSE overflows
  /\ UNCHANGED <<system_time, now>>

UptimeNext ==
  \/ \E d \in 1 .. Period : TimePasses(d)
  \/ system_uptime_us

UptimeSpec == UptimeInit /\ [][UptimeNext]_uptime_vars

--------------------------------------------------------------------------------
(* Properties. *)

\* The uptime is the time of the last call, less a microsecond for every overflow of
\* the counter: none is missed or counted twice, whenever the calls come.
UptimeFollows == uptime_us = called - overflows

================================================================================
