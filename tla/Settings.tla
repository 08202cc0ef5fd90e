-------------------------------- MODULE Settings --------------------------------
(***************************************************************************)
(* What a store of settings promises when power may fail at any moment: a  *)
(* boot finds the old settings, the new ones or the defaults, never a      *)
(* mixture, and settings that were saved to the end stay.                  *)
(***************************************************************************)
CONSTANTS Values, Default, Nothing

VARIABLES
  stored,   \* what a boot would load now
  saving,   \* what is being saved, or Nothing
  written   \* the new settings are in
vars == <<stored, saving, written>>

Init ==
  /\ stored \in Values \cup {Default}
  /\ saving = Nothing /\ written = FALSE

Begin(v) ==
  /\ saving = Nothing
  /\ saving' = v /\ written' = FALSE
  /\ UNCHANGED stored

Lose ==
  /\ saving # Nothing /\ ~written
  /\ stored' = Default
  /\ UNCHANGED <<saving, written>>

Write ==
  /\ saving # Nothing
  /\ stored' = saving /\ written' = TRUE
  /\ UNCHANGED saving

\* Done, failed, or cut by a restart.
End ==
  /\ saving # Nothing
  /\ saving' = Nothing /\ written' = FALSE
  /\ UNCHANGED stored

Next ==
  \/ \E v \in Values \cup {Default} : Begin(v)
  \/ Lose \/ Write \/ End

Spec == Init /\ [][Next]_vars

================================================================================
