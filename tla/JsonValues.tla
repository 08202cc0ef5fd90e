------------------------------- MODULE JsonValues -------------------------------
(***************************************************************************)
(* What src/espgoodies/json.c promises to a caller who never looks at      *)
(* memory: a handful of values, no two of which share anything, each       *)
(* changed by the calls made with it alone.  A copy lacks the parts whose  *)
(* members were freed, and the program does not survive that such a copy   *)
(* is written or copied in turn.                                           *)
(***************************************************************************)
EXTENDS JsonText

CONSTANT Names   \* the keys that the caller uses

VARIABLE values   \* one per pointer that the caller holds

ValuesInit == values = << >>

\* json_parse: a new value, whatever the text said.
Created ==
  /\ Len(values') = Len(values) + 1
  /\ Front(values') = values

\* A value without its freed parts.
RECURSIVE Left(_)
Left(v) ==
  IF v = Freed THEN Missing
  ELSE [v EXCEPT !.children = [n \in DOMAIN @ |-> Left(@[n])]]

Duplicated(i) ==
  /\ values[i] # Freed /\ ~Incomplete(values[i])
  /\ values' = Append(values, Left(values[i]))

Disposed(i) == values' = RemoveAt(values, i)

Stripped(i) ==
  /\ ~Incomplete(values[i])
  /\ values' = [values EXCEPT ![i] = Freed]

Stringified(i) ==
  /\ ~Incomplete(values[i])
  /\ values' = [values EXCEPT
                  ![i] = Node("stringified", json_dump_rec(values[i]), << >>, << >>)]

\* The fatal exception of a call with an incomplete value.
Lost(i) == Incomplete(values[i]) /\ values' = << >>

\* The n-th child of the i-th value, if it is there, has become a value of its own.
Popped(i, n) ==
  LET v    == values[i]
      rest == [v EXCEPT !.children = RemoveAt(@, n),
                        !.keys = IF v.type = "object" THEN RemoveAt(@, n) ELSE @]
  IN  values' = [values EXCEPT ![i] = rest]
                \o SelectSeq(<<v.children[n]>>, LAMBDA child : child # Missing)

\* The j-th value has become the last child of the i-th.
Adopted(i, j) ==
  \E keys \in IF values[i].type = "object" THEN {<<k>> : k \in Names} ELSE {<< >>} :
    values' = RemoveAt([values EXCEPT ![i].children = Append(@, values[j]),
                                      ![i].keys = @ \o keys], j)

ValuesNext ==
  \/ Created
  \/ \E i \in DOMAIN values :
       \/ Duplicated(i) \/ Disposed(i) \/ Stripped(i) \/ Stringified(i) \/ Lost(i)
       \/ \E n \in DOMAIN values[i].children : Popped(i, n)
       \/ \E j \in DOMAIN values \ {i} : Adopted(i, j)

ValuesSpec == ValuesInit /\ [][ValuesNext]_values

================================================================================
