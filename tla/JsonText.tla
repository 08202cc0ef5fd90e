-------------------------------- MODULE JsonText --------------------------------
(***************************************************************************)
(* Values and their texts, as src/espgoodies/json.c writes and reads them. *)
(* A text is a sequence of tokens; numbers, booleans and null are scalars. *)
(* The characters of strings are of four kinds: quotes, backslashes, the   *)
(* control characters with an escape of their own ("\n" for all of them,   *)
(* with "n" as its letter) and the rest.                                   *)
(***************************************************************************)
EXTENDS Integers, Sequences, SequencesExt

CONSTANT JSON_MAX_VALUE_LEN   \* of a string that is read

Node(type, text, keys, children) ==
  [type |-> type, text |-> text, keys |-> keys, children |-> children]

Freed == Node("freed", << >>, << >>, << >>)   \* JSON_TYPE_MEMBERS_FREED

Missing == Node("missing", << >>, << >>, << >>)   \* the child of a list or object is NULL

\* Writing or copying it goes through NULL.
RECURSIVE Incomplete(_)
Incomplete(v) == v = Missing \/ \E i \in DOMAIN v.children : Incomplete(v.children[i])

Token(kind, chars) == [kind |-> kind, chars |-> chars]
Mark(kind) == Token(kind, << >>)

\* mutant: backslashes are written as they are
BackslashPlain(text) ==
  FlattenSeq([i \in DOMAIN text |->
    IF text[i] \in {"\"", "\n"}
    THEN <<"\\", IF text[i] = "\n" THEN "n" ELSE text[i]>> ELSE <<text[i]>>])

Escaped(text) ==
  FlattenSeq([i \in DOMAIN text |->
    CASE text[i] \in {"\"", "\\"} -> <<"\\", text[i]>>
      [] text[i] = "\n"           -> <<"\\", "n">>
      [] OTHER                    -> <<text[i]>>])

CommaSeparated(texts) ==
  FlattenSeq([i \in DOMAIN texts |->
    IF i = 1 THEN texts[i] ELSE <<Mark(",")>> \o texts[i]])

\* Keys are written as they are.
RECURSIVE json_dump_rec(_)
json_dump_rec(v) ==
  CASE v.type = "scalar" -> <<Token("scalar", v.text)>>
    [] v.type = "string" -> <<Token("string", Escaped(v.text))>>
    [] v.type = "list" ->
         <<Mark("[")>>
         \o CommaSeparated([i \in DOMAIN v.children |-> json_dump_rec(v.children[i])])
         \o <<Mark("]")>>
    [] v.type = "object" ->
         <<Mark("{")>>
         \o CommaSeparated([i \in DOMAIN v.children |->
              <<Token("string", v.keys[i]), Mark(":")>> \o json_dump_rec(v.children[i])])
         \o <<Mark("}")>>
    [] v.type = "stringified" -> v.text
    [] v.type = "freed" -> << >>

--------------------------------------------------------------------------------
EscapeMeaning == [c \in {"n", "\"", "\\"} |-> IF c = "n" THEN "\n" ELSE c]

\* mutant: the character after a backslash is read again
Unescaped1(chars) ==
  SelectSeq([i \in DOMAIN chars |->
    IF i > 1 /\ chars[i - 1] = "\\" /\ chars[i] \in DOMAIN EscapeMeaning
    THEN EscapeMeaning[chars[i]] ELSE chars[i]], LAMBDA c : c # "\\")

\* An unknown escape gives a backslash.
Unescaped(chars) ==
  LET from[i \in 1 .. Len(chars) + 2] ==
        CASE i > Len(chars) -> << >>
          [] i <= Len(chars) /\ chars[i] # "\\" -> <<chars[i]>> \o from[i + 1]
          [] OTHER ->
               <<IF i < Len(chars) /\ chars[i + 1] \in DOMAIN EscapeMeaning
                 THEN EscapeMeaning[chars[i + 1]] ELSE "\\">> \o from[i + 2]
  IN  from[1]

Truncated(text) ==
  SubSeq(text, 1, IF Len(text) < JSON_MAX_VALUE_LEN THEN Len(text) ELSE JSON_MAX_VALUE_LEN)

================================================================================
