------------------------------ MODULE MCHttpParser ------------------------------
(* Small instances of HttpParser for TLC: any characters, in any order. *)
EXTENDS HttpParser

AnyChars == {"L", "1", "3", "-", ":", " ", "\r", "\n", "/", "?", "#"}

\* States that differ in what the headers say are one: the parser goes on in the same
\* way from each, whatever it has stored, and no property of the run looks at it.
HeadersCounted ==
  <<[hc EXCEPT !.headers = Len(@)], [n \in DOMAIN delivered |-> delivered[n].body],
    rejected>>

================================================================================
