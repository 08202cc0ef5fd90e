-------------------------------- MODULE MCLibrary --------------------------------
(* Small instances of the modules about messages, texts and numbers, side by side:  *)
(* they share nothing, and each run of the model is one of a single part.           *)
EXTENDS HttpMessages, HttpResponse, Json, DnsServer, Version, Uptime

VARIABLE part

--------------------------------------------------------------------------------
(* Requests. *)

AllChars == Letters \cup Spaces \cup Digits \cup {"/", "?", "#", ":"}

SomePaths == {<< >>, <<"a">>, <<"a", "/", "a">>}
SomeQueries == {<< >>, <<"a", "1">>, <<"a", "?", "/">>}
SomeBodies == BoundedSeq({"a"}, 4) \cup {<<"\n", "\n">>}
\* Of the last one there are as many as header_count goes through.
SomeHeaders ==
  {<< >>, << <<<<"a">>, <<"1">>>>, <<<<"1">>, <<"2">>>>, <<<<"2">>, <<"3">>>>, <<<<"3">>, <<"a">>>> >>, << <<<<"a">>, <<"L", ":">>>> >>, << <<<<"a", "a", "a">>, <<"1">>>> >>,
   << <<<<"a">>, <<"1", " ", "a">>>>, <<<<"L", "a">>, <<"3">>>> >>}

--------------------------------------------------------------------------------
(* Responses: in a version of the protocol that is known or not, with up to two   *)
(* headers and chunked or not; with a body that is empty, of two parts that look  *)
(* like the ends of a head and of chunks, with a chunk whose size has two digits  *)
(* and which just fits the buffer, or too long for it.                            *)

SomeResponses ==
  LET Replies(versions, headers, chunked, extensions, parts) ==
        [version : versions, headers : headers, chunked : {chunked}, extension : extensions,
         parts : parts]
      Parts == {<< >>, << <<"\r", "\n", "\r", "\n", "o">>, <<"1">> >>}
      Long  == [k \in 1 .. 18 |-> "o"]
      One   == << <<"a", "1">> >>
      Two   == << <<"a", "1">>, <<"b", "o">> >>
  IN  Replies({"HTTP/1.1 "}, {<< >>, Two}, FALSE, {<< >>}, Parts)
      \cup Replies({"HTTP/1.0 ", "HTTP/2 "}, {One}, FALSE, {<< >>}, Parts \cup {<<Long, Long>>})
      \cup Replies({"HTTP/1.1 "}, {One}, TRUE, {<< >>}, Parts)
      \cup Replies({"HTTP/1.1 "}, {<< >>}, TRUE, {<<";", "o">>}, Parts \cup {<<Long>>})

--------------------------------------------------------------------------------
(* Values: scalars, strings, and lists and objects of up to two of them or of one *)
(* list or object.                                                                *)

Scalar == Node("scalar", <<"1">>, << >>, << >>)

String(chars) == Node("string", chars, << >>, << >>)

Containers(S) ==
  {Node("list", << >>, << >>, c) : c \in BoundedSeq(S, 2)}
  \cup {Node("object", << >>, SubSeq(<<<<"a">>, <<"k">>>>, 1, Len(c)), c) :
          c \in BoundedSeq(S, 2)}

SomeDumps ==
  {Scalar} \cup Containers({Scalar, String(<<"\"", "\\">>)})
  \cup {String(s) : s \in {<< >>, <<"a">>, <<"\n">>, <<"\"", "\\">>, <<"\\", "n">>,
                           <<"a", "\\", "\"", "a">>}}
  \cup Containers({Node("list", << >>, << >>, <<Scalar>>), Node("object", << >>, << >>, << >>),
                   Node("object", << >>, <<<<"k">>>>, <<Scalar>>)})

SomeTokens ==
  {Mark(k) : k \in {"{", "}", "[", "]", ",", ":", "junk", "unterminated"}}
  \cup {Token("string", <<"a">>), Token("scalar", <<"1">>)}

SomeNames == {<<"a">>}

--------------------------------------------------------------------------------
(* Questions to the DNS server, and versions. *)

\* The name of the last one is a byte too long.
SomeQuestions ==
  [name : {<< >>, <<<<7>>>>, <<<<1, 2>>, <<3>>>>, <<<<1, 2>>, <<3, 4>>>>}, qtype : {1, 28, 255}, qclass : {1, 3, 255}]

SomeExtras == {<<0>>, <<1, 0, 1, 0>>, <<0, 0, 0, 0, 0, 0, 0, 0, 0, 0, 0, 0>>}

\* Stable versions and those without a type are built with label 0.
SomeVersions ==
  {v \in [major : {1}, minor : {0, 10}, patch : {31, 255}, label : {0, 3, 31}, type : 1 .. 7] :
     v.type # 4 /\ (v.type \in {5, 6} <=> v.label = 0)}

SomeOthers ==
  {<<"1", ".", "2">>, <<"1", ".", "2", ".", "3", "-", "beta", "4">>,
   <<"1", ".", "2", ".", "3", "-", "dev", ".", "4">>,
   <<"2", ".", "5", "7", ".", "3", "-", "rc", ".", "6", "4">>}

--------------------------------------------------------------------------------
library_vars ==
  <<part, vars, message_vars, response_vars, json_vars, dns_vars, version_vars, uptime_vars>>

LibraryInit ==
  /\ part \in {"http", "response", "json", "dns", "version", "uptime"}
  /\ MessageInit /\ ResponseInit /\ JsonInit /\ DnsInit /\ VersionInit /\ UptimeInit

LibraryNext ==
  /\ UNCHANGED part
  /\ part = "http" \/ UNCHANGED <<vars, message_vars>>
  /\ part = "response" \/ UNCHANGED response_vars
  /\ part = "json" \/ UNCHANGED json_vars
  /\ part = "dns" \/ UNCHANGED dns_vars
  /\ part = "version" \/ UNCHANGED version_vars
  /\ part = "uptime" \/ UNCHANGED uptime_vars
  /\ \/ part = "http" /\ MessageNext
     \/ part = "response" /\ ResponseNext
     \/ part = "json" /\ JsonNext
     \/ part = "dns" /\ DnsNext
     \/ part = "version" /\ VersionNext
     \/ part = "uptime" /\ UptimeNext

LibrarySpec == LibraryInit /\ [][LibraryNext]_library_vars

================================================================================
