------------------------------ MODULE HttpResponse ------------------------------
(***************************************************************************)
(* What src/espgoodies/httpclient.c makes of a response's text: it is      *)
(* collected piece by piece and read when the connection is over, which    *)
(* may be anywhere in it.  (Module HttpClient has the life of a request.)  *)
(*                                                                         *)
(* A text is a sequence of characters, a word standing for several where   *)
(* the code compares or skips them as one: the version in the status line, *)
(* the status after it, and the Transfer-Encoding header's name and value. *)
(***************************************************************************)
EXTENDS Integers, Sequences, SequencesExt

CONSTANTS
  BUFFER_SIZE_MAX,     \* in characters
  PieceSizes,          \* what may come in at once
  Responses,           \* that servers send: [version, headers, chunked, extension, parts]
  NoResponse

VARIABLES
  response,     \* the response that is being sent
  coming,       \* the part of its text that is still to come
  buffer,       \* req->buffer, of req->buffer_size characters
  incomplete,   \* history: a piece of the response did not get into the buffer
  told          \* what the callback was given, or Crash
response_vars == <<response, coming, buffer, incomplete, told>>

NUL  == "NUL"
JUNK == "JUNK"   \* what is in the memory behind the buffer
CRLF == <<"\r", "\n">>

KnownVersions == {"HTTP/1.0 ", "HTTP/1.1 "}

Told(status, headers, body) == [status |-> status, headers |-> headers, body |-> body]

Crash == Told("crash", << >>, << >>)   \* a fatal exception

ResponseInit ==
  /\ response = NoResponse /\ coming = << >>
  /\ buffer = <<NUL>> /\ incomplete = FALSE
  /\ told = NoResponse

--------------------------------------------------------------------------------
(* What servers send. *)

ChunkedHeader == <<"Transfer-Encoding", "chunked">>

SentHeaders(m) == IF m.chunked THEN Append(m.headers, ChunkedHeader) ELSE m.headers

SentBody(m) == FlattenSeq(m.parts)

HeaderText(header) == <<header[1], ":", " ", header[2]>> \o CRLF

HexDigits == <<"0", "1", "2", "3", "4", "5", "6", "7", "8", "9", "a", "b", "c", "d", "e", "f">>

Hex(n) ==
  LET numeral[k \in 0 .. n] ==
        IF k < 16 THEN <<HexDigits[k + 1]>>
        ELSE Append(numeral[k \div 16], HexDigits[(k % 16) + 1])
  IN  numeral[n]

Chunk(m, part) == Hex(Len(part)) \o m.extension \o CRLF \o part \o CRLF

StatusLine(m) == <<m.version, "200", " ", "o">> \o CRLF

HeadersText(m) == FlattenSeq([i \in DOMAIN SentHeaders(m) |-> HeaderText(SentHeaders(m)[i])])

BodyText(m) ==
  IF m.chunked
  THEN FlattenSeq([i \in DOMAIN m.parts |-> Chunk(m, m.parts[i])]) \o <<"0">> \o CRLF \o CRLF
  ELSE SentBody(m)

ResponseText(m) == StatusLine(m) \o HeadersText(m) \o CRLF \o BodyText(m)

\* Names and values are one character or word, which is none that the text is divided
\* by, nor the beginning of a status line; neither is any other part of a text but its
\* first.  There is a chunk for every part, and a size ends where its extension begins.
ASSUME ResponseAssumption ==
  /\ PieceSizes \subseteq Nat \ {0} /\ NoResponse \notin Responses
  /\ Responses \subseteq [version : STRING, headers : Seq(STRING \X STRING), chunked : BOOLEAN,
                          extension : Seq(STRING), parts : Seq(Seq(STRING))]
  /\ \A m \in Responses :
       /\ \A i \in DOMAIN m.headers :
            /\ m.chunked \/ m.headers[i] # ChunkedHeader
            /\ \A k \in 1 .. 2 :
                 m.headers[i][k] \notin {":", " ", "\r", "\n", NUL} \cup KnownVersions
       /\ \A i \in DOMAIN m.extension : m.extension[i] \notin {"\r", "\n", NUL} \cup KnownVersions
       /\ m.extension # << >> => m.extension[1] \notin Range(HexDigits)
       /\ \A i \in DOMAIN m.parts :
            /\ m.chunked => m.parts[i] # << >>
            /\ \A k \in DOMAIN m.parts[i] : m.parts[i][k] \notin {NUL, JUNK} \cup KnownVersions

--------------------------------------------------------------------------------
(* Functions on strings; a text may hold several, each ended by a NUL. *)

\* The first position from i on of a character in S, or 0.
Find(text, i, S) == SelectInSubSeq(text, i, Len(text), LAMBDA c : c \in S)

\* The first position from i on of one that is not, or 0.
Skip(text, i, S) == SelectInSubSeq(text, i, Len(text), LAMBDA c : c \notin S)

UpToNul(text) == IF NUL \in Range(text) THEN SubSeq(text, 1, Find(text, 1, {NUL}) - 1) ELSE text

\* os_strstr, 0 for NULL.
strstr(text, i, pattern) ==
  LET Found == {j \in i .. Len(text) - Len(pattern) + 1 :
                  /\ SubSeq(text, j, j + Len(pattern) - 1) = pattern
                  /\ \A k \in i .. j : text[k] # NUL}
  IN  IF Found = {} THEN 0 ELSE Min(Found)

HexDigitValue(c) == CHOOSE d \in 0 .. 15 : HexDigits[d + 1] = c

\* strtol of a chunk: white space, then as many digits as there are.
chunk_size(text, i) ==
  LET first  == Skip(text, i, {" ", "\r", "\n"})
      behind == Skip(text, first, Range(HexDigits))
      number[k \in first - 1 .. behind - 1] ==
        IF k < first THEN 0 ELSE 16 * number[k - 1] + HexDigitValue(text[k])
  IN  number[behind - 1]

--------------------------------------------------------------------------------
(* Reading a response. *)

\* mutant: the line end after a chunk's data is taken for the next chunk's
BehindData(src, size) == src + size

BehindChunk(src, size) == src + size + 2

\* From the chunk at src on.  The data is moved to the left within the body, so what
\* is behind it is still as it came in; there is less of it than the chunk's size if
\* the response was cut.  An incomplete size line makes os_strstr return NULL, which
\* is read from.
chunked_decode(chunked) ==
  LET Data(src, size) ==
        [k \in 1 .. size |-> IF src + k - 1 <= Len(chunked) THEN chunked[src + k - 1] ELSE JUNK]
      Decoded[src \in Nat \ {0}] ==
        LET size == chunk_size(chunked, src)
            line == strstr(chunked, src, CRLF)
        IN  IF src > Len(chunked) \/ size = 0
            THEN [crash |-> FALSE, body |-> << >>]
            ELSE IF line = 0
            THEN [crash |-> TRUE, body |-> << >>]
            ELSE LET others == Decoded[BehindChunk(line + 2, size)]
                 IN  [others EXCEPT !.body = Data(line + 2, size) \o @]
  IN  Decoded[1]

\* The loop over the headers, behind the response line.  One that is not complete is
\* not counted.
header_lines(text) ==
  LET Lines[i \in Nat] ==
        LET colon == Find(text, i, {":"})
            value == Skip(text, colon + 1, {" "})
            end   == Find(text, value, {"\r", "\n"})
        IN  IF i > Len(text) \/ colon = 0 \/ value = 0 \/ end = 0
            THEN << >>
            ELSE << <<SubSeq(text, i, colon - 1), SubSeq(text, value, end - 1)>> >> \o Lines[end + 2]
      newline == Find(text, 1, {"\n"})
  IN  IF newline = 0 THEN << >> ELSE Lines[newline + 1]

\* A plain body's size counts the NUL that ends the buffer.  A response that ends
\* within its headers makes os_strstr return NULL, which is written to.
ReadResponse ==
  IF buffer[1] \notin KnownVersions
  THEN Told("-1", header_lines(UpToNul(buffer)), << >>)
  ELSE LET blank   == strstr(buffer, 1, CRLF \o CRLF)
           head    == SubSeq(buffer, 1, blank + 1)
           body    == SubSeq(buffer, blank + 4, Len(buffer))
           decoded == chunked_decode(body)
       IN  IF blank = 0 THEN Crash
           ELSE IF strstr(head, 1, <<"Transfer-Encoding", ":", " ", "chunked">>) = 0
           THEN Told(buffer[2], header_lines(head), body)
           ELSE IF decoded.crash THEN Crash
           ELSE Told(buffer[2], header_lines(head), decoded.body)

--------------------------------------------------------------------------------
(* Steps. *)

\* mutant: the NUL at the end of what has come in is not overwritten
NulKept(piece) == buffer \o piece \o <<NUL>>

Stored(piece) == Front(buffer) \o piece \o <<NUL>>

\* A request is made and answered by a server.
NewResponse(m) ==
  /\ response = NoResponse \/ told # NoResponse
  /\ response' = m /\ coming' = ResponseText(m)
  /\ buffer' = <<NUL>> /\ incomplete' = FALSE
  /\ told' = NoResponse

\* Some of the text comes in, also after the connection was told to disconnect; it is
\* dropped if it is too long or there is no memory; the latter once for a response.
ReceivePiece(n) ==
  LET piece == SubSeq(coming, 1, n)
  IN  /\ n <= Len(coming) /\ told = NoResponse
      /\ coming' = SubSeq(coming, n + 1, Len(coming))
      /\ \/ /\ Len(buffer) + n <= BUFFER_SIZE_MAX
            /\ buffer' = Stored(piece)
            /\ UNCHANGED incomplete
         \/ /\ Len(buffer) + n > BUFFER_SIZE_MAX \/ ~incomplete
            /\ buffer' = [buffer EXCEPT ![1] = NUL]
            /\ incomplete' = TRUE
      /\ UNCHANGED <<response, told>>

ResponseOver ==
  /\ response # NoResponse /\ told = NoResponse
  /\ told' = ReadResponse
  /\ UNCHANGED <<response, coming, buffer, incomplete>>

ResponseNext ==
  \/ \E m \in Responses : NewResponse(m)
  \/ \E n \in PieceSizes : ReceivePiece(n)
  \/ ResponseOver

ResponseSpec == ResponseInit /\ [][ResponseNext]_response_vars

--------------------------------------------------------------------------------
(* Properties. *)

\* A response that came in whole is told as it was sent, its headers in order and its
\* chunks put together; of one that was cut, what is told is the beginning of it; and
\* one of which a piece was lost, or in another protocol, is a failure without a body.
ResponseRead ==
  told # NoResponse =>
    LET Known == response.version \in KnownVersions
        Pairs == [i \in DOMAIN SentHeaders(response) |->
                    <<<<SentHeaders(response)[i][1]>>, <<SentHeaders(response)[i][2]>>>>]
    IN  IF told = Crash
        THEN Known /\ ~incomplete /\ coming # << >>
        ELSE IF Known /\ ~incomplete /\ told.status # "-1"
        THEN /\ told.status = "200" /\ told.headers = Pairs
             /\ IsPrefix(UpToNul(told.body), SentBody(response))
             /\ coming = << >> => /\ UpToNul(told.body) = SentBody(response)
                                /\ JUNK \notin Range(told.body)
        ELSE /\ told.status = "-1" /\ told.body = << >>
             /\ Known /\ ~incomplete => buffer = <<NUL>>

================================================================================
