--------------------------------- MODULE Version ---------------------------------
(***************************************************************************)
(* Versions: src/espgoodies/version.c, and the word of the system          *)
(* configuration that system_set_fw_version of src/espgoodies/system.c     *)
(* keeps one in.                                                           *)
(*                                                                         *)
(* The text of a version is a sequence of digits, words of letters, "."    *)
(* and "-".                                                                *)
(***************************************************************************)
EXTENDS Integers, Sequences, SequencesExt

CONSTANTS
  Released,   \* versions that are built, and parsed from texts of version_dump
  OtherTexts, \* other texts that are
  NoVersion   \* what they mean

VARIABLES
  version,          \* a caller's version_t
  fw_version_int,   \* of system.c
  release, saved      \* history: what was released, and if it came as a text; then both
                      \* when they were saved
version_vars == <<version, fw_version_int, release, saved>>

Bytes == 0 .. 255

Labels == 0 .. 31   \* that have a place in the word

Versions == [major : Bytes, minor : Bytes, patch : Bytes, label : Bytes, type : 0 .. 7]

\* A release of any type, with a label that has a place in the word.
ASSUME VersionAssumption == Released \subseteq {v \in Versions : v.label \in Labels}

types_str == <<"", "alpha", "beta", "rc", "", "", "", "unknown">>

VERSION_TYPE_ALPHA   == 1
VERSION_TYPE_BETA    == 2
VERSION_TYPE_RC      == 3
VERSION_TYPE_UNKNOWN == 5

Numerals == <<"0", "1", "2", "3", "4", "5", "6", "7", "8", "9">>

ValueOf == [c \in ToSet(Numerals) |-> (CHOOSE i \in 1 .. 10 : Numerals[i] = c) - 1]

--------------------------------------------------------------------------------
\* mutant: a digit starts the part anew
LastDigit(part, digit) == digit

NextDigit(part, digit) == (part * 10 + digit) % 256

\* The part that a digit belongs to is told by the dots before it alone.
ReadChar(p, c) ==
  CASE c \in DOMAIN ValueOf -> [p EXCEPT !.parts[p.index] = NextDigit(@, ValueOf[c])]
    [] c = "."      -> [p EXCEPT !.index = IF @ < 4 THEN @ + 1 ELSE @]
    [] c = "-"      -> p
    [] OTHER        -> [p EXCEPT !.type_str = Append(@, c)]

NothingRead == [index |-> 1, parts |-> <<0, 0, 0, 0>>, type_str |-> << >>]

ReadText(s) ==
  LET after[n \in 0 .. Len(s)] == IF n = 0 THEN NothingRead ELSE ReadChar(after[n - 1], s[n])
  IN  after[Len(s)]

TypesNamed(words) ==
  {i \in 0 .. VERSION_TYPE_UNKNOWN :
     words = IF types_str[i + 1] = "" THEN << >> ELSE <<types_str[i + 1]>>}

\* The memory's when no type has the name.
ParsedType(words, old_type) ==
  LET types == TypesNamed(words)
  IN  IF types = {} THEN old_type ELSE CHOOSE i \in types : \A j \in types : i <= j

version_parse(s, old_type) ==
  LET read == ReadText(s)
  IN  [major |-> read.parts[1], minor |-> read.parts[2], patch |-> read.parts[3],
       label |-> read.parts[4], type |-> ParsedType(read.type_str, old_type)]

Decimal(n) ==
  (IF n < 100 THEN << >> ELSE <<Numerals[n \div 100 + 1]>>)
  \o (IF n < 10 THEN << >> ELSE <<Numerals[((n \div 10) % 10) + 1]>>)
  \o <<Numerals[(n % 10) + 1]>>

version_dump(v) ==
  Decimal(v.major) \o <<".">> \o Decimal(v.minor) \o <<".">> \o Decimal(v.patch)
  \o (IF types_str[v.type + 1] = "" THEN << >>
      ELSE <<"-", types_str[v.type + 1], ".">> \o Decimal(v.label))

\* The patch with the bits of the label that have no place of their own.
Overlaid(patch, label) ==
  LET Bit(b) == IF (patch \div b) % 2 = 1 \/ ((label \div 32) \div b) % 2 = 1 THEN b ELSE 0
  IN  8 * (patch \div 8) + Bit(4) + Bit(2) + Bit(1)

version_to_int(v) ==
  256 * (256 * (256 * v.major + v.minor) + Overlaid(v.patch, v.label))
  + 8 * (v.label % 32) + v.type

\* mutant: the label keeps its place
LabelUnshifted(n) ==
  [major |-> ((n \div 256) \div 256) \div 256, minor |-> ((n \div 256) \div 256) % 256,
   patch |-> (n \div 256) % 256, label |-> (n % 256) \div 16, type |-> n % 8]

version_from_int(n) ==
  [major |-> ((n \div 256) \div 256) \div 256, minor |-> ((n \div 256) \div 256) % 256,
   patch |-> (n \div 256) % 256, label |-> (n % 256) \div 8, type |-> n % 8]

version_cmp(v, w) ==
  LET m == version_to_int(v)
      n == version_to_int(w)
  IN  IF m < n THEN -1 ELSE IF m > n THEN 1 ELSE 0

--------------------------------------------------------------------------------
VersionInit ==
  /\ version = version_from_int(0) /\ fw_version_int = 0
  /\ release = [version |-> version, text |-> FALSE]
  /\ saved = [version |-> version, release |-> release]

\* The version of the build, from the macros FW_VERSION_*.
Build(v) ==
  /\ version' = v /\ release' = [version |-> v, text |-> FALSE]
  /\ UNCHANGED <<fw_version_int, saved>>

\* The type stays as it was in memory when the text has one that is not known.
Parse(s, v) ==
  /\ \E old_type \in {1, 7} : version' = version_parse(s, old_type)
  /\ release' = [version |-> v, text |-> TRUE]
  /\ UNCHANGED <<fw_version_int, saved>>

system_set_fw_version ==
  /\ fw_version_int' = version_to_int(version)
  /\ saved' = [version |-> version, release |-> release]
  /\ UNCHANGED <<version, release>>

system_get_fw_version ==
  /\ version' = version_from_int(fw_version_int)
  /\ release' = saved.release
  /\ UNCHANGED <<fw_version_int, saved>>

VersionNext ==
  \/ \E v \in Released : Build(v) \/ Parse(version_dump(v), v)
  \/ \E s \in OtherTexts : Parse(s, NoVersion)
  \/ system_set_fw_version \/ system_get_fw_version

VersionSpec == VersionInit /\ [][VersionNext]_version_vars

--------------------------------------------------------------------------------
(* Properties. *)

\* What is read from the text of v.  Alpha, beta and rc are read as they were written.
\* Of a stable version (type 6, VERSION_TYPE_STABLE) as of all whose type has no name
\* there is no more than the numbers, and the type is 0; "unknown", which is written
\* for type 7 (VERSION_TYPE_GIT), names none that is read.
AsRead(v, w) ==
  /\ w.major = v.major /\ w.minor = v.minor /\ w.patch = v.patch
  /\ v.type \in {VERSION_TYPE_ALPHA, VERSION_TYPE_BETA, VERSION_TYPE_RC}
       => w.type = v.type /\ w.label = v.label
  /\ types_str[v.type + 1] = "" => w.type = 0 /\ w.label = 0
  /\ types_str[v.type + 1] = "unknown" => w.label = v.label

\* A released version is the same after it was kept in the word of the configuration
\* and loaded from it, whatever other versions came between; one that was written out
\* and parsed before is what its text says, which is the same for alpha, beta and rc.
VersionKept ==
  release.version # NoVersion =>
    \/ version = release.version
    \/ release.text /\ AsRead(release.version, version)

Earlier(v, w) ==
  \/ v.major < w.major
  \/ v.major = w.major /\ v.minor < w.minor
  \/ v.major = w.major /\ v.minor = w.minor /\ v.patch < w.patch

================================================================================
