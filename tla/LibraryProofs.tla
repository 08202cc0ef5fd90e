------------------------------ MODULE LibraryProofs ------------------------------
(* Theorems about parts of the library: the numbers of Uptime, the words and texts  *)
(* of Version, the answers of HttpClient, and what HttpResponse tells of one.       *)
EXTENDS Uptime, Version, HttpClient, HttpResponse, SequenceLemmas

--------------------------------------------------------------------------------
(* Uptime, for any period of the counter and any second shorter than that: the      *)
(* counter has gone round once since the last call, or not at all.                  *)

Elapsed == now - called

Counter ==
  /\ system_time \in 0 .. Period - 1 /\ last_time_us \in 0 .. Period - 1
  /\ now \in Nat /\ called \in Nat /\ overflows \in Nat /\ uptime_us \in Int
  /\ 0 <= Elapsed /\ Elapsed < Period - Second
  /\ \/ system_time = last_time_us + Elapsed
     \/ system_time = last_time_us + Elapsed - Period

UptimeIInv == Counter /\ UptimeFollows

LEMMA UptimeInitIInv == UptimeInit => UptimeIInv
BY UptimeAssumption DEF UptimeInit, UptimeIInv, Counter, Elapsed, UptimeFollows

\* The difference of two readings is below minus a second just when there was an
\* overflow between them.
LEMMA OverflowSeen ==
  ASSUME Counter
  PROVE  /\ Overflow => system_time = last_time_us + Elapsed - Period
         /\ ~Overflow => system_time = last_time_us + Elapsed
         /\ Overflow <=> system_time < last_time_us
BY UptimeAssumption DEF Counter, Elapsed, Overflow

LEMMA UptimeNextIInv == UptimeIInv /\ [UptimeNext]_uptime_vars => UptimeIInv'
<1> SUFFICES ASSUME UptimeIInv, [UptimeNext]_uptime_vars PROVE UptimeIInv'
  OBVIOUS
<1>1. ASSUME NEW d \in 1 .. Period, TimePasses(d) PROVE UptimeIInv'
  <2>1. UNCHANGED <<last_time_us, uptime_us, called, overflows>>
    BY <1>1 DEF TimePasses
  <2>2. now' = now + d /\ now + d - called < Period - Second
    BY <1>1 DEF TimePasses
  <2>3. \/ system_time + d < Period /\ system_time' = system_time + d
        \/ system_time + d >= Period /\ system_time' = system_time + d - Period
    BY <1>1, UptimeAssumption DEF TimePasses, UptimeIInv, Counter
  <2> QED BY <2>1, <2>2, <2>3, UptimeAssumption
            DEF UptimeIInv, Counter, Elapsed, UptimeFollows
<1>2. CASE system_uptime_us
  <2>1. last_time_us' = system_time /\ called' = now /\ UNCHANGED <<system_time, now>>
    BY <1>2 DEF system_uptime_us
  <2>2. CASE Overflow
    <3>1. uptime_us' = uptime_us + (system_time + Period - 1 - last_time_us)
          /\ overflows' = overflows + 1
      BY <1>2, <2>2, OverflowSeen, UptimeAssumption
        DEF system_uptime_us, UINT_MAX, UptimeIInv, Counter
    <3> QED BY <2>1, <2>2, <3>1, OverflowSeen, UptimeAssumption
              DEF UptimeIInv, Counter, Elapsed, UptimeFollows
  <2>3. CASE ~Overflow
    <3>1. uptime_us' = uptime_us + (system_time - last_time_us) /\ overflows' = overflows
      BY <1>2, <2>3, OverflowSeen DEF system_uptime_us, UptimeIInv
    <3> QED BY <2>1, <2>3, <3>1, OverflowSeen, UptimeAssumption
              DEF UptimeIInv, Counter, Elapsed, UptimeFollows
  <2> QED BY <2>2, <2>3
<1>3. CASE UNCHANGED uptime_vars
  BY <1>3 DEF uptime_vars, UptimeIInv, Counter, Elapsed, UptimeFollows
<1> QED BY <1>1, <1>2, <1>3 DEF UptimeNext

\* No overflow of system_get_time is missed or taken for two (system.c:203), whatever
\* the period, as long as the calls come.
THEOREM UptimeIsTime == UptimeSpec => []UptimeFollows
<1>1. UptimeIInv => UptimeFollows
  BY DEF UptimeIInv
<1> QED BY <1>1, UptimeInitIInv, UptimeNextIInv, PTL DEF UptimeSpec

--------------------------------------------------------------------------------
(* The word of a version. *)

\* A label that has a place in the word leaves the patch alone.
LEMMA PatchAlone ==
  ASSUME NEW patch \in Bytes, NEW label \in Labels
  PROVE  Overlaid(patch, label) = patch
<1>1. label \div 32 = 0
  BY DEF Labels
<1>2. /\ (0 \div 4) % 2 = 0 /\ (0 \div 2) % 2 = 0 /\ (0 \div 1) % 2 = 0
  OBVIOUS
<1> DEFINE Bit(b) == IF (patch \div b) % 2 = 1 THEN b ELSE 0
<1>3. Overlaid(patch, label) = 8 * (patch \div 8) + Bit(4) + Bit(2) + Bit(1)
  BY <1>1, <1>2 DEF Overlaid
<1>4. 8 * (patch \div 8) + Bit(4) + Bit(2) + Bit(1) = patch
  BY DEF Bytes
<1> QED BY <1>3, <1>4

\* Every version whose label is below 32 comes back from its word as it was
\* (version_to_int, version_from_int: the system configuration keeps one so).
THEOREM WordKeepsVersion ==
  \A v \in Versions : v.label \in Labels => version_from_int(version_to_int(v)) = v
<1> SUFFICES ASSUME NEW v \in Versions, v.label \in Labels
             PROVE  version_from_int(version_to_int(v)) = v
  OBVIOUS
<1>1. /\ v.major \in Bytes /\ v.minor \in Bytes /\ v.patch \in Bytes /\ v.type \in 0 .. 7
  BY DEF Versions
<1>2. PICK a, b, c, l, t :
        a = v.major /\ b = v.minor /\ c = v.patch /\ l = v.label /\ t = v.type
  OBVIOUS
<1>3. PICK k, m, n :
        k = 256 * a + b /\ m = 256 * k + c /\ n = 256 * m + (8 * l + t)
  OBVIOUS
<1>4. /\ a \in 0 .. 255 /\ b \in 0 .. 255 /\ c \in 0 .. 255 /\ l \in 0 .. 31 /\ t \in 0 .. 7
  BY <1>1, <1>2 DEF Bytes, Labels
<1>5. l % 32 = l
  BY <1>4
<1>6. version_to_int(v) = n
  <2>1. Overlaid(v.patch, v.label) = c
    BY <1>1, <1>2, PatchAlone
  <2>2. version_to_int(v) = 256 * (256 * (256 * a + b) + c) + 8 * l + t
    BY <1>2, <1>5, <2>1 DEF version_to_int
  <2> QED BY <1>3, <1>4, <2>2
<1>7. k \in Nat /\ m \in Nat /\ n \in Nat
  BY <1>3, <1>4
<1>8. 8 * l + t \in 0 .. 255
  BY <1>4
<1>9. n \div 256 = m /\ n % 256 = 8 * l + t
  BY <1>3, <1>7, <1>8
<1>10. m \div 256 = k /\ m % 256 = c
  BY <1>3, <1>4, <1>7
<1>11. k \div 256 = a /\ k % 256 = b
  BY <1>3, <1>4, <1>7
<1>12. (8 * l + t) \div 8 = l
  BY <1>4
<1>13. n % 8 = t
  <2>1. PICK j \in Nat : j = 32 * m + l
    BY <1>4, <1>7
  <2>2. n = 8 * j + t
    BY <1>3, <1>4, <1>7, <2>1
  <2> QED BY <1>4, <2>1, <2>2
<1>14. version_from_int(n) = [major |-> a, minor |-> b, patch |-> c, label |-> l, type |-> t]
  BY <1>9, <1>10, <1>11, <1>12, <1>13 DEF version_from_int
<1> QED BY <1>2, <1>6, <1>14 DEF Versions

\* The word says which of two versions is the later one, if their first three parts
\* differ: their labels and types never get in the way (version_cmp).
THEOREM LaterIsGreater ==
  \A v, w \in Versions :
    v.label \in Labels /\ w.label \in Labels /\ Earlier(v, w) => version_cmp(v, w) = -1
<1> SUFFICES ASSUME NEW v \in Versions, NEW w \in Versions,
                    v.label \in Labels, w.label \in Labels, Earlier(v, w)
             PROVE  version_cmp(v, w) = -1
  OBVIOUS
<1>1. PICK a, b, c, l, t :
        a = v.major /\ b = v.minor /\ c = v.patch /\ l = v.label /\ t = v.type
  OBVIOUS
<1>2. PICK p, q, r, k, u :
        p = w.major /\ q = w.minor /\ r = w.patch /\ k = w.label /\ u = w.type
  OBVIOUS
<1>3. /\ a \in 0 .. 255 /\ b \in 0 .. 255 /\ c \in 0 .. 255 /\ l \in 0 .. 31 /\ t \in 0 .. 7
      /\ p \in 0 .. 255 /\ q \in 0 .. 255 /\ r \in 0 .. 255 /\ k \in 0 .. 31 /\ u \in 0 .. 7
  BY <1>1, <1>2 DEF Versions, Bytes, Labels
<1>4. l % 32 = l /\ k % 32 = k
  BY <1>3
<1>5. /\ version_to_int(v) = 256 * (256 * (256 * a + b) + c) + 8 * l + t
      /\ version_to_int(w) = 256 * (256 * (256 * p + q) + r) + 8 * k + u
  <2>1. Overlaid(v.patch, v.label) = c /\ Overlaid(w.patch, w.label) = r
    BY <1>1, <1>2, PatchAlone DEF Versions
  <2> QED BY <1>1, <1>2, <1>4, <2>1 DEF version_to_int
<1>6. a < p \/ (a = p /\ b < q) \/ (a = p /\ b = q /\ c < r)
  BY <1>1, <1>2 DEF Earlier
<1>7. version_to_int(v) < version_to_int(w)
  BY <1>3, <1>5, <1>6
<1> QED BY <1>7 DEF version_cmp

--------------------------------------------------------------------------------
(* The text of a version. A reader that was at p before the text s is at q after    *)
(* it: Reads(p, s, q), which texts that follow each other hand on.                  *)

TypeWords == {"alpha", "beta", "rc", "unknown"}

TextChars == {Numerals[i] : i \in 1 .. 10} \cup {".", "-"} \cup TypeWords

Walk(after, p, s) ==
  after = [n \in 0 .. Len(s) |-> IF n = 0 THEN p ELSE ReadChar(after[n - 1], s[n])]

Reads(p, s, q) ==
  /\ \E after : Walk(after, p, s)
  /\ \A after : Walk(after, p, s) => after[Len(s)] = q

\* What Walk says of each character.
LEMMA WalkSteps ==
  ASSUME NEW after, NEW p, NEW s \in Seq(TextChars)
  PROVE  Walk(after, p, s) <=>
           /\ after = [n \in 0 .. Len(s) |-> after[n]]
           /\ after[0] = p
           /\ \A n \in 1 .. Len(s) : after[n] = ReadChar(after[n - 1], s[n])
<1>1. PICK k : k \in Nat /\ k = Len(s)
  OBVIOUS
<1>2. 0 \in 0 .. k /\ \A n \in 0 .. k : n = 0 \/ n \in 1 .. k
  BY <1>1
<1>3. \A n \in 1 .. k : n \in 0 .. k /\ n # 0
  BY <1>1
<1> DEFINE step(n) == ReadChar(after[n - 1], s[n])
<1>4. Walk(after, p, s) <=> after = [n \in 0 .. k |-> IF n = 0 THEN p ELSE step(n)]
  BY <1>1 DEF Walk
<1> HIDE DEF step
<1>5. Walk(after, p, s) <=>
        /\ after = [n \in 0 .. k |-> after[n]]
        /\ after[0] = p
        /\ \A n \in 1 .. k : after[n] = step(n)
  BY <1>2, <1>3, <1>4
<1> QED BY <1>1, <1>5 DEF step

LEMMA ReadsNone == ASSUME NEW p PROVE Reads(p, << >>, p)
<1>1. << >> \in Seq(TextChars) /\ Len(<< >>) = 0
  OBVIOUS
<1>2. PICK f : f = [n \in 0 .. 0 |-> p]
  OBVIOUS
<1>3. Walk(f, p, << >>)
  BY <1>1, <1>2, WalkSteps
<1>4. \A g : Walk(g, p, << >>) => g[0] = p
  BY <1>1, WalkSteps
<1> QED BY <1>1, <1>3, <1>4 DEF Reads

LEMMA OneIsASeq == ASSUME NEW T, NEW c \in T PROVE <<c>> \in Seq(T)
OBVIOUS

LEMMA Three ==
  ASSUME NEW T, NEW a \in T, NEW b \in T, NEW c \in T
  PROVE  (<<a>> \o <<b>>) \o <<c>> = <<a, b, c>>
<1>1. PICK r, s, t : r = <<a>> /\ s = <<b>> /\ t = <<c>>
  OBVIOUS
<1>2. /\ r \in Seq(T) /\ s \in Seq(T) /\ t \in Seq(T)
      /\ Len(r) = 1 /\ Len(s) = 1 /\ Len(t) = 1 /\ r[1] = a /\ s[1] = b /\ t[1] = c
  BY <1>1
<1>3. PICK u, v : u = r \o s /\ v = u \o t
  OBVIOUS
<1>4. u \in Seq(T) /\ Len(u) = 2 /\ u[1] = a /\ u[2] = b
  <2>1. /\ r \o s \in Seq(T) /\ Len(r \o s) = Len(r) + Len(s)
        /\ \A i \in 1 .. Len(r) + Len(s) :
             (r \o s)[i] = IF i <= Len(r) THEN r[i] ELSE s[i - Len(r)]
    BY <1>2, ConcatProperties, Zenon
  <2>2. u \in Seq(T) /\ Len(u) = 2
    BY <1>2, <1>3, <2>1
  <2>3. \A i \in 1 .. 2 : u[i] = IF i <= 1 THEN r[i] ELSE s[i - 1]
    BY <1>2, <1>3, <2>1
  <2>4. 1 \in 1 .. 2 /\ 1 <= 1 /\ 2 \in 1 .. 2 /\ ~(2 <= 1) /\ 2 - 1 = 1
    OBVIOUS
  <2> QED BY <1>2, <2>2, <2>3, <2>4
<1>5. v \in Seq(T) /\ Len(v) = 3 /\ v[1] = a /\ v[2] = b /\ v[3] = c
  BY <1>2, <1>3, <1>4
<1>6. PICK w : w = <<a, b, c>>
  OBVIOUS
<1>7. w \in Seq(T) /\ Len(w) = 3 /\ w[1] = a /\ w[2] = b /\ w[3] = c
  BY <1>6
<1>8. v = w
  <2>1. \A i \in 1 .. 3 : i = 1 \/ i = 2 \/ i = 3
    OBVIOUS
  <2> QED BY <1>5, <1>7, <2>1, SeqEqual
<1> QED BY <1>1, <1>3, <1>6, <1>8

LEMMA ReadsOne == ASSUME NEW p, NEW c \in TextChars PROVE Reads(p, <<c>>, ReadChar(p, c))
<1>1. <<c>> \in Seq(TextChars) /\ Len(<<c>>) = 1 /\ <<c>>[1] = c
  BY OneIsASeq
<1>2. PICK s : s = <<c>>
  OBVIOUS
<1>3. s \in Seq(TextChars)
  BY <1>1, <1>2
<1>4. Len(s) = 1 /\ s[1] = c
  BY <1>1, <1>2
<1>5. \A n \in 1 .. 1 : n = 1 /\ n - 1 = 0
  OBVIOUS
<1>6. \E f : Walk(f, p, s)
  <2>1. PICK f : f = [n \in 0 .. 1 |-> IF n = 0 THEN p ELSE ReadChar(p, c)]
    OBVIOUS
  <2>2. f[0] = p /\ f[1] = ReadChar(p, c) /\ f = [n \in 0 .. 1 |-> f[n]]
    BY <2>1
  <2>3. Walk(f, p, s)
    BY <1>3, <1>4, <1>5, <2>2, WalkSteps
  <2> QED BY <2>3
<1>7. ASSUME NEW g, Walk(g, p, s) PROVE g[1] = ReadChar(p, c)
  <2>1. g[0] = p /\ \A n \in 1 .. Len(s) : g[n] = ReadChar(g[n - 1], s[n])
    BY <1>3, <1>7, WalkSteps
  <2>2. 1 \in 1 .. Len(s) /\ 1 - 1 = 0
    BY <1>4
  <2> QED BY <1>4, <2>1, <2>2
<1> QED BY <1>4, <1>6, <1>7, <1>2 DEF Reads

LEMMA ReadsConcat ==
  ASSUME NEW p, NEW q, NEW r, NEW s \in Seq(TextChars), NEW t \in Seq(TextChars),
         Reads(p, s, q), Reads(q, t, r)
  PROVE  Reads(p, s \o t, r) /\ s \o t \in Seq(TextChars)
<1>1. Len(s) \in Nat /\ Len(t) \in Nat
  OBVIOUS
<1>2. PICK k, l, u : k \in Nat /\ l \in Nat /\ k = Len(s) /\ l = Len(t) /\ u = s \o t
  BY <1>1
<1>3. u \in Seq(TextChars) /\ Len(u) = k + l
  BY <1>2
<1>4. \A n \in 1 .. k : u[n] = s[n]
  BY <1>2
<1>5. \A n \in 1 .. l : u[k + n] = t[n]
  BY <1>2
<1>6. \A h : Walk(h, p, u) => h[k + l] = r
  <2> SUFFICES ASSUME NEW h, Walk(h, p, u) PROVE h[k + l] = r
    OBVIOUS
  <2>1. h[0] = p /\ \A n \in 1 .. k + l : h[n] = ReadChar(h[n - 1], u[n])
    BY <1>3, WalkSteps
  <2>2. PICK f, g : f = [n \in 0 .. k |-> h[n]] /\ g = [n \in 0 .. l |-> h[k + n]]
    OBVIOUS
  <2>3. Walk(f, p, s)
    <3>1. f[0] = p
      BY <1>2, <2>1, <2>2
    <3>2. \A n \in 1 .. k : f[n] = ReadChar(f[n - 1], s[n])
      <4> SUFFICES ASSUME NEW n \in 1 .. k PROVE f[n] = ReadChar(f[n - 1], s[n])
        OBVIOUS
      <4>1. n \in 0 .. k /\ n - 1 \in 0 .. k /\ n \in 1 .. k + l
        BY <1>2
      <4> QED BY <1>4, <2>1, <2>2, <4>1
    <3>3. f = [n \in 0 .. k |-> f[n]]
      BY <2>2
    <3> QED BY <1>2, <3>1, <3>2, <3>3, WalkSteps
  <2>4. h[k] = q
    <3>1. f[k] = q
      BY <1>2, <2>3 DEF Reads
    <3> QED BY <1>2, <2>2, <3>1
  <2>5. Walk(g, q, t)
    <3>1. g[0] = q
      BY <1>2, <2>2, <2>4
    <3>2. \A n \in 1 .. l : g[n] = ReadChar(g[n - 1], t[n])
      <4> SUFFICES ASSUME NEW n \in 1 .. l PROVE g[n] = ReadChar(g[n - 1], t[n])
        OBVIOUS
      <4>1. n \in 0 .. l /\ n - 1 \in 0 .. l /\ k + n \in 1 .. k + l /\ k + n - 1 = k + (n - 1)
        BY <1>2
      <4>2. PICK j \in 1 .. k + l : j = k + n
        BY <4>1
      <4>3. j - 1 = k + (n - 1) /\ u[j] = t[n]
        <5>1. u[k + n] = t[n]
          BY <1>5
        <5>2. u[j] = t[n]
          BY <4>2, <5>1
        <5>3. j - 1 = k + (n - 1)
          BY <1>2, <4>2
        <5> QED BY <5>2, <5>3
      <4>4. g[n] = h[j] /\ g[n - 1] = h[j - 1]
        BY <2>2, <4>1, <4>2, <4>3
      <4> QED BY <2>1, <4>2, <4>3, <4>4
    <3>3. g = [n \in 0 .. l |-> g[n]]
      BY <2>2
    <3> QED BY <1>2, <3>1, <3>2, <3>3, WalkSteps
  <2>6. g[l] = r
    BY <1>2, <2>5 DEF Reads
  <2> QED BY <1>2, <2>2, <2>6
<1>7. \E h : Walk(h, p, u)
  <2>1. PICK f : Walk(f, p, s)
    BY DEF Reads
  <2>2. PICK g : Walk(g, q, t)
    BY DEF Reads
  <2>3. f[k] = q
    BY <1>2, <2>1 DEF Reads
  <2>4. f[0] = p /\ \A n \in 1 .. k : f[n] = ReadChar(f[n - 1], s[n])
    BY <1>2, <2>1, WalkSteps
  <2>5. g[0] = q /\ \A n \in 1 .. l : g[n] = ReadChar(g[n - 1], t[n])
    <3>1. t \in Seq(TextChars) /\ l = Len(t)
      BY <1>2
    <3> QED BY <2>2, <3>1, WalkSteps
  <2>6. PICK h : h = [n \in 0 .. k + l |-> IF n <= k THEN f[n] ELSE g[n - k]]
    OBVIOUS
  <2>7. h[0] = p
    BY <1>2, <2>4, <2>6
  <2>8. \A n \in 1 .. k + l : h[n] = ReadChar(h[n - 1], u[n])
    <3> SUFFICES ASSUME NEW n \in 1 .. k + l PROVE h[n] = ReadChar(h[n - 1], u[n])
      OBVIOUS
    <3>1. CASE n <= k
      <4>1. n \in 1 .. k /\ n - 1 <= k /\ n \in 0 .. k + l /\ n - 1 \in 0 .. k + l
        BY <1>2, <3>1
      <4>2. h[n] = f[n] /\ h[n - 1] = f[n - 1]
        BY <2>6, <3>1, <4>1
      <4> QED BY <1>4, <2>4, <4>1, <4>2
    <3>2. CASE ~(n <= k)
      <4>1. PICK i \in 1 .. l : i = n - k
        BY <1>2, <3>2
      <4>2. n = k + i /\ n \in 0 .. k + l /\ n - 1 \in 0 .. k + l /\ (n - 1) - k = i - 1
        BY <1>2, <4>1
      <4>3. h[n] = g[i]
        BY <2>6, <3>2, <4>1, <4>2
      <4>4. h[n - 1] = g[i - 1]
        <5>1. CASE n - 1 <= k
          <6>1. n - 1 = k /\ i - 1 = 0
            BY <1>2, <3>2, <4>1, <4>2, <5>1
          <6> QED BY <2>3, <2>5, <2>6, <4>2, <6>1
        <5>2. CASE ~(n - 1 <= k)
          BY <2>6, <4>2, <5>2
        <5> QED BY <5>1, <5>2
      <4> QED BY <1>5, <2>5, <4>1, <4>2, <4>3, <4>4
    <3> QED BY <3>1, <3>2
  <2>9. h = [n \in 0 .. k + l |-> h[n]]
    BY <2>6
  <2>10. Walk(h, p, u)
    BY <1>3, <2>7, <2>8, <2>9, WalkSteps
  <2> QED BY <2>10
<1> QED BY <1>2, <1>3, <1>6, <1>7 DEF Reads

--------------------------------------------------------------------------------
(* What version_dump writes, version_parse reads. *)

Partial == [index : 1 .. 4, parts : [1 .. 4 -> Bytes], type_str : Seq(TextChars)]

\* p with n for the part that it is at.
With(p, n) == [p EXCEPT !.parts[p.index] = n]

LEMMA WithReads ==
  ASSUME NEW p \in Partial, NEW n \in Bytes
  PROVE  /\ With(p, n) \in Partial
         /\ With(p, n).index = p.index /\ With(p, n).type_str = p.type_str
         /\ With(p, n).parts[p.index] = n
         /\ \A i \in 1 .. 4 : i # p.index => With(p, n).parts[i] = p.parts[i]
         /\ p.parts[p.index] = n => With(p, n) = p
         /\ \A m : With(With(p, n), m) = With(p, m)
BY DEF Partial, With

LEMMA NumeralsDiffer ==
  /\ \A i, j \in 1 .. 10 : Numerals[i] = Numerals[j] => i = j
  /\ DOMAIN ValueOf = {Numerals[i] : i \in 1 .. 10}
  /\ \A i \in 1 .. 10 : Numerals[i] \notin {".", "-"} \cup TypeWords
<1>1. \A i \in 1 .. 10 : i = 1 \/ i = 2 \/ i = 3 \/ i = 4 \/ i = 5
                         \/ i = 6 \/ i = 7 \/ i = 8 \/ i = 9 \/ i = 10
  OBVIOUS
<1>2. /\ Numerals[1] = "0" /\ Numerals[2] = "1" /\ Numerals[3] = "2" /\ Numerals[4] = "3"
      /\ Numerals[5] = "4" /\ Numerals[6] = "5" /\ Numerals[7] = "6" /\ Numerals[8] = "7"
      /\ Numerals[9] = "8" /\ Numerals[10] = "9"
  BY DEF Numerals
<1>3. DOMAIN ValueOf = {Numerals[i] : i \in 1 .. 10}
  <2>1. DOMAIN Numerals = 1 .. 10
    BY DEF Numerals
  <2> QED BY <2>1 DEF ValueOf, ToSet
<1>4. \A i \in 1 .. 10 : Numerals[i] \notin {".", "-"} \cup TypeWords
  BY <1>1, <1>2 DEF TypeWords
<1>5. ASSUME NEW i \in 1 .. 10, NEW j \in 1 .. 10, Numerals[i] = Numerals[j] PROVE i = j
  BY <1>1, <1>2, <1>5
<1> QED BY <1>3, <1>4, <1>5

LEMMA NumeralsOf ==
  \A d \in 0 .. 9 : /\ Numerals[d + 1] \in TextChars
                    /\ Numerals[d + 1] \in DOMAIN ValueOf
                    /\ ValueOf[Numerals[d + 1]] = d
<1> SUFFICES ASSUME NEW d \in 0 .. 9
             PROVE  /\ Numerals[d + 1] \in TextChars
                    /\ Numerals[d + 1] \in DOMAIN ValueOf
                    /\ ValueOf[Numerals[d + 1]] = d
  OBVIOUS
<1>1. PICK i \in 1 .. 10 : i = d + 1
  OBVIOUS
<1>2. Numerals[i] \in TextChars /\ Numerals[i] \in DOMAIN ValueOf
  BY NumeralsDiffer DEF TextChars
<1>3. PICK k : k = CHOOSE j \in 1 .. 10 : Numerals[j] = Numerals[i]
  OBVIOUS
<1>4. k = i
  BY <1>3, NumeralsDiffer
<1>5. ValueOf[Numerals[i]] = k - 1
  BY <1>2, <1>3 DEF ValueOf
<1>6. i - 1 = d
  BY <1>1
<1> QED BY <1>1, <1>2, <1>4, <1>5, <1>6

LEMMA ReadsDigit ==
  ASSUME NEW p \in Partial, NEW m \in Nat, NEW d \in 0 .. 9,
         p.parts[p.index] = m, 10 * m + d \in Bytes
  PROVE  /\ <<Numerals[d + 1]>> \in Seq(TextChars)
         /\ Reads(p, <<Numerals[d + 1]>>, With(p, 10 * m + d))
<1>1. PICK c : c = Numerals[d + 1] /\ c \in TextChars /\ c \in DOMAIN ValueOf /\ ValueOf[c] = d
  BY NumeralsOf
<1>2. NextDigit(m, d) = 10 * m + d
  BY DEF NextDigit, Bytes
<1>3. c \notin {".", "-"}
  BY <1>1, NumeralsDiffer
<1>4. ReadChar(p, c) = [p EXCEPT !.parts[p.index] = NextDigit(m, d)]
  BY <1>1, <1>3 DEF ReadChar
<1>5. ReadChar(p, c) = With(p, 10 * m + d)
  BY <1>2, <1>4 DEF With
<1> QED BY <1>1, <1>5, ReadsOne, OneIsASeq

\* The digits of a number, after none or after the first ones.
LEMMA ReadsDecimal ==
  ASSUME NEW p \in Partial, p.parts[p.index] = 0, NEW n \in Bytes
  PROVE  Decimal(n) \in Seq(TextChars) /\ Reads(p, Decimal(n), With(p, n))
<1>1. n \in Nat /\ n \div 10 \in Bytes /\ n \div 100 \in Bytes
  BY DEF Bytes
<1>2. PICK a, b, k, l, m :
        /\ a = n \div 100 /\ b = n \div 10 /\ k = n \div 100 /\ l = (n \div 10) % 10
        /\ m = n % 10
  OBVIOUS
<1>3. /\ a \in Nat /\ b \in Nat /\ k \in 0 .. 9 /\ l \in 0 .. 9 /\ m \in 0 .. 9
      /\ k = a /\ b = 10 * a + l /\ n = 10 * b + m /\ a \in Bytes /\ b \in Bytes
      /\ n < 100 <=> a = 0
      /\ n < 10 <=> b = 0
  BY <1>1, <1>2 DEF Bytes
<1>4. PICK s, t, u :
        /\ s = IF n < 100 THEN << >> ELSE <<Numerals[k + 1]>>
        /\ t = IF n < 10 THEN << >> ELSE <<Numerals[l + 1]>>
        /\ u = <<Numerals[m + 1]>>
  OBVIOUS
<1>5. Decimal(n) = s \o t \o u
  BY <1>2, <1>4 DEF Decimal
<1>6. s \in Seq(TextChars) /\ Reads(p, s, With(p, a))
  <2>1. CASE n < 100
    BY <1>3, <1>4, <2>1, WithReads, ReadsNone
  <2>2. CASE ~(n < 100)
    <3>1. 10 * 0 + k = a /\ 10 * 0 + k \in Bytes /\ 0 \in Nat
      BY <1>3
    <3>2. s = <<Numerals[k + 1]>>
      BY <1>4, <2>2
    <3>3. s \in Seq(TextChars) /\ Reads(p, s, With(p, 10 * 0 + k))
      BY <1>3, <3>1, <3>2, ReadsDigit
    <3> QED BY <3>1, <3>3
  <2> QED BY <2>1, <2>2
<1>7. t \in Seq(TextChars) /\ Reads(With(p, a), t, With(p, b))
  <2>1. With(p, a) \in Partial /\ With(p, a).parts[With(p, a).index] = a
    BY <1>3, WithReads
  <2>2. CASE n < 10
    <3>1. a = b
      BY <1>3, <2>2
    <3> QED BY <1>4, <2>2, <3>1, ReadsNone
  <2>3. CASE ~(n < 10)
    <3>1. t = <<Numerals[l + 1]>>
      BY <1>4, <2>3
    <3>2. t \in Seq(TextChars) /\ Reads(With(p, a), t, With(With(p, a), b))
      BY <1>3, <2>1, <3>1, ReadsDigit
    <3> QED BY <1>3, <3>2, WithReads
  <2> QED BY <2>2, <2>3
<1>8. u \in Seq(TextChars) /\ Reads(With(p, b), u, With(p, n))
  <2>1. With(p, b) \in Partial /\ With(p, b).parts[With(p, b).index] = b
    BY <1>3, WithReads
  <2>2. u \in Seq(TextChars) /\ Reads(With(p, b), u, With(With(p, b), n))
    BY <1>3, <1>4, <2>1, ReadsDigit
  <2> QED BY <1>3, <2>2, WithReads
<1>9. PICK v : v = s \o t
  OBVIOUS
<1>10. Reads(p, v, With(p, b)) /\ v \in Seq(TextChars)
  BY <1>6, <1>7, <1>9, ReadsConcat
<1>11. Reads(p, v \o u, With(p, n)) /\ v \o u \in Seq(TextChars)
  BY <1>8, <1>10, ReadsConcat
<1> QED BY <1>5, <1>9, <1>11

LEMMA ReadsDot ==
  ASSUME NEW p \in Partial, p.index < 4
  PROVE  /\ <<".">> \in Seq(TextChars) /\ [p EXCEPT !.index = @ + 1] \in Partial
         /\ Reads(p, <<".">>, [p EXCEPT !.index = @ + 1])
<1>1. "." \in TextChars /\ "." \notin DOMAIN ValueOf
  BY NumeralsDiffer DEF TextChars
<1>2. ReadChar(p, ".") = [p EXCEPT !.index = @ + 1]
  BY <1>1 DEF ReadChar
<1>3. [p EXCEPT !.index = @ + 1] \in Partial
  BY DEF Partial
<1> QED BY <1>1, <1>2, <1>3, ReadsOne, OneIsASeq

LEMMA ReadsDash == ASSUME NEW p PROVE <<"-">> \in Seq(TextChars) /\ Reads(p, <<"-">>, p)
<1>1. "-" \in TextChars /\ "-" \notin DOMAIN ValueOf
  BY NumeralsDiffer DEF TextChars
<1>2. ReadChar(p, "-") = p
  BY <1>1 DEF ReadChar
<1> QED BY <1>1, <1>2, ReadsOne, OneIsASeq

LEMMA ReadsWord ==
  ASSUME NEW p \in Partial, p.type_str = << >>, NEW w \in TypeWords
  PROVE  /\ <<w>> \in Seq(TextChars) /\ [p EXCEPT !.type_str = <<w>>] \in Partial
         /\ Reads(p, <<w>>, [p EXCEPT !.type_str = <<w>>])
<1>1. w \in TextChars /\ w \notin DOMAIN ValueOf
  BY NumeralsDiffer DEF TextChars
<1>2. ReadChar(p, w) = [p EXCEPT !.type_str = Append(@, w)]
  BY <1>1 DEF ReadChar, TypeWords
<1>3. Append(<< >>, w) = <<w>>
  OBVIOUS
<1>4. [p EXCEPT !.type_str = Append(@, w)] = [p EXCEPT !.type_str = <<w>>]
  BY <1>3
<1>5. <<w>> \in Seq(TextChars)
  BY <1>1, OneIsASeq
<1>6. [p EXCEPT !.type_str = <<w>>] \in Partial
  BY <1>5 DEF Partial
<1> QED BY <1>1, <1>2, <1>4, <1>5, <1>6, ReadsOne

\* A number and the dot that ends it.
PartRead(p, s, n, q) ==
  /\ Reads(p, s, q) /\ s \in Seq(TextChars) /\ q \in Partial
  /\ q.index = p.index + 1 /\ q.type_str = p.type_str
  /\ q.parts[p.index] = n
  /\ \A i \in 1 .. 4 : i # p.index => q.parts[i] = p.parts[i]

LEMMA ReadsPart ==
  ASSUME NEW p \in Partial, p.index < 4, p.parts[p.index] = 0, NEW n \in Bytes
  PROVE  \E q : PartRead(p, Decimal(n) \o <<".">>, n, q)
<1>1. PICK q : q = [With(p, n) EXCEPT !.index = @ + 1]
  OBVIOUS
<1>2. With(p, n) \in Partial /\ With(p, n).index < 4
  BY WithReads
<1>3. q \in Partial /\ Reads(With(p, n), <<".">>, q) /\ <<".">> \in Seq(TextChars)
  BY <1>1, <1>2, ReadsDot
<1>4. Reads(p, Decimal(n) \o <<".">>, q) /\ Decimal(n) \o <<".">> \in Seq(TextChars)
  BY <1>3, ReadsDecimal, ReadsConcat
<1>5. q.index = With(p, n).index + 1 /\ q.type_str = With(p, n).type_str
      /\ q.parts = With(p, n).parts
  BY <1>1, <1>2 DEF Partial
<1> QED BY <1>3, <1>4, <1>5, WithReads DEF PartRead

ThreeParts(v) ==
  Decimal(v.major) \o <<".">> \o Decimal(v.minor) \o <<".">> \o Decimal(v.patch)

LEMMA ReadsThreeParts ==
  ASSUME NEW v \in Versions
  PROVE  \E q \in Partial :
           /\ Reads(NothingRead, ThreeParts(v), q) /\ ThreeParts(v) \in Seq(TextChars)
           /\ q.index = 3 /\ q.type_str = << >>
           /\ q.parts[1] = v.major /\ q.parts[2] = v.minor /\ q.parts[3] = v.patch
           /\ q.parts[4] = 0
<1>1. v.major \in Bytes /\ v.minor \in Bytes /\ v.patch \in Bytes
  BY DEF Versions
<1>2. PICK o : o = NothingRead
  OBVIOUS
<1>3. /\ o \in Partial /\ o.index = 1 /\ o.type_str = << >>
      /\ o.parts[1] = 0 /\ o.parts[2] = 0 /\ o.parts[3] = 0 /\ o.parts[4] = 0
  <2>1. <<0, 0, 0, 0>> \in [1 .. 4 -> Bytes]
    BY DEF Bytes
  <2>2. << >> \in Seq(TextChars)
    OBVIOUS
  <2> QED BY <1>2, <2>1, <2>2 DEF NothingRead, Partial
<1>4. PICK s, t, u :
        /\ s = Decimal(v.major) \o <<".">> /\ t = Decimal(v.minor) \o <<".">>
        /\ u = Decimal(v.patch)
  OBVIOUS
<1>5. PICK p :
        /\ p \in Partial /\ Reads(o, s, p) /\ s \in Seq(TextChars)
        /\ p.index = 2 /\ p.type_str = << >>
        /\ p.parts[1] = v.major /\ p.parts[2] = 0 /\ p.parts[3] = 0 /\ p.parts[4] = 0
  <2>1. 1 \in 1 .. 4 /\ 2 \in 1 .. 4 /\ 3 \in 1 .. 4 /\ 4 \in 1 .. 4 /\ 1 + 1 = 2
    OBVIOUS
  <2>2. o.index < 4 /\ o.parts[o.index] = 0
    BY <1>3
  <2>3. PICK p : PartRead(o, Decimal(v.major) \o <<".">>, v.major, p)
    BY <1>1, <1>3, <2>2, ReadsPart
  <2> QED BY <1>4, <1>3, <2>1, <2>3 DEF PartRead
<1>6. PICK q :
        /\ q \in Partial /\ Reads(p, t, q) /\ t \in Seq(TextChars)
        /\ q.index = 3 /\ q.type_str = << >>
        /\ q.parts[1] = v.major /\ q.parts[2] = v.minor /\ q.parts[3] = 0 /\ q.parts[4] = 0
  <2>1. 1 \in 1 .. 4 /\ 2 \in 1 .. 4 /\ 3 \in 1 .. 4 /\ 4 \in 1 .. 4 /\ 2 + 1 = 3
    OBVIOUS
  <2>2. p.index < 4 /\ p.parts[p.index] = 0
    BY <1>5
  <2>3. PICK q : PartRead(p, Decimal(v.minor) \o <<".">>, v.minor, q)
    BY <1>1, <1>5, <2>2, ReadsPart
  <2> QED BY <1>4, <1>5, <2>1, <2>3 DEF PartRead
<1>7. PICK r : r = With(q, v.patch)
  OBVIOUS
<1>8. u \in Seq(TextChars) /\ Reads(q, u, r)
  BY <1>1, <1>4, <1>6, <1>7, ReadsDecimal
<1>9. /\ r \in Partial /\ r.index = 3 /\ r.type_str = << >>
      /\ r.parts[1] = v.major /\ r.parts[2] = v.minor /\ r.parts[3] = v.patch
      /\ r.parts[4] = 0
  <2>1. 1 \in 1 .. 4 /\ 2 \in 1 .. 4 /\ 3 \in 1 .. 4 /\ 4 \in 1 .. 4
    OBVIOUS
  <2> QED BY <1>1, <1>6, <1>7, <2>1, WithReads
<1>10. PICK w : w = s \o t
  OBVIOUS
<1>11. Reads(o, w, q) /\ w \in Seq(TextChars)
  BY <1>5, <1>6, <1>10, ReadsConcat
<1>12. Reads(o, w \o u, r) /\ w \o u \in Seq(TextChars)
  BY <1>8, <1>11, ReadsConcat
<1>13. w \o u = ThreeParts(v)
  <2>1. <<".">> \in Seq(TextChars)
    BY OneIsASeq DEF TextChars
  <2>2. Decimal(v.minor) \in Seq(TextChars)
    <3>1. p.parts[p.index] = 0
      BY <1>5
    <3> QED BY <1>1, <1>5, <3>1, ReadsDecimal
  <2>3. s \o (Decimal(v.minor) \o <<".">>) = (s \o Decimal(v.minor)) \o <<".">>
    BY <1>5, <2>1, <2>2, ConcatAssociative
  <2> QED BY <1>4, <1>10, <2>3 DEF ThreeParts
<1> QED BY <1>2, <1>9, <1>12, <1>13

LEMMA TypeNames ==
  /\ types_str[0 + 1] = "" /\ types_str[1 + 1] = "alpha" /\ types_str[2 + 1] = "beta"
  /\ types_str[3 + 1] = "rc" /\ types_str[4 + 1] = "" /\ types_str[5 + 1] = ""
  /\ types_str[6 + 1] = "" /\ types_str[7 + 1] = "unknown"
<1>1. /\ types_str[1] = "" /\ types_str[2] = "alpha" /\ types_str[3] = "beta"
      /\ types_str[4] = "rc" /\ types_str[5] = "" /\ types_str[6] = ""
      /\ types_str[7] = "" /\ types_str[8] = "unknown"
  BY DEF types_str
<1>2. /\ 0 + 1 = 1 /\ 1 + 1 = 2 /\ 2 + 1 = 3 /\ 3 + 1 = 4
      /\ 4 + 1 = 5 /\ 5 + 1 = 6 /\ 6 + 1 = 7 /\ 7 + 1 = 8
  OBVIOUS
<1> QED BY <1>1, <1>2

\* A type has a name that is read, the name "unknown" that is not, or none.
LEMMA TypeNamesOf ==
  ASSUME NEW t \in 0 .. 7
  PROVE  /\ t \in 1 .. 3 => types_str[t + 1] \in {"alpha", "beta", "rc"}
         /\ t = 7 => types_str[t + 1] = "unknown"
         /\ t \notin 1 .. 3 /\ t # 7 => types_str[t + 1] = ""
<1>1. CASE t \in 1 .. 3
  <2>1. (t = 1 \/ t = 2 \/ t = 3) /\ t # 7
    BY <1>1
  <2> QED BY <1>1, <2>1, TypeNames, Zenon
<1>2. CASE t = 7
  <2>1. 7 \notin 1 .. 3
    OBVIOUS
  <2> QED BY <1>2, <2>1, TypeNames, Zenon
<1>3. CASE t \notin 1 .. 3 /\ t # 7
  <2>1. t = 0 \/ t = 4 \/ t = 5 \/ t = 6
    BY <1>3
  <2> QED BY <1>3, <2>1, TypeNames, Zenon
<1> QED BY <1>1, <1>2, <1>3

Ending(v) == <<"-", types_str[v.type + 1], ".">> \o Decimal(v.label)

LEMMA ReadsEnding ==
  ASSUME NEW v \in Versions, types_str[v.type + 1] \in TypeWords,
         NEW p \in Partial, p.index = 3, p.type_str = << >>, p.parts[4] = 0
  PROVE  \E q \in Partial :
           /\ Reads(p, Ending(v), q) /\ Ending(v) \in Seq(TextChars)
           /\ q.type_str = <<types_str[v.type + 1]>> /\ q.parts[4] = v.label
           /\ \A i \in 1 .. 3 : q.parts[i] = p.parts[i]
<1>1. PICK w : w = types_str[v.type + 1] /\ w \in TypeWords
  OBVIOUS
<1>2. PICK a : a = [p EXCEPT !.type_str = <<w>>]
  OBVIOUS
<1>3. /\ Reads(p, <<"-">>, p) /\ <<"-">> \in Seq(TextChars)
      /\ Reads(p, <<w>>, a) /\ <<w>> \in Seq(TextChars) /\ a \in Partial
  BY <1>1, <1>2, ReadsDash, ReadsWord
<1>4. a.index = 3 /\ a.parts = p.parts /\ a.type_str = <<w>>
  BY <1>2 DEF Partial
<1>5. PICK b : b = [a EXCEPT !.index = @ + 1]
  OBVIOUS
<1>6. Reads(a, <<".">>, b) /\ <<".">> \in Seq(TextChars) /\ b \in Partial
  <2>1. a.index < 4 /\ a \in Partial
    BY <1>3, <1>4
  <2> QED BY <1>5, <2>1, ReadsDot
<1>7. b.index = 4 /\ b.parts = p.parts /\ b.type_str = <<w>>
  BY <1>3, <1>4, <1>5 DEF Partial
<1>8. PICK q : q = With(b, v.label)
  OBVIOUS
<1>9. v.label \in Bytes
  BY DEF Versions
<1>10. Reads(b, Decimal(v.label), q) /\ Decimal(v.label) \in Seq(TextChars)
  BY <1>6, <1>7, <1>8, <1>9, ReadsDecimal
<1>11. /\ q \in Partial /\ q.type_str = <<w>> /\ q.parts[4] = v.label
       /\ \A i \in 1 .. 3 : q.parts[i] = p.parts[i]
  <2>1. \A i \in 1 .. 3 : i \in 1 .. 4 /\ i # 4
    OBVIOUS
  <2> QED BY <1>6, <1>7, <1>8, <1>9, <2>1, WithReads
<1>12. Reads(p, <<"-">> \o <<w>>, a) /\ <<"-">> \o <<w>> \in Seq(TextChars)
  BY <1>3, ReadsConcat
<1>13. PICK s : s = <<"-">> \o <<w>>
  OBVIOUS
<1>14. Reads(p, s \o <<".">>, b) /\ s \o <<".">> \in Seq(TextChars)
  BY <1>6, <1>12, <1>13, ReadsConcat
<1>15. s \o <<".">> = <<"-", w, ".">>
  <2>1. "-" \in TextChars /\ w \in TextChars /\ "." \in TextChars
    BY <1>1 DEF TextChars
  <2> QED BY <1>13, <2>1, Three
<1>16. PICK t : t = <<"-", w, ".">>
  OBVIOUS
<1>17. Reads(p, t \o Decimal(v.label), q) /\ t \o Decimal(v.label) \in Seq(TextChars)
  BY <1>10, <1>14, <1>15, <1>16, ReadsConcat
<1> QED BY <1>1, <1>11, <1>16, <1>17 DEF Ending

LEMMA TypeNamed ==
  ASSUME NEW type \in 0 .. 3
  PROVE  \E types :
           /\ types = TypesNamed(IF type = 0 THEN << >> ELSE <<types_str[type + 1]>>)
           /\ type \in types /\ types \subseteq Int /\ \A i \in types : type <= i
<1>1. PICK word : word = [i \in 0 .. 5 |-> IF types_str[i + 1] = "" THEN << >>
                                                       ELSE <<types_str[i + 1]>>]
  OBVIOUS
<1>2. \A w, x : <<w>> # << >> /\ (<<w>> = <<x>> => w = x)
  OBVIOUS
<1>3. word[0] = << >> /\ word[1] = <<"alpha">> /\ word[2] = <<"beta">> /\ word[3] = <<"rc">>
  <2>1. 0 \in 0 .. 5 /\ 1 \in 0 .. 5 /\ 2 \in 0 .. 5 /\ 3 \in 0 .. 5
    OBVIOUS
  <2> QED BY <1>1, <2>1, TypeNames
<1>4. word[type] = IF type = 0 THEN << >> ELSE <<types_str[type + 1]>>
  <2>1. type \in 0 .. 5
    OBVIOUS
  <2>2. type = 0 \/ type = 1 \/ type = 2 \/ type = 3
    OBVIOUS
  <2> QED BY <1>1, <2>1, <2>2, TypeNames, Zenon
<1>5. PICK types : types = TypesNamed(word[type])
  OBVIOUS
<1>6. types = {i \in 0 .. 5 : word[type] = word[i]}
  BY <1>1, <1>5 DEF TypesNamed, VERSION_TYPE_UNKNOWN
<1>7. \A i \in types : type <= i
  <2>1. \A i \in 0 .. 3 : i < type => word[i] # word[type]
    <3>1. <<"alpha">> # <<"beta">> /\ <<"alpha">> # <<"rc">> /\ <<"beta">> # <<"rc">>
      BY <1>2
    <3>2. \A i \in 0 .. 3 : i = 0 \/ i = 1 \/ i = 2 \/ i = 3
      OBVIOUS
    <3> QED BY <1>2, <1>3, <3>1, <3>2
  <2> QED BY <1>6, <2>1
<1> QED BY <1>4, <1>5, <1>6, <1>7

LEMMA TextRead == ASSUME NEW s, NEW q, Reads(NothingRead, s, q) PROVE ReadText(s) = q
<1>1. PICK after :
        after = CHOOSE f : f = [n \in 0 .. Len(s) |->
                                  IF n = 0 THEN NothingRead ELSE ReadChar(f[n - 1], s[n])]
  OBVIOUS
<1>2. \E f : f = [n \in 0 .. Len(s) |->
                    IF n = 0 THEN NothingRead ELSE ReadChar(f[n - 1], s[n])]
  BY Zenon DEF Reads, Walk
<1>3. Walk(after, NothingRead, s)
  BY <1>1, <1>2, Zenon DEF Walk
<1>4. after[Len(s)] = q
  BY <1>3, Zenon DEF Reads
<1>5. ReadText(s) = after[Len(s)]
  BY <1>1, Zenon DEF ReadText
<1> QED BY <1>4, <1>5

LEMMA Parsed ==
  ASSUME NEW s, NEW q, Reads(NothingRead, s, q), NEW old
  PROVE  version_parse(s, old) = [major |-> q.parts[1], minor |-> q.parts[2],
                                  patch |-> q.parts[3], label |-> q.parts[4],
                                  type |-> ParsedType(q.type_str, old)]
BY TextRead DEF version_parse

LEMMA ParseReads ==
  ASSUME NEW s, NEW q, Reads(NothingRead, s, q), NEW old, NEW type \in 0 .. 3,
         q.type_str = IF type = 0 THEN << >> ELSE <<types_str[type + 1]>>
  PROVE  version_parse(s, old) = [major |-> q.parts[1], minor |-> q.parts[2],
                                  patch |-> q.parts[3], label |-> q.parts[4], type |-> type]
<1>1. /\ type \in TypesNamed(q.type_str) /\ TypesNamed(q.type_str) \subseteq Int
      /\ \A i \in TypesNamed(q.type_str) : type <= i
  BY TypeNamed
<1>2. PICK t : t = CHOOSE i \in TypesNamed(q.type_str) : \A j \in TypesNamed(q.type_str) : i <= j
  OBVIOUS
<1>3. t = type
  BY <1>1, <1>2
<1>4. ParsedType(q.type_str, old) = t
  <2>1. TypesNamed(q.type_str) # {}
    BY <1>1
  <2> QED BY <1>2, <2>1, Zenon DEF ParsedType
<1> QED BY <1>3, <1>4, Parsed

\* "unknown" is the name of no type that is looked at: the memory's stays.
LEMMA ParseReadsUnknown ==
  ASSUME NEW s, NEW q, Reads(NothingRead, s, q), NEW old, q.type_str = <<"unknown">>
  PROVE  version_parse(s, old) = [major |-> q.parts[1], minor |-> q.parts[2],
                                  patch |-> q.parts[3], label |-> q.parts[4], type |-> old]
<1>1. TypesNamed(q.type_str) = {}
  <2>1. \A w, x : <<w>> # << >> /\ (<<w>> = <<x>> => w = x)
    OBVIOUS
  <2>2. \A i \in 0 .. 5 : types_str[i + 1] # "unknown"
    <3>1. \A i \in 0 .. 5 : i = 0 \/ i = 1 \/ i = 2 \/ i = 3 \/ i = 4 \/ i = 5
      OBVIOUS
    <3> QED BY <3>1, TypeNames, Zenon
  <2> QED BY <2>1, <2>2, Zenon DEF TypesNamed, VERSION_TYPE_UNKNOWN
<1>2. ParsedType(q.type_str, old) = old
  BY <1>1, Zenon DEF ParsedType
<1> QED BY <1>2, Parsed

\* What is read from a text of version_dump is AsRead of what was written, for every
\* version and whatever type the caller's memory held (version_dump, version_parse):
\* the same for alpha, beta and rc, the numbers alone for a stable version.
THEOREM TextReadAs ==
  ASSUME NEW v \in Versions, NEW old \in 0 .. 7
  PROVE  LET w == version_parse(version_dump(v), old)
         IN  AsRead(v, w) /\ w \in Versions /\ w.label \in {0, v.label}
<1> DEFINE w == version_parse(version_dump(v), old)
<1>1. v.type \in 0 .. 7 /\ v.major \in Bytes /\ v.minor \in Bytes /\ v.patch \in Bytes
      /\ v.label \in Bytes /\ 0 \in Bytes
  BY DEF Versions, Bytes
<1>2. PICK p \in Partial :
        /\ Reads(NothingRead, ThreeParts(v), p) /\ ThreeParts(v) \in Seq(TextChars)
        /\ p.index = 3 /\ p.type_str = << >>
        /\ p.parts[1] = v.major /\ p.parts[2] = v.minor /\ p.parts[3] = v.patch
        /\ p.parts[4] = 0
  BY ReadsThreeParts
<1>3. version_dump(v) =
        ThreeParts(v) \o (IF types_str[v.type + 1] = "" THEN << >> ELSE Ending(v))
  BY DEF version_dump, ThreeParts, Ending
<1>4. ASSUME NEW label \in {0, v.label}, NEW type \in 0 .. 7,
             w = [major |-> v.major, minor |-> v.minor, patch |-> v.patch,
                  label |-> label, type |-> type]
      PROVE  /\ w \in Versions /\ w.label = label /\ w.type = type
             /\ w.major = v.major /\ w.minor = v.minor /\ w.patch = v.patch
  <2> HIDE DEF w
  <2>1. label \in Bytes
    BY <1>1
  <2> QED BY <1>1, <1>4, <2>1 DEF Versions
<1>5. CASE v.type \notin 1 .. 3 /\ v.type # 7
  <2>1. types_str[v.type + 1] = ""
    BY <1>1, <1>5, TypeNamesOf
  <2>2. version_dump(v) = ThreeParts(v)
    <3>1. version_dump(v) = ThreeParts(v) \o << >>
      BY <1>3, <2>1
    <3> QED BY <1>2, <3>1, ConcatEmptySeq
  <2>3. w = [major |-> p.parts[1], minor |-> p.parts[2], patch |-> p.parts[3],
             label |-> p.parts[4], type |-> 0]
    BY <1>2, <2>2, ParseReads
  <2> HIDE DEF w
  <2>4. /\ w \in Versions /\ w.label = 0 /\ w.type = 0
        /\ w.major = v.major /\ w.minor = v.minor /\ w.patch = v.patch
    BY <1>2, <1>4, <2>3
  <2>5. AsRead(v, w)
    <3>1. "" # "unknown"
      OBVIOUS
    <3>2. v.type # 1 /\ v.type # 2 /\ v.type # 3
      BY <1>5
    <3> QED BY <2>1, <2>4, <3>1, <3>2
       DEF AsRead, VERSION_TYPE_ALPHA, VERSION_TYPE_BETA, VERSION_TYPE_RC
  <2> QED BY <2>4, <2>5 DEF w
<1>6. CASE v.type \in 1 .. 3 \/ v.type = 7
  <2>1. types_str[v.type + 1] \in TypeWords /\ types_str[v.type + 1] # ""
    BY <1>1, <1>6, TypeNamesOf DEF TypeWords
  <2>2. PICK q \in Partial :
          /\ Reads(p, Ending(v), q) /\ Ending(v) \in Seq(TextChars)
          /\ q.type_str = <<types_str[v.type + 1]>> /\ q.parts[4] = v.label
          /\ \A i \in 1 .. 3 : q.parts[i] = p.parts[i]
    BY <1>2, <2>1, ReadsEnding
  <2>3. version_dump(v) = ThreeParts(v) \o Ending(v)
    BY <1>3, <2>1
  <2>4. Reads(NothingRead, version_dump(v), q)
    BY <1>2, <2>2, <2>3, ReadsConcat
  <2>5. q.parts[1] = v.major /\ q.parts[2] = v.minor /\ q.parts[3] = v.patch
    <3>1. 1 \in 1 .. 3 /\ 2 \in 1 .. 3 /\ 3 \in 1 .. 3
      OBVIOUS
    <3> QED BY <1>2, <2>2, <3>1
  <2>6. CASE v.type \in 1 .. 3
    <3>1. v.type \in 0 .. 3 /\ v.type # 0 /\ v.type \in 0 .. 7
      BY <2>6
    <3>2. w = [major |-> q.parts[1], minor |-> q.parts[2], patch |-> q.parts[3],
               label |-> q.parts[4], type |-> v.type]
      BY <2>2, <2>4, <3>1, ParseReads
    <3> HIDE DEF w
    <3>3. /\ w \in Versions /\ w.label = v.label /\ w.type = v.type
          /\ w.major = v.major /\ w.minor = v.minor /\ w.patch = v.patch
      BY <1>4, <2>2, <2>5, <3>1, <3>2
    <3>4. AsRead(v, w)
      BY <2>1, <3>3 DEF AsRead
    <3> QED BY <3>3, <3>4 DEF w
  <2>7. CASE v.type = 7
    <3>1. types_str[v.type + 1] = "unknown"
      BY <1>1, <2>7, TypeNamesOf
    <3>2. w = [major |-> q.parts[1], minor |-> q.parts[2], patch |-> q.parts[3],
               label |-> q.parts[4], type |-> old]
      BY <2>2, <2>4, <3>1, ParseReadsUnknown
    <3> HIDE DEF w
    <3>3. /\ w \in Versions /\ w.label = v.label
          /\ w.major = v.major /\ w.minor = v.minor /\ w.patch = v.patch
      BY <1>4, <2>2, <2>5, <3>2
    <3>4. AsRead(v, w)
      BY <2>7, <3>1, <3>3
         DEF AsRead, VERSION_TYPE_ALPHA, VERSION_TYPE_BETA, VERSION_TYPE_RC
    <3> QED BY <3>3, <3>4 DEF w
  <2> QED BY <1>6, <2>6, <2>7
<1> QED BY <1>5, <1>6

--------------------------------------------------------------------------------
(* What the system keeps. *)

\* A version is what was released or what was read from its text, and can be kept in
\* the word.
AsReleased(v, r) ==
  r.version # NoVersion =>
    /\ v \in Versions /\ v.label \in Labels
    /\ v = r.version \/ (r.text /\ AsRead(r.version, v))

VersionIInv ==
  /\ AsReleased(version, release)
  /\ AsReleased(saved.version, saved.release)
  /\ saved.release.version # NoVersion => fw_version_int = version_to_int(saved.version)

LEMMA VersionInitIInv == VersionInit => VersionIInv
<1> SUFFICES ASSUME VersionInit PROVE VersionIInv
  OBVIOUS
<1>1. version_from_int(0) = [major |-> 0, minor |-> 0, patch |-> 0, label |-> 0, type |-> 0]
  BY DEF version_from_int
<1>2. version \in Versions /\ version.label \in Labels /\ version.patch \in Bytes
  BY <1>1 DEF VersionInit, Versions, Bytes, Labels
<1>3. version_to_int(version) = 0
  <2>1. Overlaid(version.patch, version.label) = 0
    BY <1>1, <1>2, PatchAlone DEF VersionInit
  <2> QED BY <1>1, <2>1 DEF VersionInit, version_to_int
<1>4. release.version = version /\ saved.version = version /\ saved.release = release
  BY DEF VersionInit
<1>5. fw_version_int = 0
  BY DEF VersionInit
<1>6. AsReleased(version, release)
  BY <1>2, <1>4, Zenon DEF AsReleased
<1> QED BY <1>3, <1>4, <1>5, <1>6 DEF VersionIInv

LEMMA VersionNextIInv == VersionIInv /\ [VersionNext]_version_vars => VersionIInv'
<1> SUFFICES ASSUME VersionIInv, [VersionNext]_version_vars PROVE VersionIInv'
  OBVIOUS
<1>1. ASSUME NEW v \in Released, Parse(version_dump(v), v) PROVE VersionIInv'
  <2>1. v \in Versions /\ v.label \in Labels /\ 0 \in Labels
    BY VersionAssumption DEF Labels
  <2>2. PICK old \in {1, 7} : version' = version_parse(version_dump(v), old)
    BY <1>1 DEF Parse
  <2>3. old \in 0 .. 7
    BY <2>2
  <2>4. AsRead(v, version') /\ version' \in Versions /\ version'.label \in Labels
    BY <2>1, <2>2, <2>3, TextReadAs
  <2>5. /\ release'.version = v /\ release'.text = TRUE
        /\ saved' = saved /\ fw_version_int' = fw_version_int
    BY <1>1 DEF Parse
  <2> QED BY <2>4, <2>5 DEF VersionIInv, AsReleased
<1>2. ASSUME NEW s \in OtherTexts, Parse(s, NoVersion) PROVE VersionIInv'
  <2>1. release'.version = NoVersion /\ saved' = saved /\ fw_version_int' = fw_version_int
    BY <1>2 DEF Parse
  <2> QED BY <2>1 DEF VersionIInv, AsReleased
<1>3. CASE system_set_fw_version
  <2>1. /\ saved'.release = release /\ saved'.version = version
        /\ fw_version_int' = version_to_int(version)
        /\ version' = version /\ release' = release
    BY <1>3 DEF system_set_fw_version
  <2> QED BY <2>1 DEF VersionIInv, AsReleased
<1>4. CASE system_get_fw_version
  <2>1. version' = version_from_int(fw_version_int) /\ release' = saved.release
        /\ saved' = saved /\ fw_version_int' = fw_version_int
    BY <1>4 DEF system_get_fw_version
  <2>2. ASSUME saved.release.version # NoVersion PROVE version' = saved.version
    <3>1. saved.version \in Versions /\ saved.version.label \in Labels
      BY <2>2 DEF VersionIInv, AsReleased
    <3> QED BY <2>1, <2>2, <3>1, WordKeepsVersion DEF VersionIInv
  <2> QED BY <2>1, <2>2 DEF VersionIInv, AsReleased
<1>5. CASE UNCHANGED version_vars
  BY <1>5 DEF version_vars, VersionIInv, AsReleased
<1>6. ASSUME NEW v \in Released, Build(v) PROVE VersionIInv'
  <2>1. v \in Versions /\ v.label \in Labels
    BY VersionAssumption
  <2>2. /\ version' = v /\ release'.version = v
        /\ saved' = saved /\ fw_version_int' = fw_version_int
    BY <1>6 DEF Build
  <2>3. AsReleased(version', release')
    BY <2>1, <2>2, Zenon DEF AsReleased
  <2>4. AsReleased(saved'.version, saved'.release)
    BY <2>2 DEF VersionIInv
  <2> QED BY <2>2, <2>3, <2>4 DEF VersionIInv
<1> QED BY <1>1, <1>2, <1>3, <1>4, <1>5, <1>6 DEF VersionNext

\* Of a version of any type, what the word of the configuration gives back after any
\* number of others were built or parsed is what was released, or what its text was
\* read as if it came as one (version.c:22, system.c: system_set_fw_version).
THEOREM VersionIsKept == VersionSpec => []VersionKept
<1>1. VersionIInv => VersionKept
  BY DEF VersionIInv, VersionKept, AsReleased
<1> QED BY <1>1, VersionInitIInv, VersionNextIInv, PTL DEF VersionSpec

--------------------------------------------------------------------------------
(* HttpClient, for any number of requests and any buffer size. *)

\* A live request is answered when its callback is forgotten, and a freed one that
\* still has a callback can be answered once more (TimeoutFreed).
Answers(r) ==
  /\ callback[r] => answers[r] <= 1
  /\ phase[r] # "free" => answers[r] = IF callback[r] THEN 0 ELSE 1

\* Once a piece was dropped what comes after it cannot pass for a status line, and
\* only the end of a connection makes a response of what is in the buffer.
Arrivals(r) ==
  /\ phase[r] # "free" /\ dropped[r] => start[r] # "status_line" /\ arrived[r] # "nothing"
  /\ outcome[r] = "response" => phase[r] = "free" /\ ~dropped[r]

IInv == TypeOK /\ \A r \in Request : Answers(r) /\ Arrivals(r)

--------------------------------------------------------------------------------
LEMMA InitIInv == Init => IInv
  BY ClientAssumption DEF Init, IInv, TypeOK, Answers, Arrivals, Phases, Outcomes

\* An answer to a request that was answered at most once yet.
LEMMA AnswerTypes ==
  ASSUME IInv, NEW r \in Request, NEW status \in Outcomes, Answer(r, status)
  PROVE  answers' \in [Request -> 0 .. 2] /\ outcome' \in [Request -> Outcomes]
<1>1. CASE callback[r]
  <2>1. answers[r] + 1 \in 0 .. 2
    BY <1>1 DEF IInv, TypeOK, Answers
  <2>2. answers' = [answers EXCEPT ![r] = answers[r] + 1] /\ outcome' = [outcome EXCEPT ![r] = status]
    BY <1>1 DEF Answer
  <2>3. QED
    BY <2>1, <2>2 DEF IInv, TypeOK
<1>2. CASE ~callback[r]
  BY <1>2 DEF Answer, answer_vars, IInv, TypeOK
<1>3. QED
  BY <1>1, <1>2

\* Starting a request, or failing to, resets all that the invariant says of it.
LEMMA StartKeeps ==
  ASSUME IInv, NEW r \in Request, http_raw_request(r) \/ LookupRefused(r)
  PROVE  IInv'
<1> USE DEF IInv, TypeOK
<1>1. TypeOK'
  <2>1. CASE http_raw_request(r)
    BY <2>1, ClientAssumption DEF http_raw_request, NewRequest, ArmTimer, Phases, Outcomes
  <2>2. CASE LookupRefused(r)
    BY <2>2, ClientAssumption DEF LookupRefused, NewRequest, Outcomes
  <2>3. QED
    BY <2>1, <2>2
<1>2. ASSUME NEW q \in Request PROVE (Answers(q) /\ Arrivals(q))'
  BY <1>2
  DEF IInv, TypeOK, Answers, Arrivals, http_raw_request, LookupRefused, NewRequest, ArmTimer,
      Phases, Outcomes
<1>3. QED
  BY <1>1, <1>2 DEF IInv

\* The look-up and the connection.
LEMMA ConnectKeeps ==
  ASSUME IInv, NEW r \in Request, DnsFound(r) \/ DnsFailed(r) \/ connect_callback(r)
  PROVE  IInv'
<1>1. TypeOK'
  <2>1. CASE DnsFound(r) \/ connect_callback(r)
    BY <2>1 DEF IInv, TypeOK, DnsFound, connect_callback, buffer_vars, answer_vars, Phases
  <2>2. CASE DnsFailed(r)
    <3>1. answers' \in [Request -> 0 .. 2] /\ outcome' \in [Request -> Outcomes]
      BY <2>2, AnswerTypes DEF DnsFailed, Outcomes
    <3>2. QED
      BY <2>2, <3>1 DEF IInv, TypeOK, DnsFailed, Release, buffer_vars, Phases
  <2>3. QED
    BY <2>1, <2>2
<1>2. ASSUME NEW q \in Request PROVE (Answers(q) /\ Arrivals(q))'
  BY <1>2
  DEF IInv, TypeOK, Answers, Arrivals, DnsFound, DnsFailed, connect_callback, Answer, Release,
      buffer_vars, answer_vars, Phases, Outcomes
<1>3. QED
  BY <1>1, <1>2 DEF IInv

\* A piece of the response.
LEMMA PieceKeeps ==
  ASSUME IInv, NEW r \in Request, NEW how_far \in {"part", "headers"},
         PieceStored(r, how_far) \/ PieceDropped(r, how_far)
  PROVE  IInv'
<1>1. TypeOK'
  <2>1. CASE PieceStored(r, how_far)
    <3>1. buffer_size[r] + 1 \in 1 .. MaxBuffer
      BY <2>1, ClientAssumption DEF IInv, TypeOK, PieceStored, TooLong
    <3>2. QED
      BY <2>1, <3>1 DEF IInv, TypeOK, PieceStored, PieceArrives, answer_vars
  <2>2. CASE PieceDropped(r, how_far)
    BY <2>2 DEF IInv, TypeOK, PieceDropped, PieceArrives, DiscardResponse, answer_vars, Phases
  <2>3. QED
    BY <2>1, <2>2
<1>2. ASSUME NEW q \in Request PROVE (Answers(q) /\ Arrivals(q))'
  BY <1>2
  DEF IInv, TypeOK, Answers, Arrivals, PieceStored, PieceDropped, PieceArrives, TooLong,
      DiscardResponse, buffer_vars, answer_vars, Phases, Outcomes
<1>3. QED
  BY <1>1, <1>2 DEF IInv

\* The end of the connection.
LEMMA DisconnectedKeeps ==
  ASSUME IInv, NEW r \in Request, Disconnected(r)
  PROVE  IInv'
<1>1. TypeOK'
  <2>1. CASE Exception
    BY <2>1 DEF IInv, TypeOK, Exception, buffer_vars, answer_vars
  <2>2. CASE ~Exception
    <3> DEFINE status == IF start[r] = "status_line" THEN "response" ELSE "failed"
    <3>1. Answer(r, status) /\ Release(r) /\ status \in Outcomes
      BY <2>2 DEF Disconnected, Outcomes
    <3>2. answers' \in [Request -> 0 .. 2] /\ outcome' \in [Request -> Outcomes]
      BY <3>1, AnswerTypes
    <3>3. QED
      BY <3>1, <3>2 DEF IInv, TypeOK, Release, buffer_vars, Phases
  <2>3. QED
    BY <2>1, <2>2
<1>2. ASSUME NEW q \in Request PROVE (Answers(q) /\ Arrivals(q))'
  BY <1>2
  DEF IInv, TypeOK, Answers, Arrivals, Disconnected, Exception, Answer, Release,
      buffer_vars, answer_vars, Phases, Outcomes
<1>3. QED
  BY <1>1, <1>2 DEF IInv

\* The timeout, of a live or of a freed request.
LEMMA TimeoutKeeps ==
  ASSUME IInv, NEW r \in Request, Timeout(r)
  PROVE  IInv'
<1>1. CASE TimeoutResolving(r) \/ TimeoutConnected(r)
  <2>1. TypeOK'
    <3>1. CASE Exception
      BY <3>1 DEF IInv, TypeOK, Exception, buffer_vars, answer_vars
    <3>2. CASE ~Exception
      <4>1. Answer(r, "timeout")
        BY <1>1, <3>2 DEF TimeoutResolving, TimeoutConnected
      <4>2. answers' \in [Request -> 0 .. 2] /\ outcome' \in [Request -> Outcomes]
        BY <4>1, AnswerTypes DEF Outcomes
      <4>3. QED
        BY <1>1, <3>2, <4>2
        DEF IInv, TypeOK, TimeoutResolving, TimeoutConnected, ForgetCallback, Phases
    <3>3. QED
      BY <3>1, <3>2
  <2>2. ASSUME NEW q \in Request PROVE (Answers(q) /\ Arrivals(q))'
    BY <1>1, <2>2
    DEF IInv, TypeOK, Answers, Arrivals, TimeoutResolving, TimeoutConnected, Exception, Answer,
        ForgetCallback, buffer_vars, answer_vars, Phases, Outcomes
  <2>3. QED
    BY <2>1, <2>2 DEF IInv
<1>2. CASE TimeoutFreed(r)
  <2>1. TypeOK'
    <3>1. CASE Exception
      BY <3>1 DEF IInv, TypeOK, Exception, buffer_vars, answer_vars
    <3>2. CASE ~Exception
      <4>1. Answer(r, "timeout")
        BY <1>2, <3>2 DEF TimeoutFreed
      <4>2. answers' \in [Request -> 0 .. 2] /\ outcome' \in [Request -> Outcomes]
        BY <4>1, AnswerTypes DEF Outcomes
      <4>3. QED
        BY <1>2, <3>2, <4>2 DEF IInv, TypeOK, TimeoutFreed, buffer_vars
    <3>3. QED
      BY <3>1, <3>2
  <2>2. ASSUME NEW q \in Request PROVE (Answers(q) /\ Arrivals(q))'
    BY <1>2, <2>2
    DEF IInv, TypeOK, Answers, Arrivals, TimeoutFreed, Exception, Answer, buffer_vars,
        answer_vars, Phases, Outcomes
  <2>3. QED
    BY <2>1, <2>2 DEF IInv
<1>3. QED
  BY <1>1, <1>2 DEF Timeout

LEMMA RestartKeeps == ASSUME IInv, Restart PROVE IInv'
  BY ClientAssumption DEF Restart, IInv, TypeOK, Answers, Arrivals, Phases, Outcomes

LEMMA NextKeeps == IInv /\ [Next]_vars => IInv'
<1> SUFFICES ASSUME IInv, [Next]_vars PROVE IInv'
  OBVIOUS
<1>1. ASSUME NEW r \in Request, RequestStep(r) PROVE IInv'
  BY <1>1, StartKeeps, ConnectKeeps, PieceKeeps, DisconnectedKeeps DEF RequestStep
<1>2. ASSUME NEW r \in Request, Timeout(r) PROVE IInv'
  BY <1>2, TimeoutKeeps
<1>3. CASE Restart
  BY <1>3, RestartKeeps
<1>4. CASE UNCHANGED vars
  BY <1>4 DEF IInv, TypeOK, Answers, Arrivals, vars, buffer_vars, answer_vars
<1>5. QED
  BY <1>1, <1>2, <1>3, <1>4 DEF Next

THEOREM Invariance == Spec => []IInv
  BY InitIInv, NextKeeps, PTL DEF Spec

--------------------------------------------------------------------------------
\* Every variable keeps its type: the buffer's size too, which TooLong guards.
THEOREM TypeCorrect == Spec => []TypeOK
<1>1. IInv => TypeOK
  BY DEF IInv
<1>2. QED
  BY <1>1, Invariance, PTL

\* A request is answered by its timeout or by the end of its connection, never by
\* both, and its callback is not forgotten before.
THEOREM SingleAnswer == Spec => []AnsweredOnce
<1>1. IInv => AnsweredOnce
  BY DEF IInv, Answers, AnsweredOnce
<1>2. QED
  BY <1>1, Invariance, PTL

\* No caller is given a response that a piece is missing from.
THEOREM NoPartialResponse == Spec => []WholeResponse
<1>1. IInv => WholeResponse
  BY DEF IInv, Arrivals, WholeResponse
<1>2. QED
  BY <1>1, Invariance, PTL

\* A live request is freed by dns_callback or disconnect_callback only, and both
\* answer it first unless the timeout has.
LEMMA StepFreesAnswered ==
  ASSUME IInv, [Next]_vars, NEW r \in Request, running, phase[r] # "free", phase'[r] = "free",
         running'
  PROVE  answers'[r] = 1
<1>1. ASSUME NEW q \in Request, DnsFailed(q) \/ Disconnected(q) PROVE answers'[r] = 1
  BY <1>1
  DEF IInv, TypeOK, Answers, DnsFailed, Disconnected, Exception, Answer, Release, answer_vars
<1>2. ASSUME NEW q \in Request, http_raw_request(q) \/ DnsFound(q) \/ connect_callback(q)
      PROVE FALSE
  BY <1>2 DEF IInv, TypeOK, http_raw_request, NewRequest, DnsFound, connect_callback
<1>3. ASSUME NEW q \in Request, LookupRefused(q) PROVE FALSE
  BY <1>3 DEF LookupRefused
<1>4. ASSUME NEW q \in Request, NEW how_far \in {"part", "headers"},
             PieceStored(q, how_far) \/ PieceDropped(q, how_far)
      PROVE FALSE
  BY <1>4 DEF IInv, TypeOK, PieceStored, PieceDropped
<1>5. ASSUME NEW q \in Request, Timeout(q) PROVE FALSE
  BY <1>5
  DEF IInv, TypeOK, Timeout, TimeoutResolving, TimeoutConnected, TimeoutFreed, Exception
<1>6. CASE UNCHANGED vars
  BY <1>6 DEF vars
<1>7. CASE Restart
  BY <1>7 DEF Restart
<1>8. QED
  BY <1>1, <1>2, <1>3, <1>4, <1>5, <1>6, <1>7 DEF Next, RequestStep

\* A request is never freed behind its caller's back.
THEOREM NeverFreedUnanswered == Spec => FreedAnswered
<1>1. IInv /\ [Next]_vars
      => [\A r \in Request :
            running /\ phase[r] # "free" /\ phase'[r] = "free" => answers'[r] = 1]_vars
  <2> SUFFICES ASSUME IInv, [Next]_vars, NEW r \in Request,
                      running, phase[r] # "free", phase'[r] = "free"
               PROVE answers'[r] = 1
    OBVIOUS
  <2>1. CASE running'
    BY <2>1, StepFreesAnswered
  <2>2. CASE ~running'
    BY <2>2
    DEF IInv, TypeOK, Next, RequestStep, http_raw_request, LookupRefused, NewRequest, DnsFound,
        DnsFailed, connect_callback, PieceStored, PieceDropped, Disconnected, Answer, Release,
        Exception, Timeout, TimeoutResolving, TimeoutConnected, TimeoutFreed, Restart, vars
  <2>3. QED
    BY <2>1, <2>2
<1>2. QED
  BY <1>1, Invariance, PTL DEF Spec, FreedAnswered

--------------------------------------------------------------------------------
(* What HttpResponse tells of a response, for any texts that servers send.  First, *)
(* where its functions on strings get to.                                          *)

\* All that a text is made of.
Symbols ==
  STRING \cup {"200", " ", "o", "\r", "\n", ":", NUL, JUNK, "Transfer-Encoding", "chunked"}
    \cup {"HTTP/1.0 ", "HTTP/1.1 "}
    \cup {HexDigits[d + 1] : d \in 0 .. 15}

\* The least of a set of numbers.
LEMMA MinIs ==
  ASSUME NEW I, I \subseteq Nat, NEW j \in I, \A y \in I : j <= y
  PROVE  Min(I) = j
<1> DEFINE P(x) == x \in I /\ \A y \in I : x <= y
<1>1. P(j)
  OBVIOUS
<1>2. \A x : P(x) => x = j
  OBVIOUS
<1> HIDE DEF P
<1>3. (CHOOSE x : P(x)) = j
  BY <1>1, <1>2
<1>4. Min(I) = CHOOSE x \in I : \A y \in I : x <= y
  BY DEF Min
<1>5. Min(I) = CHOOSE x : P(x)
  BY <1>4 DEF P
<1> QED BY <1>3, <1>5

LEMMA MinIn ==
  ASSUME NEW I, I \subseteq Nat, I # {}
  PROVE  Min(I) \in I /\ \A y \in I : Min(I) <= y
<1>1. PICK j \in I : \A y \in I : j <= y
  BY LeastNumber
<1>2. Min(I) = j
  BY <1>1, MinIs
<1> QED BY <1>1, <1>2

\* Where Find and Skip get to.
Least(I) == IF I # {} THEN Min(I) ELSE 0

Hits(text, i, S) == {k \in i .. Len(text) : text[k] \in S}
Misses(text, i, S) == {k \in i .. Len(text) : text[k] \notin S}

LEMMA FindHits ==
  ASSUME NEW text, NEW i, NEW S
  PROVE  Find(text, i, S) = Least(Hits(text, i, S)) /\ Skip(text, i, S) = Least(Misses(text, i, S))
BY DEF Find, Skip, SelectInSubSeq, Least, Hits, Misses

LEMMA FindIs ==
  ASSUME NEW text, Len(text) \in Nat, NEW i \in Nat, NEW S, NEW j \in i .. Len(text),
         text[j] \in S, \A k \in i .. j - 1 : text[k] \notin S
  PROVE  Find(text, i, S) = j
<1>1. PICK I : I = Hits(text, i, S)
  OBVIOUS
<1>2. I \subseteq Nat /\ j \in I /\ \A y \in I : j <= y
  <2>1. \A k \in i .. Len(text) : k \in Nat /\ (k \in i .. j - 1 \/ j <= k)
    OBVIOUS
  <2> QED BY <1>1, <2>1 DEF Hits
<1>3. Min(I) = j /\ I # {}
  BY <1>2, MinIs
<1> QED BY <1>1, <1>3, FindHits DEF Least

LEMMA SkipIs ==
  ASSUME NEW text, Len(text) \in Nat, NEW i \in Nat, NEW S, NEW j \in i .. Len(text),
         text[j] \notin S, \A k \in i .. j - 1 : text[k] \in S
  PROVE  Skip(text, i, S) = j
<1>1. PICK I : I = Misses(text, i, S)
  OBVIOUS
<1>2. I \subseteq Nat /\ j \in I /\ \A y \in I : j <= y
  <2>1. \A k \in i .. Len(text) : k \in Nat /\ (k \in i .. j - 1 \/ j <= k)
    OBVIOUS
  <2> QED BY <1>1, <2>1 DEF Misses
<1>3. Min(I) = j /\ I # {}
  BY <1>2, MinIs
<1> QED BY <1>1, <1>3, FindHits DEF Least

\* They stay within the text, and come after i unless they get nowhere.
LEMMA FindWithin ==
  ASSUME NEW text, Len(text) \in Nat, NEW i \in Nat, NEW S
  PROVE  /\ Find(text, i, S) \in {0} \cup i .. Len(text)
         /\ Skip(text, i, S) \in {0} \cup i .. Len(text)
<1>1. PICK I, J : I = Hits(text, i, S) /\ J = Misses(text, i, S)
  OBVIOUS
<1>2. I \subseteq i .. Len(text) /\ J \subseteq i .. Len(text)
  BY <1>1 DEF Hits, Misses
<1>3. I \subseteq Nat /\ J \subseteq Nat
  BY <1>2
<1>4. (I # {} => Min(I) \in I) /\ (J # {} => Min(J) \in J)
  BY <1>3, MinIn
<1>5. Least(I) \in {0} \cup i .. Len(text) /\ Least(J) \in {0} \cup i .. Len(text)
  BY <1>2, <1>4 DEF Least
<1> QED BY <1>1, <1>5, FindHits

\* Skip stops where it has to.
Stops(text, i, S, j) ==
  j = Skip(text, i, S) /\ text[j] \notin S /\ \A k \in i .. j - 1 : text[k] \in S

LEMMA SkipStops ==
  ASSUME NEW text, Len(text) \in Nat, NEW i \in Nat, NEW S,
         NEW z \in i .. Len(text), text[z] \notin S
  PROVE  \E j \in i .. z : Stops(text, i, S, j)
<1>1. PICK I : I = Misses(text, i, S)
  OBVIOUS
<1>2. I \subseteq Nat /\ z \in I
  BY <1>1 DEF Misses
<1>3. PICK j : j = Min(I) /\ j \in I /\ \A y \in I : j <= y
  BY <1>2, MinIn
<1>4. Skip(text, i, S) = j
  BY <1>1, <1>2, <1>3, FindHits DEF Least
<1>5. j \in i .. z /\ text[j] \notin S
  BY <1>1, <1>2, <1>3 DEF Misses
<1>6. ASSUME NEW k \in i .. j - 1 PROVE text[k] \in S
  <2>1. k \in i .. Len(text) /\ ~(j <= k)
    BY <1>5
  <2> QED BY <1>1, <1>3, <2>1 DEF Misses
<1> QED BY <1>4, <1>5, <1>6 DEF Stops

\* UpToNul of a text with and without a NUL.
LEMMA UpToNulIs ==
  ASSUME NEW text \in Seq(Symbols), NEW j \in 1 .. Len(text),
         text[j] = NUL, \A k \in 1 .. j - 1 : text[k] # NUL
  PROVE  UpToNul(text) = SubSeq(text, 1, j - 1)
<1>1. NUL \in Range(text)
  BY DEF Range
<1>2. Find(text, 1, {NUL}) = j
  <2>1. \A k \in 1 .. j - 1 : text[k] \notin {NUL}
    OBVIOUS
  <2>2. Len(text) \in Nat /\ 1 \in Nat /\ text[j] \in {NUL}
    OBVIOUS
  <2> QED BY <2>1, <2>2, FindIs
<1> QED BY <1>1, <1>2 DEF UpToNul

LEMMA UpToNulNone ==
  ASSUME NEW text \in Seq(Symbols), \A k \in 1 .. Len(text) : text[k] # NUL
  PROVE  UpToNul(text) = text
<1>1. NUL \notin Range(text)
  BY DEF Range
<1> QED BY <1>1 DEF UpToNul

--------------------------------------------------------------------------------
(* Where os_strstr finds a pattern. *)

\* Where a pattern occurs in a string.
Matches(text, j, p) == \A k \in 1 .. Len(p) : text[j + k - 1] = p[k]

Occurs(text, i, p) ==
  {j \in i .. Len(text) - Len(p) + 1 : Matches(text, j, p) /\ \A k \in i .. j : text[k] # NUL}

LEMMA SliceIs ==
  ASSUME NEW T, NEW text \in Seq(T), NEW p \in Seq(T), NEW j \in 1 .. Len(text) - Len(p) + 1
  PROVE  SubSeq(text, j, j + Len(p) - 1) = p <=> Matches(text, j, p)
<1>1. PICK l \in Nat, n \in Nat : l = Len(text) /\ n = Len(p)
  OBVIOUS
<1>2. PICK s : s = SubSeq(text, j, j + n - 1)
  OBVIOUS
<1>3. s \in Seq(T) /\ Len(s) = n /\ \A k \in 1 .. n : s[k] = text[j + k - 1]
  <2>1. \A k \in j .. j + n - 1 : text[k] \in T
    BY <1>1
  <2>2. s \in Seq(T) /\ Len(s) = n
    BY <1>1, <1>2, <2>1
  <2>3. \A k \in 1 .. n : s[k] = text[j + k - 1]
    BY <1>1, <1>2
  <2> QED BY <2>2, <2>3
<1>4. s = p <=> \A k \in 1 .. n : s[k] = p[k]
  BY <1>1, <1>3, SeqEqual
<1> QED BY <1>1, <1>2, <1>3, <1>4 DEF Matches

LEMMA StrstrOccurs ==
  ASSUME NEW T, NEW text \in Seq(T), NEW p \in Seq(T), NEW i \in Nat \ {0}
  PROVE  strstr(text, i, p) = Least(Occurs(text, i, p))
<1> DEFINE Found == {j \in i .. Len(text) - Len(p) + 1 :
                       /\ SubSeq(text, j, j + Len(p) - 1) = p
                       /\ \A k \in i .. j : text[k] # NUL}
<1>1. Found = Occurs(text, i, p)
  <2>1. \A j \in i .. Len(text) - Len(p) + 1 : j \in 1 .. Len(text) - Len(p) + 1
    OBVIOUS
  <2>2. \A j \in i .. Len(text) - Len(p) + 1 :
          SubSeq(text, j, j + Len(p) - 1) = p <=> Matches(text, j, p)
    BY <2>1, SliceIs
  <2> QED BY <2>2 DEF Occurs
<1>2. strstr(text, i, p) = Least(Found)
  BY DEF strstr, Least
<1> QED BY <1>1, <1>2

LEMMA StrstrIs ==
  ASSUME NEW T, NEW text \in Seq(T), NEW p \in Seq(T), NEW i \in Nat \ {0},
         NEW j \in Occurs(text, i, p), \A y \in i .. j - 1 : ~Matches(text, y, p)
  PROVE  strstr(text, i, p) = j
<1>1. PICK I : I = Occurs(text, i, p)
  OBVIOUS
<1>2. I \subseteq Nat /\ j \in I /\ \A y \in I : j <= y
  <2>1. \A y \in I : y \in Nat /\ i <= y /\ Matches(text, y, p)
    BY <1>1 DEF Occurs
  <2>2. \A y \in I : y \in i .. j - 1 \/ j <= y
    BY <1>1, <2>1
  <2> QED BY <1>1, <2>1, <2>2
<1>3. Min(I) = j /\ I # {}
  BY <1>2, MinIs
<1> QED BY <1>1, <1>3, StrstrOccurs DEF Least

LEMMA StrstrNone ==
  ASSUME NEW T, NEW text \in Seq(T), NEW p \in Seq(T), NEW i \in Nat \ {0},
         \A j \in i .. Len(text) - Len(p) + 1 : ~Matches(text, j, p)
  PROVE  strstr(text, i, p) = 0
<1>1. Occurs(text, i, p) = {}
  BY DEF Occurs
<1> QED BY <1>1, StrstrOccurs DEF Least

LEMMA StrstrWithin ==
  ASSUME NEW T, NEW text \in Seq(T), NEW p \in Seq(T), NEW i \in Nat \ {0}
  PROVE  strstr(text, i, p) \in {0} \cup {j \in Nat : i <= j}
         /\ (Occurs(text, i, p) # {} => strstr(text, i, p) # 0)
<1>1. PICK I : I = Occurs(text, i, p)
  OBVIOUS
<1>2. I \subseteq Nat /\ \A y \in I : i <= y
  <2>1. \A y \in i .. Len(text) - Len(p) + 1 : y \in Nat /\ i <= y
    OBVIOUS
  <2> QED BY <1>1, <2>1 DEF Occurs
<1>3. I # {} => Min(I) \in I
  BY <1>2, MinIn
<1> QED BY <1>1, <1>2, <1>3, StrstrOccurs DEF Least

\* The pattern of a line's end.
LEMMA CRLFIs ==
  /\ CRLF \in Seq(Symbols) /\ Len(CRLF) = 2
  /\ \A text, j : j \in Nat => (Matches(text, j, CRLF) <=> text[j] = "\r" /\ text[j + 1] = "\n")
<1>1. CRLF \in Seq(Symbols) /\ Len(CRLF) = 2 /\ CRLF[1] = "\r" /\ CRLF[2] = "\n"
  <2>1. Len(CRLF) = 2 /\ CRLF[1] = "\r" /\ CRLF[2] = "\n"
    BY DEF CRLF
  <2>2. CRLF \in Seq(Symbols)
    <3>1. "\r" \in Symbols /\ "\n" \in Symbols
      BY DEF Symbols
    <3> QED BY <3>1 DEF CRLF
  <2> QED BY <2>1, <2>2
<1>2. ASSUME NEW text, NEW j \in Nat
      PROVE  Matches(text, j, CRLF) <=> text[j] = "\r" /\ text[j + 1] = "\n"
  <2>1. \A k \in 1 .. 2 : k = 1 \/ k = 2
    OBVIOUS
  <2>2. 1 \in 1 .. 2 /\ 2 \in 1 .. 2 /\ j + 1 - 1 = j /\ j + 2 - 1 = j + 1
    OBVIOUS
  <2> QED BY <1>1, <2>1, <2>2 DEF Matches
<1> QED BY <1>1, <1>2

LEMMA LineEndIs ==
  ASSUME NEW text \in Seq(Symbols), NEW i \in Nat \ {0}, NEW j \in i .. Len(text) - 1,
         text[j] = "\r", text[j + 1] = "\n", \A k \in i .. j - 1 : text[k] \notin {"\r", NUL}
  PROVE  strstr(text, i, CRLF) = j
<1>1. j \in i .. Len(text) - Len(CRLF) + 1 /\ j \in Nat
  BY CRLFIs
<1>2. \A k \in i .. j : text[k] # NUL
  <2>1. \A k \in i .. j : k = j \/ k \in i .. j - 1
    OBVIOUS
  <2> QED BY <2>1 DEF NUL
<1>3. j \in Occurs(text, i, CRLF)
  BY <1>1, <1>2, CRLFIs DEF Occurs
<1>4. \A y \in i .. j - 1 : ~Matches(text, y, CRLF)
  <2>1. \A y \in i .. j - 1 : y \in Nat
    OBVIOUS
  <2> QED BY <2>1, CRLFIs
<1> QED BY <1>3, <1>4, CRLFIs, StrstrIs

LEMMA LineEndNone ==
  ASSUME NEW text \in Seq(Symbols), NEW i \in Nat \ {0},
         \A k \in i .. Len(text) - 1 : ~(text[k] = "\r" /\ text[k + 1] = "\n")
  PROVE  strstr(text, i, CRLF) = 0
<1>1. \A j \in i .. Len(text) - Len(CRLF) + 1 : j \in i .. Len(text) - 1 /\ j \in Nat
  BY CRLFIs
<1>2. \A j \in i .. Len(text) - Len(CRLF) + 1 : ~Matches(text, j, CRLF)
  BY <1>1, CRLFIs
<1> QED BY <1>2, CRLFIs, StrstrNone

\* The patterns of a head's end and of the header that a chunked body has.
FourAt(text, j, a, b, c, d) ==
  text[j] = a /\ text[j + 1] = b /\ text[j + 2] = c /\ text[j + 3] = d

LEMMA FourMatch ==
  ASSUME NEW a \in Symbols, NEW b \in Symbols, NEW c \in Symbols, NEW d \in Symbols,
         NEW p, p = <<a, b, c, d>>
  PROVE  /\ p \in Seq(Symbols) /\ Len(p) = 4
         /\ \A text, j : j \in Nat => (Matches(text, j, p) <=> FourAt(text, j, a, b, c, d))
<1>1. p \in Seq(Symbols) /\ Len(p) = 4 /\ p[1] = a /\ p[2] = b /\ p[3] = c /\ p[4] = d
  <2>1. Len(p) = 4 /\ p[1] = a /\ p[2] = b /\ p[3] = c /\ p[4] = d
    OBVIOUS
  <2>2. p \in Seq(Symbols)
    OBVIOUS
  <2> QED BY <2>1, <2>2
<1>2. ASSUME NEW text, NEW j \in Nat
      PROVE  Matches(text, j, p) <=> FourAt(text, j, a, b, c, d)
  <2>1. \A k \in 1 .. 4 : k \in {1, 2, 3, 4}
    OBVIOUS
  <2>2. /\ 1 \in 1 .. 4 /\ 2 \in 1 .. 4 /\ 3 \in 1 .. 4 /\ 4 \in 1 .. 4
        /\ j + 1 - 1 = j /\ j + 2 - 1 = j + 1 /\ j + 3 - 1 = j + 2 /\ j + 4 - 1 = j + 3
    OBVIOUS
  <2> QED BY <1>1, <2>1, <2>2 DEF Matches, FourAt
<1> QED BY <1>1, <1>2

--------------------------------------------------------------------------------
(* Hexadecimal numerals. *)

HexSet == Range(HexDigits)

LEMMA HexSetIs ==
  /\ HexSet = {HexDigits[d + 1] : d \in 0 .. 15}
  /\ \A c \in HexSet : c \in Symbols /\ c \notin {" ", "\r", "\n", NUL, JUNK, ":", ";"} \cup KnownVersions
  /\ \A d \in 0 .. 15 : HexDigits[d + 1] \in HexSet /\ HexDigitValue(HexDigits[d + 1]) = d
<1>1. \A i \in 1 .. 16 : \/ i = 1 \/ i = 2 \/ i = 3 \/ i = 4 \/ i = 5 \/ i = 6 \/ i = 7 \/ i = 8
                         \/ i = 9 \/ i = 10 \/ i = 11 \/ i = 12 \/ i = 13 \/ i = 14 \/ i = 15
                         \/ i = 16
  OBVIOUS
<1>2. /\ HexDigits[1] = "0" /\ HexDigits[2] = "1" /\ HexDigits[3] = "2" /\ HexDigits[4] = "3"
      /\ HexDigits[5] = "4" /\ HexDigits[6] = "5" /\ HexDigits[7] = "6" /\ HexDigits[8] = "7"
      /\ HexDigits[9] = "8" /\ HexDigits[10] = "9" /\ HexDigits[11] = "a" /\ HexDigits[12] = "b"
      /\ HexDigits[13] = "c" /\ HexDigits[14] = "d" /\ HexDigits[15] = "e" /\ HexDigits[16] = "f"
  BY DEF HexDigits
<1>3. DOMAIN HexDigits = 1 .. 16
  BY DEF HexDigits
<1>4. \A i \in 1 .. 16 : HexDigits[i] \notin {" ", "\r", "\n", NUL, JUNK, ":", ";"} \cup KnownVersions
  BY <1>1, <1>2 DEF NUL, JUNK, KnownVersions
<1>5. \A i, j \in 1 .. 16 : HexDigits[i] = HexDigits[j] => i = j
  BY <1>1, <1>2
<1>6. HexSet = {HexDigits[i] : i \in 1 .. 16}
  BY <1>3 DEF HexSet, Range
<1>7. \A d \in 0 .. 15 : d + 1 \in 1 .. 16
  OBVIOUS
<1>8. \A i \in 1 .. 16 : i - 1 \in 0 .. 15 /\ (i - 1) + 1 = i
  OBVIOUS
<1>9. HexSet = {HexDigits[d + 1] : d \in 0 .. 15}
  BY <1>6, <1>7, <1>8
<1>10. ASSUME NEW d \in 0 .. 15 PROVE HexDigitValue(HexDigits[d + 1]) = d
  <2>1. \A x \in 0 .. 15 : HexDigits[x + 1] = HexDigits[d + 1] <=> x = d
    BY <1>5, <1>7
  <2> QED BY <2>1 DEF HexDigitValue
<1>11. \A c \in HexSet : c \in Symbols /\ c \notin {" ", "\r", "\n", NUL, JUNK, ":", ";"} \cup KnownVersions
  <2>1. \A c \in HexSet : c \in Symbols
    BY <1>9 DEF Symbols
  <2> QED BY <1>4, <1>6, <2>1
<1> QED BY <1>7, <1>9, <1>10, <1>11

LEMMA DigitNat == \A c \in HexSet : HexDigitValue(c) \in 0 .. 15
<1>1. ASSUME NEW c \in HexSet PROVE HexDigitValue(c) \in 0 .. 15
  <2>1. PICK d \in 0 .. 15 : c = HexDigits[d + 1]
    BY HexSetIs
  <2> QED BY <2>1, HexSetIs
<1> QED BY <1>1

\* The numbers that strtol has read after each of n digits.
Counts(g, d, n) == g[0] = 0 /\ \A j \in 1 .. n : g[j] = 16 * g[j - 1] + HexDigitValue(d[j])

Numeral(d, v) ==
  d \in Seq(HexSet) /\ Len(d) >= 1 /\ \A g : Counts(g, d, Len(d)) => g[Len(d)] = v

LEMMA OneDigit ==
  ASSUME NEW x \in 0 .. 15
  PROVE  Numeral(<<HexDigits[x + 1]>>, x)
<1>1. PICK c \in HexSet : c = HexDigits[x + 1] /\ HexDigitValue(c) = x
  BY HexSetIs
<1>2. <<c>> \in Seq(HexSet) /\ Len(<<c>>) = 1 /\ <<c>>[1] = c
  OBVIOUS
<1>3. ASSUME NEW g, Counts(g, <<c>>, 1) PROVE g[1] = x
  <2>1. 1 \in 1 .. 1 /\ 1 - 1 = 0
    OBVIOUS
  <2>2. g[1] = 16 * 0 + x
    BY <1>1, <1>2, <1>3, <2>1 DEF Counts
  <2> QED BY <2>2
<1> QED BY <1>1, <1>2, <1>3 DEF Numeral

LEMMA OneMoreDigit ==
  ASSUME NEW d, NEW v \in Nat, Numeral(d, v), NEW x \in 0 .. 15
  PROVE  Numeral(Append(d, HexDigits[x + 1]), 16 * v + x)
<1>1. PICK c \in HexSet : c = HexDigits[x + 1] /\ HexDigitValue(c) = x
  BY HexSetIs
<1>2. PICK n \in Nat : n = Len(d) /\ n >= 1 /\ d \in Seq(HexSet)
  BY DEF Numeral
<1>3. PICK e : e = Append(d, c)
  OBVIOUS
<1>4. e \in Seq(HexSet) /\ Len(e) = n + 1 /\ e[n + 1] = c /\ \A j \in 1 .. n : e[j] = d[j]
  BY <1>2, <1>3
<1>5. ASSUME NEW g, Counts(g, e, n + 1) PROVE g[n + 1] = 16 * v + x
  <2>1. \A j \in 1 .. n : j \in 1 .. n + 1
    OBVIOUS
  <2>2. Counts(g, d, n)
    BY <1>4, <1>5, <2>1 DEF Counts
  <2>3. g[n] = v
    BY <1>2, <2>2 DEF Numeral
  <2>4. n + 1 \in 1 .. n + 1 /\ (n + 1) - 1 = n
    OBVIOUS
  <2>5. g[n + 1] = 16 * g[n] + HexDigitValue(c)
    BY <1>4, <1>5, <2>4 DEF Counts
  <2> QED BY <1>1, <2>3, <2>5
<1>6. Numeral(e, 16 * v + x)
  BY <1>2, <1>4, <1>5 DEF Numeral
<1> QED BY <1>1, <1>3, <1>6

HexStep(f, k) ==
  IF k < 16 THEN <<HexDigits[k + 1]>> ELSE Append(f[k \div 16], HexDigits[(k % 16) + 1])

LEMMA Sixteenth ==
  ASSUME NEW k \in Nat, ~(k < 16)
  PROVE  k \div 16 \in 0 .. k - 1 /\ k % 16 \in 0 .. 15 /\ k = 16 * (k \div 16) + (k % 16)
OBVIOUS

LEMMA HexExists ==
  ASSUME NEW n \in Nat
  PROVE  \E f : f = [k \in 0 .. n |-> HexStep(f, k)]
<1> DEFINE S == {b \in 0 .. n : \E f : \A k \in 0 .. b : f[k] = HexStep(f, k)}
<1>1. 0 \in S
  <2>1. PICK f : f = [k \in 0 .. 0 |-> <<HexDigits[0 + 1]>>]
    OBVIOUS
  <2>2. \A k \in 0 .. 0 : f[k] = HexStep(f, k)
    BY <2>1 DEF HexStep
  <2> QED BY <2>2
<1>2. ASSUME NEW b \in 0 .. n - 1, b \in S PROVE b + 1 \in S
  <2>1. PICK f : \A k \in 0 .. b : f[k] = HexStep(f, k)
    BY <1>2
  <2>2. PICK g : g = [k \in 0 .. b + 1 |-> IF k = b + 1 THEN HexStep(f, k) ELSE f[k]]
    OBVIOUS
  <2>3. ASSUME NEW k \in 0 .. b + 1 PROVE g[k] = HexStep(g, k)
    <3>1. g[k] = HexStep(f, k)
      <4>1. k = b + 1 \/ (k \in 0 .. b /\ k # b + 1)
        OBVIOUS
      <4> QED BY <2>1, <2>2, <4>1
    <3>2. HexStep(g, k) = HexStep(f, k)
      <4>1. CASE k < 16
        BY <4>1 DEF HexStep
      <4>2. CASE ~(k < 16)
        <5>1. k \div 16 \in 0 .. k - 1
          BY <4>2, Sixteenth
        <5>2. k \div 16 \in 0 .. b + 1 /\ k \div 16 # b + 1
          BY <5>1
        <5>3. g[k \div 16] = f[k \div 16]
          BY <2>2, <5>2
        <5> QED BY <4>2, <5>3 DEF HexStep
      <4> QED BY <4>1, <4>2
    <3> QED BY <3>1, <3>2
  <2>4. b + 1 \in 0 .. n
    OBVIOUS
  <2> QED BY <2>3, <2>4
<1>3. n \in S
  <2> HIDE DEF S
  <2>1. 0 .. n \subseteq S
    BY <1>1, <1>2, UpTo
  <2> QED BY <2>1
<1>4. PICK f : \A k \in 0 .. n : f[k] = HexStep(f, k)
  BY <1>3
<1>5. PICK g : g = [k \in 0 .. n |-> f[k]]
  OBVIOUS
<1>6. ASSUME NEW k \in 0 .. n PROVE g[k] = HexStep(g, k)
  <2>1. g[k] = HexStep(f, k)
    BY <1>4, <1>5
  <2>2. HexStep(g, k) = HexStep(f, k)
    <3>1. CASE k < 16
      BY <3>1 DEF HexStep
    <3>2. CASE ~(k < 16)
      <4>1. k \div 16 \in 0 .. k - 1
        BY <3>2, Sixteenth
      <4>2. k \div 16 \in 0 .. n
        BY <4>1
      <4>3. g[k \div 16] = f[k \div 16]
        BY <1>5, <4>2
      <4> QED BY <3>2, <4>3 DEF HexStep
    <3> QED BY <3>1, <3>2
  <2> QED BY <2>1, <2>2
<1>7. g = [k \in 0 .. n |-> HexStep(g, k)]
  BY <1>5, <1>6
<1> QED BY <1>7

\* The size of a chunk is written as the numeral of it.
LEMMA HexNumeral ==
  ASSUME NEW n \in Nat
  PROVE  Numeral(Hex(n), n)
<1>1. PICK f : f = CHOOSE g : g = [k \in 0 .. n |->
                                    IF k < 16 THEN <<HexDigits[k + 1]>>
                                    ELSE Append(g[k \div 16], HexDigits[(k % 16) + 1])]
  OBVIOUS
<1>2. \E g : g = [k \in 0 .. n |->
                    IF k < 16 THEN <<HexDigits[k + 1]>>
                    ELSE Append(g[k \div 16], HexDigits[(k % 16) + 1])]
  BY HexExists DEF HexStep
<1>3. f = [k \in 0 .. n |-> HexStep(f, k)]
  BY <1>1, <1>2 DEF HexStep
<1>4. Hex(n) = f[n]
  BY <1>1 DEF Hex
<1> DEFINE S == {b \in 0 .. n : \A k \in 0 .. b : Numeral(f[k], k)}
<1>5. 0 \in S
  <2>1. f[0] = <<HexDigits[0 + 1]>> /\ 0 \in 0 .. 15
    BY <1>3 DEF HexStep
  <2>2. Numeral(f[0], 0)
    BY <2>1, OneDigit
  <2> QED BY <2>2
<1>6. ASSUME NEW b \in 0 .. n - 1, b \in S PROVE b + 1 \in S
  <2>1. PICK k \in Nat : k = b + 1 /\ k \in 0 .. n
    OBVIOUS
  <2>2. f[k] = HexStep(f, k)
    BY <1>3, <2>1
  <2>3. Numeral(f[k], k)
    <3>1. CASE k < 16
      BY <2>2, <3>1, OneDigit DEF HexStep
    <3>2. CASE ~(k < 16)
      <4>1. PICK q \in Nat, x \in 0 .. 15 : q = k \div 16 /\ x = k % 16 /\ q \in 0 .. b /\ k = 16 * q + x
        BY <2>1, <3>2, Sixteenth
      <4>2. Numeral(f[q], q)
        BY <1>6, <4>1
      <4>3. f[k] = Append(f[q], HexDigits[x + 1])
        BY <2>2, <3>2, <4>1 DEF HexStep
      <4> QED BY <4>1, <4>2, <4>3, OneMoreDigit
    <3> QED BY <3>1, <3>2
  <2>4. \A y \in 0 .. b + 1 : y \in 0 .. b \/ y = k
    BY <2>1
  <2> QED BY <1>6, <2>1, <2>3, <2>4
<1>7. n \in S
  <2> HIDE DEF S
  <2>1. 0 .. n \subseteq S
    BY <1>5, <1>6, UpTo
  <2> QED BY <2>1
<1>8. Numeral(f[n], n)
  BY <1>7
<1> QED BY <1>4, <1>8

--------------------------------------------------------------------------------
(* The size of a chunk, as strtol reads it. *)

\* What strtol has read up to the character at k.
NumberStep(f, text, first, k) ==
  IF k < first THEN 0 ELSE 16 * f[k - 1] + HexDigitValue(text[k])

NumberBy(f, text, first, behind) ==
  f = [k \in first - 1 .. behind - 1 |-> NumberStep(f, text, first, k)]

LEMMA NumberExists ==
  ASSUME NEW text, NEW first \in Nat, NEW behind \in Nat, first <= behind
  PROVE  \E f : NumberBy(f, text, first, behind)
<1>1. PICK n \in Nat : behind = first + n
  <2>1. behind - first \in Nat /\ behind = first + (behind - first)
    OBVIOUS
  <2> QED BY <2>1
<1> DEFINE dom(b) == first - 1 .. first + b - 1
           S == {b \in 0 .. n : \E f : \A k \in dom(b) : f[k] = NumberStep(f, text, first, k)}
<1>2. 0 \in S
  <2>1. PICK f : f = [k \in {first - 1} |-> 0]
    OBVIOUS
  <2>2. \A k \in dom(0) : k = first - 1 /\ k < first
    OBVIOUS
  <2>3. \A k \in dom(0) : f[k] = NumberStep(f, text, first, k)
    BY <2>1, <2>2 DEF NumberStep
  <2> QED BY <2>3
<1>3. ASSUME NEW b \in 0 .. n - 1, b \in S PROVE b + 1 \in S
  <2>1. PICK f : \A k \in dom(b) : f[k] = NumberStep(f, text, first, k)
    BY <1>3
  <2>2. PICK g : g = [k \in dom(b + 1) |-> IF k = first + b THEN NumberStep(f, text, first, k) ELSE f[k]]
    OBVIOUS
  <2>3. ASSUME NEW k \in dom(b + 1) PROVE g[k] = NumberStep(g, text, first, k)
    <3>1. k = first + b \/ (k \in dom(b) /\ k # first + b)
      OBVIOUS
    <3>2. g[k] = NumberStep(f, text, first, k)
      BY <2>1, <2>2, <3>1
    <3>3. CASE k < first
      BY <3>2, <3>3 DEF NumberStep
    <3>4. CASE ~(k < first)
      <4>1. k - 1 \in dom(b + 1) /\ k - 1 # first + b
        BY <3>4
      <4>2. g[k - 1] = f[k - 1]
        BY <2>2, <4>1
      <4> QED BY <3>2, <3>4, <4>2 DEF NumberStep
    <3> QED BY <3>3, <3>4
  <2>4. b + 1 \in 0 .. n
    OBVIOUS
  <2> QED BY <2>3, <2>4
<1>4. n \in S
  <2> HIDE DEF S
  <2>1. 0 .. n \subseteq S
    BY <1>2, <1>3, UpTo
  <2> QED BY <2>1
<1>5. PICK f : \A k \in dom(n) : f[k] = NumberStep(f, text, first, k)
  BY <1>4
<1>6. PICK g : g = [k \in dom(n) |-> f[k]]
  OBVIOUS
<1>7. ASSUME NEW k \in dom(n) PROVE g[k] = NumberStep(g, text, first, k)
  <2>1. g[k] = NumberStep(f, text, first, k)
    BY <1>5, <1>6
  <2>2. CASE k < first
    BY <2>1, <2>2 DEF NumberStep
  <2>3. CASE ~(k < first)
    <3>1. k - 1 \in dom(n)
      BY <2>3
    <3>2. g[k - 1] = f[k - 1]
      BY <1>6, <3>1
    <3> QED BY <2>1, <2>3, <3>2 DEF NumberStep
  <2> QED BY <2>2, <2>3
<1>8. g = [k \in dom(n) |-> NumberStep(g, text, first, k)]
  BY <1>6, <1>7
<1>9. dom(n) = first - 1 .. behind - 1
  BY <1>1
<1> QED BY <1>8, <1>9 DEF NumberBy

Blanks == {" ", "\r", "\n"}

SizeRead(f, text, i, first, behind) ==
  /\ chunk_size(text, i) = f[behind - 1]
  /\ \A k \in first - 1 .. behind - 1 : f[k] = NumberStep(f, text, first, k)

LEMMA ChunkSizeUnfolds ==
  ASSUME NEW text, NEW i, NEW first \in Nat, Stops(text, i, Blanks, first),
         NEW behind \in Nat, Stops(text, first, HexSet, behind), first <= behind
  PROVE  \E f : SizeRead(f, text, i, first, behind)
<1>1. PICK f : f = CHOOSE g : g = [k \in first - 1 .. behind - 1 |->
                                    IF k < first THEN 0 ELSE 16 * g[k - 1] + HexDigitValue(text[k])]
  OBVIOUS
<1>2. \E g : g = [k \in first - 1 .. behind - 1 |->
                    IF k < first THEN 0 ELSE 16 * g[k - 1] + HexDigitValue(text[k])]
  <2>1. \E g : NumberBy(g, text, first, behind)
    BY NumberExists
  <2> QED BY <2>1, Zenon DEF NumberBy, NumberStep
<1>3. f = [k \in first - 1 .. behind - 1 |-> NumberStep(f, text, first, k)]
  BY <1>1, <1>2 DEF NumberStep
<1>4. chunk_size(text, i) = f[behind - 1]
  <2>1. first = Skip(text, i, {" ", "\r", "\n"}) /\ behind = Skip(text, first, Range(HexDigits))
    BY DEF Stops, HexSet, Blanks
  <2> QED BY <1>1, <2>1 DEF chunk_size
<1>5. \A k \in first - 1 .. behind - 1 : f[k] = NumberStep(f, text, first, k)
  BY <1>3
<1> QED BY <1>4, <1>5 DEF SizeRead

\* A size is a number, also where none can be read: 0 at the end of the buffer.
LEMMA ChunkSizeNat ==
  ASSUME NEW text \in Seq(Symbols), NEW z \in Nat, z = Len(text), text[z] = NUL,
         NEW i \in 1 .. z
  PROVE  chunk_size(text, i) \in Nat /\ (text[i] = NUL => chunk_size(text, i) = 0)
<1>1. text[z] \notin Blanks /\ text[z] \notin HexSet
  <2>1. text[z] \notin HexSet
    BY HexSetIs
  <2> QED BY <2>1 DEF NUL, Blanks
<1>2. PICK first \in i .. z : Stops(text, i, Blanks, first)
  <2>1. z \in i .. Len(text) /\ Len(text) \in Nat /\ i \in Nat
    OBVIOUS
  <2> QED BY <1>1, <2>1, SkipStops
<1>3. PICK behind \in first .. z : Stops(text, first, HexSet, behind)
  <2>1. z \in first .. Len(text) /\ Len(text) \in Nat /\ first \in Nat
    OBVIOUS
  <2> QED BY <1>1, <2>1, SkipStops
<1>4. PICK f : SizeRead(f, text, i, first, behind)
  <2>1. first \in Nat /\ behind \in Nat /\ first <= behind
    OBVIOUS
  <2> QED BY <1>2, <1>3, <2>1, ChunkSizeUnfolds
<1>5. PICK n \in Nat : behind = first + n /\ first \in Nat
  <2>1. behind - first \in Nat /\ behind = first + (behind - first) /\ first \in Nat
    OBVIOUS
  <2> QED BY <2>1
<1> DEFINE S == {b \in 0 .. n : f[first + b - 1] \in Nat}
<1>6. f[first - 1] = 0
  <2>1. first - 1 \in first - 1 .. behind - 1 /\ first - 1 < first
    BY <1>5
  <2> QED BY <1>4, <2>1 DEF NumberStep, SizeRead
<1>7. 0 \in S
  <2>1. first + 0 - 1 = first - 1
    BY <1>5
  <2> QED BY <1>6, <2>1
<1>8. ASSUME NEW b \in 0 .. n - 1, b \in S PROVE b + 1 \in S
  <2>1. PICK k : k = first + b /\ k \in first .. behind - 1 /\ k - 1 = first + b - 1
                 /\ first + (b + 1) - 1 = k /\ ~(k < first) /\ k \in first - 1 .. behind - 1
    BY <1>5
  <2>2. HexDigitValue(text[k]) \in Nat
    <3>1. text[k] \in HexSet
      BY <1>3, <2>1 DEF Stops
    <3>2. HexDigitValue(text[k]) \in 0 .. 15
      BY <3>1, DigitNat
    <3> QED BY <3>2
  <2>3. f[k] = 16 * f[k - 1] + HexDigitValue(text[k])
    BY <1>4, <2>1 DEF NumberStep, SizeRead
  <2>4. f[k - 1] \in Nat
    BY <1>8, <2>1
  <2>5. f[k] \in Nat
    BY <2>2, <2>3, <2>4
  <2> QED BY <2>1, <2>5
<1>9. f[behind - 1] \in Nat
  <2>1. 0 .. n \subseteq S
    <3> HIDE DEF S
    <3> QED BY <1>7, <1>8, UpTo
  <2>2. n \in S /\ first + n - 1 = behind - 1
    BY <1>5, <2>1
  <2> QED BY <2>2
<1>10. ASSUME text[i] = NUL PROVE f[behind - 1] = 0
  <2>1. text[i] \notin Blanks /\ text[i] \notin HexSet
    BY <1>1, <1>10
  <2>2. first = i
    <3>1. first # i => i \in i .. first - 1
      OBVIOUS
    <3> QED BY <1>2, <2>1, <3>1 DEF Stops
  <2>3. behind = first
    <3>1. behind # i => i \in i .. behind - 1
      BY <2>2
    <3> QED BY <1>3, <2>1, <2>2, <3>1 DEF Stops
  <2> QED BY <1>6, <2>3
<1> QED BY <1>4, <1>9, <1>10 DEF SizeRead

\* The size of a chunk that is written out.
LEMMA ChunkSizeIs ==
  ASSUME NEW text \in Seq(Symbols), NEW i \in 1 .. Len(text), NEW d, NEW v, Numeral(d, v),
         i + Len(d) <= Len(text), \A j \in 1 .. Len(d) : text[i + j - 1] = d[j],
         text[i + Len(d)] \notin HexSet
  PROVE  chunk_size(text, i) = v
<1>1. PICK n \in Nat : n = Len(d) /\ n >= 1 /\ d \in Seq(HexSet)
  BY DEF Numeral
<1>2. \A k \in i .. i + n - 1 : text[k] \in HexSet
  <2>1. \A k \in i .. i + n - 1 : k - i + 1 \in 1 .. n /\ i + (k - i + 1) - 1 = k
    OBVIOUS
  <2>2. \A j \in 1 .. n : d[j] \in HexSet
    BY <1>1
  <2> QED BY <1>1, <2>1, <2>2
<1>3. Skip(text, i, {" ", "\r", "\n"}) = i
  <2>1. text[i] \notin {" ", "\r", "\n"}
    <3>1. i \in i .. i + n - 1
      BY <1>1
    <3> QED BY <1>2, <3>1, HexSetIs
  <2>2. \A k \in i .. i - 1 : FALSE
    OBVIOUS
  <2>3. i \in i .. Len(text) /\ Len(text) \in Nat /\ i \in Nat
    OBVIOUS
  <2> QED BY <2>1, <2>2, <2>3, SkipIs
<1>4. Skip(text, i, HexSet) = i + n
  <2>1. i + n \in i .. Len(text) /\ Len(text) \in Nat /\ i \in Nat /\ text[i + n] \notin HexSet
    BY <1>1
  <2> QED BY <1>2, <2>1, SkipIs
<1>5. PICK f : /\ chunk_size(text, i) = f[i + n - 1]
               /\ \A k \in i - 1 .. i + n - 1 : f[k] = NumberStep(f, text, i, k)
  <2>1. i \in Nat /\ i + n \in Nat /\ i <= i + n
    OBVIOUS
  <2>2. Stops(text, i, Blanks, i)
    <3>1. text[i] \notin Blanks
      <4>1. i \in i .. i + n - 1
        BY <1>1
      <4> QED BY <1>2, <4>1, HexSetIs DEF Blanks
    <3>2. \A k \in i .. i - 1 : FALSE
      OBVIOUS
    <3> QED BY <1>3, <3>1, <3>2 DEF Stops, Blanks
  <2>3. Stops(text, i, HexSet, i + n)
    BY <1>1, <1>2, <1>4 DEF Stops
  <2>4. PICK f : SizeRead(f, text, i, i, i + n)
    BY <2>1, <2>2, <2>3, ChunkSizeUnfolds
  <2> QED BY <2>4 DEF SizeRead
<1>6. PICK g : g = [j \in 0 .. n |-> f[i + j - 1]]
  OBVIOUS
<1>7. Counts(g, d, n)
  <2>1. g[0] = 0
    <3>1. i + 0 - 1 \in i - 1 .. i + n - 1 /\ i + 0 - 1 < i /\ 0 \in 0 .. n
      OBVIOUS
    <3> QED BY <1>5, <1>6, <3>1 DEF NumberStep
  <2>2. ASSUME NEW j \in 1 .. n PROVE g[j] = 16 * g[j - 1] + HexDigitValue(d[j])
    <3>1. PICK k : k = i + j - 1 /\ k \in i - 1 .. i + n - 1 /\ ~(k < i) /\ k - 1 = i + (j - 1) - 1
                   /\ j \in 0 .. n /\ j - 1 \in 0 .. n
      OBVIOUS
    <3>2. g[j] = f[k] /\ g[j - 1] = f[k - 1]
      BY <1>6, <3>1
    <3>3. f[k] = 16 * f[k - 1] + HexDigitValue(text[k])
      BY <1>5, <3>1 DEF NumberStep
    <3>4. text[k] = d[j]
      BY <1>1, <3>1
    <3> QED BY <3>2, <3>3, <3>4
  <2> QED BY <2>1, <2>2 DEF Counts
<1>8. g[n] = v
  BY <1>1, <1>7 DEF Numeral
<1>9. g[n] = f[i + n - 1]
  BY <1>6
<1> QED BY <1>5, <1>8, <1>9

--------------------------------------------------------------------------------
(* What responses are made of. *)

\* What names and values are, what the parts of a body are, and all but the protocol.
Words == Symbols \ ({":", " ", "\r", "\n", NUL} \cup KnownVersions)

Data == Symbols \ ({NUL, JUNK} \cup KnownVersions)

Others == Symbols \ KnownVersions

LEMMA SymbolsAre ==
  /\ STRING \subseteq Symbols /\ HexSet \subseteq Others /\ Data \subseteq Others
  /\ Words \subseteq Others /\ Others \subseteq Symbols
  /\ {"200", " ", "o", "\r", "\n", ":", "0"} \subseteq Others
  /\ {"Transfer-Encoding", "chunked"} \subseteq Words
  /\ "0" \in HexSet /\ HexDigitValue("0") = 0
<1>1. STRING \subseteq Symbols
  BY DEF Symbols
<1>2. HexSet \subseteq Others
  BY HexSetIs DEF Others
<1>3. Data \subseteq Others /\ Words \subseteq Others /\ Others \subseteq Symbols
  BY DEF Data, Words, Others
<1>4. "0" \in HexSet /\ HexDigitValue("0") = 0
  <2>1. HexDigits[0 + 1] = "0"
    BY DEF HexDigits
  <2>2. 0 \in 0 .. 15
    OBVIOUS
  <2> QED BY <2>1, <2>2, HexSetIs
<1>5. {"200", " ", "o", "\r", "\n", ":"} \subseteq Others
  BY DEF Others, Symbols, KnownVersions
<1>6. {"Transfer-Encoding", "chunked"} \subseteq Words
  BY DEF Words, Symbols, KnownVersions, NUL
<1> QED BY <1>1, <1>2, <1>3, <1>4, <1>5, <1>6

\* What a response is.
LEMMA ResponseIs ==
  ASSUME NEW m \in Responses
  PROVE  /\ m.version \in Symbols
         /\ m.headers \in Seq(Words \X Words)
         /\ m.chunked \in BOOLEAN
         /\ ~m.chunked => \A i \in 1 .. Len(m.headers) : m.headers[i] # ChunkedHeader
         /\ m.extension \in Seq(Symbols)
         /\ \A i \in 1 .. Len(m.extension) : m.extension[i] \in Others \ {"\r", "\n", NUL}
         /\ m.extension # << >> => m.extension[1] \notin HexSet
         /\ m.parts \in Seq(Seq(Data))
         /\ m.chunked => \A i \in 1 .. Len(m.parts) : m.parts[i] # << >>
<1>1. /\ m.version \in STRING /\ m.headers \in Seq(STRING \X STRING) /\ m.chunked \in BOOLEAN
      /\ m.extension \in Seq(STRING) /\ m.parts \in Seq(Seq(STRING))
  BY ResponseAssumption
<1>2. PICK hs : hs = m.headers
  OBVIOUS
<1>3. hs \in Seq(Words \X Words) /\ (~m.chunked => \A i \in 1 .. Len(hs) : hs[i] # ChunkedHeader)
  <2>1. DOMAIN hs = 1 .. Len(hs) /\ hs \in Seq(STRING \X STRING)
    BY <1>1, <1>2
  <2>2. ASSUME NEW i \in 1 .. Len(hs) PROVE hs[i] \in Words \X Words
    <3>1. hs[i] \in STRING \X STRING
      BY <2>1
    <3>2. \A k \in 1 .. 2 : hs[i][k] \notin {":", " ", "\r", "\n", NUL} \cup KnownVersions
      BY <1>2, <2>1, ResponseAssumption
    <3>3. 1 \in 1 .. 2 /\ 2 \in 1 .. 2
      OBVIOUS
    <3>4. PICK a, b : a = hs[i][1] /\ b = hs[i][2]
      OBVIOUS
    <3>5. hs[i] = <<a, b>> /\ a \in STRING /\ b \in STRING
      BY <3>1, <3>4
    <3>6. /\ a \notin {":", " ", "\r", "\n", NUL} \cup KnownVersions
          /\ b \notin {":", " ", "\r", "\n", NUL} \cup KnownVersions
      BY <3>2, <3>3, <3>4
    <3>7. a \in Symbols /\ b \in Symbols
      BY <3>5, SymbolsAre
    <3>8. a \in Words /\ b \in Words
      BY <3>6, <3>7 DEF Words
    <3>9. <<a, b>> \in Words \X Words
      BY <3>8
    <3> QED BY <3>5, <3>9, Zenon
  <2>3. ~m.chunked => \A i \in 1 .. Len(hs) : hs[i] # ChunkedHeader
    BY <1>2, <2>1, ResponseAssumption
  <2> QED BY <2>1, <2>2, <2>3, Retyped
<1>4. PICK x : x = m.extension
  OBVIOUS
<1>5. /\ x \in Seq(Symbols) /\ \A i \in 1 .. Len(x) : x[i] \in Others \ {"\r", "\n", NUL}
      /\ x # << >> => x[1] \notin HexSet
  <2>1. DOMAIN x = 1 .. Len(x) /\ x \in Seq(STRING)
    BY <1>1, <1>4
  <2>5. \A i \in 1 .. Len(x) : x[i] \in STRING
    BY <2>1
  <2>6. \A i \in 1 .. Len(x) : x[i] \notin {"\r", "\n", NUL} \cup KnownVersions
    BY <1>4, <2>1, ResponseAssumption
  <2>2. \A i \in 1 .. Len(x) : x[i] \in STRING /\ x[i] \notin {"\r", "\n", NUL} \cup KnownVersions
    BY <2>5, <2>6
  <2>3. \A i \in 1 .. Len(x) : x[i] \in Symbols /\ x[i] \in Others \ {"\r", "\n", NUL}
    BY <2>2, SymbolsAre DEF Others
  <2>4. x # << >> => x[1] \notin HexSet
    BY <1>4, ResponseAssumption DEF HexSet
  <2> QED BY <2>1, <2>3, <2>4, Retyped
<1>6. PICK ps : ps = m.parts
  OBVIOUS
<1>7. ps \in Seq(Seq(Data)) /\ (m.chunked => \A i \in 1 .. Len(ps) : ps[i] # << >>)
  <2>1. DOMAIN ps = 1 .. Len(ps) /\ ps \in Seq(Seq(STRING))
    BY <1>1, <1>6
  <2>2. ASSUME NEW i \in 1 .. Len(ps) PROVE ps[i] \in Seq(Data)
    <3>1. PICK p : p = ps[i] /\ p \in Seq(STRING) /\ DOMAIN p = 1 .. Len(p)
      <4>1. ps[i] \in Seq(STRING)
        BY <2>1
      <4> QED BY <4>1
    <3>4. \A k \in 1 .. Len(p) : p[k] \in STRING
      BY <3>1
    <3>5. \A k \in 1 .. Len(p) : p[k] \notin {NUL, JUNK} \cup KnownVersions
      <4>1. \A k \in DOMAIN m.parts[i] : m.parts[i][k] \notin {NUL, JUNK} \cup KnownVersions
        BY <1>6, <2>1, ResponseAssumption
      <4> QED BY <1>6, <3>1, <4>1
    <3>2. \A k \in 1 .. Len(p) : p[k] \in STRING /\ p[k] \notin {NUL, JUNK} \cup KnownVersions
      BY <3>4, <3>5
    <3>3. \A k \in 1 .. Len(p) : p[k] \in Data
      BY <3>2, SymbolsAre DEF Data
    <3> QED BY <3>1, <3>3, Retyped
  <2>3. m.chunked => \A i \in 1 .. Len(ps) : ps[i] # << >>
    BY <1>6, <2>1, ResponseAssumption
  <2> QED BY <2>1, <2>2, <2>3, Retyped
<1> QED BY <1>1, <1>2, <1>3, <1>4, <1>5, <1>6, <1>7, SymbolsAre

\* The headers that are sent.
LEMMA SentHeadersAre ==
  ASSUME NEW m \in Responses
  PROVE  /\ SentHeaders(m) \in Seq(Words \X Words)
         /\ m.chunked <=> \E i \in 1 .. Len(SentHeaders(m)) : SentHeaders(m)[i] = ChunkedHeader
<1>1. PICK hs : hs = m.headers
  OBVIOUS
<1>2. hs \in Seq(Words \X Words) /\ (~m.chunked => \A i \in 1 .. Len(hs) : hs[i] # ChunkedHeader)
  BY <1>1, ResponseIs
<1>3. ChunkedHeader \in Words \X Words
  BY SymbolsAre DEF ChunkedHeader
<1>4. CASE m.chunked
  <2>1. SentHeaders(m) = Append(hs, ChunkedHeader)
    BY <1>1, <1>4 DEF SentHeaders
  <2>2. PICK s : s = Append(hs, ChunkedHeader)
    OBVIOUS
  <2>3. s \in Seq(Words \X Words) /\ Len(s) \in 1 .. Len(s) /\ s[Len(s)] = ChunkedHeader
    BY <1>2, <1>3, <2>2
  <2> QED BY <1>4, <2>1, <2>2, <2>3
<1>5. CASE ~m.chunked
  <2>1. SentHeaders(m) = hs
    BY <1>1, <1>5 DEF SentHeaders
  <2> QED BY <1>2, <1>5, <2>1
<1> QED BY <1>4, <1>5

\* The header x from behind p on.
HeaderAt(t, p, x) ==
  /\ t[p + 1] = x[1] /\ t[p + 2] = ":" /\ t[p + 3] = " " /\ t[p + 4] = x[2]
  /\ t[p + 5] = "\r" /\ t[p + 6] = "\n"

LEMMA HeaderTextIs ==
  ASSUME NEW x \in Words \X Words, NEW t, t = HeaderText(x)
  PROVE  t \in Seq(Others) /\ Len(t) = 6 /\ HeaderAt(t, 0, x)
<1>1. PICK a \in Others, b \in Others : a = x[1] /\ b = x[2]
  <2>1. x[1] \in Words /\ x[2] \in Words
    OBVIOUS
  <2> QED BY <2>1, SymbolsAre
<1>3. PICK r \in Others, n \in Others, c \in Others, s \in Others :
        r = "\r" /\ n = "\n" /\ c = ":" /\ s = " "
  BY SymbolsAre
<1>4. t = <<a, c, s, b>> \o <<r, n>>
  BY <1>1, <1>3 DEF HeaderText, CRLF
<1>6. t \in Seq(Others) /\ Len(t) = 6
  BY <1>4
<1>7. t[1] = a /\ t[2] = c /\ t[3] = s /\ t[4] = b /\ t[5] = r /\ t[6] = n
  BY <1>4
<1>8. HeaderAt(t, 0, x)
  <2>1. 0 + 1 = 1 /\ 0 + 2 = 2 /\ 0 + 3 = 3 /\ 0 + 4 = 4 /\ 0 + 5 = 5 /\ 0 + 6 = 6
    OBVIOUS
  <2> QED BY <1>1, <1>3, <1>7, <2>1 DEF HeaderAt
<1> QED BY <1>6, <1>8

\* One that is a part of another text is in that, too.
LEMMA HeaderWithin ==
  ASSUME NEW s, NEW t, NEW p \in Nat, NEW q \in Nat, NEW x, HeaderAt(s, p, x),
         \A j \in 1 .. 6 : t[q + j] = s[p + j]
  PROVE  HeaderAt(t, q, x)
<1>1. 1 \in 1 .. 6 /\ 2 \in 1 .. 6 /\ 3 \in 1 .. 6 /\ 4 \in 1 .. 6 /\ 5 \in 1 .. 6 /\ 6 \in 1 .. 6
  OBVIOUS
<1> QED BY <1>1 DEF HeaderAt

\* What there is in two texts put together, of n characters and k.
IsCat(c, a, b, n, k) ==
  /\ c \in Seq(Symbols) /\ Len(c) = n + k
  /\ \A j \in 1 .. n : c[j] = a[j]
  /\ \A j \in 1 .. k : c[n + j] = b[j]

LEMMA CatIs ==
  ASSUME NEW a, NEW b, NEW c, c = a \o b, NEW n \in Nat, NEW k \in Nat,
         a \in Seq(Symbols), b \in Seq(Symbols), n = Len(a), k = Len(b)
  PROVE  IsCat(c, a, b, n, k)
BY DEF IsCat

--------------------------------------------------------------------------------
(* How a response's text is laid out. *)

\* How a text begins, with the headers hs, which are h.
HeadLaid(text, protocol, hs, h) ==
  /\ text[1] = protocol /\ text[2] = "200" /\ text[3] = " " /\ text[4] = "o"
  /\ text[5] = "\r" /\ text[6] = "\n"
  /\ \A i \in 1 .. h : HeaderAt(text, 6 * i, hs[i])
  /\ text[6 * h + 7] = "\r" /\ text[6 * h + 8] = "\n"

\* body is what is behind it.
BodyLaid(text, body, h) ==
  Len(text) = 6 * h + 8 + Len(body) /\ \A j \in 1 .. Len(body) : text[6 * h + 8 + j] = body[j]

\* The headers' text: six characters each.
LEMMA HeadersTextIs ==
  ASSUME NEW m \in Responses, NEW hs, hs = SentHeaders(m), NEW h \in Nat, h = Len(hs),
         NEW t, t = HeadersText(m)
  PROVE  /\ t \in Seq(Others) /\ Len(t) = 6 * h
         /\ \A i \in 1 .. h : HeaderAt(t, 6 * (i - 1), hs[i])
<1>1. hs \in Seq(Words \X Words) /\ DOMAIN hs = 1 .. h
  BY SentHeadersAre
<1>2. PICK ss : ss = [i \in 1 .. h |-> HeaderText(hs[i])]
  OBVIOUS
<1>3. t = FlattenSeq(ss)
  BY <1>1, <1>2 DEF HeadersText
<1>4. ASSUME NEW i \in 1 .. h
      PROVE  ss[i] \in Seq(Others) /\ Len(ss[i]) = 6 /\ HeaderAt(ss[i], 0, hs[i])
  <2>1. PICK x : x = hs[i] /\ x \in Words \X Words
    BY <1>1
  <2>2. PICK s : s = ss[i] /\ s = HeaderText(x)
    BY <1>2, <2>1
  <2>3. s \in Seq(Others) /\ Len(s) = 6 /\ HeaderAt(s, 0, x)
    BY <2>1, <2>2, HeaderTextIs
  <2> QED BY <2>1, <2>2, <2>3
<1>5. ss \in Seq(Seq(Others)) /\ Len(ss) = h
  <2>1. ss \in [1 .. h -> Seq(Others)]
    <3>1. \A i \in 1 .. h : ss[i] \in Seq(Others)
      BY <1>4
    <3> QED BY <1>2, <3>1
  <2> QED BY <2>1
<1>7. t \in Seq(Others) /\ \E e : LiesAt(t, ss, h, e)
  BY <1>3, <1>5, FlattenedLies
<1>8. PICK e : LiesAt(t, ss, h, e)
  BY <1>7
<1>16. /\ e[0] = 0 /\ e[h] = Len(t)
       /\ \A i \in 1 .. h : e[i] = e[i - 1] + 6 /\ \A j \in 1 .. 6 : t[e[i - 1] + j] = ss[i][j]
  <2>1. \A i \in 1 .. h : Len(ss[i]) = 6
    BY <1>4
  <2> QED BY <1>8, <2>1 DEF LiesAt
<1> DEFINE S == {i \in 0 .. h : e[i] = 6 * i}
<1>9. 0 \in S
  BY <1>16
<1>10. ASSUME NEW i \in 0 .. h - 1, i \in S PROVE i + 1 \in S
  <2>1. PICK n : n = i + 1 /\ n \in 1 .. h /\ n - 1 = i /\ n \in 0 .. h
    OBVIOUS
  <2>2. e[n] = e[n - 1] + 6
    BY <1>16, <2>1
  <2>3. e[n] = 6 * n
    BY <1>10, <2>1, <2>2
  <2> QED BY <2>1, <2>3 DEF IsCat
<1>11. \A i \in 0 .. h : e[i] = 6 * i
  <2>1. 0 .. h \subseteq S
    <3> HIDE DEF S
    <3> QED BY <1>9, <1>10, UpTo
  <2> QED BY <2>1
<1>12. Len(t) = 6 * h
  BY <1>16, <1>11
<1>13. ASSUME NEW i \in 1 .. h PROVE HeaderAt(t, 6 * (i - 1), hs[i])
  <2>1. PICK p \in Nat : p = 6 * (i - 1) /\ i - 1 \in 0 .. h /\ 0 \in Nat
    OBVIOUS
  <2>2. e[i - 1] = p
    BY <1>11, <2>1
  <2>3. PICK s, x : s = ss[i] /\ x = hs[i]
    OBVIOUS
  <2>8. PICK o \in Nat : o = 0
    OBVIOUS
  <2>4. HeaderAt(s, o, x)
    BY <1>4, <2>3, <2>8
  <2>7. \A j \in 1 .. 6 : o + j = j
    BY <2>8
  <2>5. \A j \in 1 .. 6 : t[p + j] = s[o + j]
    <3>1. \A j \in 1 .. 6 : t[e[i - 1] + j] = ss[i][j]
      BY <1>16
    <3> QED BY <2>2, <2>3, <2>7, <3>1
  <2>6. HeaderAt(t, p, x)
    BY <2>4, <2>5, HeaderWithin
  <2> QED BY <2>1, <2>3, <2>6
<1> QED BY <1>7, <1>12, <1>13

LEMMA StatusLineIs ==
  ASSUME NEW m \in Responses, NEW t, t = StatusLine(m)
  PROVE  /\ t \in Seq(Symbols) /\ Len(t) = 6
         /\ t[1] = m.version /\ t[2] = "200" /\ t[3] = " " /\ t[4] = "o"
         /\ t[5] = "\r" /\ t[6] = "\n"
<1>1. PICK v \in Symbols, s \in Symbols, b \in Symbols, o \in Symbols, r \in Symbols, n \in Symbols :
        v = m.version /\ s = "200" /\ b = " " /\ o = "o" /\ r = "\r" /\ n = "\n"
  BY ResponseIs, SymbolsAre
<1>2. t = <<v, s, b, o>> \o <<r, n>>
  BY <1>1 DEF StatusLine, CRLF
<1>4. t \in Seq(Symbols) /\ Len(t) = 6
  BY <1>2
<1>5. t[1] = v /\ t[2] = s /\ t[3] = b /\ t[4] = o /\ t[5] = r /\ t[6] = n
  BY <1>2
<1> QED BY <1>1, <1>4, <1>5

\* A text's parts.
LEMMA TextLaid ==
  ASSUME NEW m \in Responses, NEW hs, hs = SentHeaders(m), NEW h \in Nat, h = Len(hs),
         NEW body \in Seq(Others), body = BodyText(m), NEW text, text = ResponseText(m)
  PROVE  /\ text \in Seq(Symbols)
         /\ HeadLaid(text, m.version, hs, h) /\ BodyLaid(text, body, h)
         /\ \A j \in 2 .. Len(text) : text[j] \in Others
<1>1. PICK a : /\ a = StatusLine(m) /\ a \in Seq(Symbols) /\ Len(a) = 6
               /\ a[1] = m.version /\ a[2] = "200" /\ a[3] = " " /\ a[4] = "o"
               /\ a[5] = "\r" /\ a[6] = "\n"
  BY StatusLineIs
<1>2. PICK b : /\ b = HeadersText(m) /\ b \in Seq(Others) /\ Len(b) = 6 * h
               /\ \A i \in 1 .. h : HeaderAt(b, 6 * (i - 1), hs[i])
  BY HeadersTextIs
<1>3. PICK r \in Others, nl \in Others : r = "\r" /\ nl = "\n"
  BY SymbolsAre
<1>4. PICK l \in Nat : l = Len(body)
  OBVIOUS
<1>5. PICK c : c = <<r, nl>>
  OBVIOUS
<1>18. c \in Seq(Others) /\ Len(c) = 2 /\ c[1] = r /\ c[2] = nl
  BY <1>5
<1>19. c = CRLF
  BY <1>3, <1>5 DEF CRLF
<1>20. PICK ab : ab = a \o b
  OBVIOUS
<1>21. PICK abc : abc = ab \o c
  OBVIOUS
<1>7. text = abc \o body
  BY <1>1, <1>2, <1>19, <1>20, <1>21 DEF ResponseText
<1>8. b \in Seq(Symbols) /\ c \in Seq(Symbols) /\ body \in Seq(Symbols)
  <2>1. ASSUME NEW s \in Seq(Others) PROVE s \in Seq(Symbols)
    <3>2. \A i \in 1 .. Len(s) : s[i] \in Others
      OBVIOUS
    <3>1. \A i \in 1 .. Len(s) : s[i] \in Symbols
      BY <3>2, SymbolsAre
    <3> QED BY <3>1, Retyped
  <2> QED BY <1>2, <1>18, <2>1
<1>22. PICK u \in Nat : u = 6 * h
  OBVIOUS
<1>9. /\ ab \in Seq(Symbols) /\ Len(ab) = 6 + u
      /\ \A j \in 1 .. 6 : ab[j] = a[j]
      /\ \A j \in 1 .. u : ab[6 + j] = b[j]
  <2>1. PICK n \in Nat : n = 6 /\ n = Len(a)
    BY <1>1
  <2>2. a \in Seq(Symbols) /\ b \in Seq(Symbols) /\ u = Len(b)
    BY <1>1, <1>2, <1>8, <1>22
  <2>3. IsCat(ab, a, b, n, u)
    BY <1>20, <2>1, <2>2, CatIs
  <2> QED BY <2>1, <2>3 DEF IsCat
<1>10. /\ abc \in Seq(Symbols) /\ Len(abc) = 6 + u + 2
       /\ \A j \in 1 .. 6 + u : abc[j] = ab[j]
       /\ \A j \in 1 .. 2 : abc[6 + u + j] = c[j]
  <2>1. PICK n \in Nat, k \in Nat : n = 6 + u /\ k = 2
    OBVIOUS
  <2>2. ab \in Seq(Symbols) /\ c \in Seq(Symbols) /\ n = Len(ab) /\ k = Len(c)
    BY <1>8, <1>9, <1>18, <2>1
  <2>3. IsCat(abc, ab, c, n, k)
    BY <1>21, <2>1, <2>2, CatIs
  <2> QED BY <2>1, <2>3 DEF IsCat
<1>11. /\ text \in Seq(Symbols) /\ Len(text) = 6 + u + 2 + l
       /\ \A j \in 1 .. 6 + u + 2 : text[j] = abc[j]
       /\ \A j \in 1 .. l : text[6 + u + 2 + j] = body[j]
  <2>1. PICK n \in Nat : n = 6 + u + 2
    OBVIOUS
  <2>2. abc \in Seq(Symbols) /\ body \in Seq(Symbols) /\ n = Len(abc) /\ l = Len(body)
    BY <1>4, <1>8, <1>10, <2>1
  <2>3. IsCat(text, abc, body, n, l)
    BY <1>7, <2>1, <2>2, CatIs
  <2> QED BY <2>1, <2>3 DEF IsCat
<1>12. \A j \in 1 .. 6 : text[j] = a[j]
  <2>1. \A j \in 1 .. 6 : j \in 1 .. 6 + u + 2 /\ j \in 1 .. 6 + u
    OBVIOUS
  <2> QED BY <1>9, <1>10, <1>11, <2>1
<1>13. \A j \in 1 .. u : text[6 + j] = b[j]
  <2>1. \A j \in 1 .. u : 6 + j \in 1 .. 6 + u + 2 /\ 6 + j \in 1 .. 6 + u
    OBVIOUS
  <2> QED BY <1>9, <1>10, <1>11, <2>1
<1>14. text[u + 7] = r /\ text[u + 8] = nl
  <2>1. /\ u + 7 \in 1 .. 6 + u + 2 /\ u + 8 \in 1 .. 6 + u + 2
        /\ 6 + u + 1 = u + 7 /\ 6 + u + 2 = u + 8 /\ 1 \in 1 .. 2 /\ 2 \in 1 .. 2
    OBVIOUS
  <2>2. abc[6 + u + 1] = r /\ abc[6 + u + 2] = nl
    BY <1>10, <1>18, <2>1
  <2> QED BY <1>11, <2>1, <2>2
<1>15. HeadLaid(text, m.version, hs, h)
  <2>1. /\ text[1] = a[1] /\ text[2] = a[2] /\ text[3] = a[3] /\ text[4] = a[4]
        /\ text[5] = a[5] /\ text[6] = a[6]
    BY <1>12
  <2>2. ASSUME NEW i \in 1 .. h PROVE HeaderAt(text, 6 * i, hs[i])
    <3>1. PICK p \in Nat, q \in Nat : p = 6 * (i - 1) /\ q = 6 * i /\ q = 6 + p /\ p + 6 <= u
      BY <1>22
    <3>2. \A j \in 1 .. 6 : p + j \in 1 .. u /\ 6 + (p + j) = q + j
      BY <3>1
    <3>3. \A j \in 1 .. 6 : text[q + j] = b[p + j]
      BY <1>13, <3>2
    <3>4. PICK x : x = hs[i]
      OBVIOUS
    <3>5. HeaderAt(b, p, x)
      BY <1>2, <3>1, <3>4
    <3>6. HeaderAt(text, q, x)
      BY <3>3, <3>5, HeaderWithin
    <3> QED BY <3>1, <3>4, <3>6
  <2> QED BY <1>1, <1>3, <1>14, <1>22, <2>1, <2>2 DEF HeadLaid
<1>16. BodyLaid(text, body, h)
  <2>1. Len(text) = 6 * h + 8 + Len(body) /\ 6 + u + 2 = 6 * h + 8
    BY <1>4, <1>11, <1>22
  <2> QED BY <1>4, <1>11, <2>1 DEF BodyLaid
<1>17. ASSUME NEW j \in 2 .. Len(text) PROVE text[j] \in Others
  <2>1. CASE j <= 6
    <3>1. j \in {2, 3, 4, 5, 6} /\ j \in 1 .. 6
      BY <2>1
    <3>2. text[j] = a[j]
      BY <1>12, <3>1
    <3>3. a[2] \in Others /\ a[3] \in Others /\ a[4] \in Others /\ a[5] \in Others /\ a[6] \in Others
      BY <1>1, SymbolsAre
    <3> QED BY <3>1, <3>2, <3>3
  <2>2. CASE j > 6 /\ j <= 6 + u
    <3>1. PICK k : k = j - 6 /\ k \in 1 .. u /\ 6 + k = j
      BY <2>2
    <3>2. text[j] = b[k] /\ k \in 1 .. Len(b)
      BY <1>2, <1>13, <1>22, <3>1
    <3>3. b[k] \in Others
      BY <1>2, <3>2
    <3> QED BY <3>2, <3>3
  <2>3. CASE j = u + 7 \/ j = u + 8
    BY <1>3, <1>14, <2>3
  <2>4. CASE j > u + 8
    <3>1. PICK k : k = j - (6 + u + 2) /\ k \in 1 .. l /\ 6 + u + 2 + k = j
      BY <1>11, <2>4
    <3>2. text[j] = body[k] /\ k \in 1 .. Len(body)
      BY <1>4, <1>11, <3>1
    <3>3. body[k] \in Others
      BY <3>2
    <3> QED BY <3>2, <3>3
  <2>5. j <= 6 \/ (j > 6 /\ j <= 6 + u) \/ (j = u + 7 \/ j = u + 8) \/ j > u + 8
    BY <1>22
  <2> QED BY <2>1, <2>2, <2>3, <2>4, <2>5
<1> QED BY <1>11, <1>15, <1>16, <1>17

--------------------------------------------------------------------------------
(* What has come in of a text, and where the empty line is found in it. *)

\* The first k characters of a text have come in.
HasCome(b, text, k) ==
  /\ b \in Seq(Symbols) /\ Len(b) = k + 1 /\ b[k + 1] = NUL
  /\ \A j \in 1 .. k : b[j] = text[j]

LEMMA ComeIs ==
  ASSUME NEW text \in Seq(Symbols), NEW k \in 0 .. Len(text),
         NEW b, b = SubSeq(text, 1, k) \o <<NUL>>
  PROVE  HasCome(b, text, k)
<1>1. PICK s : s = SubSeq(text, 1, k)
  OBVIOUS
<1>2. s \in Seq(Symbols) /\ k = Len(s) /\ \A j \in 1 .. k : s[j] = text[j]
  BY <1>1
<1>8. PICK z : z = <<NUL>>
  OBVIOUS
<1>3. z = <<NUL>> /\ z \in Seq(Symbols) /\ 1 = Len(z) /\ z[1] = NUL
  <2>1. NUL \in Symbols
    BY DEF Symbols
  <2> QED BY <1>8, <2>1
<1>4. PICK n \in Nat, o \in Nat : n = k /\ o = 1
  OBVIOUS
<1>5. b = s \o z /\ n = Len(s) /\ o = Len(z)
  BY <1>1, <1>2, <1>3, <1>4
<1>6. IsCat(b, s, z, n, o)
  BY <1>2, <1>3, <1>5, CatIs
<1>7. 1 \in 1 .. 1
  OBVIOUS
<1> QED BY <1>2, <1>3, <1>4, <1>6, <1>7 DEF IsCat, HasCome

\* What there is in a line of six characters.
LineAt(text, p) ==
  /\ text[p + 1] \notin {"\r", "\n", NUL, ":"} /\ text[p + 2] \notin {"\r", "\n", NUL}
  /\ text[p + 3] \notin {"\r", "\n", NUL, ":"} /\ text[p + 4] \notin {"\r", "\n", NUL, ":"}
  /\ text[p + 5] = "\r" /\ text[p + 6] = "\n"

\* The headers' part of a text.
Headed(text, protocol, hs, h) ==
  /\ protocol \in KnownVersions /\ h \in Nat
  /\ hs \in Seq(Words \X Words) /\ Len(hs) = h
  /\ HeadLaid(text, protocol, hs, h)

LEMMA HeaderWords ==
  ASSUME NEW hs \in Seq(Words \X Words), NEW i \in 1 .. Len(hs)
  PROVE  /\ hs[i] = <<hs[i][1], hs[i][2]>>
         /\ hs[i][1] \in Words /\ hs[i][2] \in Words
<1>1. hs[i] \in Words \X Words
  OBVIOUS
<1> QED BY <1>1

LEMMA LinesLaid ==
  ASSUME NEW text, NEW protocol, NEW hs, NEW h, Headed(text, protocol, hs, h)
  PROVE  \A i \in 0 .. h : LineAt(text, 6 * i)
<1>1. LineAt(text, 0)
  <2>1. protocol \notin {"\r", "\n", NUL, ":"}
    BY DEF Headed, KnownVersions, NUL
  <2>2. 0 + 1 = 1 /\ 0 + 2 = 2 /\ 0 + 3 = 3 /\ 0 + 4 = 4 /\ 0 + 5 = 5 /\ 0 + 6 = 6
    OBVIOUS
  <2> QED BY <2>1, <2>2 DEF Headed, HeadLaid, LineAt, NUL
<1>2. ASSUME NEW i \in 1 .. h PROVE LineAt(text, 6 * i)
  <2>1. PICK x, a, b : x = hs[i] /\ a = x[1] /\ b = x[2]
    OBVIOUS
  <2>2. a \in Words /\ b \in Words
    BY <2>1, HeaderWords DEF Headed
  <2>3. a \notin {"\r", "\n", NUL, ":"} /\ b \notin {"\r", "\n", NUL, ":"}
    BY <2>2 DEF Words
  <2>4. PICK p : p = 6 * i
    OBVIOUS
  <2>5. HeaderAt(text, p, x)
    BY <2>1, <2>4 DEF Headed, HeadLaid
  <2>6. LineAt(text, p)
    BY <2>1, <2>3, <2>5 DEF HeaderAt, LineAt, NUL
  <2> QED BY <2>4, <2>6
<1>3. \A i \in 0 .. h : i = 0 \/ i \in 1 .. h
  BY DEF Headed
<1>4. 6 * 0 = 0
  OBVIOUS
<1> QED BY <1>1, <1>2, <1>3, <1>4

\* Where in a line a character is.
LEMMA Placed ==
  ASSUME NEW h \in Nat, NEW y \in 1 .. 6 * h + 6
  PROVE  \E i \in 0 .. h, c \in {1, 2, 3, 4, 5, 6} : y = 6 * i + c
<1>1. PICK i \in Nat, c \in 0 .. 5 : y - 1 = 6 * i + c
  <2>1. y - 1 \in Nat /\ (y - 1) \div 6 \in Nat /\ (y - 1) % 6 \in 0 .. 5
        /\ y - 1 = 6 * ((y - 1) \div 6) + ((y - 1) % 6)
    OBVIOUS
  <2> QED BY <2>1
<1>2. i \in 0 .. h /\ c + 1 \in {1, 2, 3, 4, 5, 6} /\ y = 6 * i + (c + 1)
  BY <1>1
<1> QED BY <1>2

LEMMA PlacedChar ==
  ASSUME NEW text, NEW protocol, NEW hs, NEW h, Headed(text, protocol, hs, h),
         NEW y \in 1 .. 6 * h + 6
  PROVE  /\ text[y] # NUL
         /\ text[y] = "\r" => \E i \in 0 .. h : y = 6 * i + 5
         /\ text[y] = ":" => \E i \in 0 .. h : y = 6 * i + 2
<1>1. h \in Nat
  BY DEF Headed
<1>2. PICK i \in 0 .. h, c \in {1, 2, 3, 4, 5, 6} : y = 6 * i + c
  BY <1>1, Placed
<1>3. PICK p : p = 6 * i /\ y = p + c
  BY <1>2
<1>4. LineAt(text, p)
  BY <1>3, LinesLaid
<1>5. text[y] # NUL /\ (text[y] = "\r" => c = 5) /\ (text[y] = ":" => c = 2)
  <2>1. CASE c = 1
    BY <1>3, <1>4, <2>1 DEF LineAt
  <2>2. CASE c = 2
    BY <1>3, <1>4, <2>2 DEF LineAt
  <2>3. CASE c = 3
    BY <1>3, <1>4, <2>3 DEF LineAt
  <2>4. CASE c = 4
    BY <1>3, <1>4, <2>4 DEF LineAt
  <2>5. CASE c = 5
    BY <1>3, <1>4, <2>5 DEF LineAt, NUL
  <2>6. CASE c = 6
    BY <1>3, <1>4, <2>6 DEF LineAt, NUL
  <2> QED BY <2>1, <2>2, <2>3, <2>4, <2>5, <2>6
<1> QED BY <1>2, <1>5

\* The pattern of an empty line.
LEMMA BlankPattern ==
  /\ (CRLF \o CRLF) \in Seq(Symbols) /\ Len(CRLF \o CRLF) = 4
  /\ \A text, j : j \in Nat =>
       (Matches(text, j, CRLF \o CRLF) <=> FourAt(text, j, "\r", "\n", "\r", "\n"))
<1>1. PICK r \in Symbols, n \in Symbols : r = "\r" /\ n = "\n"
  BY DEF Symbols
<1>2. CRLF \o CRLF = <<r, n, r, n>>
  <2>1. PICK s, p : s = <<r, n>> \o <<r, n>> /\ p = <<r, n, r, n>>
    OBVIOUS
  <2>2. s \in Seq(Symbols) /\ Len(s) = 4 /\ s[1] = r /\ s[2] = n /\ s[3] = r /\ s[4] = n
    BY <2>1
  <2>3. p \in Seq(Symbols) /\ Len(p) = 4 /\ p[1] = r /\ p[2] = n /\ p[3] = r /\ p[4] = n
    BY <2>1
  <2>4. \A i \in 1 .. 4 : i \in {1, 2, 3, 4}
    OBVIOUS
  <2>5. \A i \in 1 .. Len(s) : s[i] = p[i]
    BY <2>2, <2>3, <2>4
  <2>6. s = p
    BY <2>2, <2>3, <2>5, SeqEqual
  <2>7. CRLF \o CRLF = s
    BY <1>1, <2>1 DEF CRLF
  <2> QED BY <2>1, <2>6, <2>7
<1>3. PICK p : p = <<r, n, r, n>>
  OBVIOUS
<1>4. /\ p \in Seq(Symbols) /\ Len(p) = 4
      /\ \A text, j : j \in Nat => (Matches(text, j, p) <=> FourAt(text, j, r, n, r, n))
  BY <1>3, FourMatch
<1> QED BY <1>1, <1>2, <1>3, <1>4

\* There is none before the headers' end.
LEMMA NoBlankYet ==
  ASSUME NEW text, NEW protocol, NEW hs, NEW h, Headed(text, protocol, hs, h),
         NEW y \in 1 .. 6 * h + 4, NEW b, NEW k \in Nat, y + 3 <= k, HasCome(b, text, k)
  PROVE  ~FourAt(b, y, "\r", "\n", "\r", "\n")
<1>1. h \in Nat
  BY DEF Headed
<1>2. SUFFICES ASSUME FourAt(b, y, "\r", "\n", "\r", "\n") PROVE FALSE
  OBVIOUS
<1>3. b[y] = text[y] /\ b[y + 2] = text[y + 2]
  <2>1. y \in 1 .. k /\ y + 2 \in 1 .. k
    OBVIOUS
  <2> QED BY <2>1 DEF HasCome
<1>4. text[y] = "\r" /\ text[y + 2] = "\r"
  BY <1>2, <1>3 DEF FourAt
<1>5. PICK i \in 0 .. h : y = 6 * i + 5
  <2>1. y \in 1 .. 6 * h + 6
    BY <1>1
  <2> QED BY <1>4, <2>1, PlacedChar
<1>6. PICK p : p = 6 * (i + 1) /\ i + 1 \in 0 .. h /\ y + 2 = p + 1
  BY <1>1, <1>5
<1>7. LineAt(text, p)
  BY <1>6, LinesLaid
<1>8. text[p + 1] # "\r"
  BY <1>7 DEF LineAt
<1> QED BY <1>4, <1>6, <1>8

LEMMA BlankFound ==
  ASSUME NEW text, NEW protocol, NEW hs, NEW h, Headed(text, protocol, hs, h),
         NEW b, NEW k \in Nat, k >= 6 * h + 8, HasCome(b, text, k)
  PROVE  strstr(b, 1, CRLF \o CRLF) = 6 * h + 5
<1>1. h \in Nat /\ b \in Seq(Symbols) /\ Len(b) = k + 1
  BY DEF Headed, HasCome
<1>2. PICK j : j = 6 * h + 5 /\ j \in Nat /\ j \in 1 .. Len(b) - 4 + 1
  BY <1>1
<1>3. FourAt(b, j, "\r", "\n", "\r", "\n")
  <2>1. j \in 1 .. k /\ j + 1 \in 1 .. k /\ j + 2 \in 1 .. k /\ j + 3 \in 1 .. k
    BY <1>1, <1>2
  <2>2. b[j] = text[j] /\ b[j + 1] = text[j + 1] /\ b[j + 2] = text[j + 2] /\ b[j + 3] = text[j + 3]
    BY <2>1 DEF HasCome
  <2>3. PICK p : p = 6 * h /\ j = p + 5 /\ j + 1 = p + 6 /\ j + 2 = p + 7 /\ j + 3 = p + 8
    BY <1>1, <1>2
  <2>4. h \in 0 .. h
    BY <1>1
  <2>5. LineAt(text, p)
    BY <2>3, <2>4, LinesLaid
  <2>6. text[p + 7] = "\r" /\ text[p + 8] = "\n"
    BY <2>3 DEF Headed, HeadLaid
  <2> QED BY <2>2, <2>3, <2>5, <2>6 DEF LineAt, FourAt
<1>4. \A y \in 1 .. j : b[y] # NUL
  <2>1. ASSUME NEW y \in 1 .. j PROVE b[y] # NUL
    <3>1. y \in 1 .. 6 * h + 6 /\ y \in 1 .. k
      BY <1>1, <1>2
    <3>2. text[y] # NUL
      BY <3>1, PlacedChar
    <3> QED BY <3>1, <3>2 DEF HasCome
  <2> QED BY <2>1
<1>5. \A y \in 1 .. j - 1 : ~FourAt(b, y, "\r", "\n", "\r", "\n")
  <2>1. ASSUME NEW y \in 1 .. j - 1 PROVE ~FourAt(b, y, "\r", "\n", "\r", "\n")
    <3>1. y \in 1 .. 6 * h + 4 /\ y + 3 <= k
      BY <1>1, <1>2
    <3> QED BY <3>1, NoBlankYet
  <2> QED BY <2>1
<1>6. PICK p : p = CRLF \o CRLF
  OBVIOUS
<1>7. /\ p \in Seq(Symbols) /\ Len(p) = 4
      /\ \A t, i : i \in Nat => (Matches(t, i, p) <=> FourAt(t, i, "\r", "\n", "\r", "\n"))
  BY <1>6, BlankPattern
<1>8. j \in Occurs(b, 1, p)
  BY <1>2, <1>3, <1>4, <1>7 DEF Occurs
<1>9. \A y \in 1 .. j - 1 : ~Matches(b, y, p)
  <2>1. \A y \in 1 .. j - 1 : y \in Nat
    OBVIOUS
  <2> QED BY <1>5, <1>7, <2>1
<1>10. strstr(b, 1, p) = j
  <2>1. 1 \in Nat \ {0}
    OBVIOUS
  <2> QED BY <1>1, <1>7, <1>8, <1>9, <2>1, StrstrIs
<1> QED BY <1>2, <1>6, <1>10

LEMMA BlankMissing ==
  ASSUME NEW text, NEW protocol, NEW hs, NEW h, Headed(text, protocol, hs, h),
         NEW b, NEW k \in Nat, k < 6 * h + 8, HasCome(b, text, k)
  PROVE  strstr(b, 1, CRLF \o CRLF) = 0
<1>1. h \in Nat /\ b \in Seq(Symbols) /\ Len(b) = k + 1 /\ b[k + 1] = NUL
  BY DEF Headed, HasCome
<1>2. ASSUME NEW y \in 1 .. Len(b) - 4 + 1 PROVE ~FourAt(b, y, "\r", "\n", "\r", "\n")
  <2>1. SUFFICES ASSUME FourAt(b, y, "\r", "\n", "\r", "\n") PROVE FALSE
    OBVIOUS
  <2>2. y + 3 # k + 1
    BY <1>1, <2>1 DEF FourAt, NUL
  <2>3. y \in 1 .. 6 * h + 4 /\ y + 3 <= k
    BY <1>1, <2>2
  <2> QED BY <2>1, <2>3, NoBlankYet
<1>3. PICK p : p = CRLF \o CRLF
  OBVIOUS
<1>4. /\ p \in Seq(Symbols) /\ Len(p) = 4
      /\ \A t, i : i \in Nat => (Matches(t, i, p) <=> FourAt(t, i, "\r", "\n", "\r", "\n"))
  BY <1>3, BlankPattern
<1>5. \A y \in 1 .. Len(b) - Len(p) + 1 : ~Matches(b, y, p)
  <2>1. \A y \in 1 .. Len(b) - 4 + 1 : y \in Nat
    OBVIOUS
  <2> QED BY <1>2, <1>4, <2>1
<1>6. 1 \in Nat \ {0}
  OBVIOUS
<1>7. strstr(b, 1, p) = 0
  BY <1>1, <1>4, <1>5, <1>6, StrstrNone
<1> QED BY <1>3, <1>7

--------------------------------------------------------------------------------
(* The two parts that the empty line divides it into. *)

\* n characters of a text, from behind p on.
IsSlice(s, b, p, n) ==
  s \in Seq(Symbols) /\ Len(s) = n /\ \A j \in 1 .. n : s[j] = b[p + j]

LEMMA SliceOf ==
  ASSUME NEW b \in Seq(Symbols), NEW p \in Nat, NEW n \in Nat, p + n <= Len(b),
         NEW s, s = SubSeq(b, p + 1, p + n)
  PROVE  IsSlice(s, b, p, n)
<1>1. \A j \in p + 1 .. p + n : b[j] \in Symbols
  <2>1. \A j \in p + 1 .. p + n : j \in 1 .. Len(b)
    OBVIOUS
  <2> QED BY <2>1
<1>2. s \in Seq(Symbols) /\ Len(s) = n
  BY <1>1
<1>3. ASSUME NEW j \in 1 .. n PROVE s[j] = b[p + j]
  <2>1. (p + 1) + j - 1 = p + j /\ j \in 1 .. (p + n) - (p + 1) + 1
    OBVIOUS
  <2> QED BY <2>1
<1> QED BY <1>2, <1>3 DEF IsSlice

\* The part of a text that the headers end, and what has come in of the body behind it.
IsHead(head, text, h) ==
  /\ head \in Seq(Symbols) /\ Len(head) = 6 * h + 6
  /\ \A j \in 1 .. 6 * h + 6 : head[j] = text[j]

Halves(head, rest, text, body, h, q) ==
  IsHead(head, text, h) /\ q \in 0 .. Len(body) /\ HasCome(rest, body, q)

\* What has come in, divided at the empty line.
LEMMA Divided ==
  ASSUME NEW text, NEW protocol, NEW hs, NEW h, Headed(text, protocol, hs, h),
         NEW body, body \in Seq(Symbols), BodyLaid(text, body, h),
         NEW b, NEW k, k \in 6 * h + 8 .. Len(text), HasCome(b, text, k),
         NEW head, head = SubSeq(b, 1, 6 * h + 6), NEW rest, rest = SubSeq(b, 6 * h + 9, Len(b))
  PROVE  Halves(head, rest, text, body, h, k - (6 * h + 8))
<1>1. PICK u \in Nat : u = 6 * h /\ h \in Nat
  BY DEF Headed
<1>2. Len(body) \in Nat /\ Len(text) = u + 8 + Len(body) /\ k \in Nat
  BY <1>1 DEF BodyLaid
<1>3. PICK q \in 0 .. Len(body) : q = k - (u + 8) /\ k = u + 8 + q /\ q \in Nat
  BY <1>1, <1>2
<1>4. b \in Seq(Symbols) /\ Len(b) = k + 1 /\ b[k + 1] = NUL /\ \A j \in 1 .. k : b[j] = text[j]
  BY DEF HasCome
<1>5. head \in Seq(Symbols) /\ Len(head) = u + 6 /\ \A j \in 1 .. u + 6 : head[j] = b[j]
  <2>1. PICK p \in Nat, n \in Nat : p = 0 /\ n = u + 6
    BY <1>1
  <2>2. head = SubSeq(b, p + 1, p + n) /\ p + n <= Len(b)
    BY <1>1, <1>3, <1>4, <2>1
  <2>3. IsSlice(head, b, p, n)
    BY <1>4, <2>2, SliceOf
  <2>4. \A j \in 1 .. n : p + j = j
    BY <2>1
  <2> QED BY <2>1, <2>3, <2>4 DEF IsSlice
<1>6. \A j \in 1 .. u + 6 : head[j] = text[j]
  <2>1. \A j \in 1 .. u + 6 : j \in 1 .. k
    BY <1>3
  <2> QED BY <1>4, <1>5, <2>1
<1>7. rest \in Seq(Symbols) /\ Len(rest) = q + 1 /\ \A j \in 1 .. q + 1 : rest[j] = b[u + 8 + j]
  <2>1. PICK p \in Nat, n \in Nat : p = u + 8 /\ n = q + 1
    BY <1>1, <1>3
  <2>2. rest = SubSeq(b, p + 1, p + n) /\ p + n <= Len(b)
    <3>1. p + 1 = 6 * h + 9 /\ p + n = Len(b)
      BY <1>1, <1>3, <1>4, <2>1
    <3>2. rest = SubSeq(b, p + 1, p + n)
      BY <3>1, Zenon
    <3>3. p + n <= Len(b)
      BY <1>3, <1>4, <2>1
    <3> QED BY <3>2, <3>3
  <2>3. IsSlice(rest, b, p, n)
    BY <1>4, <2>2, SliceOf
  <2> QED BY <2>1, <2>3 DEF IsSlice
<1>8. HasCome(rest, body, q)
  <2>1. rest[q + 1] = NUL
    <3>1. q + 1 \in 1 .. q + 1 /\ u + 8 + (q + 1) = k + 1
      BY <1>3
    <3> QED BY <1>4, <1>7, <3>1
  <2>2. ASSUME NEW j \in 1 .. q PROVE rest[j] = body[j]
    <3>1. j \in 1 .. q + 1 /\ u + 8 + j \in 1 .. k /\ j \in 1 .. Len(body)
      BY <1>3
    <3>2. text[u + 8 + j] = body[j]
      BY <1>1, <3>1 DEF BodyLaid
    <3> QED BY <1>4, <1>7, <3>1, <3>2
  <2> QED BY <1>7, <2>1, <2>2 DEF HasCome
<1> QED BY <1>1, <1>3, <1>5, <1>6, <1>8 DEF IsHead, Halves

SeesChunked(head, hs, h) ==
  strstr(head, 1, <<"Transfer-Encoding", ":", " ", "chunked">>) # 0
    <=> \E i \in 1 .. h : hs[i] = ChunkedHeader

\* The header that a chunked body has is found if it is there.
LEMMA ChunkedSeen ==
  ASSUME NEW text, NEW protocol, NEW hs, NEW h, Headed(text, protocol, hs, h),
         NEW head, IsHead(head, text, h)
  PROVE  SeesChunked(head, hs, h)
<1>0. /\ head \in Seq(Symbols) /\ Len(head) = 6 * h + 6
      /\ \A j \in 1 .. 6 * h + 6 : head[j] = text[j]
  BY DEF IsHead
<1> USE <1>0
<1>1. PICK a \in Symbols, c \in Symbols, s \in Symbols, v \in Symbols :
        a = "Transfer-Encoding" /\ c = ":" /\ s = " " /\ v = "chunked"
  BY SymbolsAre
<1>2. PICK p : p = <<a, c, s, v>>
  OBVIOUS
<1>3. /\ p \in Seq(Symbols) /\ Len(p) = 4
      /\ \A t, j : j \in Nat => (Matches(t, j, p) <=> FourAt(t, j, a, c, s, v))
  BY <1>2, FourMatch
<1>4. h \in Nat /\ hs \in Seq(Words \X Words) /\ Len(hs) = h
  BY DEF Headed
<1>5. 1 \in Nat \ {0}
  OBVIOUS
<1>6. ASSUME NEW i \in 1 .. h, hs[i] = ChunkedHeader PROVE strstr(head, 1, p) # 0
  <2>1. PICK n \in Nat, j \in Nat : n = 6 * i /\ j = n + 1 /\ j >= 1 /\ n + 6 <= 6 * h + 6
    BY <1>4
  <2>2. PICK x : x = hs[i]
    OBVIOUS
  <2>3. HeaderAt(text, n, x)
    BY <2>1, <2>2 DEF Headed, HeadLaid
  <2>4. x[1] = a /\ x[2] = v
    <3>1. x = <<a, v>>
      BY <1>1, <1>6, <2>2 DEF ChunkedHeader
    <3> QED BY <3>1
  <2>5. head[j] = text[j] /\ head[j + 1] = text[j + 1] /\ head[j + 2] = text[j + 2]
        /\ head[j + 3] = text[j + 3]
    <3>1. /\ j \in 1 .. 6 * h + 6 /\ j + 1 \in 1 .. 6 * h + 6 /\ j + 2 \in 1 .. 6 * h + 6
          /\ j + 3 \in 1 .. 6 * h + 6
      <4>1. PICK z \in Nat : z = 6 * h + 6
        BY <1>4
      <4>2. j \in 1 .. z /\ j + 1 \in 1 .. z /\ j + 2 \in 1 .. z /\ j + 3 \in 1 .. z
        BY <2>1, <4>1
      <4> QED BY <4>1, <4>2
    <3> QED BY <3>1
  <2>6. j + 1 = n + 2 /\ j + 2 = n + 3 /\ j + 3 = n + 4
    BY <2>1
  <2>7. FourAt(head, j, a, c, s, v)
    BY <1>1, <2>1, <2>3, <2>4, <2>5, <2>6 DEF HeaderAt, FourAt
  <2>8. \A y \in 1 .. j : head[y] # NUL
    <3>1. \A y \in 1 .. j : y \in 1 .. 6 * h + 6
      BY <1>4, <2>1
    <3>2. \A y \in 1 .. 6 * h + 6 : text[y] # NUL
      BY PlacedChar
    <3> QED BY <3>1, <3>2
  <2>9. j \in Occurs(head, 1, p)
    <3>1. j \in 1 .. Len(head) - 4 + 1
      BY <1>4, <2>1
    <3> QED BY <1>3, <2>7, <2>8, <3>1 DEF Occurs
  <2> QED BY <1>3, <1>5, <2>9, StrstrWithin
<1>7. ASSUME \A i \in 1 .. h : hs[i] # ChunkedHeader PROVE strstr(head, 1, p) = 0
  <2>1. ASSUME NEW y \in 1 .. Len(head) - Len(p) + 1 PROVE ~Matches(head, y, p)
    <3>1. y \in Nat /\ y \in 1 .. 6 * h + 6 /\ y + 1 \in 1 .. 6 * h + 6 /\ y + 3 \in 1 .. 6 * h + 6
      BY <1>3, <1>4
    <3>2. SUFFICES ASSUME FourAt(head, y, a, c, s, v) PROVE FALSE
      BY <1>3, <3>1
    <3>3. text[y] = a /\ text[y + 1] = ":" /\ text[y + 3] = v
      BY <1>1, <3>1, <3>2 DEF FourAt
    <3>4. PICK i \in 0 .. h : y + 1 = 6 * i + 2
      BY <3>1, <3>3, PlacedChar
    <3>5. PICK n \in Nat : n = 6 * i /\ y = n + 1 /\ y + 3 = n + 4
      BY <1>4, <3>1, <3>4
    <3>6. CASE i = 0
      <4>3. y = 1
        BY <3>5, <3>6
      <4>1. text[1] = protocol /\ y = 1
        BY <4>3, Zenon DEF Headed, HeadLaid
      <4>2. protocol # a
        BY <1>1 DEF Headed, KnownVersions
      <4> QED BY <3>3, <4>1, <4>2
    <3>7. CASE i # 0
      <4>1. i \in 1 .. h
        BY <1>4, <3>7
      <4>2. PICK x : x = hs[i]
        OBVIOUS
      <4>3. HeaderAt(text, n, x)
        BY <3>5, <4>1, <4>2 DEF Headed, HeadLaid
      <4>4. x[1] = a /\ x[2] = v
        BY <3>3, <3>5, <4>3 DEF HeaderAt
      <4>5. x = <<x[1], x[2]>>
        BY <1>4, <4>1, <4>2, HeaderWords
      <4>6. x = ChunkedHeader
        BY <1>1, <4>4, <4>5 DEF ChunkedHeader
      <4> QED BY <1>7, <4>1, <4>2, <4>6
    <3> QED BY <3>6, <3>7
  <2> QED BY <1>3, <1>5, <2>1, StrstrNone
<1> QED BY <1>1, <1>2, <1>6, <1>7 DEF SeesChunked

--------------------------------------------------------------------------------
(* The loop over the headers, step by step. *)

\* A step of header_lines' loop.
LineStep(f, text, i) ==
  LET colon == Find(text, i, {":"})
      value == Skip(text, colon + 1, {" "})
      end   == Find(text, value, {"\r", "\n"})
  IN  IF i > Len(text) \/ colon = 0 \/ value = 0 \/ end = 0
      THEN << >>
      ELSE << <<SubSeq(text, i, colon - 1), SubSeq(text, value, end - 1)>> >> \o f[end + 2]

\* It goes on to what is further behind.
LEMMA LineOnward ==
  ASSUME NEW text, Len(text) \in Nat, NEW i \in Nat, NEW f, NEW g,
         \A n \in Nat : n > i => g[n] = f[n]
  PROVE  LineStep(g, text, i) = LineStep(f, text, i)
<1>1. PICK colon, value, end :
        /\ colon = Find(text, i, {":"})
        /\ value = Skip(text, colon + 1, {" "})
        /\ end = Find(text, value, {"\r", "\n"})
  OBVIOUS
<1>2. CASE i > Len(text) \/ colon = 0 \/ value = 0 \/ end = 0
  BY <1>1, <1>2 DEF LineStep
<1>3. CASE ~(i > Len(text) \/ colon = 0 \/ value = 0 \/ end = 0)
  <2>1. colon \in i .. Len(text)
    BY <1>1, <1>3, FindWithin
  <2>2. value \in colon + 1 .. Len(text)
    <3>1. colon + 1 \in Nat
      BY <2>1
    <3> QED BY <1>1, <1>3, <3>1, FindWithin
  <2>3. end \in value .. Len(text)
    <3>1. value \in Nat
      BY <2>1, <2>2
    <3> QED BY <1>1, <1>3, <3>1, FindWithin
  <2>4. end + 2 \in Nat /\ end + 2 > i
    BY <2>1, <2>2, <2>3
  <2>5. g[end + 2] = f[end + 2]
    BY <2>4
  <2> QED BY <1>1, <1>3, <2>5 DEF LineStep
<1> QED BY <1>2, <1>3

LinesFrom(f, text, m) == \A n \in Nat : n >= m => f[n] = LineStep(f, text, n)

LEMMA LinesExist ==
  ASSUME NEW text, NEW z \in Nat, z = Len(text)
  PROVE  \E f : f = [i \in Nat |-> LineStep(f, text, i)]
<1> DEFINE S == {d \in 0 .. z + 1 : \E f : LinesFrom(f, text, z + 1 - d)}
<1>1. 0 \in S
  <2>1. PICK f : f = [i \in Nat |-> << >>]
    OBVIOUS
  <2>2. ASSUME NEW n \in Nat, n >= z + 1 PROVE f[n] = LineStep(f, text, n)
    <3>1. n > Len(text)
      BY <2>2
    <3> QED BY <2>1, <3>1 DEF LineStep
  <2>3. z + 1 - 0 = z + 1
    OBVIOUS
  <2> QED BY <2>2, <2>3 DEF LinesFrom
<1>2. ASSUME NEW d \in 0 .. z, d \in S PROVE d + 1 \in S
  <2>1. PICK f : LinesFrom(f, text, z + 1 - d)
    BY <1>2
  <2>2. PICK m \in Nat : m = z - d /\ m + 1 = z + 1 - d /\ m = z + 1 - (d + 1)
    OBVIOUS
  <2>3. PICK g : g = [n \in Nat |-> IF n = m THEN LineStep(f, text, m) ELSE f[n]]
    OBVIOUS
  <2>4. ASSUME NEW n \in Nat, n >= m PROVE g[n] = LineStep(g, text, n)
    <3>1. \A i \in Nat : i > n => g[i] = f[i]
      BY <2>3, <2>4
    <3>2. LineStep(g, text, n) = LineStep(f, text, n)
      BY <3>1, LineOnward
    <3>3. g[n] = LineStep(f, text, n)
      <4>1. CASE n = m
        BY <2>3, <4>1
      <4>2. CASE n # m
        <5>1. n >= m + 1
          BY <2>4, <4>2
        <5> QED BY <2>1, <2>2, <2>3, <4>2, <5>1 DEF LinesFrom
      <4> QED BY <4>1, <4>2
    <3> QED BY <3>2, <3>3
  <2>5. LinesFrom(g, text, m)
    BY <2>4 DEF LinesFrom
  <2>6. d + 1 \in 0 .. z + 1
    OBVIOUS
  <2> QED BY <2>2, <2>5, <2>6
<1>3. z + 1 \in S
  <2> HIDE DEF S
  <2>1. \A d \in 0 .. (z + 1) - 1 : d \in S => d + 1 \in S
    BY <1>2
  <2>2. 0 .. z + 1 \subseteq S
    <3>1. z + 1 \in Nat
      OBVIOUS
    <3> QED BY <1>1, <2>1, <3>1, UpTo, Zenon
  <2> QED BY <2>2
<1>4. PICK f : LinesFrom(f, text, 0)
  <2>1. z + 1 - (z + 1) = 0
    OBVIOUS
  <2> QED BY <1>3, <2>1
<1>5. PICK g : g = [n \in Nat |-> f[n]]
  OBVIOUS
<1>6. ASSUME NEW n \in Nat PROVE g[n] = LineStep(g, text, n)
  <2>1. \A i \in Nat : i > n => g[i] = f[i]
    BY <1>5
  <2>2. LineStep(g, text, n) = LineStep(f, text, n)
    BY <2>1, LineOnward
  <2>3. f[n] = LineStep(f, text, n)
    BY <1>4 DEF LinesFrom
  <2> QED BY <1>5, <2>2, <2>3
<1>7. g = [i \in Nat |-> LineStep(g, text, i)]
  BY <1>5, <1>6
<1> QED BY <1>7

LEMMA LinesUnfold ==
  ASSUME NEW text, NEW z \in Nat, z = Len(text), NEW newline, newline = Find(text, 1, {"\n"}),
         newline # 0
  PROVE  \E f : header_lines(text) = f[newline + 1] /\ LinesFrom(f, text, 0)
<1>1. PICK f : f = CHOOSE g : g = [i \in Nat |->
        LET colon == Find(text, i, {":"})
            value == Skip(text, colon + 1, {" "})
            end   == Find(text, value, {"\r", "\n"})
        IN  IF i > Len(text) \/ colon = 0 \/ value = 0 \/ end = 0
            THEN << >>
            ELSE << <<SubSeq(text, i, colon - 1), SubSeq(text, value, end - 1)>> >> \o g[end + 2]]
  OBVIOUS
<1>2. f = CHOOSE g : g = [i \in Nat |-> LineStep(g, text, i)]
  BY <1>1, Zenon DEF LineStep
<1>3. f = [i \in Nat |-> LineStep(f, text, i)]
  <2>1. \E g : g = [i \in Nat |-> LineStep(g, text, i)]
    BY LinesExist
  <2> QED BY <1>2, <2>1, Zenon
<1>4. LinesFrom(f, text, 0)
  <2>1. \A n \in Nat : f[n] = LineStep(f, text, n)
    BY <1>3
  <2> QED BY <2>1 DEF LinesFrom
<1>5. header_lines(text) = f[newline + 1]
  BY <1>1, Zenon DEF header_lines
<1> QED BY <1>4, <1>5

--------------------------------------------------------------------------------
(* What the headers are told as. *)

\* What is told of a header.
PairOf(x) == << << x[1] >>, << x[2] >> >>

\* A header's line is read and gone on behind.
LEMMA LineRead ==
  ASSUME NEW head \in Seq(Symbols), NEW p \in Nat, p + 6 <= Len(head), NEW x,
         x \in Words \X Words, HeaderAt(head, p, x), NEW f
  PROVE  LineStep(f, head, p + 1) = << PairOf(x) >> \o f[p + 7]
<1>1. PICK a \in Words, b \in Words : a = x[1] /\ b = x[2]
  OBVIOUS
<1>2. Len(head) \in Nat
  OBVIOUS
<1>3. /\ head[p + 1] = a /\ head[p + 2] = ":" /\ head[p + 3] = " " /\ head[p + 4] = b
      /\ head[p + 5] = "\r"
  BY <1>1 DEF HeaderAt
<1>4. a \notin {":"} /\ b \notin {" ", "\r", "\n"}
  BY <1>1 DEF Words
<1>5. Find(head, p + 1, {":"}) = p + 2
  <2>1. p + 1 \in Nat /\ p + 2 \in p + 1 .. Len(head)
    BY <1>2
  <2>3. head[p + 2] \in {":"}
    BY <1>3
  <2>2. \A k \in p + 1 .. (p + 2) - 1 : head[k] \notin {":"}
    <3>1. \A k \in p + 1 .. (p + 2) - 1 : k = p + 1
      OBVIOUS
    <3> QED BY <1>3, <1>4, <3>1
  <2> QED BY <1>2, <2>1, <2>2, <2>3, FindIs
<1>6. Skip(head, (p + 2) + 1, {" "}) = p + 4
  <2>1. p + 3 \in Nat /\ p + 4 \in p + 3 .. Len(head)
    BY <1>2
  <2>5. head[p + 4] \notin {" "}
    BY <1>3, <1>4
  <2>2. \A k \in p + 3 .. (p + 4) - 1 : head[k] \in {" "}
    <3>1. \A k \in p + 3 .. (p + 4) - 1 : k = p + 3
      OBVIOUS
    <3> QED BY <1>3, <3>1
  <2>3. Skip(head, p + 3, {" "}) = p + 4
    BY <1>2, <2>1, <2>2, <2>5, SkipIs
  <2>4. (p + 2) + 1 = p + 3
    OBVIOUS
  <2> QED BY <2>3, <2>4
<1>7. Find(head, p + 4, {"\r", "\n"}) = p + 5
  <2>1. p + 4 \in Nat /\ p + 5 \in p + 4 .. Len(head)
    BY <1>2
  <2>3. head[p + 5] \in {"\r", "\n"}
    BY <1>3
  <2>2. \A k \in p + 4 .. (p + 5) - 1 : head[k] \notin {"\r", "\n"}
    <3>1. \A k \in p + 4 .. (p + 5) - 1 : k = p + 4
      OBVIOUS
    <3> QED BY <1>3, <1>4, <3>1
  <2> QED BY <1>2, <2>1, <2>2, <2>3, FindIs
<1>8. ASSUME NEW k \in 1 .. Len(head) PROVE SubSeq(head, k, k) = << head[k] >>
  <2>1. PICK s, t, y : s = SubSeq(head, k, k) /\ y = head[k] /\ t = <<y>>
    OBVIOUS
  <2>2. y \in Symbols
    BY <2>1
  <2>3. s \in Seq(Symbols) /\ Len(s) = 1 /\ s[1] = y
    BY <2>1
  <2>4. t \in Seq(Symbols) /\ Len(t) = 1 /\ t[1] = y
    BY <2>1, <2>2
  <2>5. \A j \in 1 .. Len(s) : j = 1
    BY <2>3
  <2>6. s = t
    BY <2>3, <2>4, <2>5, SeqEqual
  <2> QED BY <2>1, <2>6
<1>9. SubSeq(head, p + 1, (p + 2) - 1) = << a >> /\ SubSeq(head, p + 4, (p + 5) - 1) = << b >>
  <2>1. p + 1 \in 1 .. Len(head) /\ p + 4 \in 1 .. Len(head) /\ (p + 2) - 1 = p + 1
        /\ (p + 5) - 1 = p + 4
    OBVIOUS
  <2> QED BY <1>3, <1>8, <2>1
<1>10. ~(p + 1 > Len(head) \/ p + 2 = 0 \/ p + 4 = 0 \/ p + 5 = 0) /\ (p + 5) + 2 = p + 7
  OBVIOUS
<1>11. PairOf(x) = << << a >>, << b >> >>
  BY <1>1 DEF PairOf
<1>12. LineStep(f, head, p + 1)
         = << << SubSeq(head, p + 1, (p + 2) - 1), SubSeq(head, p + 4, (p + 5) - 1) >> >> \o f[(p + 5) + 2]
  BY <1>5, <1>6, <1>7, <1>10, Zenon DEF LineStep
<1> QED BY <1>9, <1>10, <1>11, <1>12, Zenon

Read(headers, hs, h) == headers = [i \in 1 .. h |-> PairOf(hs[i])]

\* All headers are read, in order.
LEMMA HeadersRead ==
  ASSUME NEW text, NEW protocol, NEW hs, NEW h, Headed(text, protocol, hs, h),
         NEW head, IsHead(head, text, h), NEW headers, headers = header_lines(head)
  PROVE  Read(headers, hs, h)
<1>0. /\ head \in Seq(Symbols) /\ Len(head) = 6 * h + 6
      /\ \A j \in 1 .. 6 * h + 6 : head[j] = text[j]
  BY DEF IsHead
<1> USE <1>0
<1>1. h \in Nat /\ hs \in Seq(Words \X Words) /\ Len(hs) = h
  BY DEF Headed
<1>2. PICK z \in Nat : z = Len(head) /\ z = 6 * h + 6
  BY <1>1
<1>3. Find(head, 1, {"\n"}) = 6
  <2>1. LineAt(text, 0)
    <3>1. 0 \in 0 .. h /\ 6 * 0 = 0
      BY <1>1
    <3> QED BY <3>1, LinesLaid
  <2>2. 0 + 1 = 1 /\ 0 + 2 = 2 /\ 0 + 3 = 3 /\ 0 + 4 = 4 /\ 0 + 5 = 5 /\ 0 + 6 = 6
    OBVIOUS
  <2>3. /\ text[1] # "\n" /\ text[2] # "\n" /\ text[3] # "\n" /\ text[4] # "\n" /\ text[5] # "\n"
        /\ text[6] = "\n"
    BY <2>1, <2>2 DEF LineAt
  <2>4. \A j \in 1 .. 6 : head[j] = text[j]
    <3>1. \A j \in 1 .. 6 : j \in 1 .. 6 * h + 6
      BY <1>1
    <3> QED BY <3>1
  <2>5. \A k \in 1 .. 6 - 1 : head[k] \notin {"\n"}
    <3>1. \A k \in 1 .. 6 - 1 : k \in {1, 2, 3, 4, 5} /\ k \in 1 .. 6
      OBVIOUS
    <3> QED BY <2>3, <2>4, <3>1
  <2>6. 6 \in 1 .. Len(head) /\ Len(head) \in Nat /\ 1 \in Nat /\ head[6] \in {"\n"}
    <3>1. 6 \in 1 .. 6
      OBVIOUS
    <3> QED BY <1>1, <1>2, <2>3, <2>4, <3>1
  <2> QED BY <2>5, <2>6, FindIs
<1>4. PICK f : header_lines(head) = f[7] /\ LinesFrom(f, head, 0)
  <2>1. PICK n : n = Find(head, 1, {"\n"}) /\ n = 6 /\ n # 0 /\ n + 1 = 7
    BY <1>3
  <2>2. \E f : header_lines(head) = f[n + 1] /\ LinesFrom(f, head, 0)
    BY <1>2, <2>1, LinesUnfold
  <2> QED BY <2>1, <2>2
<1> DEFINE T == {PairOf(hs[i]) : i \in 1 .. h}
           Is(d, s) == s \in [1 .. d -> T] /\ \A j \in 1 .. d : s[j] = PairOf(hs[h - d + j])
           S == {d \in 0 .. h : Is(d, f[6 * (h - d) + 7])}
<1>5. 0 \in S
  <2>1. PICK i \in Nat : i = 6 * (h - 0) + 7 /\ i > Len(head)
    BY <1>1
  <2>2. f[i] = << >>
    <3>1. LineStep(f, head, i) = << >>
      BY <2>1 DEF LineStep
    <3> QED BY <1>4, <3>1 DEF LinesFrom
  <2>3. << >> \in [1 .. 0 -> T]
    OBVIOUS
  <2>4. Is(0, << >>)
    BY <2>3
  <2> HIDE DEF Is
  <2>5. Is(0, f[i])
    BY <2>2, <2>4
  <2> QED BY <1>1, <2>1, <2>5
<1>6. ASSUME NEW d \in 0 .. h - 1, d \in S PROVE d + 1 \in S
  <2>1. PICK i : i = h - d /\ i \in 1 .. h /\ i - 1 = h - (d + 1) /\ d + 1 \in 0 .. h /\ d \in Nat
    BY <1>1
  <2>2. PICK p \in Nat : p = 6 * i /\ p = 6 * (i - 1) + 6 /\ p + 6 <= Len(head)
    BY <1>1, <2>1
  <2>3. PICK x : x = hs[i] /\ x \in Words \X Words
    BY <1>1, <2>1
  <2>4. HeaderAt(head, p, x)
    <3>1. HeaderAt(text, p, x)
      BY <2>1, <2>2, <2>3 DEF Headed, HeadLaid
    <3>2. \A j \in 1 .. 6 : head[p + j] = text[p + j]
      <4>1. \A j \in 1 .. 6 : p + j \in 1 .. 6 * h + 6
        BY <2>2
      <4> QED BY <4>1
    <3> QED BY <3>1, <3>2, HeaderWithin
  <2>5. LineStep(f, head, p + 1) = << PairOf(x) >> \o f[p + 7]
    <3>1. head \in Seq(Symbols) /\ p \in Nat /\ p + 6 <= Len(head) /\ x \in Words \X Words
      BY <2>2, <2>3
    <3>2. \A g : LineStep(g, head, p + 1) = << PairOf(x) >> \o g[p + 7]
      <4>1. ASSUME NEW g PROVE LineStep(g, head, p + 1) = << PairOf(x) >> \o g[p + 7]
        BY <2>4, <3>1, LineRead
      <4> QED BY <4>1
    <3> QED BY <3>2
  <2>6. PICK s : s = f[p + 7] /\ Is(d, s)
    <3>1. Is(d, f[6 * (h - d) + 7])
      BY <1>6
    <3> QED BY <2>1, <2>2, <3>1
  <2>7. PICK r : r = f[p + 1] /\ r = << PairOf(x) >> \o s
    <3>1. p + 1 \in Nat /\ p + 1 >= 0
      OBVIOUS
    <3>2. f[p + 1] = LineStep(f, head, p + 1)
      BY <1>4, <3>1 DEF LinesFrom
    <3> QED BY <2>5, <2>6, <3>2
  <2>8. PICK y : y = PairOf(x) /\ y \in T
    BY <2>1, <2>3
  <2> HIDE DEF T
  <2>9. /\ r \in [1 .. d + 1 -> T] /\ r[1] = y
        /\ \A j \in 1 .. d : r[j + 1] = s[j]
    <3>1. s \in [1 .. d -> T] /\ r = <<y>> \o s
      BY <2>6, <2>7, <2>8
    <3> QED BY <2>1, <2>8, <3>1, ConsIs
  <2>10. ASSUME NEW j \in 1 .. d + 1 PROVE r[j] = PairOf(hs[h - (d + 1) + j])
    <3>1. CASE j = 1
      <4>1. h - (d + 1) + j = i
        BY <1>1, <2>1, <3>1
      <4> QED BY <2>3, <2>8, <2>9, <3>1, <4>1
    <3>2. CASE j # 1
      <4>1. PICK n \in 1 .. d : n = j - 1 /\ n + 1 = j /\ h - (d + 1) + j = h - d + n
        BY <1>1, <3>2
      <4>2. r[j] = s[n] /\ s[n] = PairOf(hs[h - d + n])
        BY <2>6, <2>9, <4>1
      <4> QED BY <4>1, <4>2
    <3> QED BY <3>1, <3>2
  <2>11. 6 * (h - (d + 1)) + 7 = p + 1
    BY <2>1, <2>2
  <2>12. Is(d + 1, f[6 * (h - (d + 1)) + 7])
    BY <2>7, <2>9, <2>10, <2>11
  <2> QED BY <2>1, <2>12
<1>7. Is(h, f[7])
  <2>1. 0 .. h \subseteq S
    <3> HIDE DEF S
    <3> QED BY <1>1, <1>5, <1>6, UpTo
  <2>2. h \in S
    <3> HIDE DEF S
    <3>1. h \in 0 .. h
      BY <1>1
    <3> QED BY <2>1, <3>1
  <2>3. 6 * (h - h) + 7 = 7
    BY <1>1
  <2> QED BY <2>2, <2>3
<1>8. \A j \in 1 .. h : f[7][j] = PairOf(hs[j])
  <2>1. \A j \in 1 .. h : h - h + j = j
    BY <1>1
  <2> QED BY <1>7, <2>1
<1>9. f[7] = [i \in 1 .. h |-> PairOf(hs[i])]
  <2>1. f[7] \in [1 .. h -> T]
    BY <1>7
  <2> QED BY <1>8, <2>1
<1> QED BY <1>4, <1>9 DEF Read

--------------------------------------------------------------------------------
(* The loop over the chunks, step by step. *)

\* What is behind a chunk's size line, up to the chunk's size.
DataAt(chunked, src, size) ==
  [k \in 1 .. size |-> IF src + k - 1 <= Len(chunked) THEN chunked[src + k - 1] ELSE JUNK]

\* A step of chunked_decode's loop.
DecodeStep(f, chunked, src) ==
  LET size == chunk_size(chunked, src)
      line == strstr(chunked, src, CRLF)
  IN  IF src > Len(chunked) \/ size = 0
      THEN [crash |-> FALSE, body |-> << >>]
      ELSE IF line = 0
      THEN [crash |-> TRUE, body |-> << >>]
      ELSE LET others == f[BehindChunk(line + 2, size)]
           IN  [others EXCEPT !.body = DataAt(chunked, line + 2, size) \o @]

\* What has been received is ended by a NUL.
Ends(c) == c \in Seq(Symbols) /\ Len(c) >= 1 /\ c[Len(c)] = NUL

\* It goes on to what is further behind.
LEMMA DecodeOnward ==
  ASSUME NEW c, Ends(c), NEW i \in Nat \ {0}, NEW f, NEW g,
         \A n \in Nat \ {0} : n > i => g[n] = f[n]
  PROVE  DecodeStep(g, c, i) = DecodeStep(f, c, i)
<1>1. PICK size, line : size = chunk_size(c, i) /\ line = strstr(c, i, CRLF)
  OBVIOUS
<1>2. CASE i > Len(c) \/ size = 0 \/ line = 0
  BY <1>1, <1>2 DEF DecodeStep
<1>3. CASE ~(i > Len(c) \/ size = 0 \/ line = 0)
  <2>1. PICK z \in Nat : z = Len(c) /\ i \in 1 .. z /\ c \in Seq(Symbols) /\ c[z] = NUL
    <3>1. Len(c) \in Nat /\ i \in 1 .. Len(c)
      BY <1>3 DEF Ends
    <3> QED BY <3>1 DEF Ends
  <2>2. size \in Nat
    BY <1>1, <2>1, ChunkSizeNat
  <2>3. line \in Nat /\ line >= i
    <3>1. strstr(c, i, CRLF) \in {0} \cup {j \in Nat : i <= j}
      BY <2>1, CRLFIs, StrstrWithin
    <3> QED BY <1>1, <1>3, <3>1
  <2>4. PICK n \in Nat \ {0} : n = BehindChunk(line + 2, size) /\ n > i
    BY <2>2, <2>3 DEF BehindChunk
  <2>5. g[n] = f[n]
    BY <2>4
  <2> QED BY <1>1, <1>3, <2>4, <2>5 DEF DecodeStep
<1> QED BY <1>2, <1>3

DecodedFrom(f, c, m) == \A n \in Nat \ {0} : n >= m => f[n] = DecodeStep(f, c, n)

LEMMA DecodedExist ==
  ASSUME NEW c, Ends(c)
  PROVE  \E f : f = [i \in Nat \ {0} |-> DecodeStep(f, c, i)]
<1>9. PICK z \in Nat : z = Len(c)
  <2>1. Len(c) \in Nat
    BY DEF Ends
  <2> QED BY <2>1
<1> DEFINE S == {d \in 0 .. z : \E f : DecodedFrom(f, c, z + 1 - d)}
<1>1. 0 \in S
  <2>1. PICK f : f = [i \in Nat \ {0} |-> [crash |-> FALSE, body |-> << >>]]
    OBVIOUS
  <2>2. ASSUME NEW n \in Nat \ {0}, n >= z + 1 PROVE f[n] = DecodeStep(f, c, n)
    <3>1. n > Len(c)
      BY <1>9, <2>2
    <3> QED BY <2>1, <3>1 DEF DecodeStep
  <2>3. z + 1 - 0 = z + 1
    OBVIOUS
  <2> QED BY <2>2, <2>3 DEF DecodedFrom
<1>2. ASSUME NEW d \in 0 .. z - 1, d \in S PROVE d + 1 \in S
  <2>1. PICK f : DecodedFrom(f, c, z + 1 - d)
    BY <1>2
  <2>2. PICK m \in Nat : m = z - d /\ m + 1 = z + 1 - d /\ m = z + 1 - (d + 1)
    OBVIOUS
  <2>3. PICK g : g = [n \in Nat \ {0} |-> IF n = m THEN DecodeStep(f, c, m) ELSE f[n]]
    OBVIOUS
  <2>4. ASSUME NEW n \in Nat \ {0}, n >= m PROVE g[n] = DecodeStep(g, c, n)
    <3>1. \A i \in Nat \ {0} : i > n => g[i] = f[i]
      BY <2>3, <2>4
    <3>2. DecodeStep(g, c, n) = DecodeStep(f, c, n)
      BY <3>1, DecodeOnward
    <3>3. g[n] = DecodeStep(f, c, n)
      <4>1. CASE n = m
        BY <2>3, <4>1
      <4>2. CASE n # m
        <5>1. n >= m + 1
          BY <2>4, <4>2
        <5> QED BY <2>1, <2>2, <2>3, <4>2, <5>1 DEF DecodedFrom
      <4> QED BY <4>1, <4>2
    <3> QED BY <3>2, <3>3
  <2>5. DecodedFrom(g, c, m)
    BY <2>4 DEF DecodedFrom
  <2>6. d + 1 \in 0 .. z
    OBVIOUS
  <2> QED BY <2>2, <2>5, <2>6
<1>3. z \in S
  <2> HIDE DEF S
  <2>1. \A d \in 0 .. z - 1 : d \in S => d + 1 \in S
    BY <1>2
  <2>2. 0 .. z \subseteq S
    BY <1>1, <2>1, UpTo, Zenon
  <2> QED BY <2>2
<1>4. PICK f : DecodedFrom(f, c, 1)
  <2>1. z + 1 - z = 1
    OBVIOUS
  <2> QED BY <1>3, <2>1
<1>5. PICK g : g = [n \in Nat \ {0} |-> f[n]]
  OBVIOUS
<1>6. ASSUME NEW n \in Nat \ {0} PROVE g[n] = DecodeStep(g, c, n)
  <2>1. \A i \in Nat \ {0} : i > n => g[i] = f[i]
    BY <1>5
  <2>2. DecodeStep(g, c, n) = DecodeStep(f, c, n)
    BY <2>1, DecodeOnward
  <2>3. f[n] = DecodeStep(f, c, n)
    BY <1>4 DEF DecodedFrom
  <2> QED BY <1>5, <2>2, <2>3
<1>7. g = [i \in Nat \ {0} |-> DecodeStep(g, c, i)]
  BY <1>5, <1>6
<1> QED BY <1>7

LEMMA DecodeUnfolds ==
  ASSUME NEW c, Ends(c)
  PROVE  \E f : chunked_decode(c) = f[1] /\ \A n \in Nat \ {0} : f[n] = DecodeStep(f, c, n)
<1>1. PICK f : f = CHOOSE g : g = [src \in Nat \ {0} |->
        LET size == chunk_size(c, src)
            line == strstr(c, src, CRLF)
        IN  IF src > Len(c) \/ size = 0
            THEN [crash |-> FALSE, body |-> << >>]
            ELSE IF line = 0
            THEN [crash |-> TRUE, body |-> << >>]
            ELSE LET others == g[BehindChunk(line + 2, size)]
                 IN  [others EXCEPT !.body =
                        [k \in 1 .. size |-> IF line + 2 + k - 1 <= Len(c) THEN c[line + 2 + k - 1] ELSE JUNK]
                          \o @]]
  OBVIOUS
<1>2. f = CHOOSE g : g = [i \in Nat \ {0} |-> DecodeStep(g, c, i)]
  BY <1>1, Zenon DEF DecodeStep, DataAt
<1>3. f = [i \in Nat \ {0} |-> DecodeStep(f, c, i)]
  <2>1. \E g : g = [i \in Nat \ {0} |-> DecodeStep(g, c, i)]
    BY DecodedExist
  <2> QED BY <1>2, <2>1, Zenon
<1>4. chunked_decode(c) = f[1]
  BY <1>1, Zenon DEF chunked_decode
<1>5. \A n \in Nat \ {0} : f[n] = DecodeStep(f, c, n)
  BY <1>3
<1> QED BY <1>4, <1>5

--------------------------------------------------------------------------------
(* How a chunk is laid out. *)

\* A chunk in a text from behind p on, its size line ended behind e.
ChunkLaid(t, p, d, x, e, part) ==
  /\ e = p + Len(d) + Len(x) + 2
  /\ \A j \in 1 .. Len(d) : t[p + j] = d[j]
  /\ \A j \in 1 .. Len(x) : t[p + Len(d) + j] = x[j]
  /\ t[e - 1] = "\r" /\ t[e] = "\n"
  /\ \A j \in 1 .. Len(part) : t[e + j] = part[j]

\* What extensions are.
Extension(x) ==
  /\ x \in Seq(Symbols) /\ \A i \in 1 .. Len(x) : x[i] \in Others \ {"\r", "\n", NUL}
  /\ x # << >> => x[1] \notin HexSet

LEMMA CatOthers ==
  ASSUME NEW a \in Seq(Others), NEW b \in Seq(Others)
  PROVE  (a \o b) \in Seq(Others)
OBVIOUS

LEMMA OthersSymbols ==
  ASSUME NEW s \in Seq(Others)
  PROVE  s \in Seq(Symbols)
<1>1. \A i \in 1 .. Len(s) : s[i] \in Others
  OBVIOUS
<1>2. \A i \in 1 .. Len(s) : s[i] \in Symbols
  BY <1>1, SymbolsAre
<1> QED BY <1>2, Retyped

LEMMA CRLFOthers == CRLF \in Seq(Others) /\ Len(CRLF) = 2 /\ CRLF[1] = "\r" /\ CRLF[2] = "\n"
<1>1. PICK r \in Others, n \in Others : r = "\r" /\ n = "\n"
  BY SymbolsAre
<1>2. PICK c : c = <<r, n>>
  OBVIOUS
<1>3. c \in Seq(Others) /\ Len(c) = 2 /\ c[1] = r /\ c[2] = n
  BY <1>2
<1> QED BY <1>1, <1>2, <1>3 DEF CRLF

LEMMA ChunkIs ==
  ASSUME NEW m, NEW x, x = m.extension, Extension(x),
         NEW part \in Seq(Data), NEW l \in Nat, l = Len(part), NEW d, d = Hex(l),
         NEW t, t = Chunk(m, part)
  PROVE  /\ t \in Seq(Others) /\ Numeral(d, l)
         /\ \E e \in Nat : ChunkLaid(t, 0, d, x, e, part) /\ Len(t) = e + l + 2
<1>1. Numeral(d, l)
  BY HexNumeral
<1>2. d \in Seq(Others) /\ x \in Seq(Others) /\ part \in Seq(Others) /\ CRLF \in Seq(Others)
  <2>1. d \in Seq(HexSet)
    BY <1>1 DEF Numeral
  <2>2. d \in Seq(Others)
    <3>1. \A i \in 1 .. Len(d) : d[i] \in HexSet
      BY <2>1
    <3>2. \A i \in 1 .. Len(d) : d[i] \in Others
      BY <3>1, SymbolsAre
    <3> QED BY <2>1, <3>2, Retyped
  <2>3. x \in Seq(Others)
    BY Retyped DEF Extension
  <2>4. part \in Seq(Others)
    <3>1. \A i \in 1 .. Len(part) : part[i] \in Data
      OBVIOUS
    <3>2. \A i \in 1 .. Len(part) : part[i] \in Others
      BY <3>1, SymbolsAre
    <3> QED BY <3>2, Retyped
  <2> QED BY <2>2, <2>3, <2>4, CRLFOthers
<1>3. PICK dx, dxc, dxcp :
        dx = d \o x /\ dxc = dx \o CRLF /\ dxcp = dxc \o part
  OBVIOUS
<1>4. t = dxcp \o CRLF
  BY <1>3 DEF Chunk
<1>5. dx \in Seq(Others) /\ dxc \in Seq(Others) /\ dxcp \in Seq(Others) /\ t \in Seq(Others)
  BY <1>2, <1>3, <1>4, CatOthers
<1>6. PICK w \in Nat, y \in Nat, o \in Nat : w = Len(d) /\ y = Len(x) /\ o = 2
  BY <1>2
<1>7. o = Len(CRLF)
  BY <1>6, CRLFOthers
<1>8. /\ d \in Seq(Symbols) /\ x \in Seq(Symbols) /\ part \in Seq(Symbols) /\ CRLF \in Seq(Symbols)
      /\ dx \in Seq(Symbols) /\ dxc \in Seq(Symbols) /\ dxcp \in Seq(Symbols)
  BY <1>2, <1>5, OthersSymbols
<1>9. IsCat(dx, d, x, w, y)
  BY <1>3, <1>6, <1>8, CatIs
<1>10. PICK n1 \in Nat : n1 = w + y /\ n1 = Len(dx)
  BY <1>9 DEF IsCat
<1>11. IsCat(dxc, dx, CRLF, n1, o)
  BY <1>3, <1>6, <1>7, <1>8, <1>10, CatIs
<1>12. PICK e \in Nat : e = n1 + o /\ e = Len(dxc)
  BY <1>11 DEF IsCat
<1>13. IsCat(dxcp, dxc, part, e, l)
  BY <1>3, <1>8, <1>12, CatIs
<1>14. PICK n3 \in Nat : n3 = e + l /\ n3 = Len(dxcp)
  BY <1>13 DEF IsCat
<1>15. IsCat(t, dxcp, CRLF, n3, o)
  BY <1>4, <1>7, <1>8, <1>14, CatIs
<1>16. Len(t) = e + l + 2
  BY <1>6, <1>14, <1>15 DEF IsCat
<1>17. \A j \in 1 .. n3 : t[j] = dxcp[j]
  BY <1>15 DEF IsCat
<1>18. \A j \in 1 .. e : t[j] = dxc[j]
  <2>1. \A j \in 1 .. e : j \in 1 .. n3
    BY <1>14
  <2> QED BY <1>13, <1>17, <2>1 DEF IsCat
<1>19. \A j \in 1 .. l : t[e + j] = part[j]
  <2>1. \A j \in 1 .. l : e + j \in 1 .. n3
    BY <1>14
  <2> QED BY <1>13, <1>17, <2>1 DEF IsCat
<1>20. \A j \in 1 .. n1 : t[j] = dx[j]
  <2>1. \A j \in 1 .. n1 : j \in 1 .. e
    BY <1>12
  <2> QED BY <1>11, <1>18, <2>1 DEF IsCat
<1>21. t[e - 1] = "\r" /\ t[e] = "\n"
  <2>1. e - 1 \in 1 .. e /\ e \in 1 .. e /\ e - 1 = n1 + 1 /\ e = n1 + 2 /\ 1 \in 1 .. o /\ 2 \in 1 .. o
    BY <1>6, <1>12
  <2>2. dxc[n1 + 1] = CRLF[1] /\ dxc[n1 + 2] = CRLF[2]
    BY <1>11, <2>1 DEF IsCat
  <2> QED BY <1>18, <2>1, <2>2, CRLFOthers
<1>22. \A j \in 1 .. w : t[0 + j] = d[j]
  <2>1. \A j \in 1 .. w : j \in 1 .. n1 /\ 0 + j = j
    BY <1>10
  <2> QED BY <1>9, <1>20, <2>1 DEF IsCat
<1>23. \A j \in 1 .. y : t[0 + w + j] = x[j]
  <2>1. \A j \in 1 .. y : w + j \in 1 .. n1 /\ 0 + w + j = w + j
    BY <1>10
  <2> QED BY <1>9, <1>20, <2>1 DEF IsCat
<1>24. e = 0 + w + y + 2
  BY <1>6, <1>10, <1>12
<1>25. ChunkLaid(t, 0, d, x, e, part)
  BY <1>6, <1>19, <1>21, <1>22, <1>23, <1>24 DEF ChunkLaid
<1> QED BY <1>1, <1>5, <1>16, <1>25

\* A chunk that is a part of another text is in that, too.
LEMMA ChunkWithin ==
  ASSUME NEW s, NEW t, NEW q \in Nat, NEW d, NEW x, NEW part, NEW e \in Nat,
         Len(d) \in Nat, Len(x) \in Nat, Len(part) \in Nat,
         ChunkLaid(s, 0, d, x, e, part), \A j \in 1 .. e + Len(part) : t[q + j] = s[j]
  PROVE  ChunkLaid(t, q, d, x, q + e, part)
<1>1. PICK w \in Nat, y \in Nat, l \in Nat : w = Len(d) /\ y = Len(x) /\ l = Len(part)
  OBVIOUS
<1>2. e = w + y + 2
  BY <1>1 DEF ChunkLaid
<1>3. \A j \in 1 .. w : t[q + j] = d[j]
  <2>1. \A j \in 1 .. w : j \in 1 .. e + l /\ 0 + j = j
    BY <1>2
  <2> QED BY <1>1, <2>1 DEF ChunkLaid
<1>4. \A j \in 1 .. y : t[q + w + j] = x[j]
  <2>1. \A j \in 1 .. y : w + j \in 1 .. e + l /\ q + (w + j) = q + w + j /\ 0 + w + j = w + j
    BY <1>2
  <2> QED BY <1>1, <2>1 DEF ChunkLaid
<1>5. t[q + e - 1] = "\r" /\ t[q + e] = "\n"
  <2>1. e - 1 \in 1 .. e + l /\ e \in 1 .. e + l /\ q + (e - 1) = q + e - 1
    BY <1>2
  <2> QED BY <1>1, <2>1 DEF ChunkLaid
<1>6. \A j \in 1 .. l : t[q + e + j] = part[j]
  <2>1. \A j \in 1 .. l : e + j \in 1 .. e + l /\ q + (e + j) = q + e + j
    BY <1>2
  <2> QED BY <1>1, <2>1 DEF ChunkLaid
<1>7. q + e = q + w + y + 2
  BY <1>2
<1> QED BY <1>1, <1>3, <1>4, <1>5, <1>6, <1>7 DEF ChunkLaid

--------------------------------------------------------------------------------
(* What a step makes of a chunk. *)

NoMore(crash) == [crash |-> crash, body |-> << >>]

Longer(E, D, v) == E = [D EXCEPT !.body = v \o @]

\* A chunk whose size line has come in is read, and gone on behind.
LEMMA ChunkRead ==
  ASSUME NEW b, NEW q \in Nat, NEW c, HasCome(c, b, q),
         NEW p \in Nat, NEW d, NEW x, NEW e \in Nat, NEW part, NEW l \in Nat, l # 0, l = Len(part),
         Extension(x), Numeral(d, l), ChunkLaid(b, p, d, x, e, part), e <= q, NEW f,
         NEW E, E = DecodeStep(f, c, p + 1), NEW D, D = f[e + l + 3], NEW v, v = DataAt(c, e + 1, l)
  PROVE  Longer(E, D, v)
<1>1. Len(c) = q + 1 /\ c \in Seq(Symbols) /\ \A j \in 1 .. q : c[j] = b[j]
  BY DEF HasCome
<1>2. PICK w \in Nat, y \in Nat : w = Len(d) /\ w >= 1 /\ d \in Seq(HexSet) /\ y = Len(x)
  BY DEF Numeral, Extension
<1>3. e = p + w + y + 2
  BY <1>2 DEF ChunkLaid
<1>4. \A j \in 1 .. w : c[p + j] = d[j] /\ d[j] \in HexSet
  <2>1. \A j \in 1 .. w : p + j \in 1 .. q
    BY <1>3
  <2>2. \A j \in 1 .. w : d[j] \in HexSet
    BY <1>2
  <2> QED BY <1>1, <1>2, <2>1, <2>2 DEF ChunkLaid
<1>5. \A j \in 1 .. y : c[p + w + j] = x[j]
  <2>1. \A j \in 1 .. y : p + w + j \in 1 .. q
    BY <1>3
  <2> QED BY <1>1, <1>2, <2>1 DEF ChunkLaid
<1>6. c[e - 1] = "\r" /\ c[e] = "\n"
  <2>1. e - 1 \in 1 .. q /\ e \in 1 .. q
    BY <1>2, <1>3
  <2> QED BY <1>1, <2>1 DEF ChunkLaid
<1>7. chunk_size(c, p + 1) = l
  <2>4. p + 1 \in 1 .. q + 1 /\ p + 1 + w <= q + 1
    BY <1>3
  <2>1. p + 1 \in 1 .. Len(c) /\ p + 1 + Len(d) <= Len(c)
    BY <1>1, <1>2, <2>4
  <2>2. \A j \in 1 .. Len(d) : c[p + 1 + j - 1] = d[j]
    <3>1. \A j \in 1 .. w : p + 1 + j - 1 = p + j
      OBVIOUS
    <3> QED BY <1>2, <1>4, <3>1
  <2>3. c[p + 1 + Len(d)] \notin HexSet
    <3>1. CASE y = 0
      <4>1. p + 1 + Len(d) = e - 1
        BY <1>2, <1>3, <3>1
      <4> QED BY <1>6, <4>1, HexSetIs
    <3>2. CASE y # 0
      <4>1. p + 1 + Len(d) = p + w + 1 /\ 1 \in 1 .. y
        BY <1>2, <3>2
      <4>2. x # << >>
        BY <1>2, <3>2
      <4>3. c[p + w + 1] = x[1]
        BY <1>5, <4>1
      <4> QED BY <4>1, <4>2, <4>3 DEF Extension
    <3> QED BY <3>1, <3>2
  <2> QED BY <1>1, <2>1, <2>2, <2>3, ChunkSizeIs
<1>8. strstr(c, p + 1, CRLF) = e - 1
  <2>1. p + 1 \in Nat \ {0} /\ e - 1 \in p + 1 .. Len(c) - 1 /\ (e - 1) + 1 = e
    <3>1. p + 1 \in Nat \ {0} /\ e - 1 \in p + 1 .. (q + 1) - 1 /\ (e - 1) + 1 = e
      BY <1>2, <1>3
    <3> QED BY <1>1, <3>1
  <2>2. ASSUME NEW k \in p + 1 .. (e - 1) - 1 PROVE c[k] \notin {"\r", NUL}
    <3>1. CASE k <= p + w
      <4>1. PICK j \in 1 .. w : k = p + j
        <5>1. k - p \in 1 .. w /\ k = p + (k - p)
          BY <3>1
        <5> QED BY <5>1
      <4> QED BY <1>4, <4>1, HexSetIs
    <3>2. CASE ~(k <= p + w)
      <4>1. PICK j \in 1 .. y : k = p + w + j
        <5>1. k - (p + w) \in 1 .. y /\ k = p + w + (k - (p + w))
          BY <1>3, <3>2
        <5> QED BY <5>1
      <4>2. x[j] \notin {"\r", NUL}
        BY <1>2, <4>1 DEF Extension
      <4> QED BY <1>5, <4>1, <4>2
    <3> QED BY <3>1, <3>2
  <2> QED BY <1>1, <1>6, <2>1, <2>2, LineEndIs
<1>9. ~(p + 1 > Len(c) \/ l = 0) /\ e - 1 # 0 /\ (e - 1) + 2 = e + 1
      /\ BehindChunk(e + 1, l) = e + l + 3
  <2>1. BehindChunk(e + 1, l) = e + l + 3
    BY DEF BehindChunk
  <2>2. (e - 1) + 2 = e + 1
    OBVIOUS
  <2>3. e - 1 # 0 /\ ~(p + 1 > q + 1)
    BY <1>2, <1>3
  <2>4. ~(p + 1 > Len(c))
    BY <1>1, <2>3
  <2> QED BY <2>1, <2>2, <2>3, <2>4
<1> QED BY <1>7, <1>8, <1>9, Zenon DEF DecodeStep, Longer

\* One whose size line has not is the last.
LEMMA ChunkCut ==
  ASSUME NEW b, NEW q \in Nat, NEW c, HasCome(c, b, q),
         NEW p \in Nat, NEW d, NEW x, NEW e \in Nat, NEW part, NEW l, Extension(x), Numeral(d, l),
         ChunkLaid(b, p, d, x, e, part), q < e, NEW f
  PROVE  \E crash \in BOOLEAN : DecodeStep(f, c, p + 1) = NoMore(crash)
<1>1. Len(c) = q + 1 /\ c \in Seq(Symbols) /\ c[q + 1] = NUL /\ \A j \in 1 .. q : c[j] = b[j]
  BY DEF HasCome
<1>2. PICK w \in Nat, y \in Nat : w = Len(d) /\ w >= 1 /\ d \in Seq(HexSet) /\ y = Len(x)
  BY DEF Numeral, Extension
<1>3. e = p + w + y + 2
  BY <1>2 DEF ChunkLaid
<1>4. ASSUME NEW k \in p + 1 .. Len(c) - 1 PROVE ~(c[k] = "\r" /\ c[k + 1] = "\n")
  <2>1. k \in 1 .. q /\ c[k] = b[k] /\ k < e
    BY <1>1
  <2>2. CASE k <= p + w
    <3>1. PICK j \in 1 .. w : k = p + j
      <4>1. k - p \in 1 .. w /\ k = p + (k - p)
        BY <2>2
      <4> QED BY <4>1
    <3>2. d[j] \in HexSet /\ b[p + j] = d[j]
      BY <1>2, <3>1 DEF ChunkLaid
    <3> QED BY <2>1, <3>1, <3>2, HexSetIs
  <2>3. CASE k > p + w /\ k < e - 1
    <3>1. PICK j \in 1 .. y : k = p + w + j
      <4>1. k - (p + w) \in 1 .. y /\ k = p + w + (k - (p + w))
        BY <1>3, <2>3
      <4> QED BY <4>1
    <3>2. x[j] \notin {"\r", NUL}
      BY <1>2, <3>1 DEF Extension
    <3>3. b[p + w + j] = x[j]
      BY <1>2, <3>1 DEF ChunkLaid
    <3> QED BY <2>1, <3>1, <3>2, <3>3
  <2>4. CASE k = e - 1
    <3>1. k + 1 = q + 1
      BY <1>1, <2>1, <2>4
    <3> QED BY <1>1, <3>1 DEF NUL
  <2> QED BY <2>1, <2>2, <2>3, <2>4
<1>5. strstr(c, p + 1, CRLF) = 0
  <2>1. p + 1 \in Nat \ {0}
    OBVIOUS
  <2> QED BY <1>1, <1>4, <2>1, LineEndNone
<1>6. DecodeStep(f, c, p + 1) = NoMore(FALSE) \/ DecodeStep(f, c, p + 1) = NoMore(TRUE)
  BY <1>5, Zenon DEF DecodeStep, NoMore
<1> QED BY <1>6

IsLast(E) == E = NoMore(FALSE)

\* Behind the last chunk there is the end.
LEMMA LastChunk ==
  ASSUME NEW b, NEW q \in Nat, NEW c, HasCome(c, b, q),
         NEW p \in Nat, b[p + 1] = "0", b[p + 2] = "\r", NEW f,
         NEW E, E = DecodeStep(f, c, p + 1)
  PROVE  IsLast(E)
<1>1. Len(c) = q + 1 /\ c \in Seq(Symbols) /\ c[q + 1] = NUL /\ \A j \in 1 .. q : c[j] = b[j]
  BY DEF HasCome
<1>2. CASE p + 1 > Len(c)
  BY <1>2 DEF DecodeStep, NoMore, IsLast
<1>3. CASE p = q
  <2>1. PICK z \in Nat : z = Len(c) /\ c[z] = NUL /\ p + 1 \in 1 .. z /\ c[p + 1] = NUL
    BY <1>1, <1>3
  <2>2. chunk_size(c, p + 1) = 0
    BY <1>1, <2>1, ChunkSizeNat
  <2> QED BY <2>2 DEF DecodeStep, NoMore, IsLast
<1>4. CASE p < q
  <2>1. PICK d : d = << HexDigits[0 + 1] >>
    OBVIOUS
  <2>2. Numeral(d, 0)
    <3>1. 0 \in 0 .. 15
      OBVIOUS
    <3> QED BY <2>1, <3>1, OneDigit
  <2>3. Len(d) = 1 /\ d[1] = "0"
    <3>1. HexDigits[0 + 1] = "0"
      BY DEF HexDigits
    <3> QED BY <2>1, <3>1
  <2>4. p + 1 \in 1 .. Len(c) /\ p + 1 + Len(d) <= Len(c)
    BY <1>1, <1>4, <2>3
  <2>5. \A j \in 1 .. Len(d) : c[p + 1 + j - 1] = d[j]
    <3>1. \A j \in 1 .. Len(d) : j = 1 /\ p + 1 + j - 1 = p + 1
      BY <2>3
    <3>2. c[p + 1] = "0"
      <4>1. p + 1 \in 1 .. q
        BY <1>4
      <4> QED BY <1>1, <4>1
    <3> QED BY <2>3, <3>1, <3>2
  <2>6. c[p + 1 + Len(d)] \notin HexSet
    <3>1. p + 1 + Len(d) = p + 2 /\ (p + 2 = q + 1 \/ p + 2 \in 1 .. q)
      BY <1>4, <2>3
    <3>2. c[p + 2] = NUL \/ c[p + 2] = "\r"
      BY <1>1, <3>1
    <3> QED BY <3>1, <3>2, HexSetIs
  <2>7. chunk_size(c, p + 1) = 0
    BY <1>1, <2>2, <2>4, <2>5, <2>6, ChunkSizeIs
  <2> QED BY <2>7 DEF DecodeStep, NoMore, IsLast
<1>5. p + 1 > Len(c) \/ p = q \/ p < q
  BY <1>1
<1> QED BY <1>2, <1>3, <1>4, <1>5

--------------------------------------------------------------------------------
(* What is told of a body: its beginning. *)

\* b is, up to its NUL, a beginning of s.
Tells(b, s) ==
  /\ b \in Seq(Symbols) /\ s \in Seq(Data)
  /\ \E r \in 0 .. Len(s) :
       /\ \A j \in 1 .. r : b[j] = s[j]
       /\ Len(b) >= r /\ (Len(b) = r \/ b[r + 1] = NUL)

LEMMA DataIs ==
  ASSUME NEW s \in Seq(Data)
  PROVE  /\ s \in Seq(Symbols)
         /\ \A j \in 1 .. Len(s) : s[j] \in Data /\ s[j] # NUL /\ s[j] # JUNK
<1>1. \A j \in 1 .. Len(s) : s[j] \in Data
  OBVIOUS
<1>2. \A j \in 1 .. Len(s) : s[j] \in Symbols /\ s[j] # NUL /\ s[j] # JUNK
  BY <1>1 DEF Data
<1> QED BY <1>1, <1>2, Retyped

LEMMA TellsPrefix ==
  ASSUME NEW b, NEW s, Tells(b, s)
  PROVE  IsPrefix(UpToNul(b), s)
<1>1. PICK r \in 0 .. Len(s) :
        /\ \A j \in 1 .. r : b[j] = s[j]
        /\ Len(b) >= r /\ (Len(b) = r \/ b[r + 1] = NUL)
  BY DEF Tells
<1>2. b \in Seq(Symbols) /\ s \in Seq(Data) /\ Len(b) \in Nat /\ Len(s) \in Nat /\ r \in Nat
  BY DEF Tells
<1>3. \A j \in 1 .. r : b[j] # NUL
  <2>1. \A j \in 1 .. r : j \in 1 .. Len(s)
    BY <1>2
  <2> QED BY <1>1, <1>2, <2>1, DataIs
<1>4. PICK u : u = UpToNul(b)
  OBVIOUS
<1>5. u \in Seq(Symbols) /\ Len(u) = r /\ \A j \in 1 .. r : u[j] = b[j]
  <2>1. CASE Len(b) = r
    <3>1. u = b
      BY <1>2, <1>3, <1>4, <2>1, UpToNulNone
    <3> QED BY <1>2, <2>1, <3>1
  <2>2. CASE Len(b) # r
    <3>1. r + 1 \in 1 .. Len(b) /\ b[r + 1] = NUL /\ (r + 1) - 1 = r
      BY <1>1, <1>2, <2>2
    <3>2. u = SubSeq(b, 1, (r + 1) - 1)
      BY <1>2, <1>3, <1>4, <3>1, UpToNulIs
    <3> QED BY <1>1, <1>2, <3>1, <3>2
  <2> QED BY <2>1, <2>2
<1>6. SubSeq(u, 1, Len(u)) = u
  BY <1>5, SubSeqFull
<1>7. PICK v : v = SubSeq(s, 1, Len(u))
  OBVIOUS
<1>8. v \in Seq(Data) /\ Len(v) = r /\ \A j \in 1 .. r : v[j] = s[j]
  BY <1>2, <1>5, <1>7
<1>9. v = u
  <2>1. v \in Seq(Symbols)
    BY <1>8, DataIs
  <2>2. \A j \in 1 .. Len(u) : u[j] = v[j]
    BY <1>1, <1>5, <1>8
  <2> QED BY <1>5, <1>8, <2>1, <2>2, SeqEqual
<1> QED BY <1>2, <1>4, <1>5, <1>6, <1>7, <1>9 DEF IsPrefix

LEMMA TellsNothing ==
  ASSUME NEW s \in Seq(Data)
  PROVE  Tells(<< >>, s)
<1>1. 0 \in 0 .. Len(s) /\ << >> \in Seq(Symbols) /\ Len(<< >>) = 0
  OBVIOUS
<1>2. \A j \in 1 .. 0 : FALSE
  OBVIOUS
<1> QED BY <1>1, <1>2 DEF Tells

\* A part that came in whole, with what is told of the others.
LEMMA TellsMore ==
  ASSUME NEW a \in Seq(Data), NEW b, NEW s, Tells(b, s)
  PROVE  Tells(a \o b, a \o s)
<1>1. PICK r \in 0 .. Len(s) :
        /\ \A j \in 1 .. r : b[j] = s[j]
        /\ Len(b) >= r /\ (Len(b) = r \/ b[r + 1] = NUL)
  BY DEF Tells
<1>2. b \in Seq(Symbols) /\ s \in Seq(Data) /\ a \in Seq(Symbols) /\ s \in Seq(Symbols)
  BY DataIs DEF Tells
<1>3. PICK l \in Nat, n \in Nat, k \in Nat : l = Len(a) /\ n = Len(b) /\ k = Len(s)
  BY <1>2
<1>4. PICK ab, as : ab = a \o b /\ as = a \o s
  OBVIOUS
<1>5. IsCat(ab, a, b, l, n) /\ IsCat(as, a, s, l, k)
  BY <1>2, <1>3, <1>4, CatIs
<1>6. as \in Seq(Data)
  BY <1>2, <1>4
<1>7. PICK q : q = l + r /\ q \in 0 .. Len(as) /\ Len(ab) >= q /\ (Len(b) = r => Len(ab) = q)
  <2>1. Len(ab) = l + n /\ Len(as) = l + k
    BY <1>5 DEF IsCat
  <2>2. r \in 0 .. k /\ n >= r /\ (Len(b) = r => n = r)
    BY <1>1, <1>3
  <2> QED BY <2>1, <2>2
<1>8. \A j \in 1 .. q : ab[j] = as[j]
  <2>1. ASSUME NEW j \in 1 .. q PROVE ab[j] = as[j]
    <3>1. CASE j <= l
      <4>1. j \in 1 .. l
        BY <1>7, <3>1
      <4> QED BY <1>5, <4>1 DEF IsCat
    <3>2. CASE ~(j <= l)
      <4>1. PICK i \in 1 .. r : j = l + i
        <5>1. j - l \in 1 .. r /\ j = l + (j - l)
          BY <1>7, <3>2
        <5> QED BY <5>1
      <4>2. i \in 1 .. n /\ i \in 1 .. k
        BY <1>1, <1>3
      <4> QED BY <1>1, <1>5, <4>1, <4>2 DEF IsCat
    <3> QED BY <3>1, <3>2
  <2> QED BY <2>1
<1>9. Len(ab) = q \/ ab[q + 1] = NUL
  <2>1. CASE Len(b) = r
    BY <1>7, <2>1
  <2>2. CASE Len(b) # r
    <3>1. r + 1 \in 1 .. n /\ q + 1 = l + (r + 1)
      BY <1>1, <1>3, <1>7, <2>2
    <3> QED BY <1>1, <1>5, <2>2, <3>1 DEF IsCat
  <2> QED BY <2>1, <2>2
<1>10. ab \in Seq(Symbols)
  BY <1>5 DEF IsCat
<1> QED BY <1>4, <1>6, <1>7, <1>8, <1>9, <1>10 DEF Tells

\* One that was cut, with what is in the memory behind it.
LEMMA TellsCut ==
  ASSUME NEW a \in Seq(Data), NEW s \in Seq(Data), NEW v \in Seq(Symbols), Len(v) = Len(a),
         NEW r \in 0 .. Len(a) - 1, \A j \in 1 .. r : v[j] = a[j], v[r + 1] = NUL,
         NEW b \in Seq(Symbols)
  PROVE  Tells(v \o b, a \o s)
<1>1. a \in Seq(Symbols) /\ s \in Seq(Symbols)
  BY DataIs
<1>2. PICK l \in Nat, n \in Nat, k \in Nat : l = Len(a) /\ n = Len(b) /\ k = Len(s) /\ l = Len(v)
  OBVIOUS
<1>3. PICK vb, as : vb = v \o b /\ as = a \o s
  OBVIOUS
<1>4. IsCat(vb, v, b, l, n) /\ IsCat(as, a, s, l, k)
  BY <1>1, <1>2, <1>3, CatIs
<1>5. as \in Seq(Data)
  BY <1>3
<1>6. \A j \in 1 .. r : vb[j] = as[j]
  <2>1. \A j \in 1 .. r : j \in 1 .. l
    BY <1>2
  <2> QED BY <1>4, <2>1 DEF IsCat
<1>7. vb[r + 1] = NUL
  <2>1. r + 1 \in 1 .. l
    BY <1>2
  <2> QED BY <1>4, <2>1 DEF IsCat
<1>8. r \in 0 .. Len(as) /\ Len(vb) >= r /\ vb \in Seq(Symbols)
  BY <1>2, <1>4 DEF IsCat
<1> QED BY <1>3, <1>5, <1>6, <1>7, <1>8 DEF Tells

--------------------------------------------------------------------------------
(* How a body of chunks is laid out. *)

\* b is a body of chunks, the i-th of which ends at e[i].
Chunked(b, m, n, e) ==
  /\ e \in [0 .. n -> Nat] /\ e[0] = 0 /\ \A i \in 0 .. n : e[i] <= e[n]
  /\ b \in Seq(Others) /\ Len(b) = e[n] + 5 /\ b[e[n] + 1] = "0" /\ b[e[n] + 2] = "\r"
  /\ \A i \in 1 .. n : \E u \in Nat :
       /\ ChunkLaid(b, e[i - 1], Hex(Len(m.parts[i])), m.extension, u, m.parts[i])
       /\ e[i] = u + Len(m.parts[i]) + 2

LEMMA ExtensionIs ==
  ASSUME NEW m \in Responses
  PROVE  Extension(m.extension)
BY ResponseIs DEF Extension

LEMMA ChunksLaid ==
  ASSUME NEW m \in Responses, m.chunked, NEW n \in Nat, n = Len(m.parts),
         NEW b, b = BodyText(m)
  PROVE  \E e : Chunked(b, m, n, e)
<1>1. PICK ps, x : ps = m.parts /\ x = m.extension
  OBVIOUS
<1>2. ps \in Seq(Seq(Data)) /\ DOMAIN ps = 1 .. n /\ Extension(x)
  BY <1>1, ResponseIs, ExtensionIs
<1>3. PICK ss : ss = [i \in 1 .. n |-> Chunk(m, ps[i])]
  OBVIOUS
<1>4. ASSUME NEW i \in 1 .. n
      PROVE  /\ ss[i] \in Seq(Others)
             /\ \E u \in Nat : /\ ChunkLaid(ss[i], 0, Hex(Len(ps[i])), x, u, ps[i])
                               /\ Len(ss[i]) = u + Len(ps[i]) + 2
  <2>1. PICK p, l, t, d : p = ps[i] /\ l = Len(p) /\ t = Chunk(m, p) /\ d = Hex(l)
    OBVIOUS
  <2>4. p \in Seq(Data) /\ l \in Nat
    <3>1. p \in Seq(Data)
      BY <1>2, <2>1
    <3> QED BY <2>1, <3>1
  <2>5. x = m.extension /\ Extension(x)
    BY <1>1, <1>2
  <2>2. t \in Seq(Others) /\ \E u \in Nat : ChunkLaid(t, 0, d, x, u, p) /\ Len(t) = u + l + 2
    BY <2>1, <2>4, <2>5, ChunkIs
  <2>3. ss[i] = t
    BY <1>3, <2>1
  <2> QED BY <2>1, <2>2, <2>3
<1>5. PICK flat, last : flat = FlattenSeq(ss) /\ last = <<"0">>
  OBVIOUS
<1>6. b = ((flat \o last) \o CRLF) \o CRLF
  <2>1. ss = [i \in DOMAIN m.parts |-> Chunk(m, m.parts[i])]
    BY <1>1, <1>2, <1>3
  <2> QED BY <1>5, <2>1 DEF BodyText
<1>7. ss \in Seq(Seq(Others)) /\ Len(ss) = n
  <2>1. ss \in [1 .. n -> Seq(Others)]
    <3>1. \A i \in 1 .. n : ss[i] \in Seq(Others)
      BY <1>4
    <3> QED BY <1>3, <3>1
  <2> QED BY <2>1
<1>8. flat \in Seq(Others) /\ \E e : LiesAt(flat, ss, n, e)
  BY <1>5, <1>7, FlattenedLies
<1>9. PICK e : LiesAt(flat, ss, n, e)
  BY <1>8
<1>10. PICK f \in Nat : f = Len(flat)
  BY <1>8
<1>33. f = e[n]
  BY <1>9, <1>10 DEF LiesAt
<1>11. last \in Seq(Others) /\ Len(last) = 1 /\ last[1] = "0"
  <2>1. PICK z \in Others : z = "0"
    BY SymbolsAre
  <2>2. last = <<z>>
    BY <1>5, <2>1
  <2> QED BY <2>1, <2>2
<1>12. PICK g1, g2 : g1 = flat \o last /\ g2 = g1 \o CRLF
  OBVIOUS
<1>13. b = g2 \o CRLF
  BY <1>6, <1>12
<1>14. g1 \in Seq(Others) /\ g2 \in Seq(Others) /\ b \in Seq(Others)
  BY <1>8, <1>11, <1>12, <1>13, CRLFOthers, CatOthers
<1>15. PICK o \in Nat, t \in Nat : o = 1 /\ t = 2
  OBVIOUS
<1>34. o = Len(last) /\ t = Len(CRLF)
  BY <1>11, <1>15, CRLFOthers
<1>16. flat \in Seq(Symbols) /\ last \in Seq(Symbols) /\ g1 \in Seq(Symbols) /\ g2 \in Seq(Symbols)
       /\ CRLF \in Seq(Symbols)
  BY <1>8, <1>11, <1>14, CRLFOthers, OthersSymbols
<1>17. IsCat(g1, flat, last, f, o)
  BY <1>10, <1>12, <1>16, <1>34, CatIs
<1>18. PICK n1 \in Nat : n1 = f + o
  OBVIOUS
<1>35. n1 = Len(g1)
  BY <1>17, <1>18 DEF IsCat
<1>19. IsCat(g2, g1, CRLF, n1, t)
  BY <1>12, <1>16, <1>34, <1>35, CatIs
<1>20. PICK n2 \in Nat : n2 = n1 + t
  OBVIOUS
<1>36. n2 = Len(g2)
  BY <1>19, <1>20 DEF IsCat
<1>21. IsCat(b, g2, CRLF, n2, t)
  BY <1>13, <1>16, <1>34, <1>36, CatIs
<1>22. Len(b) = f + 5
  BY <1>15, <1>18, <1>20, <1>21 DEF IsCat
<1>23. \A j \in 1 .. n2 : b[j] = g2[j]
  BY <1>21 DEF IsCat
<1>24. \A j \in 1 .. n1 : b[j] = g1[j]
  <2>1. \A j \in 1 .. n1 : j \in 1 .. n2
    BY <1>20
  <2> QED BY <1>19, <1>23, <2>1 DEF IsCat
<1>25. \A j \in 1 .. f : b[j] = flat[j]
  <2>1. \A j \in 1 .. f : j \in 1 .. n1
    BY <1>18
  <2> QED BY <1>17, <1>24, <2>1 DEF IsCat
<1>26. b[f + 1] = "0"
  <2>1. f + 1 \in 1 .. n1 /\ 1 \in 1 .. o
    BY <1>15, <1>18
  <2> QED BY <1>11, <1>17, <1>24, <2>1 DEF IsCat
<1>27. b[f + 2] = "\r"
  <2>1. f + 2 = n1 + 1 /\ n1 + 1 \in 1 .. n2 /\ 1 \in 1 .. t
    BY <1>15, <1>18, <1>20
  <2>2. g2[n1 + 1] = CRLF[1]
    BY <1>19, <2>1 DEF IsCat
  <2> QED BY <1>23, <2>1, <2>2, CRLFOthers
<1>28. \A i \in 1 .. n : e[i] = e[i - 1] + Len(ss[i]) /\ e[i] \in Nat /\ e[i - 1] \in Nat
  <2>1. \A i \in 1 .. n : i \in 0 .. n /\ i - 1 \in 0 .. n
    OBVIOUS
  <2> QED BY <1>9, <2>1 DEF LiesAt
<1>29. ASSUME NEW i \in 1 .. n PROVE Len(ss[i]) \in Nat
  <2>1. ss[i] \in Seq(Others)
    BY <1>4
  <2> QED BY <2>1
<1>30. \A i \in 0 .. n : e[i] <= f
  BY <1>9, <1>10 DEF LiesAt
<1>31. ASSUME NEW i \in 1 .. n
       PROVE  \E u \in Nat : /\ ChunkLaid(b, e[i - 1], Hex(Len(ps[i])), x, u, ps[i])
                             /\ e[i] = u + Len(ps[i]) + 2
  <2>6. PICK p, l, d, s : p = ps[i] /\ l = Len(p) /\ d = Hex(l) /\ s = ss[i]
    OBVIOUS
  <2>7. l \in Nat
    <3>1. p \in Seq(Data)
      BY <1>2, <2>6
    <3> QED BY <2>6, <3>1
  <2>1. PICK v \in Nat : ChunkLaid(s, 0, d, x, v, p) /\ Len(s) = v + l + 2
    BY <1>4, <2>6
  <2>2. PICK q \in Nat : q = e[i - 1] /\ e[i] = q + (v + l + 2)
    <3>1. i \in 1 .. n /\ Len(ss[i]) = v + l + 2
      BY <2>1, <2>6
    <3> QED BY <1>28, <3>1
  <2>3. \A j \in 1 .. v + l : b[q + j] = s[j]
    <3>1. e[i] <= f
      BY <1>30
    <3>2. \A j \in 1 .. v + l : q + j \in 1 .. f /\ j \in 1 .. Len(s)
      BY <2>1, <2>2, <2>7, <3>1
    <3>3. \A j \in 1 .. Len(s) : flat[q + j] = s[j]
      BY <1>9, <2>2, <2>6 DEF LiesAt
    <3> QED BY <1>25, <3>2, <3>3
  <2>4. ChunkLaid(b, q, d, x, q + v, p)
    <3>1. Len(d) \in Nat /\ Len(x) \in Nat
      <4>1. Numeral(d, l)
        BY <2>6, <2>7, HexNumeral
      <4>2. d \in Seq(HexSet) /\ x \in Seq(Symbols)
        BY <1>2, <4>1 DEF Numeral, Extension
      <4> QED BY <4>2
    <3>2. Len(p) = l
      BY <2>6
    <3> QED BY <2>1, <2>3, <2>7, <3>1, <3>2, ChunkWithin
  <2>5. q + v \in Nat /\ e[i] = (q + v) + l + 2
    BY <2>2, <2>7
  <2> QED BY <2>2, <2>4, <2>5, <2>6
<1>32. Chunked(b, m, n, e)
  <2>1. e \in [0 .. n -> Nat] /\ e[0] = 0
    BY <1>9 DEF LiesAt
  <2> QED BY <1>1, <1>14, <1>22, <1>26, <1>27, <1>30, <1>31, <1>33, <2>1 DEF Chunked
<1> QED BY <1>32

--------------------------------------------------------------------------------
(* A body of chunks, cut anywhere. *)

\* What is made of a body that was to be s, of which all has come in or not.
Decoding(D, s, q, n) ==
  /\ D \in [crash : BOOLEAN, body : Seq(Symbols)]
  /\ Tells(D.body, s)
  /\ q = n => ~D.crash /\ D.body = s

LEMMA DecodingNothing ==
  ASSUME NEW s \in Seq(Data), NEW crash \in BOOLEAN, NEW q, NEW n, q = n => ~crash /\ s = << >>
  PROVE  Decoding(NoMore(crash), s, q, n)
<1>1. NoMore(crash) \in [crash : BOOLEAN, body : Seq(Symbols)]
  <2>1. << >> \in Seq(Symbols)
    OBVIOUS
  <2> QED BY <2>1 DEF NoMore
<1>2. NoMore(crash).crash = crash /\ NoMore(crash).body = << >>
  BY DEF NoMore
<1> QED BY <1>1, <1>2, TellsNothing DEF Decoding

IsWhole(v, part) == v = part

\* A chunk's data, of which all has come in, or some.
LEMMA DataWhole ==
  ASSUME NEW c, NEW part, part \in Seq(Data), NEW l \in Nat, l = Len(part), NEW e \in Nat,
         NEW z \in Nat, z = Len(c), e + l <= z, \A j \in 1 .. l : c[e + j] = part[j],
         NEW v, v = DataAt(c, e + 1, l)
  PROVE  IsWhole(v, part)
<1>1. v = DataAt(c, e + 1, l)
  OBVIOUS
<1>2. ASSUME NEW k \in 1 .. l PROVE v[k] = part[k]
  <2>1. e + 1 + k - 1 = e + k /\ e + 1 + k - 1 <= Len(c)
    OBVIOUS
  <2>2. v[k] = c[e + k]
    BY <1>1, <2>1 DEF DataAt
  <2> QED BY <2>2
<1>3. v = [k \in 1 .. l |-> part[k]]
  <2>1. v = [k \in 1 .. l |-> IF e + 1 + k - 1 <= Len(c) THEN c[e + 1 + k - 1] ELSE JUNK]
    BY <1>1 DEF DataAt
  <2> QED BY <1>2, <2>1
<1>4. part = [k \in 1 .. l |-> part[k]]
  OBVIOUS
<1> QED BY <1>1, <1>3, <1>4 DEF IsWhole

IsCut(v, c, z, e, l) ==
  /\ v \in Seq(Symbols) /\ Len(v) = l
  /\ \A k \in 1 .. l : e + k <= z => v[k] = c[e + k]

LEMMA DataCut ==
  ASSUME NEW c, c \in Seq(Symbols), NEW z \in Nat, z = Len(c), NEW e \in Nat, NEW l \in Nat,
         NEW v, v = DataAt(c, e + 1, l)
  PROVE  IsCut(v, c, z, e, l)
<1>1. ASSUME NEW k \in 1 .. l
      PROVE  v[k] \in Symbols /\ (e + k <= z => v[k] = c[e + k])
  <2>1. e + 1 + k - 1 = e + k
    OBVIOUS
  <2>2. v[k] = IF e + k <= z THEN c[e + k] ELSE JUNK
    BY <2>1 DEF DataAt
  <2>3. CASE e + k <= z
    <3>1. e + k \in 1 .. Len(c)
      BY <2>3
    <3> QED BY <2>2, <2>3, <3>1
  <2>4. CASE ~(e + k <= z)
    <3>1. JUNK \in Symbols
      BY DEF Symbols
    <3> QED BY <2>2, <2>4, <3>1
  <2> QED BY <2>3, <2>4
<1>2. v \in [1 .. l -> Symbols]
  <2>1. v = [k \in 1 .. l |-> IF e + 1 + k - 1 <= Len(c) THEN c[e + 1 + k - 1] ELSE JUNK]
    BY DEF DataAt
  <2> QED BY <1>1, <2>1
<1> QED BY <1>1, <1>2 DEF IsCut

\* c is what has come in, to behind q, of a body of z, in which there is this chunk.
ChunkIn(b, q, z, c, p, d, x, u, part, l) ==
  /\ b \in Seq(Symbols) /\ z = Len(b) /\ q <= z /\ HasCome(c, b, q)
  /\ part \in Seq(Data) /\ l # 0 /\ l = Len(part) /\ Extension(x) /\ Numeral(d, l)
  /\ ChunkLaid(b, p, d, x, u, part) /\ u + l + 2 <= z

\* E is what is made of it, and D of the others.
DecodedHere(f, c, p, u, l, E, D) == E = DecodeStep(f, c, p + 1) /\ D = f[u + l + 3]

\* One chunk more.
LEMMA DecodingMore ==
  ASSUME NEW b, NEW q \in Nat, NEW z \in Nat, NEW c, NEW p \in Nat, NEW d, NEW x,
         NEW u \in Nat, NEW part, NEW l \in Nat, ChunkIn(b, q, z, c, p, d, x, u, part, l),
         NEW f, NEW s, NEW D, NEW E, DecodedHere(f, c, p, u, l, E, D), Decoding(D, s, q, z),
         NEW t, t = part \o s
  PROVE  Decoding(E, t, q, z)
<1>10. /\ b \in Seq(Symbols) /\ z = Len(b) /\ q <= z /\ HasCome(c, b, q)
       /\ part \in Seq(Data) /\ l # 0 /\ l = Len(part) /\ Extension(x) /\ Numeral(d, l)
       /\ ChunkLaid(b, p, d, x, u, part) /\ u + l + 2 <= z
  BY DEF ChunkIn
<1>11. E = DecodeStep(f, c, p + 1) /\ D = f[u + l + 3]
  BY DEF DecodedHere
<1>1. /\ q \in Nat /\ Len(c) = q + 1 /\ c \in Seq(Symbols) /\ c[q + 1] = NUL
      /\ \A j \in 1 .. q : c[j] = b[j]
  BY <1>10 DEF HasCome
<1>2. /\ D \in [crash : BOOLEAN, body : Seq(Symbols)] /\ Tells(D.body, s)
      /\ (q = z => ~D.crash /\ D.body = s)
  BY DEF Decoding
<1>3. s \in Seq(Data)
  BY <1>2 DEF Tells
<1>4. t = part \o s /\ t \in Seq(Data)
  BY <1>3, <1>10
<1>8. PICK y \in Nat : y = Len(c)
  BY <1>1
<1>9. y = q + 1
  BY <1>1, <1>8
<1>5. CASE q < u
  <2>1. PICK crash \in BOOLEAN : E = NoMore(crash)
    BY <1>5, <1>10, <1>11, ChunkCut
  <2>2. ~(q = z)
    BY <1>1, <1>5, <1>10
  <2> QED BY <1>4, <2>1, <2>2, DecodingNothing
<1>6. CASE u <= q
  <2>1. PICK v : v = DataAt(c, u + 1, l)
    OBVIOUS
  <2>2. E = [D EXCEPT !.body = v \o @]
    <3>1. Longer(E, D, v)
      BY <1>6, <1>10, <1>11, <2>1, ChunkRead
    <3> QED BY <3>1 DEF Longer
  <2>3. v \in Seq(Symbols) /\ Len(v) = l /\ \A k \in 1 .. l : u + k <= q + 1 => v[k] = c[u + k]
    <3>1. c \in Seq(Symbols)
      BY <1>1
    <3>2. IsCut(v, c, y, u, l)
      BY <1>8, <2>1, <3>1, DataCut
    <3> QED BY <1>9, <3>2 DEF IsCut
  <2>8. PICK rest, body : rest = D.body /\ body = v \o rest
    OBVIOUS
  <2>9. rest \in Seq(Symbols)
    BY <1>2, <2>8
  <2>4. body = v \o D.body /\ body \in Seq(Symbols)
    BY <2>3, <2>8, <2>9
  <2>5. E \in [crash : BOOLEAN, body : Seq(Symbols)] /\ E.crash = D.crash /\ E.body = body
    BY <1>2, <2>2, <2>4
  <2>6. CASE u + l <= q
    <3>1. v = part
      <4>1. u + l <= y
        BY <1>1, <1>9, <2>6
      <4>2. \A j \in 1 .. l : c[u + j] = part[j]
        <5>1. \A j \in 1 .. l : u + j \in 1 .. q
          BY <1>1, <2>6
        <5> QED BY <1>1, <1>10, <5>1 DEF ChunkLaid
      <4>3. IsWhole(v, part)
        BY <1>8, <1>10, <2>1, <4>1, <4>2, DataWhole
      <4> QED BY <4>3 DEF IsWhole
    <3>2. Tells(body, part \o s)
      BY <1>2, <2>4, <3>1, <1>10, TellsMore
    <3>3. q = z => ~E.crash /\ E.body = part \o s
      BY <1>2, <2>4, <2>5, <3>1
    <3> QED BY <2>5, <3>2, <3>3 DEF Decoding
  <2>7. CASE ~(u + l <= q)
    <3>1. PICK r \in 0 .. l - 1 : r = q - u
      <4>1. q - u \in 0 .. l - 1
        BY <1>1, <1>6, <2>7
      <4> QED BY <4>1
    <3>2. \A j \in 1 .. r : v[j] = part[j]
      <4>1. ASSUME NEW j \in 1 .. r
            PROVE  u + j \in 1 .. q /\ j \in 1 .. l /\ u + j <= q + 1
        <5>1. q \in Nat
          BY <1>1
        <5> QED BY <3>1, <5>1
      <4> QED BY <1>1, <1>10, <2>3, <4>1 DEF ChunkLaid
    <3>3. v[r + 1] = NUL
      <4>1. r + 1 \in 1 .. l /\ u + (r + 1) = q + 1 /\ u + (r + 1) <= q + 1
        BY <1>1, <3>1
      <4>2. v[r + 1] = c[u + (r + 1)]
        BY <2>3, <4>1
      <4> QED BY <1>1, <4>1, <4>2
    <3>4. Tells(v \o D.body, part \o s)
      <4>1. Len(v) = Len(part) /\ r \in 0 .. Len(part) - 1 /\ D.body \in Seq(Symbols)
        BY <1>2, <1>10, <2>3, <3>1
      <4> QED BY <1>3, <2>3, <3>2, <3>3, <4>1, <1>10, TellsCut
    <3>5. ~(q = z)
      BY <1>1, <1>10, <2>7
    <3> QED BY <2>4, <2>5, <3>4, <3>5 DEF Decoding
  <2> QED BY <2>6, <2>7
<1> QED BY <1>1, <1>5, <1>6

\* A body in chunks, cut anywhere.
LEMMA BodyDecoded ==
  ASSUME NEW m \in Responses, m.chunked, NEW b, b = BodyText(m), NEW q \in Nat, NEW z \in Nat, z = Len(b), q <= z,
         NEW c, HasCome(c, b, q)
  PROVE  Decoding(chunked_decode(c), SentBody(m), q, z)
<1>13. PICK ps, n : ps = m.parts /\ n = Len(ps)
  OBVIOUS
<1>1. ps = m.parts /\ n = Len(ps) /\ ps \in Seq(Seq(Data)) /\ n \in Nat
  <2>1. ps \in Seq(Seq(Data))
    BY <1>13, ResponseIs
  <2> QED BY <1>13, <2>1
<1>2. PICK e : Chunked(b, m, n, e)
  BY <1>1, ChunksLaid
<1>3. /\ e \in [0 .. n -> Nat] /\ e[0] = 0 /\ b \in Seq(Symbols) /\ Len(b) = e[n] + 5
      /\ b[e[n] + 1] = "0" /\ b[e[n] + 2] = "\r"
      /\ \A i \in 1 .. n : \E u \in Nat :
           /\ ChunkLaid(b, e[i - 1], Hex(Len(ps[i])), m.extension, u, ps[i])
           /\ e[i] = u + Len(ps[i]) + 2
  BY <1>1, <1>2, OthersSymbols DEF Chunked
<1>4. PICK g \in [0 .. n -> Seq(Data)] :
        /\ g[n] = << >> /\ FlattenSeq(ps) = g[0]
        /\ \A i \in 1 .. n : g[i - 1] = ps[i] \o g[i]
  <2>1. \E g \in [0 .. Len(ps) -> Seq(Data)] :
          /\ g[Len(ps)] = << >> /\ FlattenSeq(ps) = g[0]
          /\ \A i \in 1 .. Len(ps) : g[i - 1] = ps[i] \o g[i]
    <3>1. ps \in Seq(Seq(Data))
      BY <1>1
    <3> QED BY <3>1, FlattenedTails, Zenon
  <2> QED BY <1>1, <2>1
<1>5. Ends(c)
  <2>1. q + 1 = Len(c) /\ q + 1 >= 1
    BY DEF HasCome
  <2> QED BY <2>1 DEF HasCome, Ends
<1>6. PICK f : chunked_decode(c) = f[1] /\ \A i \in Nat \ {0} : f[i] = DecodeStep(f, c, i)
  BY <1>5, DecodeUnfolds
<1> DEFINE S == {k \in 0 .. n : Decoding(f[e[n - k] + 1], g[n - k], q, z)}
<1>8. 0 \in S
  <2>1. n - 0 = n /\ n \in 0 .. n
    BY <1>1
  <2>2. PICK p \in Nat : p = e[n] /\ p + 1 \in Nat \ {0}
    <3>1. e[n] \in Nat
      BY <1>3, <2>1
    <3> QED BY <3>1
  <2>3. f[p + 1] = NoMore(FALSE)
    <3>1. DecodeStep(f, c, p + 1) = NoMore(FALSE)
      <4>1. PICK E : E = DecodeStep(f, c, p + 1)
        OBVIOUS
      <4>2. b[p + 1] = "0" /\ b[p + 2] = "\r"
        BY <1>3, <2>2
      <4>3. IsLast(E)
        BY <4>1, <4>2, LastChunk
      <4> QED BY <4>1, <4>3 DEF IsLast
    <3> QED BY <1>6, <2>2, <3>1
  <2>4. Decoding(NoMore(FALSE), g[n], q, z)
    <3>1. g[n] \in Seq(Data) /\ g[n] = << >> /\ FALSE \in BOOLEAN
      BY <1>4, <2>1
    <3> QED BY <3>1, DecodingNothing
  <2>5. Decoding(f[e[n - 0] + 1], g[n - 0], q, z)
    BY <2>1, <2>2, <2>3, <2>4
  <2>6. 0 \in 0 .. n
    BY <1>1
  <2> QED BY <2>5, <2>6
<1>9. ASSUME NEW k \in 0 .. n - 1, k \in S PROVE k + 1 \in S
  <2>1. Decoding(f[e[n - k] + 1], g[n - k], q, z)
    BY <1>9
  <2> HIDE DEF S
  <2>2. PICK i : i = n - k /\ i \in 1 .. n /\ i - 1 = n - (k + 1) /\ k + 1 \in 0 .. n
                 /\ i \in 0 .. n /\ i - 1 \in 0 .. n
    <3>1. n \in Nat
      BY <1>1
    <3>2. /\ n - k \in 1 .. n /\ (n - k) - 1 = n - (k + 1) /\ k + 1 \in 0 .. n
          /\ n - k \in 0 .. n /\ (n - k) - 1 \in 0 .. n
      BY <3>1
    <3> QED BY <3>2
  <2>3. PICK part, d, x : part = ps[i] /\ d = Hex(Len(part)) /\ x = m.extension
    OBVIOUS
  <2>15. PICK p \in Nat : p = e[i - 1]
    <3>1. e[i - 1] \in Nat
      BY <1>3, <2>2
    <3> QED BY <3>1
  <2>4. part \in Seq(Data) /\ Extension(x)
    <3>1. ps[i] \in Seq(Data)
      BY <1>1, <2>2
    <3> QED BY <2>3, <3>1, ExtensionIs
  <2>5. PICK l \in Nat : l = Len(part) /\ l # 0
    <3>1. part # << >>
      BY <1>1, <2>2, <2>3, ResponseIs
    <3> QED BY <2>4, <3>1, EmptySeq
  <2>6. PICK u \in Nat : ChunkLaid(b, p, d, x, u, part) /\ e[i] = u + l + 2
    BY <1>3, <2>2, <2>3, <2>5, <2>15
  <2>7. Numeral(d, l)
    BY <2>3, <2>5, HexNumeral
  <2>8. u + l + 2 <= z
    <3>1. e[i] <= e[n]
      BY <1>2, <2>2 DEF Chunked
    <3>2. e[n] \in Nat
      <4>1. n \in 0 .. n
        BY <1>1
      <4> QED BY <1>3, <4>1
    <3> QED BY <1>3, <2>6, <3>1, <3>2
  <2>9. PICK D, E, s, t : D = f[u + l + 3] /\ E = DecodeStep(f, c, p + 1) /\ s = g[i] /\ t = part \o s
    OBVIOUS
  <2>10. Decoding(D, s, q, z)
    <3>1. e[i] + 1 = u + l + 3
      BY <2>5, <2>6
    <3> QED BY <2>1, <2>2, <2>9, <3>1
  <2>11. Decoding(E, t, q, z)
    <3>1. ChunkIn(b, q, z, c, p, d, x, u, part, l)
      BY <1>3, <2>4, <2>5, <2>6, <2>7, <2>8 DEF ChunkIn
    <3>2. DecodedHere(f, c, p, u, l, E, D)
      BY <2>9 DEF DecodedHere
    <3>3. /\ q \in Nat /\ z \in Nat /\ p \in Nat /\ u \in Nat /\ l \in Nat
          /\ ChunkIn(b, q, z, c, p, d, x, u, part, l) /\ DecodedHere(f, c, p, u, l, E, D)
          /\ Decoding(D, s, q, z) /\ t = part \o s
      BY <2>9, <2>10, <3>1, <3>2
    <3> HIDE DEF S
    <3> QED BY <3>3, DecodingMore, Zenon
  <2>12. E = f[p + 1]
    <3>1. p + 1 \in Nat \ {0}
      OBVIOUS
    <3> QED BY <1>6, <2>9, <3>1
  <2>13. g[i - 1] = t
    BY <1>4, <2>2, <2>3, <2>9
  <2>14. Decoding(f[e[n - (k + 1)] + 1], g[n - (k + 1)], q, z)
    BY <2>2, <2>3, <2>11, <2>12, <2>13, <2>15
  <2> QED BY <2>2, <2>14 DEF S
<1>10. n \in S
  <2> HIDE DEF S
  <2>1. 0 .. n \subseteq S
    BY <1>1, <1>8, <1>9, UpTo
  <2>2. n \in 0 .. n
    BY <1>1
  <2> QED BY <2>1, <2>2
<1>11. Decoding(f[1], g[0], q, z)
  <2>1. n - n = 0
    BY <1>1
  <2> QED BY <1>3, <1>10, <2>1
<1>12. SentBody(m) = g[0]
  BY <1>1, <1>4 DEF SentBody
<1> QED BY <1>6, <1>11, <1>12

--------------------------------------------------------------------------------
(* What is told of a body, and what a response's text is. *)

\* What is told of a body that was to be s: its beginning, and all of it if it came in.
BodyTold(body, s, q, z) ==
  /\ IsPrefix(UpToNul(body), s)
  /\ q = z => UpToNul(body) = s /\ JUNK \notin Range(body)

LEMMA DataTold ==
  ASSUME NEW s, s \in Seq(Data)
  PROVE  UpToNul(s) = s /\ JUNK \notin Range(s)
<1>1. s \in Seq(Symbols) /\ \A j \in 1 .. Len(s) : s[j] # NUL /\ s[j] # JUNK
  BY DataIs
<1>2. UpToNul(s) = s
  BY <1>1, UpToNulNone
<1>3. DOMAIN s = 1 .. Len(s)
  BY <1>1
<1> QED BY <1>1, <1>2, <1>3 DEF Range

LEMMA DecodedTold ==
  ASSUME NEW D, NEW s, NEW q, NEW z, Decoding(D, s, q, z)
  PROVE  BodyTold(D.body, s, q, z)
<1>1. Tells(D.body, s) /\ (q = z => D.body = s)
  BY DEF Decoding
<1>2. s \in Seq(Data)
  BY <1>1 DEF Tells
<1>3. IsPrefix(UpToNul(D.body), s)
  BY <1>1, TellsPrefix
<1> QED BY <1>1, <1>2, <1>3, DataTold DEF BodyTold

\* A body that is not in chunks is told as it came in.
LEMMA PlainTold ==
  ASSUME NEW s, s \in Seq(Data), NEW z \in Nat, z = Len(s), NEW q \in Nat, q <= z,
         NEW c, HasCome(c, s, q)
  PROVE  BodyTold(c, s, q, z)
<1>1. c \in Seq(Symbols) /\ Len(c) = q + 1 /\ c[q + 1] = NUL /\ \A j \in 1 .. q : c[j] = s[j]
  BY DEF HasCome
<1>2. s \in Seq(Symbols) /\ \A j \in 1 .. z : s[j] # NUL /\ s[j] # JUNK
  BY DataIs
<1>3. Tells(c, s)
  <2>1. q \in 0 .. Len(s) /\ Len(c) >= q
    BY <1>1
  <2> QED BY <1>1, <2>1 DEF Tells
<1>4. IsPrefix(UpToNul(c), s)
  BY <1>3, TellsPrefix
<1>5. ASSUME q = z PROVE UpToNul(c) = s
  <2>1. q + 1 \in 1 .. Len(c) /\ (q + 1) - 1 = q
    BY <1>1
  <2>2. \A k \in 1 .. q : c[k] # NUL
    BY <1>1, <1>2, <1>5
  <2>3. UpToNul(c) = SubSeq(c, 1, (q + 1) - 1)
    BY <1>1, <2>1, <2>2, UpToNulIs
  <2>4. PICK v : v = SubSeq(c, 1, q)
    OBVIOUS
  <2>5. v \in Seq(Symbols) /\ Len(v) = q /\ \A j \in 1 .. q : v[j] = c[j]
    <3>1. q <= Len(c)
      BY <1>1
    <3> QED BY <1>1, <2>4, <3>1
  <2>6. v = s
    <3>1. Len(v) = Len(s) /\ \A j \in 1 .. Len(v) : v[j] = s[j]
      BY <1>1, <1>5, <2>5
    <3> QED BY <1>2, <2>5, <3>1, SeqEqual
  <2> QED BY <2>1, <2>3, <2>4, <2>6
<1>6. ASSUME q = z PROVE JUNK \notin Range(c)
  <2>1. DOMAIN c = 1 .. q + 1
    BY <1>1
  <2>2. ASSUME NEW j \in 1 .. q + 1 PROVE c[j] # JUNK
    <3>1. CASE j = q + 1
      BY <1>1, <3>1 DEF NUL, JUNK
    <3>2. CASE j # q + 1
      <4>1. j \in 1 .. q
        BY <3>2
      <4> QED BY <1>1, <1>2, <1>6, <4>1
    <3> QED BY <3>1, <3>2
  <2> QED BY <2>1, <2>2 DEF Range
<1> QED BY <1>4, <1>5, <1>6 DEF BodyTold

\* What a body is, and its text.
LEMMA BodyIs ==
  ASSUME NEW m \in Responses
  PROVE  /\ SentBody(m) \in Seq(Data) /\ BodyText(m) \in Seq(Others)
         /\ ~m.chunked => BodyText(m) = SentBody(m)
<1>1. PICK ps, n : ps = m.parts /\ n = Len(ps)
  OBVIOUS
<1>2. ps \in Seq(Seq(Data)) /\ n \in Nat
  <2>1. ps \in Seq(Seq(Data))
    BY <1>1, ResponseIs
  <2> QED BY <1>1, <2>1
<1>3. SentBody(m) \in Seq(Data)
  <2>1. FlattenSeq(ps) \in Seq(Data)
    BY <1>1, <1>2, FlattenedLies
  <2> QED BY <1>1, <2>1 DEF SentBody
<1>4. CASE m.chunked
  <2>1. PICK e : Chunked(BodyText(m), m, n, e)
    BY <1>1, <1>2, <1>4, ChunksLaid
  <2> QED BY <1>3, <1>4, <2>1 DEF Chunked
<1>5. CASE ~m.chunked
  <2>1. BodyText(m) = SentBody(m)
    BY <1>5 DEF BodyText
  <2>2. PICK b : b = SentBody(m)
    OBVIOUS
  <2>3. b \in Seq(Others)
    <3>1. b \in Seq(Data) /\ \A i \in 1 .. Len(b) : b[i] \in Data
      BY <1>3, <2>2
    <3>2. \A i \in 1 .. Len(b) : b[i] \in Others
      BY <3>1, SymbolsAre
    <3> QED BY <3>1, <3>2, Retyped
  <2> QED BY <1>3, <2>1, <2>2, <2>3
<1> QED BY <1>4, <1>5

\* What is told of a response, of whose body of z characters q have come in, or of whose
\* text z characters.
ResponseTold(t, m, q, z) ==
  /\ t.status = "200"
  /\ t.headers = [i \in DOMAIN SentHeaders(m) |-> PairOf(SentHeaders(m)[i])]
  /\ BodyTold(t.body, SentBody(m), q, z)

\* The beginning of a text.
IsText(text, protocol) ==
  /\ text \in Seq(Symbols) /\ Len(text) >= 8 /\ text[1] = protocol
  /\ \A j \in 2 .. Len(text) : text[j] \in Others

LEMMA TextIs ==
  ASSUME NEW m \in Responses, NEW text, text = ResponseText(m)
  PROVE  IsText(text, m.version)
<1>1. PICK hs : hs = SentHeaders(m)
  OBVIOUS
<1>2. PICK h \in Nat : h = Len(hs)
  <2>1. Len(hs) \in Nat
    BY <1>1, SentHeadersAre
  <2> QED BY <2>1
<1>3. PICK body \in Seq(Others) : body = BodyText(m)
  BY BodyIs
<1>4. /\ text \in Seq(Symbols)
      /\ HeadLaid(text, m.version, hs, h) /\ BodyLaid(text, body, h)
      /\ \A j \in 2 .. Len(text) : text[j] \in Others
  BY <1>1, <1>2, <1>3, TextLaid
<1>5. Len(text) >= 8
  <2>1. Len(body) \in Nat
    OBVIOUS
  <2> QED BY <1>4, <2>1 DEF BodyLaid
<1> QED BY <1>4, <1>5 DEF IsText, HeadLaid

--------------------------------------------------------------------------------
(* What is told of a response. *)

\* What is told of it comes from what has come in of its text.
LEMMA TellsResponse ==
  ASSUME NEW m \in Responses, m.version \in KnownVersions, NEW text, text = ResponseText(m),
         NEW z \in Nat, z = Len(text), NEW k \in Nat, 1 <= k, k <= z, HasCome(buffer, text, k)
  PROVE  (ReadResponse = Crash /\ k < z) \/ ResponseTold(ReadResponse, m, k, z)
<1>1. PICK hs : hs = SentHeaders(m)
  OBVIOUS
<1>2. PICK h \in Nat : h = Len(hs)
  <2>1. Len(hs) \in Nat
    BY <1>1, SentHeadersAre
  <2> QED BY <2>1
<1>3. PICK body \in Seq(Others) : body = BodyText(m)
  BY BodyIs
<1>4. PICK s : s = SentBody(m) /\ s \in Seq(Data)
  BY BodyIs
<1>5. HeadLaid(text, m.version, hs, h) /\ BodyLaid(text, body, h)
  BY <1>1, <1>2, <1>3, TextLaid
<1>6. PICK protocol : protocol = m.version /\ protocol \in KnownVersions
  OBVIOUS
<1>7. Headed(text, protocol, hs, h)
  BY <1>1, <1>2, <1>5, <1>6, SentHeadersAre DEF Headed
<1>8. body \in Seq(Symbols)
  BY OthersSymbols
<1>9. PICK y \in Nat : y = Len(body) /\ z = 6 * h + 8 + y
  <2>1. Len(body) \in Nat
    OBVIOUS
  <2> QED BY <1>5, <2>1 DEF BodyLaid
<1>10. PICK b : b = buffer /\ HasCome(b, text, k)
  OBVIOUS
<1>11. b[1] = protocol
  <2>1. 1 \in 1 .. k
    OBVIOUS
  <2>2. b[1] = text[1]
    BY <1>10, <2>1 DEF HasCome
  <2> QED BY <1>5, <1>6, <2>2 DEF HeadLaid
<1>12. PICK blank : blank = strstr(b, 1, CRLF \o CRLF)
  OBVIOUS
<1>13. CASE k < 6 * h + 8
  <2>1. blank = 0
    BY <1>7, <1>10, <1>12, <1>13, BlankMissing
  <2>2. ReadResponse = Crash
    BY <1>6, <1>10, <1>11, <1>12, <2>1, Zenon DEF ReadResponse
  <2>3. k < z
    BY <1>9, <1>13
  <2> QED BY <2>2, <2>3
<1>14. CASE k >= 6 * h + 8
  <2>1. blank = 6 * h + 5
    BY <1>7, <1>10, <1>12, <1>14, BlankFound
  <2>2. blank # 0 /\ blank + 1 = 6 * h + 6 /\ blank + 4 = 6 * h + 9
    BY <2>1
  <2>3. PICK head, rest : head = SubSeq(b, 1, blank + 1) /\ rest = SubSeq(b, blank + 4, Len(b))
    OBVIOUS
  <2>4. head = SubSeq(b, 1, 6 * h + 6) /\ rest = SubSeq(b, 6 * h + 9, Len(b))
    BY <2>2, <2>3
  <2>5. k \in 6 * h + 8 .. Len(text)
    BY <1>14
  <2>6. IsHead(head, text, h) /\ HasCome(rest, body, k - (6 * h + 8))
    <3>1. Halves(head, rest, text, body, h, k - (6 * h + 8))
      BY <1>5, <1>7, <1>8, <1>10, <2>4, <2>5, Divided, Zenon
    <3> QED BY <3>1 DEF Halves
  <2>7. PICK q \in Nat : q = k - (6 * h + 8) /\ q <= y /\ (q = y <=> k = z)
    <3>1. k - (6 * h + 8) \in Nat
      BY <1>14
    <3> QED BY <1>9, <3>1
  <2>8. HasCome(rest, body, q)
    BY <2>6, <2>7
  <2>9. PICK headers : headers = header_lines(head)
    OBVIOUS
  <2>10. headers = [i \in DOMAIN SentHeaders(m) |-> PairOf(SentHeaders(m)[i])]
    <3>1. headers = [i \in 1 .. h |-> PairOf(hs[i])]
      <4>1. Read(headers, hs, h)
        BY <1>7, <2>6, <2>9, HeadersRead
      <4> QED BY <4>1 DEF Read
    <3>2. DOMAIN hs = 1 .. h
      <4>1. hs \in Seq(Words \X Words)
        BY <1>1, SentHeadersAre
      <4> QED BY <1>2, <4>1
    <3> QED BY <1>1, <3>1, <3>2
  <2>11. b[2] = "200"
    <3>1. 2 \in 1 .. k
      BY <1>14
    <3> QED BY <1>5, <1>10, <3>1 DEF HasCome, HeadLaid
  <2>12. PICK te : te = strstr(head, 1, <<"Transfer-Encoding", ":", " ", "chunked">>)
    OBVIOUS
  <2>13. te # 0 <=> m.chunked
    <3>1. te # 0 <=> \E i \in 1 .. h : hs[i] = ChunkedHeader
      <4>1. SeesChunked(head, hs, h)
        BY <1>7, <2>6, ChunkedSeen
      <4> QED BY <2>12, <4>1 DEF SeesChunked
    <3> QED BY <1>1, <1>2, <3>1, SentHeadersAre
  <2>14. PICK decoded : decoded = chunked_decode(rest)
    OBVIOUS
  <2>15. ReadResponse = IF te = 0 THEN Told("200", headers, rest)
                        ELSE IF decoded.crash THEN Crash
                        ELSE Told("200", headers, decoded.body)
    BY <1>6, <1>10, <1>11, <1>12, <2>2, <2>3, <2>9, <2>11, <2>12, <2>14, Zenon DEF ReadResponse
  <2>16. ASSUME NEW d, BodyTold(d, s, q, y), NEW t, t = Told("200", headers, d)
         PROVE  ResponseTold(t, m, k, z)
    <3>1. t.status = "200" /\ t.headers = headers /\ t.body = d
      BY <2>16 DEF Told
    <3>2. BodyTold(d, s, k, z)
      BY <2>7, <2>16 DEF BodyTold
    <3> QED BY <1>4, <2>10, <3>1, <3>2 DEF ResponseTold
  <2>17. CASE m.chunked
    <3>1. Decoding(decoded, s, q, y)
      BY <1>3, <1>4, <1>9, <2>7, <2>8, <2>14, <2>17, BodyDecoded
    <3>2. decoded.crash \in BOOLEAN /\ (decoded.crash => q # y)
      BY <3>1 DEF Decoding
    <3>3. CASE decoded.crash
      <4>1. ReadResponse = Crash
        BY <2>13, <2>15, <2>17, <3>3
      <4>2. k < z
        BY <2>7, <3>2, <3>3
      <4> QED BY <4>1, <4>2
    <3>4. CASE ~decoded.crash
      <4>1. ReadResponse = Told("200", headers, decoded.body)
        BY <2>13, <2>15, <2>17, <3>4
      <4>2. BodyTold(decoded.body, s, q, y)
        BY <3>1, DecodedTold
      <4> QED BY <2>16, <4>1, <4>2
    <3> QED BY <3>3, <3>4
  <2>18. CASE ~m.chunked
    <3>1. ReadResponse = Told("200", headers, rest)
      BY <2>13, <2>15, <2>18
    <3>2. body = s
      BY <1>3, <1>4, <2>18, BodyIs
    <3>3. BodyTold(rest, s, q, y)
      BY <1>4, <1>9, <2>7, <2>8, <3>2, PlainTold
    <3> QED BY <2>16, <3>1, <3>3
  <2> QED BY <2>17, <2>18
<1> QED BY <1>13, <1>14

--------------------------------------------------------------------------------
(* What is in the buffer while a response comes in. *)

\* What is still to come of a text, of which k characters have.
StillToCome(s, text, k) == s \in Seq(Symbols) /\ IsSlice(s, text, k, Len(text) - k)

\* What a buffer that a piece did not get into is like: no status line begins it.
NoStatus(b) == b \in Seq(Symbols) /\ Len(b) >= 1 /\ b[1] \notin KnownVersions

\* How far a response has come in.
Come(text, k) ==
  /\ StillToCome(coming, text, k)
  /\ ~incomplete => HasCome(buffer, text, k)
  /\ incomplete => k >= 1 /\ NoStatus(buffer)

ResponseComes ==
  response # NoResponse =>
    /\ response \in Responses
    /\ \E k \in 0 .. Len(ResponseText(response)) : Come(ResponseText(response), k)

ToldAtEnd == told # NoResponse => response # NoResponse /\ told = ReadResponse

ResponseInv == incomplete \in BOOLEAN /\ ResponseComes /\ ToldAtEnd

LEMMA NulIs == NUL \in Others /\ NUL \in Symbols /\ NUL \notin KnownVersions
  BY SymbolsAre DEF Others, Symbols, NUL, KnownVersions

\* A piece of a text, and what is left.
LEMMA PieceIs ==
  ASSUME NEW text, text \in Seq(Symbols), NEW k \in Nat, k <= Len(text), NEW s,
         StillToCome(s, text, k), NEW n \in Nat, n <= Len(s), NEW piece, piece = SubSeq(s, 1, n),
         NEW left, left = SubSeq(s, n + 1, Len(s))
  PROVE  /\ k + n \in 0 .. Len(text) /\ StillToCome(left, text, k + n)
         /\ IsSlice(piece, text, k, n)
<1>1. s \in Seq(Symbols) /\ Len(s) = Len(text) - k /\ \A j \in 1 .. Len(s) : s[j] = text[k + j]
  BY DEF StillToCome, IsSlice
<1>2. PICK z \in Nat, l \in Nat : z = Len(text) /\ l = z - k
  BY <1>1
<1>3. Len(s) = l /\ n <= l /\ k + n <= z
  BY <1>1, <1>2
<1>4. IsSlice(piece, s, 0, n)
  <2>1. 0 + 1 = 1 /\ 0 + n = n /\ 0 \in Nat
    OBVIOUS
  <2>2. piece = SubSeq(s, 0 + 1, 0 + n) /\ 0 + n <= Len(s)
    BY <2>1
  <2> QED BY <1>1, <2>1, <2>2, SliceOf
<1>5. IsSlice(piece, text, k, n)
  <2>1. ASSUME NEW j \in 1 .. n PROVE piece[j] = text[k + j]
    <3>1. 0 + j = j /\ j \in 1 .. Len(s)
      BY <1>3
    <3> QED BY <1>1, <1>4, <3>1 DEF IsSlice
  <2> QED BY <1>4, <2>1 DEF IsSlice
<1>6. PICK r \in Nat : r = l - n
  BY <1>3
<1>7. IsSlice(left, s, n, r)
  <2>1. n + r = Len(s)
    BY <1>3, <1>6
  <2>2. left = SubSeq(s, n + 1, n + r) /\ n + r <= Len(s)
    BY <2>1
  <2> QED BY <1>1, <2>2, SliceOf
<1>8. StillToCome(left, text, k + n)
  <2>1. Len(text) - (k + n) = r
    BY <1>2, <1>6
  <2>2. ASSUME NEW j \in 1 .. r PROVE left[j] = text[k + n + j]
    <3>1. n + j \in 1 .. Len(s) /\ k + (n + j) = k + n + j
      BY <1>3, <1>6
    <3> QED BY <1>1, <1>7, <3>1 DEF IsSlice
  <2> QED BY <1>7, <2>1, <2>2 DEF IsSlice, StillToCome
<1> QED BY <1>2, <1>3, <1>5, <1>8

\* A piece that is stored behind what has come in.
LEMMA PieceJoined ==
  ASSUME NEW text, NEW k \in Nat, NEW b, HasCome(b, text, k), NEW n \in Nat, NEW piece,
         IsSlice(piece, text, k, n), NEW c, c = Front(b) \o piece \o <<NUL>>
  PROVE  HasCome(c, text, k + n)
<1>1. b \in Seq(Symbols) /\ Len(b) = k + 1 /\ \A j \in 1 .. k : b[j] = text[j]
  BY DEF HasCome
<1>2. PICK front : front = Front(b)
  OBVIOUS
<1>3. front \in Seq(Symbols) /\ Len(front) = k /\ \A j \in 1 .. k : front[j] = b[j]
  <2>1. Len(b) - 1 = k /\ k <= Len(b)
    BY <1>1
  <2>2. front = SubSeq(b, 1, k)
    BY <1>2, <2>1 DEF Front
  <2> QED BY <1>1, <2>1, <2>2
<1>4. piece \in Seq(Symbols) /\ Len(piece) = n /\ \A j \in 1 .. n : piece[j] = text[k + j]
  BY DEF IsSlice
<1>5. PICK fp, last, o : fp = front \o piece /\ last = <<NUL>> /\ o = 1
  OBVIOUS
<1>6. c = fp \o last
  BY <1>2, <1>5
<1>7. last \in Seq(Symbols) /\ Len(last) = o /\ last[1] = NUL /\ o \in Nat
  BY <1>5, NulIs
<1>8. IsCat(fp, front, piece, k, n)
  BY <1>3, <1>4, <1>5, CatIs
<1>9. PICK z \in Nat : z = k + n
  OBVIOUS
<1>10. fp \in Seq(Symbols) /\ Len(fp) = z
  BY <1>8, <1>9 DEF IsCat
<1>11. IsCat(c, fp, last, z, o)
  BY <1>6, <1>7, <1>10, CatIs
<1>12. c \in Seq(Symbols) /\ Len(c) = z + 1 /\ c[z + 1] = NUL
  <2>1. 1 \in 1 .. o
    BY <1>5
  <2> QED BY <1>5, <1>7, <1>11, <2>1 DEF IsCat
<1>13. ASSUME NEW j \in 1 .. z PROVE c[j] = text[j]
  <2>1. c[j] = fp[j]
    BY <1>11 DEF IsCat
  <2>2. CASE j \in 1 .. k
    BY <1>1, <1>3, <1>8, <2>1, <2>2 DEF IsCat
  <2>3. CASE j \notin 1 .. k
    <3>1. PICK i \in 1 .. n : j = k + i
      <4>1. j - k \in 1 .. n /\ j = k + (j - k)
        BY <1>9, <2>3
      <4> QED BY <4>1
    <3> QED BY <1>4, <1>8, <2>1, <3>1 DEF IsCat
  <2> QED BY <2>2, <2>3
<1> QED BY <1>9, <1>12, <1>13 DEF HasCome

\* One that is stored behind nothing, and one that is not stored.
LEMMA NoStatusStored ==
  ASSUME NEW b, NoStatus(b), NEW piece \in Seq(Others), NEW c, c = Front(b) \o piece \o <<NUL>>
  PROVE  NoStatus(c)
<1>1. b \in Seq(Symbols) /\ Len(b) \in Nat /\ Len(b) >= 1 /\ b[1] \notin KnownVersions
  BY DEF NoStatus
<1>2. PICK k \in Nat : k = Len(b) - 1
  <2>1. Len(b) - 1 \in Nat
    BY <1>1
  <2> QED BY <2>1
<1>3. PICK front : front = Front(b)
  OBVIOUS
<1>4. front \in Seq(Symbols) /\ Len(front) = k /\ \A j \in 1 .. k : front[j] = b[j]
  <2>1. k <= Len(b)
    BY <1>1, <1>2
  <2>2. front = SubSeq(b, 1, k)
    BY <1>2, <1>3 DEF Front
  <2> QED BY <1>1, <2>1, <2>2
<1>5. PICK nul, l : nul = <<NUL>> /\ l = piece \o nul
  OBVIOUS
<1>6. l \in Seq(Others) /\ Len(l) >= 1
  BY <1>5, NulIs
<1>7. c = front \o l
  <2>1. piece \in Seq(Symbols) /\ nul \in Seq(Symbols) /\ front \in Seq(Symbols)
    BY <1>4, <1>5, NulIs, OthersSymbols
  <2>2. Cat(Cat(front, piece), nul) = Cat(front, Cat(piece, nul))
    <3>1. \A x, y, z \in Seq(Symbols) : Cat(Cat(x, y), z) = Cat(x, Cat(y, z))
      BY CatAssociative
    <3> QED BY <2>1, <3>1, Zenon
  <2> QED BY <1>3, <1>5, <2>2 DEF Cat
<1>10. PICK n \in Nat : n = Len(l) /\ n >= 1
  BY <1>6
<1>11. IsCat(c, front, l, k, n)
  <2>1. l \in Seq(Symbols)
    BY <1>6, OthersSymbols
  <2> QED BY <1>4, <1>7, <1>10, <2>1, CatIs
<1>8. c \in Seq(Symbols) /\ Len(c) >= 1
  BY <1>10, <1>11 DEF IsCat
<1>9. c[1] \notin KnownVersions
  <2>1. CASE k = 0
    <3>1. c[1] = l[1]
      <4>1. 1 \in 1 .. n /\ k + 1 = 1
        BY <1>10, <2>1
      <4> QED BY <1>11, <4>1 DEF IsCat
    <3>2. l[1] \in Others
      BY <1>6
    <3> QED BY <3>1, <3>2 DEF Others
  <2>2. CASE k # 0
    <3>1. 1 \in 1 .. k
      BY <2>2
    <3>2. c[1] = front[1]
      BY <1>11, <3>1 DEF IsCat
    <3> QED BY <1>1, <1>4, <3>1, <3>2
  <2> QED BY <2>1, <2>2
<1> QED BY <1>8, <1>9 DEF NoStatus

LEMMA NoStatusDropped ==
  ASSUME NEW b, b \in Seq(Symbols), Len(b) >= 1, NEW c, c = [b EXCEPT ![1] = NUL]
  PROVE  NoStatus(c)
<1>1. 1 \in DOMAIN b /\ DOMAIN b = 1 .. Len(b) /\ Len(b) \in Nat
  OBVIOUS
<1>2. c \in Seq(Symbols) /\ Len(c) = Len(b) /\ c[1] = NUL
  BY <1>1, NulIs
<1> QED BY <1>2, NulIs DEF NoStatus

--------------------------------------------------------------------------------
(* The theorem. *)

\* It holds when nothing has been asked for, and for as long as nothing happens.
LEMMA ResponseInvInit ==
  ASSUME ResponseInit
  PROVE  ResponseInv
BY DEF ResponseInit, ResponseInv, ResponseComes, ToldAtEnd

\* A new response: nothing of it has come in.
LEMMA ResponseInvNew ==
  ASSUME ResponseInv, NEW m \in Responses, NewResponse(m)
  PROVE  ResponseInv'
<1>1. /\ response' = m /\ coming' = ResponseText(m)
      /\ buffer' = <<NUL>> /\ incomplete' = FALSE /\ told' = NoResponse
  BY DEF NewResponse
<1>2. PICK text : text = ResponseText(m)
  OBVIOUS
<1>3. text \in Seq(Symbols) /\ Len(text) \in Nat
  <2>1. text \in Seq(Symbols)
    BY <1>2, TextIs DEF IsText
  <2> QED BY <2>1
<1>4. StillToCome(text, text, 0)
  <2>1. Len(text) - 0 = Len(text) /\ \A j \in 1 .. Len(text) : 0 + j = j
    BY <1>3
  <2> QED BY <1>3, <2>1 DEF StillToCome, IsSlice
<1>5. HasCome(<<NUL>>, text, 0)
  <2>1. PICK b : b = <<NUL>>
    OBVIOUS
  <2>2. b \in Seq(Symbols) /\ Len(b) = 0 + 1 /\ b[0 + 1] = NUL
    BY <2>1, NulIs
  <2> QED BY <2>1, <2>2 DEF HasCome
<1>6. Come(text, 0)'
  BY <1>1, <1>2, <1>4, <1>5 DEF Come
<1>7. 0 \in 0 .. Len(text)
  BY <1>3
<1> QED BY <1>1, <1>2, <1>6, <1>7 DEF ResponseInv, ResponseComes, ToldAtEnd

\* A piece comes in, and is stored or not.
LEMMA ResponseInvPiece ==
  ASSUME ResponseInv, NEW n \in PieceSizes, ReceivePiece(n)
  PROVE  ResponseInv'
<1>1. n \in Nat \ {0}
  BY ResponseAssumption
<1>2. PICK piece : piece = SubSeq(coming, 1, n)
  OBVIOUS
<1>3. /\ n <= Len(coming) /\ told = NoResponse
      /\ coming' = SubSeq(coming, n + 1, Len(coming))
      /\ \/ buffer' = Stored(piece) /\ incomplete' = incomplete
         \/ buffer' = [buffer EXCEPT ![1] = NUL] /\ incomplete' = TRUE
      /\ response' = response /\ told' = told
  BY <1>2 DEF ReceivePiece
<1>4. ToldAtEnd' /\ incomplete' \in BOOLEAN
  BY <1>3 DEF ToldAtEnd, ResponseInv
<1>5. ASSUME response # NoResponse PROVE ResponseComes'
  <2>1. PICK text, l : text = ResponseText(response) /\ l = Len(text)
    OBVIOUS
  <2>2. response \in Responses /\ \E k \in 0 .. l : Come(text, k)
    BY <1>5, <2>1 DEF ResponseInv, ResponseComes
  <2>3. IsText(text, response.version)
    BY <2>1, <2>2, TextIs
  <2>4. text \in Seq(Symbols) /\ l \in Nat /\ \A j \in 2 .. l : text[j] \in Others
    BY <2>1, <2>3 DEF IsText
  <2>5. PICK k \in Nat : k <= l /\ Come(text, k)
    <3>1. PICK i \in 0 .. l : Come(text, i)
      BY <2>2
    <3>2. i \in Nat /\ i <= l
      BY <2>4
    <3> QED BY <3>1, <3>2
  <2>6. PICK y \in Nat : y = n /\ y # 0
    BY <1>1
  <2>7. PICK left : left = SubSeq(coming, y + 1, Len(coming)) /\ left = coming'
    BY <1>3, <2>6
  <2>8. PICK i \in Nat : i = k + y /\ i >= 1
    BY <2>6
  <2>9. i \in 0 .. Len(text) /\ StillToCome(left, text, i) /\ IsSlice(piece, text, k, y)
    <3>1. StillToCome(coming, text, k)
      BY <2>5 DEF Come
    <3>2. k <= Len(text) /\ y <= Len(coming) /\ piece = SubSeq(coming, 1, y)
      BY <1>2, <1>3, <2>1, <2>5, <2>6
    <3> QED BY <2>4, <2>7, <2>8, <3>1, <3>2, PieceIs
  <2>10. CASE buffer' = Stored(piece) /\ incomplete' = incomplete
    <3>1. CASE ~incomplete
      <4>1. HasCome(buffer, text, k)
        BY <2>5, <3>1 DEF Come
      <4>2. PICK b, c : b = buffer /\ c = Front(b) \o piece \o <<NUL>>
        OBVIOUS
      <4>3. HasCome(c, text, k + y)
        BY <2>9, <4>1, <4>2, PieceJoined
      <4>4. buffer' = c
        BY <2>10, <4>2 DEF Stored
      <4>5. Come(text, i)'
        BY <2>7, <2>8, <2>9, <2>10, <3>1, <4>3, <4>4 DEF Come
      <4> QED BY <1>3, <2>1, <2>2, <2>9, <4>5 DEF ResponseComes
    <3>2. CASE incomplete
      <4>1. k >= 1 /\ NoStatus(buffer)
        BY <2>5, <3>2 DEF Come
      <4>2. PICK b, c : b = buffer /\ c = Front(b) \o piece \o <<NUL>>
        OBVIOUS
      <4>3. piece \in Seq(Others)
        <5>1. piece \in Seq(Symbols) /\ Len(piece) = y /\ \A j \in 1 .. y : piece[j] = text[k + j]
          BY <2>9 DEF IsSlice
        <5>2. \A j \in 1 .. y : k + j \in 2 .. l
          BY <2>1, <2>4, <2>8, <2>9, <4>1
        <5>3. \A j \in 1 .. Len(piece) : piece[j] \in Others
          BY <2>4, <5>1, <5>2
        <5> QED BY <5>1, <5>3, Retyped
      <4>4. NoStatus(c)
        BY <4>1, <4>2, <4>3, NoStatusStored
      <4>5. buffer' = c
        BY <2>10, <4>2 DEF Stored
      <4>6. Come(text, i)'
        BY <2>7, <2>8, <2>9, <2>10, <3>2, <4>4, <4>5 DEF Come
      <4> QED BY <1>3, <2>1, <2>2, <2>9, <4>6 DEF ResponseComes
    <3> QED BY <3>1, <3>2
  <2>11. CASE buffer' = [buffer EXCEPT ![1] = NUL] /\ incomplete' = TRUE
    <3>1. buffer \in Seq(Symbols) /\ Len(buffer) >= 1
      <4>1. CASE incomplete
        BY <2>5, <4>1 DEF Come, NoStatus
      <4>2. CASE ~incomplete
        <5>1. HasCome(buffer, text, k)
          BY <2>5, <4>2 DEF Come
        <5> QED BY <5>1 DEF HasCome
      <4> QED BY <4>1, <4>2
    <3>2. PICK b, c : b = buffer /\ c = [b EXCEPT ![1] = NUL]
      OBVIOUS
    <3>3. NoStatus(c)
      BY <3>1, <3>2, NoStatusDropped
    <3>4. Come(text, i)'
      BY <2>7, <2>8, <2>9, <2>11, <3>2, <3>3 DEF Come
    <3> QED BY <1>3, <2>1, <2>2, <2>9, <3>4 DEF ResponseComes
  <2> QED BY <1>3, <2>10, <2>11
<1>6. ASSUME response = NoResponse PROVE ResponseComes'
  BY <1>3, <1>6 DEF ResponseComes
<1> QED BY <1>4, <1>5, <1>6 DEF ResponseInv

\* The connection is over, and what there is is told.
LEMMA ResponseInvOver ==
  ASSUME ResponseInv, ResponseOver
  PROVE  ResponseInv'
<1>1. /\ response # NoResponse /\ told' = ReadResponse
      /\ response' = response /\ coming' = coming /\ buffer' = buffer /\ incomplete' = incomplete
  BY DEF ResponseOver
<1>2. ReadResponse' = ReadResponse
  BY <1>1 DEF ReadResponse
<1>3. ResponseComes'
  BY <1>1 DEF ResponseInv, ResponseComes, Come
<1> QED BY <1>1, <1>2, <1>3 DEF ResponseInv, ToldAtEnd

LEMMA ResponseInvUnchanged ==
  ASSUME ResponseInv, UNCHANGED response_vars
  PROVE  ResponseInv'
<1>1. response' = response /\ coming' = coming /\ buffer' = buffer /\ incomplete' = incomplete /\ told' = told
  BY DEF response_vars
<1>2. ReadResponse' = ReadResponse
  BY <1>1 DEF ReadResponse
<1> QED BY <1>1, <1>2 DEF ResponseInv, ResponseComes, Come, ToldAtEnd

\* What is told of what has come in is as the property says.
LEMMA ResponseInvRead ==
  ASSUME ResponseInv
  PROVE  ResponseRead
<1> SUFFICES ASSUME told # NoResponse PROVE ResponseRead
  BY DEF ResponseRead
<1>1. response # NoResponse /\ told = ReadResponse /\ response \in Responses /\ incomplete \in BOOLEAN
  BY DEF ResponseInv, ToldAtEnd, ResponseComes
<1>2. PICK m : m = response /\ m \in Responses
  BY <1>1
<1>3. PICK text, z : text = ResponseText(m) /\ z = Len(text)
  OBVIOUS
<1>4. IsText(text, m.version)
  BY <1>2, <1>3, TextIs
<1>5. text \in Seq(Symbols) /\ z \in Nat /\ z >= 8 /\ text[1] = m.version
  BY <1>3, <1>4 DEF IsText
<1>6. PICK k \in Nat : k <= z /\ Come(text, k)
  <2>1. PICK i \in 0 .. z : Come(text, i)
    BY <1>1, <1>2, <1>3 DEF ResponseInv, ResponseComes
  <2>2. i \in Nat /\ i <= z
    BY <1>5
  <2> QED BY <2>1, <2>2
<1>7. coming = << >> <=> k = z
  <2>1. coming \in Seq(Symbols) /\ Len(coming) = z - k
    BY <1>3, <1>6 DEF Come, StillToCome, IsSlice
  <2> QED BY <1>5, <1>6, <2>1, EmptySeq
<1>8. PICK known : known = (m.version \in KnownVersions)
  OBVIOUS
<1>9. PICK t : t = told /\ t = ReadResponse
  BY <1>1
<1>10. CASE buffer[1] \notin KnownVersions
  <2>1. t = Told("-1", header_lines(UpToNul(buffer)), << >>)
    BY <1>9, <1>10, Zenon DEF ReadResponse
  <2>2. t.status = "-1" /\ t.body = << >> /\ t # Crash
    BY <2>1 DEF Told, Crash
  <2>3. ASSUME m.version \in KnownVersions, ~incomplete PROVE buffer = <<NUL>>
    <3>1. HasCome(buffer, text, k)
      BY <1>6, <2>3 DEF Come
    <3>2. k = 0
      <4>1. ASSUME k # 0 PROVE FALSE
        <5>1. 1 \in 1 .. k
          BY <4>1
        <5>2. buffer[1] = text[1]
          BY <3>1, <5>1 DEF HasCome
        <5> QED BY <1>5, <1>10, <2>3, <5>2
      <4> QED BY <4>1
    <3>3. buffer \in Seq(Symbols) /\ Len(buffer) = 1 /\ buffer[1] = NUL
      BY <3>1, <3>2 DEF HasCome
    <3> QED BY <3>3
  <2> QED BY <1>2, <1>9, <2>2, <2>3 DEF ResponseRead
<1>11. CASE buffer[1] \in KnownVersions
  <2>1. ~incomplete
    BY <1>6, <1>11 DEF Come, NoStatus
  <2>2. HasCome(buffer, text, k)
    BY <1>6, <2>1 DEF Come
  <2>3. 1 <= k
    <3>1. ASSUME k = 0 PROVE FALSE
      BY <1>11, <2>2, <3>1, NulIs DEF HasCome
    <3> QED BY <3>1
  <2>4. m.version \in KnownVersions
    <3>1. 1 \in 1 .. k
      BY <2>3
    <3> QED BY <1>5, <1>11, <2>2, <3>1 DEF HasCome
  <2>5. (t = Crash /\ k < z) \/ ResponseTold(t, m, k, z)
    BY <1>2, <1>3, <1>5, <1>6, <1>9, <2>2, <2>3, <2>4, TellsResponse
  <2>6. CASE t = Crash /\ k < z
    BY <1>2, <1>7, <1>9, <2>1, <2>4, <2>6 DEF ResponseRead
  <2>7. CASE ResponseTold(t, m, k, z)
    <3>1. t.status = "200" /\ t # Crash /\ t.status # "-1"
      BY <2>7 DEF ResponseTold, Crash, Told
    <3>2. t.headers = [i \in DOMAIN SentHeaders(m) |->
                         << << SentHeaders(m)[i][1] >>, << SentHeaders(m)[i][2] >> >>]
      BY <2>7 DEF ResponseTold, PairOf
    <3>3. /\ IsPrefix(UpToNul(t.body), SentBody(m))
          /\ k = z => UpToNul(t.body) = SentBody(m) /\ JUNK \notin Range(t.body)
      BY <2>7 DEF ResponseTold, BodyTold
    <3> QED BY <1>2, <1>7, <1>9, <2>1, <2>4, <3>1, <3>2, <3>3 DEF ResponseRead
  <2> QED BY <2>5, <2>6, <2>7
<1> QED BY <1>10, <1>11

THEOREM ResponsesRead == ResponseSpec => []ResponseRead
<1>1. ResponseInit => ResponseInv
  BY ResponseInvInit
<1>2. ResponseInv /\ [ResponseNext]_response_vars => ResponseInv'
  BY ResponseInvNew, ResponseInvPiece, ResponseInvOver, ResponseInvUnchanged DEF ResponseNext
<1>3. ResponseInv => ResponseRead
  BY ResponseInvRead
<1> QED BY <1>1, <1>2, <1>3, PTL DEF ResponseSpec

================================================================================
