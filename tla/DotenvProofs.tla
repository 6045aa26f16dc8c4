---------------------------- MODULE DotenvProofs ----------------------------
(***************************************************************************)
(* What load_dotenv_f does to the environment of the process, for every    *)
(* file, limit and environment.                                            *)
(***************************************************************************)
EXTENDS Dotenv, Foundations

\* Without overwrite no step changes a variable that is set.
LEMMA SetEnvKeeps ==
  ASSUME NEW name, NEW value, ~given.overwrite, SetEnv(name, value),
         NEW n \in DOMAIN env
  PROVE  n \in DOMAIN env' /\ env'[n] = env[n]
<1>1. CASE UNCHANGED env
  BY <1>1
<1>2. CASE name \notin DOMAIN env /\ env' = [m \in DOMAIN env \cup {name} |-> IF m = name THEN value ELSE env[m]]
  BY <1>2
<1> QED
  BY <1>1, <1>2 DEF SetEnv

\* For every file: without overwrite the variables that exist are kept.
THEOREM KeptTheorem == Spec => ExistingKept
<1> DEFINE Kept ==
      ~given.overwrite => \A name \in DOMAIN env : name \in DOMAIN env' /\ env'[name] = env[name]
<1>1. [Next]_vars => [Kept]_vars
  <2> SUFFICES ASSUME Next, ~given.overwrite, NEW n \in DOMAIN env
               PROVE  n \in DOMAIN env' /\ env'[n] = env[n]
    OBVIOUS
  <2>1. CASE Open \/ TrashLine \/ Return \/ ReadFails
    BY <2>1 DEF Open, TrashLine, Return, ReadFails
  <2>2. CASE ReadLine
    <3>1. CASE UNCHANGED env
      BY <3>1
    <3>2. ASSUME NEW name, NEW value, SetEnv(name, value)
          PROVE  n \in DOMAIN env' /\ env'[n] = env[n]
      BY <3>2, SetEnvKeeps
    <3> QED
      BY <2>2, <3>1, <3>2 DEF ReadLine
  <2> QED
    BY <2>1, <2>2 DEF Next
<1> HIDE DEF Kept
<1>2. Spec => [][Kept]_vars
  BY <1>1, PTL DEF Spec
<1> QED
  BY <1>2 DEF Kept, ExistingKept

------------------------------------------------------------------------------
(* Files and lines.                                                         *)

\* (The provers do not know that a literal is in STRING.)
Char == STRING \cup {LF, CR}

\* What follows the first k lines of a file.
Rest(lines, k) == Text(SubSeq(lines, k + 1, Len(lines)))

\* The sequences of characters that make up what follows.
LEMMA RestIs ==
  ASSUME NEW lines \in Seq(Lines), NEW k \in 0 .. Len(lines)
  PROVE  \E q \in Seq(Seq(Char)) :
           /\ Len(q) = Len(lines) - k
           /\ \A i \in 1 .. Len(q) : q[i] = lines[k + i].text \o lines[k + i].end
           /\ Rest(lines, k) = FlattenSeq(q)
<1> DEFINE n == Len(lines) - k
           s == SubSeq(lines, k + 1, Len(lines))
           q == [i \in DOMAIN s |-> s[i].text \o s[i].end]
<1>1. Len(lines) \in Nat /\ n \in Nat
  BY LenProperties
<1>2. s \in Seq(Lines) /\ Len(s) = n /\ \A i \in 1 .. n : s[i] = lines[k + i]
  <2>1. \A i \in (k + 1) .. Len(lines) : lines[i] \in Lines
    BY <1>1, ElementOfSeq
  <2>2. /\ s \in Seq(Lines)
        /\ Len(s) = IF k + 1 <= Len(lines) THEN Len(lines) - (k + 1) + 1 ELSE 0
        /\ \A i \in 1 .. (Len(lines) - (k + 1) + 1) : s[i] = lines[k + 1 + i - 1]
    <3>1. k + 1 \in Int /\ Len(lines) \in Int
      BY <1>1
    <3> QED
      BY <2>1, <3>1, SubSeqProperties
  <2> QED
    BY <2>2, <1>1
<1>3. DOMAIN s = 1 .. n
  BY <1>2, LenProperties
<1> HIDE DEF s, n
<1>4. ASSUME NEW i \in 1 .. n
      PROVE  s[i].text \o s[i].end \in Seq(Char)
  <2>1. s[i] \in Lines
    BY <1>2, ElementOfSeq
  <2>2. s[i].text \in Seq(Char) /\ s[i].end \in Seq(Char)
    <3>1. LF \in Char /\ CR \in Char /\ STRING \subseteq Char
      BY DEF Char
    <3>2. <<>> \in Seq(Char) /\ <<LF>> \in Seq(Char) /\ <<CR, LF>> \in Seq(Char)
      BY <3>1
    <3>3. s[i].text \in Seq(STRING) /\ s[i].end \in {<<>>, <<LF>>, <<CR, LF>>}
      BY <2>1 DEF Lines
    <3>4. s[i].text \in Seq(Char)
      BY <3>1, <3>3, SeqMonotonic
    <3> QED
      BY <3>2, <3>3, <3>4
  <2> QED
    BY <2>2, ConcatProperties
<1>5. q \in [1 .. n -> Seq(Char)]
  BY <1>3, <1>4
<1>6. q \in Seq(Seq(Char)) /\ Len(q) = n
  BY <1>5, <1>1
<1>7. Rest(lines, k) = FlattenSeq(q)
  BY DEF Rest, Text, s
<1>8. \A i \in 1 .. n : q[i] = lines[k + i].text \o lines[k + i].end
  BY <1>2, <1>3
<1> QED
  BY <1>6, <1>7, <1>8 DEF n

LEMMA RestType ==
  ASSUME NEW lines \in Seq(Lines), NEW k \in 0 .. Len(lines)
  PROVE  Rest(lines, k) \in Seq(Char)
BY RestIs, FlattenType

LEMMA RestNext ==
  ASSUME NEW lines \in Seq(Lines), NEW k \in 0 .. (Len(lines) - 1)
  PROVE  Rest(lines, k) = (lines[k + 1].text \o lines[k + 1].end) \o Rest(lines, k + 1)
<1>1. Len(lines) \in Nat
  BY LenProperties
<1>2. k \in 0 .. Len(lines) /\ k + 1 \in 0 .. Len(lines)
  BY <1>1
<1>3. PICK q \in Seq(Seq(Char)) :
        /\ Len(q) = Len(lines) - k
        /\ \A i \in 1 .. Len(q) : q[i] = lines[k + i].text \o lines[k + i].end
        /\ Rest(lines, k) = FlattenSeq(q)
  BY <1>2, RestIs
<1>4. PICK r \in Seq(Seq(Char)) :
        /\ Len(r) = Len(lines) - (k + 1)
        /\ \A i \in 1 .. Len(r) : r[i] = lines[k + 1 + i].text \o lines[k + 1 + i].end
        /\ Rest(lines, k + 1) = FlattenSeq(r)
  BY <1>2, RestIs
<1>5. Len(q) = Len(r) + 1
  BY <1>1, <1>3, <1>4
<1>6. ASSUME NEW i \in 1 .. Len(r)
      PROVE  r[i] = q[i + 1]
  <2>1. i + 1 \in 1 .. Len(q) /\ k + (i + 1) = k + 1 + i
    BY <1>1, <1>4, <1>5
  <2> QED
    BY <2>1, <1>3, <1>4
<1>7. q[1] = lines[k + 1].text \o lines[k + 1].end
  <2>1. 1 \in 1 .. Len(q)
    BY <1>1, <1>3
  <2> QED
    BY <2>1, <1>3
<1>8. FlattenSeq(q) = q[1] \o FlattenSeq(r)
  <2>1. IsTail(r, q)
    BY <1>5, <1>6 DEF IsTail
  <2> QED
    BY <2>1, FlattenFirst
<1> QED
  BY <1>3, <1>4, <1>7, <1>8

LEMMA RestEnds ==
  ASSUME NEW lines \in Seq(Lines)
  PROVE  Rest(lines, Len(lines)) = <<>> /\ Rest(lines, 0) = Text(lines)
<1>1. Len(lines) \in Nat
  BY LenProperties
<1>2. SubSeq(lines, 1, Len(lines)) = lines
  BY SubSeqFull
<1>3. Rest(lines, 0) = Text(lines)
  <2>1. 0 + 1 = 1
    OBVIOUS
  <2> QED
    BY <1>2, <2>1, Zenon DEF Rest
<1>4. PICK q \in Seq(Seq(Char)) :
        Len(q) = Len(lines) - Len(lines) /\ Rest(lines, Len(lines)) = FlattenSeq(q)
  <2>1. Len(lines) \in 0 .. Len(lines)
    BY <1>1
  <2> QED
    BY <2>1, RestIs
<1>5. Len(q) = 0
  BY <1>1, <1>4
<1>6. q = <<>>
  BY <1>5, EmptySeq
<1> QED
  BY <1>3, <1>4, <1>5, <1>6 DEF FlattenSeq

------------------------------------------------------------------------------
(* What fgets and strcspn cut off.                                          *)

\* The first characters of a sum are its first part, ...
LEMMA FirstOfSum ==
  ASSUME NEW S, NEW s \in Seq(S), NEW t \in Seq(S)
  PROVE  SubSeq(s \o t, 1, Len(s)) = s
<1>1. Len(s) \in Nat /\ \A i \in 1 .. Len(s) : (s \o t)[i] = s[i] /\ s[i] \in S
  <2>1. Len(s) \in Nat /\ \A i \in 1 .. Len(s) : (s \o t)[i] = s[i]
    OBVIOUS
  <2>2. \A i \in 1 .. Len(s) : s[i] \in S
    BY ElementOfSeq
  <2> QED
    BY <2>1, <2>2, Zenon
<1> DEFINE u == SubSeq(s \o t, 1, Len(s))
<1>2. /\ u \in Seq(S)
      /\ Len(u) = IF 1 <= Len(s) THEN Len(s) - 1 + 1 ELSE 0
      /\ \A i \in 1 .. (Len(s) - 1 + 1) : u[i] = (s \o t)[1 + i - 1]
  <2>1. 1 \in Int /\ Len(s) \in Int /\ \A i \in 1 .. Len(s) : (s \o t)[i] \in S
    BY <1>1
  <2> QED
    BY <2>1, SubSeqProperties
<1> HIDE DEF u
<1>3. Len(u) = Len(s) /\ \A i \in 1 .. Len(u) : u[i] = s[i]
  BY <1>1, <1>2
<1>4. u = s
  BY <1>2, <1>3, SeqEqual
<1> QED
  BY <1>4 DEF u

\* ... and what comes after them the second.
LEMMA AfterSum ==
  ASSUME NEW S, NEW s \in Seq(S), NEW t \in Seq(S)
  PROVE  After(s \o t, Len(s)) = t
<1> DEFINE n == Len(s) + Len(t)
           u == SubSeq(s \o t, Len(s) + 1, n)
<1>1. /\ Len(s) \in Nat /\ Len(t) \in Nat /\ Len(s \o t) = n
      /\ \A i \in 1 .. Len(t) : (s \o t)[Len(s) + i] = t[i] /\ t[i] \in S
  <2>1. /\ Len(s) \in Nat /\ Len(t) \in Nat /\ Len(s \o t) = n
        /\ \A i \in 1 .. Len(t) : (s \o t)[Len(s) + i] = t[i]
    OBVIOUS
  <2>2. \A i \in 1 .. Len(t) : t[i] \in S
    BY ElementOfSeq
  <2> QED
    BY <2>1, <2>2, Zenon
<1>2. \A i \in (Len(s) + 1) .. n : (s \o t)[i] \in S
  <2> SUFFICES ASSUME NEW i \in (Len(s) + 1) .. n
               PROVE  (s \o t)[i] \in S
    OBVIOUS
  <2>1. i - Len(s) \in 1 .. Len(t) /\ Len(s) + (i - Len(s)) = i
    BY <1>1
  <2> QED
    BY <2>1, <1>1
<1>3. /\ u \in Seq(S)
      /\ Len(u) = IF Len(s) + 1 <= n THEN n - (Len(s) + 1) + 1 ELSE 0
      /\ \A i \in 1 .. (n - (Len(s) + 1) + 1) : u[i] = (s \o t)[Len(s) + 1 + i - 1]
  <2> DEFINE m == Len(s) + 1
             v == s \o t
  <2>1. m \in Int /\ n \in Int /\ \A i \in m .. n : v[i] \in S
    BY <1>1, <1>2
  <2> HIDE DEF m, n, v
  <2>2. /\ SubSeq(v, m, n) \in Seq(S)
        /\ Len(SubSeq(v, m, n)) = IF m <= n THEN n - m + 1 ELSE 0
        /\ \A i \in 1 .. (n - m + 1) : SubSeq(v, m, n)[i] = v[m + i - 1]
    BY <2>1, SubSeqProperties
  <2> QED
    BY <2>2 DEF m, v
<1>4. After(s \o t, Len(s)) = u
  BY <1>1 DEF After
<1> HIDE DEF u
<1>5. Len(u) = Len(t)
  BY <1>1, <1>3
<1>6. ASSUME NEW i \in 1 .. Len(u)
      PROVE  u[i] = t[i]
  <2>1. i \in 1 .. Len(t) /\ i \in 1 .. (n - (Len(s) + 1) + 1) /\ Len(s) + 1 + i - 1 = Len(s) + i
    BY <1>1, <1>5
  <2> QED
    BY <2>1, <1>1, <1>3
<1>7. u = t
  BY <1>3, <1>5, <1>6, SeqEqual
<1> QED
  BY <1>4, <1>7

\* A cut before the first of some characters gives the part without them, when
\* one of them follows or nothing does.
LEMMA BeforeSum ==
  ASSUME NEW S, NEW C, NEW s \in Seq(S), NEW t \in Seq(S),
         \A i \in 1 .. Len(s) : s[i] \notin C,
         t = <<>> \/ t[1] \in C
  PROVE  Before(s \o t, C) = s
<1>1. /\ s \o t \in Seq(S)
      /\ Len(s) \in Nat /\ Len(t) \in Nat
      /\ Len(s \o t) = Len(s) + Len(t)
      /\ \A i \in 1 .. Len(s) : (s \o t)[i] = s[i]
      /\ \A i \in 1 .. Len(t) : (s \o t)[Len(s) + i] = t[i]
  OBVIOUS
<1>2. DOMAIN (s \o t) = 1 .. (Len(s) + Len(t))
  BY <1>1, LenProperties
<1>3. CASE t = <<>>
  <2>1. s \o t = s /\ Len(t) = 0
    BY <1>3, ConcatEmptySeq, EmptySeq
  <2>2. IndicesOf(s \o t, C) = {}
    BY <1>1, <1>2, <2>1 DEF IndicesOf
  <2> QED
    BY <2>1, <2>2 DEF Before
<1>4. CASE t # <<>> /\ t[1] \in C
  <2>1. Len(t) \in Nat \ {0}
    BY <1>4, EmptySeq
  <2> DEFINE m == Len(s) + 1
  <2>2. m \in IndicesOf(s \o t, C)
    <3>1. 1 \in 1 .. Len(t) /\ m \in 1 .. (Len(s) + Len(t))
      BY <1>1, <2>1
    <3> QED
      BY <3>1, <1>1, <1>2, <1>4 DEF IndicesOf
  <2>3. IndicesOf(s \o t, C) \in SUBSET Nat
    BY <1>1, <1>2 DEF IndicesOf
  <2>4. ASSUME NEW i \in IndicesOf(s \o t, C)
        PROVE  m <= i
    <3>1. i \in 1 .. (Len(s) + Len(t)) /\ (s \o t)[i] \in C
      BY <1>2 DEF IndicesOf
    <3>2. i \notin 1 .. Len(s)
      BY <1>1, <3>1
    <3> QED
      BY <1>1, <3>1, <3>2
  <2>5. Min(IndicesOf(s \o t, C)) = m
    BY <2>2, <2>3, <2>4, MinEquals
  <2>6. m - 1 = Len(s)
    BY <1>1
  <2>7. Before(s \o t, C) = SubSeq(s \o t, 1, Len(s))
    BY <2>2, <2>5, <2>6 DEF Before
  <2> QED
    BY <2>7, FirstOfSum
<1> QED
  BY <1>3, <1>4

\* fgets returns the characters up to a line end, a full buffer, or the end.
LEMMA ChunkIs ==
  ASSUME NEW s \in Seq(Char), NEW t \in Seq(Char), left = s \o t,
         Len(s) \in 1 .. (MAX_ENV_FILE_LINE_LEN + 1),
         \A i \in 1 .. (Len(s) - 1) : s[i] # LF,
         s[Len(s)] = LF \/ t = <<>> \/ Len(s) = MAX_ENV_FILE_LINE_LEN + 1
  PROVE  Chunk = s /\ After(left, Len(Chunk)) = t
<1> DEFINE T == IndicesOf(left, {LF}) \cup {MAX_ENV_FILE_LINE_LEN + 1, Len(left)}
<1>1. /\ left \in Seq(Char)
      /\ Len(s) \in Nat /\ Len(t) \in Nat
      /\ Len(left) = Len(s) + Len(t)
      /\ \A i \in 1 .. Len(s) : left[i] = s[i]
  OBVIOUS
<1>2. DOMAIN left = 1 .. Len(left)
  BY <1>1, LenProperties
<1>3. T \in SUBSET Nat
  BY <1>1, <1>2, DotenvAssumption DEF IndicesOf
<1>4. Len(s) \in T
  <2>1. CASE s[Len(s)] = LF
    <3>1. Len(s) \in 1 .. Len(s) /\ Len(s) \in 1 .. Len(left)
      BY <1>1
    <3> QED
      BY <2>1, <3>1, <1>1, <1>2 DEF IndicesOf
  <2>2. CASE t = <<>>
    <3>1. Len(t) = 0
      BY <2>2, EmptySeq
    <3> QED
      BY <3>1, <1>1
  <2>3. CASE Len(s) = MAX_ENV_FILE_LINE_LEN + 1
    BY <2>3
  <2> QED
    BY <2>1, <2>2, <2>3
<1>5. ASSUME NEW i \in T
      PROVE  Len(s) <= i
  <2>1. CASE i \in IndicesOf(left, {LF})
    <3>1. i \in 1 .. Len(left) /\ left[i] = LF
      BY <2>1, <1>2 DEF IndicesOf
    <3>2. i \notin 1 .. (Len(s) - 1)
      BY <3>1, <1>1
    <3> QED
      BY <1>1, <3>1, <3>2
  <2>2. CASE i = MAX_ENV_FILE_LINE_LEN + 1
    BY <2>2, DotenvAssumption
  <2>3. CASE i = Len(left)
    BY <2>3, <1>1
  <2> QED
    BY <2>1, <2>2, <2>3
<1>6. Min(T) = Len(s)
  <2> HIDE DEF T
  <2> QED
    BY <1>3, <1>4, <1>5, MinEquals
<1>7. Chunk = SubSeq(left, 1, Len(s))
  BY <1>6 DEF Chunk
<1>8. Chunk = s
  BY <1>7, FirstOfSum
<1> QED
  BY <1>8, AfterSum

------------------------------------------------------------------------------
(* The reader at the beginning of a line.                                   *)

NoEnd(s) == \A i \in 1 .. Len(s) : s[i] \notin {LF, CR}

LEMMA Ends ==
  /\ LF # CR /\ <<CR>> \o <<LF>> = <<CR, LF>>
  /\ <<>> \in Seq(Char) /\ <<LF>> \in Seq(Char) /\ <<CR>> \in Seq(Char) /\ <<CR, LF>> \in Seq(Char)
<1>1. LF # CR
  BY DEF LF, CR
<1>2. LF \in Char /\ CR \in Char
  BY DEF Char
<1>3. <<CR>> \o <<LF>> = <<CR, LF>>
  <2> DEFINE s == <<CR>> \o <<LF>>
             t == <<CR, LF>>
  <2>1. s \in Seq(Char) /\ t \in Seq(Char) /\ Len(s) = 2 /\ Len(t) = 2
    BY <1>2
  <2>2. s[1] = CR /\ s[2] = LF /\ t[1] = CR /\ t[2] = LF
    OBVIOUS
  <2> HIDE DEF s, t
  <2>3. \A i \in 1 .. Len(s) : s[i] = t[i]
    <3>1. \A i \in 1 .. 2 : i = 1 \/ i = 2
      OBVIOUS
    <3> QED
      BY <2>1, <2>2, <3>1
  <2>4. s = t
    BY <2>1, <2>3, SeqEqual
  <2> QED
    BY <2>4 DEF s, t
<1> QED
  BY <1>1, <1>2, <1>3

LEMMA SumCRLF ==
  ASSUME NEW s \in Seq(Char)
  PROVE  s \o <<CR, LF>> = (s \o <<CR>>) \o <<LF>>
<1> DEFINE cr == <<CR>>
           lf == <<LF>>
           both == <<CR, LF>>
<1>1. cr \in Seq(Char) /\ lf \in Seq(Char) /\ both = cr \o lf
  BY Ends
<1> HIDE DEF cr, lf, both
<1>2. (s \o cr) \o lf = s \o both
  BY <1>1, SumAssociative
<1> QED
  BY <1>2 DEF cr, lf, both

\* A line that ends with a line feed and fits.
LEMMA ChunkWithEnd ==
  ASSUME NEW text \in Seq(Char), NoEnd(text), NEW rest \in Seq(Char),
         NEW e \in {<<LF>>, <<CR, LF>>},
         Len(text) + Len(e) <= MAX_ENV_FILE_LINE_LEN + 1,
         left = (text \o e) \o rest
  PROVE  /\ ~TooLong
         /\ Before(Chunk, {CR, LF}) = text
         /\ After(left, Len(Chunk)) = rest
<1> DEFINE s == text \o e
<1>1. e \in Seq(Char) /\ Len(e) \in {1, 2} /\ e[Len(e)] = LF /\ e[1] \in {CR, LF}
      /\ \A i \in 1 .. (Len(e) - 1) : e[i] # LF
  <2>1. CASE e = <<LF>>
    BY <2>1, Ends
  <2>2. CASE e = <<CR, LF>>
    <3>1. Len(e) = 2 /\ e[1] = CR /\ e[2] = LF
      BY <2>2
    <3>2. \A i \in 1 .. (2 - 1) : i = 1
      OBVIOUS
    <3> QED
      BY <2>2, <3>1, <3>2, Ends
  <2> QED
    BY <2>1, <2>2
<1>2. s \in Seq(Char) /\ Len(s) = Len(text) + Len(e) /\ Len(text) \in Nat
  BY <1>1
<1>3. s[Len(s)] = LF
  <2>1. Len(e) \in 1 .. Len(e)
    BY <1>1
  <2>2. s[Len(text) + Len(e)] = e[Len(e)]
    BY <1>1, <1>2, <2>1
  <2> QED
    BY <1>1, <1>2, <2>2
<1>4. ASSUME NEW i \in 1 .. (Len(s) - 1)
      PROVE  s[i] # LF
  <2>1. CASE i <= Len(text)
    <3>1. i \in 1 .. Len(text) /\ s[i] = text[i]
      BY <1>1, <1>2, <2>1
    <3> QED
      BY <3>1 DEF NoEnd
  <2>2. CASE i > Len(text)
    <3>1. i - Len(text) \in 1 .. (Len(e) - 1) /\ s[i] = e[i - Len(text)]
      BY <1>1, <1>2, <2>2
    <3> QED
      BY <1>1, <3>1
  <2> QED
    BY <1>2, <2>1, <2>2
<1>5. Len(s) \in 1 .. (MAX_ENV_FILE_LINE_LEN + 1)
  BY <1>1, <1>2, DotenvAssumption
<1>6. left = s \o rest
  OBVIOUS
<1>7. Chunk = s /\ After(left, Len(Chunk)) = rest
  <2> HIDE DEF s
  <2> QED
    BY <1>2, <1>3, <1>4, <1>5, <1>6, ChunkIs
<1>8. ~TooLong
  BY <1>3, <1>7 DEF TooLong, Last
<1>9. Before(s, {CR, LF}) = text
  <2>1. \A i \in 1 .. Len(text) : text[i] \notin {CR, LF}
    BY DEF NoEnd
  <2> QED
    BY <1>1, <2>1, BeforeSum
<1> QED
  BY <1>7, <1>8, <1>9

\* A line whose CR fills the buffer: the LF is left for the next turn.
LEMMA ChunkWithCR ==
  ASSUME NEW text \in Seq(Char), NoEnd(text), NEW rest \in Seq(Char),
         Len(text) = MAX_ENV_FILE_LINE_LEN,
         left = (text \o <<CR, LF>>) \o rest
  PROVE  /\ ~TooLong
         /\ Before(Chunk, {CR, LF}) = text
         /\ After(left, Len(Chunk)) = <<LF>> \o rest
<1> DEFINE s == text \o <<CR>>
           t == <<LF>> \o rest
<1>1. /\ s \in Seq(Char) /\ t \in Seq(Char)
      /\ Len(s) = MAX_ENV_FILE_LINE_LEN + 1 /\ s[Len(s)] = CR
      /\ \A i \in 1 .. Len(text) : s[i] = text[i]
  BY Ends, DotenvAssumption
<1>2. left = s \o t
  <2> DEFINE lf == <<LF>>
  <2>1. s \o lf = text \o <<CR, LF>>
    BY SumCRLF
  <2>2. lf \in Seq(Char)
    BY Ends
  <2>3. left = Cat(Cat(s, lf), rest) /\ s \o t = Cat(s, Cat(lf, rest))
    BY <2>1 DEF Cat
  <2> HIDE DEF s, t, lf
  <2>4. Cat(Cat(s, lf), rest) = Cat(s, Cat(lf, rest))
    BY <1>1, <2>2, CatAssociative
  <2> QED
    BY <2>3, <2>4
<1>3. \A i \in 1 .. (Len(s) - 1) : s[i] # LF
  BY <1>1, DotenvAssumption DEF NoEnd
<1>4. Chunk = s /\ After(left, Len(Chunk)) = t
  <2>1. Len(s) \in 1 .. (MAX_ENV_FILE_LINE_LEN + 1)
    BY <1>1, DotenvAssumption
  <2> HIDE DEF s, t
  <2> QED
    BY <1>1, <1>2, <1>3, <2>1, ChunkIs
<1>5. ~TooLong
  BY <1>1, <1>4 DEF TooLong, Last
<1>6. Before(s, {CR, LF}) = text
  <2>1. \A i \in 1 .. Len(text) : text[i] \notin {CR, LF}
    BY DEF NoEnd
  <2>2. <<CR>>[1] \in {CR, LF}
    OBVIOUS
  <2> QED
    BY Ends, <2>1, <2>2, BeforeSum
<1> QED
  BY <1>4, <1>5, <1>6

\* A last line without an end.
LEMMA ChunkWithout ==
  ASSUME NEW text \in Seq(Char), NoEnd(text), text # <<>>,
         Len(text) <= MAX_ENV_FILE_LINE_LEN, left = text
  PROVE  /\ ~TooLong
         /\ Before(Chunk, {CR, LF}) = text
         /\ After(left, Len(Chunk)) = <<>>
<1>1. Len(text) \in Nat \ {0} /\ text \o <<>> = text
  BY EmptySeq, ConcatEmptySeq
<1>2. Chunk = text /\ After(left, Len(Chunk)) = <<>>
  <2>1. Len(text) \in 1 .. (MAX_ENV_FILE_LINE_LEN + 1)
    BY <1>1, DotenvAssumption
  <2>2. \A i \in 1 .. (Len(text) - 1) : text[i] # LF
    BY <1>1 DEF NoEnd
  <2>3. left = text \o <<>>
    BY <1>1
  <2> QED
    BY <2>1, <2>2, <2>3, Ends, ChunkIs
<1>3. ~TooLong
  BY <1>2, <1>1, DotenvAssumption DEF TooLong
<1>4. Before(text \o <<>>, {CR, LF}) = text
  <2>1. \A i \in 1 .. Len(text) : text[i] \notin {CR, LF}
    BY DEF NoEnd
  <2> QED
    BY Ends, <2>1, BeforeSum
<1> QED
  BY <1>1, <1>2, <1>3, <1>4

\* What is left after the LF of a line whose CR filled the buffer is read as
\* an empty line.
LEMMA ChunkOfLF ==
  ASSUME NEW rest \in Seq(Char), left = <<LF>> \o rest
  PROVE  /\ ~TooLong
         /\ Before(Chunk, {CR, LF}) = <<>>
         /\ After(left, Len(Chunk)) = rest
<1>1. <<>> \o <<LF>> = <<LF>> /\ (<<>> \o <<LF>>) \o rest = <<LF>> \o rest
  OBVIOUS
<1>2. NoEnd(<<>>) /\ Len(<<>>) + Len(<<LF>>) <= MAX_ENV_FILE_LINE_LEN + 1
  BY DotenvAssumption DEF NoEnd
<1> QED
  BY <1>1, <1>2, Ends, ChunkWithEnd

\* The end of a line before rest.
IsEnd(e, rest) == e \in {<<>>, <<LF>>, <<CR, LF>>} /\ (e = <<>> => rest = <<>>)

\* The rest of a line, with its end, is thrown away.
LEMMA TrashIs ==
  ASSUME NEW s \in Seq(Char), NoEnd(s), NEW rest \in Seq(Char),
         NEW e, IsEnd(e, rest)
  PROVE  After((s \o e) \o rest, Len(Before((s \o e) \o rest, {LF})) + 1) = rest
<1>1. ASSUME NEW u \in Seq(Char), \A i \in 1 .. Len(u) : u[i] \notin {LF},
             (s \o e) \o rest = (u \o <<LF>>) \o rest
      PROVE  After((s \o e) \o rest, Len(Before((s \o e) \o rest, {LF})) + 1) = rest
  <2> DEFINE t == <<LF>> \o rest
             v == u \o <<LF>>
  <2>1. t \in Seq(Char) /\ t[1] = LF /\ v \in Seq(Char) /\ Len(v) = Len(u) + 1
    BY Ends
  <2>2. (u \o <<LF>>) \o rest = u \o t
    BY Ends, SumAssociative
  <2>3. Before(u \o t, {LF}) = u
    <3> HIDE DEF t
    <3> QED
      BY <1>1, <2>1, BeforeSum
  <2>4. After(v \o rest, Len(v)) = rest
    <3> HIDE DEF v
    <3> QED
      BY <2>1, AfterSum
  <2> QED
    BY <1>1, <2>1, <2>2, <2>3, <2>4
<1>2. CASE e = <<LF>>
  BY <1>1, <1>2 DEF NoEnd
<1>3. CASE e = <<CR, LF>>
  <2> DEFINE u == s \o <<CR>>
  <2>1. u \in Seq(Char) /\ Len(u) = Len(s) + 1 /\ u[Len(u)] = CR
        /\ \A i \in 1 .. Len(s) : u[i] = s[i]
    BY Ends
  <2>2. \A i \in 1 .. Len(u) : u[i] \notin {LF}
    <3>1. Len(s) \in Nat
      OBVIOUS
    <3>2. \A i \in 1 .. Len(u) : i \in 1 .. Len(s) \/ i = Len(u)
      BY <2>1, <3>1
    <3> HIDE DEF u
    <3> QED
      BY <2>1, <3>2, Ends DEF NoEnd
  <2>3. u \o <<LF>> = s \o e
    BY <1>3, SumCRLF
  <2> HIDE DEF u
  <2> QED
    BY <1>1, <2>1, <2>2, <2>3
<1>4. CASE e = <<>>
  <2>1. (s \o e) \o rest = s /\ s \o <<>> = s
    BY <1>4, ConcatEmptySeq DEF IsEnd
  <2>2. Before(s \o <<>>, {LF}) = s
    <3>1. \A i \in 1 .. Len(s) : s[i] \notin {LF}
      BY DEF NoEnd
    <3> QED
      BY <3>1, Ends, BeforeSum
  <2>3. After(s, Len(s) + 1) = <<>>
    <3>1. Len(s) \in Nat
      OBVIOUS
    <3>2. Len(s) + 1 + 1 \in Int /\ Len(s) \in Int /\ Len(s) < Len(s) + 1 + 1
      BY <3>1
    <3> QED
      BY <3>2, SubSeqEmpty DEF After
  <2> QED
    BY <1>4, <2>1, <2>2, <2>3 DEF IsEnd
<1> QED
  BY <1>2, <1>3, <1>4 DEF IsEnd

\* A line over the limit fills the buffer, and all of it is thrown away.
LEMMA ChunkTooLong ==
  ASSUME NEW text \in Seq(Char), NoEnd(text), NEW rest \in Seq(Char),
         NEW e, IsEnd(e, rest),
         Len(text) > MAX_ENV_FILE_LINE_LEN,
         left = (text \o e) \o rest
  PROVE  /\ TooLong
         /\ LET over == After(left, Len(Chunk))
            IN  After(over, Len(Before(over, {LF})) + 1) = rest
<1> DEFINE M == MAX_ENV_FILE_LINE_LEN + 1
           a == SubSeq(text, 1, M)
           b == SubSeq(text, M + 1, Len(text))
           t == (b \o e) \o rest
<1>1. M \in Nat /\ M >= 1 /\ Len(text) \in Nat /\ M <= Len(text)
  BY DotenvAssumption
<1>2. /\ a \in Seq(Char) /\ Len(a) = M /\ \A i \in 1 .. M : a[i] = text[i]
      /\ b \in Seq(Char) /\ NoEnd(b)
      /\ text = a \o b
  <2>1. \A i \in 1 .. Len(text) : text[i] \in Char
    BY ElementOfSeq
  <2>2. (\A i \in 1 .. M : text[i] \in Char) /\ (\A i \in (M + 1) .. Len(text) : text[i] \in Char)
    BY <1>1, <2>1
  <2> HIDE DEF M
  <2>3. a \in Seq(Char) /\ Len(a) = M /\ \A i \in 1 .. M : a[i] = text[i]
    <3>1. /\ a \in Seq(Char)
          /\ Len(a) = IF 1 <= M THEN M - 1 + 1 ELSE 0
          /\ \A i \in 1 .. (M - 1 + 1) : a[i] = text[1 + i - 1]
      <4>1. 1 \in Int /\ M \in Int
        BY <1>1
      <4> QED
        BY <4>1, <2>2, SubSeqProperties
    <3> HIDE DEF a
    <3> QED
      BY <1>1, <3>1
  <2>4. b \in Seq(Char) /\ NoEnd(b)
    <3> DEFINE m == M + 1
               n == Len(text)
    <3>1. m \in Int /\ n \in Int /\ \A i \in m .. n : text[i] \in Char
      BY <1>1, <2>2
    <3>2. /\ b \in Seq(Char)
          /\ Len(b) = IF m <= n THEN n - m + 1 ELSE 0
          /\ \A i \in 1 .. (n - m + 1) : b[i] = text[m + i - 1]
      <4> HIDE DEF m, n
      <4>1. /\ SubSeq(text, m, n) \in Seq(Char)
            /\ Len(SubSeq(text, m, n)) = IF m <= n THEN n - m + 1 ELSE 0
            /\ \A i \in 1 .. (n - m + 1) : SubSeq(text, m, n)[i] = text[m + i - 1]
        BY <3>1, SubSeqProperties
      <4> QED
        BY <4>1 DEF m, n
    <3> HIDE DEF b
    <3>3. ASSUME NEW i \in 1 .. Len(b)
          PROVE  b[i] \notin {LF, CR}
      <4>1. i \in 1 .. (n - m + 1) /\ m + i - 1 \in 1 .. Len(text)
        BY <1>1, <3>2
      <4>2. b[i] = text[m + i - 1]
        BY <3>2, <4>1
      <4> QED
        BY <4>1, <4>2 DEF NoEnd
    <3> QED
      BY <3>2, <3>3 DEF NoEnd
  <2>5. text = a \o b
    <3>1. 1 \in 1 .. (Len(text) + 1) /\ M \in (1 - 1) .. Len(text) /\ Len(text) \in M .. Len(text)
      BY <1>1
    <3>2. a \o b = SubSeq(text, 1, Len(text))
      BY <3>1, ConcatAdjacentSubSeq
    <3> QED
      BY <3>2, SubSeqFull
  <2> QED
    BY <2>3, <2>4, <2>5
<1> HIDE DEF a, b, M
<1>3. e \in Seq(Char)
  BY Ends DEF IsEnd
<1>4. t \in Seq(Char) /\ left = a \o t
  <2>1. ((a \o b) \o e) \o rest = a \o t
    <3>1. a \in Seq(Char) /\ b \in Seq(Char)
      BY <1>2
    <3>2. Cat(Cat(Cat(a, b), e), rest) = Cat(a, Cat(Cat(b, e), rest))
      BY <1>3, <3>1, CatAssociative
    <3> QED
      BY <3>2 DEF Cat
  <2>2. left = ((a \o b) \o e) \o rest
    BY <1>2
  <2>3. b \o e \in Seq(Char)
    BY <1>2, <1>3
  <2>4. t \in Seq(Char)
    BY <2>3
  <2> QED
    BY <2>1, <2>2, <2>4, Zenon
<1> HIDE DEF t
<1>5. Chunk = a /\ After(left, Len(Chunk)) = t
  <2>1. Len(a) \in 1 .. (MAX_ENV_FILE_LINE_LEN + 1) /\ Len(a) = MAX_ENV_FILE_LINE_LEN + 1
    BY <1>1, <1>2 DEF M
  <2>2. \A i \in 1 .. (Len(a) - 1) : a[i] # LF
    <3> SUFFICES ASSUME NEW i \in 1 .. (Len(a) - 1)
                 PROVE  a[i] # LF
      OBVIOUS
    <3>1. i \in 1 .. M /\ i \in 1 .. Len(text)
      BY <1>1, <1>2
    <3> QED
      BY <1>2, <3>1 DEF NoEnd
  <2> QED
    BY <1>2, <1>4, <2>1, <2>2, ChunkIs
<1>6. TooLong
  <2>1. M \in 1 .. M /\ M \in 1 .. Len(text)
    BY <1>1
  <2>2. a[M] \notin {LF, CR}
    BY <1>2, <2>1 DEF NoEnd
  <2> QED
    BY <1>2, <1>5, <2>2 DEF TooLong, Last, M
<1>7. After(t, Len(Before(t, {LF})) + 1) = rest
  BY <1>2, TrashIs DEF t
<1> QED
  BY <1>5, <1>6, <1>7

\* A file's line k + 1, as the reader finds it.
LEMMA LineRead ==
  ASSUME given \in Inputs, NEW k \in 0 .. (Len(given.lines) - 1),
         left = Rest(given.lines, k), left # <<>>
  PROVE  LET line == given.lines[k + 1]
             rest == Rest(given.lines, k + 1)
         IN  IF Len(line.text) > MAX_ENV_FILE_LINE_LEN
             THEN /\ TooLong
                  /\ LET over == After(left, Len(Chunk))
                     IN  After(over, Len(Before(over, {LF})) + 1) = rest
             ELSE /\ ~TooLong
                  /\ Before(Chunk, {CR, LF}) = line.text
                  /\ \/ After(left, Len(Chunk)) = rest
                     \/ line.end = <<CR, LF>> /\ After(left, Len(Chunk)) = <<LF>> \o rest
<1> DEFINE lines == given.lines
           text == lines[k + 1].text
           e == lines[k + 1].end
           rest == Rest(lines, k + 1)
<1>1. /\ lines \in Seq(Lines) /\ Len(lines) \in Nat
      /\ k + 1 \in 1 .. Len(lines) /\ k + 1 \in 0 .. Len(lines)
  <2>1. lines \in Seq(Lines)
    BY DotenvAssumption
  <2>2. Len(lines) \in Nat
    BY <2>1, LenProperties
  <2> QED
    BY <2>1, <2>2
<1>2. /\ lines[k + 1] \in Lines /\ NoEnd(text)
      /\ e = <<>> => k + 1 = Len(lines)
  <2>1. lines[k + 1] \in Lines
    BY <1>1, ElementOfSeq
  <2>2. \A j \in 1 .. Len(text) : text[j] \notin {LF, CR}
    BY <1>1, DotenvAssumption
  <2>3. e = <<>> => k + 1 = Len(lines)
    BY <1>1, DotenvAssumption
  <2> QED
    BY <2>1, <2>2, <2>3 DEF NoEnd
<1>3. text \in Seq(Char) /\ e \in {<<>>, <<LF>>, <<CR, LF>>}
  <2>1. text \in Seq(STRING) /\ e \in {<<>>, <<LF>>, <<CR, LF>>}
    BY <1>2 DEF Lines
  <2>2. STRING \subseteq Char
    BY DEF Char
  <2> QED
    BY <2>1, <2>2, SeqMonotonic
<1>4. rest \in Seq(Char) /\ (e = <<>> => rest = <<>>)
  <2>1. rest \in Seq(Char)
    BY <1>1, RestType
  <2>2. ASSUME e = <<>>
        PROVE  rest = <<>>
    <3>1. k + 1 = Len(lines)
      BY <1>2, <2>2
    <3> QED
      BY <1>1, <3>1, RestEnds
  <2> QED
    BY <2>1, <2>2
<1>5. left = (text \o e) \o rest
  BY <1>1, RestNext
<1> HIDE DEF lines, text, e, rest
<1>6. Len(text) \in Nat
  BY <1>3, LenProperties
<1>7. ASSUME Len(text) > MAX_ENV_FILE_LINE_LEN
      PROVE  /\ TooLong
             /\ LET over == After(left, Len(Chunk))
                IN  After(over, Len(Before(over, {LF})) + 1) = rest
  <2>1. IsEnd(e, rest)
    BY <1>3, <1>4 DEF IsEnd
  <2> QED
    BY <1>2, <1>3, <1>4, <1>5, <1>7, <2>1, ChunkTooLong
<1>8. ASSUME ~(Len(text) > MAX_ENV_FILE_LINE_LEN)
      PROVE  /\ ~TooLong
             /\ Before(Chunk, {CR, LF}) = text
             /\ \/ After(left, Len(Chunk)) = rest
                \/ e = <<CR, LF>> /\ After(left, Len(Chunk)) = <<LF>> \o rest
  <2>1. Len(text) <= MAX_ENV_FILE_LINE_LEN
    BY <1>6, <1>8, DotenvAssumption
  <2>2. CASE e = <<>>
    <3>1. text \o e = text /\ text \o rest = text
      BY <1>3, <1>4, <2>2, ConcatEmptySeq
    <3>2. left = text
      BY <1>4, <1>5, <2>2, <3>1
    <3> QED
      BY <1>2, <1>3, <1>4, <2>1, <2>2, <3>2, ChunkWithout
  <2>3. CASE e = <<LF>>
    <3>1. Len(text) + Len(e) <= MAX_ENV_FILE_LINE_LEN + 1
      BY <1>6, <2>1, <2>3, DotenvAssumption
    <3> QED
      BY <1>2, <1>3, <1>4, <1>5, <2>3, <3>1, ChunkWithEnd
  <2>4. CASE e = <<CR, LF>> /\ Len(text) < MAX_ENV_FILE_LINE_LEN
    <3>1. Len(text) + Len(e) <= MAX_ENV_FILE_LINE_LEN + 1
      BY <1>6, <2>4, DotenvAssumption
    <3> QED
      BY <1>2, <1>3, <1>4, <1>5, <2>4, <3>1, ChunkWithEnd
  <2>5. CASE e = <<CR, LF>> /\ Len(text) = MAX_ENV_FILE_LINE_LEN
    BY <1>2, <1>3, <1>4, <1>5, <2>5, ChunkWithCR
  <2> QED
    BY <1>3, <1>6, <2>1, <2>2, <2>3, <2>4, <2>5, DotenvAssumption
<1> QED
  BY <1>7, <1>8 DEF lines, text, e, rest

------------------------------------------------------------------------------
(* What the lines have done to the environment.                             *)

LEMMA EnvAfterIs ==
  ASSUME NEW k
  PROVE  /\ EnvAfter(k) = [n \in DOMAIN EnvAfter(k) |-> EnvAfter(k)[n]]
         /\ \A n : n \in DOMAIN EnvAfter(k) <=>
              n \in DOMAIN given.env \/ (n \notin Unsettable /\ Givers(n, k) # {})
         /\ \A n \in DOMAIN EnvAfter(k) :
              EnvAfter(k)[n] =
                IF n \in DOMAIN given.env /\ (n \in Unsettable \/ Givers(n, k) = {} \/ ~given.overwrite)
                THEN given.env[n]
                ELSE given.lines[IF given.overwrite THEN Max(Givers(n, k)) ELSE Min(Givers(n, k))].says.value
<1> DEFINE mine(n) == IF n \in Unsettable THEN {} ELSE Givers(n, k)
           written == {given.lines[i].says.name : i \in {j \in 1 .. k : given.lines[j].says.kind = "set"}}
           D == DOMAIN given.env \cup {n \in written : mine(n) # {}}
           Value(n) ==
             IF n \in DOMAIN given.env /\ (mine(n) = {} \/ ~given.overwrite)
             THEN given.env[n]
             ELSE given.lines[IF given.overwrite THEN Max(mine(n)) ELSE Min(mine(n))].says.value
<1>1. EnvAfter(k) = [n \in D |-> Value(n)]
  BY Zenon DEF EnvAfter
<1>2. ASSUME NEW n, mine(n) # {}
      PROVE  n \in written /\ n \notin Unsettable /\ mine(n) = Givers(n, k)
  <2>1. n \notin Unsettable /\ mine(n) = Givers(n, k)
    BY <1>2
  <2>2. PICK i \in 1 .. k : LET m == Meaning(given.lines[i]) IN m.kind = "set" /\ m.name = n
    BY <1>2, <2>1 DEF Givers
  <2>3. Bad.kind # "set"
    BY DEF Bad
  <2>4. Meaning(given.lines[i]) = given.lines[i].says
    BY <2>2, <2>3 DEF Meaning
  <2> QED
    BY <2>1, <2>2, <2>4
<1>3. \A n : n \in D <=> n \in DOMAIN given.env \/ (n \notin Unsettable /\ Givers(n, k) # {})
  <2> SUFFICES ASSUME NEW n
               PROVE  n \in D <=> n \in DOMAIN given.env \/ (n \notin Unsettable /\ Givers(n, k) # {})
    OBVIOUS
  <2>1. n \in D <=> n \in DOMAIN given.env \/ (n \in written /\ mine(n) # {})
    BY Zenon
  <2>2. mine(n) # {} <=> n \notin Unsettable /\ Givers(n, k) # {}
    BY Zenon
  <2> HIDE DEF D, mine, written
  <2> QED
    BY <1>2, <2>1, <2>2
<1>4. ASSUME NEW n \in D
      PROVE  Value(n) =
               IF n \in DOMAIN given.env /\ (n \in Unsettable \/ Givers(n, k) = {} \/ ~given.overwrite)
               THEN given.env[n]
               ELSE given.lines[IF given.overwrite THEN Max(Givers(n, k)) ELSE Min(Givers(n, k))].says.value
  <2>1. CASE n \in Unsettable
    <3>1. n \in DOMAIN given.env /\ mine(n) = {}
      BY <1>3, <2>1
    <3> QED
      BY <2>1, <3>1
  <2>2. CASE n \notin Unsettable
    <3>1. mine(n) = Givers(n, k)
      BY <2>2
    <3> QED
      BY <2>2, <3>1
  <2> QED
    BY <2>1, <2>2
<1> HIDE DEF D, Value
<1>5. DOMAIN EnvAfter(k) = D /\ \A n \in D : EnvAfter(k)[n] = Value(n)
  BY <1>1
<1> QED
  BY <1>1, <1>3, <1>4, <1>5

\* The next line is among the givers of what it sets, and of nothing else.
LEMMA GiversNext ==
  ASSUME NEW k \in Nat, NEW n
  PROVE  Givers(n, k + 1) =
           IF Meaning(given.lines[k + 1]).kind = "set" /\ Meaning(given.lines[k + 1]).name = n
           THEN Givers(n, k) \cup {k + 1}
           ELSE Givers(n, k)
<1>1. 1 .. (k + 1) = 1 .. k \cup {k + 1}
  OBVIOUS
<1> QED
  BY <1>1, Zenon DEF Givers

LEMMA GiversBound ==
  ASSUME NEW k \in Nat, NEW n
  PROVE  Givers(n, k) \in SUBSET Nat /\ \A i \in Givers(n, k) : i <= k
BY DEF Givers

\* Before the first line the environment is as it was given.
LEMMA EnvAfterNone ==
  ASSUME given \in Inputs
  PROVE  EnvAfter(0) = given.env
<1>1. \A n : Givers(n, 0) = {}
  BY DEF Givers
<1>2. DOMAIN EnvAfter(0) = DOMAIN given.env
  <2>1. \A n : n \in DOMAIN EnvAfter(0) <=>
                n \in DOMAIN given.env \/ (n \notin Unsettable /\ Givers(n, 0) # {})
    BY EnvAfterIs
  <2>2. \A n : n \in DOMAIN EnvAfter(0) <=> n \in DOMAIN given.env
    BY <1>1, <2>1, Zenon
  <2> QED
    BY <2>2
<1>3. \A n \in DOMAIN EnvAfter(0) : EnvAfter(0)[n] = given.env[n]
  BY <1>1, <1>2, EnvAfterIs
<1>4. given.env = [n \in DOMAIN given.env |-> given.env[n]]
  BY DotenvAssumption
<1>5. EnvAfter(0) = [n \in DOMAIN EnvAfter(0) |-> EnvAfter(0)[n]]
  BY EnvAfterIs
<1> QED
  BY <1>2, <1>3, <1>4, <1>5

\* A line that sets nothing leaves it alone.
LEMMA EnvAfterOther ==
  ASSUME NEW k \in Nat, Meaning(given.lines[k + 1]).kind # "set"
  PROVE  EnvAfter(k + 1) = EnvAfter(k)
<1>1. \A n : Givers(n, k + 1) = Givers(n, k)
  BY GiversNext
<1>2. DOMAIN EnvAfter(k + 1) = DOMAIN EnvAfter(k)
  BY <1>1, EnvAfterIs
<1>3. \A n \in DOMAIN EnvAfter(k) : EnvAfter(k + 1)[n] = EnvAfter(k)[n]
  BY <1>1, <1>2, EnvAfterIs
<1>4. /\ EnvAfter(k) = [n \in DOMAIN EnvAfter(k) |-> EnvAfter(k)[n]]
      /\ EnvAfter(k + 1) = [n \in DOMAIN EnvAfter(k + 1) |-> EnvAfter(k + 1)[n]]
  BY EnvAfterIs
<1> QED
  BY <1>2, <1>3, <1>4

\* A line that sets a name does what setenv does.
LEMMA EnvAfterSet ==
  ASSUME NEW k \in Nat, Meaning(given.lines[k + 1]).kind = "set", given.overwrite \in BOOLEAN
  PROVE  LET m == Meaning(given.lines[k + 1])
             e == EnvAfter(k)
         IN  EnvAfter(k + 1) =
               IF (m.name \in DOMAIN e /\ ~given.overwrite) \/ m.name \in Unsettable
               THEN e
               ELSE [n \in DOMAIN e \cup {m.name} |-> IF n = m.name THEN m.value ELSE e[n]]
<1> DEFINE m == Meaning(given.lines[k + 1])
           x == m.name
           e == EnvAfter(k)
           f == EnvAfter(k + 1)
           Kept == (x \in DOMAIN e /\ ~given.overwrite) \/ x \in Unsettable
<1>1. m = given.lines[k + 1].says
  <2>1. Bad.kind # "set"
    BY DEF Bad
  <2> QED
    BY <2>1 DEF Meaning
<1>2. /\ \A n : n # x => Givers(n, k + 1) = Givers(n, k)
      /\ Givers(x, k + 1) = Givers(x, k) \cup {k + 1}
  BY GiversNext
<1>3. /\ e = [n \in DOMAIN e |-> e[n]] /\ f = [n \in DOMAIN f |-> f[n]]
      /\ \A n : n \in DOMAIN e <=> n \in DOMAIN given.env \/ (n \notin Unsettable /\ Givers(n, k) # {})
      /\ \A n : n \in DOMAIN f <=> n \in DOMAIN given.env \/ (n \notin Unsettable /\ Givers(n, k + 1) # {})
  BY EnvAfterIs
<1>4. /\ \A n \in DOMAIN e : e[n] =
           IF n \in DOMAIN given.env /\ (n \in Unsettable \/ Givers(n, k) = {} \/ ~given.overwrite)
           THEN given.env[n]
           ELSE given.lines[IF given.overwrite THEN Max(Givers(n, k)) ELSE Min(Givers(n, k))].says.value
      /\ \A n \in DOMAIN f : f[n] =
           IF n \in DOMAIN given.env /\ (n \in Unsettable \/ Givers(n, k + 1) = {} \/ ~given.overwrite)
           THEN given.env[n]
           ELSE given.lines[IF given.overwrite THEN Max(Givers(n, k + 1)) ELSE Min(Givers(n, k + 1))].says.value
  BY EnvAfterIs
<1> HIDE DEF m, x, e, f
<1>5. \A n : n # x => (n \in DOMAIN f <=> n \in DOMAIN e)
  BY <1>2, <1>3
<1>6. \A n \in DOMAIN e : n # x => f[n] = e[n]
  BY <1>2, <1>4, <1>5
<1>7. CASE x \in Unsettable
  <2>1. DOMAIN f = DOMAIN e
    BY <1>3, <1>5, <1>7
  <2>2. x \in DOMAIN e => f[x] = e[x]
    BY <1>3, <1>4, <1>7, <2>1
  <2>3. f = e
    BY <1>3, <1>6, <2>1, <2>2
  <2> QED
    BY <1>7, <2>3 DEF m, x, e, f
<1>8. CASE x \notin Unsettable /\ x \in DOMAIN e /\ ~given.overwrite
  <2>1. DOMAIN f = DOMAIN e
    BY <1>2, <1>3, <1>5, <1>8
  <2>2. f[x] = e[x]
    <3>1. CASE x \in DOMAIN given.env
      BY <1>4, <1>8, <2>1, <3>1
    <3>2. CASE x \notin DOMAIN given.env
      <4>1. Givers(x, k) # {}
        BY <1>3, <1>8, <3>2
      <4>2. Givers(x, k) \in SUBSET Nat /\ \A i \in Givers(x, k) : i <= k
        BY GiversBound
      <4>3. Min(Givers(x, k)) \in Givers(x, k) /\ \A i \in Givers(x, k) : Min(Givers(x, k)) <= i
        BY <4>1, <4>2, MinIs
      <4>4. Min(Givers(x, k + 1)) = Min(Givers(x, k))
        <5>1. Givers(x, k + 1) \in SUBSET Nat /\ Min(Givers(x, k)) \in Givers(x, k + 1)
          BY <1>2, <4>2, <4>3
        <5>2. \A i \in Givers(x, k + 1) : Min(Givers(x, k)) <= i
          BY <1>2, <4>2, <4>3
        <5> QED
          BY <5>1, <5>2, MinEquals
      <4> QED
        BY <1>4, <1>8, <2>1, <3>2, <4>4
    <3> QED
      BY <3>1, <3>2
  <2>3. f = e
    BY <1>3, <1>6, <2>1, <2>2
  <2> QED
    BY <1>8, <2>3 DEF m, x, e, f
<1>9. CASE x \notin Unsettable /\ ~(x \in DOMAIN e /\ ~given.overwrite)
  <2>1. DOMAIN f = DOMAIN e \cup {x}
    <3>1. x \in DOMAIN f
      BY <1>2, <1>3, <1>9
    <3> QED
      BY <1>5, <3>1
  <2>2. Givers(x, k) \in SUBSET Nat /\ \A i \in Givers(x, k) : i <= k
    BY GiversBound
  <2>3. f[x] = m.value
    <3>1. x \in DOMAIN f /\ Givers(x, k + 1) # {}
      BY <1>2, <2>1
    <3>2. CASE given.overwrite
      <4>1. Max(Givers(x, k + 1)) = k + 1
        <5>1. Givers(x, k + 1) \in SUBSET Nat /\ k + 1 \in Givers(x, k + 1)
          BY <1>2, <2>2
        <5>2. \A i \in Givers(x, k + 1) : k + 1 >= i
          BY <1>2, <2>2
        <5> QED
          BY <5>1, <5>2, MaxEquals
      <4> QED
        BY <1>1, <1>4, <1>9, <3>1, <3>2, <4>1
    <3>3. CASE ~given.overwrite
      <4>1. x \notin DOMAIN given.env /\ Givers(x, k) = {}
        BY <1>3, <1>9, <3>3
      <4>2. Min(Givers(x, k + 1)) = k + 1
        <5>1. Givers(x, k + 1) = {k + 1}
          BY <1>2, <4>1
        <5> QED
          BY <5>1, MinEquals
      <4> QED
        BY <1>1, <1>4, <1>9, <3>1, <3>3, <4>1, <4>2
    <3> QED
      BY <3>2, <3>3
  <2>4. f = [n \in DOMAIN e \cup {x} |-> IF n = x THEN m.value ELSE e[n]]
    BY <1>3, <1>6, <2>1, <2>3
  <2> QED
    BY <1>9, <2>4 DEF m, x, e, f
<1> QED
  BY <1>7, <1>8, <1>9

------------------------------------------------------------------------------
(* The invariant: the reader stands before line k + 1, and the environment  *)
(* and the result are those of the first k lines.                           *)

Fails(i) ==
  LET m == Meaning(given.lines[i])
  IN  \/ m = Bad
      \/ /\ m.kind = "set" /\ m.name \in Unsettable
         /\ given.overwrite \/ m.name \notin DOMAIN given.env

At(k) ==
  /\ LET rest == Rest(given.lines, k)
     IN  left = rest \/ (k > 0 /\ given.lines[k].end = <<CR, LF>> /\ left = <<LF>> \o rest)
  /\ env = EnvAfter(k)
  /\ ret \in {0, -1}
  /\ ret = -1 <=> \E i \in 1 .. k : Fails(i)

IInv ==
  /\ given \in Inputs
  /\ pc \in {"open", "reading", "returned", "failed"}
  /\ pc = "open" => left = Text(given.lines) /\ env = given.env /\ ret = 0
  /\ pc # "open" /\ given.exists => \E k \in 0 .. Len(given.lines) : At(k)
  /\ pc # "open" /\ ~given.exists => pc = "returned" /\ ret = -1
  /\ pc = "returned" /\ given.exists => left = <<>>

LEMMA SameGiven ==
  ASSUME given' = given, NEW k
  PROVE  EnvAfter(k)' = EnvAfter(k) /\ (Fails(k)' <=> Fails(k))
<1>1. \A i : Meaning(given'.lines[i]) = Meaning(given.lines[i])
  OBVIOUS
<1>2. \A n : Givers(n, k)' = Givers(n, k)
  BY <1>1 DEF Givers
<1>3. EnvAfter(k)' = EnvAfter(k)
  BY <1>2 DEF EnvAfter
<1>4. Fails(k)' <=> Fails(k)
  BY <1>1 DEF Fails
<1> QED
  BY <1>3, <1>4

\* A line says what the parser makes of it, or is over the limit.
LEMMA MeaningIs ==
  ASSUME MeantAsParsed, given \in Inputs, NEW i \in 1 .. Len(given.lines)
  PROVE  Meaning(given.lines[i]) =
           IF Len(given.lines[i].text) > MAX_ENV_FILE_LINE_LEN THEN Bad
           ELSE Parse(given.lines[i].text)
<1>1. /\ given.lines \in Seq(Lines)
      /\ Len(given.lines[i].text) \in Nat
  <2>1. given.lines \in Seq(Lines)
    BY DotenvAssumption
  <2>2. given.lines[i] \in Lines
    BY <2>1, ElementOfSeq
  <2>3. given.lines[i].text \in Seq(STRING)
    BY <2>2 DEF Lines
  <2> QED
    BY <2>1, <2>3, LenProperties
<1>2. ASSUME ~(Len(given.lines[i].text) > MAX_ENV_FILE_LINE_LEN)
      PROVE  given.lines[i].says = Parse(given.lines[i].text)
  <2>1. Len(given.lines[i].text) <= MAX_ENV_FILE_LINE_LEN
    BY <1>1, <1>2, DotenvAssumption
  <2> QED
    BY <2>1 DEF MeantAsParsed
<1> QED
  BY <1>2 DEF Meaning

LEMMA ParseEmpty == Parse(<<>>) = Nothing
<1>1. TrimSpaces(<<>>) = <<>>
  BY DEF TrimSpaces
<1> QED
  BY <1>1 DEF Parse

LEMMA InitIInv == Init => IInv
BY DEF Init, IInv

LEMMA GivenLines ==
  ASSUME given \in Inputs
  PROVE  /\ given.lines \in Seq(Lines)
         /\ Len(given.lines) \in Nat
         /\ DOMAIN given.lines = 1 .. Len(given.lines)
         /\ given.exists \in BOOLEAN /\ given.overwrite \in BOOLEAN
<1>1. given.lines \in Seq(Lines)
  BY DotenvAssumption
<1> QED
  BY <1>1, LenProperties, DotenvAssumption

LEMMA OpenIInv == IInv /\ Open => IInv'
<1> SUFFICES ASSUME IInv, Open
             PROVE  IInv'
  OBVIOUS
<1>1. given \in Inputs /\ given' = given /\ left' = left /\ env' = env
      /\ left = Text(given.lines) /\ env = given.env
  BY DEF IInv, Open
<1>2. CASE given.exists
  <2>1. pc' = "reading" /\ ret' = 0
    BY <1>2 DEF Open
  <2>2. 0 \in 0 .. Len(given.lines)
    BY <1>1, GivenLines
  <2>3. left' = Rest(given'.lines, 0)
    BY <1>1, GivenLines, RestEnds
  <2>4. env' = EnvAfter(0)'
    BY <1>1, EnvAfterNone, SameGiven
  <2>5. At(0)'
    BY <2>1, <2>3, <2>4 DEF At
  <2> QED
    BY <1>1, <1>2, <2>1, <2>2, <2>5 DEF IInv
<1>3. CASE ~given.exists
  BY <1>1, <1>3 DEF IInv, Open
<1> QED
  BY <1>2, <1>3

\* One more line is done.
LEMMA AtNext ==
  ASSUME given \in Inputs, given' = given, NEW k \in 0 .. (Len(given.lines) - 1), At(k),
         LET rest == Rest(given.lines, k + 1)
         IN  left' = rest \/ (given.lines[k + 1].end = <<CR, LF>> /\ left' = <<LF>> \o rest),
         env' = EnvAfter(k + 1),
         ret' = IF Fails(k + 1) THEN -1 ELSE ret
  PROVE  k + 1 \in 0 .. Len(given'.lines) /\ At(k + 1)'
<1>1. k \in Nat /\ k + 1 \in 0 .. Len(given'.lines) /\ k + 1 > 0
  BY GivenLines
<1>2. env' = EnvAfter(k + 1)' /\ \A i : Fails(i)' <=> Fails(i)
  BY SameGiven
<1>3. 1 .. (k + 1) = 1 .. k \cup {k + 1}
  BY <1>1
<1>4. ret \in {0, -1} /\ (ret = -1 <=> \E i \in 1 .. k : Fails(i))
  BY DEF At
<1>5. ret' \in {0, -1} /\ (ret' = -1 <=> \E i \in 1 .. (k + 1) : Fails(i)')
  <2>1. CASE Fails(k + 1)
    BY <1>2, <1>3, <2>1
  <2>2. CASE ~Fails(k + 1)
    BY <1>2, <1>3, <1>4, <2>2
  <2> QED
    BY <2>1, <2>2
<1> QED
  BY <1>1, <1>2, <1>5 DEF At

\* In the middle of a CRLF, or before a line.
LEMMA AtCases ==
  ASSUME given \in Inputs, NEW k \in 0 .. Len(given.lines), At(k), left # <<>>
  PROVE  \/ /\ left = <<LF>> \o Rest(given.lines, k)
            /\ Rest(given.lines, k) \in Seq(Char)
         \/ /\ left = Rest(given.lines, k)
            /\ k \in 0 .. (Len(given.lines) - 1) /\ k + 1 \in 1 .. Len(given.lines)
<1>1. CASE left = Rest(given.lines, k)
  <2>1. k # Len(given.lines)
    BY <1>1, GivenLines, RestEnds
  <2> QED
    BY <1>1, <2>1, GivenLines
<1>2. CASE left # Rest(given.lines, k)
  BY <1>2, GivenLines, RestType DEF At
<1> QED
  BY <1>1, <1>2

LEMMA TrashLineIInv == MeantAsParsed /\ IInv /\ TrashLine => IInv'
<1> SUFFICES ASSUME MeantAsParsed, IInv, TrashLine
             PROVE  IInv'
  OBVIOUS
<1>1. given \in Inputs /\ given.exists /\ pc = "reading" /\ left # <<>> /\ TooLong
      /\ given' = given /\ pc' = pc /\ env' = env /\ ret' = -1
  BY DEF IInv, TrashLine
<1>2. PICK k \in 0 .. Len(given.lines) : At(k)
  BY <1>1 DEF IInv
<1>3. /\ left = Rest(given.lines, k)
      /\ k \in 0 .. (Len(given.lines) - 1) /\ k + 1 \in 1 .. Len(given.lines)
  BY <1>1, <1>2, AtCases, ChunkOfLF
<1>4. /\ Len(given.lines[k + 1].text) > MAX_ENV_FILE_LINE_LEN
      /\ left' = Rest(given.lines, k + 1)
  BY <1>1, <1>3, LineRead DEF TrashLine
<1>5. Meaning(given.lines[k + 1]) = Bad
  BY <1>4 DEF Meaning
<1>6. Fails(k + 1)
  BY <1>5 DEF Fails
<1>7. env' = EnvAfter(k + 1)
  <2>1. Meaning(given.lines[k + 1]).kind # "set"
    BY <1>5 DEF Bad
  <2> QED
    BY <1>1, <1>2, <2>1, EnvAfterOther DEF At
<1>8. k + 1 \in 0 .. Len(given'.lines) /\ At(k + 1)'
  BY <1>1, <1>2, <1>3, <1>4, <1>6, <1>7, AtNext
<1> QED
  BY <1>1, <1>8 DEF IInv

LEMMA ReadLineIInv == MeantAsParsed /\ IInv /\ ReadLine => IInv'
<1> SUFFICES ASSUME MeantAsParsed, IInv, ReadLine
             PROVE  IInv'
  OBVIOUS
<1> DEFINE p == Parse(Before(Chunk, {CR, LF}))
<1>1. /\ given \in Inputs /\ given.exists /\ pc = "reading" /\ left # <<>> /\ ~TooLong
      /\ given' = given /\ pc' = pc /\ left' = After(left, Len(Chunk))
      /\ \/ p.kind = "nothing" /\ UNCHANGED <<env, ret>>
         \/ p.kind = "bad" /\ ret' = -1 /\ UNCHANGED env
         \/ p.kind = "set" /\ SetEnv(p.name, p.value)
  BY DEF IInv, ReadLine
<1>2. PICK k \in 0 .. Len(given.lines) : At(k)
  BY <1>1 DEF IInv
<1>3. CASE left = <<LF>> \o Rest(given.lines, k) /\ Rest(given.lines, k) \in Seq(Char)
  <2>1. Before(Chunk, {CR, LF}) = <<>> /\ left' = Rest(given.lines, k)
    BY <1>1, <1>3, ChunkOfLF
  <2>2. p.kind = "nothing"
    BY <2>1, ParseEmpty DEF Nothing
  <2>3. env' = env /\ ret' = ret
    BY <1>1, <2>2
  <2>4. env' = EnvAfter(k)' /\ \A i : Fails(i)' <=> Fails(i)
    BY <1>1, <1>2, <2>3, SameGiven DEF At
  <2>5. At(k)'
    BY <1>1, <1>2, <2>1, <2>3, <2>4 DEF At
  <2> QED
    BY <1>1, <1>2, <2>5 DEF IInv
<1>4. CASE /\ left = Rest(given.lines, k)
           /\ k \in 0 .. (Len(given.lines) - 1) /\ k + 1 \in 1 .. Len(given.lines)
  <2> DEFINE line == given.lines[k + 1]
             m == Meaning(line)
  <2>1. /\ ~(Len(line.text) > MAX_ENV_FILE_LINE_LEN)
        /\ Before(Chunk, {CR, LF}) = line.text
        /\ LET rest == Rest(given.lines, k + 1)
           IN  left' = rest \/ (line.end = <<CR, LF>> /\ left' = <<LF>> \o rest)
    BY <1>1, <1>4, LineRead
  <2>2. p = m
    BY <1>1, <1>4, <2>1, MeaningIs
  <2>3. env = EnvAfter(k) /\ k \in Nat /\ ret \in {0, -1}
    BY <1>2, <1>4 DEF At
  <2>4. env' = EnvAfter(k + 1) /\ ret' = IF Fails(k + 1) THEN -1 ELSE ret
    <3> HIDE DEF p
    <3>1. CASE p.kind = "nothing"
      <4>1. m.kind # "set" /\ m # Bad
        BY <2>2, <3>1 DEF Bad
      <4>2. ~Fails(k + 1)
        BY <4>1 DEF Fails
      <4>3. UNCHANGED <<env, ret>>
        BY <1>1, <3>1
      <4> QED
        BY <2>3, <4>1, <4>2, <4>3, EnvAfterOther
    <3>2. CASE p.kind = "bad"
      <4>1. m.kind = "bad"
        BY <2>2, <3>2
      <4>2. m = Bad
        <5>1. m \in {Nothing, Bad} \cup [kind : {"set"}, name : Seq(STRING), value : Seq(STRING)]
          <6>1. line \in Lines
            BY <1>1, <1>4, GivenLines, ElementOfSeq
          <6>2. line.says \in {Nothing, Bad} \cup [kind : {"set"}, name : Seq(STRING), value : Seq(STRING)]
            BY <6>1 DEF Lines
          <6> QED
            BY <6>2 DEF Meaning
        <5> QED
          BY <4>1, <5>1 DEF Nothing
      <4>3. Fails(k + 1)
        BY <4>2 DEF Fails
      <4>4. env' = env /\ ret' = -1
        BY <1>1, <3>2
      <4> QED
        BY <2>3, <4>1, <4>3, <4>4, EnvAfterOther
    <3>3. CASE p.kind = "set"
      <4> DEFINE x == m.name
                 Kept == (x \in DOMAIN EnvAfter(k) /\ ~given.overwrite) \/ x \in Unsettable
      <4>1. m.kind = "set" /\ SetEnv(x, m.value)
        BY <1>1, <2>2, <3>3
      <4>2. EnvAfter(k + 1) =
              IF Kept THEN EnvAfter(k)
              ELSE [n \in DOMAIN EnvAfter(k) \cup {x} |-> IF n = x THEN m.value ELSE EnvAfter(k)[n]]
        <5>1. given.overwrite \in BOOLEAN
          BY <1>1, GivenLines
        <5> QED
          BY <2>3, <4>1, <5>1, EnvAfterSet
      <4>3. Fails(k + 1) <=> x \in Unsettable /\ (given.overwrite \/ x \notin DOMAIN given.env)
        <5>1. m # Bad
          BY <4>1 DEF Bad
        <5> QED
          BY <4>1, <5>1 DEF Fails
      <4>4. x \in Unsettable => (x \in DOMAIN EnvAfter(k) <=> x \in DOMAIN given.env)
        BY EnvAfterIs
      <4> HIDE DEF x, m
      <4>5. CASE x \in DOMAIN env /\ ~given.overwrite
        <5>1. env' = env /\ ret' = ret
          BY <4>1, <4>5 DEF SetEnv
        <5>2. Kept /\ ~Fails(k + 1)
          BY <2>3, <4>3, <4>4, <4>5
        <5> QED
          BY <2>3, <4>2, <5>1, <5>2
      <4>6. CASE ~(x \in DOMAIN env /\ ~given.overwrite) /\ x \in Unsettable
        <5>1. env' = env /\ ret' = -1
          BY <4>1, <4>6 DEF SetEnv
        <5>2. Kept /\ Fails(k + 1)
          BY <2>3, <4>3, <4>4, <4>6
        <5> QED
          BY <2>3, <4>2, <5>1, <5>2
      <4>7. CASE ~(x \in DOMAIN env /\ ~given.overwrite) /\ x \notin Unsettable
        <5>1. /\ env' = [n \in DOMAIN env \cup {x} |-> IF n = x THEN m.value ELSE env[n]]
              /\ ret' = ret
          BY <4>1, <4>7 DEF SetEnv
        <5>2. ~Kept /\ ~Fails(k + 1)
          BY <2>3, <4>3, <4>7
        <5> QED
          BY <2>3, <4>2, <5>1, <5>2
      <4> QED
        BY <4>5, <4>6, <4>7
    <3> QED
      BY <1>1, <3>1, <3>2, <3>3
  <2>5. k + 1 \in 0 .. Len(given'.lines) /\ At(k + 1)'
    BY <1>1, <1>2, <1>4, <2>1, <2>4, AtNext
  <2> QED
    BY <1>1, <2>5 DEF IInv
<1> QED
  BY <1>1, <1>2, <1>3, <1>4, AtCases

LEMMA SameIInv ==
  ASSUME IInv, given' = given, left' = left, env' = env, ret' = ret,
         \/ pc' = pc
         \/ pc = "reading" /\ pc' = "returned" /\ left = <<>>
         \/ pc = "reading" /\ pc' = "failed"
  PROVE  IInv'
<1>1. \A k : EnvAfter(k)' = EnvAfter(k) /\ (Fails(k)' <=> Fails(k))
  BY SameGiven
<1>2. \A k : At(k) => At(k)'
  BY <1>1 DEF At
<1> QED
  BY <1>2 DEF IInv

LEMMA NextIInv == MeantAsParsed /\ IInv /\ [Next]_vars => IInv'
<1> SUFFICES ASSUME MeantAsParsed, IInv, [Next]_vars
             PROVE  IInv'
  OBVIOUS
<1>1. CASE Open
  BY <1>1, OpenIInv
<1>2. CASE TrashLine
  BY <1>2, TrashLineIInv
<1>3. CASE ReadLine
  BY <1>3, ReadLineIInv
<1>4. CASE Return
  BY <1>4, SameIInv DEF Return
<1>5. CASE ReadFails
  BY <1>5, SameIInv DEF ReadFails
<1>6. CASE UNCHANGED vars
  BY <1>6, SameIInv DEF vars
<1> QED
  BY <1>1, <1>2, <1>3, <1>4, <1>5, <1>6 DEF Next

LEMMA Invariance ==
  ASSUME MeantAsParsed
  PROVE  Spec => []IInv
BY InitIInv, NextIInv, PTL DEF Spec

\* For every file of lines, every limit and every environment: if the parser
\* understands each line as it is meant, then the reader stands between two
\* lines, and those before have had their effect one by one, in their order, the
\* ones over the limit none; also when a read fails and ends the loading there.
THEOREM LineByLineTheorem ==
  ASSUME MeantAsParsed
  PROVE  Spec => []LineByLine
<1>1. IInv => LineByLine
  BY DEF IInv, At, LineByLine, Rest
<1> QED
  BY <1>1, Invariance, PTL

\* Under the same premise the result for a file that is missing or is read to its
\* end is -1 if and only if it is missing or one of its lines fails, wherever it
\* is.  When a read fails there is no such theorem: the result may be 0.
THEOREM ReportedTheorem ==
  ASSUME MeantAsParsed
  PROVE  Spec => []FailureReported
<1>1. IInv => FailureReported
  <2> SUFFICES ASSUME IInv, pc = "returned"
               PROVE  ret = -1 <=> ~given.exists \/ \E i \in DOMAIN given.lines : Fails(i)
    BY DEF FailureReported, Fails
  <2>1. CASE ~given.exists
    BY <2>1 DEF IInv
  <2>2. CASE given.exists
    <3> DEFINE n == Len(given.lines)
    <3>1. given \in Inputs /\ left = <<>>
      BY <2>2 DEF IInv
    <3>2. /\ given.lines \in Seq(Lines)
          /\ n \in Nat
          /\ DOMAIN given.lines = 1 .. n
      BY <3>1, GivenLines
    <3>3. PICK k \in 0 .. n : At(k)
      BY <2>2 DEF IInv
    <3>4. Rest(given.lines, k) = <<>>
      <4>1. Rest(given.lines, k) \in Seq(Char)
        BY <3>2, RestType
      <4>2. <<LF>> \o Rest(given.lines, k) # <<>>
        BY <4>1, Ends, ConcatEqualIffEmpty
      <4> QED
        BY <3>1, <3>3, <4>2 DEF At
    <3>5. ASSUME k # n
          PROVE  k + 1 = n /\ ~Fails(n)
      <4> DEFINE text == given.lines[k + 1].text
                 e == given.lines[k + 1].end
      <4>1. k \in 0 .. (n - 1) /\ k + 1 \in 1 .. n /\ k + 1 \in 0 .. n
        BY <3>2, <3>5
      <4>2. <<>> = (text \o e) \o Rest(given.lines, k + 1)
        BY <3>2, <3>4, <4>1, RestNext
      <4>3. text \in Seq(Char) /\ e \in Seq(Char) /\ Rest(given.lines, k + 1) \in Seq(Char)
        <5>1. text \in Seq(STRING) /\ e \in {<<>>, <<LF>>, <<CR, LF>>}
          <6>1. given.lines[k + 1] \in Lines
            BY <3>2, <4>1, ElementOfSeq
          <6> QED
            BY <6>1 DEF Lines
        <5>2. STRING \subseteq Char
          BY DEF Char
        <5>3. Rest(given.lines, k + 1) \in Seq(Char)
          BY <3>2, <4>1, RestType
        <5> QED
          BY <5>1, <5>2, <5>3, Ends, SeqMonotonic
      <4>4. text = <<>> /\ e = <<>>
        <5> HIDE DEF text, e
        <5>1. text \o e \in Seq(Char)
          BY <4>3
        <5> DEFINE r == Rest(given.lines, k + 1)
                   te == text \o e
        <5>2. te = <<>>
          <6>1. te \in Seq(Char) /\ r \in Seq(Char) /\ te \o r = <<>>
            BY <4>2, <4>3, <5>1
          <6> HIDE DEF te, r
          <6> QED
            BY <6>1, ConcatEqualIffEmpty
        <5> QED
          BY <4>3, <5>2, ConcatEqualIffEmpty
      <4>5. k + 1 = n
        BY <3>1, <4>1, <4>4, DotenvAssumption
      <4>6. Meaning(given.lines[n]) = Nothing
        <5>1. ~(Len(text) > MAX_ENV_FILE_LINE_LEN)
          <6>1. Len(text) = 0
            BY <4>4
          <6> QED
            BY <6>1, DotenvAssumption
        <5> QED
          BY <3>1, <4>1, <4>4, <4>5, <5>1, MeaningIs, ParseEmpty
      <4> QED
        BY <4>5, <4>6 DEF Fails, Nothing, Bad
    <3>6. (\E i \in 1 .. n : Fails(i)) <=> (\E i \in 1 .. k : Fails(i))
      <4>1. CASE k = n
        BY <4>1
      <4>2. CASE k # n
        <5>1. 1 .. n = 1 .. k \cup {n}
          BY <3>2, <3>5, <4>2
        <5> QED
          BY <3>5, <4>2, <5>1
      <4> QED
        BY <4>1, <4>2
    <3> QED
      BY <2>2, <3>2, <3>3, <3>6 DEF At
  <2> QED
    BY <2>1, <2>2
<1> QED
  BY <1>1, Invariance, PTL
==============================================================================
