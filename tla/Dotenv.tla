------------------------------- MODULE Dotenv -------------------------------
(***************************************************************************)
(* load_dotenv_f and get_env of src/dotenv/dotenv.c.  A text is a sequence *)
(* of characters, and isspace holds of " " alone: line ends are cut off    *)
(* before it is asked.  One step is one turn of the loop over the lines.   *)
(***************************************************************************)
EXTENDS Integers, SequencesExt

CONSTANTS
  MAX_ENV_FILE_LINE_LEN,  \* characters of a line, without its line end
  Inputs,                 \* what load_dotenv_f may be given: whether the file exists,
                          \* its lines, each with its text, its end and what it says,
                          \* the environment env, and overwrite
  Unsettable              \* names for which setenv fails

LF == "\n"
CR == "\r"
Quotes == {"'", "\""}

\* How a line that somebody wrote is meant, in the words of dotenv.h.
Nothing == [kind |-> "nothing"]
Bad == [kind |-> "bad"]
Sets(name, value) == [kind |-> "set", name |-> name, value |-> value]

\* A line: its characters, its end (only the last line may have none), and what
\* it says.
Lines ==
  [text : Seq(STRING), end : {<<>>, <<LF>>, <<CR, LF>>},
   says : {Nothing, Bad} \cup [kind : {"set"}, name : Seq(STRING), value : Seq(STRING)]]

ASSUME DotenvAssumption ==
  /\ MAX_ENV_FILE_LINE_LEN \in Nat \ {0}
  /\ \A input \in Inputs :
       /\ input.exists \in BOOLEAN /\ input.overwrite \in BOOLEAN
       /\ input.env \in [DOMAIN input.env -> Seq(STRING)]
       /\ input.lines \in Seq(Lines)
       /\ \A i \in 1 .. Len(input.lines) :
            /\ \A j \in 1 .. Len(input.lines[i].text) : input.lines[i].text[j] \notin {LF, CR}
            /\ input.lines[i].end = <<>> => i = Len(input.lines)

VARIABLES
  given,  \* the input
  pc,     \* "open", "reading", "returned", or "failed" when it returned on a read error
  left,   \* what has not been read of the file
  env,    \* the process environment
  ret     \* the result so far

vars == <<given, pc, left, env, ret>>

------------------------------------------------------------------------------
(* The characters of a line.                                                *)

\* Where a character of C is in s.
IndicesOf(s, C) == {i \in DOMAIN s : s[i] \in C}

\* s up to and without its first character of C, as strchr and strcspn cut it.
Before(s, C) ==
  IF IndicesOf(s, C) = {} THEN s ELSE SubSeq(s, 1, Min(IndicesOf(s, C)) - 1)

TrimSpaces(s) ==
  LET inner == DOMAIN s \ IndicesOf(s, {" "})
  IN  IF inner = {} THEN <<>> ELSE SubSeq(s, Min(inner), Max(inner))

InQuotes(s) == Len(s) >= 2 /\ s[1] \in Quotes /\ s[1] = Last(s)

TrimQuotePair(s) == IF InQuotes(s) THEN SubSeq(s, 2, Len(s) - 1) ELSE s

IsValidName(name) == name # <<>> /\ IndicesOf(name, {" "}) = {}

IsValidValue(value) ==
  \/ value = <<>>
  \/ InQuotes(value)
  \/ value[1] \notin Quotes /\ IndicesOf(value, {" "}) = {}

\* The first quote like the opening one that has nothing but a comment after it.
ClosingQuotes(value) ==
  {p \in IndicesOf(value, {value[1]}) \ {1} :
     LET rest == TrimSpaces(SubSeq(value, p + 1, Len(value)))
     IN  rest = <<>> \/ rest[1] = "#"}

WithoutComment(value) ==
  IF value = <<>> \/ value[1] \notin Quotes
  THEN TrimSpaces(Before(value, {"#"}))
  ELSE IF ClosingQuotes(value) = {} THEN value
  ELSE LET q == Min(ClosingQuotes(value))
       IN  TrimSpaces(SubSeq(value, 1, q)
                        \o Before(SubSeq(value, q + 1, Len(value)), {"#"}))

\* What the loop makes of a line.
Parse(line) ==
  LET text  == TrimSpaces(line)
      name  == TrimQuotePair(TrimSpaces(Before(text, {"="})))
      value == WithoutComment(TrimSpaces(SubSeq(text, Len(Before(text, {"="})) + 2, Len(text))))
  IN  IF text = <<>> \/ text[1] = "#" THEN Nothing
      ELSE IF "=" \notin ToSet(text) \/ ~IsValidName(name) \/ ~IsValidValue(value) THEN Bad
      ELSE Sets(name, TrimQuotePair(value))

------------------------------------------------------------------------------
(* The loop.                                                                *)

\* The characters of a sequence of lines.
Text(lines) == FlattenSeq([i \in DOMAIN lines |-> lines[i].text \o lines[i].end])

Init ==
  /\ given \in Inputs
  /\ pc = "open"
  /\ left = Text(given.lines)
  /\ env = given.env
  /\ ret = 0

\* What fgets returns: up to the line end, the end of the file, or a full buffer.
Chunk ==
  SubSeq(left, 1, Min(IndicesOf(left, {LF}) \cup {MAX_ENV_FILE_LINE_LEN + 1, Len(left)}))

\* What is left of s after n characters.
After(s, n) == SubSeq(s, n + 1, Len(s))

\* The buffer is full and no line end is in it.  (fgets has not met the end of
\* the file then, even if nothing is left, so the test of feof changes nothing.)
TooLong ==
  Len(Chunk) = MAX_ENV_FILE_LINE_LEN + 1 /\ Last(Chunk) \notin {LF, CR}

Open ==
  /\ pc = "open"
  /\ pc' = IF given.exists THEN "reading" ELSE "returned"
  /\ ret' = IF given.exists THEN 0 ELSE -1
  /\ UNCHANGED <<given, left, env>>

\* Mutant: the rest of the line is left for the next fgets.
TrashLine_Resuming ==
  /\ pc = "reading" /\ left # <<>> /\ TooLong
  /\ left' = After(left, Len(Chunk))
  /\ ret' = -1
  /\ UNCHANGED <<given, pc, env>>

TrashLine ==
  /\ pc = "reading" /\ left # <<>> /\ TooLong
  /\ left' = LET rest == After(left, Len(Chunk)) IN After(rest, Len(Before(rest, {LF})) + 1)
  /\ ret' = -1
  /\ UNCHANGED <<given, pc, env>>

\* Mutant: setenv is always told to overwrite.
SetEnv_Always(name, value) ==
  IF name \in Unsettable
  THEN ret' = -1 /\ UNCHANGED env
  ELSE /\ env' = [n \in DOMAIN env \cup {name} |-> IF n = name THEN value ELSE env[n]]
       /\ UNCHANGED ret

\* setenv(name, value, overwrite).
SetEnv(name, value) ==
  IF name \in DOMAIN env /\ ~given.overwrite
  THEN UNCHANGED <<env, ret>>
  ELSE IF name \in Unsettable
  THEN ret' = -1 /\ UNCHANGED env
  ELSE /\ env' = [n \in DOMAIN env \cup {name} |-> IF n = name THEN value ELSE env[n]]
       /\ UNCHANGED ret

\* Mutant: the result is that of the last line.
ReadLine_LastResult ==
  /\ pc = "reading" /\ left # <<>> /\ ~TooLong
  /\ left' = After(left, Len(Chunk))
  /\ LET line == Parse(Before(Chunk, {CR, LF}))
     IN  /\ ret' = IF line.kind = "bad" THEN -1 ELSE 0
         /\ env' = IF line.kind = "set" THEN (line.name :> line.value) @@ env ELSE env
  /\ UNCHANGED <<given, pc>>

\* (That the line, cut, is still too long cannot happen: it would be TooLong.)
ReadLine ==
  /\ pc = "reading" /\ left # <<>> /\ ~TooLong
  /\ left' = After(left, Len(Chunk))
  /\ LET line == Parse(Before(Chunk, {CR, LF}))
     IN  \/ line.kind = "nothing" /\ UNCHANGED <<env, ret>>
         \/ line.kind = "bad" /\ ret' = -1 /\ UNCHANGED env
         \/ line.kind = "set" /\ SetEnv(line.name, line.value)
  /\ UNCHANGED <<given, pc>>

\* fgets returns NULL at the end of the file.
Return ==
  /\ pc = "reading" /\ left = <<>>
  /\ pc' = "returned"
  /\ UNCHANGED <<given, left, env, ret>>

\* fgets returns NULL when a read fails, as every read of a directory does.
\* Nobody asks ferror, and the result stays what the lines read so far made it.
ReadFails ==
  /\ pc = "reading"
  /\ pc' = "failed"
  /\ UNCHANGED <<given, left, env, ret>>

Next == Open \/ TrashLine \/ ReadLine \/ Return \/ ReadFails

Spec == Init /\ [][Next]_vars

------------------------------------------------------------------------------
(* Properties.                                                              *)

\* What a written line says, given that a line over the limit is invalid.
Meaning(line) == IF Len(line.text) > MAX_ENV_FILE_LINE_LEN THEN Bad ELSE line.says

\* What every line within the limit is meant to say is what the parser makes of it.
MeantAsParsed ==
  \A input \in Inputs : \A i \in 1 .. Len(input.lines) :
    Len(input.lines[i].text) <= MAX_ENV_FILE_LINE_LEN =>
      input.lines[i].says = Parse(input.lines[i].text)

\* The lines among the first k that set a name.
Givers(name, k) ==
  {i \in 1 .. k : LET m == Meaning(given.lines[i]) IN m.kind = "set" /\ m.name = name}

\* The environment that the first k lines make: the last value given, or, when
\* nothing is overwritten, the first, the one that was there before all.
EnvAfter(k) ==
  LET mine(name)  == IF name \in Unsettable THEN {} ELSE Givers(name, k)
      value(i)    == given.lines[i].says.value
      written     == {given.lines[i].says.name : i \in {j \in 1 .. k : given.lines[j].says.kind = "set"}}
  IN  [name \in DOMAIN given.env \cup {n \in written : mine(n) # {}} |->
         IF name \in DOMAIN given.env /\ (mine(name) = {} \/ ~given.overwrite)
         THEN given.env[name]
         ELSE value(IF given.overwrite THEN Max(mine(name)) ELSE Min(mine(name)))]

\* dotenv.h: the lines take effect one by one in the order they are written,
\* each as its syntax says, an invalid one not at all, and a line over the
\* limit is skipped as a whole.  Between two turns the reader is between two
\* lines (or before the LF of one whose CR filled the buffer).
LineByLine ==
  pc # "open" /\ given.exists =>
    \E k \in 0 .. Len(given.lines) :
      /\ LET rest == Text(SubSeq(given.lines, k + 1, Len(given.lines)))
         IN  left = rest \/ (k > 0 /\ given.lines[k].end = <<CR, LF>> /\ left = <<LF>> \o rest)
      /\ env = EnvAfter(k)

\* dotenv.h: of a file that is missing or is read to its end, the result is -1
\* if and only if it is missing, a line is invalid, or a variable could not be
\* set, wherever in the file it is.
FailureReported ==
  pc = "returned" =>
    (ret = -1 <=>
       \/ ~given.exists
       \/ \E i \in DOMAIN given.lines :
            LET m == Meaning(given.lines[i])
            IN  \/ m = Bad
                \/ /\ m.kind = "set" /\ m.name \in Unsettable
                   /\ given.overwrite \/ m.name \notin DOMAIN given.env)

\* dotenv.h: "returns 0 on success, or -1 on error", when a read fails too.
ReadErrorReported == pc = "failed" => ret = -1

\* Without overwrite no variable of the process, not even one that an earlier
\* line of the file has set, ever changes its value.
ExistingKept ==
  [][~given.overwrite => \A name \in DOMAIN env : name \in DOMAIN env' /\ env'[name] = env[name]]_vars
==============================================================================
