------------------------------ MODULE Interface ------------------------------
(***************************************************************************)
(* server_interface of src/ceriousdb/interface.c: the loop of select and   *)
(* fgets on standard input.  Between the two lies stdio's buffer, which    *)
(* select does not see.                                                    *)
(*                                                                         *)
(* Somebody (external) writes the chunks of a script one after another.  A *)
(* read returns one chunk on a terminal, where a chunk ends with a line or *)
(* with Ctrl-D, and all there is on a pipe.  On a terminal an empty chunk, *)
(* on a pipe the end of the script after a hang-up, is an end of file.     *)
(***************************************************************************)
EXTENDS Integers, SequencesExt

CONSTANT MAXINPUT_LEN  \* length of input_buffer

ASSUME InterfaceAssumption == MAXINPUT_LEN \in Nat /\ MAXINPUT_LEN > 1

VARIABLES
  tty,     \* standard input is a terminal
  script,  \* the chunks that will be written
  typed,   \* how many of them have been written
  read,    \* how many of them have been read
  hungup,  \* the writer of the pipe has closed it
  buffer,  \* stdio's buffer
  eof,     \* stdio has seen an end of file, and does not read again
  at       \* "starting", "select", "fgets"; "returned" after a command, "failed"

userVars == <<tty, script, typed, hungup>>
stdioVars == <<read, buffer, eof>>
interfaceVars == <<userVars, stdioVars, at>>

LF == "\n"

\* "q" stands for both commands, "q" and "stop".
StopLine == <<"q">>

\* Mutant: a command is recognised by its beginning.
IsStop_Prefix(line) == IsPrefix(StopLine, line)

\* interpret_command.
IsStop(line) == line = StopLine

InterfaceInit ==
  /\ typed = 0 /\ read = 0
  /\ hungup = FALSE
  /\ buffer = <<>>
  /\ eof = FALSE
  /\ at = "starting"

------------------------------------------------------------------------------
(* The user (external).                                                     *)

Type ==
  /\ typed < Len(script) /\ ~hungup
  /\ typed' = typed + 1
  /\ UNCHANGED <<tty, script, hungup, stdioVars, at>>

HangUp ==
  /\ ~tty /\ ~hungup
  /\ hungup' = TRUE
  /\ UNCHANGED <<tty, script, typed, stdioVars, at>>

------------------------------------------------------------------------------
(* The loop.  A turn in which select times out prints the prompt again.     *)

Readable == read < typed \/ hungup

Select ==
  /\ at = "select" /\ Readable
  /\ at' = "fgets"
  /\ UNCHANGED <<userVars, stdioVars>>

SelectFailure ==
  /\ at = "select"
  /\ at' = "failed"
  /\ UNCHANGED <<userVars, stdioVars>>

\* fgets has what it returns: a line, or as much as fits.
LineEnds == {i \in DOMAIN buffer : buffer[i] = LF} \cup {MAXINPUT_LEN - 1}
Complete == Min(LineEnds) <= Len(buffer)

\* fgets calls read, which blocks until there is something.
Fill ==
  /\ at = "fgets" /\ ~Complete /\ ~eof /\ Readable
  /\ read' = IF read < typed THEN IF tty THEN read + 1 ELSE typed ELSE read
  /\ LET data == FlattenSeq(SubSeq(script, read + 1, read'))
     IN  buffer' = buffer \o data /\ eof' = (data = <<>>)
  /\ UNCHANGED <<userVars, at>>

\* Mutant: the line feed is not cut off.
TakeLine_Uncut ==
  /\ at = "fgets" /\ (Complete \/ (eof /\ buffer # <<>>))
  /\ LET n == Min(LineEnds \cup {Len(buffer)})
     IN  /\ buffer' = SubSeq(buffer, n + 1, Len(buffer))
         /\ at' = IF IsStop(SubSeq(buffer, 1, n)) THEN "returned" ELSE "select"
  /\ UNCHANGED <<userVars, read, eof>>

\* fgets returns a line, or what is left before the end of file, and
\* interpret_command is given it without its line feed.
TakeLine ==
  /\ at = "fgets" /\ (Complete \/ (eof /\ buffer # <<>>))
  /\ LET n    == Min(LineEnds \cup {Len(buffer)})
         line == SubSeq(buffer, 1, IF buffer[n] = LF THEN n - 1 ELSE n)
     IN  /\ buffer' = SubSeq(buffer, n + 1, Len(buffer))
         /\ at' = IF IsStop(line) THEN "returned" ELSE "select"
  /\ UNCHANGED <<userVars, read, eof>>

\* fgets returns NULL: nothing left.
NoLine ==
  /\ at = "fgets" /\ eof /\ buffer = <<>>
  /\ at' = "select"
  /\ UNCHANGED <<userVars, stdioVars>>

UserStep == Type \/ HangUp
LoopStep == Select \/ Fill \/ TakeLine \/ NoLine

------------------------------------------------------------------------------
(* What somebody has written, as lines.                                     *)

\* The characters of the first k chunks, up to an end of file typed on a terminal.
Stream(k) ==
  LET ends == {i \in 1 .. k : script[i] = <<>>}
  IN  FlattenSeq(SubSeq(script, 1, Min(ends \cup {k})))

\* The lines of a text, with and without the last, unfinished one.
LinesOf(text, finished) ==
  LET feeds  == {i \in DOMAIN text : text[i] = LF}
      starts == {0} \cup feeds
      ends   == feeds \cup (IF finished THEN {} ELSE {Len(text) + 1})
      pairs  == {p \in starts \X ends : p[1] < p[2] /\ ~\E z \in feeds : p[1] < z /\ z < p[2]}
  IN  {SubSeq(text, p[1] + 1, p[2] - 1) : p \in pairs}

\* A line of its own has been written that asks the server to stop.
StopRequested == StopLine \in LinesOf(Stream(typed), TRUE)

\* No line is longer than what one fgets returns.
LinesFit == \A line \in LinesOf(Stream(typed), FALSE) : Len(line) <= MAXINPUT_LEN - 1
==============================================================================
