------------------------------ MODULE MCDotenv ------------------------------
(* Lines in the syntax that dotenv.h describes, with what they say.          *)
EXTENDS Dotenv

\* Names and values as written; "none" is the meaning of one that is invalid.
MCNames ==
  {[text |-> <<"a">>, is |-> <<"a">>],
   [text |-> <<"'", "a", "'">>, is |-> <<"a">>],
   [text |-> <<"\"", "\"", "a", "\"", "\"">>, is |-> <<"\"", "a", "\"">>],
   [text |-> <<"a", " ", "b">>, is |-> <<"none">>],
   [text |-> <<"'", "a", " ", "b", "'">>, is |-> <<"none">>],
   [text |-> <<"'", "'">>, is |-> <<"none">>],
   [text |-> <<>>, is |-> <<"none">>]}

MCValues ==
  {[text |-> <<"x">>, is |-> <<"x">>],
   [text |-> <<>>, is |-> <<>>],
   [text |-> <<"x", "=", "y">>, is |-> <<"x", "=", "y">>],
   [text |-> <<"'", "x", " ", "y", "'">>, is |-> <<"x", " ", "y">>],
   [text |-> <<"'", "x", "#", "y", "'">>, is |-> <<"x", "#", "y">>],
   [text |-> <<"\"", "x", "'", "\"">>, is |-> <<"x", "'">>],
   [text |-> <<"'", "'", "x", "'", "'">>, is |-> <<"'", "x", "'">>],
   [text |-> <<"'", "'">>, is |-> <<>>],
   [text |-> <<"x", " ", "y">>, is |-> <<"none">>],
   [text |-> <<"'", "x", "\"">>, is |-> <<"none">>],
   [text |-> <<"'", "x">>, is |-> <<"none">>],
   [text |-> <<"'", "x", "'", "y">>, is |-> <<"none">>]}

MCComments == {<<>>, <<"#">>, <<"#", "\"", "c", "\"", "=">>}

MCPads == {<<>>, <<" ">>}

MCAssignments ==
  {[text |-> p1 \o n.text \o p2 \o <<"=">> \o p3 \o v.text \o p4 \o c,
    says |-> IF <<"none">> \in {n.is, v.is} THEN Bad ELSE Sets(n.is, v.is)] :
     p1, p2, p3, p4 \in MCPads, n \in MCNames, v \in MCValues, c \in MCComments}

MCOthers ==
  {[text |-> <<>>, says |-> Nothing], [text |-> <<" ">>, says |-> Nothing],
   [text |-> <<"#", "a", "=", "x">>, says |-> Nothing],
   [text |-> <<" ", "#">>, says |-> Nothing],
   [text |-> <<"a">>, says |-> Bad], [text |-> <<"a", "#", "c">>, says |-> Bad]}

\* For files of several lines: values of 1 and of n characters, so that lines
\* are as long as the limit, one longer, and long enough for their tail to be
\* an assignment of its own.
MCLong(n) == [text |-> <<"a", "=">> \o [i \in 1 .. n |-> "x"], says |-> Sets(<<"a">>, [i \in 1 .. n |-> "x"])]

MCLines ==
  {MCLong(1), MCLong(MAX_ENV_FILE_LINE_LEN - 2), MCLong(MAX_ENV_FILE_LINE_LEN - 1),
   [text |-> MCLong(MAX_ENV_FILE_LINE_LEN - 1).text \o <<"b", "=", "x">>, says |-> Bad],
   [text |-> <<"a", "=", "y">>, says |-> Sets(<<"a">>, <<"y">>)],
   [text |-> <<"b", "=", "y">>, says |-> Sets(<<"b">>, <<"y">>)],
   [text |-> <<"c", "=", "y">>, says |-> Sets(<<"c">>, <<"y">>)],
   [text |-> <<"b">>, says |-> Bad], [text |-> <<>>, says |-> Nothing]}

Ended(line, end) == [text |-> line.text, end |-> end, says |-> line.says]

MCFiles ==
  {<<>>}
  \cup {<<Ended(l, e)>> : l \in MCAssignments \cup MCOthers, e \in {<<>>, <<LF>>, <<CR, LF>>}}
  \cup {<<Ended(l1, d), Ended(l2, d), Ended(l3, e)>> :
          l1, l2, l3 \in MCLines, d \in {<<LF>>, <<CR, LF>>}, e \in {<<>>, <<LF>>}}

MCEnvironments == {<<>>, <<"a">> :> <<"z">> @@ <<"c">> :> <<"z">>}

MCInputs ==
  [exists : {TRUE}, overwrite : BOOLEAN, env : MCEnvironments, lines : MCFiles]
  \cup [exists : {FALSE}, overwrite : BOOLEAN, env : MCEnvironments, lines : {<<>>}]

MCUnsettable == {<<"c">>}

\* The premise of the theorems about the reader.
ASSUME MCMeantAsParsed == MeantAsParsed
==============================================================================
