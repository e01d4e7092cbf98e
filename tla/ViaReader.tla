------------------------------ MODULE ViaReader ------------------------------
(***************************************************************************)
(* Reading one datum from a file (read-datum of src/native.via): a line     *)
(* after the other is added to the text read so far, and the whole of it is *)
(* parsed again, until it starts with a datum.                              *)
(*                                                                          *)
(* The parser calls itself (src/parse.c): depth is how many lists it is in, *)
(* each a call of via_parse_sexpr that has met its opening parenthesis.     *)
(***************************************************************************)
EXTENDS ViaParser

CONSTANTS
    Inputs,         \* what a file may hold
    BufferSize      \* the characters via_p_file_readline has room for

ASSUME ReaderAssumption ==
    /\ BufferSize \in Nat \ {0}
    /\ Inputs \subseteq Seq(STRING)

VARIABLES
    input,          \* what the file holds
    at,             \* how many characters have been read
    eof,            \* feof: a read has met the end
    source,         \* the text read so far
    ctx,            \* the parser's context
    depth,          \* how many lists it is in
    mode,           \* what is done next
    result          \* the outcome: a datum, or the exception thrown

vars == <<input, at, eof, source, ctx, depth, mode, result>>

Init ==
    /\ input \in Inputs
    /\ at = 0
    /\ eof = FALSE
    /\ source = <<>>
    /\ ctx = Start
    /\ depth = 0
    /\ mode = "line"
    /\ result = <<>>

-----------------------------------------------------------------------------

\* Mutant: a buffer is filled, whatever is in it.
LineEndFull == First({Len(input), at + BufferSize})

\* Where fgets stops: after an end of line, a full buffer, or the last character.
LineEnd ==
    First({i \in at + 1 .. Len(input) : input[i] = "\n"}
            \cup {Len(input), at + BufferSize})

\* The end is met when nothing else has stopped fgets.
MeetsEnd ==
    /\ LineEnd = Len(input)
    /\ LineEnd < at + BufferSize
    /\ input[LineEnd] # "\n"

\* The next line is read, and the text parsed with it at its end.
ReadLineAfter(text) ==
    /\ mode = "line"
    /\ at < Len(input)
    /\ at' = LineEnd
    /\ eof' = MeetsEnd
    /\ source' = text \o SubSeq(input, at + 1, LineEnd)
    /\ ctx' = Start
    /\ mode' = "expr"
    /\ UNCHANGED <<input, depth, result>>

\* Mutant: the lines before are dropped.
ReadLineAlone == ReadLineAfter(<<>>)

ReadLine == ReadLineAfter(source)

\* Mutant: the end of the file reads as an empty line.
ReadNothingForever ==
    /\ mode = "line"
    /\ at = Len(input)
    /\ ctx' = Start
    /\ mode' = "expr"
    /\ UNCHANGED <<input, at, eof, source, depth, result>>

\* via_p_file_readline has nothing left, and throws.
ReadNothing ==
    /\ mode = "line"
    /\ at = Len(input)
    /\ eof' = TRUE
    /\ mode' = "done"
    /\ result' = <<"exception", "exc-end-of-file">>
    /\ UNCHANGED <<input, at, source, ctx, depth>>

-----------------------------------------------------------------------------

\* What goes on after a value: the list it is in, or the caller of via_parse.
After(d) == IF d = 0 THEN "parsed" ELSE "expr"

\* via_parse_expr starts where there is no more white space.
Here == AfterBlanks(source, ctx.cursor)

ParseValue ==
    LET end == ValueEnd(source, Here)
    IN  /\ mode = "expr"
        /\ end # 0
        /\ ctx' = ProgramAdd(ctx, end,
                             <<"atom", SubSeq(source, Here, end - 1)>>)
        /\ mode' = After(depth)
        /\ UNCHANGED <<input, at, eof, source, depth, result>>

ParseOparen ==
    /\ mode = "expr"
    /\ At(source, Here) = "("
    /\ ctx' = Oparen(ctx, Here)
    /\ depth' = depth + 1
    /\ UNCHANGED <<input, at, eof, source, mode, result>>

\* Neither a value nor a list: the loop of the list this is in, if any, is over.
ParseNothing ==
    /\ mode = "expr"
    /\ ValueEnd(source, Here) = 0
    /\ At(source, Here) # "("
    /\ ctx' = Unmatched([ctx EXCEPT !.cursor = Here], FALSE)
    /\ mode' = "cparen"
    /\ UNCHANGED <<input, at, eof, source, depth, result>>

ParseCparen ==
    /\ mode = "cparen"
    /\ depth > 0
    /\ At(source, ctx.cursor) = ")"
    /\ ctx' = Cparen(ctx)
    /\ depth' = depth - 1
    /\ mode' = After(depth - 1)
    /\ UNCHANGED <<input, at, eof, source, result>>

\* The list is not closed here, nor are those around it.
NotClosed ==
    /\ mode = "cparen"
    /\ depth > 0
    /\ At(source, ctx.cursor) # ")"
    /\ ctx' = Unmatched(ctx, TRUE)
    /\ depth' = depth - 1
    /\ UNCHANGED <<input, at, eof, source, mode, result>>

\* Nothing has matched outside of all lists.
NoMatch ==
    /\ mode = "cparen"
    /\ depth = 0
    /\ mode' = "parsed"
    /\ UNCHANGED <<input, at, eof, source, ctx, depth, result>>

-----------------------------------------------------------------------------

\* via_p_parse answers the first value.
Answer ==
    /\ mode = "parsed"
    /\ Success(ctx)
    /\ result' = ctx.program[1]
    /\ mode' = "done"
    /\ UNCHANGED <<input, at, eof, source, ctx, depth>>

\* The exception of via_p_parse is caught; it is thrown again at the end of the
\* file.
Rethrow ==
    /\ mode = "parsed"
    /\ ~Success(ctx)
    /\ eof
    /\ result' = <<"exception", "exc-syntax-error">>
    /\ mode' = "done"
    /\ UNCHANGED <<input, at, eof, source, ctx, depth>>

ReadOn ==
    /\ mode = "parsed"
    /\ ~Success(ctx)
    /\ ~eof
    /\ mode' = "line"
    /\ UNCHANGED <<input, at, eof, source, ctx, depth, result>>

Next ==
    \/ ReadLine \/ ReadNothing
    \/ ParseValue \/ ParseOparen \/ ParseNothing
    \/ ParseCparen \/ NotClosed \/ NoMatch
    \/ Answer \/ Rethrow \/ ReadOn

Spec == Init /\ [][Next]_vars

\* The reader is a sequential program reading a file: it goes on.
FairSpec == Spec /\ WF_vars(Next)

-----------------------------------------------------------------------------
(* Properties. *)

Modes == {"line", "expr", "cparen", "parsed", "done"}

\* Every variable has its type, and no position is outside its text.
TypeOK ==
    /\ at \in 0 .. Len(input)
    /\ eof \in BOOLEAN
    /\ Len(source) <= at
    /\ ctx.cursor \in 1 .. Len(source) + 1
    /\ ctx.matched \in BOOLEAN
    /\ ctx.open \in BOOLEAN
    /\ depth \in Nat
    /\ mode \in Modes

\* The parser counts the lists it is in twice, by its calls (via_parse_sexpr) and
\* by the parents of its contexts.  They agree whenever it goes on or a list may
\* be closed: via_parse_cparen, which does not look, always finds a parent.
NestingAgrees ==
    \/ mode = "expr"
    \/ mode = "cparen" /\ At(source, ctx.cursor) = ")"
    => Len(ctx.parents) = depth

\* The text read so far is the beginning of the file, nothing lost and nothing
\* read twice.
SourceIsRead == source = SubSeq(input, 1, at)

\* What the parser has left to do with the text it has: for each character that may
\* still be opened and closed, for each list that is open, and what follows.
Left ==
    CASE mode = "done" -> 0
      [] mode = "line" -> 1
      [] mode = "parsed" -> 2
      [] mode = "cparen" -> 3 * (Len(source) + 1 - ctx.cursor) + depth + 3
      [] mode = "expr" -> 3 * (Len(source) + 1 - ctx.cursor) + depth + 4

ReadOrParsed ==
    /\ input' = input
    /\ \/ at < at' /\ at' <= Len(input)
       \/ at' = at /\ Left' < Left

\* Every step reads more of the file or leaves less to do: via_parse_expr never
\* comes to the same place twice in the same list, and no text is parsed again
\* before there is more of it.
ReaderAdvances == [][ReadOrParsed]_vars

\* Every read comes to an end, with a datum or an exception.
ReadEnds == <>(mode = "done")

=============================================================================
