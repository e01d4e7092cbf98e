------------------------------ MODULE ViaParser ------------------------------
(***************************************************************************)
(* The parser (src/parse.c), its contexts and the functions that take one   *)
(* and give the next.  A text is a sequence of characters; the position     *)
(* after the last one is that of the NUL.                                   *)
(*                                                                          *)
(* A context has the position it has got to, the list it is adding values   *)
(* to, the lists around that one, the innermost last, and two flags.  A     *)
(* value is <<"atom", its characters>> or <<"list", its values>>: numbers   *)
(* are digits and nothing else, and no character is escaped.                *)
(***************************************************************************)
EXTENDS Naturals, Sequences

White == {" ", "\n"}
Terminators == White \cup {")", ";"}
Digits == {"0", "1"}

\* The character at a position; what is there at the end is none of them.
At(text, i) == IF i \in 1 .. Len(text) THEN text[i] ELSE "end of text"

First(positions) == CHOOSE i \in positions : \A j \in positions : i <= j

\* From position i on, is position j white, or part of a comment?  Mutant: no
\* comment ends.
InCommentForever(text, i, j) == \E k \in i .. j : text[k] = ";"

InComment(text, i, j) ==
    \E k \in i .. j : text[k] = ";" /\ \A m \in k .. j : text[m] # "\n"

Blank(text, i, j) == text[j] \in White \/ InComment(text, i, j)

\* via_parse_whitespace, without a file path.
AfterBlanks(text, i) ==
    First({j \in i .. Len(text) : ~Blank(text, i, j)} \cup {Len(text) + 1})

TokenEnd(text, i) ==
    First({j \in i .. Len(text) : text[j] \in Terminators} \cup {Len(text) + 1})

\* The quote that ends a string, or the end of line or of text that makes it none.
StringStop(text, i) ==
    First({j \in i + 1 .. Len(text) : text[j] \in {"\"", "\n"}}
            \cup {Len(text) + 1})

IsNumber(token) == \A i \in DOMAIN token : token[i] \in Digits

IsBool(token) == token \in {<<"#", "t">>, <<"#", "f">>}

IsSymbol(token) ==
    /\ token[1] \notin Digits
    /\ \A i \in DOMAIN token : token[i] \notin {"\"", "'", "#", "("}

\* Where the value at position i ends; 0 if there is none.
ValueEnd(text, i) ==
    IF At(text, i) = "\""
    THEN LET stop == StringStop(text, i)
         IN  IF At(text, stop) = "\"" THEN stop + 1 ELSE 0
    ELSE LET end == TokenEnd(text, i)
             token == SubSeq(text, i, end - 1)
         IN  IF i < end /\ (IsNumber(token) \/ IsBool(token) \/ IsSymbol(token))
             THEN end ELSE 0

-----------------------------------------------------------------------------

Start ==
    [cursor |-> 1, program |-> <<>>, parents |-> <<>>,
     matched |-> TRUE, open |-> TRUE]

\* via_parse_ctx_program_add.
ProgramAdd(ctx, cursor, value) ==
    [ctx EXCEPT !.cursor = cursor, !.program = Append(@, value),
                !.matched = TRUE, !.open = FALSE]

Unmatched(ctx, open) == [ctx EXCEPT !.matched = FALSE, !.open = open]

\* Mutant: the list around is not kept as long as there is nothing in it.
OparenUnlessEmpty(ctx, start) ==
    [ctx EXCEPT !.cursor = start + 1, !.program = <<>>,
                !.parents = IF ctx.program = <<>> THEN @
                            ELSE Append(@, ctx.program),
                !.matched = TRUE, !.open = TRUE]

\* Mutant: the character after a parenthesis is taken with it.
OparenSkipping(ctx, start) ==
    [ctx EXCEPT !.cursor = start + 2, !.program = <<>>,
                !.parents = Append(@, ctx.program),
                !.matched = TRUE, !.open = TRUE]

\* via_parse_oparen: a new list inside the one that is being added to.
Oparen(ctx, start) ==
    [ctx EXCEPT !.cursor = start + 1, !.program = <<>>,
                !.parents = Append(@, ctx.program),
                !.matched = TRUE, !.open = TRUE]

\* via_parse_cparen: the list is added to the one around it.
Cparen(ctx) ==
    LET outer == [ctx EXCEPT
                    !.program = ctx.parents[Len(ctx.parents)],
                    !.parents = SubSeq(@, 1, Len(@) - 1)]
    IN  ProgramAdd(outer, ctx.cursor + 1, <<"list", ctx.program>>)

\* via_parse_success.
Success(ctx) == ctx.matched /\ ~ctx.open

=============================================================================
