------------------------------ MODULE ViaGrammar ------------------------------
(***************************************************************************)
(* What a text starts with, told by its tokens: no cursor, no contexts, no  *)
(* lines.  A text is cut into tokens by one pass over its characters; the   *)
(* first datum is the shortest run of tokens whose parentheses balance.     *)
(* ViaReader is compared with this.                                         *)
(***************************************************************************)
EXTENDS ViaReader, Integers, FiniteSets

Lexed(tokens, kind, token) == [tokens |-> tokens, kind |-> kind, token |-> token]

\* A character after these tokens, outside of atoms, strings and comments.
Between(tokens, c) ==
    CASE c \in {" ", "\n"} -> Lexed(tokens, "", <<>>)
      [] c = ";" -> Lexed(tokens, "comment", <<>>)
      [] c \in {"(", ")"} -> Lexed(Append(tokens, <<c>>), "", <<>>)
      [] c = "\"" -> Lexed(tokens, "string", <<c>>)
      [] OTHER -> Lexed(tokens, "atom", <<c>>)

\* A character in a string.  The tokens before a string that runs over the end of
\* a line are followed by one that is none.
InString(st, c) ==
    CASE c = "\"" -> Lexed(Append(st.tokens, Append(st.token, c)), "", <<>>)
      [] c = "\n" -> Lexed(Append(st.tokens, <<"(", c>>), "", <<>>)
      [] OTHER -> Lexed(st.tokens, "string", Append(st.token, c))

InAtom(st, c) == st.kind = "atom" /\ c \notin {" ", "\n", ")", ";"}

\* The tokens with the atom that ends here, if one does.
Ended(st) ==
    IF st.kind = "atom" THEN Append(st.tokens, st.token) ELSE st.tokens

\* One more character.
Lex(st, c) ==
    CASE st.kind = "string" -> InString(st, c)
      [] st.kind = "comment" ->
           IF c = "\n" THEN Lexed(st.tokens, "", <<>>) ELSE st
      [] InAtom(st, c) -> Lexed(st.tokens, "atom", Append(st.token, c))
      [] OTHER -> Between(Ended(st), c)

Unlexed == Lexed(<<>>, "", <<>>)

\* What has been cut after each character of a text.
Lexing(text) ==
    LET Cut[n \in 0 .. Len(text)] ==
          IF n = 0 THEN Unlexed ELSE Lex(Cut[n - 1], text[n])
    IN  Cut

Tokens(text) == Ended(Lexing(text)[Len(text)])

IsParenthesis(token) == token \in {<<"(">>, <<")">>}

\* Names, numbers, #t and #f, strings.
Wellformed(token) ==
    LET chars == {token[i] : i \in DOMAIN token}
    IN  \/ IsParenthesis(token)
        \/ token[1] = "\"" /\ token[Len(token)] = "\"" /\ Len(token) > 1
        \/ chars \subseteq {"0", "1"}
        \/ token \in {<<"#", "t">>, <<"#", "f">>}
        \/ token[1] \notin {"0", "1"} /\ chars \cap {"(", "\"", "#", "'"} = {}

Count(token, tokens) == Cardinality({i \in DOMAIN tokens : tokens[i] = token})

Balance(tokens) == Count(<<"(">>, tokens) - Count(<<")">>, tokens)

\* Where a datum that the tokens start with can end.
Ends(tokens) ==
    {n \in DOMAIN tokens :
        ~Wellformed(tokens[n]) \/ Balance(SubSeq(tokens, 1, n)) <= 0}

\* The tokens of the first datum of a text; <<>> if it does not start with one.
FirstDatum(text) ==
    LET tokens == Tokens(text)
        end == First(Ends(tokens))
        start == SubSeq(tokens, 1, end)
    IN  IF Ends(tokens) # {} /\ Balance(start) = 0 /\ Wellformed(tokens[end])
        THEN start ELSE <<>>

\* One more token: list is what the innermost list that is open has, around what
\* those around it have, the innermost last.
Added(st, token) ==
    CASE token = <<"(">> ->
           [list |-> <<>>, around |-> Append(st.around, st.list)]
      [] token = <<")">> ->
           LET n == Len(st.around)
           IN  [list |-> Append(st.around[n], <<"list", st.list>>),
                around |-> SubSeq(st.around, 1, n - 1)]
      [] OTHER ->
           [list |-> Append(st.list, <<"atom", token>>), around |-> st.around]

Unbuilt == [list |-> <<>>, around |-> <<>>]

\* What has been put together after each token.
Building(tokens) ==
    LET Put[n \in 0 .. Len(tokens)] ==
          IF n = 0 THEN Unbuilt ELSE Added(Put[n - 1], tokens[n])
    IN  Put

\* The datum that is written with these tokens.
Datum(tokens) == Building(tokens)[Len(tokens)].list[1]

-----------------------------------------------------------------------------
(* Properties. *)

\* No line is longer than the buffer of file-read-line.
LinesFit ==
    \A i \in 1 .. Len(input) - BufferSize + 1 :
        \E j \in i .. i + BufferSize - 1 : input[j] = "\n"

HasRead == mode = "done" /\ result[1] # "exception"

\* What read-datum answers is the first datum of the file, and it throws only if
\* there is none.  With a line that does not fit this is true of what it has read.
ReadsFirstDatum ==
    mode = "done" =>
        LET datum == FirstDatum(IF LinesFit THEN input ELSE source)
        IN  IF HasRead THEN datum # <<>> /\ result = Datum(datum)
                       ELSE datum = <<>>

\* The last line read is one that had to be read: at a terminal, the answer does
\* not wait for another line once the datum is complete.
ReadsNoFurther ==
    HasRead => \A n \in 0 .. at - 1 :
        (n = 0 \/ input[n] = "\n") => FirstDatum(SubSeq(input, 1, n)) = <<>>

=============================================================================
