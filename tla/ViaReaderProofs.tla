--------------------------- MODULE ViaReaderProofs ---------------------------
(***************************************************************************)
(* Theorems about ViaReader, for any files and any size of its buffer, and  *)
(* that it reads what ViaGrammar says.  The second half follows the text     *)
(* twice: Lexing cuts it into tokens character by character, and the parser  *)
(* takes one token with each step.  DatumInv, near the end, says how the     *)
(* parser's context comes from the tokens before its cursor.                 *)
(***************************************************************************)
EXTENDS ViaGrammar, SequenceTheorems, FiniteSetTheorems, WellFoundedInduction,
        TLAPS

\* Lists hold anything.
IsList(list) == \E T : list \in Seq(T)

\* A context of the parser that is in a text.
IsCtx ==
    /\ ctx = [cursor |-> ctx.cursor, program |-> ctx.program,
              parents |-> ctx.parents, matched |-> ctx.matched,
              open |-> ctx.open]
    /\ ctx.cursor \in 1 .. Len(source) + 1
    /\ IsList(ctx.parents)
    /\ ctx.matched \in BOOLEAN
    /\ ctx.open \in BOOLEAN

\* Every variable has its type.
Types ==
    /\ input \in Seq(STRING)
    /\ at \in 0 .. Len(input)
    /\ eof \in BOOLEAN
    /\ source \in Seq(STRING)
    /\ Len(source) = at
    /\ IsCtx
    /\ depth \in Nat
    /\ mode \in Modes

\* When a text is read or has been parsed the parser is in no list.
Outside == mode \in {"line", "parsed"} => depth = 0

Inv ==
    /\ Types
    /\ Outside
    /\ NestingAgrees
    /\ SourceIsRead

-----------------------------------------------------------------------------
(* Positions. *)

\* Every nonempty set of positions has a smallest one, and First is that one.
LEMMA FirstIsSmallest ==
    ASSUME NEW T, T \subseteq Nat, T # {}
    PROVE  First(T) \in T /\ \A y \in T : First(T) <= y
<1>1. IsWellFoundedOn(OpToRel(<, Nat), Nat)
  BY NatLessThanWellFounded
<1>2. PICK x \in T : \A y \in T : ~ (<<y, x>> \in OpToRel(<, Nat))
  BY <1>1, WFMin
<1>3. \A y \in T : x <= y
  <2>1. TAKE y \in T
  <2>2. ~ (<<y, x>> \in OpToRel(<, Nat)) /\ x \in Nat /\ y \in Nat
    BY <1>2
  <2> QED
    BY <2>2 DEF OpToRel
<1> QED
  BY <1>3 DEF First

\* The first of some positions in a text, or the one after it.
LEMMA FirstInText ==
    ASSUME NEW n \in Nat, NEW T, T \subseteq 1 .. n
    PROVE  First(T \cup {n + 1}) \in 1 .. n + 1
<1> DEFINE U == T \cup {n + 1}
<1>1. U \subseteq Nat /\ U # {} /\ U \subseteq 1 .. n + 1
  OBVIOUS
<1> HIDE DEF U
<1>2. First(U) \in U
  BY <1>1, FirstIsSmallest
<1>3. First(U) \in 1 .. n + 1
  BY <1>1, <1>2
<1> QED
  BY <1>3 DEF U

\* What is there at a position outside of the text is no character of it.
LEMMA AtInside ==
    ASSUME NEW text \in Seq(STRING), NEW i, At(text, i) # "end of text"
    PROVE  i \in 1 .. Len(text)
BY DEF At

\* White space and comments end inside the text or at its end.
LEMMA BlanksEnd ==
    ASSUME NEW text \in Seq(STRING), NEW i \in 1 .. Len(text) + 1
    PROVE  AfterBlanks(text, i) \in 1 .. Len(text) + 1
<1> DEFINE T == {j \in i .. Len(text) : ~Blank(text, i, j)}
<1>1. T \subseteq 1 .. Len(text) /\ Len(text) \in Nat
  OBVIOUS
<1>2. AfterBlanks(text, i) = First(T \cup {Len(text) + 1})
  BY DEF AfterBlanks
<1> HIDE DEF T
<1> QED
  BY <1>1, <1>2, FirstInText

\* So does a value, if there is one.
LEMMA ValuesEnd ==
    ASSUME NEW text \in Seq(STRING), NEW i \in 1 .. Len(text) + 1,
           ValueEnd(text, i) # 0
    PROVE  ValueEnd(text, i) \in 1 .. Len(text) + 1
<1> DEFINE quote == "\""
<1>1. CASE At(text, i) = quote
  <2> DEFINE T == {j \in i + 1 .. Len(text) : text[j] \in {quote, "\n"}}
             stop == StringStop(text, i)
  <2>1. stop = First(T \cup {Len(text) + 1})
    BY Zenon DEF StringStop
  <2>2. At(text, stop) = quote /\ ValueEnd(text, i) = stop + 1
    BY <1>1, Zenon DEF ValueEnd
  <2>3. quote # "end of text"
    BY Zenon
  <2> HIDE DEF quote, stop
  <2>4. T \subseteq 1 .. Len(text) /\ Len(text) \in Nat
    OBVIOUS
  <2> HIDE DEF T
  <2>5. stop \in 1 .. Len(text) + 1
    BY <2>1, <2>4, FirstInText
  <2>6. stop \in 1 .. Len(text)
    BY <2>2, <2>3, AtInside
  <2> QED
    BY <2>2, <2>6
<1>2. CASE At(text, i) # quote
  <2> DEFINE T == {j \in i .. Len(text) : text[j] \in Terminators}
  <2>1. T \subseteq 1 .. Len(text) /\ Len(text) \in Nat
    OBVIOUS
  <2>2. ValueEnd(text, i) = TokenEnd(text, i)
    BY <1>2, Zenon DEF ValueEnd
  <2>3. TokenEnd(text, i) = First(T \cup {Len(text) + 1})
    BY DEF TokenEnd
  <2> HIDE DEF T
  <2> QED
    BY <2>1, <2>2, <2>3, FirstInText
<1> QED
  BY <1>1, <1>2

\* A line has a character at least, and ends in the file.
LEMMA LinesEnd ==
    ASSUME input \in Seq(STRING), at \in 0 .. Len(input), at < Len(input)
    PROVE  LineEnd \in at + 1 .. Len(input)
<1> DEFINE T == {i \in at + 1 .. Len(input) : input[i] = "\n"}
                  \cup {Len(input), at + BufferSize}
<1>1. BufferSize \in Nat /\ BufferSize >= 1
  BY ReaderAssumption
<1>2. \A i \in T : i \in Nat /\ i >= at + 1
  BY <1>1
<1>3. T \subseteq Nat /\ T # {} /\ Len(input) \in T
  BY <1>2
<1>4. First(T) \in T /\ First(T) <= Len(input)
  <2> HIDE DEF T
  <2> QED
    BY <1>3, FirstIsSmallest
<1>5. LineEnd = First(T)
  BY DEF LineEnd
<1> HIDE DEF T
<1> QED
  BY <1>2, <1>4, <1>5

-----------------------------------------------------------------------------
(* The invariant. *)

LEMMA InitInv == Init => Inv
<1> SUFFICES ASSUME Init PROVE Inv
  OBVIOUS
<1> USE DEF Init, Start
<1>1. input \in Seq(STRING)
  BY ReaderAssumption
<1>2. <<>> \in Seq(STRING) /\ Len(<<>>) = 0
  OBVIOUS
<1>3. IsCtx
  <2>1. IsList(<<>>)
    BY DEF IsList
  <2> QED
    BY <1>2, <2>1 DEF IsCtx
<1>4. Len(input) \in Nat
  BY <1>1
<1>5. Types
  <2>1. at \in 0 .. Len(input) /\ source \in Seq(STRING) /\ Len(source) = at
    BY <1>2, <1>4
  <2>2. eof \in BOOLEAN /\ depth \in Nat /\ mode \in Modes
    BY DEF Modes
  <2> QED
    BY <1>1, <1>3, <2>1, <2>2, Zenon DEF Types
<1>6. Outside /\ NestingAgrees
  BY DEF Outside, NestingAgrees
<1>7. SourceIsRead
  BY <1>1 DEF SourceIsRead
<1> QED
  BY <1>5, <1>6, <1>7 DEF Inv

\* A position of the parser's stays in the text.
LEMMA HereInside ==
    ASSUME Types
    PROVE  Here \in 1 .. Len(source) + 1
BY BlanksEnd DEF Types, IsCtx, Here

\* The text with the next line is the beginning of the file.
LEMMA ReadMore ==
    ASSUME Inv, ReadLine
    PROVE  Inv'
<1>1. /\ at < Len(input) /\ at' = LineEnd /\ eof' = MeetsEnd
      /\ source' = source \o SubSeq(input, at + 1, LineEnd)
      /\ ctx' = Start /\ mode' = "expr"
      /\ input' = input /\ depth' = depth
      /\ mode = "line"
  BY DEF ReadLine, ReadLineAfter
<1>2. /\ input \in Seq(STRING) /\ at \in 0 .. Len(input)
      /\ source = SubSeq(input, 1, at) /\ depth = 0
  BY <1>1 DEF Inv, Types, Outside, SourceIsRead
<1>3. LineEnd \in at + 1 .. Len(input)
  BY <1>1, <1>2, LinesEnd
<1>4. source' = SubSeq(input, 1, LineEnd)
  <2>1. SubSeq(input, 1, at) \o SubSeq(input, at + 1, LineEnd)
          = SubSeq(input, 1, LineEnd)
    BY <1>2, <1>3, ConcatAdjacentSubSeq
  <2> QED
    BY <1>1, <1>2, <2>1
<1>5. source' \in Seq(STRING) /\ Len(source') = at'
  BY <1>1, <1>2, <1>3, <1>4
<1>6. IsCtx'
  <2>1. Len(source') \in Nat
    BY <1>5
  <2>2. IsList(<<>>)
    BY DEF IsList
  <2>3. ctx' = Start
    BY <1>1
  <2>4. \A n \in Nat : 1 \in 1 .. n + 1
    OBVIOUS
  <2>5. 1 \in 1 .. Len(source') + 1
    BY <2>1, <2>4, Zenon
  <2> QED
    BY <2>2, <2>3, <2>5 DEF IsCtx, Start
<1>7. Types'
  BY <1>1, <1>2, <1>3, <1>5, <1>6 DEF Types, MeetsEnd, Modes
<1>8. NestingAgrees'
  BY <1>1, <1>2 DEF NestingAgrees, Start
<1>9. Outside' /\ SourceIsRead'
  BY <1>1, <1>4 DEF Outside, SourceIsRead
<1> QED
  BY <1>7, <1>8, <1>9 DEF Inv

\* A step of the parser leaves what has been read alone.
Parsing == UNCHANGED <<input, at, eof, source>>

LEMMA ParsingInv ==
    ASSUME Inv, Parsing, IsCtx', depth' \in Nat, mode' \in Modes, Outside',
           NestingAgrees'
    PROVE  Inv'
BY DEF Inv, Types, Parsing, SourceIsRead

LEMMA ParseValueInv ==
    ASSUME Inv, ParseValue
    PROVE  Inv'
<1> DEFINE end == ValueEnd(source, Here)
<1>1. /\ mode = "expr" /\ end # 0 /\ mode' = After(depth) /\ depth' = depth
      /\ ctx' = ProgramAdd(ctx, end, <<"atom", SubSeq(source, Here, end - 1)>>)
      /\ source' = source /\ Parsing
  BY DEF ParseValue, Parsing
<1>2. end \in 1 .. Len(source) + 1
  BY <1>1, HereInside, ValuesEnd DEF Inv, Types
<1> HIDE DEF end
<1>3. IsCtx'
  BY <1>1, <1>2 DEF Inv, Types, IsCtx, ProgramAdd
<1>4. Len(ctx.parents) = depth /\ ctx'.parents = ctx.parents /\ depth \in Nat
  BY <1>1 DEF Inv, Types, IsCtx, NestingAgrees, ProgramAdd
<1>5. mode' \in Modes /\ Outside' /\ NestingAgrees' /\ depth' \in Nat
  BY <1>1, <1>4 DEF After, Modes, Outside, NestingAgrees
<1> QED
  BY <1>1, <1>3, <1>5, ParsingInv

LEMMA ParseOparenInv ==
    ASSUME Inv, ParseOparen
    PROVE  Inv'
<1>1. /\ mode = "expr" /\ At(source, Here) = "(" /\ mode' = mode
      /\ depth' = depth + 1 /\ ctx' = Oparen(ctx, Here)
      /\ source' = source /\ Parsing
  BY DEF ParseOparen, Parsing
<1>2. Here \in 1 .. Len(source)
  BY <1>1, AtInside DEF Inv, Types
<1>3. PICK T : ctx.parents \in Seq(T)
  BY DEF Inv, Types, IsCtx, IsList
<1>4. /\ ctx'.parents = Append(ctx.parents, ctx.program)
      /\ ctx'.parents \in Seq(T \cup {ctx.program})
      /\ Len(ctx'.parents) = Len(ctx.parents) + 1
  <2>1. ctx.parents \in Seq(T \cup {ctx.program})
    BY <1>3
  <2>2. ctx'.parents = Append(ctx.parents, ctx.program)
    BY <1>1 DEF Inv, Types, IsCtx, Oparen
  <2> QED
    BY <2>1, <2>2
<1>5. IsCtx'
  <2>1. IsList(ctx'.parents)
    BY <1>4 DEF IsList
  <2>2. ctx'.cursor = Here + 1 /\ ctx'.matched = TRUE /\ ctx'.open = TRUE
    BY <1>1 DEF Inv, Types, IsCtx, Oparen
  <2>3. ctx' = [cursor |-> ctx'.cursor, program |-> ctx'.program,
                parents |-> ctx'.parents, matched |-> ctx'.matched,
                open |-> ctx'.open]
    BY <1>1 DEF Inv, Types, IsCtx, Oparen
  <2>4. ctx'.cursor \in 1 .. Len(source') + 1
    BY <1>1, <1>2, <2>2 DEF Inv, Types
  <2> QED
    BY <2>1, <2>2, <2>3, <2>4 DEF IsCtx
<1>6. depth \in Nat /\ Len(ctx.parents) = depth
  BY <1>1 DEF Inv, Types, NestingAgrees
<1>7. mode' \in Modes /\ Outside' /\ NestingAgrees' /\ depth' \in Nat
  BY <1>1, <1>4, <1>6 DEF Modes, Outside, NestingAgrees
<1> QED
  BY <1>1, <1>5, <1>7, ParsingInv

LEMMA ParseNothingInv ==
    ASSUME Inv, ParseNothing
    PROVE  Inv'
<1>1. /\ mode = "expr" /\ mode' = "cparen" /\ depth' = depth
      /\ ctx' = Unmatched([ctx EXCEPT !.cursor = Here], FALSE)
      /\ source' = source /\ Parsing
  BY DEF ParseNothing, Parsing
<1>2. IsCtx' /\ ctx'.parents = ctx.parents
  BY <1>1, HereInside DEF Inv, Types, IsCtx, Unmatched
<1>3. depth \in Nat /\ Len(ctx.parents) = depth
  BY <1>1 DEF Inv, Types, NestingAgrees
<1>4. mode' \in Modes /\ Outside' /\ NestingAgrees' /\ depth' \in Nat
  BY <1>1, <1>2, <1>3 DEF Modes, Outside, NestingAgrees
<1> QED
  BY <1>1, <1>2, <1>4, ParsingInv

\* The list that is closed has one around it.
LEMMA ParseCparenInv ==
    ASSUME Inv, ParseCparen
    PROVE  Inv'
<1>1. /\ mode = "cparen" /\ depth > 0 /\ At(source, ctx.cursor) = ")"
      /\ ctx' = Cparen(ctx) /\ depth' = depth - 1 /\ mode' = After(depth - 1)
      /\ source' = source /\ Parsing
  BY DEF ParseCparen, Parsing
<1>2. depth \in Nat /\ Len(ctx.parents) = depth
  BY <1>1 DEF Inv, Types, NestingAgrees
<1>3. ctx.cursor \in 1 .. Len(source)
  BY <1>1, AtInside DEF Inv, Types, IsCtx
<1>4. PICK T : ctx.parents \in Seq(T)
  BY DEF Inv, Types, IsCtx, IsList
<1>5. /\ ctx'.parents = SubSeq(ctx.parents, 1, Len(ctx.parents) - 1)
      /\ ctx'.parents \in Seq(T)
      /\ Len(ctx'.parents) = depth - 1
  <2>1. ctx'.parents = SubSeq(ctx.parents, 1, Len(ctx.parents) - 1)
    BY <1>1 DEF Inv, Types, IsCtx, Cparen, ProgramAdd
  <2> QED
    BY <1>1, <1>2, <1>4, <2>1
<1>6. IsCtx'
  <2>1. IsList(ctx'.parents)
    BY <1>5 DEF IsList
  <2>2. ctx'.cursor = ctx.cursor + 1 /\ ctx'.matched = TRUE /\ ctx'.open = FALSE
    BY <1>1 DEF Inv, Types, IsCtx, Cparen, ProgramAdd
  <2>3. ctx' = [cursor |-> ctx'.cursor, program |-> ctx'.program,
                parents |-> ctx'.parents, matched |-> ctx'.matched,
                open |-> ctx'.open]
    BY <1>1 DEF Inv, Types, IsCtx, Cparen, ProgramAdd
  <2>4. ctx'.cursor \in 1 .. Len(source') + 1
    BY <1>1, <1>3, <2>2 DEF Inv, Types
  <2> QED
    BY <2>1, <2>2, <2>3, <2>4 DEF IsCtx
<1>7. mode' \in Modes /\ Outside' /\ NestingAgrees' /\ depth' \in Nat
  BY <1>1, <1>2, <1>5 DEF After, Modes, Outside, NestingAgrees
<1> QED
  BY <1>1, <1>6, <1>7, ParsingInv

\* Where a list is not closed, those around it are not closed either.
LEMMA NotClosedInv ==
    ASSUME Inv, NotClosed
    PROVE  Inv'
<1>1. /\ mode = "cparen" /\ mode' = mode /\ depth > 0 /\ depth' = depth - 1
      /\ At(source, ctx.cursor) # ")" /\ ctx' = Unmatched(ctx, TRUE)
      /\ source' = source /\ Parsing
  BY DEF NotClosed, Parsing
<1>2. IsCtx' /\ ctx'.cursor = ctx.cursor
  BY <1>1 DEF Inv, Types, IsCtx, Unmatched
<1>3. depth' \in Nat
  BY <1>1 DEF Inv, Types
<1>4. mode' \in Modes /\ Outside' /\ NestingAgrees'
  BY <1>1, <1>2 DEF Modes, Outside, NestingAgrees
<1> QED
  BY <1>1, <1>2, <1>3, <1>4, ParsingInv

LEMMA NextInv == Inv /\ [Next]_vars => Inv'
<1> SUFFICES ASSUME Inv, [Next]_vars PROVE Inv'
  OBVIOUS
<1>1. ASSUME ctx' = ctx, depth' = depth, UNCHANGED <<input, at, source>>,
             eof' \in BOOLEAN, mode' \in {"line", "parsed", "done"},
             mode' # "done" => depth = 0
      PROVE  Inv'
  BY <1>1 DEF Inv, Types, IsCtx, Modes, Outside, NestingAgrees, SourceIsRead
<1>2. CASE ReadLine
  BY <1>2, ReadMore
<1>3. CASE ReadNothing
  BY <1>1, <1>3 DEF ReadNothing
<1>4. CASE ParseValue
  BY <1>4, ParseValueInv
<1>5. CASE ParseOparen
  BY <1>5, ParseOparenInv
<1>6. CASE ParseNothing
  BY <1>6, ParseNothingInv
<1>7. CASE ParseCparen
  BY <1>7, ParseCparenInv
<1>8. CASE NotClosed
  BY <1>8, NotClosedInv
<1>9. CASE NoMatch
  BY <1>1, <1>9 DEF NoMatch, Inv, Types
<1>10. CASE Answer
  BY <1>1, <1>10 DEF Answer, Inv, Types
<1>11. CASE Rethrow
  BY <1>1, <1>11 DEF Rethrow, Inv, Types
<1>12. CASE ReadOn
  BY <1>1, <1>12 DEF ReadOn, Inv, Types, Outside
<1>13. CASE UNCHANGED vars
  BY <1>13 DEF vars, Inv, Types, IsCtx, Outside, NestingAgrees, SourceIsRead
<1> QED
  BY <1>2, <1>3, <1>4, <1>5, <1>6, <1>7, <1>8, <1>9, <1>10, <1>11, <1>12, <1>13
  DEF Next

LEMMA Invariant == Spec => []Inv
BY InitInv, NextInv, PTL DEF Spec

-----------------------------------------------------------------------------

\* Every variable has its type: no position the parser gets to is outside the
\* text that has been read (the cursor of src/parse.c).
THEOREM TypeCorrect == Spec => []TypeOK
<1>1. Inv => TypeOK
  BY DEF Inv, Types, IsCtx, TypeOK
<1> QED
  BY <1>1, Invariant, PTL

\* The calls of via_parse_sexpr and the parents of the contexts agree, so that
\* via_parse_cparen never reads the parent of a context that has none.
THEOREM ParensPair == Spec => []NestingAgrees
<1>1. Inv => NestingAgrees
  BY DEF Inv
<1> QED
  BY <1>1, Invariant, PTL

\* Whatever the lines and the size of the buffer, the text parsed is the beginning
\* of the file (read-datum of src/native.via, via_p_file_readline).
THEOREM TextIsRead == Spec => []SourceIsRead
<1>1. Inv => SourceIsRead
  BY DEF Inv
<1> QED
  BY <1>1, Invariant, PTL

-----------------------------------------------------------------------------
(* The lexer: what one character does. *)

\* The character that strings begin and end with.
Quote == "\""

LEMMA Chars ==
    Quote \notin {" ", "\n", ")", ";", "(", "#", "0", "1", "'", "end of text"}
BY Zenon DEF Quote

LEMMA BetweenRules ==
    ASSUME NEW tokens, NEW c
    PROVE  /\ c \in White => Between(tokens, c) = Lexed(tokens, "", <<>>)
           /\ c = ";" => Between(tokens, c) = Lexed(tokens, "comment", <<>>)
           /\ c \in {"(", ")"} =>
                Between(tokens, c) = Lexed(Append(tokens, <<c>>), "", <<>>)
           /\ c = Quote => Between(tokens, c) = Lexed(tokens, "string", <<c>>)
           /\ c \notin Terminators \cup {"(", Quote} =>
                Between(tokens, c) = Lexed(tokens, "atom", <<c>>)
<1>1. Between(tokens, c) =
        CASE c \in {" ", "\n"} -> Lexed(tokens, "", <<>>)
          [] c = ";" -> Lexed(tokens, "comment", <<>>)
          [] c \in {"(", ")"} -> Lexed(Append(tokens, <<c>>), "", <<>>)
          [] c = Quote -> Lexed(tokens, "string", <<c>>)
          [] OTHER -> Lexed(tokens, "atom", <<c>>)
  BY Zenon DEF Between, Quote
<1>2. Quote \notin {" ", "\n", ")", ";", "("}
  BY Chars
<1>3. White = {" ", "\n"} /\ Terminators = {" ", "\n", ")", ";"}
  BY DEF White, Terminators
<1>4. PICK B : B = Between(tokens, c)
  OBVIOUS
<1> DEFINE L(kind, token) == Lexed(tokens, kind, token)
           P(cc) == Lexed(Append(tokens, <<cc>>), "", <<>>)
<1> HIDE DEF L, P
<1> QED
  BY <1>1, <1>2, <1>3

LEMMA InStringRules ==
    ASSUME NEW st, NEW c
    PROVE  /\ c = Quote => InString(st, c)
                = Lexed(Append(st.tokens, Append(st.token, c)), "", <<>>)
           /\ c = "\n" => InString(st, c)
                = Lexed(Append(st.tokens, <<"(", c>>), "", <<>>)
           /\ c \notin {Quote, "\n"} => InString(st, c)
                = Lexed(st.tokens, "string", Append(st.token, c))
<1>1. InString(st, c) =
    CASE c = Quote -> Lexed(Append(st.tokens, Append(st.token, c)), "", <<>>)
      [] c = "\n" -> Lexed(Append(st.tokens, <<"(", c>>), "", <<>>)
      [] OTHER -> Lexed(st.tokens, "string", Append(st.token, c))
  BY Zenon DEF InString, Quote
<1> QED
  BY <1>1, Chars

LEMMA LexRules ==
    ASSUME NEW st, NEW c
    PROVE  /\ st.kind = "string" => Lex(st, c) = InString(st, c)
           /\ st.kind = "comment" =>
                Lex(st, c) = IF c = "\n" THEN Lexed(st.tokens, "", <<>>) ELSE st
           /\ st.kind = "atom" /\ c \notin Terminators =>
                Lex(st, c) = Lexed(st.tokens, "atom", Append(st.token, c))
           /\ st.kind = "" \/ (st.kind = "atom" /\ c \in Terminators) =>
                Lex(st, c) = Between(Ended(st), c)
<1>1. Terminators = {" ", "\n", ")", ";"}
  BY DEF White, Terminators
<1> QED
  BY <1>1 DEF Lex, InAtom

-----------------------------------------------------------------------------
(* Counting, and the lexer's function. *)

\* What holds of 0 and of the number after each of which it holds, holds of all.
LEMMA Counting ==
    ASSUME NEW S, 0 \in S, \A k \in Nat : k \in S => k + 1 \in S
    PROVE  \A k \in Nat : k \in S
<1> DEFINE T == {k \in Nat : k \notin S}
<1> SUFFICES ASSUME T # {} PROVE FALSE
  OBVIOUS
<1>1. PICK x \in T : \A y \in T : x <= y
  <2>1. T \subseteq Nat
    OBVIOUS
  <2> HIDE DEF T
  <2> QED
    BY <2>1, FirstIsSmallest
<1>2. x # 0 /\ x \in Nat /\ x - 1 \in Nat /\ ~(x <= x - 1)
  BY <1>1
<1>3. x - 1 \notin T
  BY <1>1, <1>2
<1>4. x \in S
  BY <1>2, <1>3
<1> QED
  BY <1>1, <1>4

\* The characters and tokens the lexer meets, and makes.
Glyphs == STRING \cup {"(", "\n"}
Lexemes == Seq(Glyphs)
Kinds == {"", "atom", "string", "comment"}
LexStates == [tokens : Seq(Lexemes), kind : Kinds, token : Lexemes]

\* What Lexing is, said of a function, up to some position.
LexesTo(text, f, m) ==
    f = [n \in 0 .. m |->
            IF n = 0 THEN Unlexed ELSE Lex(f[n - 1], text[n])]

LEMMA LexesToRule ==
    ASSUME NEW text, NEW f, NEW m \in Nat
    PROVE  LexesTo(text, f, m) <=>
              /\ f = [n \in 0 .. m |-> f[n]]
              /\ f[0] = Unlexed
              /\ \A n \in 1 .. m : f[n] = Lex(f[n - 1], text[n])
<1> DEFINE G(n) == IF n = 0 THEN Unlexed ELSE Lex(f[n - 1], text[n])
<1>1. LexesTo(text, f, m) <=> f = [n \in 0 .. m |-> G(n)]
  BY DEF LexesTo
<1> QED
  BY <1>1

LEMMA LexesToSome ==
    ASSUME NEW text
    PROVE  \A m \in Nat : \E f : LexesTo(text, f, m)
<1> DEFINE S == {m \in Nat : \E f : LexesTo(text, f, m)}
<1>1. 0 \in S
  <2>1. LexesTo(text, [n \in 0 .. 0 |-> Unlexed], 0)
    BY DEF LexesTo
  <2> QED
    BY <2>1
<1>2. ASSUME NEW k \in Nat, k \in S PROVE k + 1 \in S
  <2>1. PICK f : LexesTo(text, f, k)
    BY <1>2
  <2>2. PICK y : y = Lex(f[k], text[k + 1])
    OBVIOUS
  <2>3. PICK g : g = [n \in 0 .. k + 1 |-> IF n = k + 1 THEN y ELSE f[n]]
    OBVIOUS
  <2>4. /\ k + 1 \in Nat /\ g = [n \in 0 .. k + 1 |-> g[n]] /\ g[k + 1] = y
        /\ \A n \in 0 .. k : g[n] = f[n]
    BY <2>3
  <2>5. /\ f[0] = Unlexed
        /\ \A n \in 1 .. k : f[n] = Lex(f[n - 1], text[n])
    BY <2>1, LexesToRule
  <2>6. ASSUME NEW n \in 1 .. k + 1
        PROVE  g[n] = Lex(g[n - 1], text[n])
    <3>1. g[n - 1] = f[n - 1]
      BY <2>4
    <3>2. CASE n = k + 1
      BY <2>2, <2>4, <3>1, <3>2
    <3>3. CASE n # k + 1
      <4>1. n \in 1 .. k /\ n \in 0 .. k
        BY <3>3
      <4> QED
        BY <2>4, <2>5, <3>1, <4>1
    <3> QED
      BY <3>2, <3>3
  <2>7. g[0] = Unlexed
    <3>1. 0 \in 0 .. k
      OBVIOUS
    <3> QED
      BY <2>4, <2>5, <3>1
  <2>8. LexesTo(text, g, k + 1)
    BY <2>4, <2>6, <2>7, LexesToRule
  <2> QED
    BY <2>4, <2>8
<1> HIDE DEF S
<1>3. \A m \in Nat : m \in S
  BY <1>1, <1>2, Counting
<1> QED
  BY <1>3 DEF S

\* Lexing goes on from the state before with the next character.
LEMMA LexingRule ==
    ASSUME NEW text, Len(text) \in Nat
    PROVE  /\ Lexing(text)[0] = Unlexed
           /\ \A n \in 1 .. Len(text) :
                 Lexing(text)[n] = Lex(Lexing(text)[n - 1], text[n])
<1>1. Lexing(text) = CHOOSE f : LexesTo(text, f, Len(text))
  BY DEF Lexing, LexesTo
<1>2. LexesTo(text, Lexing(text), Len(text))
  BY <1>1, LexesToSome
<1> QED
  BY <1>2, LexesToRule

-----------------------------------------------------------------------------
(* The lexer's types. *)

LEMMA LexedFields ==
    ASSUME NEW tokens, NEW kind, NEW token
    PROVE  /\ Lexed(tokens, kind, token).tokens = tokens
           /\ Lexed(tokens, kind, token).kind = kind
           /\ Lexed(tokens, kind, token).token = token
BY DEF Lexed

LEMMA LexedType ==
    ASSUME NEW tokens \in Seq(Lexemes), NEW kind \in Kinds, NEW token \in Lexemes
    PROVE  Lexed(tokens, kind, token) \in LexStates
BY DEF Lexed, LexStates

LEMMA LexStateParts ==
    ASSUME NEW st \in LexStates
    PROVE  st.tokens \in Seq(Lexemes) /\ st.kind \in Kinds /\ st.token \in Lexemes
BY DEF LexStates

LEMMA KindsAre ==
    /\ Kinds = {"", "atom", "string", "comment"}
    /\ "" \in Kinds /\ "atom" \in Kinds /\ "string" \in Kinds /\ "comment" \in Kinds
BY DEF Kinds

LEMMA LexemesAre ==
    /\ <<>> \in Lexemes
    /\ <<>> \in Seq(Lexemes)
    /\ <<"(", "\n">> \in Lexemes
    /\ \A c \in Glyphs : <<c>> \in Lexemes
    /\ \A token \in Lexemes, c \in Glyphs : Append(token, c) \in Lexemes
    /\ \A tokens \in Seq(Lexemes), token \in Lexemes :
          Append(tokens, token) \in Seq(Lexemes)
<1>1. "(" \in Glyphs /\ "\n" \in Glyphs
  BY DEF Glyphs
<1>2. ASSUME NEW G, NEW x \in G, NEW y \in G PROVE <<x, y>> \in Seq(G)
  BY <1>2
<1>3. <<"(", "\n">> \in Lexemes
  BY <1>1, <1>2 DEF Lexemes
<1>4. <<>> \in Lexemes /\ \A c \in Glyphs : <<c>> \in Lexemes
  BY DEF Lexemes
<1>5. \A token \in Lexemes, c \in Glyphs : Append(token, c) \in Lexemes
  BY DEF Lexemes
<1>6. \A tokens \in Seq(Lexemes), token \in Lexemes :
          Append(tokens, token) \in Seq(Lexemes)
  OBVIOUS
<1> QED
  BY <1>3, <1>4, <1>5, <1>6

LEMMA UnlexedType ==
    /\ Unlexed \in LexStates
    /\ Unlexed.tokens = <<>>
    /\ Unlexed.kind = ""
<1>1. Unlexed = Lexed(<<>>, "", <<>>)
  BY DEF Unlexed
<1>2. Lexed(<<>>, "", <<>>) \in LexStates
  BY LexemesAre, KindsAre, LexedType
<1>3. Unlexed.tokens = <<>> /\ Unlexed.kind = ""
  BY DEF Unlexed, Lexed
<1> QED
  BY <1>1, <1>2, <1>3

LEMMA EndedType ==
    ASSUME NEW st \in LexStates
    PROVE  Ended(st) \in Seq(Lexemes)
<1>1. st.tokens \in Seq(Lexemes) /\ st.token \in Lexemes
  BY DEF LexStates
<1> QED
  BY <1>1 DEF Ended

LEMMA BetweenType ==
    ASSUME NEW tokens \in Seq(Lexemes), NEW c \in Glyphs
    PROVE  Between(tokens, c) \in LexStates
<1>1. /\ Lexed(tokens, "", <<>>) \in LexStates
      /\ Lexed(tokens, "comment", <<>>) \in LexStates
      /\ Lexed(Append(tokens, <<c>>), "", <<>>) \in LexStates
      /\ Lexed(tokens, "string", <<c>>) \in LexStates
      /\ Lexed(tokens, "atom", <<c>>) \in LexStates
  <2>1. <<c>> \in Lexemes /\ Append(tokens, <<c>>) \in Seq(Lexemes)
    BY LexemesAre
  <2> QED
    BY <2>1, LexedType, LexemesAre, KindsAre
<1>2. \/ c \in White \/ c = ";" \/ c \in {"(", ")"} \/ c = Quote
      \/ c \notin Terminators \cup {"(", Quote}
  BY DEF Terminators
<1> QED
  BY <1>1, <1>2, BetweenRules

LEMMA InStringType ==
    ASSUME NEW st \in LexStates, NEW c \in Glyphs
    PROVE  InString(st, c) \in LexStates
<1>1. st.tokens \in Seq(Lexemes) /\ st.token \in Lexemes
  BY LexStateParts
<1>2. Append(st.token, c) \in Lexemes
  BY <1>1, LexemesAre
<1>3. /\ Lexed(Append(st.tokens, Append(st.token, c)), "", <<>>) \in LexStates
      /\ Lexed(Append(st.tokens, <<"(", "\n">>), "", <<>>) \in LexStates
      /\ Lexed(st.tokens, "string", Append(st.token, c)) \in LexStates
  <2>1. /\ Append(st.tokens, Append(st.token, c)) \in Seq(Lexemes)
        /\ Append(st.tokens, <<"(", "\n">>) \in Seq(Lexemes)
    BY <1>1, <1>2, LexemesAre
  <2> QED
    BY <1>1, <1>2, <2>1, LexedType, LexemesAre, KindsAre
<1> QED
  BY <1>3, InStringRules

LEMMA LexType ==
    ASSUME NEW st \in LexStates, NEW c \in Glyphs
    PROVE  Lex(st, c) \in LexStates
<1>1. st.tokens \in Seq(Lexemes) /\ st.token \in Lexemes /\ st.kind \in Kinds
  BY LexStateParts
<1>2. CASE st.kind = "string"
  BY <1>2, LexRules, InStringType
<1>3. CASE st.kind = "comment"
  <2>1. Lexed(st.tokens, "", <<>>) \in LexStates
    BY <1>1, LexedType, LexemesAre, KindsAre
  <2> QED
    BY <1>3, <2>1, LexRules
<1>4. CASE st.kind = "atom" /\ c \notin Terminators
  <2>1. Append(st.token, c) \in Lexemes
    BY <1>1, LexemesAre
  <2>2. Lexed(st.tokens, "atom", Append(st.token, c)) \in LexStates
    BY <1>1, <2>1, LexedType, KindsAre
  <2> QED
    BY <1>4, <2>2, LexRules
<1>5. CASE st.kind = "" \/ (st.kind = "atom" /\ c \in Terminators)
  BY <1>5, LexRules, EndedType, BetweenType
<1>6. Kinds = {"", "atom", "string", "comment"}
  BY KindsAre
<1> QED
  BY <1>1, <1>2, <1>3, <1>4, <1>5, <1>6

LEMMA LexingType ==
    ASSUME NEW text \in Lexemes
    PROVE  \A n \in 0 .. Len(text) : Lexing(text)[n] \in LexStates
<1>1. Len(text) \in Nat /\ \A n \in 1 .. Len(text) : text[n] \in Glyphs
  BY DEF Lexemes
<1> DEFINE S == {n \in Nat : n <= Len(text) => Lexing(text)[n] \in LexStates}
<1>2. 0 \in S
  BY <1>1, LexingRule, UnlexedType
<1>3. ASSUME NEW k \in Nat, k \in S PROVE k + 1 \in S
  <2>1. SUFFICES ASSUME k + 1 <= Len(text)
                 PROVE  Lexing(text)[k + 1] \in LexStates
    OBVIOUS
  <2>2. Lexing(text)[k] \in LexStates /\ k + 1 \in 1 .. Len(text)
    BY <1>1, <1>3, <2>1
  <2>3. Lexing(text)[k + 1] = Lex(Lexing(text)[(k + 1) - 1], text[k + 1])
    BY <1>1, <2>2, LexingRule
  <2>4. (k + 1) - 1 = k /\ text[k + 1] \in Glyphs
    BY <1>1, <2>2
  <2> QED
    BY <2>2, <2>3, <2>4, LexType
<1> HIDE DEF S
<1>4. \A n \in Nat : n \in S
  BY <1>2, <1>3, Counting
<1> QED
  BY <1>1, <1>4 DEF S

\* A beginning of a text is cut as the text is.
LEMMA LexingBeginning ==
    ASSUME NEW text \in Lexemes, NEW m \in 0 .. Len(text)
    PROVE  \A n \in 0 .. m :
              Lexing(SubSeq(text, 1, m))[n] = Lexing(text)[n]
<1> DEFINE start == SubSeq(text, 1, m)
           S == {n \in Nat : n <= m => Lexing(start)[n] = Lexing(text)[n]}
<1>1. /\ Len(text) \in Nat /\ Len(start) = m /\ m \in Nat /\ m <= Len(text)
      /\ \A n \in 1 .. m : start[n] = text[n]
  BY DEF Lexemes
<1> HIDE DEF start
<1>2. 0 \in S
  BY <1>1, LexingRule
<1>3. ASSUME NEW k \in Nat, k \in S PROVE k + 1 \in S
  <2>1. SUFFICES ASSUME k + 1 <= m
                 PROVE  Lexing(start)[k + 1] = Lexing(text)[k + 1]
    OBVIOUS
  <2>2. /\ k + 1 \in 1 .. m /\ k + 1 \in 1 .. Len(text) /\ (k + 1) - 1 = k
        /\ Lexing(start)[k] = Lexing(text)[k]
    BY <1>1, <1>3, <2>1
  <2>3. /\ Lexing(start)[k + 1] = Lex(Lexing(start)[(k + 1) - 1], start[k + 1])
        /\ Lexing(text)[k + 1] = Lex(Lexing(text)[(k + 1) - 1], text[k + 1])
    BY <1>1, <2>2, LexingRule
  <2> QED
    BY <1>1, <2>2, <2>3
<1> HIDE DEF S
<1>4. \A n \in Nat : n \in S
  BY <1>2, <1>3, Counting
<1> QED
  BY <1>1, <1>4 DEF S, start

-----------------------------------------------------------------------------
(* What has been cut stays. *)

LEMMA LexedAs ==
    ASSUME NEW st, NEW tokens, NEW kind, NEW token, st = Lexed(tokens, kind, token)
    PROVE  st.tokens = tokens /\ st.kind = kind /\ st.token = token
BY DEF Lexed

\* Sequences that begin with all of another.
Begins(s, t) ==
    /\ Len(s) <= Len(t)
    /\ \A i \in 1 .. Len(s) : s[i] = t[i]

LEMMA BeginsItself ==
    ASSUME NEW S, NEW s \in Seq(S)
    PROVE  Begins(s, s)
BY DEF Begins

LEMMA BeginsLonger ==
    ASSUME NEW S, NEW s \in Seq(S), NEW x \in S
    PROVE  Begins(s, Append(s, x))
BY AppendProperties DEF Begins

LEMMA BeginsTransitive ==
    ASSUME NEW S, NEW s \in Seq(S), NEW t \in Seq(S), NEW u \in Seq(S),
           Begins(s, t), Begins(t, u)
    PROVE  Begins(s, u)
<1>1. Len(s) \in Nat /\ Len(t) \in Nat /\ Len(u) \in Nat
  OBVIOUS
<1>2. \A i \in 1 .. Len(s) : i \in 1 .. Len(t)
  BY <1>1 DEF Begins
<1> QED
  BY <1>1, <1>2 DEF Begins

\* It is cut off after as many.
LEMMA BeginsAsSubSeq ==
    ASSUME NEW S, NEW s \in Seq(S), NEW t \in Seq(S), Begins(s, t)
    PROVE  s = SubSeq(t, 1, Len(s))
<1> DEFINE u == SubSeq(t, 1, Len(s))
<1>1. Len(s) \in Nat /\ Len(t) \in Nat /\ Len(s) <= Len(t)
  BY DEF Begins
<1>2. u \in Seq(S) /\ Len(u) = Len(s) /\ \A i \in 1 .. Len(s) : u[i] = t[i]
  BY <1>1
<1> HIDE DEF u
<1>3. s = u
  BY <1>2, SeqEqual DEF Begins
<1> QED
  BY <1>3 DEF u

LEMMA SubSeqBegins ==
    ASSUME NEW S, NEW t \in Seq(S), NEW n \in 0 .. Len(t)
    PROVE  Begins(SubSeq(t, 1, n), t)
BY DEF Begins

LEMMA EndedGrows ==
    ASSUME NEW st \in LexStates
    PROVE  Begins(st.tokens, Ended(st))
<1>1. st.tokens \in Seq(Lexemes) /\ st.token \in Lexemes
  BY LexStateParts
<1> QED
  BY <1>1, BeginsItself, BeginsLonger DEF Ended

LEMMA BetweenGrows ==
    ASSUME NEW tokens \in Seq(Lexemes), NEW c \in Glyphs
    PROVE  Begins(tokens, Between(tokens, c).tokens)
<1>1. <<c>> \in Lexemes
  BY LexemesAre
<1>2. Begins(tokens, tokens) /\ Begins(tokens, Append(tokens, <<c>>))
  BY <1>1, BeginsItself, BeginsLonger
<1>3. Between(tokens, c).tokens \in {tokens, Append(tokens, <<c>>)}
  <2>1. \/ c \in White \/ c = ";" \/ c \in {"(", ")"} \/ c = Quote
        \/ c \notin Terminators \cup {"(", Quote}
    BY DEF Terminators
  <2>2. \/ Between(tokens, c) = Lexed(tokens, "", <<>>)
        \/ Between(tokens, c) = Lexed(tokens, "comment", <<>>)
        \/ Between(tokens, c) = Lexed(Append(tokens, <<c>>), "", <<>>)
        \/ Between(tokens, c) = Lexed(tokens, "string", <<c>>)
        \/ Between(tokens, c) = Lexed(tokens, "atom", <<c>>)
    BY <2>1, BetweenRules
  <2> QED
    BY <2>2, LexedAs
<1> QED
  BY <1>2, <1>3

LEMMA LexGrows ==
    ASSUME NEW st \in LexStates, NEW c \in Glyphs
    PROVE  Begins(st.tokens, Lex(st, c).tokens)
<1>1. st.tokens \in Seq(Lexemes) /\ st.token \in Lexemes /\ st.kind \in Kinds
  BY LexStateParts
<1>2. /\ Begins(st.tokens, st.tokens)
      /\ \A x \in Lexemes : Begins(st.tokens, Append(st.tokens, x))
  BY <1>1, BeginsItself, BeginsLonger
<1>3. CASE st.kind = "string"
  <2>1. Append(st.token, c) \in Lexemes /\ <<"(", "\n">> \in Lexemes
    BY <1>1, LexemesAre
  <2>2. \/ InString(st, c).tokens = st.tokens
        \/ InString(st, c).tokens = Append(st.tokens, Append(st.token, c))
        \/ InString(st, c).tokens = Append(st.tokens, <<"(", "\n">>)
    <3>1. \/ InString(st, c) = Lexed(Append(st.tokens, Append(st.token, c)), "", <<>>)
          \/ InString(st, c) = Lexed(Append(st.tokens, <<"(", "\n">>), "", <<>>)
          \/ InString(st, c) = Lexed(st.tokens, "string", Append(st.token, c))
      BY InStringRules
    <3> QED
      BY <3>1, LexedAs
  <2>3. Begins(st.tokens, InString(st, c).tokens)
    BY <1>2, <2>1, <2>2
  <2> QED
    BY <1>3, <2>3, LexRules
<1>4. CASE st.kind = "comment"
  <2>1. \/ Lex(st, c) = Lexed(st.tokens, "", <<>>)
        \/ Lex(st, c) = st
    BY <1>4, LexRules
  <2>2. Lex(st, c).tokens = st.tokens
    BY <2>1, LexedAs
  <2> QED
    BY <1>2, <2>2
<1>5. CASE st.kind = "atom" /\ c \notin Terminators
  <2>1. Lex(st, c) = Lexed(st.tokens, "atom", Append(st.token, c))
    BY <1>5, LexRules
  <2>2. Lex(st, c).tokens = st.tokens
    BY <2>1, LexedAs
  <2> QED
    BY <1>2, <2>2
<1>6. CASE st.kind = "" \/ (st.kind = "atom" /\ c \in Terminators)
  <2>1. Lex(st, c) = Between(Ended(st), c)
    BY <1>6, LexRules
  <2>2. Ended(st) \in Seq(Lexemes) /\ Begins(Ended(st), Between(Ended(st), c).tokens)
    BY EndedType, BetweenGrows
  <2>3. Between(Ended(st), c).tokens \in Seq(Lexemes)
    BY <2>2, BetweenType, LexStateParts
  <2> QED
    BY <1>1, <2>1, <2>2, <2>3, EndedGrows, BeginsTransitive
<1>7. Kinds = {"", "atom", "string", "comment"}
  BY KindsAre
<1> QED
  BY <1>1, <1>3, <1>4, <1>5, <1>6, <1>7

LEMMA LexingGrows ==
    ASSUME NEW text \in Lexemes, NEW m \in 0 .. Len(text)
    PROVE  \A n \in m .. Len(text) :
              Begins(Lexing(text)[m].tokens, Lexing(text)[n].tokens)
<1>1. Len(text) \in Nat /\ m \in Nat /\ \A n \in 1 .. Len(text) : text[n] \in Glyphs
  BY DEF Lexemes
<1>2. \A n \in 0 .. Len(text) : /\ Lexing(text)[n] \in LexStates
                                /\ Lexing(text)[n].tokens \in Seq(Lexemes)
  BY LexingType, LexStateParts
<1> DEFINE S == {n \in Nat : n >= m /\ n <= Len(text) =>
                    Begins(Lexing(text)[m].tokens, Lexing(text)[n].tokens)}
<1>3. m \in S
  BY <1>1, <1>2, BeginsItself
<1>4. ASSUME NEW k \in Nat, k \in S PROVE k + 1 \in S
  <2>1. SUFFICES ASSUME k + 1 >= m, k + 1 <= Len(text)
                 PROVE  Begins(Lexing(text)[m].tokens, Lexing(text)[k + 1].tokens)
    OBVIOUS
  <2>2. CASE k + 1 = m
    BY <1>1, <1>2, <2>2, BeginsItself
  <2>3. CASE k + 1 # m
    <3>1. Begins(Lexing(text)[m].tokens, Lexing(text)[k].tokens)
      BY <1>1, <1>4, <2>1, <2>3
    <3>2. Lexing(text)[k + 1] = Lex(Lexing(text)[(k + 1) - 1], text[k + 1])
      BY <1>1, <2>1, LexingRule
    <3>3. /\ (k + 1) - 1 = k /\ text[k + 1] \in Glyphs /\ k \in 0 .. Len(text)
          /\ k + 1 \in 0 .. Len(text)
      BY <1>1, <2>1
    <3>4. Begins(Lexing(text)[k].tokens, Lexing(text)[k + 1].tokens)
      BY <1>2, <3>2, <3>3, LexGrows
    <3> QED
      BY <1>2, <3>1, <3>3, <3>4, BeginsTransitive
  <2> QED
    BY <2>2, <2>3
<1>5. 0 \in S
  <2>1. CASE m = 0
    BY <1>3, <2>1
  <2>2. CASE m # 0
    BY <1>1, <2>2
  <2> QED
    BY <2>1, <2>2
<1> HIDE DEF S
<1>6. \A n \in Nat : n \in S
  BY <1>4, <1>5, Counting
<1> QED
  BY <1>1, <1>6 DEF S

LEMMA TokensType ==
    ASSUME NEW text \in Lexemes
    PROVE  Tokens(text) \in Seq(Lexemes)
<1>1. Len(text) \in 0 .. Len(text)
  BY DEF Lexemes
<1> QED
  BY <1>1, LexingType, EndedType DEF Tokens

\* What has been cut stays.
LEMMA TokensGrow ==
    ASSUME NEW text \in Lexemes, NEW n \in 0 .. Len(text)
    PROVE  Begins(Lexing(text)[n].tokens, Tokens(text))
<1>1. Len(text) \in n .. Len(text) /\ Len(text) \in 0 .. Len(text)
  BY DEF Lexemes
<1>2. /\ Lexing(text)[n] \in LexStates /\ Lexing(text)[Len(text)] \in LexStates
      /\ Begins(Lexing(text)[n].tokens, Lexing(text)[Len(text)].tokens)
  BY <1>1, LexingType, LexingGrows
<1> QED
  BY <1>2, LexStateParts, EndedType, EndedGrows, BeginsTransitive DEF Tokens

\* What has been cut before a position, and whether a token can begin there.
Before(text, c) == Lexing(text)[c - 1]

AtCut(text, c) ==
    /\ c \in 1 .. Len(text) + 1
    /\ \/ Before(text, c).kind = ""
       \/ /\ Before(text, c).kind = "atom"
          /\ c <= Len(text) => text[c] \in Terminators

Consumed(text, c) == Ended(Before(text, c))

LEMMA BeforeType ==
    ASSUME NEW text \in Lexemes, NEW c \in 1 .. Len(text) + 1
    PROVE  Before(text, c) \in LexStates /\ Consumed(text, c) \in Seq(Lexemes)
<1>1. c - 1 \in 0 .. Len(text)
  BY DEF Lexemes
<1> QED
  BY <1>1, LexingType, EndedType DEF Before, Consumed

LEMMA BeforeRule ==
    ASSUME NEW text \in Lexemes, NEW c \in 1 .. Len(text)
    PROVE  /\ c + 1 \in 1 .. Len(text) + 1 /\ c \in 1 .. Len(text) + 1
           /\ text[c] \in Glyphs
           /\ Before(text, c + 1) = Lex(Before(text, c), text[c])
<1>1. /\ Len(text) \in Nat /\ c \in 1 .. Len(text) /\ (c + 1) - 1 = c
      /\ c + 1 \in 1 .. Len(text) + 1 /\ c \in 1 .. Len(text) + 1
      /\ text[c] \in Glyphs
  BY DEF Lexemes
<1> QED
  BY <1>1, LexingRule DEF Before

LEMMA CutInside ==
    ASSUME NEW text \in Lexemes, NEW c, AtCut(text, c)
    PROVE  c \in 1 .. Len(text) + 1 /\ c \in Nat /\ Len(text) \in Nat
<1>1. Len(text) \in Nat
  BY DEF Lexemes
<1>2. c \in 1 .. Len(text) + 1
  BY Zenon DEF AtCut
<1> QED
  BY <1>1, <1>2

\* The next character where a token can begin.
LEMMA AfterCut ==
    ASSUME NEW text \in Lexemes, NEW c \in 1 .. Len(text), AtCut(text, c)
    PROVE  Before(text, c + 1) = Between(Consumed(text, c), text[c])
<1>1. c <= Len(text)
  BY DEF Lexemes
<1>2. \/ Before(text, c).kind = ""
      \/ Before(text, c).kind = "atom" /\ text[c] \in Terminators
  BY <1>1 DEF AtCut
<1> QED
  BY <1>2, BeforeRule, LexRules DEF Consumed

\* No token that ends before it changes.
LEMMA ConsumedBegins ==
    ASSUME NEW text \in Lexemes, NEW c, AtCut(text, c)
    PROVE  Begins(Consumed(text, c), Tokens(text))
<1>1. c \in 1 .. Len(text) + 1 /\ Len(text) \in Nat
  BY CutInside
<1>2. CASE c = Len(text) + 1
  <2>1. c - 1 = Len(text)
    BY <1>1, <1>2
  <2>2. Consumed(text, c) = Tokens(text)
    BY <2>1 DEF Consumed, Before, Tokens
  <2> QED
    BY <2>2, TokensType, BeginsItself
<1>3. CASE c # Len(text) + 1
  <2>1. c \in 1 .. Len(text) /\ c \in 0 .. Len(text) /\ (c + 1) - 1 = c
    BY <1>1, <1>3
  <2>2. Before(text, c + 1) = Between(Consumed(text, c), text[c])
    BY <2>1, AfterCut
  <2>3. text[c] \in Glyphs /\ Consumed(text, c) \in Seq(Lexemes)
    BY <1>1, <2>1, BeforeRule, BeforeType
  <2>4. Begins(Consumed(text, c), Before(text, c + 1).tokens)
    BY <2>2, <2>3, BetweenGrows
  <2>5. Begins(Before(text, c + 1).tokens, Tokens(text))
    BY <2>1, TokensGrow DEF Before
  <2>6. Before(text, c + 1).tokens \in Seq(Lexemes)
    BY <2>2, <2>3, BetweenType, LexStateParts
  <2> QED
    BY <2>3, <2>4, <2>5, <2>6, TokensType, BeginsTransitive
<1> QED
  BY <1>2, <1>3

-----------------------------------------------------------------------------
(* Blanks. *)

\* The first of some positions from one on, or the one after the text.
LEMMA FirstFrom ==
    ASSUME NEW n \in Nat, NEW i \in 1 .. n + 1, NEW T, T \subseteq i .. n
    PROVE  LET first == First(T \cup {n + 1})
           IN  /\ first \in i .. n + 1
               /\ \A j \in i .. first - 1 : j \notin T
               /\ first <= n => first \in T
<1> DEFINE U == T \cup {n + 1}
           first == First(U)
<1>1. U \subseteq Nat /\ U # {} /\ U \subseteq i .. n + 1
  OBVIOUS
<1>2. first \in U /\ \A j \in U : first <= j
  <2> HIDE DEF U
  <2> QED
    BY <1>1, FirstIsSmallest
<1> HIDE DEF first
<1>3. first \in i .. n + 1 /\ (first <= n => first \in T)
  BY <1>1, <1>2
<1>4. ASSUME NEW j \in i .. first - 1 PROVE j \notin T
  BY <1>2, <1>3
<1> QED
  BY <1>3, <1>4 DEF first

\* A comment begins with a semicolon, and goes on up to the end of the line.
LEMMA CommentBegins ==
    ASSUME NEW text, NEW i \in Nat
    PROVE  InComment(text, i, i) <=> text[i] = ";"
<1>1. i \in i .. i /\ \A m \in i .. i : m = i
  OBVIOUS
<1>2. ";" # "\n"
  OBVIOUS
<1> QED
  BY <1>1, <1>2, Zenon DEF InComment

LEMMA CommentGoesOn ==
    ASSUME NEW text, NEW i \in Nat, NEW j \in Nat, i <= j
    PROVE  InComment(text, i, j + 1) <=>
              \/ text[j + 1] = ";"
              \/ InComment(text, i, j) /\ text[j + 1] # "\n"
<1>1. ASSUME InComment(text, i, j + 1), text[j + 1] # ";"
      PROVE  InComment(text, i, j) /\ text[j + 1] # "\n"
  <2>1. PICK k \in i .. j + 1 :
           text[k] = ";" /\ \A m \in k .. j + 1 : text[m] # "\n"
    BY <1>1 DEF InComment
  <2>2. k # j + 1 /\ k \in i .. j + 1
    BY <1>1, <2>1, Zenon
  <2>3. k \in i .. j
    BY <2>2
  <2>4. \A m \in k .. j : m \in k .. j + 1
    OBVIOUS
  <2>5. j + 1 \in k .. j + 1
    BY <2>3
  <2> QED
    BY <2>1, <2>5, <2>3, <2>4, Zenon DEF InComment
<1>2. ASSUME text[j + 1] = ";" PROVE InComment(text, i, j + 1)
  <2>1. j + 1 \in i .. j + 1 /\ \A m \in j + 1 .. j + 1 : m = j + 1
    OBVIOUS
  <2>2. ";" # "\n"
    OBVIOUS
  <2> QED
    BY <1>2, <2>1, <2>2, Zenon DEF InComment
<1>3. ASSUME InComment(text, i, j), text[j + 1] # "\n"
      PROVE  InComment(text, i, j + 1)
  <2>1. PICK k \in i .. j : text[k] = ";" /\ \A m \in k .. j : text[m] # "\n"
    BY <1>3 DEF InComment
  <2>2. k \in i .. j + 1 /\ \A m \in k .. j + 1 : m \in k .. j \/ m = j + 1
    OBVIOUS
  <2> QED
    BY <1>3, <2>1, <2>2, Zenon DEF InComment
<1> QED
  BY <1>1, <1>2, <1>3

\* Positions up to the next one that is not blank.
LEMMA BlanksRule ==
    ASSUME NEW text, Len(text) \in Nat, NEW i \in 1 .. Len(text) + 1
    PROVE  LET next == AfterBlanks(text, i)
           IN  /\ next \in i .. Len(text) + 1
               /\ \A j \in i .. next - 1 : Blank(text, i, j)
               /\ next <= Len(text) => ~Blank(text, i, next)
<1> DEFINE T == {j \in i .. Len(text) : ~Blank(text, i, j)}
           next == AfterBlanks(text, i)
<1>1. next = First(T \cup {Len(text) + 1})
  BY DEF AfterBlanks
<1>2. T \subseteq i .. Len(text)
  OBVIOUS
<1> HIDE DEF next
<1>3. /\ next \in i .. Len(text) + 1
      /\ \A j \in i .. next - 1 : j \notin T
      /\ next <= Len(text) => next \in T
  <2> HIDE DEF T
  <2> QED
    BY <1>1, <1>2, FirstFrom
<1>4. \A j \in i .. next - 1 : j \in i .. Len(text)
  BY <1>3
<1>5. \A j \in i .. next - 1 : Blank(text, i, j)
  BY <1>3, <1>4
<1>6. next <= Len(text) => ~Blank(text, i, next)
  BY <1>3
<1> QED
  BY <1>3, <1>5, <1>6 DEF next

\* After a token, or at the beginning, blanks are no part of any token.
LEMMA BlanksLexed ==
    ASSUME NEW text \in Lexemes, NEW c, AtCut(text, c),
           NEW h, h = AfterBlanks(text, c)
    PROVE  \A j \in c .. h - 1 :
              /\ Before(text, j + 1).tokens = Consumed(text, c)
              /\ Before(text, j + 1).kind
                    = IF InComment(text, c, j) THEN "comment" ELSE ""
<1> DEFINE Done(j) == /\ Before(text, j + 1).tokens = Consumed(text, c)
                      /\ Before(text, j + 1).kind
                           = IF InComment(text, c, j) THEN "comment" ELSE ""
           S == {j \in Nat : c <= j /\ j < h => Done(j)}
<1>1. Len(text) \in Nat /\ c \in 1 .. Len(text) + 1 /\ c \in Nat
  BY CutInside
<1>2. h \in c .. Len(text) + 1 /\ \A j \in c .. h - 1 : Blank(text, c, j)
  BY <1>1, BlanksRule
<1>3. ASSUME c < h PROVE Done(c)
  <2>1. c \in 1 .. Len(text) /\ Blank(text, c, c)
    BY <1>1, <1>2, <1>3
  <2>2. Before(text, c + 1) = Between(Consumed(text, c), text[c])
    BY <2>1, AfterCut
  <2>3. CASE text[c] \in White
    <3>1. Before(text, c + 1) = Lexed(Consumed(text, c), "", <<>>)
      BY <2>2, <2>3, BetweenRules
    <3>2. text[c] # ";"
      BY <2>3 DEF White
    <3>3. ~InComment(text, c, c)
      BY <1>1, <3>2, CommentBegins
    <3> QED
      BY <3>1, <3>3, LexedAs
  <2>4. CASE text[c] \notin White
    <3>1. InComment(text, c, c)
      BY <2>1, <2>4, Zenon DEF Blank
    <3>3. text[c] = ";"
      BY <1>1, <3>1, CommentBegins
    <3>2. Before(text, c + 1) = Lexed(Consumed(text, c), "comment", <<>>)
      BY <2>2, <3>3, BetweenRules
    <3> QED
      BY <3>1, <3>2, LexedAs
  <2> QED
    BY <2>3, <2>4
<1>4. ASSUME NEW j \in Nat, c <= j, j + 1 < h, Done(j) PROVE Done(j + 1)
  <2>7. c <= j /\ j + 1 < h
    BY <1>4, Zenon
  <2>1. j + 1 \in 1 .. Len(text) /\ Blank(text, c, j + 1)
    BY <1>1, <1>2, <2>7
  <2>2. Before(text, (j + 1) + 1) = Lex(Before(text, j + 1), text[j + 1])
    BY <2>1, BeforeRule
  <2>3. InComment(text, c, j + 1) <=>
           \/ text[j + 1] = ";"
           \/ InComment(text, c, j) /\ text[j + 1] # "\n"
    BY <1>1, <1>4, CommentGoesOn
  <2>4. Before(text, j + 1).tokens = Consumed(text, c)
    BY <1>4
  <2>5. CASE InComment(text, c, j)
    <3>1. Before(text, j + 1).kind = "comment"
      BY <1>4, <2>5
    <3>2. CASE text[j + 1] = "\n"
      <4>1. Before(text, (j + 1) + 1) = Lexed(Consumed(text, c), "", <<>>)
        BY <2>2, <2>4, <3>1, <3>2, LexRules
      <4>2. ~InComment(text, c, j + 1)
        BY <2>3, <3>2
      <4> QED
        BY <4>1, <4>2, LexedAs
    <3>3. CASE text[j + 1] # "\n"
      <4>1. Before(text, (j + 1) + 1) = Before(text, j + 1)
        BY <2>2, <3>1, <3>3, LexRules
      <4>2. InComment(text, c, j + 1)
        BY <2>3, <2>5, <3>3
      <4> QED
        BY <2>4, <3>1, <4>1, <4>2
    <3> QED
      BY <3>2, <3>3
  <2>6. CASE ~InComment(text, c, j)
    <3>1. Before(text, j + 1).kind = ""
      BY <1>4, <2>6
    <3>2. Before(text, (j + 1) + 1) = Between(Consumed(text, c), text[j + 1])
      <4>1. Ended(Before(text, j + 1)) = Consumed(text, c)
        BY <2>4, <3>1 DEF Ended
      <4>2. Lex(Before(text, j + 1), text[j + 1])
              = Between(Ended(Before(text, j + 1)), text[j + 1])
        BY <3>1, LexRules
      <4> QED
        BY <2>2, <4>1, <4>2
    <3>3. CASE text[j + 1] \in White
      <4>1. Before(text, (j + 1) + 1) = Lexed(Consumed(text, c), "", <<>>)
        BY <3>2, <3>3, BetweenRules
      <4>2. ~InComment(text, c, j + 1)
        BY <2>3, <2>6, <3>3 DEF White
      <4> QED
        BY <4>1, <4>2, LexedAs
    <3>4. CASE text[j + 1] \notin White
      <4>1. text[j + 1] = ";" /\ InComment(text, c, j + 1)
        BY <2>1, <2>3, <2>6, <3>4 DEF Blank
      <4>2. Before(text, (j + 1) + 1) = Lexed(Consumed(text, c), "comment", <<>>)
        BY <3>2, <4>1, BetweenRules
      <4> QED
        BY <4>1, <4>2, LexedAs
    <3> QED
      BY <3>3, <3>4
  <2> QED
    BY <2>5, <2>6
<1> HIDE DEF Done
<1>5. 0 \in S
  BY <1>1
<1>6. ASSUME NEW j \in Nat, j \in S PROVE j + 1 \in S
  <2>1. CASE c <= j
    <3>1. j + 1 < h => Done(j)
      BY <1>1, <1>2, <1>6, <2>1
    <3>2. j + 1 < h => Done(j + 1)
      BY <1>4, <2>1, <3>1
    <3> QED
      BY <3>2
  <2>2. CASE ~(c <= j)
    BY <1>1, <1>3, <2>2
  <2> QED
    BY <2>1, <2>2
<1> HIDE DEF S
<1>7. \A j \in Nat : j \in S
  BY <1>5, <1>6, Counting
<1>8. \A j \in c .. h - 1 : j \in Nat /\ c <= j /\ j < h
  BY <1>1, <1>2
<1>9. \A j \in c .. h - 1 : Done(j)
  BY <1>7, <1>8 DEF S
<1> QED
  BY <1>9 DEF Done

\* After them a token can begin; a text that ends in them has no other token.
LEMMA BlanksSkipped ==
    ASSUME NEW text \in Lexemes, NEW c, AtCut(text, c),
           NEW h, h = AfterBlanks(text, c)
    PROVE  /\ h \in 1 .. Len(text) + 1
           /\ Consumed(text, h) = Consumed(text, c)
           /\ h <= Len(text) =>
                 /\ AtCut(text, h)
                 /\ text[h] \notin White \cup {";"}
           /\ h = Len(text) + 1 => Tokens(text) = Consumed(text, c)
<1>1. Len(text) \in Nat /\ c \in 1 .. Len(text) + 1 /\ c \in Nat
  BY CutInside
<1>2. /\ h \in c .. Len(text) + 1 /\ h \in 1 .. Len(text) + 1
      /\ h <= Len(text) => ~Blank(text, c, h)
  BY <1>1, BlanksRule
<1>3. ASSUME h <= Len(text) PROVE text[h] \notin White \cup {";"}
  <2>1. text[h] \notin White /\ ~InComment(text, c, h)
    BY <1>2, <1>3 DEF Blank
  <2>2. text[h] # ";"
    <3>1. CASE h = c
      <4>1. text[c] # ";"
        BY <1>1, <2>1, <3>1, CommentBegins
      <4> QED
        BY <3>1, <4>1
    <3>2. CASE h # c
      <4>1. h - 1 \in Nat /\ c <= h - 1 /\ (h - 1) + 1 = h /\ c \in Nat
        BY <1>1, <1>2, <3>2
      <4> QED
        BY <2>1, <4>1, CommentGoesOn
    <3> QED
      BY <3>1, <3>2
  <2> QED
    BY <2>1, <2>2
<1>4. CASE h = c
  <2>1. Consumed(text, h) = Consumed(text, c) /\ AtCut(text, h)
    BY <1>4
  <2>2. ASSUME h = Len(text) + 1 PROVE Tokens(text) = Consumed(text, c)
    <3>1. c - 1 = Len(text)
      BY <1>1, <1>4, <2>2
    <3> QED
      BY <3>1 DEF Consumed, Before, Tokens
  <2> QED
    BY <1>2, <1>3, <2>1, <2>2
<1>5. CASE h # c
  <2>1. h - 1 \in c .. h - 1 /\ (h - 1) + 1 = h
    BY <1>1, <1>2, <1>5
  <2>2. /\ Before(text, h).tokens = Consumed(text, c)
        /\ Before(text, h).kind
              = IF InComment(text, c, h - 1) THEN "comment" ELSE ""
    <3>1. /\ Before(text, (h - 1) + 1).tokens = Consumed(text, c)
          /\ Before(text, (h - 1) + 1).kind
                = IF InComment(text, c, h - 1) THEN "comment" ELSE ""
      BY <2>1, BlanksLexed, Zenon
    <3> QED
      BY <2>1, <3>1, Zenon
  <2>3. Consumed(text, h) = Consumed(text, c)
    BY <2>2 DEF Consumed, Ended
  <2>4. ASSUME h <= Len(text) PROVE AtCut(text, h)
    <3>1. text[h] \notin White /\ ~InComment(text, c, h)
      BY <1>2, <2>4 DEF Blank
    <3>2. h - 1 \in Nat /\ c <= h - 1 /\ c \in Nat
      BY <1>1, <1>2, <1>5
    <3>3. ~InComment(text, c, h - 1)
      BY <2>1, <3>1, <3>2, CommentGoesOn DEF White
    <3> QED
      BY <1>2, <2>2, <3>3 DEF AtCut
  <2>5. ASSUME h = Len(text) + 1 PROVE Tokens(text) = Consumed(text, c)
    <3>1. h - 1 = Len(text)
      BY <1>1, <2>5
    <3> QED
      BY <2>3, <3>1 DEF Consumed, Before, Tokens
  <2> QED
    BY <1>2, <1>3, <2>3, <2>4, <2>5
<1> QED
  BY <1>4, <1>5

-----------------------------------------------------------------------------
(* Runs of characters: atoms and strings. *)

LEMMA OneMore ==
    ASSUME NEW S, NEW s \in Seq(S), NEW i \in 1 .. Len(s), NEW j \in i .. Len(s),
           j < Len(s)
    PROVE  Append(SubSeq(s, i, j), s[j + 1]) = SubSeq(s, i, j + 1)
<1>1. Len(s) \in Nat /\ i \in Nat /\ j \in Nat
  OBVIOUS
<1>2. /\ j + 1 \in i .. Len(s) /\ (j + 1) - 1 = j /\ s[j + 1] \in S
      /\ s[i] \in S
  BY <1>1
<1>3. SubSeq(s, i, j + 1) = SubSeq(s, i, (j + 1) - 1) \o <<s[j + 1]>>
  BY <1>2, SubSeqRecursiveSecond
<1>4. SubSeq(s, i, j) \in Seq(S)
  <2>1. \A k \in i .. j : s[k] \in S
    BY <1>1
  <2> QED
    BY <1>1, <2>1, SubSeqProperties
<1>5. Append(SubSeq(s, i, j), s[j + 1]) = SubSeq(s, i, j) \o <<s[j + 1]>>
  BY <1>2, <1>4, AppendIsConcat
<1> QED
  BY <1>2, <1>3, <1>5

LEMMA One ==
    ASSUME NEW S, NEW s \in Seq(S), NEW i \in 1 .. Len(s)
    PROVE  SubSeq(s, i, i) = <<s[i]>>
<1>1. i \in Int /\ s[i] \in S /\ \A k \in i .. i : s[k] \in S
  OBVIOUS
<1>2. /\ SubSeq(s, i, i) \in Seq(S)
      /\ Len(SubSeq(s, i, i)) = IF i <= i THEN i - i + 1 ELSE 0
      /\ \A k \in 1 .. i - i + 1 : SubSeq(s, i, i)[k] = s[i + k - 1]
  BY <1>1, SubSeqProperties
<1>3. PICK one : one = SubSeq(s, i, i)
  OBVIOUS
<1>4. /\ one \in Seq(S) /\ Len(one) = 1 /\ one[1] = s[i]
      /\ <<s[i]>> \in Seq(S) /\ Len(<<s[i]>>) = 1 /\ <<s[i]>>[1] = s[i]
  BY <1>1, <1>2, <1>3
<1>5. \A k \in 1 .. 1 : k = 1
  OBVIOUS
<1>6. \A k \in 1 .. Len(one) : one[k] = <<s[i]>>[k]
  BY <1>4, <1>5
<1>7. one = <<s[i]>>
  BY <1>4, <1>6, SeqEqual
<1> QED
  BY <1>3, <1>7

\* A token that goes on is cut character by character.
LEMMA RunLexed ==
    ASSUME NEW text \in Lexemes, NEW i \in 1 .. Len(text),
           NEW end \in i + 1 .. Len(text) + 1, NEW tokens, NEW kind,
           Before(text, i + 1) = Lexed(tokens, kind, <<text[i]>>),
           \A j \in i + 1 .. end - 1 : \A token :
              Lex(Lexed(tokens, kind, token), text[j])
                = Lexed(tokens, kind, Append(token, text[j]))
    PROVE  Before(text, end) = Lexed(tokens, kind, SubSeq(text, i, end - 1))
<1> DEFINE Done(j) == Before(text, j + 1) = Lexed(tokens, kind, SubSeq(text, i, j))
           S == {j \in Nat : i <= j /\ j < end => Done(j)}
<1>1. Len(text) \in Nat /\ i \in Nat /\ end \in Nat
  BY DEF Lexemes
<1>2. Done(i)
  <2>1. SubSeq(text, i, i) = <<text[i]>>
    BY One DEF Lexemes
  <2> QED
    BY <2>1
<1>3. ASSUME NEW j \in Nat, i <= j, j + 1 < end, Done(j) PROVE Done(j + 1)
  <2>1. /\ j + 1 \in i + 1 .. end - 1 /\ j + 1 \in 1 .. Len(text)
        /\ j \in i .. Len(text) /\ j < Len(text)
    BY <1>1, <1>3
  <2>2. Before(text, (j + 1) + 1) = Lex(Before(text, j + 1), text[j + 1])
    BY <2>1, BeforeRule
  <2>3. Before(text, j + 1) = Lexed(tokens, kind, SubSeq(text, i, j))
    BY <1>3
  <2>4. Lex(Lexed(tokens, kind, SubSeq(text, i, j)), text[j + 1])
          = Lexed(tokens, kind, Append(SubSeq(text, i, j), text[j + 1]))
    BY <2>1
  <2>5. Append(SubSeq(text, i, j), text[j + 1]) = SubSeq(text, i, j + 1)
    BY <2>1, OneMore DEF Lexemes
  <2> QED
    BY <2>2, <2>3, <2>4, <2>5
<1> HIDE DEF Done
<1>4. 0 \in S
  BY <1>1
<1>5. ASSUME NEW j \in Nat, j \in S PROVE j + 1 \in S
  <2>1. CASE i <= j
    <3>1. j + 1 < end => Done(j)
      BY <1>1, <1>5, <2>1
    <3>2. j + 1 < end => Done(j + 1)
      BY <1>3, <2>1, <3>1
    <3> QED
      BY <3>2
  <2>2. CASE ~(i <= j)
    <3>1. i <= j + 1 => j + 1 = i
      BY <1>1, <2>2
    <3> QED
      BY <1>2, <3>1
  <2> QED
    BY <2>1, <2>2
<1> HIDE DEF S
<1>6. \A j \in Nat : j \in S
  BY <1>4, <1>5, Counting
<1>7. end - 1 \in Nat /\ i <= end - 1 /\ end - 1 < end /\ (end - 1) + 1 = end
  BY <1>1
<1>8. Done(end - 1)
  BY <1>6, <1>7 DEF S
<1> QED
  BY <1>7, <1>8 DEF Done

LEMMA TokenRule ==
    ASSUME NEW text, Len(text) \in Nat, NEW i \in 1 .. Len(text) + 1
    PROVE  LET end == TokenEnd(text, i)
           IN  /\ end \in i .. Len(text) + 1
               /\ \A j \in i .. end - 1 : text[j] \notin Terminators
               /\ end <= Len(text) => text[end] \in Terminators
<1> DEFINE T == {j \in i .. Len(text) : text[j] \in Terminators}
           end == TokenEnd(text, i)
<1>1. end = First(T \cup {Len(text) + 1})
  BY DEF TokenEnd
<1>2. T \subseteq i .. Len(text)
  OBVIOUS
<1> HIDE DEF end
<1>3. /\ end \in i .. Len(text) + 1
      /\ \A j \in i .. end - 1 : j \notin T
      /\ end <= Len(text) => end \in T
  <2> HIDE DEF T
  <2> QED
    BY <1>1, <1>2, FirstFrom
<1>4. \A j \in i .. end - 1 : j \in i .. Len(text)
  BY <1>3
<1>5. \A j \in i .. end - 1 : text[j] \notin Terminators
  BY <1>3, <1>4
<1>6. end <= Len(text) => text[end] \in Terminators
  BY <1>3
<1> QED
  BY <1>3, <1>5, <1>6 DEF end

LEMMA StringRule ==
    ASSUME NEW text, Len(text) \in Nat, NEW i \in 1 .. Len(text)
    PROVE  LET stop == StringStop(text, i)
           IN  /\ stop \in i + 1 .. Len(text) + 1
               /\ \A j \in i + 1 .. stop - 1 : text[j] \notin {Quote, "\n"}
               /\ stop <= Len(text) => text[stop] \in {Quote, "\n"}
<1> DEFINE T == {j \in i + 1 .. Len(text) : text[j] \in {Quote, "\n"}}
           stop == StringStop(text, i)
<1>1. stop = First(T \cup {Len(text) + 1})
  BY Zenon DEF StringStop, Quote
<1>2. T \subseteq i + 1 .. Len(text) /\ i + 1 \in 1 .. Len(text) + 1
  OBVIOUS
<1> HIDE DEF stop
<1>3. /\ stop \in i + 1 .. Len(text) + 1
      /\ \A j \in i + 1 .. stop - 1 : j \notin T
      /\ stop <= Len(text) => stop \in T
  <2> HIDE DEF T
  <2> QED
    BY <1>1, <1>2, FirstFrom
<1>4. \A j \in i + 1 .. stop - 1 : j \in i + 1 .. Len(text)
  BY <1>3
<1>5. \A j \in i + 1 .. stop - 1 : text[j] \notin {Quote, "\n"}
  BY <1>3, <1>4
<1>6. stop <= Len(text) => text[stop] \in {Quote, "\n"}
  BY <1>3
<1> QED
  BY <1>3, <1>5, <1>6 DEF stop

\* Names and numbers.
LEMMA AtomLexed ==
    ASSUME NEW text \in Lexemes, NEW i \in 1 .. Len(text), AtCut(text, i),
           text[i] \notin Terminators \cup {"(", Quote}
    PROVE  /\ TokenEnd(text, i) \in i + 1 .. Len(text) + 1
           /\ Before(text, TokenEnd(text, i))
                = Lexed(Consumed(text, i), "atom",
                        SubSeq(text, i, TokenEnd(text, i) - 1))
<1> DEFINE end == TokenEnd(text, i)
           tokens == Consumed(text, i)
<1>1. Len(text) \in Nat /\ i \in 1 .. Len(text) + 1
  BY DEF Lexemes
<1>2. /\ end \in i .. Len(text) + 1
      /\ \A j \in i .. end - 1 : text[j] \notin Terminators
      /\ end <= Len(text) => text[end] \in Terminators
  BY <1>1, TokenRule
<1> HIDE DEF end, tokens
<1>3. end \in i + 1 .. Len(text) + 1
  BY <1>1, <1>2
<1>4. Before(text, i + 1) = Lexed(tokens, "atom", <<text[i]>>)
  <2>1. Before(text, i + 1) = Between(Consumed(text, i), text[i])
    BY AfterCut
  <2> QED
    BY <2>1, BetweenRules DEF tokens
<1>5. ASSUME NEW j \in i + 1 .. end - 1, NEW token
      PROVE  Lex(Lexed(tokens, "atom", token), text[j])
               = Lexed(tokens, "atom", Append(token, text[j]))
  <2> DEFINE st == Lexed(tokens, "atom", token)
  <2>1. text[j] \notin Terminators
    BY <1>1, <1>2
  <2>2. st.tokens = tokens /\ st.kind = "atom" /\ st.token = token
    BY LexedAs
  <2> HIDE DEF st
  <2>3. Lex(st, text[j]) = Lexed(st.tokens, "atom", Append(st.token, text[j]))
    BY <2>1, <2>2, LexRules
  <2> QED
    BY <2>2, <2>3 DEF st
<1>6. Before(text, end) = Lexed(tokens, "atom", SubSeq(text, i, end - 1))
  BY <1>3, <1>4, <1>5, RunLexed
<1> QED
  BY <1>3, <1>6 DEF end, tokens

\* Strings, without the character they end with.
LEMMA StringLexed ==
    ASSUME NEW text \in Lexemes, NEW i \in 1 .. Len(text), AtCut(text, i),
           text[i] = Quote
    PROVE  Before(text, StringStop(text, i))
             = Lexed(Consumed(text, i), "string",
                     SubSeq(text, i, StringStop(text, i) - 1))
<1> DEFINE stop == StringStop(text, i)
           tokens == Consumed(text, i)
<1>1. Len(text) \in Nat
  BY DEF Lexemes
<1>2. /\ stop \in i + 1 .. Len(text) + 1
      /\ \A j \in i + 1 .. stop - 1 : text[j] \notin {Quote, "\n"}
  BY <1>1, StringRule
<1> HIDE DEF stop, tokens
<1>4. Before(text, i + 1) = Lexed(tokens, "string", <<text[i]>>)
  <2>1. Before(text, i + 1) = Between(Consumed(text, i), text[i])
    BY AfterCut
  <2> QED
    BY <2>1, BetweenRules DEF tokens
<1>5. ASSUME NEW j \in i + 1 .. stop - 1, NEW token
      PROVE  Lex(Lexed(tokens, "string", token), text[j])
               = Lexed(tokens, "string", Append(token, text[j]))
  <2> DEFINE st == Lexed(tokens, "string", token)
  <2>1. text[j] \notin {Quote, "\n"}
    BY <1>2
  <2>2. st.tokens = tokens /\ st.kind = "string" /\ st.token = token
    BY LexedAs
  <2> HIDE DEF st
  <2>3. Lex(st, text[j]) = InString(st, text[j])
    BY <2>2, LexRules
  <2>4. InString(st, text[j])
          = Lexed(st.tokens, "string", Append(st.token, text[j]))
    BY <2>1, InStringRules
  <2> QED
    BY <2>2, <2>3, <2>4 DEF st
<1>6. Before(text, stop) = Lexed(tokens, "string", SubSeq(text, i, stop - 1))
  BY <1>2, <1>4, <1>5, RunLexed
<1> QED
  BY <1>6 DEF stop, tokens

-----------------------------------------------------------------------------
(* Tokens: what the parser takes for a value is one. *)

LEMMA WellformedRule ==
    ASSUME NEW token
    PROVE  Wellformed(token) <=>
              \/ IsParenthesis(token)
              \/ token[1] = Quote /\ token[Len(token)] = Quote /\ Len(token) > 1
              \/ \A i \in DOMAIN token : token[i] \in {"0", "1"}
              \/ token \in {<<"#", "t">>, <<"#", "f">>}
              \/ /\ token[1] \notin {"0", "1"}
                 /\ \A i \in DOMAIN token : token[i] \notin {"(", Quote, "#", "'"}
<1> DEFINE chars == {token[i] : i \in DOMAIN token}
           digits == {"0", "1"}
           others == {"(", Quote, "#", "'"}
<1>1. Wellformed(token) <=>
        \/ IsParenthesis(token)
        \/ token[1] = Quote /\ token[Len(token)] = Quote /\ Len(token) > 1
        \/ chars \subseteq {"0", "1"}
        \/ token \in {<<"#", "t">>, <<"#", "f">>}
        \/ token[1] \notin {"0", "1"} /\ chars \cap {"(", Quote, "#", "'"} = {}
  BY Zenon DEF Wellformed, Quote
<1>2. chars \subseteq {"0", "1"} <=> \A i \in DOMAIN token : token[i] \in {"0", "1"}
  <2> HIDE DEF digits
  <2>1. chars \subseteq digits <=> \A i \in DOMAIN token : token[i] \in digits
    BY Zenon
  <2> QED
    BY <2>1 DEF digits
<1>3. chars \cap {"(", Quote, "#", "'"} = {} <=>
        \A i \in DOMAIN token : token[i] \notin {"(", Quote, "#", "'"}
  <2> HIDE DEF others
  <2>1. chars \cap others = {} <=> \A i \in DOMAIN token : token[i] \notin others
    BY Zenon
  <2> QED
    BY <2>1 DEF others
<1> QED
  BY <1>1, <1>2, <1>3, Zenon

\* What is neither a parenthesis nor a string, the lexer and the parser take for
\* the same.
LEMMA AtomWellformed ==
    ASSUME NEW token, Len(token) \in Nat, 1 \in DOMAIN token,
           token[1] \notin {"(", ")", Quote}
    PROVE  Wellformed(token) <=>
              IsNumber(token) \/ IsBool(token) \/ IsSymbol(token)
<1>1. IsNumber(token) <=> \A i \in DOMAIN token : token[i] \in {"0", "1"}
  BY Zenon DEF IsNumber, Digits
<1>2. IsSymbol(token) <=>
        /\ token[1] \notin {"0", "1"}
        /\ \A i \in DOMAIN token : token[i] \notin {Quote, "'", "#", "("}
  BY Zenon DEF IsSymbol, Digits, Quote
<1>3. ~IsParenthesis(token)
  <2>1. <<"(">>[1] = "(" /\ <<")">>[1] = ")"
    OBVIOUS
  <2> QED
    BY <2>1, Zenon DEF IsParenthesis
<1>4. (\A i \in DOMAIN token : token[i] \notin {"(", Quote, "#", "'"})
        <=> \A i \in DOMAIN token : token[i] \notin {Quote, "'", "#", "("}
  BY Zenon
<1>5. IsBool(token) <=> token \in {<<"#", "t">>, <<"#", "f">>}
  BY Zenon DEF IsBool
<1>6. token[1] # Quote
  BY Zenon
<1> QED
  BY <1>1, <1>2, <1>3, <1>4, <1>5, <1>6, WellformedRule, Zenon

LEMMA AtomNoParenthesis ==
    ASSUME NEW token, 1 \in DOMAIN token,
           IsNumber(token) \/ IsBool(token) \/ IsSymbol(token)
    PROVE  token[1] # "("
<1>1. CASE IsNumber(token)
  <2>1. token[1] \in Digits
    BY <1>1, Zenon DEF IsNumber
  <2> QED
    BY <2>1 DEF Digits
<1>2. CASE IsBool(token)
  <2>1. <<"#", "t">>[1] = "#" /\ <<"#", "f">>[1] = "#" /\ "#" # "("
    OBVIOUS
  <2>2. token = <<"#", "t">> \/ token = <<"#", "f">>
    BY <1>2, Zenon DEF IsBool
  <2> QED
    BY <2>1, <2>2, Zenon
<1>3. CASE IsSymbol(token)
  BY <1>3, Zenon DEF IsSymbol
<1> QED
  BY <1>1, <1>2, <1>3

\* A string that runs over a line is no token.
LEMMA BrokenString == ~Wellformed(<<"(", "\n">>)
<1> DEFINE token == <<"(", "\n">>
<1>1. Len(token) = 2 /\ token[1] = "(" /\ token[2] = "\n" /\ DOMAIN token = 1 .. 2
  OBVIOUS
<1> HIDE DEF token
<1>2. 1 \in DOMAIN token
  BY <1>1
<1>3. ~IsParenthesis(token)
  <2>1. Len(<<"(">>) = 1 /\ Len(<<")">>) = 1
    OBVIOUS
  <2>2. Len(token) # 1
    BY <1>1
  <2> QED
    BY <2>1, <2>2, Zenon DEF IsParenthesis
<1>4. token[1] # Quote
  BY <1>1, Chars
<1>5. token \notin {<<"#", "t">>, <<"#", "f">>}
  <2>1. <<"#", "t">>[1] = "#" /\ <<"#", "f">>[1] = "#" /\ token[1] # "#"
    BY <1>1
  <2> QED
    BY <2>1, Zenon
<1>6. token[1] \notin {"0", "1"}
  BY <1>1
<1>7. ~Wellformed(token)
  BY <1>1, <1>2, <1>3, <1>4, <1>5, <1>6, WellformedRule, Zenon
<1> QED
  BY <1>7 DEF token

LEMMA StringWellformed ==
    ASSUME NEW token, token[1] = Quote, token[Len(token)] = Quote, Len(token) > 1
    PROVE  Wellformed(token) /\ ~IsParenthesis(token)
<1>1. Wellformed(token)
  BY WellformedRule, Zenon
<1>2. <<"(">>[1] = "(" /\ <<")">>[1] = ")"
  OBVIOUS
<1>3. Quote # "(" /\ Quote # ")"
  BY Chars
<1> QED
  BY <1>1, <1>2, <1>3, Zenon DEF IsParenthesis

\* Where the parser has skipped the blanks.
AtToken(text, i) ==
    /\ AtCut(text, i)
    /\ i \in 1 .. Len(text)
    /\ text[i] \notin White \cup {";"}

LEMMA TokenInside ==
    ASSUME NEW text \in Lexemes, NEW i, AtToken(text, i)
    PROVE  /\ Len(text) \in Nat /\ i \in 1 .. Len(text) /\ AtCut(text, i)
           /\ At(text, i) = text[i] /\ i \in Nat
<1>1. Len(text) \in Nat
  BY DEF Lexemes
<1>2. i \in 1 .. Len(text) /\ AtCut(text, i)
  BY Zenon DEF AtToken
<1>3. At(text, i) = text[i]
  BY <1>2, Zenon DEF At
<1>4. i \in Nat
  BY <1>1, <1>2
<1> QED
  BY <1>1, <1>2, <1>3, <1>4

LEMMA Part ==
    ASSUME NEW text \in Lexemes, NEW i \in 1 .. Len(text),
           NEW end \in i + 1 .. Len(text) + 1
    PROVE  LET token == SubSeq(text, i, end - 1)
           IN  /\ token \in Lexemes /\ Len(token) \in Nat /\ Len(token) = end - i
               /\ DOMAIN token = 1 .. end - i /\ 1 \in DOMAIN token
               /\ token[1] = text[i] /\ token[Len(token)] = text[end - 1]
<1> DEFINE token == SubSeq(text, i, end - 1)
<1>1. Len(text) \in Nat /\ \A k \in 1 .. Len(text) : text[k] \in Glyphs
  BY DEF Lexemes
<1>2. /\ i \in Int /\ end - 1 \in Int /\ i <= end - 1 /\ end - i \in Nat
      /\ (end - 1) - i + 1 = end - i /\ 1 \in 1 .. end - i
      /\ end - i \in 1 .. end - i /\ i + 1 - 1 = i
      /\ i + (end - i) - 1 = end - 1
      /\ \A k \in i .. end - 1 : k \in 1 .. Len(text)
  BY <1>1
<1>3. \A k \in i .. end - 1 : text[k] \in Glyphs
  BY <1>1, <1>2
<1>4. /\ token \in Seq(Glyphs)
      /\ Len(token) = IF i <= end - 1 THEN end - 1 - i + 1 ELSE 0
      /\ \A k \in 1 .. end - 1 - i + 1 : token[k] = text[i + k - 1]
  BY <1>2, <1>3, SubSeqProperties
<1> HIDE DEF token
<1>5. Len(token) = end - i
  BY <1>2, <1>4
<1>6. \A k \in 1 .. end - i : token[k] = text[i + k - 1]
  BY <1>2, <1>4
<1>7. token[1] = text[i + 1 - 1] /\ token[end - i] = text[i + (end - i) - 1]
  BY <1>2, <1>6
<1>8. token[1] = text[i] /\ token[Len(token)] = text[end - 1]
  BY <1>2, <1>5, <1>7
<1>9. DOMAIN token = 1 .. end - i
  BY <1>4, <1>5
<1> QED
  BY <1>2, <1>4, <1>5, <1>8, <1>9 DEF token, Lexemes

\* After the end of a string.
LEMMA StringEnds ==
    ASSUME NEW text \in Lexemes, NEW i, AtToken(text, i), text[i] = Quote,
           StringStop(text, i) <= Len(text)
    PROVE  LET stop == StringStop(text, i)
               tokens == Consumed(text, i)
           IN  /\ stop \in i + 1 .. Len(text)
               /\ stop + 1 \in i + 1 .. Len(text) + 1
               /\ text[stop] \in {Quote, "\n"}
               /\ Before(text, stop + 1).kind = ""
               /\ text[stop] = Quote => Before(text, stop + 1).tokens
                                          = Append(tokens, SubSeq(text, i, stop))
               /\ text[stop] = "\n" => Before(text, stop + 1).tokens
                                         = Append(tokens, <<"(", "\n">>)
<1> DEFINE stop == StringStop(text, i)
           tokens == Consumed(text, i)
           st == Before(text, stop)
<1>1. Len(text) \in Nat /\ i \in 1 .. Len(text) /\ AtCut(text, i) /\ i \in Nat
  BY TokenInside
<1>2. /\ stop \in i + 1 .. Len(text) + 1
      /\ stop <= Len(text) => text[stop] \in {Quote, "\n"}
  BY <1>1, StringRule
<1>10. PICK start : start = SubSeq(text, i, stop - 1)
  OBVIOUS
<1>3. st = Lexed(tokens, "string", start)
  BY <1>1, <1>10, StringLexed
<1>4. stop <= Len(text)
  OBVIOUS
<1> HIDE DEF stop, tokens, st
<1>5. /\ st.tokens = tokens /\ st.kind = "string"
      /\ st.token = start
  BY <1>3, LexedAs
<1>6. /\ stop \in i + 1 .. Len(text) /\ stop \in 1 .. Len(text)
      /\ stop + 1 \in i + 1 .. Len(text) + 1 /\ text[stop] \in {Quote, "\n"}
      /\ stop - 1 \in i .. Len(text) /\ stop - 1 < Len(text)
      /\ (stop - 1) + 1 = stop
  BY <1>1, <1>2, <1>4
<1>7. Before(text, stop + 1) = InString(st, text[stop])
  <2>1. Before(text, stop + 1) = Lex(Before(text, stop), text[stop])
    BY <1>6, BeforeRule
  <2> QED
    BY <1>5, <2>1, LexRules DEF st
<1>8. CASE text[stop] = Quote
  <2>1. Append(SubSeq(text, i, stop - 1), text[(stop - 1) + 1])
          = SubSeq(text, i, (stop - 1) + 1)
    BY <1>1, <1>6, OneMore DEF Lexemes
  <2>2. Append(st.token, text[stop]) = SubSeq(text, i, stop)
    BY <1>5, <1>6, <1>10, <2>1
  <2>3. Before(text, stop + 1)
          = Lexed(Append(st.tokens, Append(st.token, text[stop])), "", <<>>)
    BY <1>7, <1>8, InStringRules
  <2>4. Before(text, stop + 1)
          = Lexed(Append(tokens, SubSeq(text, i, stop)), "", <<>>)
    BY <1>5, <2>2, <2>3
  <2>5. /\ Before(text, stop + 1).tokens = Append(tokens, SubSeq(text, i, stop))
        /\ Before(text, stop + 1).kind = ""
    BY <2>4, LexedAs
  <2>6. text[stop] # "\n"
    BY <1>8, Chars
  <2> QED
    BY <1>6, <2>5, <2>6 DEF stop, tokens
<1>9. CASE text[stop] = "\n"
  <2>1. Before(text, stop + 1)
          = Lexed(Append(st.tokens, <<"(", text[stop]>>), "", <<>>)
    BY <1>7, <1>9, InStringRules
  <2>2. Before(text, stop + 1) = Lexed(Append(tokens, <<"(", "\n">>), "", <<>>)
    BY <1>5, <1>9, <2>1
  <2>5. PICK more : more = Append(tokens, <<"(", "\n">>)
    OBVIOUS
  <2>6. Before(text, stop + 1) = Lexed(more, "", <<>>)
    BY <2>2, <2>5
  <2>7. Before(text, stop + 1).tokens = more /\ Before(text, stop + 1).kind = ""
    BY <2>6, LexedAs
  <2>3. /\ Before(text, stop + 1).tokens = Append(tokens, <<"(", "\n">>)
        /\ Before(text, stop + 1).kind = ""
    BY <2>5, <2>7
  <2>4. text[stop] # Quote
    BY <1>9, Chars
  <2> QED
    BY <1>6, <2>3, <2>4 DEF stop, tokens
<1> QED
  BY <1>6, <1>8, <1>9

\* The parser's next value is the next token.
LEMMA ValueLexed ==
    ASSUME NEW text \in Lexemes, NEW i, AtToken(text, i), ValueEnd(text, i) # 0
    PROVE  LET end == ValueEnd(text, i)
               token == SubSeq(text, i, end - 1)
           IN  /\ AtCut(text, end)
               /\ Consumed(text, end) = Append(Consumed(text, i), token)
               /\ token \in Lexemes
               /\ Wellformed(token) /\ ~IsParenthesis(token)
<1>1. /\ Len(text) \in Nat /\ i \in 1 .. Len(text) /\ AtCut(text, i)
      /\ At(text, i) = text[i] /\ i \in Nat
  BY TokenInside
<1>2. CASE text[i] = Quote
  <2> DEFINE stop == StringStop(text, i)
  <2>1. At(text, stop) = Quote /\ ValueEnd(text, i) = stop + 1
    BY <1>1, <1>2, Zenon DEF ValueEnd, Quote
  <2>2. stop \in i + 1 .. Len(text) + 1
    BY <1>1, StringRule
  <2>3. stop \in 1 .. Len(text) /\ text[stop] = Quote
    <3>1. Quote # "end of text"
      BY Chars
    <3> HIDE DEF stop
    <3> QED
      BY <2>1, <3>1 DEF At
  <2>4. /\ stop + 1 \in i + 1 .. Len(text) + 1
        /\ Before(text, stop + 1).kind = ""
        /\ Before(text, stop + 1).tokens
              = Append(Consumed(text, i), SubSeq(text, i, stop))
    <3>1. stop <= Len(text)
      BY <2>2, <2>3, <1>1
    <3> QED
      BY <1>2, <2>3, <3>1, StringEnds
  <2> HIDE DEF stop
  <2>5. (stop + 1) - 1 = stop /\ stop + 1 \in 1 .. Len(text) + 1
        /\ stop + 1 - i > 1
    <3>1. stop \in i + 1 .. Len(text) + 1 /\ stop + 1 \in i + 1 .. Len(text) + 1
      BY <2>2, <2>4, Zenon
    <3> QED
      BY <1>1, <3>1
  <2>6. AtCut(text, stop + 1)
    BY <2>4, <2>5 DEF AtCut
  <2>7. Consumed(text, stop + 1) = Append(Consumed(text, i), SubSeq(text, i, stop))
    BY <2>4 DEF Consumed, Ended
  <2> DEFINE token == SubSeq(text, i, stop)
  <2>8. /\ token \in Lexemes /\ Len(token) = (stop + 1) - i
        /\ token[1] = text[i] /\ token[Len(token)] = text[stop]
    <3>1. LET part == SubSeq(text, i, (stop + 1) - 1)
          IN  /\ part \in Lexemes /\ Len(part) = (stop + 1) - i
              /\ part[1] = text[i] /\ part[Len(part)] = text[(stop + 1) - 1]
      BY <1>1, <2>4, Part
    <3> QED
      BY <2>5, <3>1
  <2> HIDE DEF token
  <2>9. Wellformed(token) /\ ~IsParenthesis(token)
    <3>1. token[1] = Quote /\ token[Len(token)] = Quote /\ Len(token) > 1
      <4>1. token[1] = Quote /\ token[Len(token)] = Quote
        BY <1>2, <2>3, <2>8, Zenon
      <4>2. PICK n : n = (stop + 1) - i
        OBVIOUS
      <4>3. n > 1
        <5>1. stop \in i + 1 .. Len(text) + 1
          BY <2>2, Zenon
        <5> QED
          BY <1>1, <4>2, <5>1
      <4>4. Len(token) = n
        BY <2>8, <4>2, Zenon
      <4> QED
        BY <4>1, <4>3, <4>4
    <3> QED
      BY <3>1, StringWellformed
  <2> QED
    BY <2>1, <2>5, <2>6, <2>7, <2>8, <2>9 DEF token
<1>3. CASE text[i] # Quote
  <2> DEFINE end == TokenEnd(text, i)
             token == SubSeq(text, i, end - 1)
  <2>1. /\ ValueEnd(text, i) = end /\ i < end
        /\ IsNumber(token) \/ IsBool(token) \/ IsSymbol(token)
    BY <1>1, <1>3, Zenon DEF ValueEnd, Quote
  <2>2. /\ end \in i .. Len(text) + 1
        /\ \A j \in i .. end - 1 : text[j] \notin Terminators
        /\ end <= Len(text) => text[end] \in Terminators
    BY <1>1, TokenRule
  <2>3. end \in i + 1 .. Len(text) + 1 /\ text[i] \notin Terminators
        /\ end \in 1 .. Len(text) + 1
    <3> HIDE DEF end
    <3>1. i < end
      BY <2>1, Zenon
    <3> QED
      BY <1>1, <2>2, <3>1
  <2>4. /\ token \in Lexemes /\ Len(token) \in Nat /\ 1 \in DOMAIN token
        /\ token[1] = text[i]
    BY <1>1, <2>3, Part
  <2>5. text[i] # "(" /\ text[i] # ")"
    <3>1. token[1] # "("
      BY <2>1, <2>4, AtomNoParenthesis
    <3>2. text[i] # ")"
      BY <2>3 DEF Terminators
    <3> QED
      BY <2>4, <3>1, <3>2
  <2>6. Before(text, end) = Lexed(Consumed(text, i), "atom", token)
    <3>1. text[i] \notin Terminators \cup {"(", Quote}
      BY <1>3, <2>3, <2>5
    <3> QED
      BY <1>1, <3>1, AtomLexed
  <2> HIDE DEF end, token
  <2>7. /\ Before(text, end).tokens = Consumed(text, i)
        /\ Before(text, end).kind = "atom" /\ Before(text, end).token = token
    BY <2>6, LexedAs
  <2>8. AtCut(text, end)
    BY <2>2, <2>3, <2>7 DEF AtCut
  <2>9. Consumed(text, end) = Append(Consumed(text, i), token)
    BY <2>7 DEF Consumed, Ended
  <2>10. token[1] \notin {"(", ")", Quote}
    BY <1>3, <2>4, <2>5
  <2>11. Wellformed(token)
    BY <2>1, <2>4, <2>10, AtomWellformed
  <2>12. ~IsParenthesis(token)
    <3>1. <<"(">>[1] = "(" /\ <<")">>[1] = ")"
      OBVIOUS
    <3> QED
      BY <2>10, <3>1, Zenon DEF IsParenthesis
  <2> QED
    BY <2>1, <2>4, <2>8, <2>9, <2>11, <2>12 DEF token
<1> QED
  BY <1>2, <1>3

LEMMA ParenthesisLexed ==
    ASSUME NEW text \in Lexemes, NEW i, AtToken(text, i), text[i] \in {"(", ")"}
    PROVE  /\ AtCut(text, i + 1)
           /\ Consumed(text, i + 1) = Append(Consumed(text, i), <<text[i]>>)
<1>1. i \in 1 .. Len(text) /\ AtCut(text, i) /\ i + 1 \in 1 .. Len(text) + 1
  BY TokenInside
<1>2. PICK more : more = Append(Consumed(text, i), <<text[i]>>)
  OBVIOUS
<1>3. Before(text, i + 1) = Lexed(more, "", <<>>)
  <2>1. Before(text, i + 1) = Between(Consumed(text, i), text[i])
    BY <1>1, AfterCut
  <2> QED
    BY <1>2, <2>1, BetweenRules
<1>4. Before(text, i + 1).tokens = more /\ Before(text, i + 1).kind = ""
  BY <1>3, LexedAs
<1> QED
  BY <1>1, <1>2, <1>4 DEF AtCut, Consumed, Ended

\* Where the parser finds neither a value nor a parenthesis, the tokens end or go
\* on with what is no token.
LEMMA NothingLexed ==
    ASSUME NEW text \in Lexemes, NEW i, AtToken(text, i), ValueEnd(text, i) = 0,
           text[i] \notin {"(", ")"}
    PROVE  \/ Tokens(text) = Consumed(text, i)
           \/ \E token \in Lexemes :
                 /\ ~Wellformed(token)
                 /\ Begins(Append(Consumed(text, i), token), Tokens(text))
<1>1. /\ Len(text) \in Nat /\ i \in 1 .. Len(text) /\ AtCut(text, i)
      /\ At(text, i) = text[i] /\ i \in Nat
  BY TokenInside
<1>2. CASE text[i] = Quote
  <2> DEFINE stop == StringStop(text, i)
  <2>1. stop \in i + 1 .. Len(text) + 1
    BY <1>1, StringRule
  <2>2. At(text, stop) # Quote
    <3>1. ValueEnd(text, i) = IF At(text, stop) = Quote THEN stop + 1 ELSE 0
      BY <1>1, <1>2, Zenon DEF ValueEnd, Quote
    <3>2. stop + 1 # 0
      BY <1>1, <2>1
    <3> QED
      BY <3>1, <3>2, Zenon
  <2>3. CASE stop <= Len(text)
    <3>1. stop \in 1 .. Len(text)
      BY <1>1, <2>1, <2>3
    <3>2. text[stop] # Quote
      BY <2>2, <3>1, Zenon DEF At
    <3>3. /\ text[stop] \in {Quote, "\n"}
          /\ text[stop] = "\n" => Before(text, stop + 1).tokens
                                 = Append(Consumed(text, i), <<"(", "\n">>)
      BY <1>2, <2>3, StringEnds
    <3>4. Before(text, stop + 1).tokens = Append(Consumed(text, i), <<"(", "\n">>)
      BY <3>2, <3>3
    <3>5. (stop + 1) - 1 = stop /\ stop \in 0 .. Len(text)
      BY <1>1, <3>1
    <3>6. Begins(Before(text, stop + 1).tokens, Tokens(text))
      BY <3>5, TokensGrow DEF Before
    <3> QED
      BY <3>4, <3>6, BrokenString, LexemesAre
  <2>4. CASE ~(stop <= Len(text))
    <3>1. stop - 1 = Len(text)
      BY <1>1, <2>1, <2>4
    <3>2. PICK start : start = SubSeq(text, i, stop - 1)
      OBVIOUS
    <3>3. Before(text, stop) = Lexed(Consumed(text, i), "string", start)
      BY <1>1, <1>2, <3>2, StringLexed
    <3>4. /\ Before(text, stop).tokens = Consumed(text, i)
          /\ Before(text, stop).kind = "string"
      BY <3>3, LexedAs
    <3>5. Ended(Before(text, stop)) = Consumed(text, i)
      BY <3>4 DEF Ended
    <3>6. Tokens(text) = Ended(Before(text, stop))
      BY <3>1, Zenon DEF Tokens, Before
    <3> QED
      BY <3>5, <3>6
  <2> QED
    BY <2>3, <2>4
<1>3. CASE text[i] # Quote
  <2> DEFINE end == TokenEnd(text, i)
             token == SubSeq(text, i, end - 1)
  <2>1. text[i] \notin Terminators \cup {"(", Quote}
    <3>1. text[i] \notin White \cup {";"}
      BY Zenon DEF AtToken
    <3> QED
      BY <1>3, <3>1 DEF Terminators
  <2>2. /\ end \in i + 1 .. Len(text) + 1
        /\ Before(text, end) = Lexed(Consumed(text, i), "atom", token)
    BY <1>1, <2>1, AtomLexed
  <2>3. end <= Len(text) => text[end] \in Terminators
    <3>1. i \in 1 .. Len(text) + 1
      BY <1>1
    <3> QED
      BY <1>1, <3>1, TokenRule
  <2>4. /\ token \in Lexemes /\ Len(token) \in Nat /\ 1 \in DOMAIN token
        /\ token[1] = text[i]
    BY <1>1, <2>2, Part
  <2>5. ~(IsNumber(token) \/ IsBool(token) \/ IsSymbol(token))
    <3>1. ValueEnd(text, i)
            = IF i < end /\ (IsNumber(token) \/ IsBool(token) \/ IsSymbol(token))
              THEN end ELSE 0
      BY <1>1, <1>3, Zenon DEF ValueEnd, Quote
    <3>2. i < end /\ end # 0
      <4>1. end \in i + 1 .. Len(text) + 1
        BY <2>2, Zenon
      <4> QED
        BY <1>1, <4>1
    <3> QED
      BY <3>1, <3>2, Zenon
  <2>6. end \in 1 .. Len(text) + 1
    <3>1. end \in i + 1 .. Len(text) + 1
      BY <2>2, Zenon
    <3> QED
      BY <1>1, <3>1
  <2> HIDE DEF end, token
  <2>7. /\ Before(text, end).tokens = Consumed(text, i)
        /\ Before(text, end).kind = "atom" /\ Before(text, end).token = token
    BY <2>2, LexedAs
  <2>8. AtCut(text, end)
    BY <2>3, <2>6, <2>7 DEF AtCut
  <2>9. Consumed(text, end) = Append(Consumed(text, i), token)
    BY <2>7 DEF Consumed, Ended
  <2>10. token[1] \notin {"(", ")", Quote}
    BY <1>3, <2>4
  <2>11. ~Wellformed(token)
    BY <2>4, <2>5, <2>10, AtomWellformed
  <2>12. Begins(Append(Consumed(text, i), token), Tokens(text))
    BY <2>8, <2>9, ConsumedBegins
  <2> QED
    BY <2>4, <2>11, <2>12
<1> QED
  BY <1>2, <1>3

\* After the end of a line there is no token that is not cut.
LEMMA LineLexed ==
    ASSUME NEW text \in Lexemes, NEW i \in 1 .. Len(text), text[i] = "\n"
    PROVE  Ended(Lexing(text)[i]) = Lexing(text)[i].tokens
<1> DEFINE st == Before(text, i)
<1>1. Before(text, i + 1) = Lex(st, text[i])
  BY BeforeRule
<1>2. i + 1 - 1 = i /\ i \in 1 .. Len(text) + 1
  BY DEF Lexemes
<1>3. st \in LexStates
  BY <1>2, BeforeType
<1> HIDE DEF st
<1>4. st.kind \in {"", "atom", "string", "comment"}
  BY <1>3, LexStateParts, KindsAre
<1>5. "\n" \in White /\ "\n" \in Terminators
  BY DEF White, Terminators
<1>6. \E tokens : Lex(st, text[i]) = Lexed(tokens, "", <<>>)
  <2>1. CASE st.kind = "string"
    <3>1. Lex(st, text[i]) = InString(st, text[i])
      BY <2>1, LexRules
    <3>2. InString(st, text[i])
            = Lexed(Append(st.tokens, <<"(", text[i]>>), "", <<>>)
      BY InStringRules
    <3> QED
      BY <3>1, <3>2, Zenon
  <2>2. CASE st.kind = "comment"
    <3>1. Lex(st, text[i])
            = IF text[i] = "\n" THEN Lexed(st.tokens, "", <<>>) ELSE st
      BY <2>2, LexRules
    <3>2. Lex(st, text[i]) = Lexed(st.tokens, "", <<>>)
      BY <3>1, Zenon
    <3> QED
      BY <3>2, Zenon
  <2>3. CASE st.kind \in {"", "atom"}
    <3>1. Lex(st, text[i]) = Between(Ended(st), text[i])
      BY <1>5, <2>3, LexRules
    <3> QED
      BY <1>5, <3>1, BetweenRules
  <2> QED
    BY <1>4, <2>1, <2>2, <2>3
<1>7. Before(text, i + 1).kind = ""
  BY <1>1, <1>6, LexedAs
<1>8. Lexing(text)[i].kind = ""
  <2>1. Before(text, i + 1) = Lexing(text)[i]
    BY <1>2 DEF Before
  <2> QED
    BY <1>7, <2>1
<1> QED
  BY <1>8 DEF Ended

\* The tokens of the first lines are the first tokens.
LEMMA FirstLines ==
    ASSUME NEW text \in Lexemes, NEW n \in 0 .. Len(text),
           n = 0 \/ n = Len(text) \/ text[n] = "\n"
    PROVE  Begins(Tokens(SubSeq(text, 1, n)), Tokens(text))
<1> DEFINE start == SubSeq(text, 1, n)
<1>1. Len(text) \in Nat /\ Len(start) = n /\ n \in 0 .. n
  BY DEF Lexemes
<1>2. Tokens(start) = Ended(Lexing(text)[n])
  <2>1. Lexing(start)[n] = Lexing(text)[n]
    BY <1>1, LexingBeginning
  <2>2. Tokens(start) = Ended(Lexing(start)[n])
    BY <1>1, Zenon DEF Tokens
  <2> QED
    BY <2>1, <2>2
<1> HIDE DEF start
<1>3. ASSUME n = Len(text) PROVE Begins(Tokens(start), Tokens(text))
  <2>1. Tokens(start) = Tokens(text)
    BY <1>2, <1>3 DEF Tokens
  <2> QED
    BY <2>1, TokensType, BeginsItself
<1>4. ASSUME n # Len(text) PROVE Begins(Tokens(start), Tokens(text))
  <2>1. Ended(Lexing(text)[n]) = Lexing(text)[n].tokens
    <3>1. CASE n = 0
      <4>1. Lexing(text)[0] = Unlexed
        BY <1>1, LexingRule
      <4> QED
        BY <3>1, <4>1, UnlexedType DEF Ended
    <3>2. CASE n # 0
      BY <1>1, <1>4, <3>2, LineLexed
    <3> QED
      BY <3>1, <3>2
  <2> QED
    BY <1>2, <2>1, TokensGrow
<1> QED
  BY <1>3, <1>4 DEF start

-----------------------------------------------------------------------------
(* Where a datum ends. *)

LEMMA CountRule ==
    ASSUME NEW S, NEW s \in Seq(S), NEW x \in S, NEW y
    PROVE  /\ Count(y, s) \in Nat
           /\ Count(y, Append(s, x)) = Count(y, s) + (IF x = y THEN 1 ELSE 0)
<1> DEFINE C == {i \in DOMAIN s : s[i] = y}
           more == Append(s, x)
           D == {i \in DOMAIN more : more[i] = y}
<1>1. /\ Len(s) \in Nat /\ DOMAIN s = 1 .. Len(s)
      /\ more \in Seq(S) /\ Len(more) = Len(s) + 1
      /\ \A i \in 1 .. Len(s) : more[i] = s[i]
      /\ more[Len(s) + 1] = x
  BY AppendProperties
<1>2. DOMAIN more = 1 .. Len(s) + 1
  BY <1>1
<1> HIDE DEF more
<1>3. IsFiniteSet(C) /\ Cardinality(C) \in Nat
  <2>1. IsFiniteSet(1 .. Len(s))
    BY <1>1, FS_Interval
  <2>2. C \in SUBSET (1 .. Len(s))
    BY <1>1
  <2> HIDE DEF C
  <2> QED
    BY <2>1, <2>2, FS_Subset, FS_CardinalityType
<1>4. CASE x = y
  <2>1. D = C \cup {Len(s) + 1}
    BY <1>1, <1>2, <1>4
  <2>2. Len(s) + 1 \notin C
    BY <1>1
  <2> HIDE DEF C, D
  <2>3. Cardinality(D) = Cardinality(C) + 1
    BY <1>3, <2>1, <2>2, FS_AddElement
  <2> QED
    BY <1>3, <1>4, <2>3 DEF Count, C, D, more
<1>5. CASE x # y
  <2>1. D = C
    BY <1>1, <1>2, <1>5
  <2> HIDE DEF C, D
  <2>2. Cardinality(D) = Cardinality(C) + 0
    BY <1>3, <2>1
  <2> QED
    BY <1>3, <1>5, <2>2 DEF Count, C, D, more
<1> QED
  BY <1>4, <1>5

LEMMA BalanceEmpty == Balance(<<>>) = 0
<1>1. \A y : {i \in DOMAIN <<>> : <<>>[i] = y} = {}
  OBVIOUS
<1>2. \A y : Count(y, <<>>) = 0
  BY <1>1, FS_EmptySet DEF Count
<1> QED
  BY <1>2 DEF Balance

\* One more token.
LEMMA BalanceRule ==
    ASSUME NEW tokens \in Seq(Lexemes), NEW token \in Lexemes
    PROVE  /\ Balance(tokens) \in Int
           /\ token = <<"(">> =>
                 Balance(Append(tokens, token)) = Balance(tokens) + 1
           /\ token = <<")">> =>
                 Balance(Append(tokens, token)) = Balance(tokens) - 1
           /\ ~IsParenthesis(token) =>
                 Balance(Append(tokens, token)) = Balance(tokens)
<1> DEFINE left == <<"(">>
           right == <<")">>
           more == Append(tokens, token)
<1>1. left # right
  <2>1. left[1] = "(" /\ right[1] = ")" /\ "(" # ")"
    OBVIOUS
  <2> QED
    BY <2>1, Zenon
<1>2. Balance(tokens) = Count(left, tokens) - Count(right, tokens)
  BY Zenon DEF Balance
<1>3. Balance(more) = Count(left, more) - Count(right, more)
  BY Zenon DEF Balance
<1>4. IsParenthesis(token) <=> token = left \/ token = right
  BY Zenon DEF IsParenthesis
<1> HIDE DEF left, right
<1>5. /\ Count(left, tokens) \in Nat /\ Count(right, tokens) \in Nat
      /\ Count(left, more)
            = Count(left, tokens) + (IF token = left THEN 1 ELSE 0)
      /\ Count(right, more)
            = Count(right, tokens) + (IF token = right THEN 1 ELSE 0)
  BY CountRule
<1> HIDE DEF more
<1>6. Balance(tokens) \in Int
  BY <1>2, <1>5
<1>7. token = left => Balance(more) = Balance(tokens) + 1
  BY <1>1, <1>2, <1>3, <1>5
<1>8. token = right => Balance(more) = Balance(tokens) - 1
  BY <1>1, <1>2, <1>3, <1>5
<1>9. ~IsParenthesis(token) => Balance(more) = Balance(tokens)
  BY <1>2, <1>3, <1>4, <1>5
<1> QED
  BY <1>6, <1>7, <1>8, <1>9 DEF left, right, more

LEMMA EndsEmpty == Ends(<<>>) = {}
BY DEF Ends

\* Where a datum can end is told by the tokens up to there.
LEMMA EndsBegin ==
    ASSUME NEW s \in Seq(Lexemes), NEW t \in Seq(Lexemes), Begins(s, t),
           NEW n \in 1 .. Len(s)
    PROVE  n \in Ends(s) <=> n \in Ends(t)
<1>1. /\ Len(s) \in Nat /\ Len(t) \in Nat /\ Len(s) <= Len(t)
      /\ DOMAIN s = 1 .. Len(s) /\ DOMAIN t = 1 .. Len(t)
      /\ \A i \in 1 .. Len(s) : s[i] = t[i]
  BY DEF Begins
<1> DEFINE u == SubSeq(s, 1, n)
<1>2. n \in 1 .. Len(t) /\ n \in Nat /\ n <= Len(s)
  BY <1>1
<1>3. u \in Seq(Lexemes) /\ Len(u) = n /\ \A i \in 1 .. n : u[i] = s[i]
  BY <1>1, <1>2
<1>4. Begins(u, t)
  <2> HIDE DEF u
  <2>1. \A i \in 1 .. n : i \in 1 .. Len(s)
    BY <1>1, <1>2
  <2>2. \A i \in 1 .. n : u[i] = t[i]
    BY <1>1, <1>3, <2>1
  <2> QED
    BY <1>1, <1>2, <1>3, <2>2 DEF Begins
<1>5. u = SubSeq(t, 1, n)
  <2> HIDE DEF u
  <2>1. u = SubSeq(t, 1, Len(u))
    BY <1>3, <1>4, BeginsAsSubSeq
  <2> QED
    BY <1>3, <2>1
<1>6. s[n] = t[n]
  BY <1>1
<1>7. n \in Ends(s) <=> ~Wellformed(s[n]) \/ Balance(SubSeq(s, 1, n)) <= 0
  BY <1>1, <1>2, Zenon DEF Ends
<1>8. n \in Ends(t) <=> ~Wellformed(t[n]) \/ Balance(SubSeq(t, 1, n)) <= 0
  BY <1>1, <1>2, Zenon DEF Ends
<1> QED
  BY <1>5, <1>6, <1>7, <1>8, Zenon

LEMMA EndsInside ==
    ASSUME NEW S, NEW s \in Seq(S)
    PROVE  Ends(s) \subseteq 1 .. Len(s)
<1>1. DOMAIN s = 1 .. Len(s)
  OBVIOUS
<1> QED
  BY <1>1, Zenon DEF Ends

\* One more token after tokens that nothing ends.
LEMMA EndsRule ==
    ASSUME NEW s \in Seq(Lexemes), NEW x \in Lexemes, Ends(s) = {}
    PROVE  Ends(Append(s, x))
              = IF ~Wellformed(x) \/ Balance(Append(s, x)) <= 0
                THEN {Len(s) + 1} ELSE {}
<1> DEFINE more == Append(s, x)
<1>1. /\ Len(s) \in Nat /\ more \in Seq(Lexemes) /\ Len(more) = Len(s) + 1
      /\ more[Len(s) + 1] = x
  BY AppendProperties
<1>2. Begins(s, more)
  BY BeginsLonger
<1> HIDE DEF more
<1>3. \A n \in 1 .. Len(s) : n \notin Ends(more)
  BY <1>1, <1>2, EndsBegin
<1>4. Ends(more) \subseteq 1 .. Len(s) + 1
  BY <1>1, EndsInside
<1>5. Ends(more) \subseteq {Len(s) + 1}
  BY <1>1, <1>3, <1>4
<1>6. Len(s) + 1 \in Ends(more) <=> ~Wellformed(x) \/ Balance(more) <= 0
  <2>1. SubSeq(more, 1, Len(s) + 1) = more
    BY <1>1, SubSeqFull
  <2>2. Len(s) + 1 \in DOMAIN more
    BY <1>1
  <2>3. Len(s) + 1 \in Ends(more) <=>
           \/ ~Wellformed(more[Len(s) + 1])
           \/ Balance(SubSeq(more, 1, Len(s) + 1)) <= 0
    BY <2>2, Zenon DEF Ends
  <2> QED
    BY <1>1, <2>1, <2>3, Zenon
<1>7. Ends(more) = IF ~Wellformed(x) \/ Balance(more) <= 0
                   THEN {Len(s) + 1} ELSE {}
  BY <1>5, <1>6
<1> QED
  BY <1>7 DEF more

\* A text that starts with tokens that can only end in the last of them.
LEMMA FirstDatumIs ==
    ASSUME NEW text \in Lexemes, NEW d \in Seq(Lexemes),
           Begins(d, Tokens(text)), Ends(d) = {Len(d)}
    PROVE  FirstDatum(text) = IF Balance(d) = 0 /\ Wellformed(d[Len(d)])
                              THEN d ELSE <<>>
<1> DEFINE tokens == Tokens(text)
           end == First(Ends(tokens))
           start == SubSeq(tokens, 1, end)
<1>1. tokens \in Seq(Lexemes)
  BY TokensType
<1>2. FirstDatum(text) = IF /\ Ends(tokens) # {} /\ Balance(start) = 0
                            /\ Wellformed(tokens[end])
                         THEN start ELSE <<>>
  BY Zenon DEF FirstDatum
<1>3. Begins(d, tokens)
  OBVIOUS
<1> HIDE DEF tokens
<1>4. /\ Len(d) \in 1 .. Len(d) /\ Len(d) \in Nat /\ Len(tokens) \in Nat
      /\ Ends(tokens) \subseteq 1 .. Len(tokens)
  <2>1. Ends(d) \subseteq 1 .. Len(d)
    BY EndsInside
  <2>2. Ends(tokens) \subseteq 1 .. Len(tokens)
    BY <1>1, EndsInside
  <2> QED
    BY <1>1, <2>1, <2>2
<1>5. \A n \in 1 .. Len(d) : n \in Ends(tokens) <=> n = Len(d)
  BY <1>1, <1>3, EndsBegin
<1>6. end = Len(d) /\ Ends(tokens) # {}
  <2>1. Ends(tokens) \subseteq Nat /\ Ends(tokens) # {} /\ Len(d) \in Ends(tokens)
    BY <1>4, <1>5
  <2>2. end \in Ends(tokens) /\ \A y \in Ends(tokens) : end <= y
    BY <2>1, FirstIsSmallest
  <2> HIDE DEF end
  <2>3. end \in 1 .. Len(d)
    BY <1>4, <2>1, <2>2
  <2> QED
    BY <1>5, <2>1, <2>2, <2>3
<1>7. start = d /\ tokens[end] = d[Len(d)]
  <2>1. d = SubSeq(tokens, 1, Len(d))
    BY <1>1, <1>3, BeginsAsSubSeq
  <2>2. tokens[Len(d)] = d[Len(d)]
    BY <1>3, <1>4 DEF Begins
  <2> HIDE DEF end
  <2> QED
    BY <1>6, <2>1, <2>2
<1> HIDE DEF end, start
<1> QED
  BY <1>2, <1>6, <1>7, Zenon

LEMMA FirstDatumNone ==
    ASSUME NEW text, Ends(Tokens(text)) = {}
    PROVE  FirstDatum(text) = <<>>
BY Zenon DEF FirstDatum

\* A first datum ends in its last token, and is not changed by more tokens.
LEMMA FirstDatumStays ==
    ASSUME NEW start \in Lexemes, NEW text \in Lexemes,
           Begins(Tokens(start), Tokens(text)), FirstDatum(start) # <<>>
    PROVE  FirstDatum(text) = FirstDatum(start)
<1> DEFINE tokens == Tokens(start)
           end == First(Ends(tokens))
           d == SubSeq(tokens, 1, end)
<1>1. tokens \in Seq(Lexemes) /\ Tokens(text) \in Seq(Lexemes)
  BY TokensType
<1>2. FirstDatum(start) = IF /\ Ends(tokens) # {} /\ Balance(d) = 0
                             /\ Wellformed(tokens[end])
                          THEN d ELSE <<>>
  BY Zenon DEF FirstDatum
<1>3. /\ Ends(tokens) # {} /\ Balance(d) = 0 /\ Wellformed(tokens[end])
      /\ FirstDatum(start) = d
  <2> HIDE DEF tokens, end, d
  <2> QED
    BY <1>2, Zenon
<1>4. Begins(tokens, Tokens(text))
  OBVIOUS
<1> HIDE DEF tokens
<1>5. Ends(tokens) \subseteq 1 .. Len(tokens) /\ Len(tokens) \in Nat
  BY <1>1, EndsInside
<1>6. end \in Ends(tokens) /\ \A y \in Ends(tokens) : end <= y
  <2>1. Ends(tokens) \subseteq Nat
    BY <1>5
  <2> QED
    BY <1>3, <2>1, FirstIsSmallest
<1> HIDE DEF end
<1>7. end \in 1 .. Len(tokens) /\ end \in 0 .. Len(tokens)
  BY <1>5, <1>6
<1>8. /\ d \in Seq(Lexemes) /\ Len(d) = end /\ Begins(d, tokens)
      /\ d[end] = tokens[end]
  BY <1>1, <1>7, SubSeqBegins
<1> HIDE DEF d
<1>9. Ends(d) = {Len(d)}
  <2>1. \A n \in 1 .. Len(d) : n \in Ends(d) <=> n \in Ends(tokens)
    BY <1>1, <1>8, EndsBegin
  <2>2. Ends(d) \subseteq 1 .. Len(d)
    BY <1>8, EndsInside
  <2>3. end \in 1 .. Len(d)
    BY <1>7, <1>8
  <2>4. \A n \in 1 .. Len(d) : n \in Ends(d) => n = end
    BY <1>6, <1>7, <1>8, <2>1
  <2>5. end \in Ends(d)
    BY <1>6, <2>1, <2>3
  <2> QED
    BY <1>8, <2>2, <2>4, <2>5
<1>10. Begins(d, Tokens(text))
  BY <1>1, <1>4, <1>8, BeginsTransitive
<1>11. FirstDatum(text) = IF Balance(d) = 0 /\ Wellformed(d[Len(d)])
                          THEN d ELSE <<>>
  BY <1>8, <1>9, <1>10, FirstDatumIs
<1> QED
  BY <1>3, <1>8, <1>11

-----------------------------------------------------------------------------
(* What is put together. *)

\* What Building is, said of a function, up to some position.
BuildsTo(tokens, f, m) ==
    f = [n \in 0 .. m |->
            IF n = 0 THEN Unbuilt ELSE Added(f[n - 1], tokens[n])]

LEMMA BuildsToRule ==
    ASSUME NEW tokens, NEW f, NEW m \in Nat
    PROVE  BuildsTo(tokens, f, m) <=>
              /\ f = [n \in 0 .. m |-> f[n]]
              /\ f[0] = Unbuilt
              /\ \A n \in 1 .. m : f[n] = Added(f[n - 1], tokens[n])
<1> DEFINE G(n) == IF n = 0 THEN Unbuilt ELSE Added(f[n - 1], tokens[n])
<1>1. BuildsTo(tokens, f, m) <=> f = [n \in 0 .. m |-> G(n)]
  BY DEF BuildsTo
<1> QED
  BY <1>1

LEMMA BuildsToSome ==
    ASSUME NEW tokens
    PROVE  \A m \in Nat : \E f : BuildsTo(tokens, f, m)
<1> DEFINE S == {m \in Nat : \E f : BuildsTo(tokens, f, m)}
<1>1. 0 \in S
  <2>1. BuildsTo(tokens, [n \in 0 .. 0 |-> Unbuilt], 0)
    BY DEF BuildsTo
  <2> QED
    BY <2>1
<1>2. ASSUME NEW k \in Nat, k \in S PROVE k + 1 \in S
  <2>1. PICK f : BuildsTo(tokens, f, k)
    BY <1>2
  <2>2. PICK y : y = Added(f[k], tokens[k + 1])
    OBVIOUS
  <2>3. PICK g : g = [n \in 0 .. k + 1 |-> IF n = k + 1 THEN y ELSE f[n]]
    OBVIOUS
  <2>4. /\ k + 1 \in Nat /\ g = [n \in 0 .. k + 1 |-> g[n]] /\ g[k + 1] = y
        /\ \A n \in 0 .. k : g[n] = f[n]
    BY <2>3
  <2>5. /\ f[0] = Unbuilt
        /\ \A n \in 1 .. k : f[n] = Added(f[n - 1], tokens[n])
    BY <2>1, BuildsToRule
  <2>6. ASSUME NEW n \in 1 .. k + 1
        PROVE  g[n] = Added(g[n - 1], tokens[n])
    <3>1. g[n - 1] = f[n - 1]
      BY <2>4
    <3>2. CASE n = k + 1
      BY <2>2, <2>4, <3>1, <3>2
    <3>3. CASE n # k + 1
      <4>1. n \in 1 .. k /\ n \in 0 .. k
        BY <3>3
      <4> QED
        BY <2>4, <2>5, <3>1, <4>1
    <3> QED
      BY <3>2, <3>3
  <2>7. g[0] = Unbuilt
    <3>1. 0 \in 0 .. k
      OBVIOUS
    <3> QED
      BY <2>4, <2>5, <3>1
  <2>8. BuildsTo(tokens, g, k + 1)
    BY <2>4, <2>6, <2>7, BuildsToRule
  <2> QED
    BY <2>4, <2>8
<1> HIDE DEF S
<1>3. \A m \in Nat : m \in S
  BY <1>1, <1>2, Counting
<1> QED
  BY <1>3 DEF S

LEMMA BuildingRule ==
    ASSUME NEW tokens, Len(tokens) \in Nat
    PROVE  /\ Building(tokens)[0] = Unbuilt
           /\ \A n \in 1 .. Len(tokens) :
                 Building(tokens)[n] = Added(Building(tokens)[n - 1], tokens[n])
<1>1. Building(tokens) = CHOOSE f : BuildsTo(tokens, f, Len(tokens))
  BY DEF Building, BuildsTo
<1>2. BuildsTo(tokens, Building(tokens), Len(tokens))
  BY <1>1, BuildsToSome
<1> QED
  BY <1>2, BuildsToRule

\* What has been put together of all tokens.
Built(tokens) == Building(tokens)[Len(tokens)]

LEMMA BuiltEmpty == Built(<<>>) = Unbuilt
<1>1. Len(<<>>) = 0
  OBVIOUS
<1> QED
  BY <1>1, BuildingRule DEF Built

\* One more token.
LEMMA BuiltRule ==
    ASSUME NEW S, NEW tokens \in Seq(S), NEW token \in S
    PROVE  Built(Append(tokens, token)) = Added(Built(tokens), token)
<1> DEFINE more == Append(tokens, token)
           T == {n \in Nat : n <= Len(tokens) =>
                                Building(more)[n] = Building(tokens)[n]}
<1>1. /\ Len(tokens) \in Nat /\ Len(more) = Len(tokens) + 1
      /\ \A n \in 1 .. Len(tokens) : more[n] = tokens[n]
      /\ more[Len(tokens) + 1] = token
  BY AppendProperties
<1> HIDE DEF more
<1>2. /\ Building(more)[0] = Unbuilt
      /\ \A n \in 1 .. Len(tokens) + 1 :
            Building(more)[n] = Added(Building(more)[n - 1], more[n])
  <2>1. Len(more) \in Nat
    BY <1>1
  <2> QED
    BY <1>1, <2>1, BuildingRule
<1>3. /\ Building(tokens)[0] = Unbuilt
      /\ \A n \in 1 .. Len(tokens) :
            Building(tokens)[n] = Added(Building(tokens)[n - 1], tokens[n])
  BY <1>1, BuildingRule
<1>4. 0 \in T
  BY <1>2, <1>3
<1>5. ASSUME NEW k \in Nat, k \in T PROVE k + 1 \in T
  <2>1. SUFFICES ASSUME k + 1 <= Len(tokens)
                 PROVE  Building(more)[k + 1] = Building(tokens)[k + 1]
    OBVIOUS
  <2>2. /\ k + 1 \in 1 .. Len(tokens) /\ k + 1 \in 1 .. Len(tokens) + 1
        /\ (k + 1) - 1 = k
        /\ Building(more)[k] = Building(tokens)[k]
    BY <1>1, <1>5, <2>1
  <2>3. /\ Building(more)[k + 1] = Added(Building(more)[(k + 1) - 1], more[k + 1])
        /\ Building(tokens)[k + 1]
              = Added(Building(tokens)[(k + 1) - 1], tokens[k + 1])
    BY <1>2, <1>3, <2>2
  <2> QED
    BY <1>1, <2>2, <2>3
<1> HIDE DEF T
<1>6. \A n \in Nat : n \in T
  BY <1>4, <1>5, Counting
<1>7. Building(more)[Len(tokens)] = Building(tokens)[Len(tokens)]
  BY <1>1, <1>6 DEF T
<1>8. Building(more)[Len(tokens) + 1]
        = Added(Building(more)[Len(tokens)], more[Len(tokens) + 1])
  <2>1. /\ Len(tokens) + 1 \in 1 .. Len(tokens) + 1
        /\ (Len(tokens) + 1) - 1 = Len(tokens)
    BY <1>1
  <2> QED
    BY <1>2, <2>1
<1>9. Built(more) = Added(Built(tokens), token)
  BY <1>1, <1>7, <1>8 DEF Built
<1> QED
  BY <1>9 DEF more

\* How the lists change.
LEMMA AddedRules ==
    ASSUME NEW st, NEW token
    PROVE  /\ token = <<"(">> => Added(st, token)
                = [list |-> <<>>, around |-> Append(st.around, st.list)]
           /\ token = <<")">> => Added(st, token)
                = [list |-> Append(st.around[Len(st.around)], <<"list", st.list>>),
                   around |-> SubSeq(st.around, 1, Len(st.around) - 1)]
           /\ ~IsParenthesis(token) => Added(st, token)
                = [list |-> Append(st.list, <<"atom", token>>),
                   around |-> st.around]
<1> DEFINE left == <<"(">>
           right == <<")">>
           A == [list |-> <<>>, around |-> Append(st.around, st.list)]
           B == [list |-> Append(st.around[Len(st.around)], <<"list", st.list>>),
                 around |-> SubSeq(st.around, 1, Len(st.around) - 1)]
           C == [list |-> Append(st.list, <<"atom", token>>), around |-> st.around]
<1>1. left # right
  <2>1. left[1] = "(" /\ right[1] = ")" /\ "(" # ")"
    OBVIOUS
  <2> QED
    BY <2>1, Zenon
<1>2. Added(st, token) = CASE token = left -> A [] token = right -> B [] OTHER -> C
  BY DEF Added
<1>3. IsParenthesis(token) <=> token = left \/ token = right
  BY Zenon DEF IsParenthesis
<1> HIDE DEF left, right, A, B, C
<1>4. /\ token = left => Added(st, token) = A
      /\ token = right => Added(st, token) = B
      /\ ~IsParenthesis(token) => Added(st, token) = C
  BY <1>1, <1>2, <1>3
<1> QED
  BY <1>4 DEF left, right, A, B, C

-----------------------------------------------------------------------------
(* The steps of the parser. *)

\* Tokens that nothing ends, and one more that a text goes on with.
LEMMA NextToken ==
    ASSUME NEW text \in Lexemes, NEW tokens \in Seq(Lexemes), NEW token \in Lexemes,
           Ends(tokens) = {}, Begins(Append(tokens, token), Tokens(text))
    PROVE  LET more == Append(tokens, token)
           IN  IF Wellformed(token) /\ Balance(more) > 0 THEN Ends(more) = {}
               ELSE FirstDatum(text) = IF Balance(more) = 0 /\ Wellformed(token)
                                       THEN more ELSE <<>>
<1> DEFINE more == Append(tokens, token)
<1>1. /\ more \in Seq(Lexemes) /\ Len(more) = Len(tokens) + 1
      /\ more[Len(tokens) + 1] = token
  BY AppendProperties
<1>2. Ends(more) = IF ~Wellformed(token) \/ Balance(more) <= 0
                   THEN {Len(tokens) + 1} ELSE {}
  BY EndsRule
<1>3. Balance(more) \in Int
  BY <1>1, BalanceRule
<1>4. Begins(more, Tokens(text))
  OBVIOUS
<1> HIDE DEF more
<1>5. CASE Wellformed(token) /\ Balance(more) > 0
  <2>1. ~(Balance(more) <= 0)
    BY <1>3, <1>5
  <2> QED
    BY <1>2, <1>5, <2>1, Zenon DEF more
<1>6. CASE ~(Wellformed(token) /\ Balance(more) > 0)
  <2>1. ~Wellformed(token) \/ Balance(more) <= 0
    BY <1>3, <1>6
  <2>2. Ends(more) = {Len(more)}
    BY <1>1, <1>2, <2>1
  <2>3. FirstDatum(text) = IF Balance(more) = 0 /\ Wellformed(more[Len(more)])
                           THEN more ELSE <<>>
    BY <1>1, <1>4, <2>2, FirstDatumIs
  <2>4. more[Len(more)] = token
    BY <1>1
  <2>5. FirstDatum(text) = IF Balance(more) = 0 /\ Wellformed(token)
                           THEN more ELSE <<>>
    BY <2>3, <2>4, Zenon
  <2> QED
    BY <1>6, <2>5, Zenon DEF more
<1> QED
  BY <1>5, <1>6

\* Outside of all lists there is no token before that nothing has ended.
LEMMA NothingOpen ==
    ASSUME NEW tokens \in Seq(Lexemes), Ends(tokens) = {}, Balance(tokens) = 0
    PROVE  tokens = <<>>
<1> SUFFICES ASSUME tokens # <<>> PROVE FALSE
  OBVIOUS
<1>1. Len(tokens) \in DOMAIN tokens /\ SubSeq(tokens, 1, Len(tokens)) = tokens
  BY SubSeqFull
<1>2. Balance(SubSeq(tokens, 1, Len(tokens))) <= 0
  <2>1. Balance(SubSeq(tokens, 1, Len(tokens))) = 0
    BY <1>1, Zenon
  <2>2. \A k : k = 0 => k <= 0
    OBVIOUS
  <2> QED
    BY <2>1, <2>2, Zenon
<1>3. Len(tokens) \in Ends(tokens)
  BY <1>1, <1>2, Zenon DEF Ends
<1> QED
  BY <1>3

\* The lists that the parser has, and what it has got to, agree with the tokens
\* before its position: the parser is inside a datum, or before the first one.
InDatum(text, context, d) ==
    LET tokens == Consumed(text, context.cursor)
    IN  /\ AtCut(text, context.cursor)
        /\ Ends(tokens) = {}
        /\ Balance(tokens) = d
        /\ Built(tokens) = [list |-> context.program, around |-> context.parents]
        /\ d > 0 => context.parents[1] = <<>>

\* The parser has put together the first datum.
FoundDatum(text, context) ==
    /\ FirstDatum(text) # <<>>
    /\ Built(FirstDatum(text)).list = context.program
    /\ context.program[1][1] # "exception"

LEMMA InDatumParts ==
    ASSUME NEW text, NEW context, NEW d
    PROVE  InDatum(text, context, d) <=>
              /\ AtCut(text, context.cursor)
              /\ Ends(Consumed(text, context.cursor)) = {}
              /\ Balance(Consumed(text, context.cursor)) = d
              /\ Built(Consumed(text, context.cursor))
                    = [list |-> context.program, around |-> context.parents]
              /\ d > 0 => context.parents[1] = <<>>
BY Zenon DEF InDatum

\* Of a list with nothing before.
LEMMA FirstValue ==
    ASSUME NEW list, NEW kind, NEW data, list = Append(<<>>, <<kind, data>>),
           kind # "exception"
    PROVE  list[1][1] # "exception"
<1>1. PICK value : value = <<kind, data>>
  OBVIOUS
<1>2. value[1] = kind
  BY <1>1
<1>3. list = Append(<<>>, value)
  BY <1>1
<1>4. <<>> \in Seq({value}) /\ Len(<<>>) = 0
  OBVIOUS
<1>5. Append(<<>>, value)[Len(<<>>) + 1] = value
  BY <1>4, AppendProperties
<1>6. Append(<<>>, value)[1] = value
  BY <1>4, <1>5
<1> QED
  BY <1>2, <1>3, <1>6

\* After the blanks.
LEMMA SkipBlanks ==
    ASSUME NEW text \in Lexemes, NEW context, NEW d, InDatum(text, context, d),
           NEW i, i = AfterBlanks(text, context.cursor)
    PROVE  /\ i \in 1 .. Len(text) + 1 /\ Len(text) \in Nat
           /\ Consumed(text, i) = Consumed(text, context.cursor)
           /\ Consumed(text, i) \in Seq(Lexemes)
           /\ i <= Len(text) => AtToken(text, i)
           /\ i = Len(text) + 1 => FirstDatum(text) = <<>>
<1>1. /\ AtCut(text, context.cursor)
      /\ Ends(Consumed(text, context.cursor)) = {}
  BY InDatumParts
<1>2. /\ i \in 1 .. Len(text) + 1
      /\ Consumed(text, i) = Consumed(text, context.cursor)
      /\ i <= Len(text) => AtCut(text, i) /\ text[i] \notin White \cup {";"}
      /\ i = Len(text) + 1 => Tokens(text) = Consumed(text, context.cursor)
  BY <1>1, BlanksSkipped
<1>3. Len(text) \in Nat
  BY DEF Lexemes
<1>4. Consumed(text, i) \in Seq(Lexemes)
  BY <1>2, BeforeType
<1>5. i <= Len(text) => AtToken(text, i)
  <2>2. i \in 1 .. Len(text) + 1
    BY <1>2, Zenon
  <2>1. i <= Len(text) => i \in 1 .. Len(text)
    BY <1>3, <2>2
  <2> QED
    BY <1>2, <2>1, Zenon DEF AtToken
<1>6. i = Len(text) + 1 => FirstDatum(text) = <<>>
  BY <1>1, <1>2, FirstDatumNone
<1> QED
  BY <1>2, <1>3, <1>4, <1>5, <1>6

LEMMA OutsideParts ==
    ASSUME NEW text \in Lexemes, NEW context, InDatum(text, context, 0)
    PROVE  /\ Consumed(text, context.cursor) = <<>>
           /\ context.program = <<>> /\ context.parents = <<>>
<1>1. /\ AtCut(text, context.cursor)
      /\ Ends(Consumed(text, context.cursor)) = {}
      /\ Balance(Consumed(text, context.cursor)) = 0
      /\ Built(Consumed(text, context.cursor))
            = [list |-> context.program, around |-> context.parents]
  BY InDatumParts
<1>2. Consumed(text, context.cursor) \in Seq(Lexemes)
  BY <1>1, CutInside, BeforeType
<1>3. Consumed(text, context.cursor) = <<>>
  BY <1>1, <1>2, NothingOpen
<1>4. Unbuilt = [list |-> context.program, around |-> context.parents]
  BY <1>1, <1>3, BuiltEmpty
<1>5. Unbuilt = [list |-> <<>>, around |-> <<>>]
  BY DEF Unbuilt
<1> QED
  BY <1>3, <1>4, <1>5

\* A value is added.
LEMMA ValueTaken ==
    ASSUME NEW text \in Lexemes, NEW context, NEW d \in Nat,
           InDatum(text, context, d),
           NEW i, i = AfterBlanks(text, context.cursor), ValueEnd(text, i) # 0,
           NEW next, next.cursor = ValueEnd(text, i),
           next.parents = context.parents,
           next.program = Append(context.program,
                            <<"atom", SubSeq(text, i, ValueEnd(text, i) - 1)>>)
    PROVE  IF d = 0 THEN FoundDatum(text, next) ELSE InDatum(text, next, d)
<1> DEFINE end == ValueEnd(text, i)
           token == SubSeq(text, i, end - 1)
           tokens == Consumed(text, i)
           more == Append(tokens, token)
<1>1. /\ i \in 1 .. Len(text) + 1 /\ Len(text) \in Nat
      /\ tokens = Consumed(text, context.cursor)
      /\ tokens \in Seq(Lexemes)
      /\ i <= Len(text) => AtToken(text, i)
  BY SkipBlanks
<1>2. i <= Len(text)
  <2>1. SUFFICES ASSUME i = Len(text) + 1 PROVE FALSE
    BY <1>1
  <2>2. At(text, i) = "end of text"
    <3>1. i \notin 1 .. Len(text)
      BY <1>1, <2>1
    <3> QED
      BY <3>1, Zenon DEF At
  <2>3. At(text, i) # Quote
    BY <2>2, Chars
  <2>4. TokenEnd(text, i) = i
    <3>1. TokenEnd(text, i) \in i .. Len(text) + 1
      BY <1>1, TokenRule
    <3> QED
      BY <1>1, <2>1, <3>1
  <2>5. ~(i < TokenEnd(text, i))
    BY <1>1, <2>4
  <2>6. ValueEnd(text, i) = 0
    BY <2>3, <2>5, Zenon DEF ValueEnd, Quote
  <2> QED
    BY <2>6
<1>3. AtToken(text, i)
  BY <1>1, <1>2
<1>4. /\ AtCut(text, end) /\ Consumed(text, end) = more
      /\ token \in Lexemes /\ Wellformed(token) /\ ~IsParenthesis(token)
  BY <1>3, ValueLexed
<1>5. /\ Ends(tokens) = {} /\ Balance(tokens) = d
      /\ Built(tokens) = [list |-> context.program, around |-> context.parents]
      /\ d > 0 => context.parents[1] = <<>>
  BY <1>1, InDatumParts
<1>6. /\ next.cursor = end /\ next.parents = context.parents
      /\ next.program = Append(context.program, <<"atom", token>>)
  OBVIOUS
<1>14. InDatum(text, context, d)
  OBVIOUS
<1> HIDE DEF end, token
<1>7. Begins(more, Tokens(text))
  BY <1>4, ConsumedBegins
<1> HIDE DEF tokens
<1>8. Balance(more) = d
  BY <1>1, <1>4, <1>5, BalanceRule
<1>9. Built(more) = [list |-> next.program, around |-> next.parents]
  <2>1. Built(more) = Added(Built(tokens), token)
    BY <1>1, <1>4, BuiltRule
  <2>2. Added(Built(tokens), token)
          = [list |-> Append(Built(tokens).list, <<"atom", token>>),
             around |-> Built(tokens).around]
    BY <1>4, AddedRules
  <2>3. /\ Built(tokens).list = context.program
        /\ Built(tokens).around = context.parents
    BY <1>5
  <2> QED
    BY <1>6, <2>1, <2>2, <2>3
<1>10. IF Wellformed(token) /\ Balance(more) > 0 THEN Ends(more) = {}
       ELSE FirstDatum(text) = IF Balance(more) = 0 /\ Wellformed(token)
                               THEN more ELSE <<>>
  BY <1>1, <1>4, <1>5, <1>7, NextToken
<1> HIDE DEF more
<1>11. CASE d = 0
  <2>1. FirstDatum(text) = more
    BY <1>4, <1>8, <1>10, <1>11
  <2>2. more # <<>>
    BY <1>1, <1>4, AppendProperties DEF more
  <2>3. Built(more).list = next.program
    BY <1>9
  <2>4. context.program = <<>>
    BY <1>11, <1>14, OutsideParts
  <2>5. next.program[1][1] # "exception"
    <3>1. next.program = Append(<<>>, <<"atom", token>>)
      BY <1>6, <2>4, Zenon
    <3>2. "atom" # "exception"
      OBVIOUS
    <3> QED
      BY <3>1, <3>2, FirstValue
  <2>6. FoundDatum(text, next)
    BY <2>1, <2>2, <2>3, <2>5 DEF FoundDatum
  <2> QED
    BY <1>11, <2>6
<1>12. CASE d # 0
  <2>1. Ends(more) = {}
    BY <1>4, <1>8, <1>10, <1>12
  <2>2. InDatum(text, next, d)
    BY <1>4, <1>5, <1>6, <1>8, <1>9, <2>1, InDatumParts
  <2> QED
    BY <1>12, <2>2
<1> QED
  BY <1>11, <1>12

LEMMA AtTokenIs ==
    ASSUME NEW text, NEW i, NEW c, At(text, i) = c, c # "end of text"
    PROVE  i \in 1 .. Len(text) /\ text[i] = c
BY DEF At

\* A list is begun.
LEMMA OparenTaken ==
    ASSUME NEW text \in Lexemes, NEW context, NEW d \in Nat,
           InDatum(text, context, d),
           NEW S, context.parents \in Seq(S), Len(context.parents) = d,
           NEW i, i = AfterBlanks(text, context.cursor), At(text, i) = "(",
           NEW next, next.cursor = i + 1, next.program = <<>>,
           next.parents = Append(context.parents, context.program)
    PROVE  InDatum(text, next, d + 1)
<1> DEFINE token == <<"(">>
           tokens == Consumed(text, i)
           more == Append(tokens, token)
<1>1. /\ i \in 1 .. Len(text) + 1 /\ Len(text) \in Nat
      /\ tokens = Consumed(text, context.cursor)
      /\ tokens \in Seq(Lexemes)
      /\ i <= Len(text) => AtToken(text, i)
  BY SkipBlanks
<1>2. i \in 1 .. Len(text) /\ text[i] = "("
  BY AtTokenIs
<1>3. AtToken(text, i)
  BY <1>1, <1>2
<1>4. /\ AtCut(text, i + 1) /\ Consumed(text, i + 1) = more
      /\ token \in Lexemes
  <2>1. "(" \in Glyphs
    BY DEF Glyphs
  <2> QED
    BY <1>2, <1>3, <2>1, ParenthesisLexed, LexemesAre
<1>5. IsParenthesis(token) /\ Wellformed(token)
  BY DEF IsParenthesis, Wellformed
<1>6. /\ Ends(tokens) = {} /\ Balance(tokens) = d
      /\ Built(tokens) = [list |-> context.program, around |-> context.parents]
      /\ d > 0 => context.parents[1] = <<>>
  BY <1>1, InDatumParts
<1>7. InDatum(text, context, d)
  OBVIOUS
<1>8. Begins(more, Tokens(text))
  BY <1>4, ConsumedBegins
<1> HIDE DEF tokens
<1>9. Balance(more) = d + 1
  BY <1>1, <1>4, <1>6, BalanceRule
<1>10. Built(more) = [list |-> next.program, around |-> next.parents]
  <2>1. Built(more) = Added(Built(tokens), token)
    BY <1>1, <1>4, BuiltRule
  <2>2. Added(Built(tokens), token)
          = [list |-> <<>>, around |-> Append(Built(tokens).around, Built(tokens).list)]
    BY AddedRules
  <2>3. /\ Built(tokens).list = context.program
        /\ Built(tokens).around = context.parents
    BY <1>6
  <2> QED
    BY <2>1, <2>2, <2>3
<1> HIDE DEF token, more
<1>11. Ends(more) = {}
  <2>1. Balance(more) > 0
    BY <1>9
  <2> QED
    BY <1>1, <1>4, <1>5, <1>6, <1>8, <2>1, NextToken DEF more
<1>12. next.parents[1] = <<>>
  <2>1. CASE d = 0
    <3>1. context.parents = <<>> /\ context.program = <<>>
      BY <1>7, <2>1, OutsideParts
    <3>2. next.parents = Append(<<>>, <<>>)
      BY <3>1
    <3> QED
      BY <3>2
  <2>2. CASE d # 0
    <3>1. 1 \in 1 .. Len(context.parents) /\ d > 0
      BY <2>2
    <3>2. context.parents \in Seq(S \cup {context.program})
      BY SeqMonotonic
    <3>3. next.parents[1] = context.parents[1]
      BY <3>1, <3>2, AppendProperties
    <3> QED
      BY <1>6, <3>1, <3>3
  <2> QED
    BY <2>1, <2>2
<1>13. next.cursor = i + 1
  OBVIOUS
<1> QED
  BY <1>4, <1>9, <1>10, <1>11, <1>12, <1>13, InDatumParts

\* A list is ended.
LEMMA CparenTaken ==
    ASSUME NEW text \in Lexemes, NEW context, NEW d \in Nat, d > 0,
           InDatum(text, context, d),
           NEW S, context.parents \in Seq(S), Len(context.parents) = d,
           At(text, context.cursor) = ")",
           NEW next, next.cursor = context.cursor + 1,
           next.program = Append(context.parents[Len(context.parents)],
                                 <<"list", context.program>>),
           next.parents = SubSeq(context.parents, 1, Len(context.parents) - 1)
    PROVE  IF d - 1 = 0 THEN FoundDatum(text, next) ELSE InDatum(text, next, d - 1)
<1> DEFINE i == context.cursor
           token == <<")">>
           tokens == Consumed(text, i)
           more == Append(tokens, token)
<1>1. /\ AtCut(text, i) /\ Ends(tokens) = {} /\ Balance(tokens) = d
      /\ Built(tokens) = [list |-> context.program, around |-> context.parents]
      /\ d > 0 => context.parents[1] = <<>>
  BY InDatumParts
<1>2. i \in 1 .. Len(text) /\ text[i] = ")"
  BY AtTokenIs
<1>3. AtToken(text, i) /\ tokens \in Seq(Lexemes)
  <2>1. tokens \in Seq(Lexemes)
    BY <1>1, CutInside, BeforeType
  <2>2. text[i] \notin White \cup {";"}
    BY <1>2 DEF White
  <2> QED
    BY <1>1, <1>2, <2>1, <2>2 DEF AtToken
<1>4. /\ AtCut(text, i + 1) /\ Consumed(text, i + 1) = more
      /\ token \in Lexemes
  <2>1. ")" \in Glyphs
    <3>1. text[i] \in Glyphs
      BY <1>2 DEF Lexemes
    <3> QED
      BY <1>2, <3>1
  <2> QED
    BY <1>2, <1>3, <2>1, ParenthesisLexed, LexemesAre
<1>5. IsParenthesis(token) /\ Wellformed(token)
  BY DEF IsParenthesis, Wellformed
<1>8. Begins(more, Tokens(text))
  BY <1>4, ConsumedBegins
<1>13. next.cursor = i + 1
  OBVIOUS
<1> HIDE DEF tokens, i
<1>9. Balance(more) = d - 1
  BY <1>1, <1>3, <1>4, BalanceRule
<1>10. Built(more) = [list |-> next.program, around |-> next.parents]
  <2>1. Built(more) = Added(Built(tokens), token)
    BY <1>3, <1>4, BuiltRule
  <2> DEFINE st == Built(tokens)
  <2>2. Added(st, token)
          = [list |-> Append(st.around[Len(st.around)], <<"list", st.list>>),
             around |-> SubSeq(st.around, 1, Len(st.around) - 1)]
    BY AddedRules
  <2>3. st.list = context.program /\ st.around = context.parents
    BY <1>1
  <2> HIDE DEF st
  <2>4. Added(st, token) = [list |-> next.program, around |-> next.parents]
    BY <2>2, <2>3
  <2> QED
    BY <2>1, <2>4 DEF st
<1>11. IF Wellformed(token) /\ Balance(more) > 0 THEN Ends(more) = {}
       ELSE FirstDatum(text) = IF Balance(more) = 0 /\ Wellformed(token)
                               THEN more ELSE <<>>
  BY <1>1, <1>3, <1>4, <1>8, NextToken
<1>12. more # <<>>
  BY <1>3, <1>4, AppendProperties
<1> HIDE DEF token, more
<1>14. CASE d - 1 = 0
  <2>1. FirstDatum(text) = more
    BY <1>5, <1>9, <1>11, <1>14
  <2>2. Built(more).list = next.program
    BY <1>10
  <2>3. next.program[1][1] # "exception"
    <3>1. Len(context.parents) = 1 /\ d > 0
      BY <1>14
    <3>2. next.program = Append(<<>>, <<"list", context.program>>)
      BY <1>1, <3>1
    <3>3. "list" # "exception"
      OBVIOUS
    <3> QED
      BY <3>2, <3>3, FirstValue
  <2>4. FoundDatum(text, next)
    BY <1>12, <2>1, <2>2, <2>3 DEF FoundDatum
  <2> QED
    BY <1>14, <2>4
<1>15. CASE d - 1 # 0
  <2>1. d - 1 > 0 /\ Balance(more) > 0
    BY <1>9, <1>15
  <2>2. Ends(more) = {}
    BY <1>5, <1>11, <2>1
  <2>3. next.parents[1] = <<>>
    <3>1. 1 \in 1 .. Len(context.parents) - 1
      BY <2>1
    <3>2. next.parents[1] = context.parents[1]
      BY <3>1
    <3> QED
      BY <1>1, <3>2
  <2>4. InDatum(text, next, d - 1)
    BY <1>4, <1>9, <1>10, <1>13, <2>2, <2>3, InDatumParts
  <2> QED
    BY <1>15, <2>4
<1> QED
  BY <1>14, <1>15

\* Nothing is added.
LEMMA NothingTaken ==
    ASSUME NEW text \in Lexemes, NEW context, NEW d \in Nat,
           InDatum(text, context, d),
           NEW i, i = AfterBlanks(text, context.cursor),
           ValueEnd(text, i) = 0, At(text, i) # "(",
           NEW next, next.cursor = i, next.program = context.program,
           next.parents = context.parents
    PROVE  IF d > 0 /\ At(text, i) = ")" THEN InDatum(text, next, d)
           ELSE FirstDatum(text) = <<>>
<1> DEFINE tokens == Consumed(text, i)
<1>1. /\ i \in 1 .. Len(text) + 1 /\ Len(text) \in Nat
      /\ tokens = Consumed(text, context.cursor)
      /\ tokens \in Seq(Lexemes)
      /\ i <= Len(text) => AtToken(text, i)
      /\ i = Len(text) + 1 => FirstDatum(text) = <<>>
  BY SkipBlanks
<1>2. /\ Ends(tokens) = {} /\ Balance(tokens) = d
      /\ Built(tokens) = [list |-> context.program, around |-> context.parents]
      /\ d > 0 => context.parents[1] = <<>>
  BY <1>1, InDatumParts
<1>3. InDatum(text, context, d)
  OBVIOUS
<1>4. CASE At(text, i) = ")"
  <2>1. i \in 1 .. Len(text) /\ text[i] = ")"
    <3>1. ")" # "end of text"
      OBVIOUS
    <3> QED
      BY <1>4, <3>1, AtTokenIs, Zenon
  <2>2. AtToken(text, i)
    BY <1>1, <2>1
  <2>3. CASE d > 0
    <3>1. AtCut(text, i)
      BY <2>2 DEF AtToken
    <3>2. InDatum(text, next, d)
      <4>1. next.cursor = i
        OBVIOUS
      <4>2. [list |-> context.program, around |-> context.parents]
              = [list |-> next.program, around |-> next.parents]
        OBVIOUS
      <4>3. d > 0 => next.parents[1] = <<>>
        BY <1>2
      <4> HIDE DEF tokens
      <4> QED
        BY <1>2, <3>1, <4>1, <4>2, <4>3, InDatumParts DEF tokens
    <3> QED
      BY <1>4, <2>3, <3>2
  <2>4. CASE ~(d > 0)
    <3> DEFINE token == <<")">>
               more == Append(tokens, token)
    <3>1. /\ AtCut(text, i + 1) /\ Consumed(text, i + 1) = more
          /\ token \in Lexemes
      <4>1. ")" \in Glyphs
        <5>1. text[i] \in Glyphs
          BY <2>1 DEF Lexemes
        <5> QED
          BY <2>1, <5>1
      <4> QED
        BY <2>1, <2>2, <4>1, ParenthesisLexed, LexemesAre
    <3>2. Begins(more, Tokens(text))
      BY <3>1, ConsumedBegins
    <3> HIDE DEF tokens
    <3>3. Balance(more) = d - 1
      BY <1>1, <1>2, <3>1, BalanceRule
    <3>4. IF Wellformed(token) /\ Balance(more) > 0 THEN Ends(more) = {}
          ELSE FirstDatum(text) = IF Balance(more) = 0 /\ Wellformed(token)
                                  THEN more ELSE <<>>
      BY <1>1, <1>2, <3>1, <3>2, NextToken
    <3> HIDE DEF more, token
    <3>5. ~(Balance(more) > 0) /\ Balance(more) # 0
      BY <2>4, <3>3
    <3>6. FirstDatum(text) = <<>>
      BY <3>4, <3>5
    <3> QED
      BY <2>4, <3>6
  <2> QED
    BY <2>3, <2>4
<1>5. CASE At(text, i) # ")"
  <2>1. CASE i = Len(text) + 1
    BY <1>1, <1>5, <2>1
  <2>2. CASE i # Len(text) + 1
    <3>1. i \in 1 .. Len(text) /\ AtToken(text, i)
      BY <1>1, <2>2
    <3>2. At(text, i) = text[i]
      BY <3>1, TokenInside
    <3>3. text[i] \notin {"(", ")"}
      BY <1>5, <3>2
    <3>4. \/ Tokens(text) = tokens
          \/ \E token \in Lexemes :
                /\ ~Wellformed(token)
                /\ Begins(Append(tokens, token), Tokens(text))
      BY <3>1, <3>3, NothingLexed
    <3> HIDE DEF tokens
    <3>5. CASE Tokens(text) = tokens
      BY <1>2, <1>5, <3>5, FirstDatumNone
    <3>6. CASE \E token \in Lexemes :
                  /\ ~Wellformed(token)
                  /\ Begins(Append(tokens, token), Tokens(text))
      <4>1. PICK token \in Lexemes : /\ ~Wellformed(token)
                                     /\ Begins(Append(tokens, token), Tokens(text))
        BY <3>6
      <4>2. FirstDatum(text) = <<>>
        BY <1>1, <1>2, <4>1, NextToken
      <4> QED
        BY <1>5, <4>2
    <3> QED
      BY <3>4, <3>5, <3>6
  <2> QED
    BY <2>1, <2>2
<1> QED
  BY <1>4, <1>5

-----------------------------------------------------------------------------
(* The invariant of the datum. *)

\* What the parser has found out so far.
Parsed ==
    /\ mode = "line" => FirstDatum(source) = <<>>
    /\ mode = "expr" => InDatum(source, ctx, depth)
    /\ mode = "cparen" =>
          /\ ctx.matched = FALSE
          /\ IF depth > 0 /\ At(source, ctx.cursor) = ")"
             THEN InDatum(source, ctx, depth)
             ELSE FirstDatum(source) = <<>>
    /\ mode = "parsed" =>
          IF Success(ctx) THEN FoundDatum(source, ctx) ELSE FirstDatum(source) = <<>>
    /\ mode = "done" =>
          IF HasRead
          THEN /\ FirstDatum(source) # <<>>
               /\ result = Datum(FirstDatum(source))
          ELSE FirstDatum(source) = <<>> /\ at = Len(input)

\* Lines are read whole, if they fit, and only as long as there is no datum.
LinesRead ==
    /\ eof => at = Len(input)
    /\ LinesFit => at = 0 \/ at = Len(input) \/ input[at] = "\n"
    /\ \A n \in 0 .. at - 1 :
          n = 0 \/ input[n] = "\n" => FirstDatum(SubSeq(input, 1, n)) = <<>>

DatumInv == Inv /\ Parsed /\ LinesRead

\* Texts are made of characters.
LEMMA TextsAre ==
    ASSUME NEW text \in Seq(STRING)
    PROVE  text \in Lexemes
<1>1. STRING \subseteq Glyphs
  BY DEF Glyphs
<1> QED
  BY <1>1, SeqMonotonic DEF Lexemes

\* A text without characters has no datum, and is where the parser begins.
LEMMA StartInDatum ==
    ASSUME NEW text \in Lexemes
    PROVE  InDatum(text, Start, 0)
<1>1. /\ Start.cursor = 1 /\ Start.program = <<>> /\ Start.parents = <<>>
  BY DEF Start
<1>2. Len(text) \in Nat /\ 1 - 1 = 0 /\ 1 \in 1 .. Len(text) + 1
  BY DEF Lexemes
<1>3. Before(text, 1) = Unlexed
  BY <1>2, LexingRule DEF Before
<1>4. AtCut(text, 1) /\ Consumed(text, 1) = <<>>
  BY <1>2, <1>3, UnlexedType DEF AtCut, Consumed, Ended
<1>5. Built(<<>>) = [list |-> Start.program, around |-> Start.parents]
  BY <1>1, BuiltEmpty DEF Unbuilt
<1>6. AtCut(text, Start.cursor) /\ Consumed(text, Start.cursor) = <<>>
  BY <1>1, <1>4, Zenon
<1>7. ~(0 > 0)
  OBVIOUS
<1> QED
  BY <1>5, <1>6, <1>7, BalanceEmpty, EndsEmpty, InDatumParts, Zenon

LEMMA NoTextNoDatum ==
    FirstDatum(<<>>) = <<>>
<1>1. <<>> \in Lexemes /\ Len(<<>>) = 0
  BY LexemesAre
<1>2. Lexing(<<>>)[0] = Unlexed
  BY <1>1, LexingRule
<1>3. Tokens(<<>>) = <<>>
  BY <1>1, <1>2, UnlexedType DEF Tokens, Ended
<1> QED
  BY <1>3, EndsEmpty, FirstDatumNone

LEMMA InitDatum == Init => DatumInv
<1> SUFFICES ASSUME Init PROVE DatumInv
  OBVIOUS
<1>1. Inv
  BY InitInv
<1>2. /\ mode = "line" /\ source = <<>> /\ at = 0 /\ eof = FALSE
      /\ input \in Seq(STRING)
  BY ReaderAssumption DEF Init
<1>3. Parsed
  BY <1>2, NoTextNoDatum DEF Parsed
<1>4. LinesRead
  BY <1>2 DEF LinesRead
<1> QED
  BY <1>1, <1>3, <1>4 DEF DatumInv

\* What a step of the parser does not change.
LEMMA LinesReadStay ==
    ASSUME LinesRead, input' = input, at' = at, eof' = eof
    PROVE  LinesRead'
BY DEF LinesRead, LinesFit

LEMMA ReadLineDatum ==
    ASSUME DatumInv, ReadLine
    PROVE  Parsed' /\ LinesRead'
<1>1. /\ mode = "line" /\ at < Len(input) /\ at' = LineEnd /\ eof' = MeetsEnd
      /\ ctx' = Start /\ mode' = "expr" /\ input' = input /\ depth' = depth
  BY DEF ReadLine, ReadLineAfter
<1>2. /\ Inv /\ Inv' /\ input \in Seq(STRING) /\ at \in 0 .. Len(input)
      /\ source = SubSeq(input, 1, at) /\ depth = 0 /\ source' \in Seq(STRING)
  BY <1>1, ReadMore DEF DatumInv, Inv, Types, Outside, SourceIsRead
<1>3. FirstDatum(source) = <<>>
  BY <1>1 DEF DatumInv, Parsed
<1>4. Parsed'
  <2>1. InDatum(source', Start, 0)
    BY <1>2, TextsAre, StartInDatum
  <2>2. InDatum(source', ctx', depth')
    BY <1>1, <1>2, <2>1
  <2> QED
    BY <1>1, <2>2 DEF Parsed
<1>5. /\ LineEnd \in at + 1 .. Len(input)
      /\ \A i \in at + 1 .. LineEnd - 1 : input[i] # "\n"
      /\ \/ input[LineEnd] = "\n" \/ LineEnd = Len(input)
         \/ LineEnd = at + BufferSize
  <2> DEFINE T == {i \in at + 1 .. Len(input) : input[i] = "\n"}
                    \cup {Len(input), at + BufferSize}
  <2>1. LineEnd \in at + 1 .. Len(input)
    BY <1>1, <1>2, LinesEnd
  <2>2. LineEnd = First(T)
    BY DEF LineEnd
  <2>3. BufferSize \in Nat /\ at \in Nat /\ Len(input) \in Nat
    BY <1>2, ReaderAssumption
  <2>4. T \subseteq Nat /\ T # {}
    BY <2>3
  <2>5. LineEnd \in T /\ \A y \in T : LineEnd <= y
    <3> HIDE DEF T
    <3> QED
      BY <2>2, <2>4, FirstIsSmallest
  <2>6. ASSUME NEW i \in at + 1 .. LineEnd - 1 PROVE input[i] # "\n"
    <3>1. i \in at + 1 .. Len(input) /\ ~(LineEnd <= i)
      BY <2>1, <2>3
    <3> QED
      BY <2>5, <3>1
  <2> QED
    BY <2>1, <2>5, <2>6
<1>6. MeetsEnd => LineEnd = Len(input)
  BY DEF MeetsEnd
<1>7. LinesFit =>
         LineEnd = 0 \/ LineEnd = Len(input) \/ input[LineEnd] = "\n"
  <2> SUFFICES ASSUME LinesFit, LineEnd # Len(input), input[LineEnd] # "\n"
               PROVE  FALSE
    OBVIOUS
  <2>1. LineEnd = at + BufferSize
    BY <1>5
  <2>2. BufferSize \in Nat /\ BufferSize >= 1 /\ at \in Nat /\ Len(input) \in Nat
    BY <1>2, ReaderAssumption
  <2>3. at + 1 \in 1 .. Len(input) - BufferSize + 1
    BY <1>5, <2>1, <2>2
  <2>4. PICK j \in at + 1 .. (at + 1) + BufferSize - 1 : input[j] = "\n"
    BY <2>3 DEF LinesFit
  <2>5. j = LineEnd \/ j \in at + 1 .. LineEnd - 1
    BY <2>1, <2>2
  <2> QED
    BY <1>5, <2>4, <2>5
<1>8. \A n \in 0 .. LineEnd - 1 :
         n = 0 \/ input[n] = "\n" => FirstDatum(SubSeq(input, 1, n)) = <<>>
  <2>1. TAKE n \in 0 .. LineEnd - 1
  <2>2. HAVE n = 0 \/ input[n] = "\n"
  <2>3. CASE n < at
    <3>1. n \in 0 .. at - 1
      BY <1>2, <1>5, <2>3
    <3> QED
      BY <2>2, <3>1 DEF DatumInv, LinesRead
  <2>4. CASE n = at
    BY <1>2, <1>3, <2>4
  <2>5. CASE n > at
    <3>1. n \in at + 1 .. LineEnd - 1 /\ n # 0
      BY <1>2, <1>5, <2>5
    <3> QED
      BY <1>5, <2>2, <3>1
  <2> QED
    BY <1>2, <1>5, <2>3, <2>4, <2>5
<1>9. LinesFit' <=> LinesFit
  BY <1>1 DEF LinesFit
<1>10. LinesRead'
  BY <1>1, <1>6, <1>7, <1>8, <1>9 DEF LinesRead
<1> QED
  BY <1>4, <1>10

LEMMA ParseValueDatum ==
    ASSUME DatumInv, ParseValue
    PROVE  Parsed' /\ LinesRead'
<1> DEFINE end == ValueEnd(source, Here)
<1>1. /\ mode = "expr" /\ end # 0 /\ mode' = After(depth) /\ depth' = depth
      /\ ctx' = ProgramAdd(ctx, end, <<"atom", SubSeq(source, Here, end - 1)>>)
      /\ input' = input /\ at' = at /\ eof' = eof /\ source' = source
  BY DEF ParseValue
<1>2. /\ source \in Lexemes /\ depth \in Nat /\ IsCtx
      /\ InDatum(source, ctx, depth)
  BY <1>1, TextsAre DEF DatumInv, Inv, Types, Parsed
<1>3. /\ ctx'.cursor = end /\ ctx'.parents = ctx.parents
      /\ ctx'.program
            = Append(ctx.program, <<"atom", SubSeq(source, Here, end - 1)>>)
      /\ ctx'.matched = TRUE /\ ctx'.open = FALSE
  BY <1>1, <1>2 DEF IsCtx, ProgramAdd
<1>4. IF depth = 0 THEN FoundDatum(source, ctx') ELSE InDatum(source, ctx', depth)
  BY <1>1, <1>2, <1>3, ValueTaken DEF Here
<1> HIDE DEF end
<1>5. Parsed'
  <2>1. CASE depth = 0
    <3>1. mode' = "parsed" /\ Success(ctx')
      BY <1>1, <1>3, <2>1 DEF After, Success
    <3> QED
      BY <1>1, <1>4, <2>1, <3>1 DEF Parsed
  <2>2. CASE depth # 0
    <3>1. mode' = "expr"
      BY <1>1, <2>2 DEF After
    <3> QED
      BY <1>1, <1>4, <2>2, <3>1 DEF Parsed
  <2> QED
    BY <2>1, <2>2
<1>6. LinesRead'
  BY <1>1, LinesReadStay DEF DatumInv
<1> QED
  BY <1>5, <1>6

LEMMA ParseOparenDatum ==
    ASSUME DatumInv, ParseOparen
    PROVE  Parsed' /\ LinesRead'
<1>1. /\ mode = "expr" /\ At(source, Here) = "(" /\ mode' = mode
      /\ depth' = depth + 1 /\ ctx' = Oparen(ctx, Here)
      /\ input' = input /\ at' = at /\ eof' = eof /\ source' = source
  BY DEF ParseOparen
<1>2. /\ source \in Lexemes /\ depth \in Nat /\ IsCtx
      /\ Len(ctx.parents) = depth /\ InDatum(source, ctx, depth)
  BY <1>1, TextsAre DEF DatumInv, Inv, Types, NestingAgrees, Parsed
<1>3. PICK T : ctx.parents \in Seq(T)
  BY <1>2 DEF IsCtx, IsList
<1>4. /\ ctx'.cursor = Here + 1 /\ ctx'.program = <<>>
      /\ ctx'.parents = Append(ctx.parents, ctx.program)
  BY <1>1, <1>2 DEF IsCtx, Oparen
<1>5. InDatum(source, ctx', depth + 1)
  BY <1>1, <1>2, <1>3, <1>4, OparenTaken DEF Here
<1>6. Parsed'
  BY <1>1, <1>5 DEF Parsed
<1>7. LinesRead'
  BY <1>1, LinesReadStay DEF DatumInv
<1> QED
  BY <1>6, <1>7

LEMMA ParseNothingDatum ==
    ASSUME DatumInv, ParseNothing
    PROVE  Parsed' /\ LinesRead'
<1>1. /\ mode = "expr" /\ mode' = "cparen" /\ depth' = depth
      /\ ValueEnd(source, Here) = 0 /\ At(source, Here) # "("
      /\ ctx' = Unmatched([ctx EXCEPT !.cursor = Here], FALSE)
      /\ input' = input /\ at' = at /\ eof' = eof /\ source' = source
  BY DEF ParseNothing
<1>2. /\ source \in Lexemes /\ depth \in Nat /\ IsCtx
      /\ InDatum(source, ctx, depth)
  BY <1>1, TextsAre DEF DatumInv, Inv, Types, Parsed
<1>3. /\ ctx'.cursor = Here /\ ctx'.program = ctx.program
      /\ ctx'.parents = ctx.parents /\ ctx'.matched = FALSE
  BY <1>1, <1>2 DEF IsCtx, Unmatched
<1>4. IF depth > 0 /\ At(source, Here) = ")" THEN InDatum(source, ctx', depth)
      ELSE FirstDatum(source) = <<>>
  BY <1>1, <1>2, <1>3, NothingTaken DEF Here
<1>5. Parsed'
  BY <1>1, <1>3, <1>4 DEF Parsed
<1>6. LinesRead'
  BY <1>1, LinesReadStay DEF DatumInv
<1> QED
  BY <1>5, <1>6

LEMMA ParseCparenDatum ==
    ASSUME DatumInv, ParseCparen
    PROVE  Parsed' /\ LinesRead'
<1>1. /\ mode = "cparen" /\ depth > 0 /\ At(source, ctx.cursor) = ")"
      /\ ctx' = Cparen(ctx) /\ depth' = depth - 1 /\ mode' = After(depth - 1)
      /\ input' = input /\ at' = at /\ eof' = eof /\ source' = source
  BY DEF ParseCparen
<1>2. /\ source \in Lexemes /\ depth \in Nat /\ IsCtx
      /\ Len(ctx.parents) = depth /\ InDatum(source, ctx, depth)
  BY <1>1, TextsAre DEF DatumInv, Inv, Types, NestingAgrees, Parsed
<1>3. PICK T : ctx.parents \in Seq(T)
  BY <1>2 DEF IsCtx, IsList
<1>4. /\ ctx'.cursor = ctx.cursor + 1
      /\ ctx'.program = Append(ctx.parents[Len(ctx.parents)], <<"list", ctx.program>>)
      /\ ctx'.parents = SubSeq(ctx.parents, 1, Len(ctx.parents) - 1)
      /\ ctx'.matched = TRUE /\ ctx'.open = FALSE
  BY <1>1, <1>2 DEF IsCtx, Cparen, ProgramAdd
<1>5. IF depth - 1 = 0 THEN FoundDatum(source, ctx')
      ELSE InDatum(source, ctx', depth - 1)
  BY <1>1, <1>2, <1>3, <1>4, CparenTaken
<1>6. Parsed'
  <2>1. CASE depth - 1 = 0
    <3>1. mode' = "parsed" /\ Success(ctx')
      BY <1>1, <1>4, <2>1 DEF After, Success
    <3> QED
      BY <1>1, <1>5, <2>1, <3>1 DEF Parsed
  <2>2. CASE depth - 1 # 0
    <3>1. mode' = "expr"
      BY <1>1, <2>2 DEF After
    <3> QED
      BY <1>1, <1>5, <2>2, <3>1 DEF Parsed
  <2> QED
    BY <2>1, <2>2
<1>7. LinesRead'
  BY <1>1, LinesReadStay DEF DatumInv
<1> QED
  BY <1>6, <1>7

LEMMA NotClosedDatum ==
    ASSUME DatumInv, NotClosed
    PROVE  Parsed' /\ LinesRead'
<1>1. /\ mode = "cparen" /\ mode' = mode /\ At(source, ctx.cursor) # ")"
      /\ ctx' = Unmatched(ctx, TRUE)
      /\ input' = input /\ at' = at /\ eof' = eof /\ source' = source
  BY DEF NotClosed
<1>2. ctx'.cursor = ctx.cursor /\ ctx'.matched = FALSE
  BY <1>1 DEF DatumInv, Inv, Types, IsCtx, Unmatched
<1>3. FirstDatum(source) = <<>>
  BY <1>1 DEF DatumInv, Parsed
<1>4. Parsed'
  BY <1>1, <1>2, <1>3 DEF Parsed
<1>5. LinesRead'
  BY <1>1, LinesReadStay DEF DatumInv
<1> QED
  BY <1>4, <1>5

LEMMA NoMatchDatum ==
    ASSUME DatumInv, NoMatch
    PROVE  Parsed' /\ LinesRead'
<1>1. /\ mode = "cparen" /\ depth = 0 /\ mode' = "parsed" /\ ctx' = ctx
      /\ input' = input /\ at' = at /\ eof' = eof /\ source' = source
  BY DEF NoMatch
<1>2. FirstDatum(source) = <<>> /\ ~Success(ctx)
  BY <1>1 DEF DatumInv, Parsed, Success
<1>3. Parsed'
  BY <1>1, <1>2 DEF Parsed
<1>4. LinesRead'
  BY <1>1, LinesReadStay DEF DatumInv
<1> QED
  BY <1>3, <1>4

LEMMA AnswerDatum ==
    ASSUME DatumInv, Answer
    PROVE  Parsed' /\ LinesRead'
<1>1. /\ mode = "parsed" /\ Success(ctx) /\ result' = ctx.program[1]
      /\ mode' = "done"
      /\ input' = input /\ at' = at /\ eof' = eof /\ source' = source
  BY DEF Answer
<1>2. FoundDatum(source, ctx)
  BY <1>1 DEF DatumInv, Parsed
<1>3. /\ FirstDatum(source) # <<>> /\ result'[1] # "exception"
      /\ result' = Datum(FirstDatum(source))
  BY <1>1, <1>2 DEF FoundDatum, Datum, Built
<1>4. HasRead'
  BY <1>1, <1>3 DEF HasRead
<1>5. Parsed'
  BY <1>1, <1>3, <1>4 DEF Parsed
<1>6. LinesRead'
  BY <1>1, LinesReadStay DEF DatumInv
<1> QED
  BY <1>5, <1>6

LEMMA RethrowDatum ==
    ASSUME DatumInv, Rethrow
    PROVE  Parsed' /\ LinesRead'
<1>1. /\ mode = "parsed" /\ ~Success(ctx) /\ eof /\ mode' = "done"
      /\ result' = <<"exception", "exc-syntax-error">>
      /\ input' = input /\ at' = at /\ eof' = eof /\ source' = source
  BY DEF Rethrow
<1>2. FirstDatum(source) = <<>> /\ at = Len(input)
  BY <1>1 DEF DatumInv, Parsed, LinesRead
<1>3. ~HasRead'
  BY <1>1 DEF HasRead
<1>4. Parsed'
  BY <1>1, <1>2, <1>3 DEF Parsed
<1>5. LinesRead'
  BY <1>1, LinesReadStay DEF DatumInv
<1> QED
  BY <1>4, <1>5

LEMMA ReadNothingDatum ==
    ASSUME DatumInv, ReadNothing
    PROVE  Parsed' /\ LinesRead'
<1>1. /\ mode = "line" /\ at = Len(input) /\ eof' = TRUE /\ mode' = "done"
      /\ result' = <<"exception", "exc-end-of-file">>
      /\ input' = input /\ at' = at /\ source' = source
  BY DEF ReadNothing
<1>2. FirstDatum(source) = <<>>
  BY <1>1 DEF DatumInv, Parsed
<1>3. ~HasRead'
  BY <1>1 DEF HasRead
<1>4. Parsed'
  BY <1>1, <1>2, <1>3 DEF Parsed
<1>5. LinesRead'
  BY <1>1 DEF DatumInv, LinesRead, LinesFit
<1> QED
  BY <1>4, <1>5

LEMMA ReadOnDatum ==
    ASSUME DatumInv, ReadOn
    PROVE  Parsed' /\ LinesRead'
<1>1. /\ mode = "parsed" /\ ~Success(ctx) /\ mode' = "line"
      /\ input' = input /\ at' = at /\ eof' = eof /\ source' = source
  BY DEF ReadOn
<1>2. FirstDatum(source) = <<>>
  BY <1>1 DEF DatumInv, Parsed
<1>3. Parsed'
  BY <1>1, <1>2 DEF Parsed
<1>4. LinesRead'
  BY <1>1, LinesReadStay DEF DatumInv
<1> QED
  BY <1>3, <1>4

LEMMA NextDatum == DatumInv /\ [Next]_vars => DatumInv'
<1> SUFFICES ASSUME DatumInv, [Next]_vars PROVE DatumInv'
  OBVIOUS
<1>1. Inv'
  BY NextInv DEF DatumInv
<1>2. CASE UNCHANGED vars
  <2>1. /\ input' = input /\ at' = at /\ eof' = eof /\ source' = source
        /\ ctx' = ctx /\ depth' = depth /\ mode' = mode /\ result' = result
    BY <1>2 DEF vars
  <2>2. Parsed'
    BY <2>1 DEF DatumInv, Parsed, HasRead
  <2> QED
    BY <1>1, <2>1, <2>2, LinesReadStay DEF DatumInv
<1>3. CASE Next
  <2>1. Parsed' /\ LinesRead'
    BY <1>3, ReadLineDatum, ReadNothingDatum, ParseValueDatum, ParseOparenDatum,
       ParseNothingDatum, ParseCparenDatum, NotClosedDatum, NoMatchDatum,
       AnswerDatum, RethrowDatum, ReadOnDatum
    DEF Next
  <2> QED
    BY <1>1, <2>1 DEF DatumInv
<1> QED
  BY <1>2, <1>3

LEMMA DatumInvariant == Spec => []DatumInv
BY InitDatum, NextDatum, PTL DEF Spec

\* What read-datum answers is the first datum of the file, of any file whose lines
\* fit in the buffer, and it throws only if there is none (read-datum of
\* src/native.via, src/parse.c): what the grammar cuts and puts together, the parser
\* does.  Of a file with a longer line, the same of the text that was read.
THEOREM ReadsTheFirstDatum == Spec => []ReadsFirstDatum
<1>1. ASSUME DatumInv PROVE ReadsFirstDatum
  <2> SUFFICES ASSUME mode = "done"
               PROVE  LET datum == FirstDatum(IF LinesFit THEN input ELSE source)
                      IN  IF HasRead THEN datum # <<>> /\ result = Datum(datum)
                                     ELSE datum = <<>>
    BY DEF ReadsFirstDatum
  <2>1. /\ IF HasRead THEN /\ FirstDatum(source) # <<>>
                           /\ result = Datum(FirstDatum(source))
           ELSE FirstDatum(source) = <<>> /\ at = Len(input)
        /\ LinesFit => at = 0 \/ at = Len(input) \/ input[at] = "\n"
        /\ input \in Seq(STRING) /\ at \in 0 .. Len(input)
        /\ source = SubSeq(input, 1, at)
    BY <1>1 DEF DatumInv, Parsed, LinesRead, Inv, Types, SourceIsRead
  <2>2. input \in Lexemes /\ source \in Lexemes
    BY <1>1, TextsAre DEF DatumInv, Inv, Types
  <2>3. CASE ~LinesFit
    BY <2>1, <2>3
  <2>4. CASE LinesFit /\ HasRead
    <3>1. Begins(Tokens(source), Tokens(input))
      BY <2>1, <2>2, <2>4, FirstLines
    <3>2. FirstDatum(input) = FirstDatum(source)
      BY <2>1, <2>2, <2>4, <3>1, FirstDatumStays
    <3> QED
      BY <2>1, <2>4, <3>2
  <2>5. CASE LinesFit /\ ~HasRead
    <3>1. source = input
      BY <2>1, <2>5, SubSeqFull
    <3> QED
      BY <2>1, <2>5, <3>1
  <2> QED
    BY <2>3, <2>4, <2>5
<1> QED
  BY <1>1, DatumInvariant, PTL

\* No line is read once the datum is complete (read-datum of src/native.via).
THEOREM ReadsNoMore == Spec => []ReadsNoFurther
<1>1. ASSUME DatumInv PROVE ReadsNoFurther
  BY <1>1 DEF DatumInv, LinesRead, ReadsNoFurther
<1> QED
  BY <1>1, DatumInvariant, PTL

-----------------------------------------------------------------------------
(* Reading comes to an end. *)

\* The parser goes forwards.
LEMMA BlanksForward ==
    ASSUME NEW text \in Seq(STRING), NEW i \in 1 .. Len(text) + 1
    PROVE  AfterBlanks(text, i) >= i
<1> DEFINE T == {j \in i .. Len(text) : ~Blank(text, i, j)} \cup {Len(text) + 1}
<1>1. Len(text) \in Nat /\ i \in Nat
  OBVIOUS
<1>2. T \subseteq Nat /\ T # {} /\ \A j \in T : j >= i
  BY <1>1
<1>3. AfterBlanks(text, i) = First(T)
  BY DEF AfterBlanks
<1> HIDE DEF T
<1> QED
  BY <1>2, <1>3, FirstIsSmallest

LEMMA ValuesForward ==
    ASSUME NEW text \in Seq(STRING), NEW i \in 1 .. Len(text) + 1,
           ValueEnd(text, i) # 0
    PROVE  ValueEnd(text, i) > i
<1> DEFINE quote == "\""
<1>0. Len(text) \in Nat /\ i \in Nat
  OBVIOUS
<1>1. CASE At(text, i) = quote
  <2> DEFINE T == {j \in i + 1 .. Len(text) : text[j] \in {quote, "\n"}}
                    \cup {Len(text) + 1}
             stop == StringStop(text, i)
  <2>1. stop = First(T) /\ ValueEnd(text, i) = stop + 1
    BY <1>1, Zenon DEF StringStop, ValueEnd
  <2>2. T \subseteq Nat /\ Len(text) + 1 \in T /\ \A j \in T : j >= i
    <3>1. \A j \in i + 1 .. Len(text) : j \in Nat /\ j >= i
      BY <1>0
    <3>2. Len(text) + 1 \in Nat /\ Len(text) + 1 >= i
      BY <1>0
    <3> HIDE DEF quote
    <3> QED
      BY <3>1, <3>2
  <2> HIDE DEF T, stop
  <2>3. stop \in Nat /\ stop >= i
    BY <2>1, <2>2, FirstIsSmallest
  <2> QED
    BY <1>0, <2>1, <2>3
<1>2. CASE At(text, i) # quote
  <2>1. ValueEnd(text, i) = TokenEnd(text, i) /\ i < TokenEnd(text, i)
    BY <1>2, Zenon DEF ValueEnd
  <2> QED
    BY <1>0, <2>1
<1> QED
  BY <1>1, <1>2

\* With the same text, a later position, or the same in fewer lists.
LEMMA LeftInMode ==
    /\ mode = "done" => Left = 0
    /\ mode = "line" => Left = 1
    /\ mode = "parsed" => Left = 2
    /\ mode = "cparen" => Left = 3 * (Len(source) + 1 - ctx.cursor) + depth + 3
    /\ mode = "expr" => Left = 3 * (Len(source) + 1 - ctx.cursor) + depth + 4
BY DEF Left

LEMMA LeftInModeNext ==
    /\ mode' = "done" => Left' = 0
    /\ mode' = "line" => Left' = 1
    /\ mode' = "parsed" => Left' = 2
    /\ mode' = "cparen" => Left' = 3 * (Len(source') + 1 - ctx'.cursor) + depth' + 3
    /\ mode' = "expr" => Left' = 3 * (Len(source') + 1 - ctx'.cursor) + depth' + 4
BY DEF Left

\* What is left is a number.
LEMMA LeftIsNat ==
    ASSUME Inv
    PROVE  Left \in Nat
<1>1. /\ Len(source) \in Nat /\ depth \in Nat /\ mode \in Modes
      /\ ctx.cursor \in 1 .. Len(source) + 1
  BY DEF Inv, Types, IsCtx
<1> QED
  BY <1>1, LeftInMode DEF Modes

\* A step of the parser that goes forwards, or leaves a list.
LEMMA LeftLess ==
    ASSUME Inv, Inv', Parsing, mode \in {"expr", "cparen"},
           \/ mode' = "parsed"
           \/ /\ mode' = "expr"
              /\ ctx'.cursor > ctx.cursor /\ depth' <= depth + 1
           \/ /\ mode = "expr" /\ mode' = "cparen"
              /\ ctx'.cursor >= ctx.cursor /\ depth' = depth
           \/ /\ mode = "cparen" /\ mode' = "cparen"
              /\ ctx'.cursor = ctx.cursor /\ depth' < depth
    PROVE  ReadOrParsed
<1>1. /\ Len(source) \in Nat /\ depth \in Nat /\ depth' \in Nat
      /\ ctx.cursor \in 1 .. Len(source) + 1
      /\ ctx'.cursor \in 1 .. Len(source) + 1
      /\ input' = input /\ at' = at /\ Len(source') = Len(source)
  BY DEF Inv, Types, IsCtx, Parsing
<1> DEFINE c == ctx.cursor
           d == ctx'.cursor
<1>2. c \in Nat /\ d \in Nat /\ c <= Len(source) + 1 /\ d <= Len(source) + 1
  BY <1>1
<1> HIDE DEF c, d
<1>3. Left >= 3 * (Len(source) + 1 - c) + depth + 3 /\ Left \in Nat
  BY <1>1, <1>2, LeftInMode, LeftIsNat DEF c
<1>4. Left' < Left
  <2>1. CASE mode' = "parsed"
    BY <1>1, <1>2, <1>3, <2>1, LeftInModeNext
  <2>2. CASE mode' = "expr" /\ d > c /\ depth' <= depth + 1
    <3>1. Left' = 3 * (Len(source) + 1 - d) + depth' + 4
      BY <1>1, <2>2, LeftInModeNext DEF d
    <3> QED
      BY <1>1, <1>2, <1>3, <2>2, <3>1
  <2>3. CASE mode = "expr" /\ mode' = "cparen" /\ d >= c /\ depth' = depth
    <3>1. Left' = 3 * (Len(source) + 1 - d) + depth' + 3
      BY <1>1, <2>3, LeftInModeNext DEF d
    <3>2. Left = 3 * (Len(source) + 1 - c) + depth + 4
      BY <2>3, LeftInMode DEF c
    <3> QED
      BY <1>1, <1>2, <2>3, <3>1, <3>2
  <2>4. CASE mode = "cparen" /\ mode' = "cparen" /\ d = c /\ depth' < depth
    <3>1. Left' = 3 * (Len(source) + 1 - d) + depth' + 3
      BY <1>1, <2>4, LeftInModeNext DEF d
    <3>2. Left = 3 * (Len(source) + 1 - c) + depth + 3
      BY <2>4, LeftInMode DEF c
    <3> QED
      BY <1>1, <1>2, <2>4, <3>1, <3>2
  <2> QED
    BY <2>1, <2>2, <2>3, <2>4 DEF c, d
<1> QED
  BY <1>1, <1>4 DEF ReadOrParsed

LEMMA NextAdvances ==
    ASSUME Inv, Inv', Next
    PROVE  ReadOrParsed
<1>1. /\ source \in Seq(STRING) /\ Len(source) \in Nat /\ depth \in Nat
      /\ at \in Nat /\ Len(input) \in Nat /\ IsCtx
      /\ ctx.cursor \in 1 .. Len(source) + 1
      /\ Here \in 1 .. Len(source) + 1 /\ Here >= ctx.cursor
  BY HereInside, BlanksForward DEF Inv, Types, IsCtx, Here
<1>2. CASE ReadLine
  <2>1. /\ input' = input /\ at' = LineEnd /\ at < Len(input)
    BY <1>2 DEF ReadLine, ReadLineAfter
  <2>2. LineEnd \in at + 1 .. Len(input)
    BY <2>1, LinesEnd DEF Inv, Types
  <2> QED
    BY <1>1, <2>1, <2>2 DEF ReadOrParsed
<1>3. CASE ReadNothing
  <2>1. mode = "line" /\ mode' = "done" /\ input' = input /\ at' = at
    BY <1>3 DEF ReadNothing
  <2> QED
    BY <2>1, LeftInMode, LeftInModeNext DEF ReadOrParsed
<1>4. CASE ParseValue
  <2>1. /\ mode = "expr" /\ mode' = After(depth) /\ depth' = depth
        /\ ValueEnd(source, Here) # 0 /\ Parsing
        /\ ctx' = ProgramAdd(ctx, ValueEnd(source, Here),
                             <<"atom", SubSeq(source, Here, ValueEnd(source, Here) - 1)>>)
    BY <1>4 DEF ParseValue, Parsing
  <2>2. ctx'.cursor = ValueEnd(source, Here)
    BY <1>1, <2>1 DEF IsCtx, ProgramAdd
  <2>3. ValueEnd(source, Here) > Here /\ ValueEnd(source, Here) \in Nat
    BY <1>1, <2>1, ValuesForward, ValuesEnd
  <2>4. ctx'.cursor > ctx.cursor /\ depth' <= depth + 1
    BY <1>1, <2>1, <2>2, <2>3
  <2> QED
    BY <2>1, <2>4, LeftLess DEF After
<1>5. CASE ParseOparen
  <2>1. /\ mode = "expr" /\ mode' = mode /\ depth' = depth + 1 /\ Parsing
        /\ ctx' = Oparen(ctx, Here)
    BY <1>5 DEF ParseOparen, Parsing
  <2>2. ctx'.cursor = Here + 1
    BY <1>1, <2>1 DEF IsCtx, Oparen
  <2>3. ctx'.cursor > ctx.cursor /\ depth' <= depth + 1
    BY <1>1, <2>1, <2>2
  <2> QED
    BY <2>1, <2>3, LeftLess
<1>6. CASE ParseNothing
  <2>1. /\ mode = "expr" /\ mode' = "cparen" /\ depth' = depth /\ Parsing
        /\ ctx' = Unmatched([ctx EXCEPT !.cursor = Here], FALSE)
    BY <1>6 DEF ParseNothing, Parsing
  <2>2. ctx'.cursor = Here
    BY <1>1, <2>1 DEF IsCtx, Unmatched
  <2>3. ctx'.cursor >= ctx.cursor
    BY <1>1, <2>2
  <2> QED
    BY <2>1, <2>3, LeftLess
<1>7. CASE ParseCparen
  <2>1. /\ mode = "cparen" /\ mode' = After(depth - 1) /\ depth' = depth - 1
        /\ Parsing /\ ctx' = Cparen(ctx)
    BY <1>7 DEF ParseCparen, Parsing
  <2>2. ctx'.cursor = ctx.cursor + 1
    BY <1>1, <2>1 DEF IsCtx, Cparen, ProgramAdd
  <2>3. ctx'.cursor > ctx.cursor /\ depth' <= depth + 1
    BY <1>1, <2>1, <2>2
  <2> QED
    BY <2>1, <2>3, LeftLess DEF After
<1>8. CASE NotClosed
  <2>1. /\ mode = "cparen" /\ mode' = mode /\ depth' = depth - 1 /\ depth > 0
        /\ Parsing /\ ctx' = Unmatched(ctx, TRUE)
    BY <1>8 DEF NotClosed, Parsing
  <2>2. ctx'.cursor = ctx.cursor
    BY <1>1, <2>1 DEF IsCtx, Unmatched
  <2>3. depth' < depth
    BY <1>1, <2>1
  <2> QED
    BY <2>1, <2>2, <2>3, LeftLess
<1>9. CASE NoMatch
  BY <1>9, LeftLess DEF NoMatch, Parsing
<1>10. CASE Answer \/ Rethrow \/ ReadOn
  <2>1. /\ mode = "parsed" /\ mode' \in {"line", "done"}
        /\ input' = input /\ at' = at
    BY <1>10 DEF Answer, Rethrow, ReadOn
  <2> QED
    BY <2>1, LeftInMode, LeftInModeNext DEF ReadOrParsed
<1> QED
  BY <1>2, <1>3, <1>4, <1>5, <1>6, <1>7, <1>8, <1>9, <1>10 DEF Next

\* Every step of read-datum and of the parser reads more or leaves less to do, for
\* any file: none of the loops and none of the recursion of src/parse.c can go on
\* for ever, and neither can read-datum's.
THEOREM ReadsAdvance == Spec => ReaderAdvances /\ [](Left \in Nat)
<1>1. ASSUME Inv, Inv', [Next]_vars PROVE [ReadOrParsed]_vars
  BY <1>1, NextAdvances
<1> QED
  BY <1>1, LeftIsNat, Invariant, PTL DEF Spec, ReaderAdvances

=============================================================================
