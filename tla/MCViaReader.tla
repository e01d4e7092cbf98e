----------------------------- MODULE MCViaReader -----------------------------
(* Files for ViaReader.                                                      *)
EXTENDS ViaGrammar, SequencesExt

\* Every file of a few characters.
Characters == {"(", ")", "a", "1", "\"", ";", "\n"}

Short == UNION {[1 .. n -> Characters] : n \in 0 .. 4}

\* Beginnings and ends put together: lists over several lines, lists in lists,
\* comments, strings, booleans, what is left open, what is closed too often.
Parts ==
    {<<>>, <<"(", "a", "\n">>, <<"(", "(", " ", "1", ")", "\n">>,
     <<"\"", ")", "\"", "\n">>, <<";", "(", "\n">>, <<"#", "t", ")", "\n">>,
     <<"(", ")", ")", "\n">>, <<"\n", "a", "1", ";", ")">>, <<"a", "\"">>,
     <<"#", "a", ")">>, <<" ", ")">>, <<")", "1">>}

MCInputs == Short \cup {a \o b \o c : a \in Parts, b \in Parts, c \in Parts}

\* The tokens a datum is written with.
RECURSIVE Written(_)
Written(v) ==
    IF v[1] = "atom" THEN <<v[2]>>
    ELSE <<<<"(">>>> \o FlattenSeq([i \in DOMAIN v[2] |-> Written(v[2][i])])
            \o <<<<")">>>>

\* Datum reads what Written writes: each datum of up to seven tokens.
ASSUME DatumIsWritten ==
    \A n \in 1 .. 7 : \A tokens \in [1 .. n -> {<<"(">>, <<")">>, <<"a">>}] :
        Balance(tokens) = 0 /\ First(Ends(tokens)) = n
            => Written(Datum(tokens)) = tokens
=============================================================================
