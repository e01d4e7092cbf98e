--------------------------- MODULE MCViaAssembler ---------------------------
(* Instance of ViaAssembler for model checking.                              *)
EXTENDS ViaAssembler

MCNames == {"eval", "user", "@loop"}

Label(n, a) == [name |-> n, addr |-> a]

\* A source whose instructions have these operands.
Lines(operands, table, syntax) ==
    [size |-> Len(operands), labels |-> table, syntax |-> syntax,
     public |-> SelectSeq(table, LAMBDA l : l.name # "@loop"),
     refs |-> [a \in 0 .. Len(operands) - 1 |-> operands[a + 1]]]

\* A routine with a loop, and code that calls it; both labels again, in a source
\* that uses them; a label defined twice; sources that fail for an unknown label
\* (another's private one, or one that is not there yet), for an unknown
\* mnemonic, and for a line that is wrong.
MCSources ==
    {Lines(<<NoRef, "@loop">>, <<Label("eval", 0), Label("@loop", 1)>>, "ok"),
     Lines(<<"eval">>, <<>>, "ok"),
     Lines(<<"eval", "user">>, <<Label("user", 0), Label("eval", 1)>>, "ok"),
     Lines(<<NoRef, "user">>, <<Label("user", 1), Label("user", 0)>>, "ok"),
     Lines(<<"@loop">>, <<Label("user", 0)>>, "ok"),
     Lines(<<"user">>, <<>>, "ok"),
     Lines(<<NoRef>>, <<Label("eval", 0)>>, "second"),
     Lines(<<NoRef>>, <<Label("user", 0)>>, "first")}

ASSUME SourcesAssumption == LabelsPrecede
=============================================================================
