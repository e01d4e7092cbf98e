------------------------------- MODULE ViaPort -------------------------------
(***************************************************************************)
(* Files (src/port.c): handles are values that the collector deletes, and   *)
(* closes their streams with (via_delete_value of src/vm.c); streams are    *)
(* the C library's.  The program calls any procedure with any handle it     *)
(* still has; a stream that is used after it has been closed is the end of  *)
(* what can be said.                                                        *)
(*                                                                          *)
(* Stream 1 is stdin and stream 2 stdout, both pipes; every file has Size   *)
(* characters, one line each.                                               *)
(***************************************************************************)
EXTENDS Integers, Sequences, FiniteSets

CONSTANTS
    Size,           \* how many characters a file has
    MaxStreams,     \* bound: how many streams there are
    MaxHandles      \* bound: how many handles are made

ASSUME PortAssumption ==
    /\ Size \in Nat \ {0}
    /\ MaxStreams \in Nat /\ MaxStreams >= 2
    /\ MaxHandles \in Nat

VARIABLES
    streams,        \* the streams, in the order they were opened
    handles,        \* the stream of each handle, in the order they were made
    live,           \* the handles that have not been deleted
    held,           \* those the program can still name
    thrown,         \* the exceptions the last call has thrown
    released,       \* the streams the program has closed itself
    undefined,      \* a closed stream has been used
    freed           \* via_free_vm has been called

vars == <<streams, handles, live, held, thrown, released, undefined, freed>>

Std == {1, 2}

\* A stream: whether it may be read and written, where it is, feof and ferror.
Stream(reads, writes) ==
    [reads |-> reads, writes |-> writes, pos |-> 0, eof |-> FALSE,
     err |-> FALSE, open |-> TRUE]

Init ==
    /\ streams = <<Stream(TRUE, FALSE), Stream(FALSE, TRUE)>>
    /\ handles = <<>>
    /\ live = {}
    /\ held = {}
    /\ thrown = <<>>
    /\ released = {}
    /\ undefined = FALSE
    /\ freed = FALSE

Running == ~undefined /\ ~freed

-----------------------------------------------------------------------------
(* Making handles. *)

\* via_make_handle.
NewHandle(s) ==
    /\ Len(handles) < MaxHandles
    /\ handles' = Append(handles, s)
    /\ live' = live \cup {Len(handles) + 1}
    /\ held' = held \cup {Len(handles) + 1}
    /\ thrown' = <<>>

\* via_p_file_stdin, via_p_file_stdout.  The object is looked up in, and then bound
\* in, the environment of the call: every call makes a handle.
FileStd ==
    /\ Running
    /\ \E s \in Std : NewHandle(s)
    /\ UNCHANGED <<streams, released, undefined, freed>>

\* via_p_file_open, for input or for output.
FileOpen ==
    /\ Running
    /\ Len(streams) < MaxStreams
    /\ NewHandle(Len(streams) + 1)
    /\ \E reads \in BOOLEAN : streams' = Append(streams, Stream(reads, ~reads))
    /\ UNCHANGED <<released, undefined, freed>>

FileOpenFails ==
    /\ Running
    /\ thrown' = <<"exc-io-error">>
    /\ UNCHANGED <<streams, handles, live, held, released, undefined, freed>>

-----------------------------------------------------------------------------
(* Calls with a handle.  A call leaves the stream as r and throws the         *)
(* exceptions es.                                                             *)

Call(s, r, es) ==
    /\ streams' = [streams EXCEPT ![s] = r]
    /\ thrown' = es

\* The calls a program makes with a handle it has: of its stream, if that is open.
OnStream(Does(_)) ==
    /\ Running
    /\ \E h \in held :
          IF streams[handles[h]].open THEN Does(handles[h]) /\ undefined' = FALSE
          ELSE undefined' = TRUE /\ UNCHANGED <<streams, thrown>>
    /\ UNCHANGED <<handles, live, held, released, freed>>

Smaller(a, b) == IF a < b THEN a ELSE b

\* What fread or fgets leave after n characters have been asked for.
Got(st, n) ==
    IF ~st.reads THEN [st EXCEPT !.err = TRUE]
    ELSE [st EXCEPT !.pos = IF @ > Size THEN @ ELSE Smaller(@ + n, Size),
                    !.eof = @ \/ st.pos + n > Size]

\* via_p_file_read, which asks for one character more than it requires, and at
\* the end of the file answers whatever was answered before.
FileRead ==
    OnStream(LAMBDA s : \E n \in 0 .. Size :
        LET st == streams[s]
            got == Got(st, n + 1)
        IN  IF st.eof THEN Call(s, st, <<>>)
            ELSE Call(s, got, IF st.reads /\ got.pos - st.pos = n THEN <<>>
                              ELSE IF got.eof THEN <<"exc-end-of-file">>
                              ELSE <<"exc-io-error">>))

\* via_p_file_readline.
FileReadLine ==
    OnStream(LAMBDA s :
        LET got == Got(streams[s], 1)
        IN  Call(s, got, IF got.pos > streams[s].pos THEN <<>>
                         ELSE IF got.eof THEN <<"exc-end-of-file">>
                         ELSE <<"exc-io-error">>))

\* via_p_file_write asks ferror, which once set stays so.
FileWrite ==
    OnStream(LAMBDA s :
        LET st == [streams[s] EXCEPT !.err = @ \/ ~streams[s].writes]
        IN  Call(s, st, IF st.err THEN <<"exc-io-error">> ELSE <<>>))

\* Mutant: feof is not cleared.
FileSeekKeepingEof ==
    OnStream(LAMBDA s : \E pos \in -1 .. Size + 1 :
        LET st == streams[s]
        IN  IF s \in Std
            THEN Call(s, st, <<"exc-no-capability", "exc-io-error">>)
            ELSE IF pos < 0 THEN Call(s, st, <<"exc-out-of-bounds">>)
            ELSE Call(s, [st EXCEPT !.pos = pos], <<>>))

\* via_p_file_seek.  A pipe cannot seek, and that is thrown twice over.
FileSeek ==
    OnStream(LAMBDA s : \E pos \in -1 .. Size + 1 :
        LET st == streams[s]
        IN  IF s \in Std
            THEN Call(s, st, <<"exc-no-capability", "exc-io-error">>)
            ELSE IF pos < 0 THEN Call(s, st, <<"exc-out-of-bounds">>)
            ELSE Call(s, [st EXCEPT !.pos = pos, !.eof = FALSE], <<>>))

\* via_p_file_tell, via_p_file_eofp.
FileTell ==
    OnStream(LAMBDA s :
        Call(s, streams[s], IF s \in Std THEN <<"exc-no-capability">> ELSE <<>>))

FileEofp == OnStream(LAMBDA s : Call(s, streams[s], <<>>))

-----------------------------------------------------------------------------
(* Closing. *)

\* The streams that closing the handles hs closes: via_file_close.  Mutant: the
\* standard streams are closed like any other.
ClosingAll(hs) == {handles[h] : h \in hs}

Closing(hs) == {handles[h] : h \in hs} \ Std

\* Each of hs is closed.  Whatever else the second fclose of a stream does, it is
\* undefined.
Close(hs) ==
    /\ streams' = [s \in DOMAIN streams |->
                     IF s \in Closing(hs) THEN [streams[s] EXCEPT !.open = FALSE]
                     ELSE streams[s]]
    /\ undefined' = \E s \in Closing(hs) : ~streams[s].open

\* via_p_file_close: the handle stays a handle of that stream.
FileClose ==
    /\ Running
    /\ \E h \in held : Close({h}) /\ released' = released \cup {handles[h]}
    /\ thrown' = <<>>
    /\ UNCHANGED <<handles, live, held, freed>>

Drop ==
    /\ Running
    /\ \E h \in held : held' = held \ {h}
    /\ UNCHANGED <<streams, handles, live, thrown, released, undefined, freed>>

\* Mutant: deleting a handle frees the value, and that is all.
CollectLeaving ==
    /\ Running
    /\ live' = held
    /\ UNCHANGED <<streams, handles, held, thrown, released, undefined, freed>>

\* Mutant: the collector does not see what the program holds.
CollectHeld ==
    /\ Running
    /\ Close(live)
    /\ live' = {}
    /\ UNCHANGED <<handles, held, thrown, released, freed>>

\* via_sweep: every handle the program has let go of is deleted.
Collect ==
    /\ Running
    /\ Close(live \ held)
    /\ live' = held
    /\ UNCHANGED <<handles, held, thrown, released, freed>>

\* via_free_vm: every value is deleted.
FreeVm ==
    /\ Running
    /\ freed' = TRUE
    /\ Close(live)
    /\ live' = {}
    /\ held' = {}
    /\ UNCHANGED <<handles, thrown, released>>

Next ==
    \/ FileStd \/ FileOpen \/ FileOpenFails \/ FileRead \/ FileReadLine
    \/ FileWrite \/ FileSeek \/ FileTell \/ FileEofp \/ FileClose
    \/ Drop \/ Collect \/ FreeVm

Spec == Init /\ [][Next]_vars

-----------------------------------------------------------------------------
(* Properties. *)

\* Every variable has its type, and the program holds no deleted handle.
TypeOK ==
    /\ \A s \in DOMAIN streams : streams[s].pos \in 0 .. Size + 1
    /\ \A h \in DOMAIN handles : handles[h] \in DOMAIN streams
    /\ live \subseteq DOMAIN handles
    /\ held \subseteq live
    /\ released \subseteq DOMAIN streams

\* A program that closes no file itself never has a stream used after it was
\* closed, nor closed twice: neither by its calls, nor by the collector, nor when
\* the machine is freed, for all the handles it has had of the standard streams.
DefinedUnlessClosed == undefined => released \ Std # {}

\* A handle the program has can be used, as long as the program has not closed
\* that stream itself.
HeldIsOpen ==
    ~undefined => \A h \in held :
        streams[handles[h]].open \/ handles[h] \in released

\* No stream stays open that no handle is left for, after a collection as when
\* the machine is freed.
NothingLeaks ==
    ~undefined => \A s \in DOMAIN streams \ Std :
        streams[s].open => \E h \in live : handles[h] = s

\* At the end of the file there is nothing left: read-datum gives up there.
EofAtEnd == \A s \in DOMAIN streams : streams[s].eof => streams[s].pos >= Size

=============================================================================
