---------------------------- MODULE ViaPortProofs ----------------------------
(***************************************************************************)
(* Theorems about ViaPort, for any size of files and any numbers of         *)
(* streams and handles.                                                     *)
(***************************************************************************)
EXTENDS ViaPort, TLAPS

Streams ==
    [reads : BOOLEAN, writes : BOOLEAN, pos : 0 .. Size + 1, eof : BOOLEAN,
     err : BOOLEAN, open : BOOLEAN]

\* Every variable has its type.
Types ==
    /\ streams \in Seq(Streams)
    /\ Len(streams) >= 2
    /\ handles \in Seq(1 .. Len(streams))
    /\ live \subseteq 1 .. Len(handles)
    /\ held \subseteq live
    /\ released \subseteq 1 .. Len(streams)
    /\ undefined \in BOOLEAN

\* The standard streams are never closed.
StdOpen == \A s \in Std : streams[s].open

\* A file has one handle.
OneHandle ==
    \A h, k \in 1 .. Len(handles) :
        handles[h] = handles[k] /\ handles[h] \notin Std => h = k

\* HeldIsOpen, for every handle that has not been deleted.
LiveIsOpen ==
    ~undefined => \A h \in live :
        streams[handles[h]].open \/ handles[h] \in released

Inv ==
    /\ Types
    /\ StdOpen
    /\ OneHandle
    /\ LiveIsOpen
    /\ DefinedUnlessClosed
    /\ NothingLeaks
    /\ EofAtEnd

\* What any call with a handle does: nothing but move its stream, or use one that
\* has been closed.
Using ==
    \E h \in held :
        \/ /\ \E r \in Streams : \E es :
                /\ Call(handles[h], r, es)
                /\ r.open
                /\ r.eof => r.pos >= Size
           /\ streams[handles[h]].open
           /\ undefined' = FALSE
        \/ /\ ~streams[handles[h]].open
           /\ undefined' = TRUE
           /\ UNCHANGED streams

-----------------------------------------------------------------------------

\* Reading n more characters keeps a stream a stream, and meets the end only there.
LEMMA GotStream ==
    ASSUME NEW st \in Streams, st.open, st.eof => st.pos >= Size,
           NEW n \in Nat
    PROVE  /\ Got(st, n) \in Streams
           /\ Got(st, n).open
           /\ Got(st, n).eof => Got(st, n).pos >= Size
<1>1. Size \in Nat
  BY PortAssumption
<1>2. CASE ~st.reads
  BY <1>1, <1>2 DEF Got, Streams
<1>3. CASE st.reads
  <2> DEFINE pos == IF st.pos > Size THEN st.pos ELSE Smaller(st.pos + n, Size)
             eof == st.eof \/ st.pos + n > Size
  <2>1. Got(st, n) = [st EXCEPT !.pos = pos, !.eof = eof]
    BY <1>3 DEF Got
  <2>2. st.pos \in 0 .. Size + 1 /\ eof \in BOOLEAN
    BY DEF Streams
  <2>3. pos \in 0 .. Size + 1 /\ (eof => pos >= Size)
    BY <1>1, <2>2 DEF Smaller
  <2> HIDE DEF pos, eof
  <2>. QED
    BY <2>1, <2>2, <2>3 DEF Streams
<1>. QED
  BY <1>2, <1>3 DEF Streams

\* The handle a call is made with has a stream.
LEMMA HeldStream ==
    ASSUME Types, EofAtEnd, NEW h \in held
    PROVE  /\ handles[h] \in 1 .. Len(streams)
           /\ streams[handles[h]] \in Streams
           /\ streams[handles[h]].eof => streams[handles[h]].pos >= Size
<1>1. handles[h] \in 1 .. Len(streams)
  BY DEF Types
<1>. QED
  BY <1>1 DEF Types, EofAtEnd

LEMMA ReadUses ==
    ASSUME Inv, FileRead
    PROVE  Using
<1>1. PICK h \in held :
        IF streams[handles[h]].open
        THEN /\ \E n \in 0 .. Size :
                  LET st == streams[handles[h]]
                      got == Got(st, n + 1)
                  IN  IF st.eof THEN Call(handles[h], st, <<>>)
                      ELSE Call(handles[h], got,
                                IF st.reads /\ got.pos - st.pos = n THEN <<>>
                                ELSE IF got.eof THEN <<"exc-end-of-file">>
                                ELSE <<"exc-io-error">>)
             /\ undefined' = FALSE
        ELSE undefined' = TRUE /\ UNCHANGED <<streams, thrown>>
  BY DEF FileRead, OnStream
<1>2. /\ streams[handles[h]] \in Streams
      /\ streams[handles[h]].eof => streams[handles[h]].pos >= Size
  BY HeldStream DEF Inv
<1>3. CASE streams[handles[h]].open
  <2>1. PICK r, es :
            /\ r \in Streams
            /\ Call(handles[h], r, es)
            /\ r.open
            /\ r.eof => r.pos >= Size
    <3>1. Size \in Nat
      BY PortAssumption
    <3>2. PICK n, es :
             /\ n \in 0 .. Size
             /\ \/ Call(handles[h], streams[handles[h]], es)
                \/ Call(handles[h], Got(streams[handles[h]], n + 1), es)
      BY <1>1, <1>3
    <3>3. CASE Call(handles[h], streams[handles[h]], es)
      BY <1>2, <1>3, <3>3
    <3>4. CASE Call(handles[h], Got(streams[handles[h]], n + 1), es)
      <4>1. n + 1 \in Nat
        BY <3>1, <3>2
      <4>. QED
        BY <1>2, <1>3, <3>4, <4>1, GotStream
    <3>. QED
      BY <3>2, <3>3, <3>4
  <2>. QED
    BY <1>1, <1>3, <2>1 DEF Using
<1>4. CASE ~streams[handles[h]].open
  BY <1>1, <1>4 DEF Using
<1>. QED
  BY <1>3, <1>4

LEMMA ReadLineUses ==
    ASSUME Inv, FileReadLine
    PROVE  Using
<1>1. PICK h, es :
        /\ h \in held
        /\ \/ /\ streams[handles[h]].open
              /\ Call(handles[h], Got(streams[handles[h]], 1), es)
              /\ undefined' = FALSE
           \/ /\ ~streams[handles[h]].open
              /\ undefined' = TRUE
              /\ UNCHANGED streams
  BY DEF FileReadLine, OnStream
<1>2. /\ streams[handles[h]] \in Streams
      /\ streams[handles[h]].eof => streams[handles[h]].pos >= Size
  BY <1>1, HeldStream DEF Inv
<1>3. CASE streams[handles[h]].open
  <2>1. LET r == Got(streams[handles[h]], 1)
        IN  r \in Streams /\ r.open /\ (r.eof => r.pos >= Size)
    BY <1>2, <1>3, GotStream
  <2>. QED
    BY <1>1, <1>3, <2>1 DEF Using
<1>4. CASE ~streams[handles[h]].open
  BY <1>1, <1>4 DEF Using
<1>. QED
  BY <1>3, <1>4

LEMMA WriteUses ==
    ASSUME Inv, FileWrite
    PROVE  Using
<1>1. PICK h, es :
        /\ h \in held
        /\ \/ /\ streams[handles[h]].open
              /\ Call(handles[h],
                      [streams[handles[h]] EXCEPT
                         !.err = @ \/ ~streams[handles[h]].writes], es)
              /\ undefined' = FALSE
           \/ /\ ~streams[handles[h]].open
              /\ undefined' = TRUE
              /\ UNCHANGED streams
  BY DEF FileWrite, OnStream
<1>2. /\ streams[handles[h]] \in Streams
      /\ streams[handles[h]].eof => streams[handles[h]].pos >= Size
  BY <1>1, HeldStream DEF Inv
<1>3. CASE streams[handles[h]].open
  <2> DEFINE st == streams[handles[h]]
             r == [st EXCEPT !.err = @ \/ ~st.writes]
  <2>1. r \in Streams /\ r.open /\ (r.eof => r.pos >= Size)
    BY <1>2, <1>3 DEF Streams
  <2>. QED
    BY <1>1, <1>3, <2>1 DEF Using
<1>4. CASE ~streams[handles[h]].open
  BY <1>1, <1>4 DEF Using
<1>. QED
  BY <1>3, <1>4

LEMMA SeekUses ==
    ASSUME Inv, FileSeek
    PROVE  Using
<1>1. PICK h \in held :
        IF streams[handles[h]].open
        THEN /\ \E pos \in -1 .. Size + 1 :
                  IF handles[h] \in Std
                  THEN Call(handles[h], streams[handles[h]],
                            <<"exc-no-capability", "exc-io-error">>)
                  ELSE IF pos < 0
                  THEN Call(handles[h], streams[handles[h]],
                            <<"exc-out-of-bounds">>)
                  ELSE Call(handles[h],
                            [streams[handles[h]] EXCEPT !.pos = pos,
                                                        !.eof = FALSE], <<>>)
             /\ undefined' = FALSE
        ELSE undefined' = TRUE /\ UNCHANGED <<streams, thrown>>
  BY DEF FileSeek, OnStream
<1>2. /\ streams[handles[h]] \in Streams
      /\ streams[handles[h]].eof => streams[handles[h]].pos >= Size
  BY HeldStream DEF Inv
<1>3. CASE streams[handles[h]].open
  <2>1. PICK pos, es :
            /\ pos \in -1 .. Size + 1
            /\ \/ Call(handles[h], streams[handles[h]], es)
               \/ /\ ~(pos < 0)
                  /\ Call(handles[h],
                          [streams[handles[h]] EXCEPT !.pos = pos, !.eof = FALSE],
                          es)
    BY <1>1, <1>3
  <2>2. CASE Call(handles[h], streams[handles[h]], es)
    BY <1>1, <1>2, <1>3, <2>2 DEF Using
  <2>3. CASE ~Call(handles[h], streams[handles[h]], es)
    <3> DEFINE r == [streams[handles[h]] EXCEPT !.pos = pos, !.eof = FALSE]
    <3>1. pos \in 0 .. Size + 1
      BY <2>1, <2>3, PortAssumption
    <3>2. r \in Streams /\ r.open /\ ~r.eof
      BY <1>2, <1>3, <3>1 DEF Streams
    <3>3. Call(handles[h], r, es) /\ undefined' = FALSE
      BY <1>1, <1>3, <2>1, <2>3
    <3> HIDE DEF r
    <3>. QED
      BY <1>3, <3>2, <3>3 DEF Using
  <2>. QED
    BY <2>2, <2>3
<1>4. CASE ~streams[handles[h]].open
  BY <1>1, <1>4 DEF Using
<1>. QED
  BY <1>3, <1>4

LEMMA AskUses ==
    ASSUME Inv, FileTell \/ FileEofp
    PROVE  Using
<1>1. PICK h, es :
        /\ h \in held
        /\ \/ /\ streams[handles[h]].open
              /\ Call(handles[h], streams[handles[h]], es)
              /\ undefined' = FALSE
           \/ /\ ~streams[handles[h]].open
              /\ undefined' = TRUE
              /\ UNCHANGED streams
  BY DEF FileTell, FileEofp, OnStream
<1>2. /\ streams[handles[h]] \in Streams
      /\ streams[handles[h]].eof => streams[handles[h]].pos >= Size
  BY <1>1, HeldStream DEF Inv
<1>. QED
  BY <1>1, <1>2 DEF Using

LEMMA CallUses ==
    ASSUME Inv,
           FileRead \/ FileReadLine \/ FileWrite \/ FileSeek \/ FileTell
             \/ FileEofp
    PROVE  /\ ~undefined
           /\ Using
           /\ UNCHANGED <<handles, live, held, released>>
<1>1. Using
  BY ReadUses, ReadLineUses, WriteUses, SeekUses, AskUses
<1>2. ~undefined /\ UNCHANGED <<handles, live, held, released>>
  BY DEF FileRead, FileReadLine, FileWrite, FileSeek, FileTell, FileEofp,
         OnStream, Running
<1>. QED
  BY <1>1, <1>2

-----------------------------------------------------------------------------

\* What is used is the program's own fault, or still open.
LEMMA UsingKeeps ==
    ASSUME Inv, ~undefined, Using, UNCHANGED <<handles, live, held, released>>
    PROVE  Inv'
<1>1. PICK h \in held :
        \/ /\ \E r \in Streams : \E es :
                /\ Call(handles[h], r, es)
                /\ r.open
                /\ r.eof => r.pos >= Size
           /\ streams[handles[h]].open
           /\ undefined' = FALSE
        \/ /\ ~streams[handles[h]].open
           /\ undefined' = TRUE
           /\ UNCHANGED streams
  BY DEF Using
<1>2. handles[h] \in 1 .. Len(streams) /\ h \in live
  BY HeldStream DEF Inv, Types
<1>3. CASE ~streams[handles[h]].open
  <2>1. undefined' = TRUE /\ UNCHANGED streams
    BY <1>1, <1>3
  <2>2. handles[h] \in released' \ Std \/ undefined
    BY <1>2, <1>3 DEF Inv, LiveIsOpen, StdOpen
  <2>. QED
    BY <2>1, <2>2 DEF Inv, Types, StdOpen, OneHandle, LiveIsOpen,
                      DefinedUnlessClosed, NothingLeaks, EofAtEnd
<1>4. CASE streams[handles[h]].open
  <2>1. PICK r \in Streams :
            /\ streams' = [streams EXCEPT ![handles[h]] = r]
            /\ r.open
            /\ r.eof => r.pos >= Size
    BY <1>1, <1>4 DEF Call
  <2>2. undefined' = FALSE
    BY <1>1, <1>4
  <2>3. streams' \in Seq(Streams) /\ Len(streams') = Len(streams)
    BY <2>1 DEF Inv, Types
  <2>4. \A s \in 1 .. Len(streams) :
            /\ streams'[s].open <=> streams[s].open
            /\ streams'[s].eof => streams'[s].pos >= Size
    <3> TAKE s \in 1 .. Len(streams)
    <3>1. CASE s = handles[h]
      <4>1. s \in DOMAIN streams
        BY DEF Inv, Types
      <4>2. streams'[s] = r
        BY <2>1, <3>1, <4>1
      <4>. QED
        BY <1>4, <2>1, <3>1, <4>2
    <3>2. CASE s # handles[h]
      <4>1. streams'[s] = streams[s] /\ s \in DOMAIN streams
        BY <2>1, <3>2 DEF Inv, Types
      <4>. QED
        BY <4>1 DEF Inv, EofAtEnd
    <3>. QED
      BY <3>1, <3>2
  <2>5. Types'
    BY <2>2, <2>3 DEF Inv, Types
  <2>6. OneHandle' /\ DefinedUnlessClosed' /\ EofAtEnd'
    BY <2>2, <2>3, <2>4 DEF Inv, OneHandle, DefinedUnlessClosed, EofAtEnd
  <2>7. StdOpen'
    BY <2>4 DEF Inv, Types, StdOpen, Std
  <2>8. LiveIsOpen' /\ NothingLeaks'
    <3>1. \A k \in live : handles[k] \in 1 .. Len(streams)
      BY DEF Inv, Types
    <3>2. ~undefined => LiveIsOpen'
      BY <2>4, <3>1 DEF Inv, LiveIsOpen
    <3>3. ~undefined => NothingLeaks'
      <4>1. DOMAIN streams' = 1 .. Len(streams)
            /\ DOMAIN streams = 1 .. Len(streams)
        BY <2>3 DEF Inv, Types
      <4>. QED
        BY <2>4, <4>1 DEF Inv, NothingLeaks
    <3>. QED
      BY <3>2, <3>3
  <2>. QED
    BY <2>5, <2>6, <2>7, <2>8 DEF Inv
<1>. QED
  BY <1>3, <1>4

\* Closing some handles leaves the other streams, and the standard ones, alone.
LEMMA CloseKeeps ==
    ASSUME Types, NEW hs \in SUBSET live, Close(hs)
    PROVE  /\ streams' \in Seq(Streams)
           /\ Len(streams') = Len(streams)
           /\ DOMAIN streams = 1 .. Len(streams)
           /\ DOMAIN streams' = 1 .. Len(streams)
           /\ \A s \in 1 .. Len(streams) :
                 /\ streams'[s].eof = streams[s].eof
                 /\ streams'[s].pos = streams[s].pos
                 /\ streams'[s].open <=> streams[s].open /\ s \notin Closing(hs)
           /\ undefined' \in BOOLEAN
           /\ \A h \in live : handles[h] \in 1 .. Len(streams)
<1>1. DOMAIN streams = 1 .. Len(streams) /\ Len(streams) \in Nat
  BY DEF Types
<1>2. \A s \in 1 .. Len(streams) : streams[s] \in Streams
  BY DEF Types
<1>3. streams' = [s \in 1 .. Len(streams) |->
                    IF s \in Closing(hs)
                    THEN [streams[s] EXCEPT !.open = FALSE] ELSE streams[s]]
  BY <1>1 DEF Close
<1>4. \A s \in 1 .. Len(streams) :
          /\ streams'[s] \in Streams
          /\ streams'[s].eof = streams[s].eof
          /\ streams'[s].pos = streams[s].pos
          /\ streams'[s].open <=> streams[s].open /\ s \notin Closing(hs)
  <2> TAKE s \in 1 .. Len(streams)
  <2>1. streams[s] \in Streams
    BY <1>2
  <2>2. CASE s \in Closing(hs)
    <3>1. streams'[s] = [streams[s] EXCEPT !.open = FALSE]
      BY <1>3, <2>2
    <3>. QED
      BY <2>1, <2>2, <3>1 DEF Streams
  <2>3. CASE s \notin Closing(hs)
    BY <1>3, <2>1, <2>3 DEF Streams
  <2>. QED
    BY <2>2, <2>3
<1>5. /\ streams' \in Seq(Streams)
      /\ Len(streams') = Len(streams)
      /\ DOMAIN streams' = 1 .. Len(streams)
  BY <1>1, <1>3, <1>4
<1>6. undefined' \in BOOLEAN
  BY DEF Close
<1>7. \A h \in live : handles[h] \in 1 .. Len(streams)
  BY DEF Types
<1>. QED
  BY <1>1, <1>4, <1>5, <1>6, <1>7

LEMMA InitInv == Init => Inv
<1>1. SUFFICES ASSUME Init PROVE Inv
  OBVIOUS
<1>2. /\ Stream(TRUE, FALSE) \in Streams /\ Stream(TRUE, FALSE).open
      /\ Stream(FALSE, TRUE) \in Streams /\ Stream(FALSE, TRUE).open
      /\ ~Stream(TRUE, FALSE).eof /\ ~Stream(FALSE, TRUE).eof
  BY PortAssumption DEF Stream, Streams
<1> DEFINE in == Stream(TRUE, FALSE)
           out == Stream(FALSE, TRUE)
<1>a. /\ streams = <<in, out>> /\ in \in Streams /\ out \in Streams
      /\ in.open /\ out.open /\ ~in.eof /\ ~out.eof
  BY <1>1, <1>2 DEF Init
<1> HIDE DEF in, out
<1>b. /\ streams \in Seq(Streams) /\ Len(streams) = 2
      /\ DOMAIN streams = 1 .. 2 /\ streams[1] = in /\ streams[2] = out
  BY <1>a
<1>3. Types
  <2>1. handles = <<>> /\ live = {} /\ held = {} /\ released = {} /\ ~undefined
        /\ undefined \in BOOLEAN
    BY <1>1 DEF Init
  <2>2. <<>> \in Seq(1 .. 2) /\ Len(<<>>) = 0
    OBVIOUS
  <2>. QED
    BY <1>b, <2>1, <2>2 DEF Types
<1>4. StdOpen /\ EofAtEnd
  BY <1>a, <1>b DEF StdOpen, Std, EofAtEnd
<1>5. OneHandle /\ LiveIsOpen
  BY <1>1 DEF Init, OneHandle, LiveIsOpen
<1>6. DefinedUnlessClosed /\ NothingLeaks
  BY <1>1 DEF Init, DefinedUnlessClosed, NothingLeaks, Std
<1>. QED
  BY <1>3, <1>4, <1>5, <1>6 DEF Inv

\* What making a handle of stream s does, whether that stream is new or not.
LEMMA NewHandleKeeps ==
    ASSUME Types, NEW s, NewHandle(s)
    PROVE  /\ Len(handles') = Len(handles) + 1
           /\ handles'[Len(handles) + 1] = s
           /\ \A h \in 1 .. Len(handles) : handles'[h] = handles[h]
           /\ \A S : s \in S /\ handles \in Seq(S) => handles' \in Seq(S)
           /\ live' = live \cup {Len(handles) + 1}
           /\ held' = held \cup {Len(handles) + 1}
           /\ Len(handles) \in Nat
  BY DEF Types, NewHandle

LEMMA OneMore ==
    ASSUME NEW n \in Nat, NEW A, NEW B, A \subseteq 1 .. n, B \subseteq A
    PROVE  /\ A \cup {n + 1} \subseteq 1 .. n + 1
           /\ B \cup {n + 1} \subseteq A \cup {n + 1}
  OBVIOUS

LEMMA FileStdKeeps ==
    ASSUME Inv, FileStd
    PROVE  Inv'
<1>1. PICK s \in Std : NewHandle(s)
  BY DEF FileStd
<1>2. ~undefined /\ UNCHANGED <<streams, released, undefined>>
  BY DEF FileStd, Running
<1>3. s \in 1 .. Len(streams) /\ Len(streams) \in Nat /\ streams[s].open
  BY DEF Inv, Types, Std, StdOpen
<1>4. Types'
  <2>1. handles' \in Seq(1 .. Len(streams))
    BY <1>1, <1>3, NewHandleKeeps DEF Inv, Types
  <2>2. live' \subseteq 1 .. Len(handles') /\ held' \subseteq live'
    <3>1. /\ live \subseteq 1 .. Len(handles) /\ held \subseteq live
      BY DEF Inv, Types
    <3>2. /\ Len(handles) \in Nat /\ Len(handles') = Len(handles) + 1
          /\ live' = live \cup {Len(handles) + 1}
          /\ held' = held \cup {Len(handles) + 1}
      BY <1>1, NewHandleKeeps DEF Inv
    <3>. QED
      BY <3>1, <3>2, OneMore
  <2>. QED
    BY <1>2, <2>1, <2>2 DEF Inv, Types
<1>5. StdOpen' /\ DefinedUnlessClosed' /\ EofAtEnd'
  BY <1>2 DEF Inv, StdOpen, DefinedUnlessClosed, EofAtEnd
<1>6. OneHandle'
  BY <1>1, NewHandleKeeps DEF Inv, OneHandle
<1>7. LiveIsOpen' /\ NothingLeaks'
  <2>1. \A h \in live : h \in 1 .. Len(handles)
    BY DEF Inv, Types
  <2>. QED
    BY <1>1, <1>2, <1>3, <2>1, NewHandleKeeps
       DEF Inv, LiveIsOpen, NothingLeaks
<1>. QED
  BY <1>4, <1>5, <1>6, <1>7 DEF Inv

LEMMA FileOpenKeeps ==
    ASSUME Inv, FileOpen
    PROVE  Inv'
<1> DEFINE n == Len(streams) + 1
<1>1. NewHandle(n) /\ ~undefined /\ UNCHANGED <<released, undefined>>
  BY DEF FileOpen, Running
<1>2. PICK reads \in BOOLEAN : streams' = Append(streams, Stream(reads, ~reads))
  BY DEF FileOpen
<1>3. /\ Stream(reads, ~reads) \in Streams
      /\ Stream(reads, ~reads).open
      /\ ~Stream(reads, ~reads).eof
  BY PortAssumption DEF Stream, Streams
<1>4. /\ streams' \in Seq(Streams)
      /\ Len(streams') = n
      /\ Len(streams) \in Nat /\ Len(streams) >= 2
      /\ DOMAIN streams = 1 .. Len(streams)
      /\ DOMAIN streams' = 1 .. n
      /\ \A s \in 1 .. Len(streams) : streams'[s] = streams[s]
      /\ streams'[n].open /\ ~streams'[n].eof
  BY <1>2, <1>3 DEF Inv, Types
<1>5. \A h \in 1 .. Len(handles) : handles[h] \in 1 .. Len(streams)
  BY DEF Inv, Types
<1>6. \A h \in live : h \in 1 .. Len(handles)
  BY DEF Inv, Types
<1> HIDE DEF n
<1>7. n \in 1 .. n /\ n = Len(streams) + 1
  BY <1>4 DEF n
<1>8. Types'
  <2>1. handles' \in Seq(1 .. n)
    <3>1. handles \in Seq(1 .. n)
      BY <1>4, <1>7 DEF Inv, Types
    <3>. QED
      BY <1>1, <1>7, <3>1, NewHandleKeeps DEF Inv
  <2>2. live' \subseteq 1 .. Len(handles') /\ held' \subseteq live'
    <3>1. /\ live \subseteq 1 .. Len(handles) /\ held \subseteq live
      BY DEF Inv, Types
    <3>2. /\ Len(handles) \in Nat /\ Len(handles') = Len(handles) + 1
          /\ live' = live \cup {Len(handles) + 1}
          /\ held' = held \cup {Len(handles) + 1}
      BY <1>1, NewHandleKeeps DEF Inv
    <3>. QED
      BY <3>1, <3>2, OneMore
  <2>3. released' \subseteq 1 .. Len(streams')
    BY <1>1, <1>4, <1>7 DEF Inv, Types
  <2>. QED
    BY <1>1, <1>4, <1>7, <2>1, <2>2, <2>3 DEF Inv, Types
<1>9. StdOpen'
  BY <1>4 DEF Inv, StdOpen, Std
<1>10. EofAtEnd' /\ DefinedUnlessClosed'
  BY <1>1, <1>4, <1>7 DEF Inv, EofAtEnd, DefinedUnlessClosed
<1>11. OneHandle'
  BY <1>1, <1>5, <1>7, NewHandleKeeps DEF Inv, OneHandle
<1>12. LiveIsOpen'
  BY <1>1, <1>4, <1>5, <1>6, NewHandleKeeps DEF Inv, LiveIsOpen
<1>13. NothingLeaks'
  BY <1>1, <1>4, <1>6, <1>7, NewHandleKeeps DEF Inv, NothingLeaks
<1>. QED
  BY <1>8, <1>9, <1>10, <1>11, <1>12, <1>13 DEF Inv

-----------------------------------------------------------------------------

\* What handles hs close is theirs, and nobody else's.
LEMMA FileCloseKeeps ==
    ASSUME Inv, FileClose
    PROVE  Inv'
<1>1. PICK h \in held : Close({h}) /\ released' = released \cup {handles[h]}
  BY DEF FileClose
<1>2. ~undefined /\ UNCHANGED <<handles, live, held>>
  BY DEF FileClose, Running
<1>3. {h} \in SUBSET live /\ handles[h] \in 1 .. Len(streams)
      /\ Closing({h}) = {handles[h]} \ Std
  BY DEF Inv, Types, Closing
<1>4. /\ streams' \in Seq(Streams)
      /\ Len(streams') = Len(streams)
      /\ DOMAIN streams = 1 .. Len(streams)
      /\ DOMAIN streams' = 1 .. Len(streams)
      /\ \A s \in 1 .. Len(streams) :
            /\ streams'[s].eof = streams[s].eof
            /\ streams'[s].pos = streams[s].pos
            /\ streams'[s].open <=> streams[s].open /\ s \notin Closing({h})
      /\ undefined' \in BOOLEAN
      /\ \A k \in live : handles[k] \in 1 .. Len(streams)
  BY <1>1, <1>3, CloseKeeps DEF Inv
<1>5. Types'
  BY <1>1, <1>2, <1>3, <1>4 DEF Inv, Types
<1>6. StdOpen' /\ EofAtEnd' /\ OneHandle'
  <2>1. Std \subseteq 1 .. Len(streams)
    BY DEF Inv, Types, Std
  <2>. QED
    BY <1>2, <1>3, <1>4, <2>1 DEF Inv, StdOpen, EofAtEnd, OneHandle
<1>7. DefinedUnlessClosed'
  BY <1>1, <1>3 DEF Close, DefinedUnlessClosed
<1>8. LiveIsOpen' /\ NothingLeaks'
  BY <1>1, <1>2, <1>3, <1>4 DEF Inv, LiveIsOpen, NothingLeaks
<1>. QED
  BY <1>5, <1>6, <1>7, <1>8 DEF Inv

\* Deleting handles, as a collection and the end of the machine do: none of those
\* that stay had a stream in common with them, but for the standard ones.
LEMMA DeletingKeeps ==
    ASSUME Inv, ~undefined, NEW hs \in SUBSET live, Close(hs),
           live' = live \ hs, held' \subseteq live',
           UNCHANGED <<handles, released>>
    PROVE  Inv'
<1>1. /\ streams' \in Seq(Streams)
      /\ Len(streams') = Len(streams)
      /\ DOMAIN streams = 1 .. Len(streams)
      /\ DOMAIN streams' = 1 .. Len(streams)
      /\ \A s \in 1 .. Len(streams) :
            /\ streams'[s].eof = streams[s].eof
            /\ streams'[s].pos = streams[s].pos
            /\ streams'[s].open <=> streams[s].open /\ s \notin Closing(hs)
      /\ undefined' \in BOOLEAN
      /\ \A h \in live : handles[h] \in 1 .. Len(streams)
  BY CloseKeeps DEF Inv
<1>2. Types'
  BY <1>1 DEF Inv, Types
<1>3. StdOpen' /\ EofAtEnd' /\ OneHandle'
  <2>1. Std \subseteq 1 .. Len(streams)
    BY DEF Inv, Types, Std
  <2>. QED
    BY <1>1, <2>1 DEF Inv, StdOpen, EofAtEnd, OneHandle, Closing
<1>4. DefinedUnlessClosed'
  <2>1. SUFFICES ASSUME undefined' PROVE released' \ Std # {}
    BY DEF DefinedUnlessClosed
  <2>2. PICK h \in hs : handles[h] \notin Std /\ ~streams[handles[h]].open
    BY <2>1 DEF Close, Closing
  <2>. QED
    BY <2>2 DEF Inv, LiveIsOpen
<1>5. \A h \in live' : handles[h] \notin Closing(hs)
  BY DEF Inv, Types, OneHandle, Closing
<1>6. LiveIsOpen'
  BY <1>1, <1>5 DEF Inv, LiveIsOpen
<1>7. NothingLeaks'
  BY <1>1 DEF Inv, NothingLeaks, Closing
<1>. QED
  BY <1>2, <1>3, <1>4, <1>6, <1>7 DEF Inv

LEMMA NextInv == Inv /\ [Next]_vars => Inv'
<1>1. SUFFICES ASSUME Inv, [Next]_vars PROVE Inv'
  OBVIOUS
<1>2. CASE FileStd
  BY <1>1, <1>2, FileStdKeeps
<1>3. CASE FileOpen
  BY <1>1, <1>3, FileOpenKeeps
<1>4. CASE FileRead \/ FileReadLine \/ FileWrite \/ FileSeek \/ FileTell
             \/ FileEofp
  BY <1>1, <1>4, CallUses, UsingKeeps
<1>5. CASE FileClose
  BY <1>1, <1>5, FileCloseKeeps
<1>6. CASE Collect
  <2>1. live' = live \ (live \ held) /\ held' = held
    BY <1>1, <1>6 DEF Collect, Inv, Types
  <2>. QED
    BY <1>1, <1>6, <2>1, DeletingKeeps DEF Collect, Running, Inv, Types
<1>7. CASE FreeVm
  BY <1>1, <1>7, DeletingKeeps DEF FreeVm, Running
<1>8. CASE FileOpenFails \/ Drop \/ UNCHANGED vars
  <2>1. UNCHANGED <<streams, handles, live, released, undefined>>
    BY <1>8 DEF FileOpenFails, Drop, vars
  <2>2. held' \subseteq held
    BY <1>8 DEF FileOpenFails, Drop, vars
  <2>3. Types'
    BY <1>1, <2>1, <2>2 DEF Inv, Types
  <2>4. StdOpen' /\ OneHandle' /\ LiveIsOpen'
    BY <1>1, <2>1 DEF Inv, StdOpen, OneHandle, LiveIsOpen
  <2>5. DefinedUnlessClosed' /\ NothingLeaks' /\ EofAtEnd'
    BY <1>1, <2>1 DEF Inv, DefinedUnlessClosed, NothingLeaks, EofAtEnd
  <2>. QED
    BY <2>3, <2>4, <2>5 DEF Inv
<1>. QED
  BY <1>1, <1>2, <1>3, <1>4, <1>5, <1>6, <1>7, <1>8 DEF Next

LEMMA Invariance == Spec => []Inv
  BY InitInv, NextInv, PTL DEF Spec

-----------------------------------------------------------------------------

\* Every variable has its type, and the program holds no handle that the
\* collector (via_sweep) has deleted.
THEOREM TypeCorrect == Spec => []TypeOK
<1>1. Inv => TypeOK
  <2>1. SUFFICES ASSUME Inv PROVE TypeOK
    OBVIOUS
  <2>2. /\ DOMAIN streams = 1 .. Len(streams)
        /\ DOMAIN handles = 1 .. Len(handles)
        /\ \A s \in 1 .. Len(streams) : streams[s] \in Streams
        /\ \A h \in 1 .. Len(handles) : handles[h] \in 1 .. Len(streams)
    BY <2>1 DEF Inv, Types
  <2>. QED
    BY <2>1, <2>2 DEF Inv, Types, TypeOK, Streams
<1>. QED
  BY <1>1, Invariance, PTL

\* Unless the program closes a file itself (via_p_file_close), no stream is used
\* or closed after it has been closed: by the program, by the collector, or by
\* via_free_vm.
THEOREM ClosedOnce == Spec => []DefinedUnlessClosed
<1>1. Inv => DefinedUnlessClosed
  BY DEF Inv
<1>. QED
  BY <1>1, Invariance, PTL

\* The collector closes no stream (via_delete_value) of a handle that the program
\* still has.
THEOREM HandlesWork == Spec => []HeldIsOpen
<1>1. Inv => HeldIsOpen
  BY DEF Inv, Types, LiveIsOpen, HeldIsOpen
<1>. QED
  BY <1>1, Invariance, PTL

\* Every stream that is open has a handle left that closes it when it is deleted.
THEOREM StreamsAreClosed == Spec => []NothingLeaks
<1>1. Inv => NothingLeaks
  BY DEF Inv
<1>. QED
  BY <1>1, Invariance, PTL

\* feof is set only at the end, whatever has been read and wherever a program has
\* gone back to (via_p_file_seek).
THEOREM EndMeansEnd == Spec => []EofAtEnd
<1>1. Inv => EofAtEnd
  BY DEF Inv
<1>. QED
  BY <1>1, Invariance, PTL

=============================================================================
