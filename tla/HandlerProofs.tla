---------------------------- MODULE HandlerProofs ----------------------------
(***************************************************************************)
(* What CallFrames promises of exception handlers, for every number of      *)
(* frames, and of RETURN.  The theorems rest on a ranking: every frame      *)
(* stands above its parent and above its handler.  A frame that is made by  *)
(* SNAP or kept in a value goes on top; a handler that is installed is put  *)
(* right below the frame that installs it, and everything from there on     *)
(* moves up by one.                                                         *)
(***************************************************************************)
EXTENDS CallFramesProofs, WellFoundedInduction

\* rank ranks the frames: NULL is lowest, and no rank is above their number.
Ranked(rank) ==
    /\ rank \in [FrameRefs -> Nat]
    /\ rank[0] = 0
    /\ \A f \in Frames :
          /\ rank[parn[f]] < rank[f]
          /\ rank[exh[f]] < rank[f]
          /\ rank[f] <= made

\* No frame has a parent that has not been made.
ParnMade == \A f \in Frames : parn[f] <= made

RankLayer ==
    /\ Shape
    /\ ParnMade
    /\ \E rank : Ranked(rank)

\* A set of frames that RETURN and a throw do not lead out of, and no handler of
\* which has been entered.
Untouched(A) ==
    /\ regs \in A
    /\ A \subseteq Made
    /\ \A f \in A :
          /\ parn[f] \in A \cup {0}
          /\ exh[f] \in A \cup {0}
          /\ exh[f] \notin entered

OnceLayer ==
    /\ RankLayer
    /\ ~resumed => \E A : Untouched(A)

-----------------------------------------------------------------------------
(* Ranks. *)

\* What the proofs use of a well-formed state.
LEMMA RankFacts ==
    ASSUME RankLayer
    PROVE  /\ parn \in [Frames -> FrameRefs] /\ exh \in [Frames -> FrameRefs]
           /\ made \in Nat \ {0} /\ regs \in Frames /\ regs <= made /\ fresh = made + 1
           /\ made < MaxFrames => fresh \in Frames
           /\ \A f \in Frames : /\ f \in FrameRefs /\ f \in Nat \ {0}
                                /\ parn[f] # made + 1 /\ exh[f] # made + 1
           /\ FrameRefs = Frames \cup {0}
<1>1. Shape /\ ParnMade
  BY DEF RankLayer
<1>2. made \in Nat \ {0}
  BY <1>1, FrameSets DEF Shape, TypeOK
<1>3. \A f \in Frames : parn[f] \in Nat /\ exh[f] \in Nat /\ exh[f] <= made
  BY <1>1, Numbers
<1>4. \A f \in Frames : parn[f] # made + 1 /\ exh[f] # made + 1
  BY <1>1, <1>2, <1>3 DEF ParnMade
<1> QED
  BY <1>1, <1>2, <1>4, ShapeFacts, Numbers, FrameSets

\* One more frame on top.
LEMMA AddOnTop ==
    ASSUME RankLayer, NEW rank, Ranked(rank), made < MaxFrames,
           NEW p \in Frames, NEW h \in FrameRefs,
           made' = fresh,
           p # fresh, h # fresh,
           parn' = [parn EXCEPT ![fresh] = p],
           exh' = [exh EXCEPT ![fresh] = h]
    PROVE  \E new : Ranked(new)'
<1>0. PICK new : new = [rank EXCEPT ![fresh] = fresh]
  OBVIOUS
<1>1. /\ made \in Nat \ {0} /\ fresh = made + 1 /\ fresh \in Frames
      /\ parn \in [Frames -> FrameRefs] /\ exh \in [Frames -> FrameRefs]
      /\ FrameRefs = Frames \cup {0} /\ 0 \notin Frames
  BY RankFacts
<1>2. /\ rank \in [FrameRefs -> Nat] /\ rank[0] = 0
      /\ \A f \in Frames : /\ rank[parn[f]] < rank[f] /\ rank[exh[f]] < rank[f]
                           /\ rank[f] <= made
  BY DEF Ranked
<1>3. new \in [FrameRefs -> Nat] /\ new[0] = 0 /\ new[fresh] = made + 1
  BY <1>0, <1>1, <1>2
<1>4. \A g \in FrameRefs : g # fresh => new[g] = rank[g] /\ rank[g] <= made
  BY <1>0, <1>1, <1>2
<1>5. ASSUME NEW f \in Frames
      PROVE  new[parn'[f]] < new[f] /\ new[exh'[f]] < new[f] /\ new[f] <= made'
  <2>1. CASE f = fresh
    <3>1. parn'[f] = p /\ exh'[f] = h /\ p \in FrameRefs
      BY <1>1, <2>1
    <3>2. new[p] <= made /\ new[h] <= made
      BY <1>4, <3>1
    <3>3. new[p] \in Nat /\ new[h] \in Nat
      BY <1>3, <3>1
    <3> QED
      BY <1>1, <1>3, <2>1, <3>1, <3>2, <3>3
  <2>2. CASE f # fresh
    <3>1. /\ parn'[f] = parn[f] /\ exh'[f] = exh[f]
          /\ parn[f] # fresh /\ exh[f] # fresh
          /\ parn[f] \in FrameRefs /\ exh[f] \in FrameRefs /\ f \in FrameRefs
      BY <1>1, <2>2, RankFacts
    <3>2. new[parn[f]] = rank[parn[f]] /\ new[exh[f]] = rank[exh[f]]
          /\ new[f] = rank[f] /\ rank[f] \in Nat
      BY <1>2, <1>4, <2>2, <3>1
    <3> QED
      BY <1>1, <1>2, <3>1, <3>2
  <2> QED
    BY <2>1, <2>2
<1>6. Ranked(new)'
  BY <1>3, <1>5 DEF Ranked
<1> QED
  BY <1>6

\* One more frame right below frame r, as its handler.
Below(rank, r, n) ==
    [g \in FrameRefs |->
        IF g = n THEN rank[r]
        ELSE IF rank[g] >= rank[r] THEN rank[g] + 1 ELSE rank[g]]

LEMMA PutBelow ==
    ASSUME RankLayer, NEW rank, Ranked(rank), made < MaxFrames,
           made' = fresh, parn' \in [Frames -> FrameRefs],
           parn'[fresh] = parn[regs], parn'[regs] \in {parn[regs], 0},
           \A f \in Frames \ {fresh, regs} : parn'[f] = parn[f],
           exh' = [exh EXCEPT ![fresh] = exh[regs], ![regs] = fresh]
    PROVE  \E new : Ranked(new)'
<1> DEFINE r == rank[regs]
<1>0. PICK new : new = Below(rank, regs, fresh)
  OBVIOUS
<1>1. /\ made \in Nat \ {0} /\ fresh = made + 1 /\ fresh \in Frames
      /\ regs \in Frames /\ regs # fresh /\ regs <= made
      /\ parn \in [Frames -> FrameRefs] /\ exh \in [Frames -> FrameRefs]
      /\ FrameRefs = Frames \cup {0} /\ 0 \notin Frames
  BY RankFacts
<1>2. /\ rank \in [FrameRefs -> Nat] /\ rank[0] = 0
      /\ \A f \in Frames : /\ rank[parn[f]] < rank[f] /\ rank[exh[f]] < rank[f]
                           /\ rank[f] <= made
  BY DEF Ranked
<1>3. r \in Nat \ {0} /\ r <= made
  <2>1. rank[parn[regs]] \in Nat /\ rank[regs] \in Nat
    BY <1>1, <1>2
  <2> QED
    BY <1>1, <1>2, <2>1
<1>4. /\ new[fresh] = r
      /\ \A g \in FrameRefs \ {fresh} :
            new[g] = IF rank[g] >= r THEN rank[g] + 1 ELSE rank[g]
      /\ new \in [FrameRefs -> Nat]
  BY <1>0, <1>1, <1>2, <1>3 DEF Below
<1>5. new[0] = 0 /\ new[regs] = r + 1
  BY <1>1, <1>2, <1>3, <1>4
<1>6. ASSUME NEW g \in FrameRefs, NEW f \in FrameRefs, g # fresh, f # fresh,
             rank[g] < rank[f]
      PROVE  new[g] < new[f]
  <2>1. rank[g] \in Nat /\ rank[f] \in Nat
    BY <1>2
  <2> QED
    BY <1>3, <1>4, <1>6, <2>1
<1>7. ASSUME NEW g \in FrameRefs, g # fresh, rank[g] < r
      PROVE  new[g] < new[fresh] /\ new[g] < new[regs]
  <2>1. rank[g] \in Nat
    BY <1>2
  <2> QED
    BY <1>3, <1>4, <1>5, <1>7, <2>1
<1>8. ASSUME NEW f \in Frames
      PROVE  new[parn'[f]] < new[f] /\ new[exh'[f]] < new[f] /\ new[f] <= made'
  <2>1. /\ parn[regs] \in FrameRefs /\ exh[regs] \in FrameRefs
        /\ parn[regs] # fresh /\ exh[regs] # fresh
        /\ rank[parn[regs]] < r /\ rank[exh[regs]] < r
    BY <1>1, <1>2, RankFacts
  <2>2. CASE f = fresh
    <3>1. parn'[f] = parn[regs] /\ exh'[f] = exh[regs]
      BY <1>1, <2>2
    <3>2. new[f] <= made'
      BY <1>1, <1>3, <1>4, <2>2
    <3> QED
      BY <1>7, <2>1, <2>2, <3>1, <3>2
  <2>3. CASE f = regs
    <3>1. parn'[f] \in {parn[regs], 0} /\ exh'[f] = fresh
      BY <1>1, <2>3
    <3>2. new[0] < new[regs] /\ new[fresh] < new[regs] /\ new[regs] <= made'
      BY <1>1, <1>3, <1>4, <1>5
    <3> QED
      BY <1>7, <2>1, <2>3, <3>1, <3>2
  <2>4. CASE f \notin {fresh, regs}
    <3>1. /\ parn'[f] = parn[f] /\ exh'[f] = exh[f]
          /\ parn[f] # fresh /\ exh[f] # fresh
          /\ parn[f] \in FrameRefs /\ exh[f] \in FrameRefs /\ f \in FrameRefs
      BY <1>1, <2>4, RankFacts
    <3>2. rank[f] \in Nat /\ rank[f] <= made
      BY <1>2, <3>1
    <3>3. new[f] <= made'
      BY <1>1, <1>3, <1>4, <2>4, <3>1, <3>2
    <3> QED
      BY <1>2, <1>6, <2>4, <3>1, <3>3
  <2> QED
    BY <2>2, <2>3, <2>4
<1>9. Ranked(new)'
  BY <1>4, <1>5, <1>8 DEF Ranked
<1> QED
  BY <1>9

LEMMA InitRank == Init => RankLayer
<1> SUFFICES ASSUME Init PROVE RankLayer
  OBVIOUS
<1> DEFINE rank == [f \in FrameRefs |-> IF f = 0 THEN 0 ELSE 1]
<1>1. Ranked(rank)
  BY FrameSets DEF Init, Ranked
<1>2. ParnMade
  BY DEF Init, ParnMade
<1> QED
  BY <1>1, <1>2, InitShape DEF RankLayer

\* The steps that change no register of a frame but its counter.
Elsewhere == UNCHANGED <<made, parn, exh>>

\* The steps that make a frame on top, and those that install a handler.
Adds == SnapArg \/ SnapSub \/ HoldContinuation

Installs == RunEval \/ Catch

LEMMA StepKinds ==
    ASSUME [Next]_vars
    PROVE  Elsewhere \/ Adds \/ Installs
BY DEF Next, vars, Elsewhere, Adds, Installs, ArgDone, Continue, Return,
       GoToParent, Finish, Throw, HoldException, Assume

\* What each of them does with the registers.
LEMMA Adding ==
    ASSUME Adds
    PROVE  /\ made < MaxFrames
           /\ made' = fresh
           /\ parn' = [parn EXCEPT ![fresh] = regs]
           /\ exh' = [exh EXCEPT ![fresh] = exh[regs]]
BY DEF Adds, SnapArg, SnapSub, Snap, HoldContinuation, MakeFrame

LEMMA Installing ==
    ASSUME RankLayer, Installs
    PROVE  /\ made < MaxFrames
           /\ made' = fresh
           /\ parn' \in [Frames -> FrameRefs]
           /\ parn'[fresh] = parn[regs]
           /\ parn'[regs] \in {parn[regs], 0}
           /\ \A f \in Frames \ {fresh, regs} : parn'[f] = parn[f]
           /\ exh' = [exh EXCEPT ![fresh] = exh[regs], ![regs] = fresh]
           /\ regs' = regs /\ entered' = entered /\ resumed' = resumed
<1>1. made < MaxFrames
  BY DEF Installs, RunEval, RunEvalUnder, Catch, CatchUnder
<1>2. /\ parn \in [Frames -> FrameRefs] /\ regs \in Frames /\ fresh \in Frames
      /\ regs # fresh /\ parn[regs] \in FrameRefs /\ 0 \in FrameRefs
  BY <1>1, RankFacts
<1> QED
  BY <1>1, <1>2 DEF Installs, RunEval, RunEvalUnder, Catch, CatchUnder

LEMMA NextRank == RankLayer /\ [Next]_vars => RankLayer'
<1> SUFFICES ASSUME RankLayer, [Next]_vars PROVE RankLayer'
  OBVIOUS
<1>1. Shape'
  BY NextShape DEF RankLayer
<1>2. PICK rank : Ranked(rank)
  BY DEF RankLayer
<1>3. /\ made \in Nat \ {0} /\ regs \in Frames /\ regs <= made /\ fresh = made + 1
      /\ made < MaxFrames => fresh \in Frames
      /\ parn \in [Frames -> FrameRefs] /\ exh \in [Frames -> FrameRefs]
      /\ exh[regs] \in FrameRefs /\ exh[regs] # fresh
      /\ \A f \in Frames : parn[f] \in Nat
  <2>1. \A f \in Frames : parn[f] \in Nat
    BY RankFacts, Numbers DEF RankLayer
  <2> QED
    BY RankFacts, <2>1
<1>4. \A f \in Frames : parn[f] <= made
  BY DEF RankLayer, ParnMade
<1>5. CASE Elsewhere
  BY <1>1, <1>2, <1>4, <1>5 DEF Elsewhere, RankLayer, Ranked, ParnMade
<1>6. CASE Adds
  <2>1. /\ made < MaxFrames /\ made' = fresh
        /\ parn' = [parn EXCEPT ![fresh] = regs]
        /\ exh' = [exh EXCEPT ![fresh] = exh[regs]]
    BY <1>6, Adding
  <2>2. \E new : Ranked(new)'
    <3>1. regs # fresh
      BY <1>3
    <3> QED
      BY <1>2, <1>3, <2>1, <3>1, AddOnTop
  <2>3. ParnMade'
    <3>1. \A f \in Frames : parn'[f] \in {parn[f], regs}
      BY <1>3, <2>1
    <3>2. regs \in Nat
      BY Numbers DEF RankLayer
    <3> QED
      BY <1>3, <1>4, <2>1, <3>1, <3>2 DEF ParnMade
  <2> QED
    BY <1>1, <2>2, <2>3 DEF RankLayer
<1>7. CASE Installs
  <2>1. \E new : Ranked(new)'
    BY <1>2, <1>7, Installing, PutBelow
  <2>2. /\ made' = fresh /\ parn'[fresh] = parn[regs]
        /\ parn'[regs] \in {parn[regs], 0}
        /\ \A f \in Frames \ {fresh, regs} : parn'[f] = parn[f]
    BY <1>7, Installing
  <2>3. ParnMade'
    BY <1>3, <1>4, <2>2 DEF ParnMade
  <2> QED
    BY <1>1, <2>1, <2>3 DEF RankLayer
<1> QED
  BY <1>5, <1>6, <1>7, StepKinds

-----------------------------------------------------------------------------
(* Handlers handle once. *)

LEMMA InitOnce == Init => OnceLayer
<1> SUFFICES ASSUME Init PROVE OnceLayer
  OBVIOUS
<1>1. Untouched({1})
  BY FrameSets DEF Init, Untouched, Made
<1> QED
  BY <1>1, InitRank DEF OnceLayer

\* A throw leaves the frames that rank above the handler behind, and they are all
\* the frames the handler could be a handler of.
LEMMA ThrowOnce ==
    ASSUME RankLayer, NEW A, Untouched(A), Throw
    PROVE  \E B : Untouched(B)'
<1>1. PICK rank : Ranked(rank)
  BY DEF RankLayer
<1> DEFINE h == exh[regs]
<1>0. PICK B : B = {f \in A : rank[f] <= rank[h]}
  OBVIOUS
<1>2. /\ regs' = h /\ h # 0 /\ entered' = entered \cup {h}
      /\ UNCHANGED <<made, parn, exh>>
  BY DEF Throw
<1>3. /\ rank \in [FrameRefs -> Nat]
      /\ \A f \in Frames : rank[parn[f]] < rank[f] /\ rank[exh[f]] < rank[f]
      /\ parn \in [Frames -> FrameRefs] /\ exh \in [Frames -> FrameRefs]
      /\ FrameRefs = Frames \cup {0} /\ Made \subseteq Frames
  BY <1>1, RankFacts, ShapeFacts DEF Ranked, RankLayer
<1>4. h \in A /\ A \subseteq Frames
  BY <1>2, <1>3 DEF Untouched
<1>5. h \in B /\ B \subseteq Made
  BY <1>0, <1>3, <1>4 DEF Untouched
<1>6. ASSUME NEW f \in B
      PROVE  parn[f] \in B \cup {0} /\ exh[f] \in B \cup {0}
             /\ exh[f] \notin entered \cup {h}
  <2>1. /\ parn[f] \in A \cup {0} /\ exh[f] \in A \cup {0}
        /\ exh[f] \notin entered /\ f \in Frames /\ rank[f] <= rank[h]
    BY <1>0, <1>4 DEF Untouched
  <2>2. /\ rank[f] \in Nat /\ rank[h] \in Nat
        /\ rank[parn[f]] \in Nat /\ rank[exh[f]] \in Nat
    BY <1>3, <1>4, <2>1
  <2>3. rank[parn[f]] < rank[h] /\ rank[exh[f]] < rank[h]
    BY <1>3, <2>1, <2>2
  <2> QED
    BY <1>0, <2>1, <2>2, <2>3
<1>7. Made' = Made
  BY <1>2 DEF Made
<1> HIDE DEF h
<1>8. Untouched(B)'
  BY <1>2, <1>5, <1>6, <1>7 DEF Untouched
<1> QED
  BY <1>8

LEMMA NextOnce == OnceLayer /\ [Next]_vars => OnceLayer'
<1> SUFFICES ASSUME OnceLayer, [Next]_vars PROVE OnceLayer'
  OBVIOUS
<1>1. RankLayer /\ RankLayer'
  BY NextRank DEF OnceLayer
<1>2. SUFFICES ASSUME ~resumed' PROVE \E B : Untouched(B)'
  BY <1>1 DEF OnceLayer
<1>3. ~resumed
  BY <1>2 DEF Next, vars, RunEval, RunEvalUnder, SnapArg, SnapSub, Snap, ArgDone,
              Continue, Return, GoToParent, Finish, Catch, CatchUnder, Throw,
              HoldException, HoldContinuation, Assume
<1>4. PICK A : Untouched(A)
  BY <1>3 DEF OnceLayer
<1>5. /\ parn \in [Frames -> FrameRefs] /\ exh \in [Frames -> FrameRefs]
      /\ made \in Nat \ {0} /\ regs \in Frames /\ fresh = made + 1
      /\ made < MaxFrames => fresh \in Frames
      /\ A \subseteq Frames /\ fresh \notin A /\ fresh # 0
      /\ fresh \notin entered /\ 0 \notin entered
  <2>1. A \subseteq Made /\ Made \subseteq Frames /\ fresh \notin Made
        /\ entered \subseteq Made /\ 0 \notin Frames
    BY <1>1, <1>4, ShapeFacts, FrameSets DEF RankLayer, Shape, TypeOK, Untouched
  <2> QED
    BY <1>1, <2>1, RankFacts
<1>6. ASSUME UNCHANGED <<made, parn, exh, entered>>, regs' \in A
      PROVE  Untouched(A)'
  BY <1>4, <1>6 DEF Untouched, Made
<1>7. CASE ArgDone \/ Finish \/ HoldException \/ UNCHANGED vars
  BY <1>4, <1>6, <1>7 DEF ArgDone, Continue, Finish, HoldException, vars, Untouched
<1>8. CASE Return
  <2>1. regs' \in A
    BY <1>4, <1>8 DEF Return, GoToParent, Untouched
  <2> QED
    BY <1>6, <1>8, <2>1 DEF Return, GoToParent
<1>9. CASE Throw
  BY <1>1, <1>4, <1>9, ThrowOnce
<1>10. CASE Adds
  <2>1. /\ made < MaxFrames /\ made' = fresh
        /\ parn' = [parn EXCEPT ![fresh] = regs]
        /\ exh' = [exh EXCEPT ![fresh] = exh[regs]]
    BY <1>10, Adding
  <2>2. entered' = entered /\ regs' \in {regs, fresh}
    BY <1>10 DEF Adds, SnapArg, SnapSub, Snap, HoldContinuation
  <2>3. Made' = Made \cup {fresh}
    BY <1>5, <2>1 DEF Made
  <2>4. \A f \in A : parn'[f] = parn[f] /\ exh'[f] = exh[f]
    BY <1>5, <2>1
  <2>5. parn'[fresh] = regs /\ exh'[fresh] = exh[regs]
    BY <1>5, <2>1
  <2>6. PICK B : B = A \cup {fresh}
    OBVIOUS
  <2>7. Untouched(B)'
    BY <1>4, <1>5, <2>2, <2>3, <2>4, <2>5, <2>6 DEF Untouched
  <2> QED
    BY <2>7
<1>11. CASE Installs
  <2>1. /\ made < MaxFrames /\ made' = fresh /\ parn'[fresh] = parn[regs]
        /\ parn'[regs] \in {parn[regs], 0}
        /\ \A f \in Frames \ {fresh, regs} : parn'[f] = parn[f]
        /\ exh' = [exh EXCEPT ![fresh] = exh[regs], ![regs] = fresh]
        /\ regs' = regs /\ entered' = entered
    BY <1>1, <1>11, Installing
  <2>2. Made' = Made \cup {fresh}
    BY <1>5, <2>1 DEF Made
  <2>3. regs \in A /\ regs # fresh
    BY <1>4, <1>5 DEF Untouched
  <2>4. exh'[fresh] = exh[regs] /\ exh'[regs] = fresh
    BY <1>5, <2>1, <2>3
  <2>5. \A f \in A \ {regs} : parn'[f] = parn[f] /\ exh'[f] = exh[f]
    BY <1>5, <2>1
  <2>6. PICK B : B = A \cup {fresh}
    OBVIOUS
  <2>7. Untouched(B)'
    BY <1>4, <1>5, <2>1, <2>2, <2>3, <2>4, <2>5, <2>6 DEF Untouched
  <2> QED
    BY <2>7
<1>12. CASE \E f \in held : Assume(f)
  BY <1>2, <1>12 DEF Assume
<1> QED
  BY <1>7, <1>8, <1>9, <1>10, <1>11, <1>12 DEF Next, Adds, Installs

\* While no held frame has been resumed, a handler that a throw has entered
\* (via_throw) is the handler of nothing that can still run: what is thrown in it,
\* or after it, goes further out.
THEOREM HandledOnce == Spec => []HandlesOnce
<1>1. OnceLayer => HandlesOnce
  BY DEF OnceLayer, Untouched, HandlesOnce
<1> QED
  BY InitOnce, NextOnce, <1>1, PTL DEF Spec

-----------------------------------------------------------------------------
(* Frames return to frames that wait. *)

\* A set of frames that RETURN and a throw do not lead out of, and whose parents
\* wait; the current frame is no parent of theirs.
Awaited(A) ==
    /\ regs \in A
    /\ A \subseteq Made
    /\ \A f \in A :
          /\ parn[f] \in A \cup {0}
          /\ exh[f] \in A \cup {0}
          /\ parn[f] # 0 => parn[f] # regs /\ pc[parn[f]] \in {"arg", "sub"}

WaitLayer ==
    /\ RankLayer
    /\ ~resumed => \E A : Awaited(A)

LEMMA InitWait == Init => WaitLayer
<1> SUFFICES ASSUME Init PROVE WaitLayer
  OBVIOUS
<1>1. Awaited({1})
  BY FrameSets DEF Init, Awaited, Made
<1> QED
  BY <1>1, InitRank DEF WaitLayer

\* Whether by RETURN or by a throw, control moves down in the ranking, and the
\* frames above the one it goes to are left behind.
LEMMA DownToWaiting ==
    ASSUME RankLayer, NEW A, Awaited(A), NEW g \in A,
           g \in {parn[regs], exh[regs]},
           regs' = g, UNCHANGED <<made, parn, exh>>,
           \A q \in Frames : q \notin {regs, g} => pc'[q] = pc[q]
    PROVE  \E B : Awaited(B)'
<1>1. PICK rank : Ranked(rank)
  BY DEF RankLayer
<1>0. PICK B : B = {f \in A : rank[f] <= rank[g]}
  OBVIOUS
<1>2. /\ rank \in [FrameRefs -> Nat]
      /\ \A f \in Frames : rank[parn[f]] < rank[f] /\ rank[exh[f]] < rank[f]
      /\ parn \in [Frames -> FrameRefs] /\ exh \in [Frames -> FrameRefs]
      /\ FrameRefs = Frames \cup {0} /\ Made \subseteq Frames
  BY <1>1, RankFacts, ShapeFacts DEF Ranked, RankLayer
<1>3. regs \in Frames /\ A \subseteq Frames /\ rank[g] < rank[regs]
  BY <1>2 DEF Awaited
<1>4. g \in B /\ B \subseteq Made
  BY <1>0, <1>2, <1>3 DEF Awaited
<1>5. ASSUME NEW f \in B
      PROVE  /\ parn[f] \in B \cup {0} /\ exh[f] \in B \cup {0}
             /\ parn[f] # 0 => parn[f] # g /\ pc'[parn[f]] \in {"arg", "sub"}
  <2>1. /\ parn[f] \in A \cup {0} /\ exh[f] \in A \cup {0}
        /\ parn[f] # 0 => pc[parn[f]] \in {"arg", "sub"}
        /\ f \in Frames /\ rank[f] <= rank[g]
    BY <1>0, <1>3 DEF Awaited
  <2>2. /\ rank[f] \in Nat /\ rank[g] \in Nat /\ rank[regs] \in Nat
        /\ rank[parn[f]] \in Nat /\ rank[exh[f]] \in Nat
    BY <1>2, <1>3, <2>1
  <2>3. rank[parn[f]] < rank[g] /\ rank[exh[f]] < rank[g]
    BY <1>2, <2>1, <2>2
  <2>4. parn[f] \notin {regs, g}
    BY <1>3, <2>2, <2>3
  <2> QED
    BY <1>0, <1>2, <2>1, <2>2, <2>3, <2>4
<1>6. Made' = Made
  BY DEF Made
<1>7. Awaited(B)'
  BY <1>4, <1>5, <1>6 DEF Awaited
<1> QED
  BY <1>7

LEMMA NextWait == WaitLayer /\ [Next]_vars => WaitLayer'
<1> SUFFICES ASSUME WaitLayer, [Next]_vars PROVE WaitLayer'
  OBVIOUS
<1>1. RankLayer /\ RankLayer'
  BY NextRank DEF WaitLayer
<1>2. SUFFICES ASSUME ~resumed' PROVE \E B : Awaited(B)'
  BY <1>1 DEF WaitLayer
<1>3. ~resumed
  BY <1>2 DEF Next, vars, RunEval, RunEvalUnder, SnapArg, SnapSub, Snap, ArgDone,
              Continue, Return, GoToParent, Finish, Catch, CatchUnder, Throw,
              HoldException, HoldContinuation, Assume
<1>4. PICK A : Awaited(A)
  BY <1>3 DEF WaitLayer
<1>5. /\ parn \in [Frames -> FrameRefs] /\ exh \in [Frames -> FrameRefs]
      /\ pc \in [Frames -> Counters]
      /\ made \in Nat \ {0} /\ regs \in Frames /\ fresh = made + 1
      /\ made < MaxFrames => fresh \in Frames
      /\ A \subseteq Frames /\ fresh \notin A /\ fresh # 0 /\ regs \in A
      /\ \A f \in A : parn[f] # 0 => parn[f] \in Frames /\ parn[f] # fresh
  <2>1. A \subseteq Made /\ Made \subseteq Frames /\ fresh \notin Made
        /\ 0 \notin Frames /\ pc \in [Frames -> Counters]
    BY <1>1, <1>4, ShapeFacts, FrameSets DEF RankLayer, Shape, TypeOK, Awaited
  <2>2. regs \in A /\ \A f \in A : parn[f] \in A \cup {0}
    BY <1>4 DEF Awaited
  <2> QED
    BY <1>1, <2>1, <2>2, RankFacts
<1>6. CASE \/ ArgDone \/ Finish \/ HoldException \/ UNCHANGED vars
  <2>1. UNCHANGED <<made, parn, exh, regs>>
    BY <1>6 DEF ArgDone, Continue, Finish, HoldException, vars
  <2>2. \A q \in Frames : q # regs => pc'[q] = pc[q]
    BY <1>5, <1>6 DEF ArgDone, Continue, Finish, HoldException, vars
  <2>3. Awaited(A)'
    BY <1>4, <1>5, <2>1, <2>2 DEF Awaited, Made
  <2> QED
    BY <2>3
<1>7. CASE Return
  <2>1. parn[regs] \in A /\ regs' = parn[regs] /\ UNCHANGED <<made, parn, exh>>
    BY <1>4, <1>7 DEF Return, GoToParent, Awaited
  <2>2. \A q \in Frames : q \notin {regs, parn[regs]} => pc'[q] = pc[q]
    BY <1>5, <1>7 DEF Return, GoToParent, Entering
  <2> QED
    BY <1>1, <1>4, <2>1, <2>2, DownToWaiting
<1>8. CASE Throw
  <2>1. exh[regs] \in A /\ regs' = exh[regs] /\ UNCHANGED <<made, parn, exh>>
    BY <1>4, <1>8 DEF Throw, Awaited
  <2>2. \A q \in Frames : q \notin {regs, exh[regs]} => pc'[q] = pc[q]
    BY <1>5, <1>8 DEF Throw, Entering
  <2> QED
    BY <1>1, <1>4, <2>1, <2>2, DownToWaiting
<1>9. CASE SnapArg \/ SnapSub
  <2>1. /\ made < MaxFrames /\ made' = fresh /\ regs' = fresh
        /\ parn' = [parn EXCEPT ![fresh] = regs]
        /\ exh' = [exh EXCEPT ![fresh] = exh[regs]]
        /\ \E w \in {"arg", "sub"} :
              pc' = [[pc EXCEPT ![regs] = w] EXCEPT ![fresh] = "live"]
    BY <1>9 DEF SnapArg, SnapSub, Snap, MakeFrame
  <2>2. Made' = Made \cup {fresh} /\ fresh # regs /\ fresh \in Frames
    BY <1>5, <2>1 DEF Made
  <2>3. /\ parn'[fresh] = regs /\ exh'[fresh] = exh[regs]
        /\ pc'[regs] \in {"arg", "sub"}
        /\ \A q \in Frames : q \notin {regs, fresh} => pc'[q] = pc[q]
    BY <1>5, <2>1, <2>2
  <2>4. \A f \in A : parn'[f] = parn[f] /\ exh'[f] = exh[f]
    BY <1>5, <2>1
  <2>5. PICK B : B = A \cup {fresh}
    OBVIOUS
  <2>6. ASSUME NEW f \in B
        PROVE  /\ parn'[f] \in B \cup {0} /\ exh'[f] \in B \cup {0}
               /\ parn'[f] # 0 => parn'[f] # fresh
                                  /\ pc'[parn'[f]] \in {"arg", "sub"}
    <3>1. CASE f = fresh
      BY <1>4, <1>5, <2>2, <2>3, <2>5, <3>1 DEF Awaited
    <3>2. CASE f # fresh
      BY <1>4, <1>5, <2>3, <2>4, <2>5, <3>2 DEF Awaited
    <3> QED
      BY <3>1, <3>2
  <2>7. Awaited(B)'
    BY <1>4, <1>5, <2>1, <2>2, <2>5, <2>6 DEF Awaited
  <2> QED
    BY <2>7
<1>10. CASE HoldContinuation
  <2>1. /\ made < MaxFrames /\ made' = fresh /\ regs' = regs
        /\ parn' = [parn EXCEPT ![fresh] = regs]
        /\ exh' = [exh EXCEPT ![fresh] = exh[regs]]
        /\ pc' = [pc EXCEPT ![fresh] = "live"]
    BY <1>10 DEF HoldContinuation, MakeFrame
  <2>2. Made \subseteq Made'
    BY <1>5, <2>1 DEF Made
  <2>3. \A f \in A : parn'[f] = parn[f] /\ exh'[f] = exh[f]
    BY <1>5, <2>1
  <2>4. \A q \in Frames : q # fresh => pc'[q] = pc[q]
    BY <1>5, <2>1
  <2>5. Awaited(A)'
    BY <1>4, <1>5, <2>1, <2>2, <2>3, <2>4 DEF Awaited
  <2> QED
    BY <2>5
<1>11. CASE Installs
  <2>1. /\ made < MaxFrames /\ made' = fresh /\ parn'[fresh] = parn[regs]
        /\ parn'[regs] \in {parn[regs], 0}
        /\ \A f \in Frames \ {fresh, regs} : parn'[f] = parn[f]
        /\ exh' = [exh EXCEPT ![fresh] = exh[regs], ![regs] = fresh]
        /\ regs' = regs
    BY <1>1, <1>11, Installing
  <2>2. Made' = Made \cup {fresh} /\ fresh # regs
    BY <1>5, <2>1 DEF Made
  <2>3. \A q \in Frames : q \notin {regs, fresh} => pc'[q] = pc[q]
    BY <1>5, <1>11 DEF Installs, RunEval, RunEvalUnder, Catch, CatchUnder
  <2>4. exh'[fresh] = exh[regs] /\ exh'[regs] = fresh
    BY <1>5, <2>1, <2>2
  <2>5. \A f \in A \ {regs} : parn'[f] = parn[f] /\ exh'[f] = exh[f]
    BY <1>5, <2>1
  <2>6. PICK B : B = A \cup {fresh}
    OBVIOUS
  <2>7. ASSUME NEW f \in B
        PROVE  /\ parn'[f] \in B \cup {0} /\ exh'[f] \in B \cup {0}
               /\ parn'[f] # 0 => parn'[f] # regs
                                  /\ pc'[parn'[f]] \in {"arg", "sub"}
    <3>1. parn'[f] \in {parn[f], parn[regs], 0}
      BY <2>1, <2>5, <2>6
    <3>2. \A g \in A : parn[g] # 0 => pc'[parn[g]] = pc[parn[g]]
      BY <1>4, <1>5, <2>3 DEF Awaited
    <3>3. PICK g \in A : parn'[f] \in {parn[g], 0}
      BY <1>5, <2>1, <2>5, <2>6, <3>1
    <3>4. exh'[f] \in B \cup {0}
      BY <1>4, <1>5, <2>4, <2>5, <2>6 DEF Awaited
    <3> QED
      BY <1>4, <2>6, <3>2, <3>3, <3>4 DEF Awaited
  <2>8. Awaited(B)'
    BY <1>4, <1>5, <2>1, <2>2, <2>6, <2>7 DEF Awaited
  <2> QED
    BY <2>8
<1>12. CASE \E f \in held : Assume(f)
  BY <1>2, <1>12 DEF Assume
<1> QED
  BY <1>6, <1>7, <1>8, <1>9, <1>10, <1>11, <1>12 DEF Next, Installs

\* While no held frame has been resumed, RETURN (via_run) goes to a frame that waits
\* behind a SNAP, whatever has been thrown, caught and kept: it never meets a frame
\* that stands at a RETURN too, from which via_run would go on by mistake.
THEOREM ReturnsWhereAwaited == Spec => []ReturnsToWaiting
<1>1. WaitLayer => ReturnsToWaiting
  BY DEF WaitLayer, Awaited, ReturnsToWaiting
<1> QED
  BY InitWait, NextWait, <1>1, PTL DEF Spec

-----------------------------------------------------------------------------
(* Chains of handlers end. *)

\* Every nonempty set of natural numbers has a smallest element.
LEMMA Smallest ==
    ASSUME NEW T, T \subseteq Nat, T # {}
    PROVE  \E x \in T : \A y \in T : x <= y
<1>1. IsWellFoundedOn(OpToRel(<, Nat), Nat)
  BY NatLessThanWellFounded
<1>2. PICK x \in T : \A y \in T : ~ (<<y, x>> \in OpToRel(<, Nat))
  BY <1>1, WFMin
<1>3. \A y \in T : x <= y
  <2>1. TAKE y \in T
  <2>2. ~ (<<y, x>> \in OpToRel(<, Nat)) /\ x \in Nat /\ y \in Nat
    BY <1>2
  <2> QED
    BY <2>2 DEF OpToRel
<1> QED
  BY <1>3

\* What HandlerChain is, up to m links.
IsChain(g, m) ==
    g = [n \in 0 .. m |->
            [f \in FrameRefs |-> IF n = 0 \/ f = 0 THEN f
                                 ELSE g[n - 1][exh[f]]]]

LEMMA ChainValue ==
    ASSUME NEW g, NEW m, IsChain(g, m), NEW n \in 0 .. m, NEW f \in FrameRefs
    PROVE  g[n][f] = IF n = 0 \/ f = 0 THEN f ELSE g[n - 1][exh[f]]
<1>1. g[n] = [e \in FrameRefs |-> IF n = 0 \/ e = 0 THEN e ELSE g[n - 1][exh[e]]]
  BY DEF IsChain
<1> QED
  BY <1>1

LEMMA ChainExists ==
    ASSUME NEW m \in Nat
    PROVE  \E g : IsChain(g, m)
<1> DEFINE T == {k \in Nat : ~ \E g : IsChain(g, k)}
<1> SUFFICES ASSUME T # {} PROVE FALSE
  OBVIOUS
<1>1. PICK k \in T : \A j \in T : k <= j
  <2>1. T \subseteq Nat
    OBVIOUS
  <2> HIDE DEF T
  <2> QED
    BY <2>1, Smallest
<1>2. CASE k = 0
  <2> DEFINE g == [n \in 0 .. 0 |-> [f \in FrameRefs |-> f]]
  <2>1. IsChain(g, 0)
    BY DEF IsChain
  <2> QED
    BY <1>2, <2>1
<1>3. CASE k # 0
  <2>1. k - 1 \in Nat /\ k - 1 \notin T
    BY <1>1, <1>3
  <2>2. PICK g : IsChain(g, k - 1)
    BY <2>1
  <2> DEFINE h == [n \in 0 .. k |->
                     IF n < k THEN g[n]
                     ELSE [f \in FrameRefs |-> IF f = 0 THEN f
                                               ELSE g[k - 1][exh[f]]]]
             b == [n \in 0 .. k |->
                     [f \in FrameRefs |-> IF n = 0 \/ f = 0 THEN f
                                          ELSE h[n - 1][exh[f]]]]
  <2>3. ASSUME NEW n \in 0 .. k PROVE h[n] = b[n]
    <3>1. CASE n = k
      <4>1. h[k - 1] = g[k - 1] /\ k \in 0 .. k
        BY <2>1
      <4>2. h[k] = [f \in FrameRefs |-> IF f = 0 THEN f ELSE g[k - 1][exh[f]]]
        BY <2>1, <4>1
      <4>3. b[k] = [f \in FrameRefs |-> IF k = 0 \/ f = 0 THEN f
                                        ELSE h[k - 1][exh[f]]]
        BY <4>1
      <4> HIDE DEF h, b
      <4> QED
        BY <1>3, <3>1, <4>1, <4>2, <4>3
    <3>2. CASE n # k
      <4>1. n \in 0 .. k - 1 /\ n < k /\ (n # 0 => n - 1 \in 0 .. k /\ n - 1 < k)
        BY <2>1, <3>2
      <4>2. g[n] = [f \in FrameRefs |-> IF n = 0 \/ f = 0 THEN f
                                        ELSE g[n - 1][exh[f]]]
        BY <2>2, <4>1 DEF IsChain
      <4>3. h[n] = g[n] /\ (n # 0 => h[n - 1] = g[n - 1])
        BY <4>1
      <4> QED
        BY <4>2, <4>3
    <3> QED
      BY <3>1, <3>2
  <2>4. h = b
    BY <2>3
  <2>5. IsChain(h, k)
    BY <2>4 DEF IsChain
  <2> QED
    BY <2>5
<1> QED
  BY <1>2, <1>3

LEMMA ChainStep == IsChain(HandlerChain, MaxFrames)
<1>1. \E g : IsChain(g, MaxFrames)
  BY ChainExists, MaxFramesAssumption
<1>2. HandlerChain = CHOOSE g : IsChain(g, MaxFrames)
  BY DEF HandlerChain, IsChain
<1> QED
  BY <1>1, <1>2

\* As many links as a frame ranks lead to NULL.
LEMMA ChainEnds ==
    ASSUME RankLayer, NEW rank, Ranked(rank),
           NEW n \in 0 .. MaxFrames, NEW f \in FrameRefs, rank[f] <= n
    PROVE  HandlerChain[n][f] = 0
<1> DEFINE Long == {k \in 0 .. MaxFrames :
                      \E g \in FrameRefs : rank[g] <= k /\ HandlerChain[k][g] # 0}
<1> SUFFICES ASSUME Long # {} PROVE FALSE
  OBVIOUS
<1>1. PICK k \in Long : \A j \in Long : k <= j
  <2>1. Long \subseteq Nat
    BY MaxFramesAssumption
  <2> HIDE DEF Long
  <2> QED
    BY <2>1, Smallest
<1>2. PICK g \in FrameRefs : rank[g] <= k /\ HandlerChain[k][g] # 0
  BY <1>1
<1>3. HandlerChain[k][g] = IF k = 0 \/ g = 0 THEN g ELSE HandlerChain[k - 1][exh[g]]
  BY <1>1, ChainStep, ChainValue
<1>4. k \in Nat /\ k <= MaxFrames /\ g # 0 /\ g \in Frames
  BY <1>1, <1>2, <1>3, MaxFramesAssumption, RankFacts
<1>5. /\ rank[exh[g]] < rank[g] /\ rank[exh[g]] \in Nat /\ rank[g] \in Nat
      /\ exh[g] \in FrameRefs
  BY <1>4, RankFacts DEF Ranked
<1>6. k # 0 /\ k - 1 \in 0 .. MaxFrames /\ rank[exh[g]] <= k - 1
  BY <1>2, <1>4, <1>5, MaxFramesAssumption
<1>7. HandlerChain[k - 1][exh[g]] # 0
  BY <1>2, <1>3, <1>4, <1>6
<1>8. k - 1 \in Long
  BY <1>5, <1>6, <1>7
<1> QED
  BY <1>1, <1>4, <1>8

\* However handlers are nested, replaced and kept, exceptions thrown by one handler
\* after the other reach the last one: the handler registers form no cycle.
THEOREM HandlerChainsAreFinite == Spec => []HandlerChainsEnd
<1>1. RankLayer => HandlerChainsEnd
  <2> SUFFICES ASSUME RankLayer, NEW f \in Frames
               PROVE  HandlerChain[MaxFrames][f] = 0
    BY DEF HandlerChainsEnd
  <2>1. PICK rank : Ranked(rank)
    BY DEF RankLayer
  <2>2. rank[f] \in Nat /\ rank[f] <= made /\ made <= MaxFrames /\ f \in FrameRefs
    BY <2>1, RankFacts, FrameSets DEF Ranked, RankLayer, Shape, TypeOK
  <2>3. rank[f] <= MaxFrames /\ MaxFrames \in 0 .. MaxFrames
    BY <2>2, MaxFramesAssumption, RankFacts
  <2> QED
    BY <2>1, <2>2, <2>3, ChainEnds
<1> QED
  BY InitRank, NextRank, <1>1, PTL DEF Spec

=============================================================================
