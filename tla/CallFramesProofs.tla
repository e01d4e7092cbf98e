-------------------------- MODULE CallFramesProofs --------------------------
(* What CallFrames promises for every number of frames.  The inductive      *)
(* invariant is built in layers, each proved with the layers below it:      *)
(*   TypeOK, Unmade, ParentOlder     the frames are well formed;            *)
(*   HostInv, UncaughtEndsRun        between two runs the current frame has *)
(*                                   no parent and owes nothing;            *)
(*   HandlerInv                      only default handlers lack a handler;  *)
(*   StackAccounted                  one stack entry per frame that owes;   *)
(*   NestInv                         the waiting frames lie on the path     *)
(*                                   from the current frame to the host.    *)
EXTENDS CallFrames, FiniteSetTheorems, SequenceTheorems, TLAPS

\* A frame that has not been made is not waiting for anything.
Unmade == \A f \in Frames : f > made => pc[f] = "free"

\* Between two runs the current frame has returned to the host.
HostInv == ~running => parn[regs] = 0 /\ pc[regs] = "done"

\* Every frame has a handler, except default handlers and the frame the
\* machine is created with, until the first run.
HandlerInv ==
    /\ made = 1 => ~running
    /\ \A f \in 1 .. made : exh[f] # 0 \/ f \in default \/ made = 1

-----------------------------------------------------------------------------

\* Entering a frame leaves every counter but that frame's alone, and never
\* makes or clears a debt.
LEMMA EnteringFact ==
    ASSUME NEW pcs \in [Frames -> Counters], NEW f \in Frames
    PROVE  /\ Entering(pcs, f) \in [Frames -> Counters]
           /\ \A g \in Frames : g # f => Entering(pcs, f)[g] = pcs[g]
           /\ \A g \in Frames : Entering(pcs, f)[g] = "arg" <=> pcs[g] = "arg"
           /\ Entering(pcs, f)[f] \in {"arg", "live"}
  BY DEF Entering, Counters

\* Dropping the last entry of a stack keeps the entries below it.
LEMMA PopFact ==
    ASSUME NEW S, NEW s \in Seq(S), s # <<>>
    PROVE  /\ SubSeq(s, 1, Len(s) - 1) \in Seq(S)
           /\ Len(SubSeq(s, 1, Len(s) - 1)) = Len(s) - 1
           /\ \A i \in 1 .. Len(s) - 1 : SubSeq(s, 1, Len(s) - 1)[i] = s[i]
<1>1. Len(s) \in Nat \ {0} /\ \A i \in 1 .. Len(s) - 1 : s[i] \in S
  OBVIOUS
<1> DEFINE n == Len(s) - 1
<1>2. n \in Int /\ 1 \in Int /\ n >= 0 /\ \A i \in 1 .. n : s[i] \in S
  BY <1>1
<1> HIDE DEF n
<1>3. /\ SubSeq(s, 1, n) \in Seq(S)
      /\ Len(SubSeq(s, 1, n)) = IF 1 <= n THEN n - 1 + 1 ELSE 0
      /\ \A i \in 1 .. n - 1 + 1 : SubSeq(s, 1, n)[i] = s[1 + i - 1]
  BY ONLY <1>2, SubSeqProperties
<1>4. /\ SubSeq(s, 1, n) \in Seq(S)
      /\ Len(SubSeq(s, 1, n)) = n
      /\ \A i \in 1 .. n : SubSeq(s, 1, n)[i] = s[i]
  <2>1. n - 1 + 1 = n /\ \A i \in 1 .. n : 1 + i - 1 = i
    BY <1>2
  <2> QED
    BY <1>2, <1>3, <2>1
<1> QED
  BY <1>4 DEF n

\* The sets a frame number ranges over.
LEMMA FrameSets ==
    /\ Frames \subseteq Nat \ {0}
    /\ FrameRefs = Frames \cup {0}
    /\ \A f \in Frames : f <= MaxFrames
    /\ \A n \in Nat : n > 0 /\ n <= MaxFrames => n \in Frames
    /\ 1 \in Frames
  BY MaxFramesAssumption DEF Frames, FrameRefs

-----------------------------------------------------------------------------
\* Type correctness, with parents older than their children: a RETURN needs
\* that to know its parent has been made.

ExhMade == \A f \in Frames : exh[f] <= made

Shape == TypeOK /\ Unmade /\ ParentOlder /\ ExhMade

LEMMA MadeSet ==
    ASSUME made \in Frames
    PROVE  /\ Made \subseteq Frames
           /\ \A f \in Frames : f \in Made <=> f <= made
           /\ made < MaxFrames => fresh \in Frames
           /\ \A f \in Made : f < fresh
  BY FrameSets, MaxFramesAssumption DEF Made, Frames, fresh

\* Frame numbers are natural numbers: what arithmetic needs to know.
LEMMA Numbers ==
    ASSUME Shape
    PROVE  /\ made \in Nat /\ regs \in Nat /\ regs <= made /\ fresh = made + 1
           /\ regs \in Frames /\ regs \in Made
           /\ parn[regs] < fresh /\ exh[regs] <= made
           /\ parn[regs] \in Made \cup {0} /\ exh[regs] \in Made \cup {0}
           /\ \A f \in Frames : /\ f \in Nat
                               /\ parn[f] \in Nat /\ parn[f] < f
                               /\ exh[f] \in Nat /\ exh[f] <= made
<1>1. /\ made \in Frames /\ regs \in Made
      /\ parn \in [Frames -> FrameRefs]
      /\ exh \in [Frames -> FrameRefs]
      /\ \A f \in Frames : parn[f] < f
      /\ \A f \in Frames : exh[f] <= made
  BY DEF Shape, TypeOK, ParentOlder, ExhMade
<1>2. regs \in Frames /\ made \in Nat /\ regs \in Nat /\ regs <= made
  BY <1>1, MadeSet, FrameSets
<1>3. \A f \in Frames : f \in Nat /\ parn[f] \in Nat /\ exh[f] \in Nat
  <2>1. FrameRefs \subseteq Nat /\ Frames \subseteq Nat
    BY FrameSets
  <2>2. \A f \in Frames : parn[f] \in FrameRefs /\ exh[f] \in FrameRefs
    BY <1>1
  <2> QED
    BY <2>1, <2>2
<1>4. parn[regs] < regs /\ exh[regs] <= made
  BY <1>1, <1>2
<1>5. fresh = made + 1 /\ parn[regs] < fresh
  BY <1>2, <1>3, <1>4 DEF fresh
<1>6. parn[regs] \in Made \cup {0} /\ exh[regs] \in Made \cup {0}
  BY <1>2, <1>3, <1>4 DEF Made
<1> QED
  BY <1>1, <1>2, <1>3, <1>4, <1>5, <1>6

LEMMA InitShape == Init => Shape
<1> SUFFICES ASSUME Init PROVE Shape
  OBVIOUS
<1> USE FrameSets DEF Init
<1>1. TypeOK
  <2>1. Made = {1}
    BY DEF Made
  <2>2. stack \in Seq(Frames)
    OBVIOUS
  <2>3. pc \in [Frames -> Counters]
    BY DEF Counters
  <2>4. parn \in [Frames -> FrameRefs] /\ exh \in [Frames -> FrameRefs]
    OBVIOUS
  <2> QED
    BY <2>1, <2>2, <2>3, <2>4 DEF TypeOK
<1>2. Unmade /\ ParentOlder /\ ExhMade
  BY DEF Unmade, ParentOlder, ExhMade
<1> QED
  BY <1>1, <1>2 DEF Shape

\* A step that makes one frame keeps the frames well formed.
LEMMA MakeFrameShape ==
    ASSUME Shape, NEW p \in Made, NEW h \in Made \cup {0},
           NEW pcs \in [Frames -> Counters],
           \A f \in Frames : f > made => pcs[f] = "free",
           MakeFrame(p, h, pcs)
    PROVE  /\ made' \in Frames
           /\ made' = made + 1
           /\ Made \subseteq Made'
           /\ fresh \in Made'
           /\ parn' \in [Frames -> FrameRefs]
           /\ exh' \in [Frames -> FrameRefs]
           /\ pc' \in [Frames -> Counters]
           /\ Unmade' /\ ParentOlder' /\ ExhMade'
<1> USE FrameSets DEF MakeFrame
<1>1. made \in Frames /\ p \in Frames /\ h \in FrameRefs /\ fresh \in Frames
  BY MadeSet DEF Shape, TypeOK
<1>2. /\ made' \in Frames /\ made' = made + 1
      /\ parn' \in [Frames -> FrameRefs]
      /\ exh' \in [Frames -> FrameRefs]
      /\ pc' \in [Frames -> Counters]
  BY <1>1 DEF Shape, TypeOK, fresh, Counters
<1>3. Made \subseteq Made' /\ fresh \in Made'
  BY <1>1, <1>2 DEF Made, fresh
<1>4. Unmade' /\ ParentOlder' /\ ExhMade'
  <2>1. Unmade'
    BY <1>1, <1>2 DEF Unmade, fresh
  <2>2. ParentOlder'
    BY <1>1, <1>2, MadeSet DEF ParentOlder, Shape, TypeOK
  <2>3. ExhMade'
    <3>1. h <= made /\ h \in Nat
      BY <1>1, FrameSets, MadeSet DEF Made, Shape, TypeOK
    <3>2. \A f \in Frames : exh'[f] \in {exh[f], h}
      BY <1>1, <1>2 DEF Shape, TypeOK
    <3> QED
      BY <1>1, <1>2, <3>1, <3>2, Numbers DEF ExhMade
  <2> QED
    BY <2>1, <2>2, <2>3
<1> QED
  BY <1>2, <1>3, <1>4

\* Type correctness of the frames, the data stack and the current frame.
LEMMA NextShape == Shape /\ [Next]_vars => Shape'
<1> SUFFICES ASSUME Shape, [Next]_vars PROVE Shape'
  OBVIOUS
<1> USE FrameSets DEF Shape
<1>0. /\ regs \in Frames /\ regs \in Made /\ parn[regs] \in Made \cup {0}
      /\ exh[regs] \in Made \cup {0}
      /\ \A c \in Counters : [pc EXCEPT ![regs] = c] \in [Frames -> Counters]
      /\ \A c \in Counters, f \in Frames :
            f > made => [pc EXCEPT ![regs] = c][f] = "free"
  <2>1. pc \in [Frames -> Counters] /\ \A f \in Frames : f > made => f # regs
    BY Numbers DEF TypeOK
  <2> QED
    BY <2>1, Numbers DEF Unmade
<1>1. CASE RunEval
  <2>1. /\ made' = fresh /\ fresh = made + 1 /\ made' \in Frames
        /\ Made \subseteq Made' /\ fresh \in Made' /\ fresh \in Frames
        /\ regs < fresh
    BY <1>0, <1>1, MadeSet DEF RunEval, RunEvalUnder, TypeOK, fresh, Made
  <2>2. TypeOK'
    BY <1>0, <1>1, <2>1 DEF RunEval, RunEvalUnder, TypeOK, Counters
  <2> SUFFICES ASSUME NEW f \in Frames
               PROVE  /\ f > made' => pc'[f] = "free"
                      /\ parn'[f] < f
                      /\ exh'[f] <= made'
    BY <2>2 DEF Unmade, ParentOlder, ExhMade
  <2>3. made \in Nat /\ f \in Nat /\ regs \in Nat /\ exh[f] \in Nat
    BY Numbers
  <2>4. f > made' => pc'[f] = "free"
    <3>1. regs <= made
      BY <1>0, MadeSet DEF TypeOK
    <3> QED
      BY <1>0, <1>1, <2>1, <2>3, <3>1 DEF RunEval, RunEvalUnder, Unmade,
                                          TypeOK
  <2>5. parn'[f] < f
    <3>1. parn[regs] < fresh
      BY Numbers
    <3> QED
      BY <1>0, <1>1, <2>1, <2>3, <3>1 DEF RunEval, RunEvalUnder, ParentOlder,
                                          TypeOK
  <2>6. exh'[f] <= made'
    <3>1. exh[regs] <= made /\ exh[f] <= made
      BY <1>0 DEF ExhMade
    <3>2. exh'[f] \in {exh[f], exh[regs], fresh}
      BY <1>0, <1>1, <2>1 DEF RunEval, RunEvalUnder, TypeOK
    <3> QED
      BY Numbers, <2>1, <2>3, <3>1, <3>2
  <2> QED
    BY <2>4, <2>5, <2>6
<1>2. CASE SnapArg
  <2>1. stack' \in Seq(Frames) /\ regs' = fresh
    BY <1>0, <1>2 DEF SnapArg, Snap, TypeOK
  <2>2. MakeFrame(regs, exh[regs], [pc EXCEPT ![regs] = "arg"])
    BY <1>2 DEF SnapArg, Snap
  <2>3. /\ [pc EXCEPT ![regs] = "arg"] \in [Frames -> Counters]
        /\ \A f \in Frames :
              f > made => [pc EXCEPT ![regs] = "arg"][f] = "free"
    BY <1>0 DEF Counters
  <2>4. /\ made' \in Frames /\ Made \subseteq Made' /\ fresh \in Made'
        /\ parn' \in [Frames -> FrameRefs] /\ exh' \in [Frames -> FrameRefs]
        /\ pc' \in [Frames -> Counters]
        /\ Unmade' /\ ParentOlder' /\ ExhMade'
    <3>1. regs \in Made /\ exh[regs] \in Made \cup {0}
      BY <1>0
    <3> HIDE DEF Shape
    <3> QED
      BY ONLY Shape, <2>2, <2>3, <3>1, MakeFrameShape
  <2> QED
    BY <1>2, <2>1, <2>4 DEF SnapArg, Snap, TypeOK
<1>3. CASE SnapSub
  <2>1. stack' = stack /\ regs' = fresh
    BY <1>3 DEF SnapSub, Snap
  <2>2. MakeFrame(regs, exh[regs], [pc EXCEPT ![regs] = "sub"])
    BY <1>3 DEF SnapSub, Snap
  <2>3. /\ [pc EXCEPT ![regs] = "sub"] \in [Frames -> Counters]
        /\ \A f \in Frames :
              f > made => [pc EXCEPT ![regs] = "sub"][f] = "free"
    BY <1>0 DEF Counters
  <2>4. /\ made' \in Frames /\ Made \subseteq Made' /\ fresh \in Made'
        /\ parn' \in [Frames -> FrameRefs] /\ exh' \in [Frames -> FrameRefs]
        /\ pc' \in [Frames -> Counters]
        /\ Unmade' /\ ParentOlder' /\ ExhMade'
    <3>1. regs \in Made /\ exh[regs] \in Made \cup {0}
      BY <1>0
    <3> HIDE DEF Shape
    <3> QED
      BY ONLY Shape, <2>2, <2>3, <3>1, MakeFrameShape
  <2> QED
    BY <1>3, <2>1, <2>4 DEF SnapSub, Snap, TypeOK
<1>4. CASE ArgDone
  <2>1. stack' \in Seq(Frames)
    BY <1>4 DEF ArgDone, Continue, TypeOK
  <2> QED
    BY <1>0, <1>4, <2>1
       DEF ArgDone, Continue, TypeOK, Unmade, ParentOlder, ExhMade, Counters,
           Made
<1>5. CASE Return
  <2>1. parn[regs] \in Made /\ parn[regs] \in Frames
    BY <1>0, <1>5, MadeSet DEF Return, GoToParent, TypeOK
  <2>2. /\ pc' \in [Frames -> Counters]
        /\ \A f \in Frames : f > made => pc'[f] = "free"
    <3>1. pc[regs] = "live" /\ pc \in [Frames -> Counters]
          /\ pc' = Entering([pc EXCEPT ![regs] = "done"], parn[regs])
      BY <1>5 DEF Return, GoToParent, TypeOK
    <3>2. \A f \in Frames : f > made => f # parn[regs] /\ f # regs /\ pc[f] = "free"
      BY <1>0, <2>1, Numbers, MadeSet DEF TypeOK, Unmade
    <3> QED
      BY <1>0, <2>1, <3>1, <3>2 DEF Entering, Counters
  <2> QED
    BY <1>0, <1>5, <2>1, <2>2
       DEF Return, GoToParent, TypeOK, Unmade, ParentOlder, ExhMade, Made
<1>6. CASE Finish
  BY <1>0, <1>6
     DEF Finish, TypeOK, Unmade, ParentOlder, ExhMade, Counters, Made
<1>7. CASE Catch
  <2>1. /\ made' = fresh /\ fresh = made + 1 /\ made' \in Frames
        /\ Made \subseteq Made' /\ fresh \in Made' /\ fresh \in Frames
        /\ regs < fresh
    BY <1>0, <1>7, MadeSet DEF Catch, CatchUnder, TypeOK, fresh, Made
  <2>2. TypeOK'
    BY <1>0, <1>7, <2>1 DEF Catch, CatchUnder, TypeOK, Counters
  <2> SUFFICES ASSUME NEW f \in Frames
               PROVE  /\ f > made' => pc'[f] = "free"
                      /\ parn'[f] < f
                      /\ exh'[f] <= made'
    BY <2>2 DEF Unmade, ParentOlder, ExhMade
  <2>3. made \in Nat /\ f \in Nat /\ regs \in Nat /\ exh[f] \in Nat
    BY Numbers
  <2>4. f > made' => pc'[f] = "free"
    <3>1. regs <= made
      BY <1>0, MadeSet DEF TypeOK
    <3> QED
      BY <1>0, <1>7, <2>1, <2>3, <3>1 DEF Catch, CatchUnder, Unmade, TypeOK
  <2>5. parn'[f] < f
    <3>1. parn[regs] < fresh
      BY Numbers
    <3> QED
      BY <1>0, <1>7, <2>1, <2>3, <3>1 DEF Catch, CatchUnder, ParentOlder,
                                          TypeOK
  <2>6. exh'[f] <= made'
    <3>1. exh[regs] <= made /\ exh[f] <= made
      BY <1>0 DEF ExhMade
    <3>2. exh'[f] \in {exh[f], exh[regs], fresh}
      BY <1>0, <1>7, <2>1 DEF Catch, CatchUnder, TypeOK
    <3> QED
      BY Numbers, <2>1, <2>3, <3>1, <3>2
  <2> QED
    BY <2>4, <2>5, <2>6
<1>8. CASE Throw
  <2>1. exh[regs] \in Made /\ exh[regs] \in Frames
    BY <1>0, <1>8, MadeSet DEF Throw, TypeOK
  <2>2. /\ pc' \in [Frames -> Counters]
        /\ \A f \in Frames : f > made => pc'[f] = "free"
    BY <1>0, <1>8, <2>1, EnteringFact, MadeSet
       DEF Throw, TypeOK, Unmade, Counters
  <2> QED
    BY <1>0, <1>8, <2>1, <2>2
       DEF Throw, TypeOK, Unmade, ParentOlder, ExhMade, Made
<1>9. CASE HoldException
  BY <1>0, <1>9
     DEF HoldException, TypeOK, Unmade, ParentOlder, ExhMade, Made
<1>10. CASE HoldContinuation
  BY <1>0, <1>10, MakeFrameShape
     DEF HoldContinuation, Executing, TypeOK, Unmade
<1>11. ASSUME NEW f \in held, Assume(f) PROVE Shape'
  <2>1. f \in Made /\ f \in Frames
    BY MadeSet DEF TypeOK
  <2>2. /\ pc' \in [Frames -> Counters]
        /\ \A g \in Frames : g > made => pc'[g] = "free"
    BY <1>0, <1>11, <2>1, EnteringFact, MadeSet
       DEF Assume, TypeOK, Unmade, Counters
  <2> QED
    BY <1>11, <2>1, <2>2
       DEF Assume, TypeOK, Unmade, ParentOlder, ExhMade, Made
<1>12. CASE UNCHANGED vars
  BY <1>12 DEF vars, TypeOK, Unmade, ParentOlder, ExhMade, Made
<1> QED
  BY <1>1, <1>2, <1>3, <1>4, <1>5, <1>6, <1>7, <1>8, <1>9, <1>10, <1>11,
     <1>12 DEF Next

\* Type correctness of the frames, the data stack and the current frame.
THEOREM TypeCorrect == Spec => []TypeOK
<1>1. Shape => TypeOK
  BY DEF Shape
<1> QED
  BY InitShape, NextShape, <1>1, PTL DEF Spec

\* Return paths are finite: a parent is older than its child.
THEOREM ParentsOlder == Spec => []ParentOlder
<1>1. Shape => ParentOlder
  BY DEF Shape
<1> QED
  BY InitShape, NextShape, <1>1, PTL DEF Spec

-----------------------------------------------------------------------------
\* Handlers.

\* The facts about Shape that the layers above it use in every step.
LEMMA ShapeFacts ==
    ASSUME Shape
    PROVE  /\ parn \in [Frames -> FrameRefs] /\ exh \in [Frames -> FrameRefs]
           /\ pc \in [Frames -> Counters]
           /\ made \in Frames /\ regs \in Frames /\ regs \in Made
           /\ made < MaxFrames => fresh \in Frames
           /\ Made \subseteq Frames
           /\ fresh \notin Made
           /\ default \subseteq Made /\ held \subseteq Made
           /\ stack \in Seq(Frames)
           /\ running \in BOOLEAN
  BY MadeSet, Numbers DEF Shape, TypeOK, Made

HostLayer == Shape /\ HostInv /\ UncaughtEndsRun

LEMMA InitHost == Init => HostLayer
<1> SUFFICES ASSUME Init PROVE HostLayer
  OBVIOUS
<1>1. HostInv /\ UncaughtEndsRun
  BY FrameSets DEF Init, HostInv, UncaughtEndsRun
<1> QED
  BY <1>1, InitShape DEF HostLayer

LEMMA NextHost == HostLayer /\ [Next]_vars => HostLayer'
<1> SUFFICES ASSUME HostLayer, [Next]_vars PROVE HostLayer'
  OBVIOUS
<1>0. Shape /\ Shape'
  BY NextShape DEF HostLayer
<1> USE <1>0, ShapeFacts DEF HostLayer
<1>1. HostInv'
  <2>1. CASE RunEval
    BY <2>1 DEF RunEval, RunEvalUnder, HostInv
  <2>2. CASE Finish
    BY <2>2 DEF Finish, HostInv, Counters
  <2>3. CASE UNCHANGED vars
    BY <2>3 DEF vars, HostInv
  <2>4. ASSUME ~RunEval, ~Finish, Next PROVE running /\ running'
    BY <2>4 DEF Next, SnapArg, Snap, SnapSub, ArgDone, Continue, Return,
                GoToParent, Catch, CatchUnder, Throw, HoldException,
                HoldContinuation, Assume, Executing
  <2> QED
    BY <2>1, <2>2, <2>3, <2>4 DEF HostInv
<1>2. UncaughtEndsRun'
  <2>1. CASE RunEval
    <3>1. parn[regs] = 0
      BY <2>1 DEF RunEval, RunEvalUnder, HostInv
    <3> QED
      BY <2>1, <3>1 DEF RunEval, RunEvalUnder, UncaughtEndsRun
  <2>2. CASE ~RunEval
    <3>1. default' = default
      BY <2>2 DEF Next, vars, SnapArg, Snap, SnapSub, ArgDone, Continue,
                  Return, GoToParent, Finish, Catch, CatchUnder, Throw,
                  HoldException, HoldContinuation, Assume
    <3>2. \A f \in Made : parn'[f] = parn[f]
      BY <2>2 DEF Next, vars, SnapArg, Snap, SnapSub, ArgDone, Continue,
                  Return, GoToParent, Finish, Catch, CatchUnder, Throw,
                  HoldException, HoldContinuation, Assume, MakeFrame
    <3> QED
      BY <3>1, <3>2 DEF UncaughtEndsRun
  <2> QED
    BY <2>1, <2>2
<1> QED
  BY <1>1, <1>2

\* An exception nobody catches ends the run: the default handler has no
\* parent, so its RETURN goes to the host.
THEOREM UncaughtEnds == Spec => []UncaughtEndsRun
<1>1. HostLayer => UncaughtEndsRun
  BY DEF HostLayer
<1> QED
  BY InitHost, NextHost, <1>1, PTL DEF Spec

HandlerLayer == Shape /\ HandlerInv

LEMMA InitHandler == Init => HandlerLayer
<1> SUFFICES ASSUME Init PROVE HandlerLayer
  OBVIOUS
<1>1. HandlerInv
  BY DEF Init, HandlerInv
<1> QED
  BY <1>1, InitShape DEF HandlerLayer

LEMMA NextHandler == HandlerLayer /\ [Next]_vars => HandlerLayer'
<1> SUFFICES ASSUME HandlerLayer, [Next]_vars PROVE HandlerLayer'
  OBVIOUS
<1>0. Shape /\ Shape'
  BY NextShape DEF HandlerLayer
<1> USE <1>0, ShapeFacts, Numbers DEF HandlerLayer
<1>1. ASSUME Executing PROVE exh[regs] # 0
  BY <1>1 DEF Executing, HandlerInv, Made
<1>2. CASE RunEval
  <2>1. made' = made + 1 /\ Made' = Made \cup {fresh}
    BY <1>2 DEF RunEval, RunEvalUnder, Made, fresh
  <2>2. exh'[fresh] = exh[regs] \/ regs = fresh
    BY <1>2 DEF RunEval, RunEvalUnder
  <2>3. \A f \in Made \ {regs} : exh'[f] = exh[f]
    BY <1>2 DEF RunEval, RunEvalUnder
  <2>4. exh'[regs] = fresh /\ fresh # 0 /\ fresh \in default'
    BY <1>2 DEF RunEval, RunEvalUnder
  <2>5. \A f \in Made' : exh'[f] # 0 \/ f \in default'
    <3>1. \A f \in Made \ {regs} : made = 1 => FALSE
      BY DEF Made
    <3> QED
      BY <1>2, <2>1, <2>3, <2>4, <3>1 DEF RunEval, RunEvalUnder, HandlerInv,
                                          Made
  <2> QED
    BY <2>1, <2>5 DEF HandlerInv, Made
<1>3. ASSUME Executing, NEW pcs, MakeFrame(regs, exh[regs], pcs),
             default' = default, running' = running
      PROVE  HandlerInv'
  <2>1. made' = made + 1 /\ Made' = Made \cup {fresh} /\ made # 1
    BY <1>3 DEF MakeFrame, Made, fresh, Executing, HandlerInv
  <2>2. \A f \in Made' : exh'[f] # 0 \/ f \in default'
    BY <1>1, <1>3, <2>1 DEF MakeFrame, HandlerInv, Made
  <2> QED
    BY <2>1, <2>2 DEF HandlerInv, Made
<1>4. CASE SnapArg
  BY <1>3, <1>4 DEF SnapArg, Snap
<1>5. CASE SnapSub
  BY <1>3, <1>5 DEF SnapSub, Snap
<1>6. CASE HoldContinuation
  BY <1>3, <1>6 DEF HoldContinuation
<1>7. CASE Catch
  <2>1. made' = made + 1 /\ Made' = Made \cup {fresh} /\ made # 1
    BY <1>7 DEF Catch, CatchUnder, Made, fresh, Executing, HandlerInv
  <2>2. exh'[fresh] # 0 /\ exh'[regs] # 0
    BY <1>1, <1>7 DEF Catch, CatchUnder
  <2>3. \A f \in Made \ {regs} : exh'[f] = exh[f]
    BY <1>7 DEF Catch, CatchUnder
  <2>4. \A f \in Made' : exh'[f] # 0 \/ f \in default'
    BY <1>7, <2>1, <2>2, <2>3 DEF Catch, CatchUnder, HandlerInv, Made
  <2> QED
    BY <2>1, <2>4 DEF HandlerInv, Made
<1>8. ASSUME made' = made, exh' = exh, default' = default,
             running' => running
      PROVE  HandlerInv'
  BY <1>8 DEF HandlerInv
<1>9. CASE ArgDone \/ Return \/ Finish \/ Throw \/ HoldException
           \/ (\E f \in held : Assume(f)) \/ UNCHANGED vars
  BY <1>8, <1>9 DEF ArgDone, Continue, Return, GoToParent, Finish, Throw,
                    HoldException, Assume, Executing, vars
<1> QED
  BY <1>2, <1>4, <1>5, <1>6, <1>7, <1>9 DEF Next

\* The assertion of via_assume_frame holds in every throw: there is a handler.
THEOREM ThrowsAreHandled == Spec => []HandlerInstalled
<1>1. HandlerLayer => HandlerInstalled
  BY ShapeFacts, Numbers
     DEF HandlerLayer, HandlerInv, HandlerInstalled, Executing, Made
<1> QED
  BY InitHandler, NextHandler, <1>1, PTL DEF Spec

-----------------------------------------------------------------------------
\* The data stack.

\* How a step may change the frames that owe a POP.
LEMMA OwingFinite == IsFiniteSet(Owing) /\ Cardinality(Owing) \in Nat
<1>1. IsFiniteSet(Frames)
  BY FS_Interval, MaxFramesAssumption DEF Frames
<1>2. Owing \subseteq Frames
  BY DEF Owing
<1> QED
  BY <1>1, <1>2, FS_Subset, FS_CardinalityType

\* Only the argument loop's SNAP makes a debt, and only @arg-eval-done pays it.
LEMMA OwingSteps ==
    ASSUME HostLayer, [Next]_vars
    PROVE  \/ /\ SnapArg
              /\ regs \notin Owing
              /\ Owing' = Owing \cup {regs}
           \/ /\ ArgDone
              /\ regs \in Owing
              /\ Owing' = Owing \ {regs}
           \/ /\ Owing' = Owing
              /\ stack' = stack
<1> USE ShapeFacts DEF Owing, HostLayer
<1>0. made < MaxFrames => pc[fresh] = "free" /\ fresh # regs
  BY Numbers DEF Shape, Unmade
<1>1. CASE SnapArg
  BY <1>0, <1>1 DEF SnapArg, Snap, MakeFrame, Executing
<1>2. CASE ArgDone
  BY <1>2 DEF ArgDone, Continue
<1>3. CASE RunEval
  <2>1. pc[regs] # "arg"
    BY <1>3 DEF RunEval, RunEvalUnder, HostInv
  <2> QED
    BY <1>0, <1>3, <2>1 DEF RunEval, RunEvalUnder
<1>4. CASE SnapSub \/ HoldContinuation
  BY <1>0, <1>4 DEF SnapSub, Snap, HoldContinuation, MakeFrame, Executing
<1>5. CASE Catch
  BY <1>0, <1>5 DEF Catch, CatchUnder
<1>6. CASE Finish
  BY <1>6 DEF Finish
<1>7. CASE Return
  <2>1. parn[regs] \in Frames
    BY <1>7, Numbers DEF Return, GoToParent
  <2>2. pc[regs] = "live" /\ pc \in [Frames -> Counters]
        /\ pc' = Entering([pc EXCEPT ![regs] = "done"], parn[regs])
    BY <1>7 DEF Return, GoToParent
  <2>3. \A g \in Frames : pc'[g] = "arg" <=> pc[g] = "arg"
    BY <2>1, <2>2 DEF Entering
  <2> QED
    BY <1>7, <2>3 DEF Return, GoToParent
<1>8. CASE Throw
  <2>1. exh[regs] \in Frames
    BY <1>8, Numbers DEF Throw
  <2> QED
    BY <1>8, <2>1, EnteringFact DEF Throw
<1>9. ASSUME NEW f \in held, Assume(f) PROVE Owing' = Owing /\ stack' = stack
  <2>1. f \in Frames
    OBVIOUS
  <2> QED
    BY <1>9, <2>1, EnteringFact DEF Assume
<1>10. CASE HoldException \/ UNCHANGED vars
  BY <1>10 DEF HoldException, vars
<1> QED
  BY <1>1, <1>2, <1>3, <1>4, <1>5, <1>6, <1>7, <1>8, <1>9, <1>10 DEF Next

StackLayer == HostLayer /\ StackAccounted

LEMMA InitStack == Init => StackLayer
<1> SUFFICES ASSUME Init PROVE StackLayer
  OBVIOUS
<1>1. Owing = {}
  BY DEF Init, Owing
<1>2. StackAccounted
  BY <1>1, FS_EmptySet DEF Init, StackAccounted
<1> QED
  BY <1>2, InitHost DEF StackLayer

LEMMA NextStack == StackLayer /\ [Next]_vars => StackLayer'
<1> SUFFICES ASSUME StackLayer, [Next]_vars PROVE StackAccounted'
  BY NextHost DEF StackLayer
<1>1. stack \in Seq(Frames) /\ Len(stack) \in Nat
  BY ShapeFacts DEF StackLayer, HostLayer
<1>2. CASE SnapArg /\ regs \notin Owing /\ Owing' = Owing \cup {regs}
  <2>1. Cardinality(Owing') = Cardinality(Owing) + 1
    BY <1>2, OwingFinite, FS_AddElement
  <2>2. Len(stack') = Len(stack) + 1
    BY <1>1, <1>2 DEF SnapArg, Snap
  <2> QED
    BY <2>1, <2>2 DEF StackLayer, StackAccounted
<1>3. CASE ArgDone /\ regs \in Owing /\ Owing' = Owing \ {regs}
  <2>1. Cardinality(Owing') = Cardinality(Owing) - 1
    BY <1>3, OwingFinite, FS_RemoveElement
  <2>2. Len(stack') = Len(stack) - 1
    <3>1. stack # <<>> /\ stack' = SubSeq(stack, 1, Len(stack) - 1)
      BY <1>3 DEF ArgDone, Continue
    <3> QED
      BY <1>1, <3>1, PopFact
  <2> QED
    BY <2>1, <2>2 DEF StackLayer, StackAccounted
<1>4. CASE Owing' = Owing /\ stack' = stack
  BY <1>4 DEF StackLayer, StackAccounted
<1> QED
  BY <1>2, <1>3, <1>4, OwingSteps DEF StackLayer

\* Whatever a program throws and resumes, the data stack holds one entry for
\* every frame that still owes a POP.
THEOREM StackIsAccounted == Spec => []StackAccounted
<1>1. StackLayer => StackAccounted
  BY DEF StackLayer
<1> QED
  BY InitStack, NextStack, <1>1, PTL DEF Spec

\* No POP runs below the bottom of the data stack.
THEOREM NoUnderflow == Spec => [](pc[regs] = "arg" => stack # <<>>)
<1>1. StackLayer => (pc[regs] = "arg" => stack # <<>>)
  <2> SUFFICES ASSUME StackLayer, pc[regs] = "arg" PROVE stack # <<>>
    OBVIOUS
  <2>1. regs \in Owing
    BY ShapeFacts DEF StackLayer, HostLayer, Owing
  <2>2. Cardinality(Owing) # 0
    BY <2>1, OwingFinite, FS_EmptySet
  <2> QED
    BY <2>2 DEF StackLayer, StackAccounted
<1> QED
  BY InitStack, NextStack, <1>1, PTL DEF Spec

-----------------------------------------------------------------------------
\* Programs that neither throw nor resume a frame.

Waiting == {f \in Frames : pc[f] \in {"arg", "sub"}}

\* The waiting frames are the ancestors of the current frame: none of them
\* lies between a frame of that path and its parent, and none above it.
PathInv ==
    /\ \A f \in Waiting \cup {regs} : parn[f] = 0 \/ parn[f] \in Waiting
    /\ \A f \in Waiting \cup {regs} : \A g \in Waiting : g < f => g <= parn[f]
    /\ \A g \in Waiting : g <= regs

\* The stack lists the frames that owe a POP, the oldest at the bottom.
OrderedInv ==
    /\ \A i, j \in 1 .. Len(stack) : i < j => stack[i] < stack[j]
    /\ \A g \in Frames : g \in Owing <=> \E i \in 1 .. Len(stack) : stack[i] = g

Plain == ~thrown /\ ~resumed

NestLayer == HostLayer /\ (Plain => PathInv /\ OrderedInv)

LEMMA InitNest == Init => NestLayer
<1> SUFFICES ASSUME Init PROVE NestLayer
  OBVIOUS
<1>1. Waiting = {} /\ Owing = {}
  BY FrameSets DEF Init, Waiting, Owing
<1>2. PathInv
  BY <1>1, FrameSets DEF Init, PathInv
<1>3. OrderedInv
  BY <1>1 DEF Init, OrderedInv
<1> QED
  BY <1>2, <1>3, InitHost DEF NestLayer

\* A frame that waits has been made.
LEMMA WaitingMade ==
    ASSUME Shape
    PROVE  /\ Waiting \subseteq Made /\ Waiting \subseteq Frames
           /\ Owing \subseteq Waiting
           /\ pc[regs] = "live" => regs \notin Waiting
           /\ \A f \in Waiting \cup {regs} : f \in Nat /\ f <= made /\ f \in Frames
<1>1. Waiting \subseteq Frames /\ Owing \subseteq Waiting
  BY DEF Waiting, Owing
<1>2. \A f \in Waiting : f <= made
  BY Numbers DEF Waiting, Shape, Unmade
<1>3. Waiting \subseteq Made
  BY <1>1, <1>2, MadeSet, ShapeFacts
<1>4. pc[regs] = "live" => regs \notin Waiting
  BY DEF Waiting
<1> QED
  BY <1>1, <1>2, <1>3, <1>4, Numbers

LEMMA NextPath ==
    ASSUME HostLayer, PathInv, [Next]_vars, Plain'
    PROVE  PathInv'
<1> USE DEF HostLayer
<1>0. Shape /\ Shape'
  BY NextShape
<1> USE <1>0, ShapeFacts, Numbers, WaitingMade
<1>1. CASE SnapArg \/ SnapSub
  <2>1. /\ regs' = fresh /\ parn'[fresh] = regs
        /\ \A f \in Made : parn'[f] = parn[f]
    BY <1>1 DEF SnapArg, Snap, SnapSub, MakeFrame
  <2>2. Waiting' = Waiting \cup {regs} /\ regs \notin Waiting
    <3>1. \A f \in Frames : f # regs /\ f # fresh => pc'[f] = pc[f]
      BY <1>1 DEF SnapArg, Snap, SnapSub, MakeFrame
    <3>2. pc'[regs] \in {"arg", "sub"} /\ pc'[fresh] = "live" /\ regs # fresh
      BY <1>1 DEF SnapArg, Snap, SnapSub, MakeFrame
    <3>3. pc[fresh] = "free" /\ pc[regs] = "live"
      BY <1>1 DEF SnapArg, Snap, SnapSub, MakeFrame, Executing, Shape, Unmade
    <3> QED
      BY <3>1, <3>2, <3>3 DEF Waiting
  <2>3. \A f \in (Waiting \cup {regs})' : parn'[f] = 0 \/ parn'[f] \in Waiting'
    BY <2>1, <2>2 DEF PathInv
  <2>4. \A f \in (Waiting \cup {regs})' : \A g \in Waiting' : g < f => g <= parn'[f]
    BY <2>1, <2>2 DEF PathInv
  <2>5. \A g \in Waiting' : g <= regs'
    BY <2>1, <2>2 DEF PathInv
  <2> QED
    BY <2>3, <2>4, <2>5 DEF PathInv
<1>2. CASE ArgDone
  <2>1. regs' = regs /\ parn' = parn /\ Waiting' = Waiting \ {regs}
    BY <1>2 DEF ArgDone, Continue, Waiting
  <2>2. \A f \in Waiting \cup {regs} : parn[f] # regs
    BY DEF PathInv
  <2> QED
    BY <2>1, <2>2 DEF PathInv
<1>3. CASE Return
  <2>1. parn[regs] \in Waiting /\ regs \notin Waiting
    BY <1>3 DEF Return, GoToParent, PathInv
  <2>2. regs' = parn[regs] /\ parn' = parn
    BY <1>3 DEF Return, GoToParent
  <2>3. Waiting \ {parn[regs]} \subseteq Waiting' /\ Waiting' \subseteq Waiting
    BY <1>3, <2>1 DEF Return, GoToParent, Entering, Waiting
  <2>4. \A g \in Waiting : g <= parn[regs]
    BY <2>1 DEF PathInv
  <2>5. \A f \in Waiting : parn[f] # parn[regs]
    BY <2>1, <2>4
  <2> QED
    BY <2>1, <2>2, <2>3, <2>4, <2>5 DEF PathInv
<1>4. CASE RunEval
  <2>1. Waiting = {}
    <3>1. parn[regs] = 0 /\ regs \notin Waiting
      BY <1>4 DEF RunEval, RunEvalUnder, HostInv, Waiting
    <3>2. \A g \in Waiting : g < regs /\ g <= 0 /\ g \in Frames
      BY <3>1 DEF PathInv
    <3> QED
      BY <3>2, FrameSets
  <2>2. Waiting' = {}
    BY <1>4, <2>1 DEF RunEval, RunEvalUnder, Waiting
  <2>3. regs' = regs /\ parn'[regs] = 0
    BY <1>4 DEF RunEval, RunEvalUnder
  <2> QED
    BY <2>2, <2>3 DEF PathInv
<1>5. CASE Catch \/ HoldContinuation \/ Finish \/ HoldException \/ UNCHANGED vars
  <2>1. regs' = regs /\ \A f \in Made : parn'[f] = parn[f]
    BY <1>5 DEF Catch, CatchUnder, HoldContinuation, MakeFrame, Finish,
                HoldException, vars
  <2>2. Waiting' = Waiting
    <3>1. made < MaxFrames => pc[fresh] = "free"
      BY DEF Shape, Unmade
    <3> QED
      BY <1>5, <3>1 DEF Catch, CatchUnder, HoldContinuation, MakeFrame, Finish,
                        HoldException, vars, Waiting
  <2> QED
    BY <2>1, <2>2 DEF PathInv
<1>6. CASE Throw \/ \E f \in held : Assume(f)
  BY <1>6 DEF Throw, Assume, Plain
<1> QED
  BY <1>1, <1>2, <1>3, <1>4, <1>5, <1>6 DEF Next

\* In a plain program the frame that has just been entered is the one whose
\* entry is on top.
LEMMA TopIsOwn ==
    ASSUME Shape, PathInv, OrderedInv, pc[regs] = "arg"
    PROVE  stack # <<>> /\ stack[Len(stack)] = regs
<1>1. stack \in Seq(Frames) /\ regs \in Owing
  BY ShapeFacts DEF Owing
<1>2. PICK i \in 1 .. Len(stack) : stack[i] = regs
  BY <1>1 DEF OrderedInv, Owing
<1>3. Len(stack) \in 1 .. Len(stack) /\ stack[Len(stack)] \in Frames
  BY <1>1, <1>2
<1>4. stack[Len(stack)] \in Owing
  BY <1>3 DEF OrderedInv
<1>5. stack[Len(stack)] <= regs /\ stack[Len(stack)] \in Nat
  BY <1>4, WaitingMade DEF PathInv
<1>6. i < Len(stack) => regs < stack[Len(stack)]
  BY <1>2, <1>3 DEF OrderedInv
<1> QED
  BY <1>2, <1>3, <1>5, <1>6, Numbers

LEMMA NextOrdered ==
    ASSUME HostLayer, PathInv, OrderedInv, [Next]_vars
    PROVE  OrderedInv'
<1> USE DEF HostLayer
<1>0. stack \in Seq(Frames) /\ Len(stack) \in Nat
  BY ShapeFacts
<1>1. CASE SnapArg /\ regs \notin Owing /\ Owing' = Owing \cup {regs}
  <2>1. /\ stack' = Append(stack, regs) /\ Len(stack') = Len(stack) + 1
        /\ \A i \in 1 .. Len(stack) : stack'[i] = stack[i]
        /\ stack'[Len(stack) + 1] = regs
    BY <1>0, <1>1, ShapeFacts DEF SnapArg, Snap
  <2>2. \A i \in 1 .. Len(stack) : stack[i] < regs
    <3>1. \A i \in 1 .. Len(stack) : stack[i] \in Owing
      BY <1>0 DEF OrderedInv
    <3> QED
      BY <1>1, <3>1, WaitingMade, Numbers DEF PathInv
  <2> QED
    BY <1>0, <1>1, <2>1, <2>2, ShapeFacts DEF OrderedInv
<1>2. CASE ArgDone /\ regs \in Owing /\ Owing' = Owing \ {regs}
  <2>1. stack # <<>> /\ stack' = SubSeq(stack, 1, Len(stack) - 1)
    BY <1>2 DEF ArgDone, Continue
  <2>2. /\ Len(stack') = Len(stack) - 1
        /\ \A i \in 1 .. Len(stack) - 1 : stack'[i] = stack[i]
    BY <1>0, <2>1, PopFact
  <2>3. stack[Len(stack)] = regs /\ Len(stack) \in 1 .. Len(stack)
    BY <1>0, <1>2, <2>1, TopIsOwn DEF ArgDone, Continue
  <2>4. \A i \in 1 .. Len(stack) - 1 : stack[i] # regs
    <3>1. \A i \in 1 .. Len(stack) - 1 : stack[i] < stack[Len(stack)]
      BY <1>0, <2>3 DEF OrderedInv
    <3> QED
      BY <2>3, <3>1, Numbers
  <2> QED
    BY <1>0, <1>2, <2>2, <2>3, <2>4 DEF OrderedInv
<1>3. CASE Owing' = Owing /\ stack' = stack
  BY <1>3 DEF OrderedInv
<1> QED
  BY <1>1, <1>2, <1>3, OwingSteps

LEMMA NextNest == NestLayer /\ [Next]_vars => NestLayer'
<1> SUFFICES ASSUME NestLayer, [Next]_vars, Plain' PROVE PathInv' /\ OrderedInv'
  BY NextHost DEF NestLayer
<1>1. Plain
  BY DEF Plain, Next, vars, RunEval, RunEvalUnder, SnapArg, Snap, SnapSub,
         ArgDone, Continue, Return, GoToParent, Finish, Catch, CatchUnder,
         Throw, HoldException, HoldContinuation, Assume
<1> QED
  BY <1>1, NextPath, NextOrdered DEF NestLayer

\* While nothing has been thrown and no frame resumed, every frame pops the
\* very entry it pushed.
THEOREM PlainProgramsNest == Spec => []NestedPops
<1>1. NestLayer => NestedPops
  BY TopIsOwn DEF NestLayer, HostLayer, Plain, NestedPops
<1> QED
  BY InitNest, NextNest, <1>1, PTL DEF Spec
=============================================================================
