---------------------------- MODULE ViaControlProofs ----------------------------
(***************************************************************************)
(* Proofs about ViaControl: the machine's registers stay what they are for, *)
(* its data stack holds what waiting frames have saved there, and its       *)
(* frames do what CallFrames says, until a program assumes a frame it has   *)
(* held.  The invariant is ControlInv; MachineSound is what it says of the  *)
(* machine, and what it says of the frames is that of CallFramesProofs and  *)
(* HandlerProofs.                                                           *)
(***************************************************************************)
EXTENDS ViaControl, SequenceTheorems, WellFoundedInduction, TLAPS

\* CallFrames and what is proved of it.
P == INSTANCE HandlerProofs WITH
    made <- Len(frames), parn <- Parents, exh <- Handlers, pc <- Stands,
    stack <- owners

Good(v, n) == \E V : v \in V /\ WellFormed(V, n)

LEMMA GoodParts ==
    ASSUME NEW v, NEW n, Good(v, n)
    PROVE  /\ ~Is("builtin", v)
           /\ Is("pair", v) => Good(v[2], n) /\ Good(v[3], n)
           /\ Is("proc", v) =>
                 /\ Good(v[2], n) \/ v[2] \in {Builtin(r) : r \in ProcedureNames}
                 /\ v[4] \in 1 .. n
           /\ Is("form", v) => Good(v[3], n) /\ v[4] \in FormNames
<1>1. PICK V : v \in V /\ WellFormed(V, n)
  BY DEF Good
<1> QED
  BY <1>1 DEF Good, WellFormed

LEMMA GoodAtom ==
    ASSUME NEW v, NEW n, v[1] \notin {"builtin", "pair", "proc", "form"}
    PROVE  Good(v, n)
<1>1. WellFormed({v}, n)
  BY DEF WellFormed, Is
<1> QED
  BY <1>1 DEF Good

LEMMA GoodPair ==
    ASSUME NEW a, NEW d, NEW n, Good(a, n), Good(d, n)
    PROVE  Good(Pair(a, d), n)
<1>1. PICK A : a \in A /\ WellFormed(A, n)
  BY DEF Good
<1>2. PICK D : d \in D /\ WellFormed(D, n)
  BY DEF Good
<1>3. Pair(a, d)[1] = "pair" /\ Pair(a, d)[2] = a /\ Pair(a, d)[3] = d
  BY DEF Pair
<1>4. WellFormed({Pair(a, d)} \cup A \cup D, n)
  BY <1>1, <1>2, <1>3 DEF WellFormed, Is
<1> QED
  BY <1>4 DEF Good

LEMMA GoodProc ==
    ASSUME NEW body, NEW formals, NEW n, NEW e \in 1 .. n, Good(body, n)
    PROVE  Good(Proc(body, formals, e), n)
<1>1. PICK B : body \in B /\ WellFormed(B, n)
  BY DEF Good
<1> DEFINE v == Proc(body, formals, e)
<1>2. v[1] = "proc" /\ v[2] = body /\ v[4] = e
  BY DEF Proc
<1>3. WellFormed({v} \cup B, n)
  BY <1>1, <1>2 DEF WellFormed, Is
<1> QED
  BY <1>3 DEF Good

LEMMA GoodForm ==
    ASSUME NEW formals, NEW body, NEW n, NEW r \in FormNames, Good(body, n)
    PROVE  Good(Form(formals, body, r), n)
<1>1. PICK B : body \in B /\ WellFormed(B, n)
  BY DEF Good
<1> DEFINE v == Form(formals, body, r)
<1>2. v[1] = "form" /\ v[3] = body /\ v[4] = r
  BY DEF Form
<1>3. WellFormed({v} \cup B, n)
  BY <1>1, <1>2 DEF WellFormed, Is
<1> QED
  BY <1>3 DEF Good

LEMMA GoodLater ==
    ASSUME NEW v, NEW n \in Nat, NEW m \in Nat, n <= m, Good(v, n)
    PROVE  Good(v, m)
<1>1. PICK V : v \in V /\ WellFormed(V, n)
  BY DEF Good
<1>2. 1 .. n \subseteq 1 .. m
  OBVIOUS
<1>3. WellFormed(V, m)
  BY <1>1, <1>2 DEF WellFormed
<1> QED
  BY <1>1, <1>3 DEF Good

\* The values that are nothing but themselves.
LEMMA GoodConstants ==
    ASSUME NEW n
    PROVE  /\ Good(Nil, n) /\ Good(<<"undefined">>, n)
           /\ \A x : /\ Good(Frame(x), n) /\ Good(Exception(x), n)
                     /\ Good(Truth(x), n) /\ Good(Num(x), n) /\ Good(Sym(x), n)
                     /\ Good(<<"env", x>>, n)
<1>1. Nil[1] = "nil" /\ <<"undefined">>[1] = "undefined"
  BY DEF Nil
<1>2. \A x : /\ Frame(x)[1] = "frame" /\ Exception(x)[1] = "exception"
             /\ Truth(x)[1] = "bool" /\ Num(x)[1] = "int" /\ Sym(x)[1] = "sym"
             /\ <<"env", x>>[1] = "env"
  BY DEF Frame, Exception, Truth, Num, Sym
<1> QED
  BY <1>1, <1>2, GoodAtom

\* Induction on the natural numbers, over a set.
LEMMA Counting ==
    ASSUME NEW S, 0 \in S, \A k \in Nat : k \in S => k + 1 \in S
    PROVE  \A k \in Nat : k \in S
<1> DEFINE T == {k \in Nat : k \notin S}
<1> SUFFICES ASSUME T # {} PROVE FALSE
  OBVIOUS
<1>1. PICK x \in T : \A y \in T : x <= y
  <2>1. T \subseteq Nat
    OBVIOUS
  <2> HIDE DEF T
  <2> QED
    BY <2>1, P!Smallest, MachineAssumption
<1>2. x # 0 /\ x \in Nat /\ x - 1 \in Nat /\ ~(x <= x - 1)
  BY <1>1
<1>3. x - 1 \notin T
  BY <1>1, <1>2
<1>4. x \in S
  BY <1>2, <1>3
<1> QED
  BY <1>1, <1>4

LEMMA Bounds == MaxLength \in Nat \ {0} /\ MaxDepth \in Nat \ {0}
  BY DEF MaxLength, MaxDepth

Rest(x) == IF Is("pair", x) THEN x[3] ELSE x

\* Tails.
TailsStep(v, n, before) ==
    Rest(before)

TailsTo(v, t, m) ==
    t = [n \in 0 .. m |-> IF n = 0 THEN v ELSE TailsStep(v, n, t[n - 1])]

LEMMA TailsToRule ==
    ASSUME NEW v, NEW m \in Nat, NEW t
    PROVE  TailsTo(v, t, m) <=>
              /\ t = [n \in 0 .. m |-> t[n]]
              /\ t[0] = v
              /\ \A n \in 1 .. m : t[n] = TailsStep(v, n, t[n - 1])
<1> DEFINE G(n) == IF n = 0 THEN v ELSE TailsStep(v, n, t[n - 1])
<1>1. TailsTo(v, t, m) <=> t = [n \in 0 .. m |-> G(n)]
  BY DEF TailsTo
<1> QED
  BY <1>1

LEMMA TailsExist ==
    ASSUME NEW v
    PROVE  \A m \in Nat : \E t : TailsTo(v, t, m)
<1> DEFINE S == {m \in Nat : \E t : TailsTo(v, t, m)}
<1>1. 0 \in S
  <2>1. TailsTo(v, [n \in 0 .. 0 |-> v], 0)
    BY DEF TailsTo
  <2> QED
    BY <2>1
<1>2. ASSUME NEW k \in Nat, k \in S PROVE k + 1 \in S
  <2>1. PICK t : TailsTo(v, t, k)
    BY <1>2
  <2>2. PICK y : y = TailsStep(v, k + 1, t[k])
    OBVIOUS
  <2>3. PICK u : u = [n \in 0 .. k + 1 |-> IF n = k + 1 THEN y ELSE t[n]]
    OBVIOUS
  <2>4. /\ k + 1 \in Nat /\ u = [n \in 0 .. k + 1 |-> u[n]] /\ u[k + 1] = y
        /\ \A n \in 0 .. k : u[n] = t[n]
    BY <2>3
  <2>5. t[0] = v /\ \A n \in 1 .. k : t[n] = TailsStep(v, n, t[n - 1])
    BY <2>1, TailsToRule
  <2>6. ASSUME NEW n \in 1 .. k + 1
        PROVE  u[n] = TailsStep(v, n, u[n - 1])
    <3>1. u[n - 1] = t[n - 1]
      BY <2>4
    <3>2. CASE n = k + 1
      BY <2>2, <2>4, <3>1, <3>2
    <3>3. CASE n # k + 1
      <4>1. n \in 1 .. k /\ n \in 0 .. k
        BY <3>3
      <4> QED
        BY <2>4, <2>5, <3>1, <4>1
    <3> QED
      BY <3>2, <3>3
  <2>7. u[0] = v
    <3>1. 0 \in 0 .. k
      OBVIOUS
    <3> QED
      BY <2>4, <2>5, <3>1
  <2>8. TailsTo(v, u, k + 1)
    BY <2>4, <2>6, <2>7, TailsToRule
  <2> QED
    BY <2>4, <2>8
<1> HIDE DEF S
<1>3. \A m \in Nat : m \in S
  BY <1>1, <1>2, Counting
<1> QED
  BY <1>3 DEF S

LEMMA TailsRule ==
    ASSUME NEW v
    PROVE  /\ Tails(v)[0] = v
           /\ \A n \in 1 .. MaxLength : Tails(v)[n] = Rest(Tails(v)[n - 1])
<1>1. Tails(v) = CHOOSE t : TailsTo(v, t, MaxLength)
  BY DEF Tails, TailsTo, TailsStep, Rest
<1>2. TailsTo(v, Tails(v), MaxLength)
  BY <1>1, TailsExist, Bounds
<1>3. MaxLength \in Nat
  BY Bounds
<1>4. \A n \in 1 .. MaxLength :
         Tails(v)[n] = TailsStep(v, n, Tails(v)[n - 1])
  BY <1>2, <1>3, TailsToRule
<1>5. Tails(v)[0] = v
  BY <1>2, <1>3, TailsToRule
<1> QED
  BY <1>4, <1>5 DEF TailsStep

LEMMA GoodTails ==
    ASSUME NEW v, NEW n, Good(v, n)
    PROVE  \A i \in 0 .. MaxLength : Good(Tails(v)[i], n)
<1> DEFINE S == {i \in Nat : i <= MaxLength => Good(Tails(v)[i], n)}
<1>1. 0 \in S
  BY TailsRule
<1>2. ASSUME NEW k \in Nat, k \in S PROVE k + 1 \in S
  <2>1. CASE k + 1 <= MaxLength
    <3>1. k + 1 \in 1 .. MaxLength /\ k <= MaxLength /\ (k + 1) - 1 = k
      BY <2>1, Bounds
    <3>2. Tails(v)[k + 1] = Rest(Tails(v)[k])
      BY <3>1, TailsRule
    <3>3. Good(Tails(v)[k], n)
      BY <1>2, <3>1
    <3> QED
      BY <3>2, <3>3, GoodParts DEF Rest
  <2> QED
    BY <2>1
<1> HIDE DEF S
<1>3. \A m \in Nat : m \in S
  BY <1>1, <1>2, Counting
<1> QED
  BY <1>3, Bounds DEF S

LEMMA GoodElement ==
    ASSUME NEW v, NEW n, Good(v, n), NEW i \in 1 .. MaxLength,
           Is("pair", Tails(v)[i - 1])
    PROVE  Good(Element(v, i), n)
<1>1. i - 1 \in 0 .. MaxLength
  BY Bounds
<1> QED
  BY <1>1, GoodTails, GoodParts DEF Element

LEMMA LengthRule ==
    ASSUME NEW v, IsList(v)
    PROVE  /\ Length(v) \in 0 .. MaxLength
           /\ \A i \in 0 .. Length(v) - 1 : Is("pair", Tails(v)[i])
           /\ Tails(v)[Length(v)] = Nil
<1>1. \E n \in 0 .. MaxLength : IsListOf(n, v)
  BY DEF IsList
<1>2. Length(v) \in 0 .. MaxLength /\ IsListOf(Length(v), v)
  BY <1>1 DEF Length
<1> QED
  BY <1>2 DEF IsListOf, IsListFrom

\* Reversed.
TurnedStep(list, n, before) ==
    Pair(Element(list, n), before)

TurnedTo(list, t, m) ==
    t = [n \in 0 .. m |-> IF n = 0 THEN Nil ELSE TurnedStep(list, n, t[n - 1])]

LEMMA TurnedToRule ==
    ASSUME NEW list, NEW m \in Nat, NEW t
    PROVE  TurnedTo(list, t, m) <=>
              /\ t = [n \in 0 .. m |-> t[n]]
              /\ t[0] = Nil
              /\ \A n \in 1 .. m : t[n] = TurnedStep(list, n, t[n - 1])
<1> DEFINE G(n) == IF n = 0 THEN Nil ELSE TurnedStep(list, n, t[n - 1])
<1>1. TurnedTo(list, t, m) <=> t = [n \in 0 .. m |-> G(n)]
  BY DEF TurnedTo
<1> QED
  BY <1>1

LEMMA TurnedExist ==
    ASSUME NEW list
    PROVE  \A m \in Nat : \E t : TurnedTo(list, t, m)
<1> DEFINE S == {m \in Nat : \E t : TurnedTo(list, t, m)}
<1>1. 0 \in S
  <2>1. TurnedTo(list, [n \in 0 .. 0 |-> Nil], 0)
    BY DEF TurnedTo
  <2> QED
    BY <2>1
<1>2. ASSUME NEW k \in Nat, k \in S PROVE k + 1 \in S
  <2>1. PICK t : TurnedTo(list, t, k)
    BY <1>2
  <2>2. PICK y : y = TurnedStep(list, k + 1, t[k])
    OBVIOUS
  <2>3. PICK u : u = [n \in 0 .. k + 1 |-> IF n = k + 1 THEN y ELSE t[n]]
    OBVIOUS
  <2>4. /\ k + 1 \in Nat /\ u = [n \in 0 .. k + 1 |-> u[n]] /\ u[k + 1] = y
        /\ \A n \in 0 .. k : u[n] = t[n]
    BY <2>3
  <2>5. t[0] = Nil /\ \A n \in 1 .. k : t[n] = TurnedStep(list, n, t[n - 1])
    BY <2>1, TurnedToRule
  <2>6. ASSUME NEW n \in 1 .. k + 1
        PROVE  u[n] = TurnedStep(list, n, u[n - 1])
    <3>1. u[n - 1] = t[n - 1]
      BY <2>4
    <3>2. CASE n = k + 1
      BY <2>2, <2>4, <3>1, <3>2
    <3>3. CASE n # k + 1
      <4>1. n \in 1 .. k /\ n \in 0 .. k
        BY <3>3
      <4> QED
        BY <2>4, <2>5, <3>1, <4>1
    <3> QED
      BY <3>2, <3>3
  <2>7. u[0] = Nil
    <3>1. 0 \in 0 .. k
      OBVIOUS
    <3> QED
      BY <2>4, <2>5, <3>1
  <2>8. TurnedTo(list, u, k + 1)
    BY <2>4, <2>6, <2>7, TurnedToRule
  <2> QED
    BY <2>4, <2>8
<1> HIDE DEF S
<1>3. \A m \in Nat : m \in S
  BY <1>1, <1>2, Counting
<1> QED
  BY <1>3 DEF S

LEMMA GoodReversed ==
    ASSUME NEW list, NEW n, IsList(list), Good(list, n)
    PROVE  Good(Reversed(list), n)
<1> DEFINE t == CHOOSE u : TurnedTo(list, u, MaxLength)
<1>1. Reversed(list) = t[Length(list)]
  BY DEF Reversed, TurnedTo, TurnedStep
<1>2. TurnedTo(list, t, MaxLength)
  BY TurnedExist, Bounds
<1> HIDE DEF t
<1>3. t[0] = Nil /\ \A i \in 1 .. MaxLength : t[i] = Pair(Element(list, i), t[i - 1])
  <2>1. MaxLength \in Nat
    BY Bounds
  <2>2. t[0] = Nil /\ \A i \in 1 .. MaxLength : t[i] = TurnedStep(list, i, t[i - 1])
    BY <1>2, <2>1, TurnedToRule
  <2> QED
    BY <2>2 DEF TurnedStep
<1> DEFINE S == {i \in Nat : i <= Length(list) => Good(t[i], n)}
<1>4. 0 \in S
  BY <1>3, GoodConstants
<1>5. ASSUME NEW k \in Nat, k \in S PROVE k + 1 \in S
  <2>1. CASE k + 1 <= Length(list)
    <3>1. k + 1 \in 1 .. MaxLength /\ k <= Length(list) /\ (k + 1) - 1 = k
          /\ k \in 0 .. Length(list) - 1
      BY <2>1, LengthRule, Bounds
    <3>2. Good(Element(list, k + 1), n)
      BY <3>1, LengthRule, GoodElement
    <3>3. t[k + 1] = Pair(Element(list, k + 1), t[k])
      BY <1>3, <3>1
    <3> QED
      BY <1>5, <3>1, <3>2, <3>3, GoodPair
  <2> QED
    BY <2>1
<1> HIDE DEF S
<1>6. \A i \in Nat : i \in S
  BY <1>4, <1>5, Counting
<1>7. Length(list) \in Nat /\ Length(list) <= Length(list)
  BY LengthRule, Bounds
<1> QED
  BY <1>1, <1>6, <1>7 DEF S

\* Replaced.
RebuiltBase(symbol, by, parts) ==
    [t \in parts |-> IF Is("sym", t) /\ t = symbol THEN by ELSE t]

RebuiltStep(parts, n, before) ==
    [t \in parts |->
        IF Is("pair", t) /\ {t[2], t[3]} \subseteq parts
        THEN Pair(before[t[2]], before[t[3]]) ELSE before[t]]

RebuiltTo(base, parts, t, m) ==
    t = [n \in 0 .. m |-> IF n = 0 THEN base ELSE RebuiltStep(parts, n, t[n - 1])]

LEMMA RebuiltToRule ==
    ASSUME NEW base, NEW parts, NEW m \in Nat, NEW t
    PROVE  RebuiltTo(base, parts, t, m) <=>
              /\ t = [n \in 0 .. m |-> t[n]]
              /\ t[0] = base
              /\ \A n \in 1 .. m : t[n] = RebuiltStep(parts, n, t[n - 1])
<1> DEFINE G(n) == IF n = 0 THEN base ELSE RebuiltStep(parts, n, t[n - 1])
<1>1. RebuiltTo(base, parts, t, m) <=> t = [n \in 0 .. m |-> G(n)]
  BY DEF RebuiltTo
<1> QED
  BY <1>1

LEMMA RebuiltExist ==
    ASSUME NEW base, NEW parts
    PROVE  \A m \in Nat : \E t : RebuiltTo(base, parts, t, m)
<1> DEFINE S == {m \in Nat : \E t : RebuiltTo(base, parts, t, m)}
<1>1. 0 \in S
  <2>1. RebuiltTo(base, parts, [n \in 0 .. 0 |-> base], 0)
    BY DEF RebuiltTo
  <2> QED
    BY <2>1
<1>2. ASSUME NEW k \in Nat, k \in S PROVE k + 1 \in S
  <2>1. PICK t : RebuiltTo(base, parts, t, k)
    BY <1>2
  <2>2. PICK y : y = RebuiltStep(parts, k + 1, t[k])
    OBVIOUS
  <2>3. PICK u : u = [n \in 0 .. k + 1 |-> IF n = k + 1 THEN y ELSE t[n]]
    OBVIOUS
  <2>4. /\ k + 1 \in Nat /\ u = [n \in 0 .. k + 1 |-> u[n]] /\ u[k + 1] = y
        /\ \A n \in 0 .. k : u[n] = t[n]
    BY <2>3
  <2>5. t[0] = base /\ \A n \in 1 .. k : t[n] = RebuiltStep(parts, n, t[n - 1])
    BY <2>1, RebuiltToRule
  <2>6. ASSUME NEW n \in 1 .. k + 1
        PROVE  u[n] = RebuiltStep(parts, n, u[n - 1])
    <3>1. u[n - 1] = t[n - 1]
      BY <2>4
    <3>2. CASE n = k + 1
      BY <2>2, <2>4, <3>1, <3>2
    <3>3. CASE n # k + 1
      <4>1. n \in 1 .. k /\ n \in 0 .. k
        BY <3>3
      <4> QED
        BY <2>4, <2>5, <3>1, <4>1
    <3> QED
      BY <3>2, <3>3
  <2>7. u[0] = base
    <3>1. 0 \in 0 .. k
      OBVIOUS
    <3> QED
      BY <2>4, <2>5, <3>1
  <2>8. RebuiltTo(base, parts, u, k + 1)
    BY <2>4, <2>6, <2>7, RebuiltToRule
  <2> QED
    BY <2>4, <2>8
<1> HIDE DEF S
<1>3. \A m \in Nat : m \in S
  BY <1>1, <1>2, Counting
<1> QED
  BY <1>3 DEF S

LEMMA GoodReplaced ==
    ASSUME NEW symbol, NEW by, NEW v, NEW n, Good(by, n), Good(v, n)
    PROVE  Good(Replaced(symbol, by, v), n)
<1> DEFINE parts == Parts(v) \cup {v}
           t == CHOOSE u : RebuiltTo(RebuiltBase(symbol, by, parts), parts, u, MaxDepth)
<1>1. Replaced(symbol, by, v) = t[MaxDepth][v]
  BY DEF Replaced, RebuiltTo, RebuiltStep, RebuiltBase
<1>2. RebuiltTo(RebuiltBase(symbol, by, parts), parts, t, MaxDepth)
  BY RebuiltExist, Bounds
<1>3. v \in parts
  OBVIOUS
<1> HIDE DEF t, parts
<1>4. /\ t[0] = RebuiltBase(symbol, by, parts)
      /\ \A i \in 1 .. MaxDepth : t[i] = RebuiltStep(parts, i, t[i - 1])
  <2>1. MaxDepth \in Nat
    BY Bounds
  <2> QED
    BY <1>2, <2>1, RebuiltToRule
<1> DEFINE S == {i \in Nat : i <= MaxDepth =>
                     \A p \in parts : Good(p, n) => Good(t[i][p], n)}
<1>5. 0 \in S
  BY <1>4 DEF RebuiltBase
<1>6. ASSUME NEW k \in Nat, k \in S PROVE k + 1 \in S
  <2>1. SUFFICES ASSUME k + 1 <= MaxDepth, NEW p \in parts, Good(p, n)
                 PROVE  Good(t[k + 1][p], n)
    OBVIOUS
  <2>2. k + 1 \in 1 .. MaxDepth /\ k <= MaxDepth /\ (k + 1) - 1 = k
    BY <2>1, Bounds
  <2>3. \A q \in parts : Good(q, n) => Good(t[k][q], n)
    BY <1>6, <2>2
  <2>4. t[k + 1] = RebuiltStep(parts, k + 1, t[k])
    BY <1>4, <2>2
  <2>5. CASE Is("pair", p) /\ {p[2], p[3]} \subseteq parts
    <3>1. Good(t[k][p[2]], n) /\ Good(t[k][p[3]], n)
      BY <2>1, <2>3, <2>5, GoodParts
    <3>2. t[k + 1][p] = Pair(t[k][p[2]], t[k][p[3]])
      BY <2>4, <2>5 DEF RebuiltStep
    <3> QED
      BY <3>1, <3>2, GoodPair
  <2>6. CASE ~(Is("pair", p) /\ {p[2], p[3]} \subseteq parts)
    <3>1. t[k + 1][p] = t[k][p]
      BY <2>4, <2>6 DEF RebuiltStep
    <3> QED
      BY <2>1, <2>3, <3>1
  <2> QED
    BY <2>5, <2>6
<1> HIDE DEF S
<1>7. \A i \in Nat : i \in S
  BY <1>5, <1>6, Counting
<1> QED
  BY <1>1, <1>3, <1>7, Bounds DEF S

\* Expanded.
GivenStep(formals, operands, body, n, before) ==
    LET rest == Tails(operands)[n - 1]
    IN  IF ~Is("pair", rest) THEN before
        ELSE Replaced(Element(formals, n), Share(rest, n = Length(formals)), before)

GivenTo(formals, operands, body, t, m) ==
    t = [n \in 0 .. m |->
            IF n = 0 THEN body
            ELSE GivenStep(formals, operands, body, n, t[n - 1])]

LEMMA GivenToRule ==
    ASSUME NEW formals, NEW operands, NEW body, NEW m \in Nat, NEW t
    PROVE  GivenTo(formals, operands, body, t, m) <=>
              /\ t = [n \in 0 .. m |-> t[n]]
              /\ t[0] = body
              /\ \A n \in 1 .. m : t[n] = GivenStep(formals, operands, body, n, t[n - 1])
<1> DEFINE G(n) == IF n = 0 THEN body ELSE GivenStep(formals, operands, body, n, t[n - 1])
<1>1. GivenTo(formals, operands, body, t, m) <=> t = [n \in 0 .. m |-> G(n)]
  BY DEF GivenTo
<1> QED
  BY <1>1

LEMMA GivenExist ==
    ASSUME NEW formals, NEW operands, NEW body
    PROVE  \A m \in Nat : \E t : GivenTo(formals, operands, body, t, m)
<1> DEFINE S == {m \in Nat : \E t : GivenTo(formals, operands, body, t, m)}
<1>1. 0 \in S
  <2>1. GivenTo(formals, operands, body, [n \in 0 .. 0 |-> body], 0)
    BY DEF GivenTo
  <2> QED
    BY <2>1
<1>2. ASSUME NEW k \in Nat, k \in S PROVE k + 1 \in S
  <2>1. PICK t : GivenTo(formals, operands, body, t, k)
    BY <1>2
  <2>2. PICK y : y = GivenStep(formals, operands, body, k + 1, t[k])
    OBVIOUS
  <2>3. PICK u : u = [n \in 0 .. k + 1 |-> IF n = k + 1 THEN y ELSE t[n]]
    OBVIOUS
  <2>4. /\ k + 1 \in Nat /\ u = [n \in 0 .. k + 1 |-> u[n]] /\ u[k + 1] = y
        /\ \A n \in 0 .. k : u[n] = t[n]
    BY <2>3
  <2>5. /\ t[0] = body
        /\ \A n \in 1 .. k :
              t[n] = GivenStep(formals, operands, body, n, t[n - 1])
    BY <2>1, GivenToRule
  <2>6. ASSUME NEW n \in 1 .. k + 1
        PROVE  u[n] = GivenStep(formals, operands, body, n, u[n - 1])
    <3>1. u[n - 1] = t[n - 1]
      BY <2>4
    <3>2. CASE n = k + 1
      BY <2>2, <2>4, <3>1, <3>2
    <3>3. CASE n # k + 1
      <4>1. n \in 1 .. k /\ n \in 0 .. k
        BY <3>3
      <4> QED
        BY <2>4, <2>5, <3>1, <4>1
    <3> QED
      BY <3>2, <3>3
  <2>7. u[0] = body
    <3>1. 0 \in 0 .. k
      OBVIOUS
    <3> QED
      BY <2>4, <2>5, <3>1
  <2>8. GivenTo(formals, operands, body, u, k + 1)
    BY <2>4, <2>6, <2>7, GivenToRule
  <2> QED
    BY <2>4, <2>8
<1> HIDE DEF S
<1>3. \A m \in Nat : m \in S
  BY <1>1, <1>2, Counting
<1> QED
  BY <1>3 DEF S

LEMMA GoodShare ==
    ASSUME NEW v, NEW n, NEW last, Good(v, n), Is("pair", v)
    PROVE  Good(Share(v, last), n)
  BY GoodParts DEF Share

LEMMA GoodExpanded ==
    ASSUME NEW formals, NEW operands, NEW body, NEW n,
           IsList(formals), Good(operands, n), Good(body, n)
    PROVE  Good(Expanded(formals, operands, body), n)
<1> DEFINE t == CHOOSE u : GivenTo(formals, operands, body, u, MaxLength)
<1>1. Expanded(formals, operands, body) = t[Length(formals)]
  BY DEF Expanded, GivenTo, GivenStep
<1>2. GivenTo(formals, operands, body, t, MaxLength)
  BY GivenExist, Bounds
<1> HIDE DEF t
<1>3. /\ t[0] = body
      /\ \A i \in 1 .. MaxLength :
            t[i] = GivenStep(formals, operands, body, i, t[i - 1])
  <2>1. MaxLength \in Nat
    BY Bounds
  <2> QED
    BY <1>2, <2>1, GivenToRule
<1> DEFINE S == {i \in Nat : i <= MaxLength => Good(t[i], n)}
<1>4. 0 \in S
  BY <1>3
<1>5. ASSUME NEW k \in Nat, k \in S PROVE k + 1 \in S
  <2>1. SUFFICES ASSUME k + 1 <= MaxLength PROVE Good(t[k + 1], n)
    OBVIOUS
  <2>2. k + 1 \in 1 .. MaxLength /\ k \in 0 .. MaxLength /\ (k + 1) - 1 = k
    BY <2>1, Bounds
  <2>3. Good(t[k], n)
    BY <1>5, <2>2
  <2>4. t[k + 1] = GivenStep(formals, operands, body, k + 1, t[k])
    BY <1>3, <2>2
  <2>5. Good(Tails(operands)[k], n)
    BY <2>2, GoodTails
  <2>6. CASE ~Is("pair", Tails(operands)[k])
    BY <2>2, <2>3, <2>4, <2>6 DEF GivenStep
  <2>7. CASE Is("pair", Tails(operands)[k])
    <3> DEFINE by == Share(Tails(operands)[k], k + 1 = Length(formals))
    <3>1. t[k + 1] = Replaced(Element(formals, k + 1), by, t[k])
      BY <2>2, <2>4, <2>7 DEF GivenStep
    <3>2. Good(by, n)
      BY <2>5, <2>7, GoodShare
    <3> HIDE DEF by
    <3> QED
      BY <2>3, <3>1, <3>2, GoodReplaced
  <2> QED
    BY <2>6, <2>7
<1> HIDE DEF S
<1>6. \A i \in Nat : i \in S
  BY <1>4, <1>5, Counting
<1>7. Length(formals) \in Nat /\ Length(formals) <= MaxLength
  BY LengthRule, Bounds
<1> QED
  BY <1>1, <1>6, <1>7 DEF S

-----------------------------------------------------------------------------
(* What via_apply binds. *)

LEMMA GoodBindings ==
    ASSUME NEW formals, NEW args, NEW n, IsList(formals), Good(args, n)
    PROVE  \A s \in DOMAIN Bindings(formals, args) :
               Good(Bindings(formals, args)[s], n)
<1> DEFINE count == Length(formals)
           Name(i) == Element(formals, i)[2]
           Value(i) == LET rest == Tails(args)[i - 1]
                       IN  IF Is("pair", rest) THEN Share(rest, i = count) ELSE Nil
           Last(s) == CHOOSE i \in 1 .. count :
                         Name(i) = s /\ \A j \in i + 1 .. count : Name(j) # s
           Symbols == {Name(i) : i \in 1 .. count}
<1>1. Bindings(formals, args) = [s \in Symbols |-> Value(Last(s))]
  BY DEF Bindings
<1>2. count \in Nat /\ count <= MaxLength
  BY LengthRule, Bounds
<1>3. ASSUME NEW s \in Symbols PROVE Last(s) \in 1 .. count
  <2> DEFINE T == {count - i : i \in {j \in 1 .. count : Name(j) = s}}
  <2> HIDE DEF count, Name
  <2>1. T \subseteq Nat /\ T # {}
    BY <1>2, <1>3
  <2>2. PICK x \in T : \A y \in T : x <= y
    <3> HIDE DEF T
    <3> QED
      BY <2>1, P!Smallest, MachineAssumption
  <2>3. PICK i \in 1 .. count : Name(i) = s /\ x = count - i
    BY <2>2
  <2>4. ASSUME NEW j \in i + 1 .. count, Name(j) = s PROVE FALSE
    <3>1. j \in 1 .. count /\ count - j \in T
      BY <1>2, <2>4
    <3>2. count - i <= count - j
      BY <2>2, <2>3, <3>1
    <3> QED
      BY <1>2, <2>4, <3>2
  <2> QED
    BY <2>3, <2>4
<1>4. ASSUME NEW i \in 1 .. count PROVE Good(Value(i), n)
  <2>1. i - 1 \in 0 .. MaxLength
    BY <1>2, Bounds
  <2>2. Good(Tails(args)[i - 1], n)
    BY <2>1, GoodTails
  <2>3. Good(Nil, n)
    BY GoodConstants
  <2> QED
    BY <2>2, <2>3, GoodShare
<1> HIDE DEF Value, Last, Symbols
<1> QED
  BY <1>1, <1>3, <1>4

-----------------------------------------------------------------------------
(* What the procedures answer. *)

GoodResult(o, n) ==
    Good(o.value, n) /\ Good(o.left, n) /\ (o.thrown => o.value # Nil)

LEMMA GoodGives ==
    ASSUME NEW v, NEW left, NEW n, Good(v, n), Good(left, n)
    PROVE  \A o \in Gives(v, left) : GoodResult(o, n)
BY DEF Gives, GoodResult

LEMMA GoodFails ==
    ASSUME NEW type, NEW left, NEW n, Good(left, n)
    PROVE  \A o \in Fails(type, left) : GoodResult(o, n)
<1>1. Good(Exception(type), n) /\ Exception(type) # Nil
  BY GoodConstants DEF Exception, Nil
<1> QED
  BY <1>1 DEF Fails, GoodResult

LEMMA ListShape ==
    ASSUME NEW args
    PROVE  /\ IsListFrom(2, args) => Is("pair", args) /\ Is("pair", args[3])
           /\ IsListOf(1, args) => Is("pair", args) /\ args[3] = Nil
           /\ IsListOf(2, args) => IsListFrom(2, args) /\ args[3][3] = Nil
           /\ IsList(args) /\ args # Nil => Is("pair", args)
<1>1. /\ Tails(args)[0] = args
      /\ Is("pair", args) => Tails(args)[1] = args[3]
      /\ Is("pair", Tails(args)[1]) => Tails(args)[2] = Tails(args)[1][3]
  BY TailsRule, Bounds DEF Rest, MaxLength
<1>2. \A m \in Nat \ {0} : IsListFrom(m, args) => Is("pair", args)
  BY <1>1 DEF IsListFrom
<1>3. IsListFrom(2, args) => Is("pair", args) /\ Is("pair", args[3])
  BY <1>1 DEF IsListFrom
<1>4. IsListOf(0, args) => args = Nil
  BY <1>1 DEF IsListOf
<1> QED
  <2>1. IsListOf(1, args) => Is("pair", args) /\ args[3] = Nil
    BY <1>1, <1>2 DEF IsListOf
  <2>2. IsListOf(2, args) => IsListFrom(2, args) /\ args[3][3] = Nil
    BY <1>1, <1>3 DEF IsListOf
  <2>3. IsList(args) /\ args # Nil => Is("pair", args)
    <3> SUFFICES ASSUME IsList(args), args # Nil PROVE Is("pair", args)
      OBVIOUS
    <3>1. PICK m \in 0 .. MaxLength : IsListOf(m, args)
      BY DEF IsList
    <3>2. m \in Nat \ {0} /\ IsListFrom(m, args)
      BY <1>4, <3>1, Bounds DEF IsListOf
    <3> QED
      BY <1>2, <3>2
  <2> QED
    BY <1>3, <2>1, <2>2, <2>3

LEMMA GoodOutcomes ==
    ASSUME NEW name, NEW args, NEW n, Good(args, n), IsList(args)
    PROVE  \A o \in Outcomes(name, args) : GoodResult(o, n)
<1> DEFINE AllGood(results) == \A o \in results : GoodResult(o, n)
<1>1. \A type : AllGood(Fails(type, args)) /\ AllGood(Fails(type, Nil))
  BY GoodFails, GoodConstants
<1>2. /\ args # Nil =>
            Is("pair", args) /\ Good(args[2], n) /\ Good(args[3], n)
      /\ IsListFrom(2, args) =>
            Good(args[2], n) /\ Good(args[3][2], n) /\ Good(args[3][3], n)
      /\ IsListOf(1, args) => Good(args[2], n)
      /\ IsListOf(2, args) =>
            Good(args[2], n) /\ Good(args[3][2], n) /\ Good(args[3][3], n)
      /\ IsListOf(1, args) \/ IsListOf(2, args) => Good(args[2], n)
  BY ListShape, GoodParts
<1>3. \A x : /\ Good(Nil, n) /\ Good(Truth(x), n) /\ Good(Num(x), n)
             /\ Good(Sym(x), n) /\ Good(Exception(x), n)
  BY GoodConstants
<1>4. AllGood(Compare(name, args))
  <2>1. CASE ~IsListFrom(2, args)
    BY <1>1, <2>1 DEF Compare, WithTwo, WrongArguments
  <2>2. CASE IsListFrom(2, args)
    <3>1. \A x : AllGood(Gives(Truth(x), args[3][3]))
      BY <1>2, <1>3, <2>2, GoodGives
    <3>2. \A o \in Compare(name, args) : \E x : o \in Gives(Truth(x), args[3][3])
      BY <2>2 DEF Compare, WithTwo
    <3> QED
      BY <3>1, <3>2
  <2> QED
    BY <2>1, <2>2
<1>5. AllGood(Arithmetic(name, args))
  <2>1. CASE ~IsListFrom(2, args)
    BY <1>1, <2>1 DEF Arithmetic, WithTwo, WrongArguments
  <2>2. CASE IsListFrom(2, args)
    <3>1. /\ \A x : AllGood(Gives(Num(x), args[3][3]))
          /\ AllGood(Fails("exc-invalid-type", args[3][3]))
      BY <1>2, <1>3, <2>2, GoodGives, GoodFails
    <3>2. \A o \in Arithmetic(name, args) :
             \/ \E x : o \in Gives(Num(x), args[3][3])
             \/ o \in Fails("exc-invalid-type", args[3][3])
      BY <2>2 DEF Arithmetic, WithTwo
    <3> QED
      BY <3>1, <3>2
  <2> QED
    BY <2>1, <2>2
<1>6. /\ args # Nil => \A type : AllGood(Fails(type, args[3]))
      /\ \A x : AllGood(Gives(Truth(x), Nil)) /\ AllGood(Gives(Sym(x), Nil))
                /\ AllGood(Gives(Num(x), Nil)) /\ AllGood(Gives(Exception(x), Nil))
  BY <1>2, <1>3, GoodGives, GoodFails
<1>7. AllGood(Not(args)) /\ AllGood(ExceptionType(args))
  BY <1>1, <1>6 DEF Not, ExceptionType, WrongArguments
<1>8. AllGood(MakeException(args))
  <2>1. IsListOf(2, args) => args # Nil
    BY ListShape DEF Is, Nil
  <2> QED
    BY <1>1, <1>6, <2>1 DEF MakeException, WrongArguments
<1>9. AllGood(ConsPair(args))
  <2>1. CASE ~(IsListOf(1, args) \/ IsListOf(2, args))
    BY <1>1, <2>1 DEF ConsPair, WrongArguments
  <2>2. CASE (IsListOf(1, args) \/ IsListOf(2, args)) /\ args[3] = Nil
    <3>1. Good(Pair(args[2], Nil), n)
      BY <1>2, <1>3, <2>2, GoodPair
    <3> QED
      BY <1>3, <2>2, <3>1, GoodGives DEF ConsPair
  <2>3. CASE IsListOf(2, args) /\ args[3] # Nil
    <3>1. Good(Pair(args[2], args[3][2]), n)
      BY <1>2, <2>3, GoodPair
    <3> QED
      BY <1>3, <2>3, <3>1, GoodGives DEF ConsPair
  <2> QED
    BY <2>1, <2>2, <2>3, ListShape
<1>10. AllGood(Car(args)) /\ AllGood(Cdr(args))
  <2>1. CASE args = Nil
    BY <1>1, <2>1 DEF Car, Cdr, Part, WrongArguments
  <2>2. CASE args # Nil /\ ~IsPair(args[2])
    BY <1>6, <2>2 DEF Car, Cdr, Part
  <2>3. CASE args # Nil /\ IsPair(args[2])
    <3>1. Good(args[2], n) /\ Good(args[3], n)
      BY <1>2, <2>3
    <3>2. Good(<<"message">>, n)
      <4>1. <<"message">>[1] = "message"
        OBVIOUS
      <4> QED
        BY <4>1, GoodAtom
    <3>3. Good(Pair(Sym(args[2][2]), <<"message">>), n)
      BY <1>3, <3>2, GoodPair
    <3>4. Is("pair", args[2]) => Good(args[2][2], n) /\ Good(args[2][3], n)
      BY <3>1, GoodParts
    <3>5. AllGood(Gives(Sym("exception-type"), args[3]))
          /\ AllGood(Gives(Pair(Sym(args[2][2]), <<"message">>), args[3]))
          /\ (Is("pair", args[2]) =>
                 /\ AllGood(Gives(args[2][2], args[3]))
                 /\ AllGood(Gives(args[2][3], args[3])))
      BY <1>3, <3>1, <3>3, <3>4, GoodGives
    <3> QED
      BY <2>3, <3>5 DEF Car, Cdr, Part
  <2> QED
    BY <2>1, <2>2, <2>3
<1>11. AllGood(Gives(args, args))
  BY GoodGives
<1>12. AllGood(ReverseList(args))
  <2>1. CASE ~IsListOf(1, args)
    BY <1>1, <2>1 DEF ReverseList, WithOne, WrongArguments
  <2>2. CASE IsListOf(1, args) /\ IsList(args[2])
    <3>1. Good(Reversed(args[2]), n)
      BY <1>2, <2>2, GoodReversed
    <3> QED
      BY <1>3, <2>2, <3>1, GoodGives DEF ReverseList, WithOne
  <2>3. CASE IsListOf(1, args) /\ ~IsList(args[2])
    BY <2>3 DEF ReverseList, WithOne
  <2> QED
    BY <2>1, <2>2, <2>3
<1>13. AllGood(Byte(args))
  BY <1>1, <1>6 DEF Byte, WithOne, WrongArguments
<1>14. AllGood(IntOf(args))
  <2>1. IsListOf(1, args) => AllGood(Gives(args[2], Nil))
    BY <1>2, <1>3, GoodGives
  <2> QED
    BY <1>1, <1>6, <2>1 DEF IntOf, WithOne, WrongArguments
<1>15. AllGood(TypeTest(name, args))
  BY <1>1, <1>6 DEF TypeTest, WithOne, WrongArguments
<1> HIDE DEF AllGood
<1> SUFFICES AllGood(Outcomes(name, args))
  BY DEF AllGood
<1> QED
  BY <1>4, <1>5, <1>7, <1>8, <1>9, <1>10, <1>11, <1>12, <1>13, <1>14, <1>15
     DEF Outcomes

-----------------------------------------------------------------------------
(* What the machine starts with. *)

LEMMA GoodTerms ==
    ASSUME NEW n \in Nat \ {0}
    PROVE  /\ \A v \in Programs : Good(v, n)
           /\ \A s \in DOMAIN Global : Good(Global[s], n)
<1>1. \A v \in Terms : Good(v, 1)
  BY TermsAssumption DEF Good
<1>2. 1 \in Nat /\ n \in Nat /\ 1 <= n
  OBVIOUS
<1>3. \A v \in Terms : Good(v, n)
  BY <1>1, <1>2, GoodLater
<1> QED
  BY <1>3, TermsAssumption

-----------------------------------------------------------------------------
(* Environments. *)

EnvsSound(store) ==
    /\ Len(store) \in Nat \ {0}
    /\ \A i \in 1 .. Len(store) :
          /\ DOMAIN store[i] = {"up", "bound"}
          /\ store[i].up \in 0 .. i - 1
          /\ i # 1 => store[i].up # 0
          /\ \A s \in DOMAIN store[i].bound : Good(store[i].bound[s], Len(store))


\* BinderIn.
OuterStep(store, e, n, before) ==
    IF before = 0 THEN 0 ELSE store[before].up

OuterTo(store, e, t, m) ==
    t = [n \in 0 .. m |-> IF n = 0 THEN e ELSE OuterStep(store, e, n, t[n - 1])]

LEMMA OuterToRule ==
    ASSUME NEW store, NEW e, NEW m \in Nat, NEW t
    PROVE  OuterTo(store, e, t, m) <=>
              /\ t = [n \in 0 .. m |-> t[n]]
              /\ t[0] = e
              /\ \A n \in 1 .. m : t[n] = OuterStep(store, e, n, t[n - 1])
<1> DEFINE G(n) == IF n = 0 THEN e ELSE OuterStep(store, e, n, t[n - 1])
<1>1. OuterTo(store, e, t, m) <=> t = [n \in 0 .. m |-> G(n)]
  BY DEF OuterTo
<1> QED
  BY <1>1

LEMMA OuterExist ==
    ASSUME NEW store, NEW e
    PROVE  \A m \in Nat : \E t : OuterTo(store, e, t, m)
<1> DEFINE S == {m \in Nat : \E t : OuterTo(store, e, t, m)}
<1>1. 0 \in S
  <2>1. OuterTo(store, e, [n \in 0 .. 0 |-> e], 0)
    BY DEF OuterTo
  <2> QED
    BY <2>1
<1>2. ASSUME NEW k \in Nat, k \in S PROVE k + 1 \in S
  <2>1. PICK t : OuterTo(store, e, t, k)
    BY <1>2
  <2>2. PICK y : y = OuterStep(store, e, k + 1, t[k])
    OBVIOUS
  <2>3. PICK u : u = [n \in 0 .. k + 1 |-> IF n = k + 1 THEN y ELSE t[n]]
    OBVIOUS
  <2>4. /\ k + 1 \in Nat /\ u = [n \in 0 .. k + 1 |-> u[n]] /\ u[k + 1] = y
        /\ \A n \in 0 .. k : u[n] = t[n]
    BY <2>3
  <2>5. t[0] = e /\ \A n \in 1 .. k : t[n] = OuterStep(store, e, n, t[n - 1])
    BY <2>1, OuterToRule
  <2>6. ASSUME NEW n \in 1 .. k + 1
        PROVE  u[n] = OuterStep(store, e, n, u[n - 1])
    <3>1. u[n - 1] = t[n - 1]
      BY <2>4
    <3>2. CASE n = k + 1
      BY <2>2, <2>4, <3>1, <3>2
    <3>3. CASE n # k + 1
      <4>1. n \in 1 .. k /\ n \in 0 .. k
        BY <3>3
      <4> QED
        BY <2>4, <2>5, <3>1, <4>1
    <3> QED
      BY <3>2, <3>3
  <2>7. u[0] = e
    <3>1. 0 \in 0 .. k
      OBVIOUS
    <3> QED
      BY <2>4, <2>5, <3>1
  <2>8. OuterTo(store, e, u, k + 1)
    BY <2>4, <2>6, <2>7, OuterToRule
  <2> QED
    BY <2>4, <2>8
<1> HIDE DEF S
<1>3. \A m \in Nat : m \in S
  BY <1>1, <1>2, Counting
<1> QED
  BY <1>3 DEF S

LEMMA BinderRule ==
    ASSUME NEW store, EnvsSound(store), NEW s, NEW e \in 1 .. Len(store),
           BinderIn(store, s, e) # 0
    PROVE  /\ BinderIn(store, s, e) \in 1 .. Len(store)
           /\ Binds(store, s, BinderIn(store, s, e))
<1> DEFINE t == CHOOSE u : OuterTo(store, e, u, Len(store))
           Found(n) == t[n] # 0 /\ Binds(store, s, t[n])
<1>0. Len(store) \in Nat \ {0}
  BY DEF EnvsSound
<1>1. BinderIn(store, s, e) =
        IF \E n \in 0 .. Len(store) : Found(n)
        THEN t[CHOOSE n \in 0 .. Len(store) :
                  Found(n) /\ \A m \in 0 .. n - 1 : ~Found(m)]
        ELSE 0
  BY DEF BinderIn, OuterTo, OuterStep
<1>2. OuterTo(store, e, t, Len(store))
  BY <1>0, OuterExist
<1> HIDE DEF t
<1>3. /\ t[0] = e
      /\ \A i \in 1 .. Len(store) : t[i] = OuterStep(store, e, i, t[i - 1])
  <2>1. Len(store) \in Nat
    BY <1>0
  <2> QED
    BY <1>2, <2>1, OuterToRule
<1> DEFINE S == {i \in Nat : i <= Len(store) => t[i] \in 0 .. Len(store)}
<1>4. 0 \in S
  BY <1>0, <1>3
<1>5. ASSUME NEW k \in Nat, k \in S PROVE k + 1 \in S
  <2>1. SUFFICES ASSUME k + 1 <= Len(store) PROVE t[k + 1] \in 0 .. Len(store)
    OBVIOUS
  <2>2. k + 1 \in 1 .. Len(store) /\ (k + 1) - 1 = k /\ t[k] \in 0 .. Len(store)
    BY <1>0, <1>5, <2>1
  <2>3. t[k + 1] = OuterStep(store, e, k + 1, t[k])
    BY <1>3, <2>2
  <2>4. t[k] # 0 => store[t[k]].up \in 0 .. t[k] - 1
    BY <1>0, <2>2 DEF EnvsSound
  <2> QED
    BY <1>0, <2>2, <2>3, <2>4 DEF OuterStep
<1> HIDE DEF S
<1>6. \A i \in Nat : i \in S
  BY <1>4, <1>5, Counting
<1>7. \A i \in 0 .. Len(store) : t[i] \in 0 .. Len(store)
  BY <1>0, <1>6 DEF S
<1> DEFINE T == {n \in 0 .. Len(store) : Found(n)}
<1>8. T # {}
  BY <1>1
<1>9. PICK n \in T : \A m \in T : n <= m
  <2>1. T \subseteq Nat
    BY <1>0
  <2> HIDE DEF T
  <2> QED
    BY <1>8, <2>1, P!Smallest, MachineAssumption
<1>10. n \in 0 .. Len(store) /\ Found(n) /\ \A m \in 0 .. n - 1 : ~Found(m)
  <2>1. \A m \in 0 .. n - 1 : m \in 0 .. Len(store) /\ ~(n <= m)
    BY <1>0
  <2> QED
    BY <1>9, <2>1
<1>11. \E m \in 0 .. Len(store) : BinderIn(store, s, e) = t[m] /\ Found(m)
  <2> HIDE DEF Found
  <2>1. PICK m : m = CHOOSE i \in 0 .. Len(store) :
                        Found(i) /\ \A j \in 0 .. i - 1 : ~Found(j)
    OBVIOUS
  <2>2. m \in 0 .. Len(store) /\ Found(m)
    BY <1>10, <2>1
  <2> QED
    BY <1>1, <2>1, <2>2
<1> QED
  BY <1>0, <1>7, <1>11

LEMMA GoodBound ==
    ASSUME NEW store, EnvsSound(store), NEW s, NEW e \in 1 .. Len(store),
           Binds(store, s, e)
    PROVE  Good(BoundIn(store, s, e), Len(store))
<1>1. Len(store) \in Nat \ {0}
  BY DEF EnvsSound
<1>2. CASE s \in DOMAIN store[e].bound
  BY <1>2 DEF BoundIn, EnvsSound
<1>3. CASE s \notin DOMAIN store[e].bound
  <2>1. s \in DOMAIN Global
    BY <1>3 DEF Binds
  <2> QED
    BY <1>1, <1>3, <2>1, GoodTerms DEF BoundIn
<1> QED
  BY <1>2, <1>3

-----------------------------------------------------------------------------
(* Sequences. *)

IsSeq(s) == s \in Seq({s[i] : i \in DOMAIN s})

LEMMA SeqRule ==
    ASSUME NEW s
    PROVE  IsSeq(s) <=> /\ Len(s) \in Nat
                        /\ s = [i \in 1 .. Len(s) |-> s[i]]
<1>1. ASSUME IsSeq(s) PROVE Len(s) \in Nat /\ s = [i \in 1 .. Len(s) |-> s[i]]
  BY <1>1 DEF IsSeq
<1>2. ASSUME Len(s) \in Nat, s = [i \in 1 .. Len(s) |-> s[i]] PROVE IsSeq(s)
  <2> DEFINE R == {s[i] : i \in DOMAIN s}
  <2>1. s \in [1 .. Len(s) -> R]
    BY <1>2
  <2> HIDE DEF R
  <2>2. s \in Seq(R)
    BY <1>2, <2>1
  <2> QED
    BY <2>2 DEF IsSeq, R
<1> QED
  BY <1>1, <1>2

LEMMA MadeSeq ==
    ASSUME NEW n \in Nat, NEW s, s = [i \in 1 .. n |-> s[i]]
    PROVE  IsSeq(s) /\ Len(s) = n
<1> DEFINE R == {s[i] : i \in 1 .. n}
<1>1. s \in [1 .. n -> R]
  OBVIOUS
<1> HIDE DEF R
<1>2. s \in Seq(R)
  BY <1>1
<1>3. Len(s) = n
  BY <1>1, <1>2
<1> QED
  BY <1>3, SeqRule

LEMMA InSeq ==
    ASSUME NEW R, NEW s \in Seq(R)
    PROVE  IsSeq(s)
<1>1. Len(s) \in Nat /\ s = [i \in 1 .. Len(s) |-> s[i]]
  OBVIOUS
<1> QED
  BY <1>1, SeqRule

LEMMA AppendRule ==
    ASSUME NEW s, IsSeq(s), NEW x
    PROVE  /\ IsSeq(Append(s, x))
           /\ Len(Append(s, x)) = Len(s) + 1
           /\ \A i \in 1 .. Len(s) : Append(s, x)[i] = s[i]
           /\ Append(s, x)[Len(s) + 1] = x
<1> DEFINE R == {s[i] : i \in DOMAIN s} \cup {x}
<1>1. s \in Seq(R) /\ x \in R
  <2>1. Len(s) \in Nat /\ s = [i \in 1 .. Len(s) |-> s[i]]
    BY SeqRule
  <2>2. s \in [1 .. Len(s) -> R]
    BY <2>1
  <2> HIDE DEF R
  <2>3. s \in Seq(R)
    BY <2>1, <2>2
  <2> QED
    BY <2>3 DEF R
<1> HIDE DEF R
<1>2. /\ Append(s, x) \in Seq(R)
      /\ Len(Append(s, x)) = Len(s) + 1
      /\ \A i \in 1 .. Len(s) : Append(s, x)[i] = s[i]
      /\ Append(s, x)[Len(s) + 1] = x
  BY <1>1, AppendProperties
<1> QED
  BY <1>2, InSeq

LEMMA ExceptRule ==
    ASSUME NEW s, IsSeq(s), NEW i \in 1 .. Len(s), NEW x,
           NEW u, u = [s EXCEPT ![i] = x]
    PROVE  /\ IsSeq(u)
           /\ Len(u) = Len(s)
           /\ \A j \in 1 .. Len(s) : u[j] = IF j = i THEN x ELSE s[j]
<1>1. Len(s) \in Nat /\ s = [j \in 1 .. Len(s) |-> s[j]]
  BY SeqRule
<1>2. /\ u = [j \in 1 .. Len(s) |-> u[j]]
      /\ \A j \in 1 .. Len(s) : u[j] = IF j = i THEN x ELSE s[j]
  BY <1>1
<1> QED
  BY <1>1, <1>2, MadeSeq

LEMMA PopRule ==
    ASSUME NEW s, IsSeq(s), s # <<>>
    PROVE  /\ IsSeq(SubSeq(s, 1, Len(s) - 1))
           /\ Len(SubSeq(s, 1, Len(s) - 1)) = Len(s) - 1
           /\ \A i \in 1 .. Len(s) - 1 : SubSeq(s, 1, Len(s) - 1)[i] = s[i]
           /\ Len(s) \in 1 .. Len(s)
<1> DEFINE R == {s[i] : i \in DOMAIN s}
<1>1. s \in Seq(R)
  BY DEF IsSeq
<1> HIDE DEF R
<1>2. /\ SubSeq(s, 1, Len(s) - 1) \in Seq(R)
      /\ Len(SubSeq(s, 1, Len(s) - 1)) = Len(s) - 1
      /\ \A i \in 1 .. Len(s) - 1 : SubSeq(s, 1, Len(s) - 1)[i] = s[i]
  BY <1>1, P!PopFact, MachineAssumption
<1>3. Len(s) \in Nat \ {0}
  BY <1>1
<1>4. Len(s) \in 1 .. Len(s)
  BY <1>3
<1>5. IsSeq(SubSeq(s, 1, Len(s) - 1))
  BY <1>2, InSeq
<1> QED
  BY <1>2, <1>4, <1>5

-----------------------------------------------------------------------------
(* The invariant. *)

RegisterNames == {"pc", "expr", "proc", "args", "env", "excn", "exh", "ctxt", "parn"}

Routines == {Builtin(r) : r \in RoutineNames}

\* A value the accumulator or the expr register may hold.
Usable(v, n) == Good(v, n) \/ v \in Routines

\* The registers of a frame, when there are n environments.  eval is executed in
\* the environment of its argument, which is not the global one.
FrameSound(r, n) ==
    /\ r = [x \in RegisterNames |-> r[x]]
    /\ r.pc \in Addresses
    /\ Usable(r.expr, n)
    /\ r.pc \in ExprPlain => Good(r.expr, n)
    /\ Good(r.proc, n) /\ Good(r.args, n) /\ Good(r.excn, n) /\ Good(r.ctxt, n)
    /\ r.env \in 1 .. n
    /\ r.expr = Builtin("eval-native-proc") \/ r.pc = EvalNative => r.env # 1

FramesSound ==
    /\ IsSeq(frames)
    /\ regs \in 1 .. Len(frames)
    /\ \A f \in 1 .. Len(frames) :
          /\ FrameSound(frames[f], Len(envs))
          /\ f # regs => frames[f].pc \notin Halfway

EnvironmentsSound == IsSeq(envs) /\ EnvsSound(envs)

AccSound ==
    /\ Usable(acc, Len(envs))
    /\ Reg.pc \notin AccAny => Good(acc, Len(envs))
    /\ Reg.pc \in Loaded => acc = Reg.expr
    /\ Reg.pc \in Tested =>
          acc = Truth(<<Opcode(Reg.pc - 1), Reg.expr[1]>> \in TypeTests)
    /\ Good(ret, Len(envs))

StackSound ==
    /\ IsSeq(stack)
    /\ \A i \in 1 .. Len(stack) : Good(stack[i], Len(envs))
    /\ Len(stack) = Len(owners) + IF Reg.pc \in Pushed THEN 1 ELSE 0

\* The frames of the default handler do nothing else.
DefaultSound ==
    \A f \in default :
        /\ frames[f].pc \in HandlerPath
        /\ frames[f].expr = Builtin("default-except-proc")

\* What is thrown stays in the register of the handler.
ThrownSound == thrown => \E f \in 1 .. Len(frames) : frames[f].excn # Nil

HostSound ==
    /\ running \in BOOLEAN
    /\ ~running => Opcode(Reg.pc) = "return"
    /\ runs \in 0 .. MaxRuns

MachineSound ==
    /\ FramesSound /\ EnvironmentsSound /\ AccSound /\ StackSound
    /\ DefaultSound /\ ThrownSound /\ HostSound

\* The machine's invariant, and what of that of CallFrames it rests on.
Sound == MachineSound /\ P!WaitLayer /\ P!NestLayer

-----------------------------------------------------------------------------
(* Steps of the current frame. *)

\* The current frame has the registers r, nothing else of the frames changes.
Kept(r) ==
    /\ regs' = regs
    /\ IsSeq(frames')
    /\ Len(frames') = Len(frames)
    /\ \A g \in 1 .. Len(frames) : frames'[g] = IF g = regs THEN r ELSE frames[g]
    /\ UNCHANGED <<running, program, runs>>

Bumped(r) == [r EXCEPT !.pc = IF r.pc = Reg.pc THEN r.pc + 1 ELSE r.pc]

LEMMA ProceedRule ==
    ASSUME NEW fs, IsSeq(fs), NEW f \in 1 .. Len(fs), Proceed(fs, f)
    PROVE  /\ regs' = f
           /\ IsSeq(frames')
           /\ Len(frames') = Len(fs)
           /\ \A g \in 1 .. Len(fs) :
                 frames'[g] = IF g = f THEN Bumped(fs[f]) ELSE fs[g]
           /\ UNCHANGED <<running, program, runs>>
<1>1. frames' = [fs EXCEPT ![f] = Bumped(fs[f])]
  BY DEF Proceed, Bumped
<1>2. regs' = f /\ UNCHANGED <<running, program, runs>>
  BY DEF Proceed
<1>3. PICK q : q = Bumped(fs[f])
  OBVIOUS
<1>4. frames' = [fs EXCEPT ![f] = q]
  BY <1>1, <1>3
<1>5. \A g \in 1 .. Len(fs) : frames'[g] = IF g = f THEN q ELSE fs[g]
  BY <1>4, ExceptRule
<1>6. IsSeq(frames')
  BY <1>4, ExceptRule
<1>7. Len(frames') = Len(fs)
  BY <1>4, ExceptRule
<1> QED
  BY <1>2, <1>3, <1>5, <1>6, <1>7

LEMMA KeptRule ==
    ASSUME FramesSound, NEW r, With(r)
    PROVE  Kept(Bumped(r))
<1>1. IsSeq(frames) /\ regs \in 1 .. Len(frames)
  BY DEF FramesSound
<1>0. PICK fs : fs = [frames EXCEPT ![regs] = r]
  OBVIOUS
<1>2. \A j \in 1 .. Len(frames) : fs[j] = IF j = regs THEN r ELSE frames[j]
  BY <1>0, <1>1, ExceptRule
<1>4. IsSeq(fs)
  BY <1>0, <1>1, ExceptRule
<1>5. Len(fs) = Len(frames)
  BY <1>0, <1>1, ExceptRule
<1>3. Proceed(fs, regs)
  BY <1>0 DEF With
<1> QED
  BY <1>1, <1>2, <1>3, <1>4, <1>5, ProceedRule DEF Kept

\* After an instruction that says no more than what the registers are.
LEMMA WithRule ==
    ASSUME FramesSound, NEW r, r.pc = Reg.pc, With(r)
    PROVE  Kept([r EXCEPT !.pc = Reg.pc + 1])
<1>1. Bumped(r) = [r EXCEPT !.pc = Reg.pc + 1]
  BY DEF Bumped
<1> QED
  BY <1>1, KeptRule

LEMMA JumpRule ==
    ASSUME FramesSound, NEW r, "pc" \in DOMAIN r, NEW b, b # Reg.pc, Jump(r, b)
    PROVE  Kept([r EXCEPT !.pc = b])
<1> DEFINE q == [r EXCEPT !.pc = b]
<1>1. q.pc = b /\ With(q)
  BY DEF Jump
<1> HIDE DEF q
<1>2. Bumped(q) = [q EXCEPT !.pc = b]
  BY <1>1 DEF Bumped
<1>3. [q EXCEPT !.pc = b] = q
  BY DEF q
<1> QED
  BY <1>1, <1>2, <1>3, KeptRule DEF q

LEMMA GoodIsNoBuiltin ==
    ASSUME NEW v, NEW n, Good(v, n)
    PROVE  v \notin Routines /\ \A r : v # Builtin(r)
<1>1. \A r : Is("builtin", Builtin(r))
  BY DEF Is, Builtin
<1> QED
  BY <1>1, GoodParts DEF Routines

LEMMA UsableLater ==
    ASSUME NEW v, NEW n \in Nat, NEW m \in Nat, n <= m, Usable(v, n)
    PROVE  Usable(v, m)
BY GoodLater DEF Usable

LEMMA FrameLater ==
    ASSUME NEW r, NEW n \in Nat, NEW m \in Nat, n <= m, FrameSound(r, n)
    PROVE  FrameSound(r, m)
<1>1. \A v : /\ Good(v, n) => Good(v, m)
             /\ Usable(v, n) => Usable(v, m)
  BY GoodLater, UsableLater
<1>2. \A e \in 1 .. n : e \in 1 .. m
  OBVIOUS
<1> QED
  BY <1>1, <1>2 DEF FrameSound

\* The tests at the start of eval-proc let no builtin through to where an
\* expression is needed.
LEMMA ZeroTruth ==
    ASSUME NEW b \in BOOLEAN
    PROVE  Zero(Truth(b)) <=> ~b
<1>1. Truth(b) \notin {Nil, Num(0)} /\ Truth(b)[1] = "bool"
  BY DEF Truth, Nil, Num
<1>2. (Truth(b) = Truth(FALSE)) <=> ~b
  BY DEF Truth
<1> QED
  BY <1>1, <1>2 DEF Zero

-----------------------------------------------------------------------------
(* Changes of registers. *)

LEMMA MovedFrame ==
    ASSUME NEW r, NEW n, FrameSound(r, n),
           NEW b \in Addresses, b = EvalNative => r.env # 1,
           b \in ExprPlain => Good(r.expr, n),
           NEW q, q = [r EXCEPT !.pc = b]
    PROVE  /\ FrameSound(q, n)
           /\ q.pc = b
           /\ \A x \in RegisterNames \ {"pc"} : q[x] = r[x]
<1>1. r = [x \in RegisterNames |-> r[x]] /\ "pc" \in RegisterNames
  BY DEF FrameSound, RegisterNames
<1>2. /\ q = [x \in RegisterNames |-> q[x]]
      /\ q.pc = b
      /\ \A x \in RegisterNames \ {"pc"} : q[x] = r[x]
  BY <1>1
<1>3. /\ q.expr = r.expr /\ q.proc = r.proc /\ q.args = r.args /\ q.env = r.env
      /\ q.excn = r.excn /\ q.ctxt = r.ctxt
  BY <1>2 DEF RegisterNames
<1>4. FrameSound(q, n)
  BY <1>2, <1>3 DEF FrameSound
<1> QED
  BY <1>2, <1>4

LEMMA SetFrame ==
    ASSUME NEW r, NEW n, FrameSound(r, n), NEW x \in {"ctxt", "expr", "proc", "args"},
           NEW v, Good(v, n), NEW q, q = [r EXCEPT ![x] = v]
    PROVE  /\ FrameSound(q, n)
           /\ q[x] = v
           /\ \A y \in RegisterNames \ {x} : q[y] = r[y]
           /\ q.pc = r.pc
<1>1. r = [y \in RegisterNames |-> r[y]] /\ x \in RegisterNames
  BY DEF FrameSound, RegisterNames
<1>2. /\ q = [y \in RegisterNames |-> q[y]]
      /\ q[x] = v
      /\ \A y \in RegisterNames \ {x} : q[y] = r[y]
  BY <1>1
<1>3. q.pc = r.pc /\ q.env = r.env /\ q.excn = r.excn
  BY <1>2 DEF RegisterNames
<1>4. /\ q.proc \in {r.proc, v} /\ q.args \in {r.args, v} /\ q.ctxt \in {r.ctxt, v}
      /\ q.expr = v \/ q.expr = r.expr
  BY <1>2 DEF RegisterNames
<1>5. /\ Good(q.proc, n) /\ Good(q.args, n) /\ Good(q.ctxt, n)
  BY <1>4 DEF FrameSound
<1>6. /\ Usable(q.expr, n)
      /\ q.pc \in ExprPlain => Good(q.expr, n)
      /\ q.expr = Builtin("eval-native-proc") => r.expr = Builtin("eval-native-proc")
  BY <1>3, <1>4, GoodIsNoBuiltin DEF FrameSound, Usable
<1>7. FrameSound(q, n)
  BY <1>2, <1>3, <1>5, <1>6 DEF FrameSound
<1> QED
  BY <1>2, <1>3, <1>7

-----------------------------------------------------------------------------
(* Instructions. *)

\* What the machine is like when it executes an instruction.
LEMMA Situation ==
    ASSUME MachineSound
    PROVE  /\ Reg.pc \in Addresses
           /\ FrameSound(Reg, Len(envs))
           /\ Reg = [x \in RegisterNames |-> Reg[x]]
           /\ regs \in 1 .. Len(frames) /\ IsSeq(frames) /\ Len(frames) \in Nat
           /\ Len(envs) \in Nat \ {0}
           /\ \A name : Op(name) => running /\ Opcode(Reg.pc) = name
<1>1. regs \in 1 .. Len(frames) /\ IsSeq(frames)
  BY DEF MachineSound, FramesSound
<1>2. FrameSound(Reg, Len(envs))
  BY <1>1 DEF MachineSound, FramesSound, Reg
<1>3. Reg.pc \in Addresses /\ Reg = [x \in RegisterNames |-> Reg[x]]
  BY <1>2 DEF FrameSound
<1>4. Len(envs) \in Nat \ {0} /\ Len(frames) \in Nat
  BY <1>1, SeqRule DEF MachineSound, EnvironmentsSound, EnvsSound
<1>5. \A name : Op(name) => running /\ Opcode(Reg.pc) = name
  BY DEF Op, Opcode
<1> QED
  BY <1>1, <1>2, <1>3, <1>4, <1>5

\* The opcodes of the tests in eval-proc.
LEMMA TestOpcodes ==
    /\ \A a \in Loaded : Opcode(a) \in {"framep", "pairp", "builtinp", "callacc"}
    /\ \A a \in Tested : Opcode(a) = "skipz"
BY EvalAssumption DEF Loaded, Tested, Does

\* Where an instruction leads that is not skipz and sets no expr, there is no new
\* need for an expression.
LEMMA PlainTarget ==
    ASSUME MachineSound, NEW b \in Targets(Reg.pc),
           Opcode(Reg.pc) # "skipz", ~Does(Reg.pc, "set", "expr")
    PROVE  /\ b \in Addresses \ {Reg.pc, ArgDone, EvalNative}
           /\ b \in ExprPlain => Good(Reg.expr, Len(envs))
<1>1. b \in Addresses \ {Reg.pc, ArgDone, EvalNative}
  BY FlowAssumption, Situation
<1>2. b \in ExprPlain => Reg.pc \in ExprPlain
  BY FlowAssumption, TestOpcodes, Situation
<1> QED
  BY <1>1, <1>2, Situation DEF FrameSound

LEMMA SkipTarget ==
    ASSUME MachineSound, Opcode(Reg.pc) = "skipz",
           NEW b, b = (IF Zero(acc) THEN Code[Reg.pc][2] ELSE Reg.pc + 1)
    PROVE  /\ b \in Targets(Reg.pc)
           /\ b \in Addresses \ {Reg.pc, ArgDone, EvalNative}
           /\ b \in ExprPlain => Good(Reg.expr, Len(envs))
           /\ regs \in default => b \in HandlerPath
<1>1. b \in Targets(Reg.pc)
  BY DEF Targets
<1>2. b \in Addresses \ {Reg.pc, ArgDone, EvalNative}
  BY <1>1, FlowAssumption, Situation
<1>3. b \in ExprPlain => Reg.pc \in ExprPlain \cup Tested
  BY <1>1, FlowAssumption, Situation DEF Does
<1> DEFINE test == <<Opcode(Reg.pc - 1), Reg.expr[1]>> \in TypeTests
<1>4. Entry \in Nat
  BY RoutineAssumption, AddressAssumption
<1>5. CASE Reg.pc \in Tested
  <2>1. acc = Truth(test)
    BY <1>5 DEF MachineSound, AccSound
  <2> HIDE DEF test
  <2>0. test \in BOOLEAN
    BY DEF test
  <2>2. Zero(acc) <=> ~test
    BY <2>0, <2>1, ZeroTruth
  <2>3. PICK i \in {2, 7, 12} : Reg.pc = Entry + i
    BY <1>5 DEF Tested
  <2>4. Reg.pc - 1 = Entry + (i - 1)
    BY <1>4, <2>3
  <2>5. Code[Reg.pc][2] = Entry + (i + 3) /\ Reg.pc + 1 = Entry + (i + 1)
    BY <1>4, <2>3, EvalAssumption DEF Does
  <2>6. b = IF test THEN Entry + (i + 1) ELSE Entry + (i + 3)
    BY <2>2, <2>5
  <2>7. /\ i = 2 => (test <=> Reg.expr[1] = "frame")
        /\ i = 7 => (test <=> Reg.expr[1] \in {"pair", "exception"})
        /\ i = 12 => (test <=> Reg.expr[1] = "builtin")
    BY <2>4, EvalAssumption DEF TypeTests, test
  <2>8. Usable(Reg.expr, Len(envs))
    BY Situation DEF FrameSound
  <2>9. Reg.expr[1] # "builtin" => Good(Reg.expr, Len(envs))
    BY <2>8 DEF Usable, Routines, Builtin
  <2>10. b \in ExprPlain => Good(Reg.expr, Len(envs))
    <3>1. {Entry + 5, Entry + 10, Entry + 13} \cap ExprPlain = {}
      BY EvalAssumption
    <3> QED
      BY <2>6, <2>7, <2>9, <3>1
  <2>11. regs \in default => b \in HandlerPath
    <3>1. regs \in default => Reg.expr = Builtin("default-except-proc")
      BY DEF MachineSound, DefaultSound, Reg
    <3>2. regs \in default => Reg.expr[1] = "builtin"
      BY <3>1 DEF Builtin
    <3> QED
      BY <2>6, <2>7, <3>2, HandlerAssumption
  <2> QED
    BY <1>1, <1>2, <2>10, <2>11
<1>6. CASE Reg.pc \notin Tested
  <2>1. regs \notin default
    BY <1>6, HandlerAssumption DEF MachineSound, DefaultSound, Reg
  <2>2. b \in ExprPlain => Good(Reg.expr, Len(envs))
    BY <1>3, <1>6, Situation DEF FrameSound
  <2> QED
    BY <1>1, <1>2, <2>1, <2>2
<1> QED
  BY <1>5, <1>6

-----------------------------------------------------------------------------
(* The accumulator and the data stack after an instruction. *)

\* A value for the accumulator where the instruction leads.
AccFits(v, b) ==
    /\ Usable(v, Len(envs))
    /\ b \notin AccAny => Good(v, Len(envs))
    /\ b \in Loaded => v = Reg.expr
    /\ b \in Tested => v = Truth(<<Opcode(Reg.pc), Reg.expr[1]>> \in TypeTests)

LEMMA AccStays ==
    ASSUME MachineSound, NEW b \in Targets(Reg.pc), Opcode(Reg.pc) \notin Loads
    PROVE  AccFits(acc, b) /\ b \notin Loaded \cup Tested
<1>1. b \notin Loaded
  BY FlowAssumption, Situation DEF Does, Loads
<1>2. b \notin Tested
  <2>1. b \in Tested => Reg.pc \in Loaded
    BY FlowAssumption, Situation
  <2>2. Opcode(Reg.pc) # "callacc"
    <3>1. b \in Tested => b = Reg.pc + 1
      BY FlowAssumption, Situation
    <3> QED
      BY DEF Targets
  <2> QED
    BY <2>1, <2>2, TestOpcodes DEF Loads
<1>3. b \notin AccAny => Good(acc, Len(envs))
  BY FlowAssumption, Situation DEF MachineSound, AccSound
<1> QED
  BY <1>1, <1>2, <1>3 DEF AccFits, MachineSound, AccSound

LEMMA AccGood ==
    ASSUME MachineSound, NEW b \in Targets(Reg.pc), NEW v, Good(v, Len(envs)),
           Opcode(Reg.pc) \in Loads \ {"load", "framep", "pairp", "builtinp"}
    PROVE  AccFits(v, b) /\ b \notin Loaded \cup Tested
<1>1. b \notin Loaded
  BY FlowAssumption, Situation DEF Does
<1>2. b \notin Tested
  <2>1. b \in Tested => Reg.pc \in Loaded
    BY FlowAssumption, Situation
  <2> QED
    BY <2>1, TestOpcodes DEF Loads
<1> QED
  BY <1>1, <1>2 DEF AccFits, Usable

LEMMA AccTest ==
    ASSUME MachineSound, NEW b \in Targets(Reg.pc),
           Opcode(Reg.pc) \in {"framep", "pairp", "builtinp", "symbolp", "formp"}
    PROVE  AccFits(Truth(<<Opcode(Reg.pc), acc[1]>> \in TypeTests), b)
<1>1. b \notin Loaded
  BY FlowAssumption, Situation DEF Does
<1>2. b \in Tested => acc = Reg.expr
  BY FlowAssumption, Situation DEF MachineSound, AccSound
<1>3. \A x : Good(Truth(x), Len(envs))
  BY GoodConstants
<1> QED
  BY <1>1, <1>2, <1>3 DEF AccFits, Usable

LEMMA AccLoad ==
    ASSUME MachineSound, NEW b \in Targets(Reg.pc), Opcode(Reg.pc) = "load"
    PROVE  AccFits(Reg[Code[Reg.pc][2]], b)
<1>1. Code[Reg.pc][2] \in {"ctxt", "expr"}
  BY AddressAssumption, Situation
<1>2. b \notin Tested
  <2>1. b \in Tested => Reg.pc \in Loaded
    BY FlowAssumption, Situation
  <2> QED
    BY <2>1, TestOpcodes
<1>3. CASE Code[Reg.pc][2] = "ctxt"
  <2>1. b \notin Loaded
    BY <1>3, FlowAssumption, Situation DEF Does
  <2>2. Good(Reg.ctxt, Len(envs))
    BY Situation DEF FrameSound
  <2> QED
    BY <1>2, <1>3, <2>1, <2>2 DEF AccFits, Usable
<1>4. CASE Code[Reg.pc][2] = "expr"
  <2>1. b \notin AccAny => Reg.pc \in ExprPlain
    BY <1>4, FlowAssumption, Situation DEF Does, Loads
  <2>2. Usable(Reg.expr, Len(envs)) /\ (Reg.pc \in ExprPlain => Good(Reg.expr, Len(envs)))
    BY Situation DEF FrameSound
  <2> QED
    BY <1>2, <1>4, <2>1, <2>2 DEF AccFits
<1> QED
  BY <1>1, <1>3, <1>4

\* What the accumulator holds when an instruction takes it.
LEMMA AccTaken ==
    ASSUME MachineSound,
           Opcode(Reg.pc) \in {"set", "setret", "push", "pusharg", "car", "cdr"}
    PROVE  Good(acc, Len(envs))
BY AddressAssumption, Situation DEF MachineSound, AccSound

-----------------------------------------------------------------------------
(* What CallFrames knows of the frames. *)

LEMMA Skeletal ==
    ASSUME Sound
    PROVE  /\ Len(frames) \in 1 .. MaxFrames
           /\ default \subseteq 1 .. Len(frames)
           /\ owners \in Seq(1 .. MaxFrames)
           /\ thrown \in BOOLEAN /\ resumed \in BOOLEAN /\ running \in BOOLEAN
           /\ \A f \in 1 .. Len(frames) :
                 /\ frames[f].parn \in 0 .. f - 1
                 /\ frames[f].exh \in 0 .. Len(frames)
                 /\ frames[f].exh # f
<1> USE MachineAssumption
<1>1. P!Shape /\ P!RankLayer
  BY DEF Sound, P!WaitLayer, P!RankLayer
<1>2. /\ Len(frames) \in 1 .. MaxFrames
      /\ default \subseteq 1 .. Len(frames)
      /\ owners \in Seq(1 .. MaxFrames)
      /\ thrown \in BOOLEAN /\ resumed \in BOOLEAN /\ running \in BOOLEAN
  BY <1>1 DEF P!Shape, P!TypeOK, P!Made, P!Frames
<1>3. ASSUME NEW f \in 1 .. Len(frames)
      PROVE  /\ frames[f].parn \in 0 .. f - 1
             /\ frames[f].exh \in 0 .. Len(frames)
             /\ frames[f].exh # f
  <2>1. f \in 1 .. MaxFrames /\ ~(f > Len(frames))
    BY <1>2
  <2>2. frames[f].parn \in Nat /\ frames[f].parn < f
        /\ frames[f].exh \in Nat /\ frames[f].exh <= Len(frames)
    BY <1>1, <1>2, <2>1, P!Numbers DEF P!Frames, Parents, Handlers
  <2>3. frames[f].exh # f
    <3>1. PICK rank : P!Ranked(rank)
      BY <1>1 DEF P!RankLayer
    <3>2. rank \in [P!FrameRefs -> Nat] /\ rank[frames[f].exh] < rank[f]
      BY <2>1, <3>1 DEF P!Ranked, P!Frames, Handlers
    <3>3. rank[f] \in Nat
      BY <2>1, <3>2 DEF P!FrameRefs
    <3> QED
      BY <3>2, <3>3
  <2> QED
    BY <1>2, <2>1, <2>2, <2>3
<1> QED
  BY <1>2, <1>3

LEMMA ParentWaits ==
    ASSUME Sound, running, ~resumed, Reg.parn # 0
    PROVE  Reg.parn \in 1 .. Len(frames) /\ Doing(Reg.parn) \in {"arg", "sub"}
           /\ Reg.parn # regs
<1>1. regs \in 1 .. Len(frames) /\ regs \in 1 .. MaxFrames /\ ~(regs > Len(frames))
  <2>1. regs \in 1 .. Len(frames)
    BY DEF Sound, MachineSound, FramesSound
  <2>2. Len(frames) \in 1 .. MaxFrames
    BY Skeletal
  <2> QED
    BY <2>1, <2>2, MachineAssumption
<1>2. PICK A : P!Awaited(A)
  BY DEF Sound, P!WaitLayer
<1>3. Reg.parn \in 0 .. regs - 1
  BY <1>1, Skeletal DEF Reg
<1>4. Reg.parn \in 1 .. Len(frames) /\ Reg.parn \in 1 .. MaxFrames /\ Reg.parn # regs
  <2>1. Len(frames) \in 1 .. MaxFrames
    BY Skeletal
  <2>2. Reg.parn \in 1 .. regs - 1
    BY <1>1, <1>3
  <2> QED
    BY <1>1, <2>1, <2>2, MachineAssumption
<1>5. Doing(Reg.parn) \in {"arg", "sub"}
  BY <1>1, <1>2, <1>4 DEF P!Awaited, Reg, Parents, Stands
<1> QED
  BY <1>4, <1>5

-----------------------------------------------------------------------------
(* The notes. *)

\* A step of the current frame, which stays current, and makes no other.
LEMMA QuietNote ==
    ASSUME Sound, running, Note, regs' = regs, Len(frames') = Len(frames),
           IsSeq(frames')
    PROVE  /\ default' = default /\ held' = held /\ entered' = entered
           /\ thrown' = thrown
<1>1. default' = default
  BY DEF Note
<1>2. ~Throws
  BY DEF Throws
<1>3. entered' = entered /\ thrown' = thrown
  BY <1>2, Skeletal DEF Note
<1>4. DOMAIN frames' = DOMAIN frames
  <2>1. IsSeq(frames)
    BY DEF Sound, MachineSound, FramesSound
  <2>2. frames = [i \in 1 .. Len(frames) |-> frames[i]]
    BY <2>1, SeqRule
  <2>3. frames' = [i \in 1 .. Len(frames') |-> frames'[i]]
    BY SeqRule
  <2> QED
    BY <2>2, <2>3
<1>5. held' = held
  BY <1>4 DEF Note
<1> QED
  BY <1>1, <1>3, <1>5

\* Such a step keeps the invariant if it does for the frame itself, the
\* accumulator and the data stack.
LEMMA KeptSound ==
    ASSUME Sound, running, Note, NEW q, Kept(q),
           FrameSound(q, Len(envs')), EnvironmentsSound', Len(envs) <= Len(envs'),
           q.excn = Reg.excn, AccSound', StackSound',
           regs \in default =>
              q.pc \in HandlerPath /\ q.expr = Builtin("default-except-proc")
    PROVE  MachineSound'
<1>1. /\ regs' = regs /\ IsSeq(frames') /\ Len(frames') = Len(frames)
      /\ \A g \in 1 .. Len(frames) :
            frames'[g] = IF g = regs THEN q ELSE frames[g]
      /\ UNCHANGED <<running, program, runs>>
  BY DEF Kept
<1>2. /\ IsSeq(frames) /\ regs \in 1 .. Len(frames)
      /\ \A f \in 1 .. Len(frames) :
            FrameSound(frames[f], Len(envs)) /\ (f # regs => frames[f].pc \notin Halfway)
  BY DEF Sound, MachineSound, FramesSound
<1>3. Len(envs) \in Nat /\ Len(envs') \in Nat
  BY DEF Sound, MachineSound, EnvironmentsSound, EnvsSound
<1>4. FramesSound'
  <2>1. ASSUME NEW f \in 1 .. Len(frames)
        PROVE  /\ FrameSound(frames'[f], Len(envs'))
               /\ f # regs => frames'[f].pc \notin Halfway
    BY <1>1, <1>2, <1>3, FrameLater
  <2> QED
    BY <1>1, <1>2, <2>1 DEF FramesSound
<1>5. default' = default /\ thrown' = thrown
  BY <1>1, QuietNote
<1>6. default \subseteq 1 .. Len(frames)
  BY Skeletal
<1>7. DefaultSound'
  BY <1>1, <1>5, <1>6 DEF DefaultSound, Sound, MachineSound
<1>8. ThrownSound'
  <2>1. \A f \in 1 .. Len(frames) : frames'[f].excn = frames[f].excn
    BY <1>1, <1>2 DEF Reg
  <2> QED
    BY <1>1, <1>5, <2>1 DEF ThrownSound, Sound, MachineSound
<1>9. HostSound'
  BY <1>1 DEF HostSound, Sound, MachineSound
<1> QED
  BY <1>4, <1>7, <1>8, <1>9 DEF MachineSound

\* The entries of the data stack, when there are more environments.
LEMMA NewReg ==
    ASSUME MachineSound, NEW q, Kept(q)
    PROVE  Reg' = q
BY DEF Kept, Reg, MachineSound, FramesSound

LEMMA AccFitsSound ==
    ASSUME MachineSound, NEW q, Kept(q), q.pc \in Targets(Reg.pc),
           q.expr = Reg.expr \/ q.pc \notin Loaded \cup Tested,
           UNCHANGED envs, AccFits(acc', q.pc), Good(ret', Len(envs))
    PROVE  AccSound'
<1>1. Reg' = q
  BY NewReg
<1>2. q.pc \in Tested => q.pc - 1 = Reg.pc
  BY FlowAssumption, AddressAssumption, Situation
<1> QED
  BY <1>1, <1>2 DEF AccFits, AccSound

LEMMA StackKept ==
    ASSUME Sound, Note, NEW q, Kept(q), q.pc \in Targets(Reg.pc),
           Opcode(Reg.pc) \notin {"push", "pop", "snap", "callb"},
           UNCHANGED <<envs, stack>>
    PROVE  StackSound' /\ owners' = owners
<1>1. Reg' = q
  BY NewReg DEF Sound
<1>2. q.pc \in Pushed <=> Reg.pc \in Pushed
  BY FlowAssumption, Situation DEF Sound
<1>3. owners' = owners
  BY DEF Note, NoteOwners, Op, Opcode
<1> QED
  BY <1>1, <1>2, <1>3 DEF Sound, MachineSound, StackSound

-----------------------------------------------------------------------------
(* The opcodes that leave the current frame current. *)

\* A step of CallFrames or none.
Follows == P!Next \/ UNCHANGED P!vars

LEMMA QuietFollows ==
    ASSUME Sound, running, Note, ~resumed', NEW q, Kept(q),
           q.parn = Reg.parn, q.exh = Reg.exh, owners' = owners,
           Reg.pc # ArgDone, q.pc # ArgDone
    PROVE  UNCHANGED P!vars
<1>1. /\ regs' = regs /\ IsSeq(frames') /\ Len(frames') = Len(frames)
      /\ \A g \in 1 .. Len(frames) :
            frames'[g] = IF g = regs THEN q ELSE frames[g]
      /\ running' = running
  BY DEF Kept
<1>2. regs \in 1 .. Len(frames)
  BY DEF Sound, MachineSound, FramesSound
<1>3. Len(frames) \in 1 .. MaxFrames
  BY Skeletal
<1>4. \A f \in 1 .. MaxFrames : Doing(f)' = Doing(f)
  BY <1>1, <1>2, <1>3 DEF Doing, Reg
<1>5. \A f \in 1 .. Len(frames) :
         frames'[f].parn = frames[f].parn /\ frames'[f].exh = frames[f].exh
  BY <1>1, <1>2 DEF Reg
<1>6. /\ default' = default /\ held' = held /\ entered' = entered
      /\ thrown' = thrown
  BY <1>1, QuietNote
<1>7. resumed' = resumed
  BY Skeletal DEF Note
<1> QED
  BY <1>1, <1>3, <1>4, <1>5, <1>6, <1>7 DEF P!vars, Parents, Handlers, Stands

\* Most instructions change at most one register and move on.
LEMMA MoveStep ==
    ASSUME Sound, running, Note, ~resumed',
           NEW r, FrameSound(r, Len(envs)),
           r.parn = Reg.parn, r.exh = Reg.exh, r.excn = Reg.excn,
           NEW b \in Targets(Reg.pc), NEW q, q = [r EXCEPT !.pc = b], Kept(q),
           Opcode(Reg.pc) \notin {"push", "pop", "snap", "callb"},
           b \in ExprPlain => Good(r.expr, Len(envs)),
           AccFits(acc', b), Good(ret', Len(envs)), UNCHANGED <<envs, stack>>,
           r.expr = Reg.expr \/ b \notin Loaded \cup Tested,
           regs \in default => b \in HandlerPath /\ r.expr = Reg.expr
    PROVE  MachineSound' /\ Follows
<1>0. MachineSound
  BY DEF Sound
<1>1. b \in Addresses \ {Reg.pc, ArgDone, EvalNative}
  BY <1>0, FlowAssumption, Situation
<1>2. FrameSound(q, Len(envs)) /\ q.pc = b
      /\ \A x \in RegisterNames \ {"pc"} : q[x] = r[x]
  BY <1>1, MovedFrame
<1>3. q.expr = r.expr /\ q.parn = r.parn /\ q.exh = r.exh /\ q.excn = r.excn
  BY <1>2 DEF RegisterNames
<1>4. AccSound'
  BY <1>0, <1>2, <1>3, AccFitsSound
<1>5. StackSound' /\ owners' = owners
  BY <1>2, StackKept
<1>6. EnvironmentsSound' /\ Len(envs') = Len(envs) /\ Len(envs) <= Len(envs')
  BY <1>0 DEF MachineSound, EnvironmentsSound, EnvsSound
<1>7. regs \in default =>
         q.pc \in HandlerPath /\ q.expr = Builtin("default-except-proc")
  BY <1>0, <1>2, <1>3 DEF MachineSound, DefaultSound, Reg
<1>8. MachineSound'
  BY <1>2, <1>3, <1>4, <1>5, <1>6, <1>7, KeptSound
<1>9. Reg.pc # ArgDone
  BY WaitAssumption
<1>10. UNCHANGED P!vars
  BY <1>1, <1>2, <1>3, <1>5, <1>9, QuietFollows
<1> QED
  BY <1>8, <1>10 DEF Follows

\* Those that only load the accumulator.
LEMMA LoadStep ==
    ASSUME Sound, running, Note, ~resumed', NEW v, Load(v),
           Opcode(Reg.pc) \in Loads \ {"pop"}, AccFits(v, Reg.pc + 1)
    PROVE  MachineSound' /\ Follows
<1>0. MachineSound
  BY DEF Sound
<1>1. acc' = v /\ With(Reg) /\ ret' = ret /\ UNCHANGED <<envs, stack>>
  BY DEF Load
<1>2. PICK b : b = Reg.pc + 1
  OBVIOUS
<1>3. PICK q : q = [Reg EXCEPT !.pc = b]
  OBVIOUS
<1>4. Kept(q)
  <2>1. FramesSound
    BY <1>0 DEF MachineSound
  <2> QED
    BY <1>1, <1>2, <1>3, <2>1, WithRule
<1>5. b \in Targets(Reg.pc)
  BY <1>2 DEF Targets, Loads
<1>6. b \in ExprPlain => Good(Reg.expr, Len(envs))
  BY <1>0, <1>5, PlainTarget DEF Does, Loads
<1>7. Good(ret', Len(envs))
  BY <1>0, <1>1 DEF MachineSound, AccSound
<1>8. regs \in default => b \in HandlerPath
  BY <1>0, <1>2, HandlerAssumption DEF MachineSound, DefaultSound, Reg, Loads
<1>9. FrameSound(Reg, Len(envs))
  BY <1>0, Situation
<1>10. Opcode(Reg.pc) \notin {"push", "pop", "snap", "callb"}
  BY DEF Loads
<1>11. AccFits(acc', b)
  BY <1>1, <1>2
<1> QED
  BY <1>1, <1>3, <1>4, <1>5, <1>6, <1>7, <1>8, <1>9, <1>10, <1>11, MoveStep

LEMMA LoadSteps ==
    ASSUME Sound, Note, ~resumed',
           OpCar \/ OpCdr \/ OpLoad \/ OpLoadnil \/ OpLoadret \/ OpTypeTest
    PROVE  MachineSound' /\ Follows
<1>0. MachineSound
  BY DEF Sound
<1>1. ASSUME NEW name, Op(name)
      PROVE  running /\ Opcode(Reg.pc) = name
  BY <1>0, <1>1, Situation
<1>2. ASSUME Opcode(Reg.pc) \in Loads
      PROVE  Reg.pc + 1 \in Targets(Reg.pc)
  BY <1>2 DEF Loads, Targets
<1>3. CASE OpCar
  <2>1. running /\ Opcode(Reg.pc) = "car" /\ Is("pair", acc) /\ Load(acc[2])
    BY <1>1, <1>3 DEF OpCar
  <2>2. Good(acc[2], Len(envs))
    BY <1>0, <2>1, AccTaken, GoodParts
  <2>3. Reg.pc + 1 \in Targets(Reg.pc)
    BY <1>2, <2>1 DEF Loads
  <2>4. AccFits(acc[2], Reg.pc + 1)
    BY <1>0, <2>1, <2>2, <2>3, AccGood DEF Loads
  <2> QED
    BY <2>1, <2>4, LoadStep DEF Loads
<1>4. CASE OpCdr
  <2>1. running /\ Opcode(Reg.pc) = "cdr" /\ Is("pair", acc) /\ Load(acc[3])
    BY <1>1, <1>4 DEF OpCdr
  <2>2. Good(acc[3], Len(envs))
    BY <1>0, <2>1, AccTaken, GoodParts
  <2>3. Reg.pc + 1 \in Targets(Reg.pc)
    BY <1>2, <2>1 DEF Loads
  <2>4. AccFits(acc[3], Reg.pc + 1)
    BY <1>0, <2>1, <2>2, <2>3, AccGood DEF Loads
  <2> QED
    BY <2>1, <2>4, LoadStep DEF Loads
<1>5. CASE OpLoad
  <2>1. running /\ Opcode(Reg.pc) = "load" /\ Load(Reg[Code[Reg.pc][2]])
    BY <1>1, <1>5 DEF OpLoad, Operand
  <2>2. Reg.pc + 1 \in Targets(Reg.pc)
    BY <1>2, <2>1 DEF Loads
  <2>3. AccFits(Reg[Code[Reg.pc][2]], Reg.pc + 1)
    BY <1>0, <2>1, <2>2, AccLoad
  <2> QED
    BY <2>1, <2>3, LoadStep DEF Loads
<1>6. CASE OpLoadnil
  <2>1. running /\ Opcode(Reg.pc) = "loadnil" /\ Load(Nil)
    BY <1>1, <1>6 DEF OpLoadnil
  <2>2. Reg.pc + 1 \in Targets(Reg.pc) /\ Good(Nil, Len(envs))
    BY <1>2, <2>1, GoodConstants DEF Loads
  <2>3. AccFits(Nil, Reg.pc + 1)
    BY <1>0, <2>1, <2>2, AccGood DEF Loads
  <2> QED
    BY <2>1, <2>3, LoadStep DEF Loads
<1>7. CASE OpLoadret
  <2>1. running /\ Opcode(Reg.pc) = "loadret" /\ Load(ret)
    BY <1>1, <1>7 DEF OpLoadret
  <2>2. Reg.pc + 1 \in Targets(Reg.pc) /\ Good(ret, Len(envs))
    BY <1>0, <1>2, <2>1 DEF Loads, MachineSound, AccSound
  <2>3. AccFits(ret, Reg.pc + 1)
    BY <1>0, <2>1, <2>2, AccGood DEF Loads
  <2> QED
    BY <2>1, <2>3, LoadStep DEF Loads
<1>8. CASE OpTypeTest
  <2>1. PICK test \in {"pairp", "symbolp", "formp", "framep", "builtinp"} :
           Op(test) /\ Load(Truth(<<test, acc[1]>> \in TypeTests))
    BY <1>8 DEF OpTypeTest, TypeTests
  <2>2. running /\ Opcode(Reg.pc) = test
    BY <1>1, <2>1
  <2>3. Reg.pc + 1 \in Targets(Reg.pc)
    BY <1>2, <2>2 DEF Loads
  <2>4. AccFits(Truth(<<test, acc[1]>> \in TypeTests), Reg.pc + 1)
    BY <1>0, <2>2, <2>3, AccTest
  <2> QED
    BY <2>1, <2>2, <2>4, LoadStep DEF Loads
<1> QED
  BY <1>3, <1>4, <1>5, <1>6, <1>7, <1>8

\* An instruction that changes no more than a register of the current frame.
LEMMA RegisterStep ==
    ASSUME Sound, running, Note, ~resumed',
           NEW x \in {"ctxt", "expr", "proc", "args"}, NEW v, Good(v, Len(envs)),
           NEW r, r = [Reg EXCEPT ![x] = v], With(r), UNCHANGED <<acc, ret, envs, stack>>,
           Opcode(Reg.pc) \in {"set", "pusharg"},
           x = "expr" \/ ~Does(Reg.pc, "set", "expr")
    PROVE  MachineSound' /\ Follows
<1>0. MachineSound
  BY DEF Sound
<1>1. FrameSound(Reg, Len(envs))
  BY <1>0, Situation
<1>2. /\ FrameSound(r, Len(envs)) /\ r[x] = v
      /\ \A y \in RegisterNames \ {x} : r[y] = Reg[y]
      /\ r.pc = Reg.pc
  <2>1. FrameSound(r, Len(envs))
    BY <1>1, SetFrame
  <2>2. r[x] = v
    <3>1. Reg = [y \in RegisterNames |-> Reg[y]] /\ x \in RegisterNames
      BY <1>1 DEF FrameSound, RegisterNames
    <3> QED
      BY <3>1
  <2>3. \A y \in RegisterNames \ {x} : r[y] = Reg[y]
    BY <1>1, SetFrame
  <2>4. r.pc = Reg.pc
    BY <1>1, SetFrame
  <2> QED
    BY <2>1, <2>2, <2>3, <2>4
<1>3. r.parn = Reg.parn /\ r.exh = Reg.exh /\ r.excn = Reg.excn
  BY <1>2 DEF RegisterNames
<1>4. PICK b : b = Reg.pc + 1
  OBVIOUS
<1>5. PICK q : q = [r EXCEPT !.pc = b]
  OBVIOUS
<1>6. Kept(q)
  <2>1. FramesSound
    BY <1>0 DEF MachineSound
  <2> QED
    BY <1>2, <1>4, <1>5, <2>1, WithRule
<1>7. b \in Targets(Reg.pc)
  BY <1>4 DEF Targets
<1>8. b \in ExprPlain => Good(r.expr, Len(envs))
  <2>1. CASE x = "expr"
    BY <1>2, <2>1
  <2>2. CASE x # "expr"
    <3>1. r.expr = Reg.expr
      BY <1>2, <2>2 DEF RegisterNames
    <3>2. b \in ExprPlain => Good(Reg.expr, Len(envs))
      BY <1>0, <1>7, <2>2, PlainTarget
    <3> QED
      BY <3>1, <3>2
  <2> QED
    BY <2>1, <2>2
<1>9. AccFits(acc', b) /\ b \notin Loaded \cup Tested
  BY <1>0, <1>7, AccStays DEF Loads
<1>10. Good(ret', Len(envs))
  BY <1>0 DEF MachineSound, AccSound
<1>11. regs \notin default
  BY <1>0, HandlerAssumption DEF MachineSound, DefaultSound, Reg
<1>12. Opcode(Reg.pc) \notin {"push", "pop", "snap", "callb"}
  OBVIOUS
<1> QED
  BY <1>2, <1>3, <1>5, <1>6, <1>7, <1>8, <1>9, <1>10, <1>11, <1>12, MoveStep

LEMMA SetSteps ==
    ASSUME Sound, Note, ~resumed', OpSet \/ OpPusharg
    PROVE  MachineSound' /\ Follows
<1>0. MachineSound
  BY DEF Sound
<1>1. ASSUME NEW name, Op(name)
      PROVE  running /\ Opcode(Reg.pc) = name
  BY <1>0, <1>1, Situation
<1>2. CASE OpSet
  <2>1. running /\ Opcode(Reg.pc) = "set"
    BY <1>1, <1>2 DEF OpSet
  <2>2. Operand \in {"ctxt", "expr", "proc", "args"}
    BY <1>0, <2>1, AddressAssumption, Situation DEF Operand
  <2>3. Good(acc, Len(envs))
    BY <1>0, <2>1, AccTaken
  <2>4. PICK r : r = [Reg EXCEPT ![Operand] = acc]
    OBVIOUS
  <2>5. With(r) /\ UNCHANGED <<acc, ret, envs, stack>>
    BY <1>2, <2>4 DEF OpSet, Quiet
  <2>6. Operand = "expr" \/ ~Does(Reg.pc, "set", "expr")
    BY DEF Does, Operand
  <2> QED
    BY <2>1, <2>2, <2>3, <2>4, <2>5, <2>6, RegisterStep
<1>3. CASE OpPusharg
  <2>1. running /\ Opcode(Reg.pc) = "pusharg"
    BY <1>1, <1>3 DEF OpPusharg
  <2>2. PICK v : v = Pair(acc, Reg.args)
    OBVIOUS
  <2>3. Good(v, Len(envs))
    BY <1>0, <2>1, <2>2, AccTaken, GoodPair, Situation DEF FrameSound
  <2>4. PICK r : r = [Reg EXCEPT !.args = v]
    OBVIOUS
  <2>5. With(r) /\ UNCHANGED <<acc, ret, envs, stack>>
    BY <1>3, <2>2, <2>4 DEF OpPusharg, Quiet
  <2>6. ~Does(Reg.pc, "set", "expr")
    BY <2>1 DEF Does
  <2> QED
    BY <2>1, <2>3, <2>4, <2>5, <2>6, RegisterStep
<1> QED
  BY <1>2, <1>3

\* An instruction after which the registers are as before.
LEMMA GoStep ==
    ASSUME Sound, running, Note, ~resumed', NEW b \in Targets(Reg.pc),
           NEW q, q = [Reg EXCEPT !.pc = b], Kept(q),
           Opcode(Reg.pc) \in {"setret", "call", "jmp", "skipz"},
           Good(ret', Len(envs)), UNCHANGED <<acc, envs, stack>>,
           b \in ExprPlain => Good(Reg.expr, Len(envs)),
           regs \in default => b \in HandlerPath
    PROVE  MachineSound' /\ Follows
<1>0. MachineSound
  BY DEF Sound
<1>1. FrameSound(Reg, Len(envs))
  BY <1>0, Situation
<1>2. AccFits(acc', b)
  BY <1>0, AccStays DEF Loads
<1>3. Opcode(Reg.pc) \notin {"push", "pop", "snap", "callb"}
  OBVIOUS
<1> QED
  BY <1>1, <1>2, <1>3, MoveStep

LEMMA GoSteps ==
    ASSUME Sound, Note, ~resumed', OpSetret \/ OpCall \/ OpJmp \/ OpSkipz
    PROVE  MachineSound' /\ Follows
<1>0. MachineSound /\ FramesSound
  BY DEF Sound, MachineSound
<1>1. ASSUME NEW name, Op(name)
      PROVE  running /\ Opcode(Reg.pc) = name
  BY <1>0, <1>1, Situation
<1>2. Good(ret, Len(envs))
  BY <1>0 DEF MachineSound, AccSound
<1>3. "pc" \in DOMAIN Reg
  BY <1>0, Situation DEF RegisterNames
<1>4. ASSUME Opcode(Reg.pc) \in {"setret", "call", "jmp"} PROVE regs \notin default
  BY <1>0, <1>4, HandlerAssumption DEF MachineSound, DefaultSound, Reg
<1>5. CASE OpSetret
  <2>1. running /\ Opcode(Reg.pc) = "setret" /\ ret' = acc /\ With(Reg)
        /\ UNCHANGED <<acc, envs, stack>>
    BY <1>1, <1>5 DEF OpSetret
  <2>2. PICK b : b = Reg.pc + 1
    OBVIOUS
  <2>3. PICK q : q = [Reg EXCEPT !.pc = b]
    OBVIOUS
  <2>4. Kept(q)
    BY <1>0, <2>1, <2>2, <2>3, WithRule
  <2>5. b \in Targets(Reg.pc)
    BY <2>1, <2>2 DEF Targets
  <2>6. b \in ExprPlain => Good(Reg.expr, Len(envs))
    BY <1>0, <2>1, <2>5, PlainTarget DEF Does
  <2>7. Good(ret', Len(envs))
    BY <1>0, <2>1, AccTaken
  <2> QED
    BY <1>4, <2>1, <2>3, <2>4, <2>5, <2>6, <2>7, GoStep
<1>6. CASE OpCall \/ OpJmp
  <2>1. PICK b : b = Code[Reg.pc][2]
    OBVIOUS
  <2>2. running /\ Opcode(Reg.pc) \in {"call", "jmp"} /\ Jump(Reg, b)
        /\ UNCHANGED <<acc, ret, envs, stack>>
    BY <1>1, <1>6, <2>1 DEF OpCall, OpJmp, Operand, Quiet
  <2>3. PICK q : q = [Reg EXCEPT !.pc = b]
    OBVIOUS
  <2>4. b \in Targets(Reg.pc)
    BY <2>1, <2>2 DEF Targets
  <2>5. b # Reg.pc /\ (b \in ExprPlain => Good(Reg.expr, Len(envs)))
    BY <1>0, <2>2, <2>4, PlainTarget DEF Does
  <2>6. Kept(q)
    BY <1>0, <1>3, <2>2, <2>3, <2>5, JumpRule
  <2>7. Good(ret', Len(envs)) /\ UNCHANGED <<acc, envs, stack>>
    BY <1>2, <2>2
  <2> QED
    BY <1>4, <2>2, <2>3, <2>4, <2>5, <2>6, <2>7, GoStep
<1>7. CASE OpSkipz
  <2>1. PICK b : b = IF Zero(acc) THEN Code[Reg.pc][2] ELSE Reg.pc + 1
    OBVIOUS
  <2>2. running /\ Opcode(Reg.pc) = "skipz" /\ UNCHANGED <<acc, ret, envs, stack>>
    BY <1>1, <1>7 DEF OpSkipz, Quiet
  <2>3. PICK q : q = [Reg EXCEPT !.pc = b]
    OBVIOUS
  <2>4. /\ b \in Targets(Reg.pc) /\ b # Reg.pc
        /\ b \in ExprPlain => Good(Reg.expr, Len(envs))
        /\ regs \in default => b \in HandlerPath
    BY <1>0, <2>1, <2>2, SkipTarget
  <2>5. Kept(q)
    <3>1. CASE Zero(acc)
      <4>1. Jump(Reg, b)
        BY <1>7, <2>1, <3>1 DEF OpSkipz, Operand
      <4> QED
        BY <1>0, <1>3, <2>3, <2>4, <4>1, JumpRule
    <3>2. CASE ~Zero(acc)
      <4>1. With(Reg) /\ b = Reg.pc + 1
        BY <1>7, <2>1, <3>2 DEF OpSkipz
      <4> QED
        BY <1>0, <2>3, <4>1, WithRule
    <3> QED
      BY <3>1, <3>2
  <2>6. Good(ret', Len(envs)) /\ UNCHANGED <<acc, envs, stack>>
    BY <1>2, <2>2
  <2> QED
    BY <2>2, <2>3, <2>4, <2>5, <2>6, GoStep
<1> QED
  BY <1>5, <1>6, <1>7

\* What is noted of an instruction that is not a CALLB.
LEMMA PlainNote ==
    ASSUME Sound, running, Note, Opcode(Reg.pc) # "callb"
    PROVE  /\ default' = default /\ held' = held /\ entered' = entered
           /\ thrown' = thrown /\ resumed' = resumed
<1>1. ~Op("callb") /\ ~Throws /\ \A name : ~Callb(name)
  BY DEF Throws, Callb, Op, Opcode
<1>2. default' = default /\ held' = held /\ entered' = entered
  BY <1>1 DEF Note
<1>3. thrown' = thrown /\ resumed' = resumed
  BY <1>1, Skeletal DEF Note
<1> QED
  BY <1>2, <1>3

\* Where no default handler is.
LEMMA NotDefault ==
    ASSUME MachineSound,
           Opcode(Reg.pc) \notin {"load", "framep", "pairp", "builtinp", "skipz",
                                  "callacc", "callb", "return"}
    PROVE  regs \notin default
BY HandlerAssumption DEF MachineSound, DefaultSound, Reg

LEMMA CallaccStep ==
    ASSUME Sound, Note, ~resumed', OpCallacc
    PROVE  MachineSound' /\ Follows
<1>0. MachineSound /\ FramesSound
  BY DEF Sound, MachineSound
<1>1. running /\ Opcode(Reg.pc) = "callacc" /\ Is("builtin", acc)
      /\ Jump(Reg, acc[2]) /\ UNCHANGED <<acc, ret, envs, stack>>
  BY <1>0, Situation DEF OpCallacc, Quiet
<1>2. Reg.pc = Entry + 14 /\ Reg.pc \in Loaded /\ Reg.pc \notin Pushed
  BY <1>0, <1>1, AddressAssumption, Situation DEF Loaded
<1>3. acc = Reg.expr /\ Usable(acc, Len(envs))
  BY <1>0, <1>2 DEF MachineSound, AccSound
<1>4. acc \in Routines
  BY <1>1, <1>3, GoodParts DEF Usable
<1>5. PICK name \in RoutineNames : acc = Builtin(name)
  BY <1>4 DEF Routines
<1>6. PICK b : b = Address[name]
  OBVIOUS
<1>7. acc[2] = b
  BY <1>5, <1>6 DEF Builtin
<1>8. /\ b \in (Addresses \cap AccAny) \ (Waits \cup Halfway \cup ExprPlain)
      /\ b # Reg.pc
      /\ b = EvalNative => name = "eval-native-proc"
  BY <1>2, <1>6, BuiltinAssumption
<1>9. PICK q : q = [Reg EXCEPT !.pc = b]
  OBVIOUS
<1>10. "pc" \in DOMAIN Reg
  BY <1>0, Situation DEF RegisterNames
<1>11. Kept(q)
  BY <1>0, <1>1, <1>7, <1>8, <1>9, <1>10, JumpRule
<1>12. FrameSound(Reg, Len(envs))
  BY <1>0, Situation
<1>13. b = EvalNative => Reg.env # 1
  BY <1>3, <1>5, <1>8, <1>12 DEF FrameSound
<1>14. FrameSound(q, Len(envs)) /\ q.pc = b
       /\ \A x \in RegisterNames \ {"pc"} : q[x] = Reg[x]
  BY <1>8, <1>9, <1>12, <1>13, MovedFrame
<1>15. q.expr = Reg.expr /\ q.parn = Reg.parn /\ q.exh = Reg.exh /\ q.excn = Reg.excn
  BY <1>14 DEF RegisterNames
<1>16. Reg' = q
  BY <1>0, <1>11, NewReg
<1>17. AccSound'
  BY <1>0, <1>1, <1>8, <1>14, <1>16 DEF AccSound, MachineSound, Halfway
<1>18. owners' = owners
  BY <1>1 DEF Note, NoteOwners, Op, Opcode
<1>19. StackSound'
  BY <1>0, <1>1, <1>2, <1>8, <1>14, <1>16, <1>18 DEF StackSound, MachineSound, Halfway
<1>20. EnvironmentsSound' /\ Len(envs') = Len(envs) /\ Len(envs) <= Len(envs')
  BY <1>0, <1>1 DEF MachineSound, EnvironmentsSound, EnvsSound
<1>21. regs \in default =>
          q.pc \in HandlerPath /\ q.expr = Builtin("default-except-proc")
  <2>1. SUFFICES ASSUME regs \in default
                 PROVE  q.pc \in HandlerPath /\ q.expr = Builtin("default-except-proc")
    OBVIOUS
  <2>2. Reg.expr = Builtin("default-except-proc")
    BY <1>0, <2>1 DEF MachineSound, DefaultSound, Reg
  <2>3. b = Default
    BY <1>3, <1>7, <2>2 DEF Builtin, Default
  <2> QED
    BY <1>14, <1>15, <2>2, <2>3 DEF HandlerPath
<1>22. MachineSound'
  BY <1>1, <1>11, <1>14, <1>15, <1>17, <1>19, <1>20, <1>21, KeptSound
<1>23. Reg.pc # ArgDone /\ q.pc # ArgDone
  BY <1>1, <1>8, <1>14, WaitAssumption
<1>24. UNCHANGED P!vars
  BY <1>1, <1>11, <1>15, <1>18, <1>23, QuietFollows
<1> QED
  BY <1>22, <1>24 DEF Follows

\* PUSH and POP: where they lead, and the frame that is there.
LEMMA StackMove ==
    ASSUME Sound, With(Reg), Opcode(Reg.pc) \in {"push", "pop"},
           NEW q, q = [Reg EXCEPT !.pc = Reg.pc + 1]
    PROVE  /\ Kept(q) /\ Reg' = q
           /\ FrameSound(q, Len(envs))
           /\ q.pc = Reg.pc + 1 /\ q.pc \in Targets(Reg.pc)
           /\ q.pc # ArgDone
           /\ q.expr = Reg.expr /\ q.parn = Reg.parn /\ q.exh = Reg.exh
           /\ q.excn = Reg.excn
<1>0. MachineSound /\ FramesSound
  BY DEF Sound, MachineSound
<1>1. PICK b : b = Reg.pc + 1
  OBVIOUS
<1>2. b \in Targets(Reg.pc)
  BY <1>1 DEF Targets
<1>3. b \in Addresses \ {Reg.pc, ArgDone, EvalNative}
      /\ (b \in ExprPlain => Good(Reg.expr, Len(envs)))
  BY <1>0, <1>2, PlainTarget DEF Does
<1>4. q = [Reg EXCEPT !.pc = b]
  BY <1>1
<1>5. Kept(q)
  BY <1>0, WithRule
<1>6. Reg' = q
  BY <1>0, <1>5, NewReg
<1>7. FrameSound(Reg, Len(envs))
  BY <1>0, Situation
<1>8. FrameSound(q, Len(envs)) /\ q.pc = b
      /\ \A x \in RegisterNames \ {"pc"} : q[x] = Reg[x]
  <2>1. FrameSound(q, Len(envs))
    BY <1>3, <1>4, <1>7, MovedFrame
  <2>2. q.pc = b
    <3>1. "pc" \in DOMAIN Reg
      BY <1>0, Situation DEF RegisterNames
    <3> QED
      BY <1>4, <3>1
  <2>3. \A x \in RegisterNames \ {"pc"} : q[x] = Reg[x]
    BY <1>3, <1>4, <1>7, MovedFrame
  <2> QED
    BY <2>1, <2>2, <2>3
<1>9. q.expr = Reg.expr /\ q.parn = Reg.parn /\ q.exh = Reg.exh /\ q.excn = Reg.excn
  BY <1>8 DEF RegisterNames
<1> QED
  BY <1>1, <1>2, <1>3, <1>5, <1>6, <1>8, <1>9

LEMMA PushStep ==
    ASSUME Sound, Note, ~resumed', OpPush
    PROVE  MachineSound' /\ Follows
<1>0. MachineSound
  BY DEF Sound
<1>1. running /\ Opcode(Reg.pc) = "push" /\ stack' = Append(stack, acc)
      /\ With(Reg) /\ UNCHANGED <<acc, ret, envs>>
  BY <1>0, Situation DEF OpPush
<1>2. PICK q : q = [Reg EXCEPT !.pc = Reg.pc + 1]
  OBVIOUS
<1>3. /\ Kept(q) /\ Reg' = q
      /\ FrameSound(q, Len(envs))
      /\ q.pc = Reg.pc + 1 /\ q.pc \in Targets(Reg.pc)
      /\ q.pc # ArgDone
      /\ q.expr = Reg.expr /\ q.parn = Reg.parn /\ q.exh = Reg.exh
      /\ q.excn = Reg.excn
  BY <1>1, <1>2, StackMove
<1>4. AccFits(acc', q.pc)
  BY <1>0, <1>1, <1>3, AccStays DEF Loads
<1>5. Good(ret', Len(envs))
  BY <1>0, <1>1 DEF MachineSound, AccSound
<1>6. AccSound'
  BY <1>0, <1>1, <1>3, <1>4, <1>5, AccFitsSound
<1>7. owners' = owners
  BY <1>1 DEF Note, NoteOwners, Op, Opcode
<1>8. Reg.pc \notin Pushed /\ q.pc \in Pushed
  BY <1>0, <1>1, <1>3, StackAssumption, FlowAssumption, Situation
<1>9. IsSeq(stack) /\ Len(stack) = Len(owners) + 0
      /\ \A i \in 1 .. Len(stack) : Good(stack[i], Len(envs))
  BY <1>0, <1>8 DEF MachineSound, StackSound
<1>10. Good(acc, Len(envs))
  BY <1>0, <1>1, AccTaken
<1>11. Len(stack) \in Nat
  BY <1>9, SeqRule
<1>12. /\ IsSeq(stack') /\ Len(stack') = Len(stack) + 1
       /\ \A i \in 1 .. Len(stack) : stack'[i] = stack[i]
       /\ stack'[Len(stack) + 1] = acc
  BY <1>1, <1>9, AppendRule
<1>13. \A i \in 1 .. Len(stack') : Good(stack'[i], Len(envs))
  BY <1>9, <1>10, <1>11, <1>12
<1>14. Len(owners) \in Nat
  BY Skeletal, <1>9, <1>11
<1>15. Len(stack') = Len(owners') + 1
  BY <1>7, <1>9, <1>12, <1>14
<1>16. StackSound'
  BY <1>1, <1>3, <1>8, <1>12, <1>13, <1>15 DEF StackSound
<1>17. EnvironmentsSound' /\ Len(envs') = Len(envs) /\ Len(envs) <= Len(envs')
  BY <1>0, <1>1 DEF MachineSound, EnvironmentsSound, EnvsSound
<1>18. regs \notin default
  BY <1>0, <1>1, NotDefault
<1>19. MachineSound'
  BY <1>1, <1>3, <1>6, <1>16, <1>17, <1>18, KeptSound
<1>20. Reg.pc # ArgDone
  BY <1>1, WaitAssumption
<1>21. UNCHANGED P!vars
  BY <1>1, <1>3, <1>7, <1>20, QuietFollows
<1> QED
  BY <1>19, <1>21 DEF Follows

LEMMA PopStep ==
    ASSUME Sound, Note, ~resumed', OpPop
    PROVE  MachineSound' /\ Follows
<1>0. MachineSound
  BY DEF Sound
<1>1. running /\ Opcode(Reg.pc) = "pop" /\ stack # <<>>
      /\ acc' = stack[Len(stack)] /\ stack' = SubSeq(stack, 1, Len(stack) - 1)
      /\ With(Reg) /\ UNCHANGED <<ret, envs>>
  BY <1>0, Situation DEF OpPop, Popped
<1>2. PICK q : q = [Reg EXCEPT !.pc = Reg.pc + 1]
  OBVIOUS
<1>3. /\ Kept(q) /\ Reg' = q
      /\ FrameSound(q, Len(envs))
      /\ q.pc = Reg.pc + 1 /\ q.pc \in Targets(Reg.pc)
      /\ q.pc # ArgDone
      /\ q.expr = Reg.expr /\ q.parn = Reg.parn /\ q.exh = Reg.exh
      /\ q.excn = Reg.excn
  BY <1>1, <1>2, StackMove
<1>4. IsSeq(stack) /\ \A i \in 1 .. Len(stack) : Good(stack[i], Len(envs))
  BY <1>0 DEF MachineSound, StackSound
<1>5. /\ IsSeq(stack') /\ Len(stack') = Len(stack) - 1
      /\ \A i \in 1 .. Len(stack) - 1 : stack'[i] = stack[i]
      /\ Len(stack) \in 1 .. Len(stack)
  BY <1>1, <1>4, PopRule
<1>6. Len(stack) \in Nat
  BY <1>4, SeqRule
<1>7. Good(acc', Len(envs))
  BY <1>1, <1>4, <1>5
<1>8. AccFits(acc', q.pc)
  BY <1>0, <1>1, <1>3, <1>7, AccGood DEF Loads
<1>9. Good(ret', Len(envs))
  BY <1>0, <1>1 DEF MachineSound, AccSound
<1>10. AccSound'
  BY <1>0, <1>1, <1>3, <1>8, <1>9, AccFitsSound
<1>11. q.pc \notin Pushed /\ (Reg.pc \in Pushed <=> Reg.pc # ArgDone)
  BY <1>0, <1>1, <1>3, StackAssumption, FlowAssumption, Situation
<1>12. \A i \in 1 .. Len(stack') : Good(stack'[i], Len(envs'))
  BY <1>1, <1>4, <1>5, <1>6
<1>13. owners \in Seq(1 .. MaxFrames) /\ Len(owners) \in Nat
  BY Skeletal
<1>14. Len(stack') = Len(owners')
       /\ (Reg.pc = ArgDone => owners # <<>>
              /\ owners' = SubSeq(owners, 1, Len(owners) - 1))
       /\ (Reg.pc # ArgDone => owners' = owners)
  <2>1. CASE Reg.pc = ArgDone
    <3>1. Len(stack) = Len(owners) + 0
      BY <1>0, <1>11, <2>1 DEF MachineSound, StackSound
    <3>2. owners # <<>>
      BY <1>5, <1>13, <3>1
    <3>3. owners' = SubSeq(owners, 1, Len(owners) - 1)
      BY <1>1, <2>1 DEF Note, NoteOwners, Op, Opcode
    <3>4. Len(owners') = Len(owners) - 1
      <4>1. IsSeq(owners)
        BY <1>13, InSeq
      <4> QED
        BY <3>2, <3>3, <4>1, PopRule
    <3> QED
      BY <1>5, <1>13, <2>1, <3>1, <3>2, <3>3, <3>4
  <2>2. CASE Reg.pc # ArgDone
    <3>1. Len(stack) = Len(owners) + 1
      BY <1>0, <1>11, <2>2 DEF MachineSound, StackSound
    <3>2. owners' = owners
      BY <1>1, <2>2 DEF Note, NoteOwners, Op, Opcode
    <3> QED
      BY <1>5, <1>13, <2>2, <3>1, <3>2
  <2> QED
    BY <2>1, <2>2
<1>15. Len(owners') + 0 = Len(owners')
  BY <1>5, <1>6, <1>14
<1>16. StackSound'
  BY <1>3, <1>5, <1>11, <1>12, <1>14, <1>15 DEF StackSound
<1>17. EnvironmentsSound' /\ Len(envs') = Len(envs) /\ Len(envs) <= Len(envs')
  BY <1>0, <1>1 DEF MachineSound, EnvironmentsSound, EnvsSound
<1>18. regs \notin default
  BY <1>0, <1>1, NotDefault
<1>19. MachineSound'
  BY <1>1, <1>3, <1>10, <1>16, <1>17, <1>18, KeptSound
<1>20. CASE Reg.pc # ArgDone
  <2>1. UNCHANGED P!vars
    BY <1>1, <1>3, <1>14, <1>20, QuietFollows
  <2> QED
    BY <1>19, <2>1 DEF Follows
<1>21. CASE Reg.pc = ArgDone
  <2>1. /\ regs' = regs /\ IsSeq(frames') /\ Len(frames') = Len(frames)
        /\ \A g \in 1 .. Len(frames) :
              frames'[g] = IF g = regs THEN q ELSE frames[g]
        /\ running' = running
    BY <1>3 DEF Kept
  <2>2. regs \in 1 .. Len(frames) /\ Len(frames) \in 1 .. MaxFrames
    BY <1>0, Skeletal DEF MachineSound, FramesSound
  <2>3. \A f \in 1 .. MaxFrames :
           Doing(f)' = IF f = regs THEN "live" ELSE Doing(f)
    BY <1>1, <1>3, <2>1, <2>2 DEF Doing
  <2>4. Doing(regs) = "arg" /\ regs \in 1 .. MaxFrames
    BY <1>1, <1>21, <2>2, MachineAssumption DEF Doing, Reg
  <2>5. \A f \in 1 .. Len(frames) :
           frames'[f].parn = frames[f].parn /\ frames'[f].exh = frames[f].exh
    BY <1>3, <2>1, <2>2 DEF Reg
  <2>6. /\ default' = default /\ held' = held /\ entered' = entered
        /\ thrown' = thrown /\ resumed' = resumed
    BY <1>1, PlainNote
  <2>7. P!ArgDone
    <3>1. Stands' = [Stands EXCEPT ![regs] = "live"]
      BY <2>3, <2>4 DEF Stands
    <3>2. Stands[regs] = "arg"
      BY <2>4 DEF Stands
    <3>3. Parents' = Parents
      BY <2>1, <2>2, <2>5, MachineAssumption DEF Parents
    <3>4. Handlers' = Handlers
      BY <2>1, <2>2, <2>5, MachineAssumption DEF Handlers
    <3>5. P!Continue
      BY <1>1, <1>14, <1>21, <2>1, <2>6, <3>1, <3>2, <3>3, <3>4 DEF P!Continue
    <3> QED
      BY <1>14, <1>21, <3>5 DEF P!ArgDone
  <2> QED
    BY <1>19, <2>7 DEF Follows, P!Next
<1> QED
  BY <1>20, <1>21

-----------------------------------------------------------------------------
(* Instructions after which another frame is current. *)

\* The registers of a frame an instruction has made, or changed, once via_run
\* has moved on.
LEMMA BumpedFrame ==
    ASSUME NEW r, NEW n, FrameSound(r, n), Reg.pc + 1 \in Addresses,
           Reg.pc + 1 # EvalNative, r.pc = Reg.pc,
           Reg.pc + 1 \in ExprPlain => Good(r.expr, n)
    PROVE  /\ FrameSound(Bumped(r), n)
           /\ Bumped(r).pc = Reg.pc + 1
           /\ \A x \in RegisterNames \ {"pc"} : Bumped(r)[x] = r[x]
<1>1. PICK b : b = Reg.pc + 1
  OBVIOUS
<1>2. PICK q : q = [r EXCEPT !.pc = b]
  OBVIOUS
<1>3. Bumped(r) = q
  BY <1>1, <1>2 DEF Bumped
<1>4. b \in Addresses /\ b # EvalNative /\ (b \in ExprPlain => Good(r.expr, n))
  BY <1>1
<1>5. FrameSound(q, n)
  BY <1>2, <1>4, MovedFrame
<1>6. \A x \in RegisterNames \ {"pc"} : q[x] = r[x]
  BY <1>2, <1>4, MovedFrame
<1>7. q.pc = b
  BY <1>2 DEF FrameSound, RegisterNames
<1> QED
  BY <1>1, <1>3, <1>5, <1>6, <1>7

\* A copy of the registers, with another parent.
LEMMA ChildFrame ==
    ASSUME NEW r, NEW n, FrameSound(r, n), NEW p, NEW q, q = [r EXCEPT !.parn = p]
    PROVE  /\ FrameSound(q, n)
           /\ q.parn = p /\ q.exh = r.exh /\ q.excn = r.excn /\ q.expr = r.expr
           /\ q.pc = r.pc
<1>1. r = [y \in RegisterNames |-> r[y]] /\ "parn" \in RegisterNames
  BY DEF FrameSound, RegisterNames
<1>2. q = [y \in RegisterNames |-> q[y]] /\ q.parn = p
  BY <1>1
<1>3. \A y \in RegisterNames \ {"parn"} : q[y] = r[y]
  BY <1>1
<1>4. /\ q.pc = r.pc /\ q.env = r.env /\ q.excn = r.excn /\ q.expr = r.expr
      /\ q.exh = r.exh /\ q.proc = r.proc /\ q.args = r.args /\ q.ctxt = r.ctxt
  BY <1>3 DEF RegisterNames
<1>5. FrameSound(q, n)
  BY <1>2, <1>4 DEF FrameSound
<1> QED
  BY <1>2, <1>4, <1>5

\* What a SNAP makes of the frames.
LEMMA SnapFrames ==
    ASSUME Sound, OpSnap
    PROVE  /\ regs' = Len(frames) + 1
           /\ IsSeq(frames') /\ Len(frames') = Len(frames) + 1
           /\ frames'[Len(frames) + 1] = Bumped(Made)
           /\ frames'[regs] = [Reg EXCEPT !.pc = Operand]
           /\ \A g \in 1 .. Len(frames) : g # regs => frames'[g] = frames[g]
           /\ UNCHANGED <<running, program, runs, acc, ret, envs, stack>>
<1>1. IsSeq(frames) /\ regs \in 1 .. Len(frames) /\ Len(frames) \in 1 .. MaxFrames
  BY Skeletal DEF Sound, MachineSound, FramesSound
<1>2. PICK r : r = [Reg EXCEPT !.pc = Operand]
  OBVIOUS
<1>3. PICK fs : fs = [frames EXCEPT ![regs] = r]
  OBVIOUS
<1>4. PICK m : m = Made
  OBVIOUS
<1>5. PICK gs : gs = Append(fs, m)
  OBVIOUS
<1>6. fs = [frames EXCEPT ![regs].pc = Operand]
  BY <1>2, <1>3 DEF Reg
<1>7. Proceed(gs, Len(frames) + 1)
      /\ UNCHANGED <<acc, ret, envs, stack>>
  BY <1>4, <1>5, <1>6 DEF OpSnap, Quiet
<1>8. \A j \in 1 .. Len(frames) : fs[j] = IF j = regs THEN r ELSE frames[j]
  BY <1>1, <1>3, ExceptRule
<1>9. IsSeq(fs)
  BY <1>1, <1>3, ExceptRule
<1>10. Len(fs) = Len(frames)
  BY <1>1, <1>3, ExceptRule
<1>11. /\ IsSeq(gs) /\ Len(gs) = Len(frames) + 1
       /\ \A j \in 1 .. Len(frames) : gs[j] = fs[j]
       /\ gs[Len(frames) + 1] = m
  BY <1>5, <1>9, <1>10, AppendRule
<1>12. Len(frames) + 1 \in 1 .. Len(gs)
  BY <1>1, <1>11, MachineAssumption
<1>13. /\ regs' = Len(frames) + 1
       /\ IsSeq(frames') /\ Len(frames') = Len(gs)
       /\ \A g \in 1 .. Len(gs) :
             frames'[g] = IF g = Len(frames) + 1 THEN Bumped(gs[g]) ELSE gs[g]
       /\ UNCHANGED <<running, program, runs>>
  <2>1. PICK n : n = Len(frames) + 1
    OBVIOUS
  <2>2. Proceed(gs, n) /\ n \in 1 .. Len(gs)
    BY <1>7, <1>12, <2>1
  <2>3. /\ regs' = n
        /\ IsSeq(frames') /\ Len(frames') = Len(gs)
        /\ \A g \in 1 .. Len(gs) :
              frames'[g] = IF g = n THEN Bumped(gs[n]) ELSE gs[g]
        /\ UNCHANGED <<running, program, runs>>
    BY <1>11, <2>2, ProceedRule
  <2> QED
    BY <2>1, <2>3
<1>14. \A g \in 1 .. Len(frames) : g \in 1 .. Len(gs) /\ g # Len(frames) + 1
  BY <1>1, <1>11, MachineAssumption
<1>15. frames'[Len(frames) + 1] = Bumped(m)
  BY <1>11, <1>12, <1>13
<1>16. frames'[regs] = r
  BY <1>1, <1>8, <1>11, <1>13, <1>14
<1>17. \A g \in 1 .. Len(frames) : g # regs => frames'[g] = frames[g]
  BY <1>1, <1>8, <1>11, <1>13, <1>14
<1> QED
  BY <1>2, <1>4, <1>7, <1>11, <1>13, <1>15, <1>16, <1>17

LEMMA SnapStep ==
    ASSUME Sound, Note, ~resumed', OpSnap
    PROVE  MachineSound' /\ Follows
<1>0. MachineSound
  BY DEF Sound
<1>1. running /\ Opcode(Reg.pc) = "snap" /\ Len(frames) < MaxFrames
  BY <1>0, Situation DEF OpSnap
<1>2. /\ regs' = Len(frames) + 1
      /\ IsSeq(frames') /\ Len(frames') = Len(frames) + 1
      /\ frames'[Len(frames) + 1] = Bumped(Made)
      /\ frames'[regs] = [Reg EXCEPT !.pc = Operand]
      /\ \A g \in 1 .. Len(frames) : g # regs => frames'[g] = frames[g]
      /\ UNCHANGED <<running, program, runs, acc, ret, envs, stack>>
  BY SnapFrames
<1>3. /\ Len(frames) \in 1 .. MaxFrames /\ regs \in 1 .. Len(frames)
      /\ FrameSound(Reg, Len(envs)) /\ Reg.pc \in Addresses
  BY <1>0, Skeletal, Situation
<1>4. /\ default' = default /\ held' = held /\ entered' = entered
      /\ thrown' = thrown /\ resumed' = resumed
  BY <1>1, PlainNote
<1>5. regs \notin default
  BY <1>0, <1>1, NotDefault
<1>6. Reg.pc + 1 \in Targets(Reg.pc)
  BY <1>1 DEF Targets
<1>7. /\ Reg.pc + 1 \in Addresses \ {Reg.pc, ArgDone, EvalNative}
      /\ Reg.pc + 1 \in ExprPlain => Good(Reg.expr, Len(envs))
  BY <1>0, <1>1, <1>6, PlainTarget DEF Does
\* The frame that waits.
<1>8. PICK b : b = Operand
  OBVIOUS
<1>9. /\ b \in Addresses \ (Halfway \cup {Reg.pc, EvalNative})
      /\ b \in Waits
      /\ b \in ExprPlain => Reg.pc \in ExprPlain
      /\ Reg.pc \in Pushed <=> b = ArgDone
  BY <1>1, <1>3, <1>8, WaitAssumption, StackAssumption DEF Operand, Waits
<1>10. b \in ExprPlain => Good(Reg.expr, Len(envs))
  BY <1>3, <1>9 DEF FrameSound
<1>11. PICK r : r = [Reg EXCEPT !.pc = b]
  OBVIOUS
<1>12. frames'[regs] = r
  BY <1>2, <1>8, <1>11
<1>13. FrameSound(r, Len(envs))
  BY <1>3, <1>9, <1>10, <1>11, MovedFrame
<1>14. \A x \in RegisterNames \ {"pc"} : r[x] = Reg[x]
  BY <1>3, <1>9, <1>10, <1>11, MovedFrame
<1>15. r.pc = b
  BY <1>3, <1>11 DEF FrameSound, RegisterNames
<1>16. r.expr = Reg.expr /\ r.parn = Reg.parn /\ r.exh = Reg.exh /\ r.excn = Reg.excn
  BY <1>14 DEF RegisterNames
\* The frame that is made.
<1>17. PICK m : m = Made
  OBVIOUS
<1>18. m = [Reg EXCEPT !.parn = regs]
  BY <1>17 DEF Made
<1>19. /\ FrameSound(m, Len(envs)) /\ m.parn = regs /\ m.exh = Reg.exh
       /\ m.excn = Reg.excn /\ m.expr = Reg.expr /\ m.pc = Reg.pc
  <2>1. FrameSound(m, Len(envs))
    BY <1>3, <1>18, ChildFrame
  <2>2. Reg = [y \in RegisterNames |-> Reg[y]]
    BY <1>3 DEF FrameSound
  <2> QED
    BY <1>18, <2>1, <2>2 DEF RegisterNames
<1>20. PICK q : q = Bumped(m)
  OBVIOUS
<1>21. /\ FrameSound(q, Len(envs)) /\ q.pc = Reg.pc + 1
       /\ \A x \in RegisterNames \ {"pc"} : q[x] = m[x]
  BY <1>7, <1>19, <1>20, BumpedFrame
<1>22. q.expr = Reg.expr /\ q.parn = regs /\ q.exh = Reg.exh /\ q.excn = Reg.excn
  BY <1>19, <1>21 DEF RegisterNames
<1>23. frames'[Len(frames) + 1] = q /\ Reg' = q
  BY <1>2, <1>17, <1>20 DEF Reg
\* The machine.
<1>24. FramesSound'
  <2>1. regs' \in 1 .. Len(frames')
    BY <1>2, <1>3, MachineAssumption
  <2>2. ASSUME NEW f \in 1 .. Len(frames')
        PROVE  /\ FrameSound(frames'[f], Len(envs))
               /\ f # regs' => frames'[f].pc \notin Halfway
    <3>1. f = Len(frames) + 1 \/ f \in 1 .. Len(frames)
      BY <1>2, <1>3, MachineAssumption
    <3>2. CASE f = Len(frames) + 1
      BY <1>2, <1>21, <1>23, <3>2
    <3>3. CASE f = regs
      BY <1>9, <1>12, <1>13, <1>15, <3>3
    <3>4. CASE f \in 1 .. Len(frames) /\ f # regs
      BY <1>0, <1>2, <3>4 DEF MachineSound, FramesSound
    <3> QED
      BY <3>1, <3>2, <3>3, <3>4
  <2> QED
    BY <1>2, <2>1, <2>2 DEF FramesSound
<1>25. EnvironmentsSound'
  BY <1>0, <1>2 DEF MachineSound, EnvironmentsSound, EnvsSound
<1>26. AccFits(acc, q.pc) /\ q.pc \notin Loaded \cup Tested
  BY <1>0, <1>1, <1>6, <1>21, AccStays DEF Loads
<1>27. AccSound'
  BY <1>0, <1>2, <1>23, <1>26 DEF AccSound, AccFits, MachineSound
<1>28. q.pc \notin Pushed
  BY <1>1, <1>3, <1>6, <1>21, FlowAssumption
<1>29. owners' = IF b = ArgDone THEN Append(owners, regs) ELSE owners
  BY <1>1, <1>8 DEF Note, NoteOwners, Op, Opcode, Operand
<1>30. owners \in Seq(1 .. MaxFrames) /\ Len(owners) \in Nat
  BY Skeletal
<1>31. Len(stack') = Len(owners')
  <2>1. CASE b = ArgDone
    <3>1. Len(stack) = Len(owners) + 1
      BY <1>0, <1>9, <2>1 DEF MachineSound, StackSound
    <3>2. IsSeq(owners)
      BY <1>30, InSeq
    <3>3. Len(owners') = Len(owners) + 1
      BY <1>29, <2>1, <3>2, AppendRule
    <3> QED
      BY <1>2, <3>1, <3>3
  <2>2. CASE b # ArgDone
    <3>1. Len(stack) = Len(owners) + 0
      BY <1>0, <1>9, <2>2 DEF MachineSound, StackSound
    <3> QED
      BY <1>2, <1>29, <1>30, <2>2, <3>1
  <2> QED
    BY <2>1, <2>2
<1>32. StackSound'
  <2>1. IsSeq(stack) /\ Len(stack) \in Nat
    BY <1>0, SeqRule DEF MachineSound, StackSound
  <2>2. Len(owners') + 0 = Len(owners')
    BY <1>2, <1>31, <2>1
  <2>3. \A i \in 1 .. Len(stack) : Good(stack[i], Len(envs))
    BY <1>0 DEF MachineSound, StackSound
  <2> QED
    BY <1>2, <1>23, <1>28, <1>31, <2>1, <2>2, <2>3 DEF StackSound
<1>33. DefaultSound'
  <2>1. \A f \in default : f \in 1 .. Len(frames) /\ f # regs
    BY <1>5, Skeletal
  <2> QED
    BY <1>0, <1>2, <1>4, <2>1 DEF MachineSound, DefaultSound
<1>34. ThrownSound'
  <2>1. \A f \in 1 .. Len(frames) : /\ frames'[f].excn = frames[f].excn
                                    /\ f \in 1 .. Len(frames')
    BY <1>2, <1>3, <1>12, <1>16, MachineAssumption DEF Reg
  <2> QED
    BY <1>0, <1>4, <2>1 DEF MachineSound, ThrownSound
<1>35. HostSound'
  BY <1>0, <1>1, <1>2, MachineAssumption DEF HostSound, MachineSound
<1>36. MachineSound'
  BY <1>24, <1>25, <1>27, <1>32, <1>33, <1>34, <1>35 DEF MachineSound
\* The skeleton.
<1>37. /\ Len(frames) + 1 \in 1 .. MaxFrames /\ regs \in 1 .. MaxFrames
       /\ \A f \in 1 .. MaxFrames :
             /\ f > Len(frames') <=> f > Len(frames) /\ f # Len(frames) + 1
             /\ f \in 1 .. Len(frames) <=> ~(f > Len(frames))
       /\ ~(Len(frames) + 1 > Len(frames')) /\ Len(frames) + 1 # regs
       /\ ~(regs > Len(frames))
  BY <1>1, <1>2, <1>3, MachineAssumption
<1>38. Handlers' = [Handlers EXCEPT ![Len(frames) + 1] = Handlers[regs]]
  <2>1. \A f \in 1 .. MaxFrames :
           Handlers'[f] = IF f = Len(frames) + 1 THEN Handlers[regs] ELSE Handlers[f]
    BY <1>2, <1>12, <1>16, <1>22, <1>23, <1>37 DEF Handlers, Reg
  <2> QED
    BY <2>1, <1>37 DEF Handlers
<1>39. Parents' = [Parents EXCEPT ![Len(frames) + 1] = regs]
  <2>1. \A f \in 1 .. MaxFrames :
           Parents'[f] = IF f = Len(frames) + 1 THEN regs ELSE Parents[f]
    BY <1>2, <1>12, <1>16, <1>22, <1>23, <1>37 DEF Parents, Reg
  <2> QED
    BY <2>1, <1>37 DEF Parents
<1>40. PICK w : w = IF b = ArgDone THEN "arg" ELSE "sub"
  OBVIOUS
<1>41. Stands' = [[Stands EXCEPT ![regs] = w] EXCEPT ![Len(frames) + 1] = "live"]
  <2>1. PICK c : c = regs
    OBVIOUS
  <2>2. PICK n : n = Len(frames) + 1
    OBVIOUS
  <2>3. Doing(c)' = w
    BY <1>1, <1>2, <1>9, <1>12, <1>15, <1>37, <1>40, <2>1 DEF Doing
  <2>4. Doing(n)' = "live"
    BY <1>1, <1>2, <1>7, <1>21, <1>23, <1>37, <2>2 DEF Doing
  <2>5. \A f \in 1 .. MaxFrames : f \notin {c, n} => Doing(f)' = Doing(f)
    BY <1>1, <1>2, <1>37, <2>1, <2>2 DEF Doing
  <2>6. Stands' = [[Stands EXCEPT ![c] = w] EXCEPT ![n] = "live"]
    BY <1>37, <2>1, <2>2, <2>3, <2>4, <2>5 DEF Stands
  <2> QED
    BY <2>1, <2>2, <2>6
<1>42. Stands[regs] = "live"
  BY <1>1, <1>37, WaitAssumption DEF Stands, Doing, Reg
<1>43. P!Snap(w)
  BY <1>1, <1>2, <1>4, <1>5, <1>38, <1>39, <1>41, <1>42
  DEF P!Snap, P!Executing, P!MakeFrame, P!fresh
<1>44. P!SnapArg \/ P!SnapSub
  BY <1>29, <1>40, <1>43 DEF P!SnapArg, P!SnapSub
<1> QED
  BY <1>36, <1>44 DEF Follows, P!Next

LEMMA ReturnStep ==
    ASSUME Sound, Note, ~resumed', OpReturn
    PROVE  MachineSound' /\ Follows
<1>0. MachineSound
  BY DEF Sound
<1>1. running /\ Opcode(Reg.pc) = "return" /\ Reg.parn # 0
      /\ acc' = Frame(Reg.parn) /\ Proceed(frames, Reg.parn)
      /\ UNCHANGED <<ret, envs, stack>>
  BY <1>0, Situation DEF OpReturn
<1>2. /\ default' = default /\ held' = held /\ entered' = entered
      /\ thrown' = thrown /\ resumed' = resumed
  BY <1>1, PlainNote
<1>3. PICK p : p = Reg.parn
  OBVIOUS
<1>4. p \in 1 .. Len(frames) /\ Doing(p) \in {"arg", "sub"} /\ p # regs
  BY <1>1, <1>2, <1>3, ParentWaits
<1>5. /\ Len(frames) \in 1 .. MaxFrames /\ regs \in 1 .. Len(frames)
      /\ IsSeq(frames) /\ Reg.pc \in Addresses
  BY <1>0, Skeletal, Situation
<1>6. frames[p].pc \in Waits /\ frames[p].pc # Reg.pc
      /\ Reg.pc \notin Waits \cup Halfway
  <2>1. frames[p].pc \in Waits
    BY <1>4, WaitAssumption DEF Doing
  <2>2. Reg.pc \notin Waits \cup Halfway
    BY <1>1, <1>5, AddressAssumption DEF Halfway
  <2> QED
    BY <2>1, <2>2
<1>7. /\ regs' = p /\ IsSeq(frames') /\ Len(frames') = Len(frames)
      /\ \A g \in 1 .. Len(frames) :
            frames'[g] = IF g = p THEN Bumped(frames[p]) ELSE frames[g]
      /\ UNCHANGED <<running, program, runs>>
  BY <1>1, <1>3, <1>4, <1>5, ProceedRule
<1>8. frames'[p] = frames[p]
  <2>1. FrameSound(frames[p], Len(envs))
    BY <1>0, <1>4 DEF MachineSound, FramesSound
  <2>2. PICK r : r = frames[p]
    OBVIOUS
  <2>3. r = [x \in RegisterNames |-> r[x]]
    BY <2>1, <2>2 DEF FrameSound
  <2>4. Bumped(r) = r
    BY <1>6, <2>2, <2>3 DEF Bumped
  <2> QED
    BY <1>4, <1>7, <2>2, <2>4
<1>9. \A g \in 1 .. Len(frames) : frames'[g] = frames[g]
  BY <1>7, <1>8
<1>10. Reg' = frames[p]
  BY <1>7, <1>8 DEF Reg
<1>11. FramesSound'
  <2>1. ASSUME NEW f \in 1 .. Len(frames)
        PROVE  /\ FrameSound(frames[f], Len(envs))
               /\ f # p => frames[f].pc \notin Halfway
    BY <1>0, <1>6 DEF MachineSound, FramesSound, Reg
  <2> QED
    BY <1>1, <1>4, <1>7, <1>9, <2>1 DEF FramesSound
<1>12. EnvironmentsSound'
  BY <1>0, <1>1 DEF MachineSound, EnvironmentsSound, EnvsSound
<1>13. frames[p].pc \notin Halfway
  BY <1>0, <1>4 DEF MachineSound, FramesSound
<1>14. Good(acc', Len(envs))
  BY <1>1, GoodConstants
<1>15. AccSound'
  BY <1>0, <1>1, <1>10, <1>13, <1>14 DEF AccSound, MachineSound, Usable, Halfway
<1>16. owners' = owners
  BY <1>1 DEF Note, NoteOwners, Op, Opcode
<1>17. StackSound'
  BY <1>0, <1>1, <1>6, <1>10, <1>13, <1>16 DEF StackSound, MachineSound, Halfway
<1>18. DefaultSound'
  <2>1. \A f \in default : f \in 1 .. Len(frames)
    BY Skeletal
  <2> QED
    BY <1>0, <1>2, <1>9, <2>1 DEF MachineSound, DefaultSound
<1>19. ThrownSound'
  BY <1>0, <1>2, <1>7, <1>9 DEF MachineSound, ThrownSound
<1>20. HostSound'
  BY <1>0, <1>1, <1>7 DEF HostSound, MachineSound
<1>21. MachineSound'
  BY <1>11, <1>12, <1>15, <1>17, <1>18, <1>19, <1>20 DEF MachineSound
<1>22. /\ p \in 1 .. MaxFrames /\ regs \in 1 .. MaxFrames
       /\ \A f \in 1 .. MaxFrames : f \in 1 .. Len(frames) <=> ~(f > Len(frames))
  BY <1>4, <1>5, MachineAssumption
<1>23. Handlers' = Handlers
  BY <1>7, <1>9, <1>22 DEF Handlers
<1>24. Parents' = Parents
  BY <1>7, <1>9, <1>22 DEF Parents
<1>25. Stands[regs] = "live" /\ Parents[regs] = p
  BY <1>1, <1>3, <1>5, <1>22, WaitAssumption DEF Stands, Doing, Reg, Parents
<1>26. Stands' = P!Entering([Stands EXCEPT ![regs] = "done"], p)
  <2>1. PICK c : c = regs
    OBVIOUS
  <2>2. Doing(c)' = "done"
    BY <1>1, <1>4, <1>5, <1>6, <1>7, <1>9, <1>22, <2>1, WaitAssumption
    DEF Doing, Reg, Opcode
  <2>3. Doing(p)' = IF Doing(p) = "arg" THEN "arg" ELSE "live"
    BY <1>1, <1>4, <1>7, <1>8, <1>22 DEF Doing
  <2>4. \A f \in 1 .. MaxFrames : f \notin {c, p} => Doing(f)' = Doing(f)
    BY <1>1, <1>7, <1>9, <1>22, <2>1 DEF Doing
  <2>5. PICK done : done = [Stands EXCEPT ![c] = "done"]
    OBVIOUS
  <2>6. done[p] = Doing(p)
    BY <1>4, <1>22, <2>1, <2>5 DEF Stands
  <2>7. Stands' = [done EXCEPT ![p] = IF Doing(p) = "arg" THEN "arg" ELSE "live"]
    BY <1>4, <1>22, <2>1, <2>2, <2>3, <2>4, <2>5 DEF Stands
  <2> QED
    BY <2>1, <2>5, <2>6, <2>7 DEF P!Entering
<1>27. P!Return
  BY <1>1, <1>2, <1>3, <1>7, <1>16, <1>23, <1>24, <1>25, <1>26
  DEF P!Return, P!GoToParent
<1> QED
  BY <1>21, <1>27 DEF Follows, P!Next

LEMMA FinishStep ==
    ASSUME Sound, Note, ~resumed', OpReturnToHost
    PROVE  MachineSound' /\ Follows
<1>0. MachineSound
  BY DEF Sound
<1>1. running /\ Opcode(Reg.pc) = "return" /\ Reg.parn = 0 /\ running' = FALSE
      /\ UNCHANGED <<acc, ret, regs, frames, envs, stack, program, runs>>
  BY <1>0, Situation DEF OpReturnToHost
<1>2. /\ default' = default /\ held' = held /\ entered' = entered
      /\ thrown' = thrown /\ resumed' = resumed
  BY <1>1, PlainNote
<1>3. owners' = owners
  BY <1>1 DEF Note, NoteOwners, Op, Opcode
<1>4. Reg' = Reg
  BY <1>1 DEF Reg
<1>5. FramesSound' /\ EnvironmentsSound'
  BY <1>0, <1>1 DEF MachineSound, FramesSound, EnvironmentsSound, EnvsSound
<1>6. AccSound' /\ StackSound'
  BY <1>0, <1>1, <1>3, <1>4 DEF MachineSound, AccSound, StackSound
<1>7. DefaultSound' /\ ThrownSound'
  BY <1>0, <1>1, <1>2 DEF MachineSound, DefaultSound, ThrownSound
<1>8. HostSound'
  BY <1>0, <1>1, <1>4 DEF MachineSound, HostSound
<1>9. MachineSound'
  BY <1>5, <1>6, <1>7, <1>8 DEF MachineSound
<1>10. regs \in 1 .. MaxFrames /\ ~(regs > Len(frames))
  BY <1>0, Skeletal, Situation, MachineAssumption
<1>11. Stands[regs] = "live" /\ Parents[regs] = 0
  BY <1>1, <1>10, WaitAssumption DEF Stands, Doing, Reg, Parents
<1>12. Stands' = [Stands EXCEPT ![regs] = "done"]
  <2>1. PICK c : c = regs
    OBVIOUS
  <2>2. Doing(c)' = "done"
    BY <1>1, <1>10, <2>1 DEF Doing
  <2>3. \A f \in 1 .. MaxFrames : f # c => Doing(f)' = Doing(f)
    BY <1>1, <2>1 DEF Doing
  <2>4. Stands' = [Stands EXCEPT ![c] = "done"]
    BY <1>10, <2>1, <2>2, <2>3 DEF Stands
  <2> QED
    BY <2>1, <2>4
<1>13. Handlers' = Handlers /\ Parents' = Parents
  BY <1>1 DEF Handlers, Parents
<1>14. P!Finish
  BY <1>1, <1>2, <1>3, <1>11, <1>12, <1>13 DEF P!Finish
<1> QED
  BY <1>9, <1>14 DEF Follows, P!Next

-----------------------------------------------------------------------------
(* Builtins. *)

\* Where a builtin is called.
LEMMA CallbPlace ==
    ASSUME MachineSound, Opcode(Reg.pc) = "callb"
    PROVE  /\ Reg.pc \notin Waits \cup Loaded \cup Tested \cup {ArgDone}
           /\ Operand # "env-set-proc" => Reg.pc \notin Halfway
           /\ Operand = "env-set-proc" => Reg.pc \in Pushed
           /\ Reg.pc \in Addresses
           /\ regs \in default => Operand = "default-except-proc"
           /\ regs \in default => Reg.pc + 1 \in HandlerPath
           /\ regs \in default => Reg.expr = Builtin("default-except-proc")
           /\ Operand = "eval-native-proc" => Reg.pc = EvalNative
<1>1. Reg.pc \in Addresses
  BY Situation
<1>2. /\ Reg.pc \notin Waits \cup Loaded \cup Tested
      /\ Reg.pc \in Pushed <=> Operand = "env-set-proc"
      /\ Reg.pc = EvalNative <=> Operand = "eval-native-proc"
  BY <1>1, AddressAssumption DEF Operand
<1>3. Reg.pc # ArgDone
  BY WaitAssumption
<1>4. regs \in default => /\ Reg.pc \in HandlerPath
                          /\ Reg.expr = Builtin("default-except-proc")
  BY DEF MachineSound, DefaultSound, Reg
<1>5. regs \in default => Operand = "default-except-proc" /\ Reg.pc + 1 \in HandlerPath
  BY <1>4, HandlerAssumption DEF Does, Operand
<1> QED
  BY <1>1, <1>2, <1>3, <1>4, <1>5 DEF Halfway

\* Where it goes on.
LEMMA CallbTarget ==
    ASSUME MachineSound, Opcode(Reg.pc) = "callb",
           NEW b \in {Reg.pc + 1, Entry, Transform}
    PROVE  /\ b \in (Addresses \cap AccAny) \ (Waits \cup Halfway)
           /\ b \notin {Reg.pc, ArgDone, EvalNative}
           /\ b \in ExprPlain => Reg.pc \in ExprPlain /\ Good(Reg.expr, Len(envs))
<1>1. CASE b = Reg.pc + 1
  <2>1. b \in Targets(Reg.pc)
    BY <1>1 DEF Targets
  <2>2. b \in Addresses \ {Reg.pc, ArgDone, EvalNative}
    BY <2>1, FlowAssumption, Situation
  <2>3. Opcode(b) = "return"
    BY <1>1, AddressAssumption, Situation
  <2>4. b \notin Waits \cup Halfway
    BY <2>2, <2>3, AddressAssumption DEF Halfway
  <2>5. b \in AccAny
    BY <2>2, <2>3 DEF AccAny
  <2>6. b \in ExprPlain => Reg.pc \in ExprPlain
    BY <2>1, FlowAssumption, TestOpcodes, Situation DEF Does
  <2>7. b \in ExprPlain => Good(Reg.expr, Len(envs))
    BY <2>6, Situation DEF FrameSound
  <2> QED
    BY <2>2, <2>4, <2>5, <2>6, <2>7
<1>2. CASE b \in {Entry, Transform}
  <2>1. b \in (Addresses \cap AccAny) \ (Waits \cup Halfway \cup ExprPlain)
    BY <1>2, RoutineAssumption
  <2>2. Opcode(b) \in {"load", "snap"}
    BY <1>2, RoutineAssumption
  <2>3. b \notin {Reg.pc, ArgDone, EvalNative}
    BY <2>2, WaitAssumption, RoutineAssumption
  <2> QED
    BY <2>1, <2>3
<1> QED
  BY <1>1, <1>2

\* What the data stack holds when a builtin that pops nothing is called.
LEMMA CallbStack ==
    ASSUME MachineSound, Opcode(Reg.pc) = "callb", Operand # "env-set-proc"
    PROVE  /\ Len(stack) = Len(owners) /\ IsSeq(stack)
           /\ \A i \in 1 .. Len(stack) : Good(stack[i], Len(envs))
<1>1. Reg.pc \notin Pushed
  BY CallbPlace DEF Halfway
<1>2. /\ IsSeq(stack) /\ Len(stack) = Len(owners) + 0
      /\ \A i \in 1 .. Len(stack) : Good(stack[i], Len(envs))
  BY <1>1 DEF MachineSound, StackSound
<1>3. Len(owners) + 0 = Len(owners)
  <2>1. Len(stack) \in Nat
    BY <1>2, SeqRule
  <2>2. Len(owners) \in Nat
    BY DEF MachineSound
  <2> QED
    BY <2>2
<1> QED
  BY <1>2, <1>3

\* The current frame stays current.
LEMMA StayStep ==
    ASSUME Sound, running, Note, ~resumed', Opcode(Reg.pc) = "callb",
           NEW q, Kept(q), FrameSound(q, Len(envs')),
           EnvironmentsSound', Len(envs) <= Len(envs'),
           q.parn = Reg.parn, q.exh = Reg.exh, q.excn = Reg.excn,
           q.pc \in {Reg.pc + 1, Entry, Transform},
           Usable(acc', Len(envs')), Good(ret', Len(envs')),
           IsSeq(stack'), \A i \in 1 .. Len(stack') : Good(stack'[i], Len(envs')),
           Len(stack') = Len(owners),
           regs \in default => q.pc \in HandlerPath /\ q.expr = Reg.expr
    PROVE  MachineSound' /\ Follows
<1>0. MachineSound
  BY DEF Sound
<1>1. /\ q.pc \in (Addresses \cap AccAny) \ (Waits \cup Halfway)
      /\ q.pc \notin {Reg.pc, ArgDone, EvalNative}
  BY <1>0, CallbTarget
<1>2. Reg' = q
  BY <1>0, NewReg
<1>3. AccSound'
  BY <1>1, <1>2 DEF AccSound, Halfway
<1>4. owners' = owners /\ Len(owners) \in Nat
  BY Skeletal DEF Note, NoteOwners, Op, Opcode
<1>5. Len(stack') = Len(owners') + 0
  BY <1>4
<1>6. StackSound'
  BY <1>1, <1>2, <1>5 DEF StackSound, Halfway
<1>7. regs \in default => q.expr = Builtin("default-except-proc")
  BY <1>0, CallbPlace
<1>8. MachineSound'
  BY <1>3, <1>6, <1>7, KeptSound
<1>9. Reg.pc # ArgDone
  BY <1>0, CallbPlace
<1>10. UNCHANGED P!vars
  BY <1>1, <1>4, <1>9, QuietFollows
<1> QED
  BY <1>8, <1>10 DEF Follows

\* A builtin that changes at most the registers, of which not where the frame
\* belongs, and goes on at the RETURN behind it.
LEMMA AnswerStep ==
    ASSUME Sound, running, Note, ~resumed', Opcode(Reg.pc) = "callb",
           Operand # "env-set-proc",
           NEW r, FrameSound(r, Len(envs)), r.pc = Reg.pc, r.expr = Reg.expr,
           r.parn = Reg.parn, r.exh = Reg.exh, r.excn = Reg.excn,
           With(r), UNCHANGED <<acc, envs, stack>>, Good(ret', Len(envs))
    PROVE  MachineSound' /\ Follows
<1>0. MachineSound /\ FramesSound
  BY DEF Sound, MachineSound
<1>1. PICK b : b = Reg.pc + 1
  OBVIOUS
<1>2. PICK q : q = [r EXCEPT !.pc = b]
  OBVIOUS
<1>3. Kept(q)
  BY <1>0, <1>1, <1>2, WithRule
<1>4. /\ b \in Addresses /\ b # EvalNative
      /\ b \in ExprPlain => Good(r.expr, Len(envs))
  BY <1>0, <1>1, CallbTarget
<1>5. FrameSound(q, Len(envs))
  BY <1>2, <1>4, MovedFrame
<1>6. \A x \in RegisterNames \ {"pc"} : q[x] = r[x]
  BY <1>2, <1>4, MovedFrame
<1>7. q.pc = b
  BY <1>2 DEF FrameSound, RegisterNames
<1>8. q.expr = Reg.expr /\ q.parn = Reg.parn /\ q.exh = Reg.exh /\ q.excn = Reg.excn
  BY <1>6 DEF RegisterNames
<1>9. EnvironmentsSound' /\ envs' = envs /\ Len(envs) <= Len(envs')
  BY <1>0 DEF MachineSound, EnvironmentsSound, EnvsSound
<1>10. Usable(acc', Len(envs'))
  BY <1>0, <1>9 DEF MachineSound, AccSound
<1>11. /\ IsSeq(stack') /\ Len(stack') = Len(owners)
       /\ \A i \in 1 .. Len(stack') : Good(stack'[i], Len(envs'))
  BY <1>0, <1>9, CallbStack
<1>12. regs \in default => q.pc \in HandlerPath
  BY <1>0, <1>1, <1>7, CallbPlace
<1>13. FrameSound(q, Len(envs')) /\ Good(ret', Len(envs'))
  BY <1>5, <1>9
<1>14. q.pc \in {Reg.pc + 1, Entry, Transform}
  BY <1>1, <1>7
<1> QED
  BY <1>3, <1>8, <1>9, <1>10, <1>11, <1>12, <1>13, <1>14, StayStep

\* A builtin after which the frame evaluates another expression, or goes on
\* with a template.
LEMMA EnterStep ==
    ASSUME Sound, running, Note, ~resumed', Opcode(Reg.pc) = "callb",
           Operand \notin {"env-set-proc", "default-except-proc"},
           NEW n, n = Len(envs'), EnvironmentsSound', Len(envs) <= n,
           NEW r, "pc" \in DOMAIN r, NEW b \in {Entry, Transform}, Jump(r, b),
           NEW q, q = [r EXCEPT !.pc = b], FrameSound(q, n),
           q.parn = Reg.parn, q.exh = Reg.exh, q.excn = Reg.excn,
           UNCHANGED stack, Usable(acc', n), Good(ret', n)
    PROVE  MachineSound' /\ Follows
<1>0. MachineSound /\ FramesSound
  BY DEF Sound, MachineSound
<1>1. b # Reg.pc
  BY <1>0, CallbTarget
<1>2. Kept(q)
  BY <1>0, <1>1, JumpRule
<1>3. q.pc = b
  OBVIOUS
<1>4. Len(envs) \in Nat /\ n \in Nat
  BY <1>0 DEF MachineSound, EnvironmentsSound, EnvsSound
<1>5. /\ IsSeq(stack') /\ Len(stack') = Len(owners)
      /\ \A i \in 1 .. Len(stack') : Good(stack'[i], Len(envs'))
  BY <1>0, <1>4, CallbStack, GoodLater
<1>6. regs \notin default
  BY <1>0, CallbPlace
<1>7. FrameSound(q, Len(envs')) /\ Good(ret', Len(envs')) /\ Usable(acc', Len(envs'))
      /\ Len(envs) <= Len(envs')
  OBVIOUS
<1>8. q.pc \in {Reg.pc + 1, Entry, Transform}
  BY <1>3
<1> QED
  BY <1>2, <1>5, <1>6, <1>7, <1>8, StayStep

\* A handler frame that is entered with the exception v.
LEMMA EnteredFrame ==
    ASSUME MachineSound, Opcode(Reg.pc) = "callb",
           NEW r, FrameSound(r, Len(envs)), NEW v, Good(v, Len(envs)),
           NEW q, q = Bumped([r EXCEPT !.excn = v])
    PROVE  /\ FrameSound(q, Len(envs))
           /\ q.pc = IF r.pc = Reg.pc THEN Reg.pc + 1 ELSE r.pc
           /\ q.excn = v /\ q.expr = r.expr /\ q.parn = r.parn /\ q.exh = r.exh
<1>1. r = [y \in RegisterNames |-> r[y]] /\ {"excn", "pc"} \subseteq RegisterNames
  BY DEF FrameSound, RegisterNames
<1>2. PICK b : b = IF r.pc = Reg.pc THEN Reg.pc + 1 ELSE r.pc
  OBVIOUS
<1>3. PICK m : m = [r EXCEPT !.excn = v]
  OBVIOUS
<1>4. /\ m = [y \in RegisterNames |-> m[y]] /\ m.excn = v
      /\ \A y \in RegisterNames \ {"excn"} : m[y] = r[y]
  BY <1>1, <1>3
<1>5. m.pc = r.pc
  BY <1>4 DEF RegisterNames
<1>6. q = [m EXCEPT !.pc = b]
  BY <1>2, <1>3, <1>5 DEF Bumped
<1>7. /\ q = [y \in RegisterNames |-> q[y]] /\ q.pc = b
      /\ \A y \in RegisterNames \ {"pc"} : q[y] = m[y]
  BY <1>1, <1>4, <1>6
<1>8. /\ q.excn = v /\ q.expr = r.expr /\ q.proc = r.proc /\ q.args = r.args
      /\ q.ctxt = r.ctxt /\ q.env = r.env /\ q.parn = r.parn /\ q.exh = r.exh
  BY <1>4, <1>7 DEF RegisterNames
<1>9. b \in Addresses /\ (b = EvalNative => r.pc = EvalNative)
      /\ (b \in ExprPlain => r.pc \in ExprPlain)
  <2>1. CASE r.pc = Reg.pc
    BY <1>2, <2>1, CallbTarget
  <2>2. CASE r.pc # Reg.pc
    BY <1>2, <2>2 DEF FrameSound
  <2> QED
    BY <2>1, <2>2
<1>10. FrameSound(q, Len(envs))
  BY <1>7, <1>8, <1>9 DEF FrameSound
<1> QED
  BY <1>2, <1>7, <1>8, <1>10

\* What via_throw makes of the frames.
LEMMA ThrowFrames ==
    ASSUME Sound, NEW r, NEW v, ThrowFrom(r, v)
    PROVE  /\ Reg.exh \in 1 .. Len(frames) /\ Reg.exh # regs
           /\ regs' = Reg.exh /\ acc' = Frame(Reg.exh)
           /\ IsSeq(frames') /\ Len(frames') = Len(frames)
           /\ frames'[Reg.exh] = Bumped([frames[Reg.exh] EXCEPT !.excn = v])
           /\ frames'[regs] = r
           /\ \A g \in 1 .. Len(frames) \ {regs, Reg.exh} : frames'[g] = frames[g]
           /\ UNCHANGED <<running, program, runs>>
<1>1. IsSeq(frames) /\ regs \in 1 .. Len(frames) /\ Len(frames) \in 1 .. MaxFrames
  BY Skeletal DEF Sound, MachineSound, FramesSound
<1>2. PICK h : h = Reg.exh
  OBVIOUS
<1>3. h # 0 /\ acc' = Frame(h)
      /\ Proceed([frames EXCEPT ![regs] = r, ![h].excn = v], h)
  BY <1>2 DEF ThrowFrom
<1>4. h \in 1 .. Len(frames) /\ h # regs
  BY <1>1, <1>2, <1>3, Skeletal DEF Reg
<1>5. PICK fs : fs = [frames EXCEPT ![regs] = r]
  OBVIOUS
<1>6. \A j \in 1 .. Len(frames) : fs[j] = IF j = regs THEN r ELSE frames[j]
  BY <1>1, <1>5, ExceptRule
<1>7. IsSeq(fs)
  BY <1>1, <1>5, ExceptRule
<1>8. Len(fs) = Len(frames)
  BY <1>1, <1>5, ExceptRule
<1>9. PICK m : m = [frames[h] EXCEPT !.excn = v]
  OBVIOUS
<1>10. PICK gs : gs = [fs EXCEPT ![h] = m]
  OBVIOUS
<1>11. \A j \in 1 .. Len(frames) : gs[j] = IF j = h THEN m ELSE fs[j]
  BY <1>4, <1>7, <1>8, <1>10, ExceptRule
<1>12. IsSeq(gs)
  BY <1>4, <1>7, <1>8, <1>10, ExceptRule
<1>13. Len(gs) = Len(frames)
  BY <1>4, <1>7, <1>8, <1>10, ExceptRule
<1>14. [frames EXCEPT ![regs] = r, ![h].excn = v] = gs
  <2>1. fs[h] = frames[h]
    BY <1>4, <1>6
  <2>2. [fs EXCEPT ![h] = [fs[h] EXCEPT !.excn = v]] = gs
    BY <1>9, <1>10, <2>1
  <2> QED
    BY <1>5, <2>2
<1>15. Proceed(gs, h)
  BY <1>3, <1>14
<1>16. /\ regs' = h /\ IsSeq(frames') /\ Len(frames') = Len(gs)
       /\ \A g \in 1 .. Len(gs) :
             frames'[g] = IF g = h THEN Bumped(gs[h]) ELSE gs[g]
       /\ UNCHANGED <<running, program, runs>>
  BY <1>4, <1>12, <1>13, <1>15, ProceedRule
<1>17. frames'[h] = Bumped(m)
  BY <1>4, <1>11, <1>13, <1>16
<1>18. frames'[regs] = r
  BY <1>1, <1>4, <1>6, <1>11, <1>13, <1>16
<1>19. \A g \in 1 .. Len(frames) \ {regs, h} : frames'[g] = frames[g]
  BY <1>6, <1>11, <1>13, <1>16
<1> QED
  BY <1>2, <1>3, <1>4, <1>9, <1>13, <1>16, <1>17, <1>18, <1>19

\* via_throw, by a builtin that may have taken arguments off their list.
LEMMA ThrowStep ==
    ASSUME Sound, running, Note, ~resumed', Opcode(Reg.pc) = "callb",
           Operand \notin {"env-set-proc", "assume-proc", "default-except-proc"},
           NEW r, FrameSound(r, Len(envs)), r.pc = Reg.pc, r.expr = Reg.expr,
           r.parn = Reg.parn, r.exh = Reg.exh,
           NEW v, Good(v, Len(envs)), v # Nil, ThrowFrom(r, v),
           UNCHANGED <<envs, stack>>, Good(ret', Len(envs))
    PROVE  MachineSound' /\ Follows
<1>0. MachineSound
  BY DEF Sound
<1>1. /\ Reg.exh \in 1 .. Len(frames) /\ Reg.exh # regs
      /\ regs' = Reg.exh /\ acc' = Frame(Reg.exh)
      /\ IsSeq(frames') /\ Len(frames') = Len(frames)
      /\ frames'[Reg.exh] = Bumped([frames[Reg.exh] EXCEPT !.excn = v])
      /\ frames'[regs] = r
      /\ \A g \in 1 .. Len(frames) \ {regs, Reg.exh} : frames'[g] = frames[g]
      /\ UNCHANGED <<running, program, runs>>
  BY ThrowFrames
<1>2. PICK h : h = Reg.exh
  OBVIOUS
<1>3. PICK q : q = Bumped([frames[h] EXCEPT !.excn = v])
  OBVIOUS
<1>4. /\ h \in 1 .. Len(frames) /\ h # regs
      /\ regs' = h /\ acc' = Frame(h)
      /\ IsSeq(frames') /\ Len(frames') = Len(frames)
      /\ frames'[h] = q
      /\ frames'[regs] = r
      /\ \A g \in 1 .. Len(frames) \ {regs, h} : frames'[g] = frames[g]
      /\ UNCHANGED <<running, program, runs>>
  BY <1>1, <1>2, <1>3
<1>5. FrameSound(frames[h], Len(envs)) /\ frames[h].pc \notin Halfway
  BY <1>0, <1>4 DEF MachineSound, FramesSound
<1>6. /\ FrameSound(q, Len(envs))
      /\ q.pc = IF frames[h].pc = Reg.pc THEN Reg.pc + 1 ELSE frames[h].pc
      /\ q.excn = v /\ q.expr = frames[h].expr /\ q.parn = frames[h].parn
      /\ q.exh = frames[h].exh
  BY <1>0, <1>3, <1>5, EnteredFrame
<1>7. /\ Reg.pc \notin Waits \cup Halfway \cup {ArgDone}
      /\ regs \notin default
  BY <1>0, CallbPlace
<1>8. /\ Reg.pc + 1 \notin Halfway \cup {ArgDone}
  BY <1>0, CallbTarget
<1>9. q.pc \notin Halfway
  BY <1>5, <1>6, <1>8
<1>10. Reg' = q
  BY <1>4 DEF Reg
<1>11. /\ Len(frames) \in 1 .. MaxFrames /\ regs \in 1 .. Len(frames)
       /\ IsSeq(frames)
  BY <1>0, Skeletal, Situation
\* The machine.
<1>12. FramesSound'
  <2>1. ASSUME NEW f \in 1 .. Len(frames)
        PROVE  /\ FrameSound(frames'[f], Len(envs))
               /\ f # h => frames'[f].pc \notin Halfway
    <3>1. CASE f = h
      BY <1>4, <1>6, <3>1
    <3>2. CASE f = regs
      BY <1>4, <1>7, <3>2
    <3>3. CASE f \notin {h, regs}
      BY <1>0, <1>4, <3>3 DEF MachineSound, FramesSound
    <3> QED
      BY <3>1, <3>2, <3>3
  <2> QED
    BY <1>4, <2>1 DEF FramesSound
<1>13. EnvironmentsSound'
  BY <1>0 DEF MachineSound, EnvironmentsSound, EnvsSound
<1>14. Good(acc', Len(envs))
  BY <1>4, GoodConstants
<1>15. AccSound'
  BY <1>9, <1>10, <1>14 DEF AccSound, Usable, Halfway
<1>16. owners' = owners /\ Len(owners) \in Nat
  BY Skeletal DEF Note, NoteOwners, Op, Opcode
<1>17. /\ Len(stack) = Len(owners) /\ IsSeq(stack)
       /\ \A i \in 1 .. Len(stack) : Good(stack[i], Len(envs))
  BY <1>0, CallbStack
<1>18. Len(stack') = Len(owners') + 0
  BY <1>16, <1>17
<1>19. StackSound'
  BY <1>9, <1>10, <1>17, <1>18 DEF StackSound, Halfway
<1>20. DOMAIN frames' = DOMAIN frames
  BY <1>4, <1>11, SeqRule
<1>21. Throws
  BY <1>4 DEF Throws, Op, Opcode
<1>22. default' = default
  BY DEF Note
<1>23. held' = held
  BY <1>20 DEF Note
<1>24. entered' = entered \cup {h} /\ thrown' = TRUE /\ resumed' = resumed
  <2>1. entered' = entered \cup {h}
    BY <1>4, <1>21 DEF Note
  <2>2. thrown' = TRUE
    BY <1>21 DEF Note
  <2>3. resumed' = resumed
    BY Skeletal DEF Note
  <2> QED
    BY <2>1, <2>2, <2>3
<1>25. DefaultSound'
  <2>1. ASSUME NEW f \in default
        PROVE  /\ frames'[f].pc \in HandlerPath
               /\ frames'[f].expr = Builtin("default-except-proc")
    <3>1. /\ f \in 1 .. Len(frames) /\ f # regs
          /\ frames[f].pc \in HandlerPath
          /\ frames[f].expr = Builtin("default-except-proc")
      BY <1>0, <1>7, Skeletal DEF MachineSound, DefaultSound
    <3>2. CASE f # h
      BY <1>4, <3>1, <3>2
    <3>3. CASE f = h
      <4>1. frames[h].pc # Reg.pc
        BY <3>1, <3>3, HandlerAssumption DEF Does, Operand
      <4> QED
        BY <1>4, <1>6, <3>1, <3>3, <4>1
    <3> QED
      BY <3>2, <3>3
  <2> QED
    BY <1>22, <2>1 DEF DefaultSound
<1>26. ThrownSound'
  BY <1>4, <1>6 DEF ThrownSound
<1>27. HostSound'
  BY <1>0, <1>4 DEF MachineSound, HostSound
<1>28. MachineSound'
  BY <1>12, <1>13, <1>15, <1>19, <1>25, <1>26, <1>27 DEF MachineSound
\* The skeleton.
<1>29. /\ h \in 1 .. MaxFrames /\ regs \in 1 .. MaxFrames
       /\ \A f \in 1 .. MaxFrames : f \in 1 .. Len(frames) <=> ~(f > Len(frames))
  BY <1>4, <1>11, MachineAssumption
<1>30. \A f \in 1 .. Len(frames) :
          frames'[f].parn = frames[f].parn /\ frames'[f].exh = frames[f].exh
  BY <1>4, <1>6 DEF Reg
<1>31. Handlers' = Handlers /\ Parents' = Parents
  BY <1>4, <1>29, <1>30 DEF Handlers, Parents
<1>32. Stands[regs] = "live" /\ Handlers[regs] = h
  BY <1>2, <1>7, <1>11, <1>29 DEF Stands, Doing, Reg, Handlers
<1>33. Stands' = P!Entering(Stands, h)
  <2>1. PICK c : c = regs
    OBVIOUS
  <2>2. Doing(c)' = Doing(c)
    BY <1>4, <1>7, <1>11, <1>29, <2>1 DEF Doing, Reg, Opcode
  <2>3. Doing(h)' = IF Doing(h) = "arg" THEN "arg" ELSE "live"
    BY <1>4, <1>6, <1>7, <1>8, <1>29 DEF Doing
  <2>4. \A f \in 1 .. MaxFrames : f \notin {c, h} => Doing(f)' = Doing(f)
    BY <1>4, <1>29, <2>1 DEF Doing
  <2>5. Stands[h] = Doing(h)
    BY <1>29 DEF Stands
  <2>6. Stands' = [Stands EXCEPT ![h] = IF Doing(h) = "arg" THEN "arg" ELSE "live"]
    BY <1>29, <2>1, <2>2, <2>3, <2>4 DEF Stands
  <2> QED
    BY <2>5, <2>6 DEF P!Entering
<1>34. h # 0
  BY <1>4
<1>35. P!Throw
  BY <1>4, <1>7, <1>16, <1>22, <1>23, <1>24, <1>31, <1>32, <1>33, <1>34
  DEF P!Throw, P!Executing
<1> QED
  BY <1>28, <1>35 DEF Follows, P!Next

-----------------------------------------------------------------------------
(* Frames made beside the current one. *)

Started(r, e) == [r EXCEPT !.expr = e, !.pc = Entry]

Handled(r, h, e) == [r EXCEPT !.exh = h, !.expr = e, !.pc = Entry]

\* A copy of the registers that is to evaluate something.
LEMMA StartFrame ==
    ASSUME NEW r, NEW n, FrameSound(r, n), NEW e, Usable(e, n),
           e # Builtin("eval-native-proc"),
           NEW q, q = Started(r, e)
    PROVE  /\ FrameSound(q, n)
           /\ q.pc = Entry /\ q.expr = e
           /\ q.parn = r.parn /\ q.exh = r.exh /\ q.excn = r.excn
<1>1. r = [y \in RegisterNames |-> r[y]] /\ {"expr", "pc"} \subseteq RegisterNames
  BY DEF FrameSound, RegisterNames
<1>2. /\ q = [y \in RegisterNames |-> q[y]] /\ q.pc = Entry /\ q.expr = e
      /\ \A y \in RegisterNames \ {"expr", "pc"} : q[y] = r[y]
  BY <1>1 DEF Started
<1>3. /\ q.excn = r.excn /\ q.proc = r.proc /\ q.args = r.args
      /\ q.ctxt = r.ctxt /\ q.env = r.env /\ q.parn = r.parn /\ q.exh = r.exh
  BY <1>2 DEF RegisterNames
<1>4. Entry \in Addresses \ ExprPlain /\ Entry # EvalNative
  BY RoutineAssumption
<1>5. FrameSound(q, n)
  BY <1>2, <1>3, <1>4 DEF FrameSound
<1> QED
  BY <1>2, <1>3, <1>5

LEMMA HandledFrame ==
    ASSUME NEW r, NEW n, FrameSound(r, n), NEW e, Good(e, n), NEW h,
           NEW q, q = Handled(r, h, e)
    PROVE  /\ FrameSound(q, n)
           /\ q.pc = Entry /\ q.expr = e /\ q.exh = h
           /\ q.parn = r.parn /\ q.excn = r.excn
<1>1. r = [y \in RegisterNames |-> r[y]] /\ {"expr", "pc", "exh"} \subseteq RegisterNames
  BY DEF FrameSound, RegisterNames
<1>2. /\ q = [y \in RegisterNames |-> q[y]]
      /\ q.pc = Entry /\ q.expr = e /\ q.exh = h
      /\ \A y \in RegisterNames \ {"expr", "pc", "exh"} : q[y] = r[y]
  BY <1>1 DEF Handled
<1>3. /\ q.excn = r.excn /\ q.proc = r.proc /\ q.args = r.args
      /\ q.ctxt = r.ctxt /\ q.env = r.env /\ q.parn = r.parn
  BY <1>2 DEF RegisterNames
<1>4. Entry \in Addresses \ ExprPlain /\ Entry # EvalNative
  BY RoutineAssumption
<1>5. e # Builtin("eval-native-proc") /\ Usable(e, n)
  BY GoodIsNoBuiltin DEF Usable
<1>6. FrameSound(q, n)
  BY <1>2, <1>3, <1>4, <1>5 DEF FrameSound
<1> QED
  BY <1>2, <1>3, <1>6

\* The frames of via_catch.
LEMMA GuardedFrames ==
    ASSUME MachineSound, NEW e, Good(e, Len(envs)), NEW handler,
           Usable(handler, Len(envs)), handler # Builtin("eval-native-proc"),
           NEW gs, gs = Guarded(e, handler)
    PROVE  /\ IsSeq(gs) /\ Len(gs) = Len(frames) + 1
           /\ \A g \in 1 .. Len(frames) : g # regs => gs[g] = frames[g]
           /\ FrameSound(gs[regs], Len(envs))
           /\ gs[regs].pc = Entry /\ gs[regs].expr = e
           /\ gs[regs].exh = Len(frames) + 1
           /\ gs[regs].parn = Reg.parn /\ gs[regs].excn = Reg.excn
           /\ FrameSound(gs[Len(frames) + 1], Len(envs))
           /\ gs[Len(frames) + 1].pc = Entry /\ gs[Len(frames) + 1].expr = handler
           /\ gs[Len(frames) + 1].parn = Reg.parn
           /\ gs[Len(frames) + 1].exh = Reg.exh
<1>1. /\ IsSeq(frames) /\ regs \in 1 .. Len(frames) /\ Len(frames) \in Nat
      /\ FrameSound(Reg, Len(envs))
  BY Situation
<1>2. PICK n : n = Len(frames) + 1
  OBVIOUS
<1>3. PICK r : r = Handled(Reg, n, e)
  OBVIOUS
<1>4. PICK m : m = Started(Reg, handler)
  OBVIOUS
<1>5. PICK fs : fs = [frames EXCEPT ![regs] = r]
  OBVIOUS
<1>6. fs = [frames EXCEPT ![regs].exh = n, ![regs].expr = e, ![regs].pc = Entry]
  BY <1>1, <1>3, <1>5 DEF Reg, Handled
<1>7. gs = Append(fs, m)
  BY <1>2, <1>4, <1>6 DEF Guarded, Entry, Started
<1>8. \A j \in 1 .. Len(frames) : fs[j] = IF j = regs THEN r ELSE frames[j]
  BY <1>1, <1>5, ExceptRule
<1>9. IsSeq(fs)
  BY <1>1, <1>5, ExceptRule
<1>10. Len(fs) = Len(frames)
  BY <1>1, <1>5, ExceptRule
<1>11. /\ IsSeq(gs) /\ Len(gs) = n
       /\ \A j \in 1 .. Len(frames) : gs[j] = fs[j]
       /\ gs[n] = m
  BY <1>2, <1>7, <1>9, <1>10, AppendRule
<1>12. /\ FrameSound(r, Len(envs))
       /\ r.pc = Entry /\ r.expr = e /\ r.exh = n
       /\ r.parn = Reg.parn /\ r.excn = Reg.excn
  BY <1>1, <1>3, HandledFrame
<1>13. /\ FrameSound(m, Len(envs))
       /\ m.pc = Entry /\ m.expr = handler
       /\ m.parn = Reg.parn /\ m.exh = Reg.exh
  BY <1>1, <1>4, StartFrame
<1>14. gs[regs] = r /\ \A g \in 1 .. Len(frames) : g # regs => gs[g] = frames[g]
  BY <1>1, <1>8, <1>11
<1> QED
  BY <1>2, <1>11, <1>12, <1>13, <1>14

\* The operands of a form.
LEMMA GoodOps ==
    ASSUME MachineSound, Is("pair", Reg.ctxt)
    PROVE  /\ Good(Named, Len(envs)) /\ Good(Ops, Len(envs))
           /\ Is("pair", Ops) => Good(Ops[2], Len(envs)) /\ Good(Ops[3], Len(envs))
           /\ IsListFrom(2, Ops) =>
                 /\ Is("pair", Ops) /\ Is("pair", Ops[3])
                 /\ Good(Ops[3][2], Len(envs)) /\ Good(Ops[3][3], Len(envs))
<1>1. Good(Reg.ctxt, Len(envs))
  BY Situation DEF FrameSound
<1>2. Good(Reg.ctxt[2], Len(envs)) /\ Good(Reg.ctxt[3], Len(envs))
  BY <1>1, GoodParts
<1>3. Good(Named, Len(envs)) /\ Good(Ops, Len(envs))
  BY <1>2 DEF Named, Ops
<1>4. Is("pair", Ops) => Good(Ops[2], Len(envs)) /\ Good(Ops[3], Len(envs))
  BY <1>3, GoodParts
<1>5. IsListFrom(2, Ops) => Is("pair", Ops) /\ Is("pair", Ops[3])
  BY ListShape
<1>6. IsListFrom(2, Ops) => Good(Ops[3][2], Len(envs)) /\ Good(Ops[3][3], Len(envs))
  BY <1>4, <1>5, GoodParts
<1> QED
  BY <1>3, <1>4, <1>5, <1>6

LEMMA CatchStep ==
    ASSUME Sound, Note, ~resumed', Op("callb"), Catch
    PROVE  MachineSound' /\ Follows
<1>0. MachineSound
  BY DEF Sound
<1>1. running /\ Opcode(Reg.pc) = "callb"
  BY <1>0, Situation
<1>2. /\ Operand = "catch-proc" /\ Is("pair", Reg.ctxt) /\ IsListFrom(2, Ops)
      /\ Len(frames) < MaxFrames
      /\ Proceed(Guarded(Ops[2], Ops[3][2]), regs)
      /\ UNCHANGED <<acc, ret, envs, stack>>
  BY DEF Catch, InForm, Callb, Quiet
<1>3. PICK e, handler : e = Ops[2] /\ handler = Ops[3][2]
  OBVIOUS
<1>4. Good(e, Len(envs)) /\ Good(handler, Len(envs))
  BY <1>0, <1>2, <1>3, GoodOps
<1>5. Usable(handler, Len(envs)) /\ handler # Builtin("eval-native-proc")
  BY <1>4, GoodIsNoBuiltin DEF Usable
<1>6. PICK gs : gs = Guarded(e, handler)
  OBVIOUS
<1>7. PICK n : n = Len(frames) + 1
  OBVIOUS
<1>8. /\ IsSeq(gs) /\ Len(gs) = n
      /\ \A g \in 1 .. Len(frames) : g # regs => gs[g] = frames[g]
      /\ FrameSound(gs[regs], Len(envs))
      /\ gs[regs].pc = Entry /\ gs[regs].expr = e
      /\ gs[regs].exh = n
      /\ gs[regs].parn = Reg.parn /\ gs[regs].excn = Reg.excn
      /\ FrameSound(gs[n], Len(envs))
      /\ gs[n].pc = Entry /\ gs[n].expr = handler
      /\ gs[n].parn = Reg.parn
      /\ gs[n].exh = Reg.exh
  BY <1>0, <1>4, <1>5, <1>6, <1>7, GuardedFrames
<1>9. /\ Len(frames) \in 1 .. MaxFrames /\ regs \in 1 .. Len(frames)
      /\ IsSeq(frames)
  BY <1>0, Skeletal, Situation
<1>10. regs \in 1 .. Len(gs) /\ Proceed(gs, regs)
  BY <1>2, <1>3, <1>6, <1>7, <1>8, <1>9, MachineAssumption
<1>11. /\ Entry \in (Addresses \cap AccAny) \ (Waits \cup Halfway)
       /\ Entry \notin {Reg.pc, ArgDone, EvalNative}
  BY <1>0, <1>1, CallbTarget
<1>12. /\ regs' = regs /\ IsSeq(frames') /\ Len(frames') = n
       /\ \A g \in 1 .. n : frames'[g] = gs[g]
       /\ UNCHANGED <<running, program, runs>>
  <2>1. /\ regs' = regs /\ IsSeq(frames') /\ Len(frames') = Len(gs)
        /\ \A g \in 1 .. Len(gs) :
              frames'[g] = IF g = regs THEN Bumped(gs[regs]) ELSE gs[g]
        /\ UNCHANGED <<running, program, runs>>
    BY <1>8, <1>10, ProceedRule
  <2>2. PICK r : r = gs[regs]
    OBVIOUS
  <2>3. r = [x \in RegisterNames |-> r[x]] /\ r.pc # Reg.pc
    BY <1>8, <1>11, <2>2 DEF FrameSound
  <2>4. Bumped(r) = r
    BY <2>3 DEF Bumped
  <2> QED
    BY <1>8, <2>1, <2>2, <2>4
<1>13. /\ n \in 1 .. n /\ regs \in 1 .. n /\ n # regs
       /\ \A f \in 1 .. n : f = n \/ f \in 1 .. Len(frames)
       /\ \A f \in 1 .. Len(frames) : f \in 1 .. n /\ f # n
  BY <1>7, <1>9, MachineAssumption
<1>14. Reg' = gs[regs]
  BY <1>12, <1>13 DEF Reg
<1>15. regs \notin default /\ Reg.pc \notin Waits \cup Halfway \cup {ArgDone}
  BY <1>0, <1>1, <1>2, CallbPlace
\* The machine.
<1>16. FramesSound'
  <2>1. ASSUME NEW f \in 1 .. n
        PROVE  /\ FrameSound(frames'[f], Len(envs))
               /\ f # regs => frames'[f].pc \notin Halfway
    <3>1. CASE f \in {n, regs}
      BY <1>8, <1>11, <1>12, <3>1
    <3>2. CASE f \notin {n, regs}
      BY <1>0, <1>8, <1>12, <1>13, <3>2 DEF MachineSound, FramesSound
    <3> QED
      BY <3>1, <3>2
  <2> QED
    BY <1>2, <1>12, <1>13, <2>1 DEF FramesSound
<1>17. EnvironmentsSound'
  BY <1>0, <1>2 DEF MachineSound, EnvironmentsSound, EnvsSound
<1>18. AccSound'
  BY <1>0, <1>2, <1>8, <1>11, <1>14 DEF AccSound, MachineSound, Halfway
<1>19. owners' = owners /\ Len(owners) \in Nat
  BY <1>1, Skeletal DEF Note, NoteOwners, Op, Opcode
<1>20. /\ Len(stack) = Len(owners) /\ IsSeq(stack)
       /\ \A i \in 1 .. Len(stack) : Good(stack[i], Len(envs))
  BY <1>0, <1>1, <1>2, CallbStack
<1>21. Len(stack') = Len(owners') + 0
  BY <1>2, <1>19, <1>20
<1>22. StackSound'
  BY <1>2, <1>8, <1>11, <1>14, <1>20, <1>21 DEF StackSound, Halfway
<1>23. ~Throws /\ ~Callb("continuation-proc")
  BY <1>2, <1>12 DEF Throws, Callb
<1>24. default' = default /\ held' = held
  BY <1>1, <1>23 DEF Note
<1>25. entered' = entered /\ thrown' = thrown /\ resumed' = resumed
  <2>1. entered' = entered
    BY <1>23 DEF Note
  <2>2. thrown' = thrown
    BY <1>23, Skeletal DEF Note
  <2>3. resumed' = resumed
    BY Skeletal DEF Note
  <2> QED
    BY <2>1, <2>2, <2>3
<1>26. DefaultSound'
  <2>1. \A f \in default : f \in 1 .. Len(frames) /\ f # regs
    BY <1>15, Skeletal
  <2> QED
    BY <1>0, <1>8, <1>12, <1>13, <1>24, <2>1 DEF MachineSound, DefaultSound
<1>27. ThrownSound'
  <2>1. \A f \in 1 .. Len(frames) : frames'[f].excn = frames[f].excn /\ f \in 1 .. n
    BY <1>8, <1>9, <1>12, <1>13 DEF Reg
  <2> QED
    BY <1>0, <1>12, <1>25, <2>1 DEF MachineSound, ThrownSound
<1>28. HostSound'
  BY <1>0, <1>1, <1>12 DEF MachineSound, HostSound
<1>29. MachineSound'
  BY <1>16, <1>17, <1>18, <1>22, <1>26, <1>27, <1>28 DEF MachineSound
\* The skeleton.
<1>30. /\ n \in 1 .. MaxFrames /\ regs \in 1 .. MaxFrames
       /\ \A f \in 1 .. MaxFrames :
             /\ f > Len(frames') <=> f > Len(frames) /\ f # n
             /\ f \in 1 .. Len(frames) <=> ~(f > Len(frames))
             /\ f \in 1 .. n <=> ~(f > Len(frames'))
  BY <1>2, <1>7, <1>9, <1>12, MachineAssumption
<1>31. Handlers' = [Handlers EXCEPT ![n] = Handlers[regs], ![regs] = n]
  <2>1. \A f \in 1 .. MaxFrames :
           Handlers'[f] = IF f = n THEN Handlers[regs]
                          ELSE IF f = regs THEN n ELSE Handlers[f]
    BY <1>8, <1>9, <1>12, <1>13, <1>30 DEF Handlers, Reg
  <2> QED
    BY <2>1, <1>13, <1>30 DEF Handlers
<1>32. Parents' = [Parents EXCEPT ![n] = Parents[regs]]
  <2>1. \A f \in 1 .. MaxFrames :
           Parents'[f] = IF f = n THEN Parents[regs] ELSE Parents[f]
    BY <1>8, <1>9, <1>12, <1>13, <1>30 DEF Parents, Reg
  <2> QED
    BY <2>1, <1>30 DEF Parents
<1>33. Stands[regs] = "live"
  BY <1>1, <1>9, <1>15, <1>30 DEF Stands, Doing, Reg
<1>34. Stands' = [Stands EXCEPT ![n] = "live"]
  <2>1. PICK c : c = regs
    OBVIOUS
  <2>2. Doing(c)' = "live"
    BY <1>1, <1>8, <1>11, <1>12, <1>13, <1>30, <2>1 DEF Doing
  <2>3. Doing(n)' = "live"
    BY <1>1, <1>8, <1>11, <1>12, <1>13, <1>30, RoutineAssumption DEF Doing, Opcode
  <2>4. \A f \in 1 .. MaxFrames : f \notin {c, n} => Doing(f)' = Doing(f)
    BY <1>1, <1>8, <1>12, <1>13, <1>30, <2>1 DEF Doing
  <2>5. Doing(c) = "live"
    BY <1>30, <1>33, <2>1 DEF Stands
  <2> QED
    BY <1>30, <2>1, <2>2, <2>3, <2>4, <2>5 DEF Stands
<1>35. P!Catch
  BY <1>1, <1>2, <1>7, <1>12, <1>15, <1>19, <1>24, <1>25, <1>31, <1>32, <1>33, <1>34
  DEF P!Catch, P!CatchUnder, P!Executing, P!fresh
<1> QED
  BY <1>29, <1>35 DEF Follows, P!Next

LEMMA ContinuationStep ==
    ASSUME Sound, Note, ~resumed', Op("callb"), Continuation
    PROVE  MachineSound' /\ Follows
<1>0. MachineSound
  BY DEF Sound
<1>1. running /\ Opcode(Reg.pc) = "callb"
  BY <1>0, Situation
<1>2. /\ Operand = "continuation-proc" /\ Len(frames) < MaxFrames
      /\ ret' = Frame(Len(frames) + 1)
      /\ Proceed(Append(frames, Made), regs)
      /\ UNCHANGED <<acc, envs, stack>>
  BY DEF Continuation, InForm, Callb
<1>3. /\ Len(frames) \in 1 .. MaxFrames /\ regs \in 1 .. Len(frames)
      /\ IsSeq(frames) /\ FrameSound(Reg, Len(envs))
  BY <1>0, Skeletal, Situation
<1>4. PICK n : n = Len(frames) + 1
  OBVIOUS
<1>5. PICK m : m = Made
  OBVIOUS
<1>6. m = [Reg EXCEPT !.parn = regs]
  BY <1>5 DEF Made
<1>7. FrameSound(m, Len(envs))
  BY <1>3, <1>6, ChildFrame
<1>8. m.parn = regs /\ m.exh = Reg.exh /\ m.excn = Reg.excn /\ m.pc = Reg.pc
  <2>1. Reg = [y \in RegisterNames |-> Reg[y]]
    BY <1>3 DEF FrameSound
  <2> QED
    BY <1>6, <2>1 DEF RegisterNames
<1>9. PICK gs : gs = Append(frames, m)
  OBVIOUS
<1>10. /\ IsSeq(gs) /\ Len(gs) = n
       /\ \A g \in 1 .. Len(frames) : gs[g] = frames[g]
       /\ gs[n] = m
  BY <1>3, <1>4, <1>9, AppendRule
<1>11. /\ n \in 1 .. n /\ regs \in 1 .. n /\ n # regs
       /\ \A f \in 1 .. n : f = n \/ f \in 1 .. Len(frames)
       /\ \A f \in 1 .. Len(frames) : f \in 1 .. n /\ f # n
  BY <1>3, <1>4, MachineAssumption
<1>12. /\ Reg.pc + 1 \in (Addresses \cap AccAny) \ (Waits \cup Halfway)
       /\ Reg.pc + 1 \notin {Reg.pc, ArgDone, EvalNative}
       /\ Reg.pc + 1 \in ExprPlain => Good(Reg.expr, Len(envs))
  BY <1>0, <1>1, CallbTarget
<1>13. PICK q : q = Bumped(Reg)
  OBVIOUS
<1>14. /\ FrameSound(q, Len(envs)) /\ q.pc = Reg.pc + 1
       /\ \A x \in RegisterNames \ {"pc"} : q[x] = Reg[x]
  BY <1>3, <1>12, <1>13, BumpedFrame
<1>15. q.parn = Reg.parn /\ q.exh = Reg.exh /\ q.excn = Reg.excn
  BY <1>14 DEF RegisterNames
<1>16. /\ regs' = regs /\ IsSeq(frames') /\ Len(frames') = n
       /\ \A g \in 1 .. Len(frames) : g # regs => frames'[g] = frames[g]
       /\ frames'[regs] = q /\ frames'[n] = m
       /\ UNCHANGED <<running, program, runs>>
  <2>1. Proceed(gs, regs) /\ regs \in 1 .. Len(gs)
    BY <1>2, <1>5, <1>9, <1>10, <1>11
  <2>2. /\ regs' = regs /\ IsSeq(frames') /\ Len(frames') = Len(gs)
        /\ \A g \in 1 .. Len(gs) :
              frames'[g] = IF g = regs THEN Bumped(gs[regs]) ELSE gs[g]
        /\ UNCHANGED <<running, program, runs>>
    BY <1>10, <2>1, ProceedRule
  <2>3. gs[regs] = Reg
    BY <1>3, <1>10 DEF Reg
  <2> QED
    BY <1>10, <1>11, <1>13, <2>2, <2>3
<1>17. Reg' = q
  BY <1>16 DEF Reg
<1>18. regs \notin default /\ Reg.pc \notin Waits \cup Halfway \cup {ArgDone}
  BY <1>0, <1>1, <1>2, CallbPlace
\* The machine.
<1>19. FramesSound'
  <2>1. ASSUME NEW f \in 1 .. n
        PROVE  /\ FrameSound(frames'[f], Len(envs))
               /\ f # regs => frames'[f].pc \notin Halfway
    <3>1. CASE f = n
      BY <1>7, <1>8, <1>16, <1>18, <3>1
    <3>2. CASE f = regs
      BY <1>14, <1>16, <3>2
    <3>3. CASE f \notin {n, regs}
      BY <1>0, <1>11, <1>16, <3>3 DEF MachineSound, FramesSound
    <3> QED
      BY <3>1, <3>2, <3>3
  <2> QED
    BY <1>2, <1>11, <1>16, <2>1 DEF FramesSound
<1>20. EnvironmentsSound'
  BY <1>0, <1>2 DEF MachineSound, EnvironmentsSound, EnvsSound
<1>21. Good(ret', Len(envs))
  BY <1>2, GoodConstants
<1>22. AccSound'
  BY <1>0, <1>2, <1>12, <1>14, <1>17, <1>21 DEF AccSound, MachineSound, Halfway
<1>23. owners' = owners /\ Len(owners) \in Nat
  BY <1>1, Skeletal DEF Note, NoteOwners, Op, Opcode
<1>24. /\ Len(stack) = Len(owners) /\ IsSeq(stack)
       /\ \A i \in 1 .. Len(stack) : Good(stack[i], Len(envs))
  BY <1>0, <1>1, <1>2, CallbStack
<1>25. Len(stack') = Len(owners') + 0
  BY <1>2, <1>23, <1>24
<1>26. StackSound'
  BY <1>2, <1>12, <1>14, <1>17, <1>24, <1>25 DEF StackSound, Halfway
<1>27. ~Throws /\ Callb("continuation-proc")
  BY <1>1, <1>2, <1>16 DEF Throws, Callb, Op, Opcode
<1>28. default' = default /\ entered' = entered
  BY <1>1, <1>27 DEF Note
<1>29. thrown' = thrown /\ resumed' = resumed
  BY <1>27, Skeletal DEF Note
<1>30. held' = held \cup {n}
  <2>1. DOMAIN frames' = 1 .. n /\ DOMAIN frames = 1 .. Len(frames)
    BY <1>3, <1>16, SeqRule
  <2>2. DOMAIN frames' \ DOMAIN frames = {n}
    BY <1>11, <2>1, <1>4, <1>3, MachineAssumption
  <2>3. held' = held \cup {f \in DOMAIN frames' \ DOMAIN frames : TRUE}
    BY <1>27 DEF Note
  <2> QED
    BY <2>2, <2>3
<1>31. DefaultSound'
  <2>1. \A f \in default : f \in 1 .. Len(frames) /\ f # regs
    BY <1>18, Skeletal
  <2> QED
    BY <1>0, <1>16, <1>28, <2>1 DEF MachineSound, DefaultSound
<1>32. ThrownSound'
  <2>1. \A f \in 1 .. Len(frames) : frames'[f].excn = frames[f].excn /\ f \in 1 .. n
    BY <1>3, <1>11, <1>15, <1>16 DEF Reg
  <2> QED
    BY <1>0, <1>16, <1>29, <2>1 DEF MachineSound, ThrownSound
<1>33. HostSound'
  BY <1>0, <1>1, <1>16 DEF MachineSound, HostSound
<1>34. MachineSound'
  BY <1>19, <1>20, <1>22, <1>26, <1>31, <1>32, <1>33 DEF MachineSound
\* The skeleton.
<1>35. /\ n \in 1 .. MaxFrames /\ regs \in 1 .. MaxFrames
       /\ \A f \in 1 .. MaxFrames :
             /\ f > Len(frames') <=> f > Len(frames) /\ f # n
             /\ f \in 1 .. Len(frames) <=> ~(f > Len(frames))
             /\ f \in 1 .. n <=> ~(f > Len(frames'))
  BY <1>2, <1>3, <1>4, <1>16, MachineAssumption
<1>36. Handlers' = [Handlers EXCEPT ![n] = Handlers[regs]]
  <2>1. \A f \in 1 .. MaxFrames :
           Handlers'[f] = IF f = n THEN Handlers[regs] ELSE Handlers[f]
    BY <1>3, <1>8, <1>11, <1>15, <1>16, <1>35 DEF Handlers, Reg
  <2> QED
    BY <2>1, <1>35 DEF Handlers
<1>37. Parents' = [Parents EXCEPT ![n] = regs]
  <2>1. \A f \in 1 .. MaxFrames :
           Parents'[f] = IF f = n THEN regs ELSE Parents[f]
    BY <1>3, <1>8, <1>11, <1>15, <1>16, <1>35 DEF Parents, Reg
  <2> QED
    BY <2>1, <1>35 DEF Parents
<1>38. Stands[regs] = "live"
  BY <1>1, <1>3, <1>18, <1>35 DEF Stands, Doing, Reg
<1>39. Stands' = [Stands EXCEPT ![n] = "live"]
  <2>1. PICK c : c = regs
    OBVIOUS
  <2>2. Doing(c)' = "live"
    BY <1>1, <1>11, <1>12, <1>14, <1>16, <1>35, <2>1 DEF Doing
  <2>3. Doing(n)' = "live"
    BY <1>1, <1>8, <1>11, <1>16, <1>18, <1>35 DEF Doing, Opcode
  <2>4. \A f \in 1 .. MaxFrames : f \notin {c, n} => Doing(f)' = Doing(f)
    BY <1>1, <1>16, <1>35, <2>1 DEF Doing
  <2>5. Doing(c) = "live"
    BY <1>35, <1>38, <2>1 DEF Stands
  <2> QED
    BY <1>35, <2>1, <2>2, <2>3, <2>4, <2>5 DEF Stands
<1>40. P!HoldContinuation
  BY <1>1, <1>2, <1>4, <1>16, <1>18, <1>23, <1>28, <1>29, <1>30, <1>36, <1>37,
     <1>38, <1>39
  DEF P!HoldContinuation, P!MakeFrame, P!Executing, P!fresh
<1> QED
  BY <1>34, <1>40 DEF Follows, P!Next

-----------------------------------------------------------------------------
(* The host. *)

LEMMA RunEvalStep ==
    ASSUME Sound, Note, ~resumed', NEW expr \in Programs, RunEval(expr)
    PROVE  MachineSound' /\ Follows
<1>0. MachineSound
  BY DEF Sound
<1>1. PICK handler : handler = Builtin("default-except-proc")
  OBVIOUS
<1>2. PICK gs : gs = Guarded(expr, handler)
  OBVIOUS
<1>3. /\ ~running /\ runs < MaxRuns /\ Len(frames) < MaxFrames
      /\ runs' = runs + 1 /\ running' = TRUE
      /\ frames' = [gs EXCEPT ![regs].parn = 0]
      /\ UNCHANGED <<acc, ret, regs, envs, stack>>
  BY <1>1, <1>2 DEF RunEval, Host
<1>4. PICK n : n = Len(frames) + 1
  OBVIOUS
<1>5. /\ Len(frames) \in 1 .. MaxFrames /\ regs \in 1 .. Len(frames)
      /\ IsSeq(frames) /\ Len(envs) \in Nat \ {0} /\ Reg.pc \in Addresses
  BY <1>0, Skeletal, Situation
<1>6. Good(expr, Len(envs))
  BY <1>5, GoodTerms
<1>7. Usable(handler, Len(envs)) /\ handler # Builtin("eval-native-proc")
  <2>1. "default-except-proc" \in RoutineNames
    BY BuiltinAssumption
  <2>2. handler # Builtin("eval-native-proc")
    BY <1>1, <2>1, BuiltinAssumption DEF Builtin, EvalNative
  <2> QED
    BY <1>1, <2>1, <2>2 DEF Usable, Routines
<1>8. /\ IsSeq(gs) /\ Len(gs) = n
      /\ \A g \in 1 .. Len(frames) : g # regs => gs[g] = frames[g]
      /\ FrameSound(gs[regs], Len(envs))
      /\ gs[regs].pc = Entry /\ gs[regs].expr = expr
      /\ gs[regs].exh = n
      /\ gs[regs].parn = Reg.parn /\ gs[regs].excn = Reg.excn
      /\ FrameSound(gs[n], Len(envs))
      /\ gs[n].pc = Entry /\ gs[n].expr = handler
      /\ gs[n].parn = Reg.parn
      /\ gs[n].exh = Reg.exh
  BY <1>0, <1>2, <1>4, <1>6, <1>7, GuardedFrames
<1>9. PICK r : r = [gs[regs] EXCEPT !.parn = 0]
  OBVIOUS
<1>10. /\ FrameSound(r, Len(envs))
       /\ r.parn = 0 /\ r.exh = n /\ r.excn = Reg.excn /\ r.pc = Entry
  <2>1. PICK g : g = gs[regs]
    OBVIOUS
  <2>2. FrameSound(g, Len(envs)) /\ r = [g EXCEPT !.parn = 0]
    BY <1>8, <1>9, <2>1
  <2>3. FrameSound(r, Len(envs))
    BY <2>2, ChildFrame
  <2>4. g = [y \in RegisterNames |-> g[y]]
    BY <2>2 DEF FrameSound
  <2>5. r.parn = 0 /\ r.exh = g.exh /\ r.excn = g.excn /\ r.pc = g.pc
    BY <2>2, <2>4 DEF RegisterNames
  <2> QED
    BY <1>8, <2>1, <2>3, <2>5
<1>11. /\ n \in 1 .. n /\ regs \in 1 .. n /\ n # regs
       /\ \A f \in 1 .. n : f = n \/ f \in 1 .. Len(frames)
       /\ \A f \in 1 .. Len(frames) : f \in 1 .. n /\ f # n
  BY <1>4, <1>5, MachineAssumption
<1>12. /\ IsSeq(frames') /\ Len(frames') = n
       /\ \A g \in 1 .. n : frames'[g] = IF g = regs THEN r ELSE gs[g]
  <2>1. PICK fs : fs = [gs EXCEPT ![regs] = r]
    OBVIOUS
  <2>2. frames' = fs
    BY <1>3, <1>9, <2>1
  <2>3. regs \in 1 .. Len(gs)
    BY <1>8, <1>11
  <2>4. \A g \in 1 .. Len(gs) : fs[g] = IF g = regs THEN r ELSE gs[g]
    BY <1>8, <2>1, <2>3, ExceptRule
  <2>5. IsSeq(fs)
    BY <1>8, <2>1, <2>3, ExceptRule
  <2>6. Len(fs) = Len(gs)
    BY <1>8, <2>1, <2>3, ExceptRule
  <2> QED
    BY <1>8, <2>2, <2>4, <2>5, <2>6
<1>13. Reg' = r
  BY <1>3, <1>11, <1>12 DEF Reg
<1>14. Entry \in (Addresses \cap AccAny) \ (Waits \cup Halfway)
       /\ Entry # ArgDone
  BY RoutineAssumption, WaitAssumption
<1>15. \A name : ~Op(name) /\ ~Callb(name)
  BY <1>3 DEF Op, Callb
<1>16. ~Throws
  BY <1>15 DEF Throws
<1>17. owners' = owners /\ Len(owners) \in Nat
  BY <1>15, Skeletal DEF Note, NoteOwners
<1>18. default' = (default \ {regs}) \cup {n}
  BY <1>3, <1>4 DEF Note, fresh
<1>19. held' = held /\ entered' = entered
  BY <1>15, <1>16 DEF Note
<1>20. thrown' = thrown /\ resumed' = resumed
  BY <1>15, <1>16, Skeletal DEF Note
\* The machine.
<1>21. FramesSound'
  <2>1. ASSUME NEW f \in 1 .. n
        PROVE  /\ FrameSound(frames'[f], Len(envs))
               /\ f # regs => frames'[f].pc \notin Halfway
    <3>1. CASE f = n
      BY <1>8, <1>11, <1>12, <1>14, <3>1
    <3>2. CASE f = regs
      BY <1>10, <1>12, <3>2
    <3>3. CASE f \notin {n, regs}
      BY <1>0, <1>8, <1>11, <1>12, <3>3 DEF MachineSound, FramesSound
    <3> QED
      BY <3>1, <3>2, <3>3
  <2> QED
    BY <1>3, <1>11, <1>12, <2>1 DEF FramesSound
<1>22. EnvironmentsSound'
  BY <1>0, <1>3 DEF MachineSound, EnvironmentsSound, EnvsSound
<1>23. AccSound'
  BY <1>0, <1>3, <1>10, <1>13, <1>14 DEF AccSound, MachineSound, Halfway
<1>24. Reg.pc \notin Pushed
  <2>1. Opcode(Reg.pc) = "return"
    BY <1>0, <1>3 DEF MachineSound, HostSound
  <2> QED
    BY <1>5, <2>1, AddressAssumption
<1>25. StackSound'
  BY <1>0, <1>3, <1>10, <1>13, <1>14, <1>17, <1>24
  DEF StackSound, MachineSound, Halfway
<1>26. DefaultSound'
  <2>1. ASSUME NEW f \in default'
        PROVE  /\ frames'[f].pc \in HandlerPath
               /\ frames'[f].expr = Builtin("default-except-proc")
    <3>1. CASE f = n
      <4>1. Entry \in HandlerPath
        <5>1. Entry \in Nat
          BY RoutineAssumption, AddressAssumption
        <5>2. Entry = Entry + 0
          BY <5>1
        <5> QED
          BY <5>2 DEF HandlerPath
      <4> QED
        BY <1>1, <1>8, <1>11, <1>12, <3>1, <4>1
    <3>2. CASE f # n
      <4>1. f \in default /\ f # regs /\ f \in 1 .. Len(frames)
        BY <1>18, <2>1, <3>2, Skeletal
      <4> QED
        BY <1>0, <1>8, <1>11, <1>12, <4>1 DEF MachineSound, DefaultSound
    <3> QED
      BY <3>1, <3>2
  <2> QED
    BY <2>1 DEF DefaultSound
<1>27. ThrownSound'
  <2>1. \A f \in 1 .. Len(frames) : frames'[f].excn = frames[f].excn /\ f \in 1 .. n
    BY <1>5, <1>8, <1>10, <1>11, <1>12 DEF Reg
  <2> QED
    BY <1>0, <1>12, <1>20, <2>1 DEF MachineSound, ThrownSound
<1>28. HostSound'
  BY <1>0, <1>3, MachineAssumption DEF MachineSound, HostSound
<1>29. MachineSound'
  BY <1>21, <1>22, <1>23, <1>25, <1>26, <1>27, <1>28 DEF MachineSound
\* The skeleton.
<1>30. /\ n \in 1 .. MaxFrames /\ regs \in 1 .. MaxFrames
       /\ \A f \in 1 .. MaxFrames :
             /\ f > Len(frames') <=> f > Len(frames) /\ f # n
             /\ f \in 1 .. Len(frames) <=> ~(f > Len(frames))
             /\ f \in 1 .. n <=> ~(f > Len(frames'))
  BY <1>3, <1>4, <1>5, <1>12, MachineAssumption
<1>31. Handlers' = [Handlers EXCEPT ![n] = Handlers[regs], ![regs] = n]
  <2>1. \A f \in 1 .. MaxFrames :
           Handlers'[f] = IF f = n THEN Handlers[regs]
                          ELSE IF f = regs THEN n ELSE Handlers[f]
    BY <1>5, <1>8, <1>10, <1>11, <1>12, <1>30 DEF Handlers, Reg
  <2> QED
    BY <2>1, <1>11, <1>30 DEF Handlers
<1>32. Parents' = [Parents EXCEPT ![n] = Parents[regs], ![regs] = 0]
  <2>1. \A f \in 1 .. MaxFrames :
           Parents'[f] = IF f = n THEN Parents[regs]
                         ELSE IF f = regs THEN 0 ELSE Parents[f]
    BY <1>5, <1>8, <1>10, <1>11, <1>12, <1>30 DEF Parents, Reg
  <2> QED
    BY <2>1, <1>11, <1>30 DEF Parents
<1>33. Stands' = [Stands EXCEPT ![n] = "live", ![regs] = "live"]
  <2>1. PICK c : c = regs
    OBVIOUS
  <2>2. Doing(c)' = "live"
    BY <1>3, <1>10, <1>11, <1>12, <1>14, <1>30, <2>1 DEF Doing
  <2>3. Doing(n)' = "live"
    BY <1>3, <1>8, <1>11, <1>12, <1>14, <1>30, RoutineAssumption DEF Doing, Opcode
  <2>4. \A f \in 1 .. MaxFrames : f \notin {c, n} => Doing(f)' = Doing(f)
    BY <1>3, <1>8, <1>11, <1>12, <1>30, <2>1 DEF Doing
  <2> QED
    BY <1>30, <2>1, <2>2, <2>3, <2>4 DEF Stands
<1>34. P!RunEval
  BY <1>3, <1>4, <1>12, <1>17, <1>18, <1>19, <1>20, <1>31, <1>32, <1>33
  DEF P!RunEval, P!RunEvalUnder, P!fresh
<1> QED
  BY <1>29, <1>34 DEF Follows, P!Next

-----------------------------------------------------------------------------
(* The builtins that change no more than the current frame and throw. *)

\* A change of one of the registers that hold lists.
LEMMA SetSome ==
    ASSUME MachineSound, NEW x \in {"ctxt", "args"}, NEW v, Good(v, Len(envs)),
           NEW r, r = [Reg EXCEPT ![x] = v]
    PROVE  /\ FrameSound(r, Len(envs)) /\ r.pc = Reg.pc /\ r.expr = Reg.expr
           /\ r.parn = Reg.parn /\ r.exh = Reg.exh /\ r.excn = Reg.excn
<1>1. FrameSound(Reg, Len(envs)) /\ Reg = [y \in RegisterNames |-> Reg[y]]
  BY Situation
<1>2. x \in {"ctxt", "expr", "proc", "args"}
  OBVIOUS
<1>3. FrameSound(r, Len(envs))
  BY <1>1, <1>2, SetFrame
<1>4. \A y \in RegisterNames \ {x} : r[y] = Reg[y]
  BY <1>1
<1>5. /\ r.pc = Reg.pc /\ r.expr = Reg.expr
      /\ r.parn = Reg.parn /\ r.exh = Reg.exh /\ r.excn = Reg.excn
  BY <1>4 DEF RegisterNames
<1> QED
  BY <1>3, <1>5

LEMMA AnswerRule ==
    ASSUME Sound, Note, ~resumed', Op("callb"), Operand # "env-set-proc",
           NEW v, Good(v, Len(envs)), Answer(v)
    PROVE  MachineSound' /\ Follows
<1>1. MachineSound
  BY DEF Sound
<1>2. running /\ Opcode(Reg.pc) = "callb" /\ FrameSound(Reg, Len(envs))
  BY <1>1, Situation
<1>3. ret' = v /\ With(Reg) /\ UNCHANGED <<acc, envs, stack>>
  BY DEF Answer
<1> QED
  BY <1>2, <1>3, AnswerStep

LEMMA ThrowRule ==
    ASSUME Sound, Note, ~resumed', Op("callb"),
           Operand \notin {"env-set-proc", "assume-proc", "default-except-proc"},
           NEW type, ThrowFrom(Reg, Exception(type)),
           UNCHANGED <<envs, stack>>, Good(ret', Len(envs))
    PROVE  MachineSound' /\ Follows
<1>1. MachineSound
  BY DEF Sound
<1>2. running /\ Opcode(Reg.pc) = "callb" /\ FrameSound(Reg, Len(envs))
  BY <1>1, Situation
<1>3. PICK v : v = Exception(type)
  OBVIOUS
<1>4. Good(v, Len(envs)) /\ v # Nil
  BY <1>3, GoodConstants DEF Exception, Nil
<1> QED
  BY <1>2, <1>3, <1>4, ThrowStep

LEMMA PlainThrow ==
    ASSUME Sound, Note, ~resumed', Op("callb"),
           Operand \notin {"env-set-proc", "assume-proc", "default-except-proc"},
           NEW type, Throw(type)
    PROVE  MachineSound' /\ Follows
<1>1. ThrowFrom(Reg, Exception(type)) /\ UNCHANGED <<ret, envs, stack>>
  BY DEF Throw
<1>2. Good(ret', Len(envs))
  BY <1>1 DEF Sound, MachineSound, AccSound
<1> QED
  BY <1>1, <1>2, ThrowRule

LEMMA LookupSteps ==
    ASSUME Sound, Note, ~resumed', Op("callb"), LookupFound \/ LookupFailed
    PROVE  MachineSound' /\ Follows
<1>0. MachineSound
  BY DEF Sound
<1>1. CASE LookupFound
  <2>1. PICK e : e = Binder(acc[2], Reg.env)
    OBVIOUS
  <2>2. Operand = "lookup-proc" /\ e # 0 /\ Answer(BoundIn(envs, acc[2], e))
    BY <1>1, <2>1 DEF LookupFound, Callb
  <2>3. EnvsSound(envs) /\ Reg.env \in 1 .. Len(envs)
    BY <1>0, Situation DEF MachineSound, EnvironmentsSound, FrameSound
  <2>4. e \in 1 .. Len(envs) /\ Binds(envs, acc[2], e)
    BY <2>1, <2>2, <2>3, BinderRule DEF Binder
  <2>5. Good(BoundIn(envs, acc[2], e), Len(envs))
    BY <2>3, <2>4, GoodBound
  <2> QED
    BY <2>2, <2>5, AnswerRule
<1>2. CASE LookupFailed
  <2>1. /\ Operand = "lookup-proc" /\ ret' = <<"undefined">>
        /\ ThrowFrom(Reg, Exception("exc-undefined-value"))
        /\ UNCHANGED <<envs, stack>>
    BY <1>2 DEF LookupFailed, Callb
  <2>2. Good(ret', Len(envs))
    BY <2>1, GoodConstants
  <2> QED
    BY <2>1, <2>2, ThrowRule
<1> QED
  BY <1>1, <1>2

LEMMA FormSteps ==
    ASSUME Sound, Note, ~resumed', Op("callb"),
           Quote \/ ContinuationOperands \/ Lambda \/ LambdaMalformed
           \/ CatchMalformed \/ SyntaxTransformOperands
    PROVE  MachineSound' /\ Follows
<1>0. MachineSound
  BY DEF Sound
<1>1. CASE Quote
  <2>1. Operand = "quote-proc" /\ Is("pair", Reg.ctxt)
    BY <1>1 DEF Quote, InForm, Callb
  <2>2. CASE Throw("exc-syntax-error")
    BY <2>1, <2>2, PlainThrow
  <2>3. CASE Is("pair", Ops) /\ Answer(Ops[2])
    BY <1>0, <2>1, <2>3, GoodOps, AnswerRule
  <2> QED
    BY <1>1, <2>2, <2>3 DEF Quote
<1>2. CASE ContinuationOperands
  <2>1. Operand = "continuation-proc" /\ Throw("exc-syntax-error")
    BY <1>2 DEF ContinuationOperands, InForm, Callb
  <2> QED
    BY <2>1, PlainThrow
<1>3. CASE CatchMalformed
  <2>1. Operand = "catch-proc" /\ Throw("exc-syntax-error")
    BY <1>3 DEF CatchMalformed, InForm, Callb
  <2> QED
    BY <2>1, PlainThrow
<1>4. CASE SyntaxTransformOperands
  <2>1. Operand = "syntax-transform-proc" /\ Throw("exc-syntax-error")
    BY <1>4 DEF SyntaxTransformOperands, InForm, Callb
  <2> QED
    BY <2>1, PlainThrow
<1>5. ASSUME IsListFrom(2, Ops), Is("pair", Reg.ctxt)
      PROVE  Good(Closure, Len(envs))
  <2>1. Good(Ops[3][2], Len(envs))
    BY <1>0, <1>5, GoodOps
  <2>2. Reg.env \in 1 .. Len(envs)
    BY <1>0, Situation DEF FrameSound
  <2> QED
    BY <2>1, <2>2, GoodProc DEF Closure
<1>6. CASE Lambda
  <2>1. /\ Operand = "lambda-proc" /\ Is("pair", Reg.ctxt) /\ IsListOf(2, Ops)
        /\ Answer(Closure)
    BY <1>6 DEF Lambda, InForm, Callb
  <2>2. Good(Closure, Len(envs))
    BY <1>5, <2>1, ListShape
  <2> QED
    BY <2>1, <2>2, AnswerRule
<1>7. CASE LambdaMalformed
  <2>1. /\ Operand = "lambda-proc" /\ Is("pair", Reg.ctxt)
        /\ ret' = ret \/ (IsListFrom(2, Ops) /\ ret' = Closure)
        /\ ThrowFrom(Reg, Exception("exc-syntax-error"))
        /\ UNCHANGED <<envs, stack>>
    <3>1. Operand = "lambda-proc" /\ Is("pair", Reg.ctxt)
      BY <1>7 DEF LambdaMalformed, InForm, Callb
    <3>2. ret' = ret \/ (IsListFrom(2, Ops) /\ ret' = Closure)
      BY <1>7 DEF LambdaMalformed
    <3>3. ThrowFrom(Reg, Exception("exc-syntax-error")) /\ UNCHANGED <<envs, stack>>
      BY <1>7 DEF LambdaMalformed
    <3> QED
      BY <3>1, <3>2, <3>3
  <2>2. Good(ret, Len(envs))
    BY <1>0 DEF MachineSound, AccSound
  <2>3. Good(ret', Len(envs))
    BY <1>5, <2>1, <2>2
  <2> QED
    BY <2>1, <2>3, ThrowRule
<1> QED
  BY <1>1, <1>2, <1>3, <1>4, <1>6, <1>7

LEMMA GoodArgs ==
    ASSUME MachineSound
    PROVE  Good(FirstArg, Len(envs)) /\ Good(RestArgs, Len(envs))
<1>1. Good(Reg.args, Len(envs))
  BY Situation DEF FrameSound
<1> QED
  BY <1>1, GoodParts, GoodConstants DEF FirstArg, RestArgs

LEMMA RegisterSteps ==
    ASSUME Sound, Note, ~resumed', Op("callb"),
           ExceptionProc \/ Context \/ GarbageCollect \/ DefaultHandler
    PROVE  MachineSound' /\ Follows
<1>0. MachineSound
  BY DEF Sound
<1>1. /\ Good(Reg.excn, Len(envs)) /\ Good(Reg.ctxt, Len(envs))
      /\ FrameSound(Reg, Len(envs))
  BY <1>0, Situation DEF FrameSound
<1>2. CASE ExceptionProc
  <2>1. /\ Operand = "exception-proc"
        /\ Throw("exc-argument-error") \/ Answer(Reg.excn)
    BY <1>2 DEF ExceptionProc, Callb
  <2> QED
    BY <1>1, <2>1, AnswerRule, PlainThrow
<1>3. CASE Context
  <2>1. /\ Operand = "context-proc"
        /\ Throw("exc-argument-error") \/ Answer(Reg.ctxt)
    BY <1>3 DEF Context, Callb
  <2> QED
    BY <1>1, <2>1, AnswerRule, PlainThrow
<1>4. CASE GarbageCollect
  <2>1. /\ Operand = "gc-proc"
        /\ \/ Throw("exc-argument-error")
           \/ With(Reg) /\ UNCHANGED <<acc, ret, envs, stack>>
    BY <1>4 DEF GarbageCollect, Callb, Quiet
  <2>2. CASE Throw("exc-argument-error")
    BY <2>1, <2>2, PlainThrow
  <2>3. CASE With(Reg) /\ UNCHANGED <<acc, ret, envs, stack>>
    <3>1. running /\ Opcode(Reg.pc) = "callb"
      BY <1>0, Situation
    <3>2. Good(ret', Len(envs))
      BY <1>0, <2>3 DEF MachineSound, AccSound
    <3> QED
      BY <1>1, <2>1, <2>3, <3>1, <3>2, AnswerStep
  <2> QED
    BY <2>1, <2>2, <2>3
<1>5. CASE DefaultHandler
  <2>1. Operand = "default-except-proc" /\ Answer(Reg.excn)
    BY <1>5 DEF DefaultHandler, Callb
  <2> QED
    BY <1>1, <2>1, AnswerRule
<1> QED
  BY <1>2, <1>3, <1>4, <1>5

LEMMA ThrowProcStep ==
    ASSUME Sound, Note, ~resumed', Op("callb"), ThrowProc
    PROVE  MachineSound' /\ Follows
<1>0. MachineSound
  BY DEF Sound
<1>1. running /\ Opcode(Reg.pc) = "callb"
  BY <1>0, Situation
<1>2. PICK v : v = IF FirstArg = Nil \/ RestArgs # Nil
                   THEN Exception("exc-argument-error")
                   ELSE IF Is("exception", FirstArg) THEN FirstArg
                   ELSE Exception("exc-invalid-type")
  OBVIOUS
<1>3. PICK r : r = [Reg EXCEPT !["args"] = RestArgs]
  OBVIOUS
<1>4. Operand = "throw-proc" /\ ThrowFrom(r, v) /\ UNCHANGED <<ret, envs, stack>>
  BY <1>2, <1>3 DEF ThrowProc, Callb
<1>5. v # Nil /\ Good(v, Len(envs))
  BY <1>0, <1>2, GoodArgs, GoodConstants DEF Nil, Exception
<1>6. FrameSound(r, Len(envs))
  BY <1>0, <1>3, GoodArgs, SetSome
<1>7. /\ r.pc = Reg.pc /\ r.expr = Reg.expr
      /\ r.parn = Reg.parn /\ r.exh = Reg.exh /\ r.excn = Reg.excn
  BY <1>0, <1>3, Situation DEF RegisterNames
<1>8. Good(ret', Len(envs))
  BY <1>0, <1>4 DEF MachineSound, AccSound
<1> QED
  BY <1>1, <1>4, <1>5, <1>6, <1>7, <1>8, ThrowStep

LEMMA PureApart ==
    PureNames \cap {"env-set-proc", "assume-proc", "default-except-proc"} = {}
BY DEF PureNames, PureRoutines

LEMMA PureStep ==
    ASSUME Sound, Note, ~resumed', Pure
    PROVE  MachineSound' /\ Follows
<1>0. MachineSound
  BY DEF Sound
<1>1. running /\ Opcode(Reg.pc) = "callb"
  BY <1>0, Situation DEF Pure
<1>2. Operand \notin {"env-set-proc", "assume-proc", "default-except-proc"}
  BY PureApart DEF Pure
<1>3. PICK outcome \in Outcomes(Operand, Reg.args) :
         /\ IF outcome.thrown
            THEN ThrowFrom([Reg EXCEPT !.args = outcome.left], outcome.value)
                 /\ UNCHANGED ret
            ELSE With([Reg EXCEPT !.args = outcome.left]) /\ ret' = outcome.value
                 /\ UNCHANGED acc
         /\ UNCHANGED <<envs, stack>> /\ IsList(Reg.args)
  BY DEF Pure
<1>4. GoodResult(outcome, Len(envs))
  <2>1. Good(Reg.args, Len(envs))
    BY <1>0, Situation DEF FrameSound
  <2> QED
    BY <1>3, <2>1, GoodOutcomes
<1>5. PICK left, v : left = outcome.left /\ v = outcome.value
  OBVIOUS
<1>6. Good(left, Len(envs)) /\ Good(v, Len(envs)) /\ (outcome.thrown => v # Nil)
  BY <1>4, <1>5 DEF GoodResult
<1>7. PICK r : r = [Reg EXCEPT !["args"] = left]
  OBVIOUS
<1>8. FrameSound(r, Len(envs))
  BY <1>0, <1>6, <1>7, SetSome
<1>9. /\ r.pc = Reg.pc /\ r.expr = Reg.expr
      /\ r.parn = Reg.parn /\ r.exh = Reg.exh /\ r.excn = Reg.excn
  BY <1>0, <1>7, Situation DEF RegisterNames
<1>10. CASE outcome.thrown
  <2>1. ThrowFrom(r, v) /\ UNCHANGED <<ret, envs, stack>>
    BY <1>3, <1>5, <1>7, <1>10
  <2>2. Good(ret', Len(envs))
    BY <1>0, <2>1 DEF MachineSound, AccSound
  <2> QED
    BY <1>1, <1>2, <1>6, <1>8, <1>9, <1>10, <2>1, <2>2, ThrowStep
<1>11. CASE ~outcome.thrown
  <2>1. With(r) /\ ret' = v /\ UNCHANGED <<acc, envs, stack>>
    BY <1>3, <1>5, <1>7, <1>11
  <2>2. Good(ret', Len(envs))
    BY <1>6, <2>1
  <2> QED
    BY <1>1, <1>2, <1>8, <1>9, <2>1, <2>2, AnswerStep
<1> QED
  BY <1>10, <1>11

-----------------------------------------------------------------------------
(* The builtins that change environments or the expression. *)

\* Binding a symbol.
LEMMA GoodEnvsWith ==
    ASSUME MachineSound, NEW symbol, NEW v, Good(v, Len(envs)),
           NEW store, store = EnvsWith(symbol, v)
    PROVE  /\ IsSeq(store) /\ Len(store) = Len(envs)
           /\ EnvsSound(store)
<1>1. /\ IsSeq(envs) /\ EnvsSound(envs) /\ Reg.env \in 1 .. Len(envs)
      /\ Len(envs) \in Nat \ {0}
  BY Situation DEF MachineSound, EnvironmentsSound, FrameSound
<1>2. PICK e : e = Reg.env
  OBVIOUS
<1>3. PICK old : old = envs[e].bound
  OBVIOUS
<1>4. PICK new : new = [s \in DOMAIN old \cup {symbol[2]} |->
                      IF s = symbol[2] THEN v ELSE old[s]]
  OBVIOUS
<1>5. PICK record : record = [envs[e] EXCEPT !.bound = new]
  OBVIOUS
<1>6. store = [envs EXCEPT ![e] = record]
  BY <1>2, <1>3, <1>4, <1>5 DEF EnvsWith
<1>7. IsSeq(store)
  BY <1>1, <1>2, <1>6, ExceptRule
<1>8. Len(store) = Len(envs)
  BY <1>1, <1>2, <1>6, ExceptRule
<1>9. \A i \in 1 .. Len(envs) : store[i] = IF i = e THEN record ELSE envs[i]
  BY <1>1, <1>2, <1>6, ExceptRule
<1>10. /\ DOMAIN record = {"up", "bound"} /\ record.up = envs[e].up
       /\ record.bound = new
  <2>1. DOMAIN envs[e] = {"up", "bound"}
    BY <1>1, <1>2 DEF EnvsSound
  <2> QED
    BY <1>5, <2>1
<1>11. \A s \in DOMAIN new : Good(new[s], Len(envs))
  <2>1. \A s \in DOMAIN old : Good(old[s], Len(envs))
    BY <1>1, <1>2, <1>3 DEF EnvsSound
  <2>2. \A s \in DOMAIN new : new[s] = v \/ (s \in DOMAIN old /\ new[s] = old[s])
    BY <1>4
  <2> QED
    BY <2>1, <2>2
<1>12. ASSUME NEW i \in 1 .. Len(store)
       PROVE  /\ DOMAIN store[i] = {"up", "bound"}
              /\ store[i].up \in 0 .. i - 1
              /\ i # 1 => store[i].up # 0
              /\ \A s \in DOMAIN store[i].bound : Good(store[i].bound[s], Len(envs))
  <2>1. CASE i = e
    BY <1>1, <1>8, <1>9, <1>10, <1>11, <2>1 DEF EnvsSound
  <2>2. CASE i # e
    BY <1>1, <1>8, <1>9, <2>2 DEF EnvsSound
  <2> QED
    BY <2>1, <2>2
<1> QED
  BY <1>1, <1>7, <1>8, <1>12 DEF EnvsSound

\* A list of three or more.
LEMMA ThreeShape ==
    ASSUME NEW v, NEW n, Good(v, n), IsListFrom(3, v)
    PROVE  /\ Is("pair", v) /\ Is("pair", v[3]) /\ Is("pair", v[3][3])
           /\ Good(v[3][3][2], n)
<1>1. \A i \in 0 .. 2 : Is("pair", Tails(v)[i])
  BY DEF IsListFrom
<1>2. 1 \in 1 .. MaxLength /\ 2 \in 1 .. MaxLength
  BY DEF MaxLength
<1>3. Tails(v)[0] = v /\ Tails(v)[1] = Rest(Tails(v)[0])
      /\ Tails(v)[2] = Rest(Tails(v)[1])
  BY <1>2, TailsRule
<1>4. Is("pair", v) /\ Is("pair", v[3]) /\ Is("pair", v[3][3])
  BY <1>1, <1>3 DEF Rest
<1> QED
  BY <1>4, GoodParts

\* Binding a symbol, of a frame that goes on.
LEMMA BindStep ==
    ASSUME Sound, Note, ~resumed', Op("callb"), Operand # "default-except-proc",
           NEW symbol, NEW v, Good(v, Len(envs)), envs' = EnvsWith(symbol, v),
           NEW r, FrameSound(r, Len(envs)), r.pc = Reg.pc, r.expr = Reg.expr,
           r.parn = Reg.parn, r.exh = Reg.exh, r.excn = Reg.excn,
           With(r), UNCHANGED acc, Good(ret', Len(envs)),
           IsSeq(stack'), \A i \in 1 .. Len(stack') : Good(stack'[i], Len(envs)),
           Len(stack') = Len(owners)
    PROVE  MachineSound' /\ Follows
<1>0. MachineSound /\ FramesSound
  BY DEF Sound, MachineSound
<1>1. running /\ Opcode(Reg.pc) = "callb"
  BY <1>0, Situation
<1>2. IsSeq(envs') /\ Len(envs') = Len(envs) /\ EnvsSound(envs')
  BY <1>0, GoodEnvsWith
<1>3. EnvironmentsSound'
  BY <1>2 DEF EnvironmentsSound, EnvsSound
<1>4. PICK b : b = Reg.pc + 1
  OBVIOUS
<1>5. PICK q : q = [r EXCEPT !.pc = b]
  OBVIOUS
<1>6. Kept(q)
  BY <1>0, <1>4, <1>5, WithRule
<1>7. /\ b \in Addresses /\ b # EvalNative
      /\ b \in ExprPlain => Good(r.expr, Len(envs))
  BY <1>0, <1>1, <1>4, CallbTarget
<1>8. FrameSound(q, Len(envs))
  BY <1>5, <1>7, MovedFrame
<1>9. \A x \in RegisterNames \ {"pc"} : q[x] = r[x]
  BY <1>5, <1>7, MovedFrame
<1>10. q.pc \in {Reg.pc + 1, Entry, Transform}
  BY <1>4, <1>5 DEF FrameSound, RegisterNames
<1>11. q.parn = Reg.parn /\ q.exh = Reg.exh /\ q.excn = Reg.excn
  BY <1>9 DEF RegisterNames
<1>12. Usable(acc', Len(envs')) /\ Good(ret', Len(envs'))
  BY <1>0, <1>2 DEF MachineSound, AccSound
<1>13. regs \notin default
  BY <1>0, <1>1, CallbPlace
<1>14. /\ FrameSound(q, Len(envs')) /\ Len(envs) <= Len(envs')
       /\ \A i \in 1 .. Len(stack') : Good(stack'[i], Len(envs'))
  <2>1. Len(envs) \in Nat
    BY <1>0, Situation
  <2> QED
    BY <1>2, <1>8, <2>1
<1> QED
  BY <1>1, <1>3, <1>6, <1>10, <1>11, <1>12, <1>13, <1>14, StayStep

LEMMA EnvSetStep ==
    ASSUME Sound, Note, ~resumed', Op("callb"), EnvSet
    PROVE  MachineSound' /\ Follows
<1>0. MachineSound
  BY DEF Sound
<1>1. running /\ Opcode(Reg.pc) = "callb"
  BY <1>0, Situation
<1>2. PICK v : v = FirstArg
  OBVIOUS
<1>3. PICK r : r = [Reg EXCEPT !["args"] = RestArgs]
  OBVIOUS
<1>4. /\ Operand = "env-set-proc" /\ stack # <<>>
      /\ stack' = SubSeq(stack, 1, Len(stack) - 1)
      /\ envs' = EnvsWith(stack[Len(stack)], v) /\ ret' = v /\ With(r)
      /\ UNCHANGED acc
  BY <1>2, <1>3 DEF EnvSet, EnvSetLeaving, Callb, Popped
<1>5. Good(v, Len(envs)) /\ Good(RestArgs, Len(envs))
  BY <1>0, <1>2, GoodArgs
<1>6. FrameSound(r, Len(envs))
  BY <1>0, <1>3, <1>5, SetSome
<1>7. /\ r.pc = Reg.pc /\ r.expr = Reg.expr
      /\ r.parn = Reg.parn /\ r.exh = Reg.exh /\ r.excn = Reg.excn
  BY <1>0, <1>3, Situation DEF RegisterNames
<1>8. Reg.pc \in Pushed
  BY <1>0, <1>1, <1>4, CallbPlace
<1>9. /\ IsSeq(stack) /\ Len(stack) = Len(owners) + 1
      /\ \A i \in 1 .. Len(stack) : Good(stack[i], Len(envs))
  BY <1>0, <1>8 DEF MachineSound, StackSound
<1>10. /\ IsSeq(stack') /\ Len(stack') = Len(stack) - 1
       /\ \A i \in 1 .. Len(stack) - 1 : stack'[i] = stack[i]
  BY <1>4, <1>9, PopRule
<1>11. Len(owners) \in Nat
  BY Skeletal
<1>12. Len(stack') = Len(owners)
       /\ \A i \in 1 .. Len(stack') : Good(stack'[i], Len(envs))
  BY <1>9, <1>10, <1>11
<1> QED
  BY <1>4, <1>5, <1>6, <1>7, <1>10, <1>12, BindStep

LEMMA SyntaxTransformStep ==
    ASSUME Sound, Note, ~resumed', Op("callb"), SyntaxTransform
    PROVE  MachineSound' /\ Follows
<1>0. MachineSound
  BY DEF Sound
<1>1. running /\ Opcode(Reg.pc) = "callb"
  BY <1>0, Situation
<1>2. PICK v : v = Form(Ops[3][2], Ops[3][3][2], "transform-template-proc")
  OBVIOUS
<1>3. /\ Operand = "syntax-transform-proc" /\ Is("pair", Reg.ctxt)
      /\ IsListFrom(3, Ops) /\ envs' = EnvsWith(Ops[2], v) /\ With(Reg)
      /\ UNCHANGED <<acc, ret, stack>>
  BY <1>2 DEF SyntaxTransform, InForm, Callb
<1>4. Good(Ops[3][3][2], Len(envs))
  BY <1>0, <1>3, GoodOps, ThreeShape
<1>5. "transform-template-proc" \in FormNames
  BY DEF FormNames
<1>6. Good(v, Len(envs))
  BY <1>2, <1>4, <1>5, GoodForm
<1>7. FrameSound(Reg, Len(envs)) /\ Good(ret', Len(envs))
  BY <1>0, <1>3, Situation DEF MachineSound, AccSound
<1>8. /\ Len(stack') = Len(owners) /\ IsSeq(stack')
      /\ \A i \in 1 .. Len(stack') : Good(stack'[i], Len(envs))
  BY <1>0, <1>1, <1>3, CallbStack
<1> QED
  BY <1>3, <1>6, <1>7, <1>8, BindStep

LEMMA SyntaxExpandStep ==
    ASSUME Sound, Note, ~resumed', Op("callb"), SyntaxExpand
    PROVE  MachineSound' /\ Follows
<1>0. MachineSound
  BY DEF Sound
<1>1. running /\ Opcode(Reg.pc) = "callb"
  BY <1>0, Situation
<1>2. PICK e : e = Binder(Ops[2][2], Reg.env)
  OBVIOUS
<1>3. PICK form : form = BoundIn(envs, Ops[2][2], e)
  OBVIOUS
<1>4. PICK v : v = Pair(form, Ops[3])
  OBVIOUS
<1>5. PICK r : r = [Reg EXCEPT !["ctxt"] = v]
  OBVIOUS
<1>6. /\ Operand = "syntax-expand-proc" /\ Is("pair", Reg.ctxt) /\ Is("pair", Ops)
      /\ e # 0 /\ Is("form", form) /\ IsList(form[2])
      /\ ret' = Expanded(form[2], Ops[3], form[3])
      /\ With(r) /\ UNCHANGED <<acc, envs, stack>>
  BY <1>2, <1>3, <1>4, <1>5 DEF SyntaxExpand, InForm, Callb
<1>7. EnvsSound(envs) /\ Reg.env \in 1 .. Len(envs)
  BY <1>0, Situation DEF MachineSound, EnvironmentsSound, FrameSound
<1>8. e \in 1 .. Len(envs) /\ Binds(envs, Ops[2][2], e)
  BY <1>2, <1>6, <1>7, BinderRule DEF Binder
<1>9. Good(form, Len(envs))
  BY <1>3, <1>7, <1>8, GoodBound
<1>10. Good(form[3], Len(envs)) /\ Good(Ops[3], Len(envs))
  BY <1>0, <1>6, <1>9, GoodParts, GoodOps
<1>11. Good(ret', Len(envs)) /\ Good(v, Len(envs))
  BY <1>4, <1>6, <1>9, <1>10, GoodExpanded, GoodPair
<1>12. FrameSound(r, Len(envs))
  BY <1>0, <1>5, <1>11, SetSome
<1>13. /\ r.pc = Reg.pc /\ r.expr = Reg.expr
       /\ r.parn = Reg.parn /\ r.exh = Reg.exh /\ r.excn = Reg.excn
  BY <1>0, <1>5, Situation DEF RegisterNames
<1> QED
  BY <1>1, <1>6, <1>11, <1>12, <1>13, AnswerStep

-----------------------------------------------------------------------------

LEMMA ApplyStep ==
    ASSUME Sound, Note, ~resumed', Op("callb"), Apply
    PROVE  MachineSound' /\ Follows
<1>0. MachineSound
  BY DEF Sound
<1>1. running /\ Opcode(Reg.pc) = "callb"
  BY <1>0, Situation
<1>2. PICK args, n, fun : args = Reversed(Reg.args) /\ n = Len(envs) + 1 /\ fun = Reg.proc
  OBVIOUS
<1>3. PICK record : record = [up |-> fun[4], bound |-> Bindings(fun[3], args)]
  OBVIOUS
<1>4. PICK r : r = [Reg EXCEPT !.args = args, !.env = n, !.expr = fun[2]]
  OBVIOUS
<1>5. /\ Operand = "apply-proc" /\ Is("proc", fun)
      /\ IsList(Reg.args) /\ IsList(fun[3])
      /\ envs' = Append(envs, record) /\ acc' = <<"env", fun[4]>>
      /\ Jump(r, Entry) /\ UNCHANGED <<ret, stack>>
  BY <1>2, <1>3, <1>4 DEF Apply, ApplyIn, Callb, Entry
<1>6. /\ IsSeq(envs) /\ EnvsSound(envs) /\ Len(envs) \in Nat \ {0}
      /\ FrameSound(Reg, Len(envs))
  BY <1>0, Situation DEF MachineSound, EnvironmentsSound
<1>7. Good(Reg.args, Len(envs)) /\ Good(fun, Len(envs))
  BY <1>2, <1>6 DEF FrameSound
<1>8. Good(args, Len(envs))
  BY <1>2, <1>5, <1>7, GoodReversed
<1>9. fun[4] \in 1 .. Len(envs) /\ Usable(fun[2], Len(envs))
  BY <1>5, <1>7, GoodParts, BuiltinAssumption DEF Usable, Routines
<1>10. n \in Nat /\ Len(envs) <= n /\ n # 1 /\ n \in 1 .. n
  BY <1>2, <1>6
<1>11. \A v : Good(v, Len(envs)) => Good(v, n)
  BY <1>6, <1>10, GoodLater
<1>12. /\ DOMAIN record = {"up", "bound"} /\ record.up = fun[4]
       /\ \A s \in DOMAIN record.bound : Good(record.bound[s], n)
  <2>1. DOMAIN record = {"up", "bound"} /\ record.up = fun[4]
    BY <1>3
  <2>2. record.bound = Bindings(fun[3], args)
    BY <1>3
  <2>3. \A s \in DOMAIN Bindings(fun[3], args) :
           Good(Bindings(fun[3], args)[s], n)
    BY <1>5, <1>8, <1>11, GoodBindings
  <2> QED
    BY <2>1, <2>2, <2>3
<1>13. /\ IsSeq(envs') /\ Len(envs') = n
       /\ \A i \in 1 .. Len(envs) : envs'[i] = envs[i]
       /\ envs'[n] = record
  BY <1>2, <1>5, <1>6, AppendRule
<1>14. EnvsSound(envs')
  <2>1. ASSUME NEW i \in 1 .. n
        PROVE  /\ DOMAIN envs'[i] = {"up", "bound"}
               /\ envs'[i].up \in 0 .. i - 1
               /\ i # 1 => envs'[i].up # 0
               /\ \A s \in DOMAIN envs'[i].bound : Good(envs'[i].bound[s], n)
    <3>1. CASE i = n
      <4>1. fun[4] \in 0 .. n - 1 /\ fun[4] # 0
        BY <1>2, <1>6, <1>9
      <4> QED
        BY <1>12, <1>13, <3>1, <4>1
    <3>2. CASE i # n
      <4>1. i \in 1 .. Len(envs)
        BY <1>2, <1>6, <3>2
      <4> QED
        BY <1>6, <1>11, <1>13, <4>1 DEF EnvsSound
    <3> QED
      BY <3>1, <3>2
  <2> QED
    BY <1>10, <1>13, <2>1 DEF EnvsSound
<1>15. EnvironmentsSound'
  BY <1>13, <1>14 DEF EnvironmentsSound, EnvsSound
<1>16. PICK q : q = [r EXCEPT !.pc = Entry]
  OBVIOUS
<1>17. /\ q = [x \in RegisterNames |-> q[x]] /\ "pc" \in DOMAIN r
       /\ q.pc = Entry /\ q.args = args /\ q.env = n /\ q.expr = fun[2]
       /\ q.proc = Reg.proc /\ q.excn = Reg.excn /\ q.ctxt = Reg.ctxt
       /\ q.parn = Reg.parn /\ q.exh = Reg.exh
  <2>1. Reg = [x \in RegisterNames |-> Reg[x]]
    BY <1>6 DEF FrameSound
  <2>2. /\ r = [x \in RegisterNames |-> r[x]]
        /\ r.args = args /\ r.env = n /\ r.expr = fun[2]
        /\ r.proc = Reg.proc /\ r.excn = Reg.excn /\ r.ctxt = Reg.ctxt
        /\ r.parn = Reg.parn /\ r.exh = Reg.exh
    BY <1>4, <2>1 DEF RegisterNames
  <2> QED
    BY <1>16, <2>2 DEF RegisterNames
<1>18. Entry \in Addresses \ ExprPlain /\ Entry # EvalNative
  BY RoutineAssumption
<1>19. FrameSound(q, n)
  <2>1. /\ Good(Reg.proc, n) /\ Good(Reg.excn, n) /\ Good(Reg.ctxt, n)
        /\ Good(args, n) /\ Usable(fun[2], n)
    BY <1>6, <1>8, <1>9, <1>10, <1>11, UsableLater DEF FrameSound
  <2> QED
    BY <1>10, <1>17, <1>18, <2>1 DEF FrameSound
<1>20. Usable(acc', n) /\ Good(ret', n)
  <2>1. Good(acc', n)
    BY <1>5, GoodConstants
  <2>2. Good(ret, Len(envs))
    BY <1>0 DEF MachineSound, AccSound
  <2> QED
    BY <1>5, <1>11, <2>1, <2>2 DEF Usable
<1> QED
  BY <1>1, <1>5, <1>10, <1>13, <1>15, <1>16, <1>17, <1>19, <1>20, EnterStep

\* The same environments, another expression.
LEMMA EvaluateStep ==
    ASSUME Sound, Note, ~resumed', Op("callb"),
           Operand \notin {"env-set-proc", "default-except-proc"},
           NEW r, "pc" \in DOMAIN r, NEW b \in {Entry, Transform}, Jump(r, b),
           NEW q, q = [r EXCEPT !.pc = b], FrameSound(q, Len(envs)),
           q.parn = Reg.parn, q.exh = Reg.exh, q.excn = Reg.excn,
           UNCHANGED <<acc, envs, stack>>, Good(ret', Len(envs))
    PROVE  MachineSound' /\ Follows
<1>0. MachineSound
  BY DEF Sound
<1>1. running /\ Opcode(Reg.pc) = "callb"
  BY <1>0, Situation
<1>2. PICK n : n = Len(envs')
  OBVIOUS
<1>3. n = Len(envs) /\ Len(envs) <= n
  <2>1. Len(envs) \in Nat
    BY <1>0, Situation
  <2> QED
    BY <1>2, <2>1
<1>4. EnvironmentsSound'
  BY <1>0 DEF MachineSound, EnvironmentsSound, EnvsSound
<1>5. Usable(acc', n)
  BY <1>0, <1>3 DEF MachineSound, AccSound
<1> QED
  BY <1>1, <1>2, <1>3, <1>4, <1>5, EnterStep

LEMMA ExpandFormStep ==
    ASSUME Sound, Note, ~resumed', Op("callb"), ExpandForm
    PROVE  MachineSound' /\ Follows
<1>0. MachineSound
  BY DEF Sound
<1>1. running /\ Opcode(Reg.pc) = "callb"
  BY <1>0, Situation
<1>2. PICK c, e : c = Pair(acc, Reg.ctxt) /\ e = Builtin(acc[4])
  OBVIOUS
<1>3. PICK r : r = [Reg EXCEPT !.ctxt = c, !.expr = e]
  OBVIOUS
<1>4. /\ Operand = "form-expand-proc" /\ Is("form", acc)
      /\ Jump(r, Entry) /\ UNCHANGED <<acc, ret, envs, stack>>
  BY <1>2, <1>3 DEF ExpandForm, Callb, Entry, Quiet
<1>5. Good(acc, Len(envs))
  <2>1. Usable(acc, Len(envs))
    BY <1>0 DEF MachineSound, AccSound
  <2>2. acc \notin Routines
    BY <1>4 DEF Routines, Builtin, Is
  <2> QED
    BY <2>1, <2>2 DEF Usable
<1>6. acc[4] \in FormNames
  BY <1>4, <1>5, GoodParts
<1>7. Usable(e, Len(envs)) /\ e # Builtin("eval-native-proc")
  <2>1. acc[4] \in RoutineNames /\ acc[4] # "eval-native-proc"
    BY <1>6, BuiltinAssumption
  <2>2. e # Builtin("eval-native-proc")
    BY <1>2, <2>1, BuiltinAssumption DEF Builtin, EvalNative
  <2> QED
    BY <1>2, <2>1, <2>2 DEF Usable, Routines
<1>8. FrameSound(Reg, Len(envs))
  BY <1>0, Situation
<1>9. Good(c, Len(envs))
  BY <1>2, <1>5, <1>8, GoodPair DEF FrameSound
<1>10. PICK q : q = [r EXCEPT !.pc = Entry]
  OBVIOUS
<1>11. /\ q = [x \in RegisterNames |-> q[x]] /\ "pc" \in DOMAIN r
       /\ q.pc = Entry /\ q.args = Reg.args /\ q.env = Reg.env /\ q.expr = e
       /\ q.proc = Reg.proc /\ q.excn = Reg.excn /\ q.ctxt = c
       /\ q.parn = Reg.parn /\ q.exh = Reg.exh
  <2>1. Reg = [x \in RegisterNames |-> Reg[x]]
    BY <1>8 DEF FrameSound
  <2>2. /\ r = [x \in RegisterNames |-> r[x]]
        /\ r.args = Reg.args /\ r.env = Reg.env /\ r.expr = e
        /\ r.proc = Reg.proc /\ r.excn = Reg.excn /\ r.ctxt = c
        /\ r.parn = Reg.parn /\ r.exh = Reg.exh
    BY <1>3, <2>1 DEF RegisterNames
  <2> QED
    BY <1>10, <2>2 DEF RegisterNames
<1>12. Entry \in Addresses \ ExprPlain /\ Entry # EvalNative
  BY RoutineAssumption
<1>13. FrameSound(q, Len(envs))
  BY <1>7, <1>8, <1>9, <1>11, <1>12 DEF FrameSound
<1>14. Good(ret', Len(envs))
  BY <1>0, <1>4 DEF MachineSound, AccSound
<1> QED
  BY <1>4, <1>10, <1>11, <1>13, <1>14, EvaluateStep

LEMMA TransformTemplateStep ==
    ASSUME Sound, Note, ~resumed', Op("callb"), TransformTemplate
    PROVE  MachineSound' /\ Follows
<1>0. MachineSound
  BY DEF Sound
<1>1. PICK e : e = Expanded(Named[2], Ops, Named[3])
  OBVIOUS
<1>2. PICK r : r = [Reg EXCEPT !.expr = e]
  OBVIOUS
<1>3. /\ Operand = "transform-template-proc" /\ Is("pair", Reg.ctxt)
      /\ Is("form", Named) /\ IsList(Named[2])
      /\ ret' = e /\ Jump(r, Transform) /\ UNCHANGED <<acc, envs, stack>>
  BY <1>1, <1>2
  DEF TransformTemplate, TransformTemplateAt, InForm, Callb, Transform
<1>4. Good(e, Len(envs))
  <2>1. Good(Named, Len(envs)) /\ Good(Ops, Len(envs))
    BY <1>0, <1>3, GoodOps
  <2>2. Good(Named[3], Len(envs))
    BY <1>3, <2>1, GoodParts
  <2> QED
    BY <1>1, <1>3, <2>1, <2>2, GoodExpanded
<1>5. FrameSound(Reg, Len(envs))
  BY <1>0, Situation
<1>6. PICK q : q = [r EXCEPT !.pc = Transform]
  OBVIOUS
<1>7. /\ q = [x \in RegisterNames |-> q[x]] /\ "pc" \in DOMAIN r
      /\ q.pc = Transform /\ q.args = Reg.args /\ q.env = Reg.env /\ q.expr = e
      /\ q.proc = Reg.proc /\ q.excn = Reg.excn /\ q.ctxt = Reg.ctxt
      /\ q.parn = Reg.parn /\ q.exh = Reg.exh
  <2>1. Reg = [x \in RegisterNames |-> Reg[x]]
    BY <1>5 DEF FrameSound
  <2> QED
    BY <1>2, <1>6, <2>1 DEF RegisterNames
<1>8. Transform \in Addresses \ ExprPlain /\ Transform # EvalNative
  BY RoutineAssumption
<1>9. FrameSound(q, Len(envs))
  BY <1>4, <1>5, <1>7, <1>8, GoodIsNoBuiltin DEF FrameSound, Usable
<1>10. Good(ret', Len(envs))
  BY <1>3, <1>4
<1> QED
  BY <1>3, <1>6, <1>7, <1>9, <1>10, EvaluateStep

LEMMA EvalStep ==
    ASSUME Sound, Note, ~resumed', Op("callb"), Eval
    PROVE  MachineSound' /\ Follows
<1>0. MachineSound
  BY DEF Sound
<1>1. running /\ Opcode(Reg.pc) = "callb"
  BY <1>0, Situation
<1>2. PICK e, args, up : e = FirstArg /\ args = RestArgs /\ up = envs[Reg.env].up
  OBVIOUS
<1>3. PICK r : r = [Reg EXCEPT !.env = up, !.expr = e, !.args = args]
  OBVIOUS
<1>4. /\ Operand = "eval-native-proc"
      /\ Jump(r, Entry) /\ UNCHANGED <<acc, ret, envs, stack>>
  BY <1>2, <1>3 DEF Eval, Callb, Entry, Quiet
<1>5. FrameSound(Reg, Len(envs))
  BY <1>0, Situation
<1>6. Reg.env \in 1 .. Len(envs) /\ Reg.env # 1
  BY <1>0, <1>1, <1>4, <1>5, CallbPlace DEF FrameSound
<1>7. up \in 1 .. Len(envs)
  BY <1>0, <1>2, <1>6 DEF MachineSound, EnvironmentsSound, EnvsSound
<1>8. Good(e, Len(envs)) /\ Good(args, Len(envs))
  BY <1>0, <1>2, GoodArgs
<1>9. PICK q : q = [r EXCEPT !.pc = Entry]
  OBVIOUS
<1>10. /\ q = [x \in RegisterNames |-> q[x]] /\ "pc" \in DOMAIN r
       /\ q.pc = Entry /\ q.args = args /\ q.env = up /\ q.expr = e
       /\ q.proc = Reg.proc /\ q.excn = Reg.excn /\ q.ctxt = Reg.ctxt
       /\ q.parn = Reg.parn /\ q.exh = Reg.exh
  <2>1. Reg = [x \in RegisterNames |-> Reg[x]]
    BY <1>5 DEF FrameSound
  <2>2. /\ r = [x \in RegisterNames |-> r[x]]
        /\ r.args = args /\ r.env = up /\ r.expr = e
        /\ r.proc = Reg.proc /\ r.excn = Reg.excn /\ r.ctxt = Reg.ctxt
        /\ r.parn = Reg.parn /\ r.exh = Reg.exh
    BY <1>3, <2>1 DEF RegisterNames
  <2> QED
    BY <1>9, <2>2 DEF RegisterNames
<1>11. Entry \in Addresses \ ExprPlain /\ Entry # EvalNative
  BY RoutineAssumption
<1>12. FrameSound(q, Len(envs))
  BY <1>5, <1>7, <1>8, <1>10, <1>11, GoodIsNoBuiltin DEF FrameSound, Usable
<1>13. Good(ret', Len(envs))
  BY <1>0, <1>4 DEF MachineSound, AccSound
<1> QED
  BY <1>4, <1>9, <1>10, <1>12, <1>13, EvaluateStep

-----------------------------------------------------------------------------
(* Every step. *)

LEMMA AssumeStep ==
    ASSUME Sound, Note, ~resumed'
    PROVE  ~(Op("callb") /\ AssumeFrame)
BY Skeletal DEF AssumeFrame, Note

LEMMA BuiltinStep ==
    ASSUME Sound, Note, ~resumed', Builtins
    PROVE  MachineSound' /\ Follows
<1>1. Op("callb")
  BY DEF Builtins
<1>2. CASE LookupFound \/ LookupFailed
  BY <1>1, <1>2, LookupSteps
<1>3. CASE Apply
  BY <1>1, <1>3, ApplyStep
<1>4. CASE ExpandForm
  BY <1>1, <1>4, ExpandFormStep
<1>5. CASE AssumeFrame
  BY <1>1, <1>5, AssumeStep
<1>6. CASE EnvSet
  BY <1>1, <1>6, EnvSetStep
<1>7. CASE \/ Quote \/ ContinuationOperands \/ Lambda \/ LambdaMalformed
           \/ CatchMalformed \/ SyntaxTransformOperands
  BY <1>1, <1>7, FormSteps
<1>8. CASE Continuation
  BY <1>1, <1>8, ContinuationStep
<1>9. CASE Catch
  BY <1>1, <1>9, CatchStep
<1>10. CASE Eval
  BY <1>1, <1>10, EvalStep
<1>11. CASE SyntaxTransform
  BY <1>1, <1>11, SyntaxTransformStep
<1>12. CASE TransformTemplate
  BY <1>1, <1>12, TransformTemplateStep
<1>13. CASE SyntaxExpand
  BY <1>1, <1>13, SyntaxExpandStep
<1>14. CASE ThrowProc
  BY <1>1, <1>14, ThrowProcStep
<1>15. CASE ExceptionProc \/ Context \/ GarbageCollect \/ DefaultHandler
  BY <1>1, <1>15, RegisterSteps
<1>16. CASE Pure
  BY <1>16, PureStep
<1> QED
  BY <1>2, <1>3, <1>4, <1>5, <1>6, <1>7, <1>8, <1>9, <1>10, <1>11, <1>12,
     <1>13, <1>14, <1>15, <1>16 DEF Builtins

LEMMA MachineStep ==
    ASSUME Sound, ControlNext, ~resumed'
    PROVE  MachineSound' /\ Follows
<1>1. Next /\ Note
  BY DEF ControlNext
<1>2. CASE OpCar \/ OpCdr \/ OpLoad \/ OpLoadnil \/ OpLoadret \/ OpTypeTest
  BY <1>1, <1>2, LoadSteps
<1>3. CASE OpSet \/ OpPusharg
  BY <1>1, <1>3, SetSteps
<1>4. CASE OpSetret \/ OpCall \/ OpJmp \/ OpSkipz
  BY <1>1, <1>4, GoSteps
<1>5. CASE OpCallacc
  BY <1>1, <1>5, CallaccStep
<1>6. CASE OpPush
  BY <1>1, <1>6, PushStep
<1>7. CASE OpPop
  BY <1>1, <1>7, PopStep
<1>8. CASE OpSnap
  BY <1>1, <1>8, SnapStep
<1>9. CASE OpReturn
  BY <1>1, <1>9, ReturnStep
<1>10. CASE OpReturnToHost
  BY <1>1, <1>10, FinishStep
<1>11. CASE Builtins
  BY <1>1, <1>11, BuiltinStep
<1>12. ASSUME NEW expr \in Programs, RunEval(expr) PROVE MachineSound' /\ Follows
  BY <1>1, <1>12, RunEvalStep
<1> QED
  BY <1>1, <1>2, <1>3, <1>4, <1>5, <1>6, <1>7, <1>8, <1>9, <1>10, <1>11, <1>12
  DEF Next, Opcodes

\* Frames that have been assumed stay so.
LEMMA StaysResumed ==
    ASSUME resumed \/ resumed \in BOOLEAN, [ControlNext]_<<vars, notes>>
    PROVE  resumed => resumed'
BY DEF ControlNext, Note, notes

\* No step changes what is stated here of a state alone.
LEMMA StutterStep ==
    ASSUME Sound, UNCHANGED <<vars, notes>>
    PROVE  MachineSound' /\ UNCHANGED P!vars
<1>1. /\ UNCHANGED <<acc, ret, regs, frames, envs, stack, running, program, runs>>
      /\ UNCHANGED <<owners, default, held, entered, thrown, resumed>>
  BY DEF vars, notes
<1>2. UNCHANGED <<Len(frames), Parents, Handlers, Stands>>
  BY <1>1 DEF Parents, Handlers, Stands, Doing
<1>3. UNCHANGED P!vars
  BY <1>1, <1>2 DEF P!vars
<1>4. MachineSound'
  BY <1>1 DEF Sound, MachineSound, FramesSound, EnvironmentsSound, AccSound,
              StackSound, DefaultSound, ThrownSound, HostSound, Reg,
              EnvsSound, FrameSound
<1> QED
  BY <1>3, <1>4

-----------------------------------------------------------------------------
(* The initial state. *)

LEMMA InitMachine ==
    ASSUME ControlInit
    PROVE  MachineSound
<1>1. /\ acc = Nil /\ ret = Nil /\ regs = 1 /\ stack = <<>> /\ ~running /\ runs = 0
      /\ owners = <<>> /\ default = {} /\ ~thrown /\ running = FALSE
      /\ Len(frames) = 1 /\ Len(envs) = 1 /\ IsSeq(frames) /\ IsSeq(envs)
      /\ IsSeq(stack) /\ Len(stack) = 0 /\ Len(owners) = 0
  <2>1. \A x : <<x>> = [i \in 1 .. 1 |-> <<x>>[i]]
    OBVIOUS
  <2>2. \A x : IsSeq(<<x>>) /\ Len(<<x>>) = 1
    BY <2>1, SeqRule
  <2>3. IsSeq(<<>>)
    BY DEF IsSeq
  <2> QED
    BY <2>2, <2>3 DEF ControlInit, Init
<1>2. PICK r : r = frames[1]
  OBVIOUS
<1>3. /\ r = [x \in RegisterNames |-> r[x]]
      /\ r.pc = 0 /\ r.expr = Nil /\ r.proc = Nil /\ r.args = Nil
      /\ r.env = 1 /\ r.excn = Nil /\ r.ctxt = Nil
  BY <1>2 DEF ControlInit, Init, RegisterNames
<1>4. /\ 0 \in Addresses /\ Opcode(0) = "return"
      /\ 0 \notin Pushed /\ 0 \notin Loaded /\ 0 \notin Tested /\ 0 # EvalNative
  <2>1. 0 \in Addresses /\ Opcode(0) = "return"
    BY AddressAssumption
  <2>2. 0 \notin Pushed /\ 0 \notin Loaded /\ 0 \notin Tested
    BY <2>1, AddressAssumption
  <2>3. 0 # EvalNative
    BY <2>1, RoutineAssumption
  <2> QED
    BY <2>1, <2>2, <2>3
<1>5. Good(Nil, 1) /\ Nil # Builtin("eval-native-proc")
  BY GoodConstants, GoodIsNoBuiltin
<1>6. FrameSound(r, 1)
  BY <1>3, <1>4, <1>5 DEF FrameSound, Usable
<1>7. FramesSound
  BY <1>1, <1>2, <1>6 DEF FramesSound
<1>8. EnvironmentsSound
  <2>1. envs[1].up = 0 /\ envs[1].bound = <<>> /\ DOMAIN envs[1] = {"up", "bound"}
    BY DEF ControlInit, Init
  <2>2. EnvsSound(envs)
    BY <1>1, <2>1 DEF EnvsSound
  <2> QED
    BY <1>1, <2>2 DEF EnvironmentsSound
<1>9. Reg = r
  BY <1>1, <1>2 DEF Reg
<1>10. AccSound
  BY <1>1, <1>3, <1>4, <1>5, <1>9 DEF AccSound, Usable
<1>11. StackSound
  BY <1>1, <1>3, <1>4, <1>9 DEF StackSound
<1>12. HostSound
  <2>1. running \in BOOLEAN
    BY <1>1
  <2>2. Opcode(Reg.pc) = "return"
    BY <1>3, <1>4, <1>9
  <2>3. runs \in 0 .. MaxRuns
    BY <1>1, MachineAssumption
  <2> QED
    BY <2>1, <2>2, <2>3 DEF HostSound
<1> QED
  BY <1>1, <1>7, <1>8, <1>10, <1>11, <1>12
  DEF MachineSound, DefaultSound, ThrownSound

LEMMA InitSkeleton ==
    ASSUME ControlInit
    PROVE  P!Init
<1>1. regs = 1 /\ ~running /\ Len(frames) = 1 /\ frames[1].parn = 0
      /\ frames[1].exh = 0
  BY DEF ControlInit, Init
<1>2. \A f \in 1 .. MaxFrames : Doing(f) = IF f = 1 THEN "done" ELSE "free"
  BY <1>1, MachineAssumption DEF Doing
<1>3. \A f \in 1 .. MaxFrames : f > 1 <=> f # 1
  BY MachineAssumption
<1> QED
  BY <1>1, <1>2, <1>3
  DEF ControlInit, Init, P!Init, P!Frames, Parents, Handlers, Stands

-----------------------------------------------------------------------------
(* The invariant of CallFrames. *)

Framed ==
    P!WaitLayer /\ P!NestLayer /\ P!OnceLayer /\ P!StackLayer /\ P!HandlerLayer

LEMMA InitFramed == P!Init => Framed
BY P!InitWait, P!InitNest, P!InitOnce, P!InitStack, P!InitHandler,
   MachineAssumption DEF Framed

LEMMA NextFramed ==
    ASSUME Framed, P!Next \/ UNCHANGED P!vars
    PROVE  Framed'
<1>1. [P!Next]_(P!vars)
  OBVIOUS
<1>2. P!WaitLayer'
  BY <1>1, P!NextWait, MachineAssumption DEF Framed
<1>3. P!NestLayer'
  BY <1>1, P!NextNest, MachineAssumption DEF Framed
<1>4. P!OnceLayer'
  BY <1>1, P!NextOnce, MachineAssumption DEF Framed
<1>5. P!StackLayer'
  BY <1>1, P!NextStack, MachineAssumption DEF Framed
<1>6. P!HandlerLayer'
  BY <1>1, P!NextHandler, MachineAssumption DEF Framed
<1> QED
  BY <1>2, <1>3, <1>4, <1>5, <1>6 DEF Framed

\* The inductive invariant: once a held frame has been assumed, nothing is said.
ControlInv == resumed \/ (resumed = FALSE /\ MachineSound /\ Framed)

LEMMA ControlInvSound == ControlInv /\ ~resumed => Sound
BY DEF ControlInv, Framed, Sound

LEMMA InitControl == ControlInit => ControlInv
<1> SUFFICES ASSUME ControlInit PROVE ControlInv
  OBVIOUS
<1>1. resumed = FALSE
  BY DEF ControlInit
<1> QED
  BY <1>1, InitMachine, InitSkeleton, InitFramed DEF ControlInv

LEMMA NextControl ==
    ASSUME ControlInv, [ControlNext]_<<vars, notes>>
    PROVE  /\ ControlInv'
           /\ ~resumed' => P!Next \/ UNCHANGED P!vars
<1>1. CASE resumed'
  BY <1>1 DEF ControlInv
<1>2. CASE ~resumed'
  <2>1. resumed \in BOOLEAN /\ ~resumed
    BY <1>2 DEF ControlInv, ControlNext, Note, notes
  <2>2. Sound /\ Framed
    BY <2>1, ControlInvSound DEF ControlInv
  <2>3. MachineSound' /\ (P!Next \/ UNCHANGED P!vars)
    BY <1>2, <2>2, MachineStep, StutterStep DEF Follows
  <2>4. Framed'
    BY <2>2, <2>3, NextFramed
  <2>5. resumed' = FALSE
    BY <1>2, <2>1 DEF ControlNext, Note, notes
  <2> QED
    BY <2>3, <2>4, <2>5 DEF ControlInv
<1> QED
  BY <1>1, <1>2

-----------------------------------------------------------------------------
(* Theorems. *)

\* Every register of every frame holds what it is for, whatever program runs and
\* whatever it throws, until it assumes a frame it has held.
THEOREM MachineTyped == ControlSpec => [](~resumed => TypeOK)
<1>1. ControlInv => (~resumed => TypeOK)
  <2> SUFFICES ASSUME Sound PROVE TypeOK
    BY ControlInvSound
  <2>1. MachineSound
    BY DEF Sound
  <2>2. frames = [i \in 1 .. Len(frames) |-> frames[i]]
        /\ envs = [i \in 1 .. Len(envs) |-> envs[i]]
    BY <2>1, SeqRule DEF MachineSound, FramesSound, EnvironmentsSound
  <2>3. DOMAIN frames = 1 .. Len(frames) /\ DOMAIN envs = 1 .. Len(envs)
    BY <2>2
  <2>4. \A f \in 1 .. Len(frames) :
           /\ frames[f].pc \in DOMAIN Code
           /\ frames[f].env \in DOMAIN envs
           /\ frames[f].exh \in 0 .. Len(frames)
           /\ frames[f].parn \in 0 .. f - 1
    BY <2>1, <2>3, Skeletal DEF MachineSound, FramesSound, FrameSound, Addresses
  <2>5. \A e \in DOMAIN envs : envs[e].up \in 0 .. e - 1
    BY <2>1, <2>3 DEF MachineSound, EnvironmentsSound, EnvsSound
  <2> QED
    BY <2>1, <2>3, <2>4, <2>5
    DEF MachineSound, FramesSound, HostSound, TypeOK
<1>2. ControlInv /\ [ControlNext]_<<vars, notes>> => ControlInv'
  BY NextControl
<1> QED
  BY <1>1, <1>2, InitControl, PTL DEF ControlSpec

\* Nothing is on the data stack but what waiting and abandoned frames have saved
\* there, and one entry at most that a routine will pop before it lets go.
THEOREM MachineStackIsOwned == ControlSpec => [](~resumed => StackIsOwned)
<1>1. ControlInv => (~resumed => StackIsOwned)
  <2> SUFFICES ASSUME Sound PROVE StackIsOwned
    BY ControlInvSound
  <2>1. /\ Len(stack) = Len(owners) + IF Reg.pc \in Pushed THEN 1 ELSE 0
        /\ Len(owners) \in Nat
    BY Skeletal DEF Sound, MachineSound, StackSound
  <2>2. Reg.pc \in Waits => Reg.pc \notin Pushed
    BY WaitAssumption DEF Waits, Halfway
  <2> QED
    BY <2>1, <2>2 DEF StackIsOwned
<1>2. ControlInv /\ [ControlNext]_<<vars, notes>> => ControlInv'
  BY NextControl
<1> QED
  BY <1>1, <1>2, InitControl, PTL DEF ControlSpec

\* A run that has thrown nothing leaves the data stack empty.
THEOREM MachineBalanced == ControlSpec => [](~resumed => StackBalanced)
<1>1. ControlInv => (~resumed => StackBalanced)
  <2> SUFFICES ASSUME Sound, ~resumed, ~running,
                      \A f \in DOMAIN frames : frames[f].excn = Nil
               PROVE  stack = <<>>
    BY ControlInvSound DEF StackBalanced
  <2>0. MachineSound /\ P!NestLayer
    BY DEF Sound
  <2>1. ~thrown
    <3>1. frames = [i \in 1 .. Len(frames) |-> frames[i]]
      BY <2>0, SeqRule DEF MachineSound, FramesSound
    <3> QED
      BY <2>0, <3>1 DEF MachineSound, ThrownSound
  <2>2. P!Shape /\ P!HostInv /\ P!PathInv /\ P!OrderedInv
    BY <2>0, <2>1 DEF P!NestLayer, P!HostLayer, P!Plain
  <2>3. P!Waiting \subseteq P!Frames /\ \A f \in P!Waiting \cup {regs} : f \in Nat
    BY <2>2, P!WaitingMade, MachineAssumption
  <2>4. Parents[regs] = 0 /\ regs \notin P!Waiting
    BY <2>2 DEF P!HostInv, P!Waiting
  <2>5. P!Waiting = {}
    <3> SUFFICES ASSUME NEW g \in P!Waiting PROVE FALSE
      OBVIOUS
    <3>1. g <= regs /\ g # regs /\ g \in Nat /\ regs \in Nat
      BY <2>2, <2>3, <2>4 DEF P!PathInv
    <3>2. g <= 0
      BY <2>2, <2>4, <3>1 DEF P!PathInv
    <3>3. g \in 1 .. MaxFrames
      BY <2>3 DEF P!Frames
    <3> QED
      BY <3>1, <3>2, <3>3
  <2>6. owners \in Seq(1 .. MaxFrames)
    BY Skeletal
  <2>7. Len(owners) = 0
    <3>1. \A i \in 1 .. Len(owners) : owners[i] \in P!Owing
      <4> SUFFICES ASSUME NEW i \in 1 .. Len(owners) PROVE owners[i] \in P!Owing
        OBVIOUS
      <4>1. PICK g : g = owners[i]
        OBVIOUS
      <4>2. PICK R : R = 1 .. MaxFrames
        OBVIOUS
      <4>3. owners \in Seq(R)
        BY <2>6, <4>2
      <4>4. g \in R
        BY <4>1, <4>3
      <4>5. g \in P!Frames
        BY <4>2, <4>4 DEF P!Frames
      <4> QED
        BY <2>2, <4>1, <4>5 DEF P!OrderedInv
    <3>2. P!Owing = {}
      BY <2>5 DEF P!Owing, P!Waiting
    <3>3. Len(owners) # 0 => 1 \in 1 .. Len(owners)
      BY <2>6
    <3> QED
      BY <3>1, <3>2, <3>3
  <2>8. Reg.pc \notin Pushed
    BY <2>0, AddressAssumption, Situation DEF MachineSound, HostSound
  <2>9. IsSeq(stack) /\ Len(stack) = 0
    BY <2>0, <2>7, <2>8 DEF MachineSound, StackSound
  <2> QED
    BY <2>9 DEF IsSeq
<1>2. ControlInv /\ [ControlNext]_<<vars, notes>> => ControlInv'
  BY NextControl
<1> QED
  BY <1>1, <1>2, InitControl, PTL DEF ControlSpec

LEMMA SameInit == P!Init <=> Skeleton!Init
BY DEF P!Init, Skeleton!Init, P!Frames, Skeleton!Frames

LEMMA SameStutter == UNCHANGED P!vars <=> UNCHANGED Skeleton!vars
BY DEF P!vars, Skeleton!vars

LEMMA SameNext == P!Next <=> Skeleton!Next
<1> USE DEF P!Frames, Skeleton!Frames, P!fresh, Skeleton!fresh,
            P!Executing, Skeleton!Executing, P!Entering, Skeleton!Entering,
            P!MakeFrame, Skeleton!MakeFrame, P!GoToParent, Skeleton!GoToParent
<1>1. P!RunEval <=> Skeleton!RunEval
  BY DEF P!RunEval, Skeleton!RunEval, P!RunEvalUnder, Skeleton!RunEvalUnder
<1>2. P!SnapArg <=> Skeleton!SnapArg
  BY DEF P!SnapArg, Skeleton!SnapArg, P!Snap, Skeleton!Snap
<1>3. P!SnapSub <=> Skeleton!SnapSub
  BY DEF P!SnapSub, Skeleton!SnapSub, P!Snap, Skeleton!Snap
<1>4. P!ArgDone <=> Skeleton!ArgDone
  BY DEF P!ArgDone, Skeleton!ArgDone, P!Continue, Skeleton!Continue
<1>5. P!Return <=> Skeleton!Return
  BY DEF P!Return, Skeleton!Return
<1>6. P!Finish <=> Skeleton!Finish
  BY DEF P!Finish, Skeleton!Finish
<1>7. P!Catch <=> Skeleton!Catch
  BY DEF P!Catch, Skeleton!Catch, P!CatchUnder, Skeleton!CatchUnder
<1>8. P!Throw <=> Skeleton!Throw
  BY DEF P!Throw, Skeleton!Throw
<1>9. P!HoldException <=> Skeleton!HoldException
  BY DEF P!HoldException, Skeleton!HoldException
<1>10. P!HoldContinuation <=> Skeleton!HoldContinuation
  BY DEF P!HoldContinuation, Skeleton!HoldContinuation
<1>11. \A f : P!Assume(f) <=> Skeleton!Assume(f)
  BY DEF P!Assume, Skeleton!Assume
<1> QED
  BY <1>1, <1>2, <1>3, <1>4, <1>5, <1>6, <1>7, <1>8, <1>9, <1>10, <1>11
  DEF P!Next, Skeleton!Next

\* Frames are made, waited in, returned to, thrown to and handed over as CallFrames
\* says, by whatever program and in every environment, until a held frame is assumed.
THEOREM MachineFollows ==
    ControlSpec => /\ Skeleton!Init
                   /\ [][resumed' \/ Skeleton!Next]_(Skeleton!vars)
<1>1. ControlInit => Skeleton!Init
  BY InitSkeleton, SameInit
<1>2. ControlInv /\ [ControlNext]_<<vars, notes>>
         => [resumed' \/ Skeleton!Next]_(Skeleton!vars)
  BY NextControl, SameNext, SameStutter
<1>3. ControlInv /\ [ControlNext]_<<vars, notes>> => ControlInv'
  BY NextControl
<1> QED
  BY <1>1, <1>2, <1>3, InitControl, PTL DEF ControlSpec

\* A program that assumes no held frame runs as one of CallFrames does.
THEOREM MachineImplements == ControlSpec /\ []~resumed => FollowsCallFrames
<1>1. ControlInit => Skeleton!Init
  BY InitSkeleton, SameInit
<1>2. ControlInv /\ [ControlNext]_<<vars, notes>> /\ ~resumed'
         => [Skeleton!Next]_(Skeleton!vars)
  BY NextControl, SameNext, SameStutter
<1>3. ControlInv /\ [ControlNext]_<<vars, notes>> => ControlInv'
  BY NextControl
<1> QED
  BY <1>1, <1>2, <1>3, InitControl, PTL
  DEF ControlSpec, FollowsCallFrames, Skeleton!Spec

\* What is proved of the frames of CallFrames holds of the machine's.
THEOREM MachineKeepsFrames ==
    ControlSpec => [](~resumed => /\ Skeleton!StackAccounted
                                  /\ Skeleton!NestedPops
                                  /\ Skeleton!HandlerInstalled
                                  /\ Skeleton!UncaughtEndsRun
                                  /\ Skeleton!HandlesOnce
                                  /\ Skeleton!ReturnsToWaiting)
<1>1. ASSUME Framed, ~resumed
      PROVE  /\ P!StackAccounted /\ P!NestedPops /\ P!HandlerInstalled
             /\ P!UncaughtEndsRun /\ P!HandlesOnce /\ P!ReturnsToWaiting
  <2> USE MachineAssumption
  <2>1. P!StackAccounted /\ P!UncaughtEndsRun
    BY <1>1 DEF Framed, P!StackLayer, P!HostLayer
  <2>2. P!NestedPops
    BY <1>1, P!TopIsOwn
    DEF Framed, P!NestLayer, P!HostLayer, P!Plain, P!NestedPops
  <2>3. P!HandlerInstalled
    BY <1>1, P!ShapeFacts, P!Numbers
    DEF Framed, P!HandlerLayer, P!HandlerInv, P!HandlerInstalled, P!Executing,
        P!Made
  <2>4. P!HandlesOnce
    BY <1>1 DEF Framed, P!OnceLayer, P!Untouched, P!HandlesOnce
  <2>5. P!ReturnsToWaiting
    BY <1>1 DEF Framed, P!WaitLayer, P!Awaited, P!ReturnsToWaiting
  <2> QED
    BY <2>1, <2>2, <2>3, <2>4, <2>5
<1>2. /\ P!StackAccounted <=> Skeleton!StackAccounted
      /\ P!NestedPops <=> Skeleton!NestedPops
      /\ P!HandlerInstalled <=> Skeleton!HandlerInstalled
      /\ P!UncaughtEndsRun <=> Skeleton!UncaughtEndsRun
      /\ P!HandlesOnce <=> Skeleton!HandlesOnce
      /\ P!ReturnsToWaiting <=> Skeleton!ReturnsToWaiting
  <2>1. P!StackAccounted <=> Skeleton!StackAccounted
    <3>1. P!Owing = Skeleton!Owing
      BY DEF P!Owing, Skeleton!Owing, P!Frames, Skeleton!Frames
    <3> QED
      BY <3>1 DEF P!StackAccounted, Skeleton!StackAccounted, P!Cardinality,
                  Skeleton!Cardinality
  <2>2. P!NestedPops <=> Skeleton!NestedPops
    BY DEF P!NestedPops, Skeleton!NestedPops
  <2>3. P!HandlerInstalled <=> Skeleton!HandlerInstalled
    BY DEF P!HandlerInstalled, Skeleton!HandlerInstalled, P!Executing,
           Skeleton!Executing
  <2>4. P!UncaughtEndsRun <=> Skeleton!UncaughtEndsRun
    BY DEF P!UncaughtEndsRun, Skeleton!UncaughtEndsRun
  <2>5. P!HandlesOnce <=> Skeleton!HandlesOnce
    BY DEF P!HandlesOnce, Skeleton!HandlesOnce
  <2>6. P!ReturnsToWaiting <=> Skeleton!ReturnsToWaiting
    BY DEF P!ReturnsToWaiting, Skeleton!ReturnsToWaiting
  <2> QED
    BY <2>1, <2>2, <2>3, <2>4, <2>5, <2>6
<1>3. ControlInv =>
         (~resumed => /\ Skeleton!StackAccounted /\ Skeleton!NestedPops
                      /\ Skeleton!HandlerInstalled /\ Skeleton!UncaughtEndsRun
                      /\ Skeleton!HandlesOnce /\ Skeleton!ReturnsToWaiting)
  BY <1>1, <1>2 DEF ControlInv
<1>4. ControlInv /\ [ControlNext]_<<vars, notes>> => ControlInv'
  BY NextControl
<1> QED
  BY <1>3, <1>4, InitControl, PTL DEF ControlSpec

===============================================================================
