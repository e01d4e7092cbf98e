------------------------- MODULE ViaAssemblerProofs -------------------------
(***************************************************************************)
(* Proofs about ViaAssembler, for all sources and any size of memory.       *)
(***************************************************************************)
EXTENDS ViaAssembler, WellFoundedInduction, TLAPS

Entry == [name : Names, addr : Nat]

-----------------------------------------------------------------------------
(* Finding labels. *)

\* Every nonempty set of natural numbers has a smallest element.
LEMMA Smallest ==
    ASSUME NEW T, T \subseteq Nat, T # {}
    PROVE  \E x \in T : \A y \in T : x <= y
<1>1. IsWellFoundedOn(OpToRel(<, Nat), Nat)
  BY NatLessThanWellFounded
<1>2. PICK x \in T : \A y \in T : ~ (<<y, x>> \in OpToRel(<, Nat))
  BY <1>1, WFMin
<1>3. ASSUME NEW y \in T
      PROVE  x <= y
  <2>1. ~ (<<y, x>> \in OpToRel(<, Nat))
    BY <1>2
  <2>2. x \in Nat /\ y \in Nat
    OBVIOUS
  <2> QED
    BY <2>1, <2>2 DEF OpToRel
<1> QED
  BY <1>3

\* i is the place of the first entry for n.
IsFirst(list, n, i) ==
    /\ i \in DOMAIN list
    /\ list[i].name = n
    /\ \A j \in 1 .. i - 1 : list[j].name # n

\* A name that a list has has a first entry in it.
LEMMA FirstExists ==
    ASSUME NEW list \in Seq(Entry), NEW n,
           NEW k \in DOMAIN list, list[k].name = n
    PROVE  \E i \in DOMAIN list : IsFirst(list, n, i)
<1> DEFINE T == {i \in DOMAIN list : list[i].name = n}
<1>1. T \subseteq Nat /\ T # {}
  OBVIOUS
<1>2. PICK i \in T : \A j \in T : i <= j
  <2> HIDE DEF T
  <2> QED
    BY <1>1, Smallest
<1>3. ASSUME NEW j \in 1 .. i - 1
      PROVE  list[j].name # n
  <2>1. j \in DOMAIN list /\ ~(i <= j)
    OBVIOUS
  <2> QED
    BY <1>2, <2>1
<1> QED
  BY <1>2, <1>3 DEF IsFirst

\* A list has one first entry for a name at most, and its address is found.
LEMMA FindFirst ==
    ASSUME NEW list \in Seq(Entry), NEW n,
           NEW i \in DOMAIN list, IsFirst(list, n, i)
    PROVE  Find(list, n) = list[i].addr
<1> DEFINE Q(j) == list[j].name = n /\ \A m \in 1 .. j - 1 : list[m].name # n
<1> DEFINE c == CHOOSE j \in DOMAIN list : Q(j)
<1>1. c \in DOMAIN list /\ Q(c)
  <2>1. Q(i)
    BY DEF IsFirst
  <2> HIDE DEF Q
  <2> QED
    BY <2>1
<1>2. c = i
  <2>1. c \in Nat \ {0} /\ i \in Nat \ {0}
    BY <1>1
  <2>2. ~(c < i) /\ ~(i < c)
    <3> HIDE DEF c
    <3> QED
      BY <1>1, <2>1 DEF IsFirst
  <2> HIDE DEF c
  <2> QED
    BY <2>1, <2>2
<1>3. Find(list, n) = list[c].addr
  <2>1. ~(\A j \in DOMAIN list : list[j].name # n)
    BY DEF IsFirst
  <2> QED
    BY <2>1 DEF Find
<1> QED
  BY <1>2, <1>3

\* What is found is the address of an entry, and nothing is found only when
\* there is none.
LEMMA FindType ==
    ASSUME NEW list \in Seq(Entry), NEW n
    PROVE  /\ Find(list, n) \in Nat \cup {NotFound}
           /\ Find(list, n) # NotFound
                <=> \E i \in DOMAIN list : list[i].name = n
           /\ Find(list, n) # NotFound
                => \E i \in DOMAIN list : Find(list, n) = list[i].addr
<1>1. CASE \A i \in DOMAIN list : list[i].name # n
  BY <1>1 DEF Find
<1>2. CASE \E i \in DOMAIN list : list[i].name = n
  <2>1. PICK i \in DOMAIN list : IsFirst(list, n, i)
    BY <1>2, FirstExists
  <2>2. Find(list, n) = list[i].addr
    BY <2>1, FindFirst
  <2>3. list[i].addr \in Nat
    <3>1. list[i] \in Entry
      OBVIOUS
    <3> QED
      BY <3>1 DEF Entry
  <2> QED
    BY <1>2, <2>2, <2>3 DEF NotFound
<1> QED
  BY <1>1, <1>2

\* Entries at the end of a list change nothing for a name it has.
LEMMA FindAppended ==
    ASSUME NEW list \in Seq(Entry), NEW more \in Seq(Entry), NEW n,
           Find(list, n) # NotFound
    PROVE  Find(list \o more, n) = Find(list, n)
<1>1. PICK k \in DOMAIN list : list[k].name = n
  BY FindType
<1>2. PICK i \in DOMAIN list : IsFirst(list, n, i)
  BY <1>1, FirstExists
<1> DEFINE both == list \o more
<1>3. both \in Seq(Entry) /\ i \in DOMAIN both
  OBVIOUS
<1>4. \A j \in DOMAIN list : both[j] = list[j]
  OBVIOUS
<1>5. IsFirst(both, n, i)
  <2>1. \A j \in 1 .. i - 1 : j \in DOMAIN list
    BY DEF IsFirst
  <2> HIDE DEF both
  <2> QED
    BY <1>2, <1>3, <1>4, <2>1 DEF IsFirst
<1>6. Find(list, n) = list[i].addr
  BY <1>2, FindFirst
<1>7. Find(both, n) = both[i].addr
  <2> HIDE DEF both
  <2> QED
    BY <1>3, <1>5, FindFirst
<1> QED
  BY <1>4, <1>6, <1>7

-----------------------------------------------------------------------------
(* Types. *)

\* What resolving a label comes to is an address or NotFound.
LEMMA ResolveType ==
    ASSUME NEW s \in Sources, NEW at \in Nat, NEW n, labels \in Seq(Entry)
    PROVE  Resolve(s, at, n) \in Nat \cup {NotFound}
<1>1. s.labels \in Seq(Entry)
  BY AssemblerAssumption DEF Entry
<1>2. Find(s.labels, n) \in Nat \cup {NotFound}
  BY <1>1, FindType
<1>3. Find(labels, n) \in Nat \cup {NotFound}
  BY FindType
<1> QED
  BY <1>2, <1>3 DEF Resolve, NotFound

\* The words that a source is assembled to.
LEMMA AssembledType ==
    ASSUME NEW s \in Sources, NEW at \in Nat, labels \in Seq(Entry),
           NEW a \in 0 .. s.size - 1
    PROVE  Assembled(s, at)[a] \in Word
<1>1. s.size \in Nat /\ s.refs[a] \in Names \cup {NoRef}
  BY AssemblerAssumption
<1>2. Resolve(s, at, s.refs[a]) \in Nat \cup {NotFound}
  BY ResolveType
<1> QED
  BY <1>1, <1>2 DEF Assembled, Word

\* What a program adds to the table are entries.
LEMMA PublicType ==
    ASSUME NEW s \in Sources, NEW at \in Nat
    PROVE  Public(s, at) \in Seq(Entry)
<1>1. s.public \in Seq(Entry)
  BY AssemblerAssumption DEF Entry
<1> DEFINE moved(i) == [name |-> s.public[i].name, addr |-> s.public[i].addr + at]
<1>2. ASSUME NEW i \in 1 .. Len(s.public)
      PROVE  moved(i) \in Entry
  <2>1. s.public[i] \in Entry
    BY <1>1
  <2> QED
    BY <2>1 DEF Entry
<1>3. Len(s.public) \in Nat
  BY <1>1
<1>4. Public(s, at) = [i \in 1 .. Len(s.public) |-> moved(i)]
  BY DEF Public
<1> HIDE DEF moved
<1> QED
  BY <1>2, <1>3, <1>4

\* Reserving keeps the cursor in the memory and in the block.
LEMMA ReserveType ==
    ASSUME TypeOK, NEW n \in Nat, Reserve(n)
    PROVE  /\ program_cap' \in Nat
           /\ write_cursor' \in 0 .. MaxCursor
           /\ write_cursor' <= program_cap'
           /\ write_cursor' = write_cursor + n
           /\ dangling' \in BOOLEAN
<1>1. /\ write_cursor \in Nat /\ program_cap \in Nat
      /\ write_cursor + n <= MaxCursor
      /\ write_cursor' = write_cursor + n
  BY AssemblerAssumption DEF TypeOK, Reserve, Reserving
<1>2. CASE UNCHANGED <<program_cap, dangling>> /\ write_cursor + n <= program_cap
  BY <1>1, <1>2, AssemblerAssumption DEF TypeOK
<1>3. CASE program_cap' \in Doubled(n) /\ dangling' \in BOOLEAN
  <2>1. program_cap' \in write_cursor + n .. 2 * (write_cursor + n) - 1
    BY <1>3 DEF Doubled
  <2> QED
    BY <1>1, <1>3, <2>1, AssemblerAssumption
<1> QED
  BY <1>2, <1>3 DEF Reserve, Reserving

LEMMA InitType ==
    ASSUME Init
    PROVE  TypeOK
<1>1. Blank \in Word
  BY DEF Blank, Word
<1>2. memory \in [Addresses -> Word]
  BY <1>1 DEF Init
<1>3. InitialCap \in Nat /\ InitialCap >= 1 /\ MaxCursor \in Nat /\ MaxCursor >= 1
  BY AssemblerAssumption
<1>4. labels \in Seq([name : Names, addr : Nat])
  BY DEF Init
<1>5. program_cap \in Nat /\ write_cursor <= program_cap
  BY <1>3 DEF Init
<1>6. write_cursor \in 0 .. MaxCursor
  BY <1>3 DEF Init
<1>7. dangling \in BOOLEAN
  BY Zenon DEF Init
<1> QED
  BY <1>2, <1>4, <1>5, <1>6, <1>7 DEF TypeOK

LEMMA TypeStep ==
    ASSUME TypeOK, [Next]_vars
    PROVE  TypeOK'
<1> USE DEF TypeOK
<1>1. CASE UNCHANGED vars
  BY <1>1 DEF vars
<1>2. ASSUME NEW s \in Sources, FirstPassFails(s)
      PROVE  TypeOK'
  BY <1>2 DEF FirstPassFails, vars
<1>3. ASSUME NEW s \in Sources, SecondPassFails(s)
      PROVE  TypeOK'
  <2>1. s.size \in Nat /\ Reserve(s.size) /\ UNCHANGED <<memory, labels>>
    BY <1>3, AssemblerAssumption DEF SecondPassFails, SecondPassFailing
  <2> QED
    BY <2>1, ReserveType
<1>4. ASSUME NEW s \in Sources, Assemble(s)
      PROVE  TypeOK'
  <2>1. s.size \in Nat /\ Reserve(s.size)
    BY <1>4, AssemblerAssumption DEF Assemble
  <2>2. write_cursor \in Nat /\ labels \in Seq(Entry)
    BY AssemblerAssumption DEF Entry
  <2>3. labels' \in Seq(Entry)
    <3>1. Public(s, write_cursor) \in Seq(Entry)
      BY <2>2, PublicType
    <3>2. labels' = labels \o Public(s, write_cursor)
      BY <1>4 DEF Assemble
    <3> QED
      BY <2>2, <3>1, <3>2
  <2>4. memory' \in [Addresses -> Word]
    <3> DEFINE new(a) == IF a - write_cursor \in 0 .. s.size - 1
                         THEN Assembled(s, write_cursor)[a - write_cursor]
                         ELSE memory[a]
    <3>1. ASSUME NEW a \in Addresses
          PROVE  new(a) \in Word
      BY <2>2, AssembledType
    <3>2. memory' = [a \in Addresses |-> new(a)]
      BY <1>4 DEF Assemble
    <3> HIDE DEF new
    <3> QED
      BY <3>1, <3>2
  <2> QED
    BY <2>1, <2>3, <2>4, ReserveType DEF Entry
<1> QED
  BY <1>1, <1>2, <1>3, <1>4 DEF Next

\* The assembler's state has its type, and the cursor never leaves the block that
\* via_asm_reserve_prg has asked for, however many programs are assembled and
\* whatever their sizes.
THEOREM TypeCorrect == Spec => []TypeOK
<1>1. Init => TypeOK
  BY InitType
<1> QED
  BY <1>1, TypeStep, PTL DEF Spec

-----------------------------------------------------------------------------
(* Labels stay. *)

\* A label that a program has found, at creation or in a static variable of the C
\* code, is found at the same address whatever is assembled later.
THEOREM LabelsStay == Spec => LabelStays
<1> DEFINE Stays == \A n \in Names : Find(labels, n) # NotFound =>
                                      Find(labels', n) = Find(labels, n)
<1>1. ASSUME TypeOK, Next
      PROVE  Stays
  <2>1. ASSUME NEW s \in Sources, FirstPassFails(s) \/ SecondPassFails(s)
        PROVE  Stays
    BY <2>1 DEF FirstPassFails, SecondPassFails, SecondPassFailing, vars
  <2>2. ASSUME NEW s \in Sources, Assemble(s)
        PROVE  Stays
    <3>1. write_cursor \in Nat /\ labels \in Seq(Entry)
      BY <1>1, AssemblerAssumption DEF TypeOK, Entry
    <3>2. Public(s, write_cursor) \in Seq(Entry)
      BY <3>1, PublicType
    <3>3. labels' = labels \o Public(s, write_cursor)
      BY <2>2 DEF Assemble
    <3> QED
      BY <3>1, <3>2, <3>3, FindAppended
  <2> QED
    BY <1>1, <2>1, <2>2 DEF Next
<1>2. TypeOK /\ [Next]_vars => [Stays]_vars
  BY <1>1
<1> QED
  BY <1>2, TypeCorrect, PTL DEF Spec, LabelStays

-----------------------------------------------------------------------------
(* Programs stay. *)

\* A program lies below the cursor, where memory holds its code.
InPlace(p) ==
    /\ p.at \in Nat
    /\ \A a \in DOMAIN p.code :
          /\ a \in Nat
          /\ p.at + a < write_cursor
          /\ memory[p.at + a] = p.code[a]

PlaceInv == TypeOK /\ \A p \in programs : InPlace(p)

LEMMA PlaceStep ==
    ASSUME PlaceInv, [Next]_vars
    PROVE  PlaceInv'
<1>1. TypeOK /\ TypeOK'
  BY TypeStep DEF PlaceInv
<1>2. CASE UNCHANGED vars
  BY <1>1, <1>2 DEF PlaceInv, InPlace, vars
<1>3. ASSUME NEW s \in Sources, FirstPassFails(s)
      PROVE  PlaceInv'
  BY <1>1, <1>3 DEF PlaceInv, InPlace, FirstPassFails, vars
<1>4. ASSUME NEW s \in Sources, SecondPassFails(s)
      PROVE  PlaceInv'
  <2>1. UNCHANGED <<memory, programs>> /\ s.size \in Nat /\ Reserve(s.size)
    BY <1>4, AssemblerAssumption DEF SecondPassFails, SecondPassFailing
  <2>2. write_cursor' = write_cursor + s.size /\ write_cursor \in Nat
    <3>1. write_cursor \in Nat
      BY <1>1, AssemblerAssumption DEF TypeOK
    <3> QED
      BY <1>1, <2>1, <3>1, ReserveType
  <2>3. ASSUME NEW p \in programs
        PROVE  InPlace(p)'
    BY <2>1, <2>2 DEF PlaceInv, InPlace
  <2> QED
    BY <1>1, <2>1, <2>3 DEF PlaceInv
<1>5. ASSUME NEW s \in Sources, Assemble(s)
      PROVE  PlaceInv'
  <2> DEFINE new == [at |-> write_cursor, code |-> Assembled(s, write_cursor)]
  <2>1. s.size \in Nat /\ Reserve(s.size)
    BY <1>5, AssemblerAssumption DEF Assemble
  <2>2. /\ write_cursor' = write_cursor + s.size
        /\ write_cursor \in Nat
        /\ write_cursor' <= MaxCursor
    BY <1>1, <2>1, ReserveType, AssemblerAssumption DEF TypeOK
  <2>3. \A x \in Addresses :
           memory'[x] = IF x - write_cursor \in 0 .. s.size - 1
                        THEN Assembled(s, write_cursor)[x - write_cursor]
                        ELSE memory[x]
    BY <1>5 DEF Assemble
  <2>4. ASSUME NEW p \in programs
        PROVE  InPlace(p)'
    <3>1. p.at \in Nat
      BY DEF PlaceInv, InPlace
    <3>2. ASSUME NEW a \in DOMAIN p.code
          PROVE  a \in Nat /\ p.at + a < write_cursor'
                 /\ memory'[p.at + a] = p.code[a]
      <4>1. a \in Nat /\ p.at + a < write_cursor /\ memory[p.at + a] = p.code[a]
        BY DEF PlaceInv, InPlace
      <4>2. p.at + a \in Addresses /\ ~(p.at + a - write_cursor \in 0 .. s.size - 1)
        BY <2>1, <2>2, <3>1, <4>1, AssemblerAssumption DEF Addresses
      <4> QED
        BY <2>1, <2>2, <2>3, <3>1, <4>1, <4>2
    <3> QED
      BY <3>1, <3>2 DEF InPlace
  <2>5. ASSUME NEW p, p = new
        PROVE  InPlace(p)'
    <3>1. p.at = write_cursor /\ p.code = Assembled(s, write_cursor)
      BY <2>5
    <3>2. ASSUME NEW a \in DOMAIN p.code
          PROVE  a \in Nat /\ p.at + a < write_cursor'
                 /\ memory'[p.at + a] = p.code[a]
      <4>1. a \in 0 .. s.size - 1
        BY <3>1 DEF Assembled
      <4>2. write_cursor + a \in Addresses /\ write_cursor + a - write_cursor = a
        BY <2>1, <2>2, <4>1, AssemblerAssumption DEF Addresses
      <4> QED
        BY <2>1, <2>2, <2>3, <3>1, <4>1, <4>2
    <3> QED
      BY <2>2, <3>1, <3>2 DEF InPlace
  <2>6. programs' = programs \cup {new}
    BY <1>5 DEF Assemble
  <2> QED
    BY <1>1, <2>4, <2>5, <2>6 DEF PlaceInv
<1> QED
  BY <1>2, <1>3, <1>4, <1>5 DEF Next

\* As long as the block has not moved, all that was ever assembled is where
\* via_assemble said it is.
THEOREM StaysAssembled == Spec => []AssembledStays
<1>1. ASSUME Init
      PROVE  PlaceInv
  <2>1. 0 \in Addresses
    BY AssemblerAssumption DEF Addresses
  <2>2. ASSUME NEW p \in programs
        PROVE  InPlace(p)
    <3>1. p = [at |-> 0, code |-> [a \in {0} |-> Blank]]
      BY <1>1 DEF Init
    <3>2. write_cursor = 1 /\ memory[0] = Blank
      BY <1>1, <2>1 DEF Init
    <3> QED
      BY <3>1, <3>2 DEF InPlace
  <2> QED
    BY <1>1, <2>2, InitType DEF PlaceInv
<1>2. PlaceInv => AssembledStays
  BY DEF PlaceInv, InPlace, AssembledStays, AssembledIsThere, IsThere
<1> QED
  BY <1>1, <1>2, PlaceStep, PTL DEF Spec

-----------------------------------------------------------------------------
(* Jumps lead to code. *)

\* The labels lead to code, and so do the instructions.
JumpInv ==
    /\ TypeOK
    /\ \A i \in DOMAIN labels : labels[i].addr \in CodeAddresses
    /\ LandsInCode

\* A step that keeps programs and labels, or that adds a program, loses no code.
LEMMA CodeGrows ==
    ASSUME programs \subseteq programs'
    PROVE  CodeAddresses \subseteq CodeAddresses'
BY DEF CodeAddresses

LEMMA JumpStep ==
    ASSUME LabelsPrecede, JumpInv, [Next]_vars
    PROVE  JumpInv'
<1>1. TypeOK /\ TypeOK'
  BY TypeStep DEF JumpInv
<1>2. ASSUME UNCHANGED <<labels, programs>>
      PROVE  JumpInv'
  BY <1>1, <1>2 DEF JumpInv, LandsInCode, CodeAddresses
<1>3. ASSUME NEW s \in Sources, Assemble(s)
      PROVE  JumpInv'
  <2> DEFINE code == Assembled(s, write_cursor)
             more == Public(s, write_cursor)
  <2>1. /\ s.size \in Nat /\ write_cursor \in Nat /\ labels \in Seq(Entry)
        /\ s.labels \in Seq(Entry) /\ s.public \in Seq(Entry)
    <3>1. write_cursor \in Nat /\ labels \in Seq(Entry)
      BY <1>1, AssemblerAssumption DEF TypeOK, Entry
    <3>2. s.size \in Nat /\ s.labels \in Seq(Entry) /\ s.public \in Seq(Entry)
      BY AssemblerAssumption DEF Entry
    <3> QED
      BY <3>1, <3>2
  <2>2. programs' = programs \cup {[at |-> write_cursor, code |-> code]}
    BY <1>3 DEF Assemble
  <2>3. CodeAddresses \subseteq CodeAddresses'
    BY <2>2, CodeGrows
  <2>4. ASSUME NEW a \in 0 .. s.size - 1
        PROVE  write_cursor + a \in CodeAddresses'
    <3>1. PICK p \in programs' : p.at = write_cursor /\ p.code = code
      <4> DEFINE new == [at |-> write_cursor, code |-> code]
      <4>1. new \in programs' /\ new.at = write_cursor /\ new.code = code
        BY <2>2
      <4> HIDE DEF new, code
      <4> QED
        BY <4>1
    <3>2. a \in DOMAIN p.code
      BY <3>1 DEF Assembled
    <3>3. CodeAddresses' = UNION {{q.at + b : b \in DOMAIN q.code} : q \in programs'}
      BY DEF CodeAddresses
    <3> QED
      BY <3>1, <3>2, <3>3
  <2>5. ASSUME NEW i \in DOMAIN labels'
        PROVE  (labels'[i]).addr \in CodeAddresses'
    <3>1. labels' = labels \o more /\ more \in Seq(Entry)
      BY <1>3, <2>1, PublicType DEF Assemble
    <3>2. CASE i \in DOMAIN labels
      <4>1. labels'[i] = labels[i]
        <5> HIDE DEF more
        <5> QED
          BY <2>1, <3>1, <3>2
      <4> QED
        BY <2>3, <3>2, <4>1 DEF JumpInv
    <3>3. CASE i \notin DOMAIN labels
      <4> DEFINE j == i - Len(labels)
      <4>1. labels'[i] = more[j] /\ j \in DOMAIN more
        <5> HIDE DEF more
        <5> QED
          BY <2>1, <3>1, <3>3
      <4>2. j \in DOMAIN s.public /\ more[j].addr = s.public[j].addr + write_cursor
        <5>1. DOMAIN more = 1 .. Len(s.public)
          BY DEF Public
        <5>2. j \in 1 .. Len(s.public)
          BY <4>1, <5>1
        <5> QED
          BY <2>1, <5>2 DEF Public
      <4>3. s.public[j].addr \in 0 .. s.size - 1
        <5>1. s.public[j] \in Entry
          BY <2>1, <4>2
        <5> QED
          BY <2>1, <4>2, <5>1 DEF LabelsPrecede, Entry
      <4> QED
        <5> HIDE DEF more, j
        <5> QED
          BY <2>1, <2>4, <4>1, <4>2, <4>3
    <3> QED
      BY <3>2, <3>3
  <2>6. ASSUME NEW a \in 0 .. s.size - 1, s.refs[a] # NoRef
        PROVE  code[a].target \in CodeAddresses'
    <3> DEFINE n == s.refs[a]
    <3>1. code[a].target = Resolve(s, write_cursor, n)
      BY <2>6 DEF Assembled
    <3>2. Resolve(s, write_cursor, n) # NotFound
      BY <1>3, <2>6 DEF Assemble, Assembles
    <3>3. CASE Find(s.labels, n) # NotFound
      <4>1. PICK i \in DOMAIN s.labels : Find(s.labels, n) = s.labels[i].addr
        <5> HIDE DEF n
        <5> QED
          BY <2>1, <3>3, FindType
      <4>2. s.labels[i].addr \in 0 .. s.size - 1
        <5>1. s.labels[i] \in Entry
          BY <2>1
        <5> QED
          BY <2>1, <5>1 DEF LabelsPrecede, Entry
      <4>3. Resolve(s, write_cursor, n) = write_cursor + s.labels[i].addr
        BY <2>1, <3>3, <4>1, <4>2 DEF Resolve
      <4> QED
        BY <2>4, <3>1, <4>2, <4>3
    <3>4. CASE Find(s.labels, n) = NotFound
      <4>1. Resolve(s, write_cursor, n) = Find(labels, n)
        BY <3>4 DEF Resolve
      <4>2. PICK i \in DOMAIN labels : Find(labels, n) = labels[i].addr
        <5> HIDE DEF n
        <5> QED
          BY <2>1, <3>2, <4>1, FindType
      <4> QED
        BY <2>3, <3>1, <4>1, <4>2 DEF JumpInv
    <3> QED
      BY <3>3, <3>4
  <2>7. ASSUME NEW p \in programs', NEW a \in DOMAIN p.code, p.code[a].ref # NoRef
        PROVE  p.code[a].target \in CodeAddresses'
    <3>1. CASE p \in programs
      BY <2>3, <2>7, <3>1 DEF JumpInv, LandsInCode
    <3>2. CASE p.code = code
      <4>1. a \in 0 .. s.size - 1
        BY <3>2 DEF Assembled
      <4>2. s.refs[a] # NoRef
        BY <2>7, <3>2, <4>1 DEF Assembled
      <4> QED
        BY <2>6, <3>2, <4>1, <4>2
    <3> HIDE DEF code
    <3> QED
      BY <2>2, <3>1, <3>2
  <2> QED
    BY <1>1, <2>5, <2>7 DEF JumpInv, LandsInCode
<1> QED
  BY <1>2, <1>3 DEF Next, FirstPassFails, SecondPassFails, SecondPassFailing, vars

\* When labels precede instructions, no instruction that names a label, not even
\* one of a source assembled after others have failed, leads to memory that holds
\* no code.
THEOREM JumpsLandInCode ==
    ASSUME LabelsPrecede
    PROVE  Spec => []LandsInCode
<1>1. ASSUME Init
      PROVE  JumpInv
  <2>1. TypeOK
    BY <1>1, InitType
  <2>2. DOMAIN labels = {}
    BY <1>1 DEF Init
  <2>3. \A p \in programs : \A a \in DOMAIN p.code : p.code[a].ref = NoRef
    <3>1. programs = {[at |-> 0, code |-> [a \in {0} |-> Blank]]}
      BY <1>1 DEF Init
    <3> QED
      BY <3>1 DEF Blank
  <2> QED
    BY <2>1, <2>2, <2>3 DEF JumpInv, LandsInCode
<1>2. JumpInv /\ [Next]_vars => JumpInv'
  BY JumpStep
<1>3. JumpInv => LandsInCode
  BY DEF JumpInv
<1> QED
  BY <1>1, <1>2, <1>3, PTL DEF Spec

=============================================================================
