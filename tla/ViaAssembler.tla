---------------------------- MODULE ViaAssembler ----------------------------
(***************************************************************************)
(* The assembler of the Via machine over its life (src/assembler.c): every  *)
(* call of via_assemble, by via_create_vm, a host, or the via_bind of every  *)
(* via_run_eval, adds a program to program memory and its labels to the     *)
(* machine's table, where later programs find them.                         *)
(*                                                                          *)
(* A source is given by what its lines come to:                             *)
(*   size    how many instructions it has;                                  *)
(*   labels  its labels in order, each with the offset of the instruction   *)
(*           after it; public, those of them that do not begin with @;      *)
(*   refs    of each instruction, the label that is its operand, or NoRef;   *)
(*   syntax  "ok", or in which pass a line that is wrong is noticed: the    *)
(*           first pass does not look at mnemonics.                         *)
(***************************************************************************)
EXTENDS Integers, Sequences

CONSTANTS
    Names,          \* names of labels
    NoRef,          \* the operand of an instruction that names no label
    Sources,        \* what is assembled
    InitialCap,     \* DEFAULT_PROGRAM_SIZE
    MaxCursor       \* bound: instructions in program memory

NotFound == -1

ASSUME AssemblerAssumption ==
    /\ NoRef \notin Names
    /\ InitialCap \in Nat \ {0}
    /\ MaxCursor \in Nat \ {0}
    /\ \A s \in Sources :
          /\ s.size \in Nat
          /\ s.labels \in Seq([name : Names, addr : Nat])
          /\ s.public \in Seq([name : Names, addr : Nat])
          /\ s.refs \in [0 .. s.size - 1 -> Names \cup {NoRef}]
          /\ s.syntax \in {"ok", "first", "second"}

VARIABLES
    memory,         \* vm->program: the word at each address
    program_cap, write_cursor,
    labels,         \* the machine's labels, in the order they were added
    dangling,       \* vm->program points at a block that has been freed
    programs        \* history: what was assembled, and where

vars == <<memory, program_cap, write_cursor, labels, dangling, programs>>

Addresses == 0 .. MaxCursor - 1

\* A word that is no instruction with a label.
Blank == [ref |-> NoRef, target |-> NotFound]

\* The start of via_add_core_routines: there is a RETURN at address 0.
Init ==
    /\ memory = [a \in Addresses |-> Blank]
    /\ program_cap = InitialCap
    /\ write_cursor = 1
    /\ labels = <<>>
    /\ dangling = FALSE
    /\ programs = {[at |-> 0, code |-> [a \in {0} |-> Blank]]}

-----------------------------------------------------------------------------
(* Labels. *)

\* Mutant: the last one counts.
FindLast(list, n) ==
    IF \A i \in DOMAIN list : list[i].name # n THEN NotFound
    ELSE LET last == CHOOSE i \in DOMAIN list :
                        /\ list[i].name = n
                        /\ \A j \in i + 1 .. Len(list) : list[j].name # n
         IN  list[last].addr

\* via_asm_label_lookup, the address a list of labels has for a name: the first
\* one counts.
Find(list, n) ==
    IF \A i \in DOMAIN list : list[i].name # n THEN NotFound
    ELSE LET first == CHOOSE i \in DOMAIN list :
                         /\ list[i].name = n
                         /\ \A j \in 1 .. i - 1 : list[j].name # n
         IN  list[first].addr

\* via_asm_local_lookup: a source that is assembled at address at looks among its
\* own labels first.
Resolve(s, at, n) ==
    IF Find(s.labels, n) # NotFound THEN Find(s.labels, n) + at
                                    ELSE Find(labels, n)

\* The instructions of a source, with absolute addresses for operands.
Assembled(s, at) ==
    [a \in 0 .. s.size - 1 |->
        [ref |-> s.refs[a],
         target |-> IF s.refs[a] = NoRef THEN NotFound
                                         ELSE Resolve(s, at, s.refs[a])]]

\* The second pass succeeds.
Assembles(s) ==
    /\ s.syntax = "ok"
    /\ \A a \in 0 .. s.size - 1 :
          s.refs[a] # NoRef => Resolve(s, write_cursor, s.refs[a]) # NotFound

\* The labels a program adds to the table, moved to where it is.
Public(s, at) ==
    [i \in 1 .. Len(s.public) |->
        [name |-> s.public[i].name, addr |-> s.public[i].addr + at]]

-----------------------------------------------------------------------------
(* Assembling. *)

\* Program memory is n words longer, up to cursor; when the block is too small it
\* gets one of the sizes caps, but the machine keeps its pointer to the old one,
\* which is the block only if realloc has not moved it.  What has been freed
\* cannot be reallocated again.
Reserving(n, cursor, caps) ==
    /\ write_cursor + n <= MaxCursor
    /\ write_cursor' = cursor
    /\ \/ /\ write_cursor + n <= program_cap
          /\ UNCHANGED <<program_cap, dangling>>
       \/ /\ write_cursor + n > program_cap
          /\ ~dangling
          /\ program_cap' \in caps
          /\ dangling' \in BOOLEAN

\* The size has doubled until there was room, and no further.
Doubled(n) ==
    {cap \in write_cursor + n .. 2 * (write_cursor + n) - 1 :
        \E doublings \in 1 .. MaxCursor : cap = program_cap * 2 ^ doublings}

\* Mutant: the next program starts where the last one ends, not after it.
ReserveShort(n) ==
    Reserving(n, IF n = 0 THEN write_cursor ELSE write_cursor + n - 1, Doubled(n))

\* Mutant: the size doubles once.
ReserveOnce(n) == Reserving(n, write_cursor + n, {program_cap * 2})

\* via_asm_reserve_prg, which the first pass ends with.
Reserve(n) == Reserving(n, write_cursor + n, Doubled(n))

\* A line is wrong in the first pass: nothing happens.
FirstPassFails(s) == s.syntax = "first" /\ UNCHANGED vars

SecondPassFailing(s, table) ==
    /\ s.syntax # "first"
    /\ ~Assembles(s)
    /\ Reserve(s.size)
    /\ labels' = table
    /\ UNCHANGED <<memory, programs>>

\* Mutant: the labels are added before the second pass.
SecondPassFailsLate(s) ==
    SecondPassFailing(s, labels \o Public(s, write_cursor))

\* A mnemonic or a label is unknown: the memory stays reserved.
SecondPassFails(s) == SecondPassFailing(s, labels)

\* via_assemble: the code is written where it was reserved, and the labels go to
\* the end of the table.
Assemble(s) ==
    /\ Assembles(s)
    /\ Reserve(s.size)
    /\ memory' = [a \in Addresses |->
                     IF a - write_cursor \in 0 .. s.size - 1
                     THEN Assembled(s, write_cursor)[a - write_cursor]
                     ELSE memory[a]]
    /\ labels' = labels \o Public(s, write_cursor)
    /\ programs' = programs \cup
           {[at |-> write_cursor, code |-> Assembled(s, write_cursor)]}

Next ==
    \E s \in Sources : FirstPassFails(s) \/ SecondPassFails(s) \/ Assemble(s)

Spec == Init /\ [][Next]_vars

-----------------------------------------------------------------------------
(* Properties. *)

Word == [ref : Names \cup {NoRef}, target : Nat \cup {NotFound}]

\* Counters and tables hold what they are for, and the cursor is in the block.
TypeOK ==
    /\ memory \in [Addresses -> Word]
    /\ program_cap \in Nat
    /\ write_cursor \in 0 .. MaxCursor
    /\ write_cursor <= program_cap
    /\ labels \in Seq([name : Names, addr : Nat])
    /\ dangling \in BOOLEAN

\* "REQUIRE(vm->program[result.addr + i] == expected[i])": at every moment what
\* was ever assembled is in the machine's program memory.
IsThere(p) ==
    \A a \in DOMAIN p.code : ~dangling /\ memory[p.at + a] = p.code[a]

AssembledIsThere == \A p \in programs : IsThere(p)

\* As long as the block has not moved: no program is ever written over by a later
\* one, whether that is assembled, fails or makes the memory grow.
AssembledStays == ~dangling => AssembledIsThere

\* A label that has been found once is found at the same address for ever: what
\* the C code caches in static variables stays right, also when the host
\* assembles a label of the same name.
LabelStays ==
    [][\A n \in Names : Find(labels, n) # NotFound =>
           Find(labels', n) = Find(labels, n)]_vars

\* Every label of a source is followed by an instruction of that source.
LabelsPrecede ==
    \A s \in Sources :
        /\ \A i \in DOMAIN s.labels : s.labels[i].addr < s.size
        /\ \A i \in DOMAIN s.public : s.public[i].addr < s.size

\* An instruction that goes to a label goes to code that was assembled, and not
\* to memory that a failed assembly has left reserved,
\* when LabelsPrecede.
CodeAddresses ==
    UNION {{p.at + a : a \in DOMAIN p.code} : p \in programs}

LandsInCode ==
    \A p \in programs : \A a \in DOMAIN p.code :
        p.code[a].ref # NoRef => p.code[a].target \in CodeAddresses

=============================================================================
