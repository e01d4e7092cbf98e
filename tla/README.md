# Via: models, model checking and proofs

This directory holds TLA+ models of the Via interpreter in `src/`, a C program
that embeds a Scheme-like language: an assembler, a register machine with a
garbage-collected heap, machine-code routines that evaluate expressions, a
recursive descent parser and a library of builtins.  The models are checked
with TLC on small instances, and the theorems about them are checked with
TLAPS for every value of the constants.

Run TLC with `tlc -config X.cfg M` and the proofs with `tlapm M.tla`.
`PROJECT.json` lists every run, what it checks, the source lines each
definition stands for, the mutants each property was tried on, and the hazards
the properties are for.

## The system

Everything is sequential: one virtual machine runs on the thread of the host
that calls it, and a collection stops the program.  What makes the code hard is
not threads but control flow.  Frames are heap values that a program can throw
out of, keep and go back to; the data stack is shared by all of them; values of
every type share a union that one opcode reads as an integer; a collector with
one byte of generation must keep everything all of these can reach; and the
host runs one expression after the other on a machine that keeps its state.

| part | state | operations | interacts with |
|---|---|---|---|
| frames and control flow (`vm.c`, `builtin.viaas`) | `vm->regs`; each frame's PC, PARN, EXH and EXCN registers; the data stack through the one SPTR all frames hold | SNAP, RETURN, `via_catch`, `via_throw`, `via_assume_frame`, `via_make_frame` | routines push and pop around them; `via_run_eval` starts and ends them; exceptions and continuations keep frames |
| heap and collector (`vm.c`) | `heap`, `heap_cap`, `heap_top`, `heap_free`, `generation`, a generation in each value, `stack`, `stack_size` | `via_make_value`, `via_push`, `via_pop`, `via_mark`, `via_sweep`, `via_garbage_collect` | every builtin allocates; `(garbage-collect)` collects; deleting a value closes its handle |
| instruction interpreter (`via_run`) | `acc`, `ret`, the current frame's registers, `program` | 26 opcodes, and the rule that moves the program counter | calls bound C functions (CALLB), which change the same registers |
| evaluator routines (`builtin.viaas`) | code in program memory | `eval-proc`, `eval-compound-proc`, one routine per native form | run by the interpreter; assembled when the machine is made |
| core forms and procedures (`builtin.c`) | none of their own | quote, lambda, catch, eval, throw, arithmetic, lists, conversions, predicates | bound by `via_bind_context`, found in the global environment |
| environments and symbols (`vm.c`) | association lists with a parent; the list of interned symbols | `via_env_lookup`, `via_env_set`, `via_sym` | `via_apply` makes one for each call |
| exceptions (`exceptions.c`) | a pair of type, message and frame | `via_make_exception` and one constructor per type | thrown by builtins, shown by the default handler |
| assembler (`assembler.c`) | `program`, `program_cap`, `write_cursor`, `labels` | two passes, `via_asm_reserve_prg`, `via_asm_label_lookup` | used when the machine is made, and twice more by each `via_run_eval` |
| parser (`parse.c`) | a context: cursor, source, program, parent, matched, open | one function per kind of expression | writes pairs to the heap, interns symbols |
| ports (`port.c`) | C streams in handle values | open, read, write, seek, close | the collector closes what it frees |
| templates (`builtin.c`, `native.via`) | forms with formals and a body | `syntax-transform`, `syntax-expand` | expand and evaluate again |
| host interface (`vm.h`), `via-cpp`, `standalone.c` | the virtual machine between runs | create, parse, set the expression, run, free | all of the above |

What makes each correct:

* *frames*: a frame gets back what it pushed; a throw finds a handler, each
  handler handles one exception, handlers come to an end; returning ends in the
  host;
* *heap*: nothing reachable is freed, whatever is garbage is; the three hints of
  the allocator agree with the slots in use; marking and sweeping end;
* *interpreter and routines*: an expression has the value its structure means,
  in the scope it was written in; loops in tail position take no space; no
  instruction meets a value it cannot handle; what one run defines the next one
  sees;
* *assembler*: a label's address is that of the instruction after it, and program
  memory is never written to outside its block;
* *parser and reader*: the first datum of a file is read whatever lines it is
  spread over, no line is read that it does not need, and a file without one
  gives an exception;
* *ports*: a stream is closed once and not used afterwards, and none is left open;
* *templates*: an expansion means what its parameters, put in all at once, mean;
* *bundled library*: `let`, `cond` and the others mean what Scheme's do, as far as
  the tests and the examples rely on it.

## The models

### CallFrames: where control goes

`CallFrames.tla` keeps of each frame its parent, its handler and a summary of its
program counter, and of each entry of the data stack the frame that pushed it.
The program is left open: in each state the current frame may take any of the
steps that the routines take between two changes of frame.

| action | code |
|---|---|
| `RunEval`, `Finish` | `via_run_eval` installs the default handler and takes the parent away; RETURN with no parent goes back to the host |
| `SnapArg`, `ArgDone` | the argument loop of `eval-compound-proc`: PUSH and SNAP, then POP |
| `SnapSub`, `Return` | every other SNAP, and RETURN |
| `Catch`, `Throw` | `via_catch`, `via_throw` (with `via_assume_frame`) |
| `HoldException`, `HoldContinuation`, `Assume` | an exception keeps the current frame, `continuation` makes one, `eval` of either assumes it |

`entered`, `thrown` and `resumed` are history variables.  A program may hold a
frame for ever, across runs, so that every stale reference the code allows is
there.  `MaxFrames` bounds how many frames are made; six are enough for a throw
out of an argument of an argument into a handler that throws again, in a second
run, with a frame held from the first.

### ViaHeap, Collector, ValueGraph: the heap

`ViaHeap.tla` models the array of slots with `heap_cap`, `heap_top`, `heap_free`
and the search of `via_make_value`, the data stack as the array it is, and a
collection in small steps: `Begin` (new generation, roots), `Mark` (one value),
`Sweep` (one slot).  `via_mark`'s recursion becomes a set of values still to be
marked, `gray`; in which order they are taken makes no difference to the
properties, and all orders are explored.  A value has two pointers, which is
what pairs, procedures and forms have; arrays and frames have more of the same.
Between collections any pointer the program can get at may be set to any value
it can get at, which covers every builtin.  Two facts of the routines are built
in: nothing pushes NULL, and the collector, a builtin, is only applied right
after a POP (`popped`).  The second matters: a full data stack has no NULL
above its top entry, and the scan for roots would run off the array.

`Collector.tla` says what the collector promises: `Collect` deletes in one step
exactly the values that are not reachable, and nothing else deletes anything.
`ViaHeap!KeepsPromise` is the refinement: a value that is doomed (unmarked when
sweeping starts) counts as gone.  `ValueGraph.tla` has reachability, as the
smallest closed set, for both.

`GenMod` is 256 in the code.  The runs take 3, or 2 to see it wrap; the proofs
take any.

### ViaProcedures, ViaLibrary, ViaMicrocode, ViaMachine: the machine

`ViaMicrocode.tla` is `builtin.viaas` line for line, with the two instructions
`via_bind_context` assembles around each builtin, and computes addresses and
operands as the assembler's two passes do.

`ViaProcedures.tla` has the values and the procedures of `builtin.c` that look at
nothing but their arguments: comparison, arithmetic on integers, lists, type
predicates, exceptions, the conversions to int and byte.  Values are terms, for a
pair that a program holds is never written to; an exception is its type.

`ViaLibrary.tla` is the global environment once a machine has been made: the
procedures and templates that `native.via` defines for lists and variables, as
the terms the machine runs.

`ViaMachine.tla` executes all this: one action per opcode and one per builtin
that does more than answer (`Pure` is CALLB for those that do not).  Every action
ends with `Proceed`, which is `via_run`'s rule for the program counter, in all
its generality: the counter of whichever frame is then current moves on if it
equals the one the instruction started at.  Frames and environments are numbered
in the order they are made.  Templates are expanded as the code does it, one
formal after the other (`Expanded`), and the expansion goes to
`eval-transform-proc`, which evaluates it to get an expression and evaluates
that.  Where the code reads through NULL (a call of what is not a procedure,
`car` of NULL, a lambda without a body, arithmetic on `()`) the model has no
step.  Programs of any size can be proved about only if nothing is defined by
RECURSIVE, so that lists and templates are taken apart by recursive functions
with a bound each: `MaxLength` (30 elements of a list; a builtin that meets more has no step) and
`MaxDepth` (36 levels of pairs in a template being expanded; what is deeper would
be left as it is).  No program in the runs comes near the first, and the deepest
expansion has between 29 and 34 levels.  `MaxFrames` and
`MaxRuns` are the other bounds.

`ViaLayout.tla` says what the routines look like in memory, as assumptions that
TLC evaluates on the assembled code: which instruction can follow which, where
the accumulator may hold a builtin, between which PUSH and which POP an entry is
pending (`Pushed`), where a frame never stops (`Halfway`), what a frame of the
default handler executes (`HandlerPath`), that a SNAP leaves its frame at an
instruction that is no RETURN.  Code and addresses are definitions, so that what
TLC finds of them holds in general; only `TermsAssumption` speaks of a constant,
and says that programs are expressions.

### ViaControl: the machine implements CallFrames

`CallFrames` leaves the program open; `ViaControl.tla` shows that the routines of
`builtin.viaas` stay within it.  The refinement mapping is `Doing`, which tells
from a frame's program counter what the frame is doing: at `@arg-eval-done` it
owes a POP, at the end of any other SNAP it waits, at a RETURN it is done.  What
CallFrames remembers and the machine does not (`owners`, `default`, `held`,
`entered`, `thrown`, `resumed`) is noted in history variables beside it: no step
looks at them.  `FollowsCallFrames` is the refinement; `StackIsOwned` adds that
the data stack has one entry for each frame noted as the owner of one, and at
most one more, between a PUSH and its POP.
In CallFrames an exception holds the frame it was made in; here it is its type,
so that only continuations are held.

### ViaMeaning: what an expression means

`ViaMeaning.tla` is the abstract specification of the evaluator: a recursive
function on expressions and environments, with no frames, stack or program
counter.  It says what a call, a closure, a conditional, an assignment and a
catch mean.  A template means what its body means with all operands put in at
once; `let`, `let*`, `letrec`, `cond` and `for-each` have meanings of their own,
which do not look at the templates.  `AnswersAgree` compares the machine's answer
with all this.  It takes over the code's idea of what counts as false (`Zero`),
which nothing documents.  In what the code does with the variables of `letrec`
(set in the environment of the expression) and with the list and the result of
`for-each` (each evaluated twice) it follows the code, for nothing says
otherwise; two programs show the difference.  Of templates it does not follow the
code where an operand has one of the parameters in it, which the code goes on to
replace: the programs compared have none.

`MCViaPrograms.tla`, `MCViaMeaning.tla` and `MCViaControl.tla` build the programs.

### ViaAssembler: program memory and labels

`ViaAssembler.tla` is the assembler over the life of a machine: a sequence of
`via_assemble` calls, each with a source that succeeds or fails in either pass.
A source is given by its size, its labels, the label each instruction names, and
the pass in which a wrong line is noticed.  `Reserve` is `via_asm_reserve_prg`
with its growth: `realloc` may leave the block where it is or move it, and
`dangling` says that it has moved, for the machine keeps the old pointer.
`programs` is a history variable: what was assembled, and where.

| action | code |
|---|---|
| `FirstPassFails` | a line that is neither an instruction nor a label: nothing happens |
| `SecondPassFails` | an unknown mnemonic or label: the memory stays reserved |
| `Assemble` | both passes succeed: the code is copied, the public labels are added |

`Find` is a linear search in which the first label of a name counts, and
`Resolve` looks among a source's own labels before the machine's.

### ViaParser, ViaReader, ViaGrammar: reading a datum

`ViaParser.tla` has the parser's contexts and its functions as operators that
take a context and give the next.  `ViaReader.tla` is `read-datum`: a line is
read and added to the text, and the whole text is parsed again, until there is a
datum or the end of the file.  The recursive descent is unrolled: `depth` counts
the calls of `via_parse_sexpr`, and the list of parents belongs to the context,
as in the code, where the two are counted apart.

| action | code |
|---|---|
| `ReadLine`, `ReadNothing` | `file-read-line`: a line, what fits in the buffer, or nothing more |
| `ParseValue`, `ParseOparen`, `ParseCparen`, `ParseNothing`, `NotClosed`, `NoMatch` | one step of the descent |
| `Answer` | `via_p_parse`: a datum, or one of two exceptions |
| `ReadOn`, `Rethrow` | `read-datum` goes on when the text is incomplete and there is more; throws otherwise |

`ViaGrammar.tla` is what the reader should do, told without a cursor: a text is
cut into tokens by one pass, and the first datum is the shortest run of tokens
whose parentheses balance.  `Datum` puts the datum together.  All three are
recursive functions on positions, so that they can be proved about.
`ReadsFirstDatum` and `ReadsNoFurther` compare the two; `MCViaReader` also
compares the grammar with the opposite direction: what `Datum` makes of the
tokens of a datum is written with those tokens (`DatumIsWritten`, over all data
of up to seven tokens).

### ViaPort: files

`ViaPort.tla` has streams, which are the C library's (external), and handles,
which are values: made by `file-open` or by `file-stdin` and `file-stdout`,
dropped by the program, deleted by the collector or by `via_free_vm`, which close
what is not a standard stream.  The program is left open: it calls any procedure
with any handle it still has.  `undefined` is set when a stream is used after it
was closed; the model stops there, for C says nothing about the rest.
`released`, a history variable, has the streams the program has closed itself.
A read may give any number of characters and a write may fail.

## The runs

| run | configuration | checks | result |
|---|---|---|---|
| frames | 6 frames | `TypeOK`, `StackAccounted`, `NestedPops`, `HandlerInstalled`, `ParentOlder`, `UncaughtEndsRun`, `HandlesOnce`, `HandlerChainsEnd`, `ReturnsToWaiting` | pass |
| frames_own_entry | the same | `OwnEntryOnTop` | violated |
| heap | heap of 2 slots growing to 3, stack array of 1 growing twice, 2 collections, 3 generations, fairness of the collector | `TypeOK`, `NothingLost`, `SlotsAccounted`, `ScanStopsAtTop`, `KeepsPromise`, `CollectionAdvances`, `CollectionEnds` | pass, 169,799 states |
| heap_wrap | 2 generations, 2 collections | `NothingLost` | violated |
| meaning | 1075 expressions | `TypeOK`, `AnswersAgree`, `StackBalanced` | pass, 220,644 states |
| loops | loops of 7 turns, malformed programs, throws across argument lists, continuations; then a second expression | `TailCallsFlat`, `StackIsOwned`, `RunsEnd`, `FollowsCallFrames` | pass, 34,269 states |
| or_loops | a loop in the last operand of `or` | `TailCallsFlat` | violated |
| null_args | a call with `()` among its operands | `AnswersAgree` | violated |
| assembler | eight sources, a block of one word, nine words of memory | `TypeOK`, `AssembledStays`, `LandsInCode`, `LabelStays` | pass |
| assembler_growth | the same | `AssembledIsThere` | violated |
| reader | files of up to 4 of 7 characters, and files of three parts; a buffer of 5 | `TypeOK`, `NestingAgrees`, `SourceIsRead`, `ReadsFirstDatum`, `ReadsNoFurther`, `ReaderAdvances`, `ReadEnds` | pass, 38,497 states |
| ports | files of 2 characters, 3 streams, 3 handles | `TypeOK`, `DefinedUnlessClosed`, `HeldIsOpen`, `NothingLeaks`, `EofAtEnd` | pass, 563,454 states |

**frames.** `StackAccounted` is the property that keeps `via_pop`, which checks
nothing, above the bottom of the stack: throws leave entries behind, but they
leave behind as many frames that owe a POP.  `NestedPops` adds whose entry it is,
for programs that neither throw nor resume; with a throw it does not hold, see
below.  `HandlesOnce` says that a throw inside a handler goes further out.
`ReturnsToWaiting` is what `via_run`'s rule for the program counter relies on: a
RETURN to a frame that is not waiting behind a SNAP would go on one instruction
after where that frame stopped.
A run may end for good in this model, when the bound is reached or a host
makes no further call: deadlock is not checked.

**heap.** Three slots are enough for a garbage value between two live ones, for
a cycle with a third value outside, and for the array to double; two collections
for a value to survive one, die in the next, and its slot to be taken again.
The stack array grows from one entry to two and to four, so that entries above
its top are stale or uninitialised.  `FewPointers` keeps the graphs to two
pointers between values and stack entries together, or to three stack entries.

`CollectionEnds` assumes weak fairness of `Mark` and `Sweep`: a collection is one
call of `via_garbage_collect`, which nothing interrupts.  `CollectionAdvances`
is the other half of the argument, and needs no fairness: what is left of a
collection gets less with every step.

**meaning.** The expressions are all those of two levels over `1`, `0` and an
unbound variable with `begin`, `or`, `+`, a lambda applied in place, `if`,
`throw`, `set!` and `list`; a `catch` around each of the first level, with five
handlers; the templates of `native.via` around some; those of
`src/tests/test_programs.c`; and some for scope, missing and extra arguments and
malformed forms.  Each is run alone on a fresh machine.  What is compared is the
whole path: the argument loop, the form expansion, closures, catches and
templates, instruction by instruction.

**loops.** A loop in each tail position the routines provide; eight
turns exceed the bound of `TailCallsFlat`, the nesting of the program's text,
if any turn leaves a frame behind.  `RunsEnd` is a liveness property: no
instruction gets stuck and no run goes round for ever.  Weak fairness of
`Opcodes \/ Builtins` is what the `goto` at the end of `via_run` gives: as long
as an instruction can be executed, it is.  `FollowsCallFrames` is checked on the
same programs and on catches in argument lists, throws in handlers, and a
continuation kept and evaluated in the middle of another list.  After each the
host runs one of two more expressions on the same machine: a throw out of a list
of arguments, which adds to what earlier throws have left on the data stack, and
an evaluation of whatever `f` is by then, a frame of the first run among others.
`TailCallsFlat` speaks of the first expression only, for the second one starts
with those entries.  Runs may end for good here too.

**assembler.** The sources define and redefine labels, public and private, one
of them twice in the same source, call each other in both orders and fail for
each reason there is.  From one word the block doubles up to four times, once by
two doublings at a time, and memory has room for four or more programs.
`LandsInCode` speaks of sources in which every label stands before an
instruction (`LabelsPrecede`, which TLC evaluates): the assembler accepts others.

**reader.** The alphabet has a parenthesis of each kind, a letter, a digit, a
quote, a semicolon and the end of a line.  The longer files put together what
four characters are too few for: lists over several lines and in one another,
booleans, strings with a parenthesis, comments with one, lines longer than the
buffer.  Weak fairness of `Next` says that a sequential program that has
something to do goes on.

**ports.** Three handles are enough for two on the same standard stream and one
on a file, or for a file to be opened again after it was closed; two characters
for a file to have a middle.  The view leaves out what the last call has thrown,
which nothing depends on.

Mutants: each property of a passing run was seen to fail on a mutant of the
model, a plausible slip in the code (`PROJECT.json`, `mutants`; the mutated
forms are beside the definitions they replace).

### What the code does differently from what is said of it

1. *Entries of abandoned frames* (frames_own_entry).  A throw out of an argument
   leaves the saved `!expr` of each abandoned frame on the data stack, and the
   next frame at `@arg-eval-done` pops that instead of its own.
   `(+ (catch (+ 1 (throw e)) 5) 2)` then loses its last argument.  TLC's trace is
   this program's: frame 1 waits for the argument that frame 3 evaluates, 3
   catches and waits for frame 5, 5 throws, and the handler returns to 1 with 3's
   entry on top of 1's.  No held frame is resumed: `OwnEntryOnTop` leaves such
   programs out, in which it fails without a throw.
2. *The generation wraps* (heap_wrap).  `vm->generation` is a `uint8_t` that gets
   to 0, with which every value is born: in the 256th collection values made
   since the last one count as marked, and what only they point at is freed.
3. *`or` and `and` are not tail positions* (or_loops).
4. *`()` among operands* (null_args).  `skipz` looks at the first word of the
   rest of the operands, its `car`: from the first `()` on none is evaluated.
5. *Program memory does not grow* (assembler_growth).  `via_asm_reserve_prg`
   never stores the block that `realloc` returns.  Every `via_run_eval`
   assembles two more instructions, and a hundred runs get a machine there.

All five were also seen in the program built from this source.

### Met while modelling, without a run

No sentence of the repository says what should happen in these cases, or the case
is outside the models.  The models do what the code does.

* A continuation stands at the `callb` that made it.  Resumed, it makes another
  continuation or goes on to the routine behind its own, so that a program
  without a syntax error may end in `exc-syntax-error`.
* A continuation that is resumed returns to the frame it was made for a second
  time.  If that frame is done by then it stands at its RETURN, and the program
  counter moves on to whatever is assembled behind it.  TLC follows
  `(begin (symbol? (catch (begin (set! k2 (continuation)) (symbol? (catch
  (set! k1 (continuation)) (symbol? 1)))) (symbol? 1))) (eval k2) (eval k1) 1)`
  that way out of the last routine, to an address that holds no instruction.
  `ReturnsToWaiting` is false there, and so are `TypeOK` and the refinement: what
  is proved of the machine stops where a program first assumes a held frame.
  The runs resume none in this way.
* `via_run_eval` never sets the environment of the host's frame back: after a run
  that ended in a call the host's next `set!` binds in the environment of that
  call, and the call after it leaves the binding behind.
* `and` evaluates its first operand twice and its second never.
* The comment of `via_parse_whitespace` for `#` lines (`parse.c` 152–163) cannot
  be reached: `via_p_parse` always passes NULL for the file path.
* `examples/concat-names.via` calls its own `zip`, bound by `let`, which is not
  recursive: `zip` is undefined.
* A file that the program has closed is closed again by the collector or by
  `via_free_vm`.  The properties of ViaPort speak of the streams that a program
  has not closed itself.
* A seek on a pipe throws twice; `file-read` asks for one character more than it
  then requires; `ferror` is never cleared, so that after one failure every write
  throws; `file-stdout` looks for `file-stdin-object`.
* A line longer than the buffer comes in pieces, which may divide a symbol: the
  first piece is then taken for the datum.  `ReadsFirstDatum` compares what was
  read of such a file, not the whole of it.
* What follows the datum on its last line is thrown away.
* `letrec` sets its variables in the current environment; `for-each` evaluates
  its list twice, and its result once more; `cond` takes its tests through
  `eval`, and with a single clause fails; `let` without definitions throws; a `let` body of several expressions is
  called as a form; `reduce` throws for the undefined `r-proc`.

## The proofs

Eight modules hold the theorems, each for every value of the constants that the
assumptions of its model allow.

| module | about | theorems |
|---|---|---|
| `CallFramesProofs` | CallFrames | `TypeCorrect`, `ParentsOlder`, `UncaughtEnds`, `ThrowsAreHandled`, `StackIsAccounted`, `NoUnderflow`, `PlainProgramsNest` |
| `HandlerProofs` | CallFrames | `HandledOnce`, `ReturnsWhereAwaited`, `HandlerChainsAreFinite` |
| `ViaControlProofs` | ViaMachine and ViaControl | `MachineTyped`, `MachineStackIsOwned`, `MachineBalanced`, `MachineFollows`, `MachineImplements`, `MachineKeepsFrames` |
| `ViaHeapProofs` | ViaHeap | `TypeCorrect`, `SlotsStayAccounted`, `ScanStops`, `NothingIsLost`, `CollectionsAdvance` |
| `CollectorProofs` | ViaHeap and Collector | `CollectorKeepsPromise` |
| `ViaAssemblerProofs` | ViaAssembler | `TypeCorrect`, `LabelsStay`, `StaysAssembled`, `JumpsLandInCode` |
| `ViaPortProofs` | ViaPort | `TypeCorrect`, `ClosedOnce`, `HandlesWork`, `StreamsAreClosed`, `EndMeansEnd` |
| `ViaReaderProofs` | ViaReader and ViaGrammar | `TypeCorrect`, `ParensPair`, `TextIsRead`, `ReadsTheFirstDatum`, `ReadsNoMore`, `ReadsAdvance` |

**CallFrames.**  `TypeCorrect` is the base.  `ParentsOlder` is inductive with the
type invariant: every frame is made with the current one, or that one's parent,
for its parent.  `UncaughtEnds` needs to know that frames in `default` are
frames that have been made, for a new frame would otherwise inherit.
`ThrowsAreHandled` strengthens "the current frame has a handler" to every frame
that a run can get to, held ones and parents included.  `StackIsAccounted`
counts: the cardinality of the waiting frames changes by one with each push and
pop, and `NoUnderflow` follows.  `PlainProgramsNest` needs the most: without a
throw the stack, from the top, is the list of waiting frames along the chain of
parents, in order.

**Handlers.**  A handler is made after the frame it is for, so that frame numbers
do not show that handlers form no cycle.  What does is a ranking of the frames in
which every frame is above its parent and its handler.  A frame that SNAP or
`continuation` makes goes on top; a handler that `via_catch` installs goes right
below the frame it is installed for, and what was there moves up.  With a ranking
in the invariant, `HandlerChainsAreFinite` follows by unfolding `HandlerChain`.
`HandledOnce` needs a set of frames that no throw has entered, that has the
current one's handler in it and is closed under parents and handlers; a throw
keeps those that rank no higher than the handler entered.
`ReturnsWhereAwaited` has a set of the same kind, of frames whose parents wait:
RETURN leads to the parent, a throw to the handler, which has a parent of the
set for its own, and in each case what ranks above is left behind.

**ViaControl.**  The largest proof, of the machine that executes the routines,
for any set of programs, number of frames and number of runs.  Its inductive
invariant is `ControlInv`, whose parts are:

* `MachineSound`, about registers, accumulator and stacks.  The hard part is to
  know what kind of value is where: CAR, CDR and most builtins take a value
  apart without a look at its type, and `eval-proc` puts builtins, frames and data through the same
  two registers.  `Good(v, n)` says of a value that it belongs to a set closed
  under its parts in which no builtin occurs but as the body of a procedure, and
  no procedure of an environment that does not exist.  A set and not a recursive
  predicate, so that no induction over values is needed: what a builtin makes is
  added to the set.  `ExprPlain` and `AccAny` of ViaLayout say at which addresses
  the expr register and the accumulator hold such values, `Tested` that the
  accumulator still says what was tested.
* `StackSound`: the data stack is one longer than the list of owners exactly at
  the addresses in `Pushed`.
* `DefaultSound`: the frames of the default handler execute nothing but
  `HandlerPath`; without it CallFrames, which gives them no steps, would not be
  followed.
* the invariants of CallFrames, taken over from `CallFramesProofs` and
  `HandlerProofs` through the refinement mapping.  They are needed and not just
  kept: that the frame to which RETURN goes waits at the end of a SNAP
  (`WaitLayer`) is why the program counter that then moves on is an address of
  the routines, and that the stack lists the waiting frames in order
  (`NestLayer`) is why it is empty when a run has thrown nothing.

There is one lemma per action, or per group of actions that differ in one
register, each of which shows that the step keeps `MachineSound` and is a step
of CallFrames or none (`Follows`); the latter gives CallFrames' invariants in
the next state.  `MachineFollows` is the refinement step by step, and
`MachineImplements` the same of a whole behaviour; `MachineKeepsFrames` brings
the theorems about CallFrames down to the machine.  All of them stop at the first
`assume-proc` (`resumed`), for the reason given above: past it the machine may
leave its routines.
The lists and templates the builtins go through are bounded recursive functions,
of which nothing more is proved than that what they build is made of what they
were given (`GoodTails`, `GoodReversed`, `GoodBindings`, `GoodExpanded`), by
counting up to the bound.

**ViaHeap.**  `TypeCorrect`, `SlotsStayAccounted` and `ScanStops` are inductive
together with what they say of each other.  `NothingIsLost` is the theorem the
collector is for.  Its inductive invariant is the tricolour invariant: while
marking, what a marked value points at is marked or still in `gray`, and so are
the roots; when `gray` is empty the marked values are closed under pointers and
contain the roots, so they contain what is reachable; while sweeping, only
values that are not of the generation are freed.  The assumption
`MaxCollections < GenMod` says that the generation has not come round; heap_wrap
shows what happens without it.  `CollectionsAdvance` gives the recursion of
`via_mark` and the loop of `via_sweep` a variant: the set of values without the
current generation, then `gray`, get smaller, then the sweep gets nearer to the
end of the array, which `SweepInside` says it is not beyond.
`CollectorKeepsPromise` is the refinement, step
by step: it adds that whatever is marked is reachable, so that the step that ends
the marking dooms exactly what is not, and is the atomic `Collect`.

**ViaAssembler.**  The search for a label is a `CHOOSE` of the first entry;
that there is one follows from the well-ordering of the naturals, and that
appending changes nothing (`FindAppended`) is all `LabelsStay` needs.
`StaysAssembled` is inductive once every program is known to lie below the
cursor.  `JumpsLandInCode` needs that all labels of the table lead to code, which
is why it matters that a failed assembly adds none.

**ViaPort.**  One inductive invariant: standard streams are open, a stream that is
not standard has one handle, and the stream of a live handle is open unless the
program has closed it.  That the collector closes a stream once is the second
part, that it closes none in use the third.

**ViaReader.**  Positions stay within the text because every function of the
parser stops at its end; the parents and the depth change together or the mode
rules out that either is looked at.

**ViaReader and ViaGrammar.**  `ReadsTheFirstDatum` says that the reader, which
parses the whole text again after every line, answers what the grammar says the
file starts with, or, if a line does not fit in the buffer, what the text read
so far starts with, and `ReadsNoMore` that it stops at the first line that
completes it.  They share the inductive invariant `DatumInv`:

* `Parsed`: what the parser has built comes from the tokens before its cursor.
  Within a list (`InDatum`) none of the places where they end is an end of the
  datum, there is one parent for each list they leave open, and `program` and
  `parents` are what `Building` has put together of them.  Once a datum is found (`FoundDatum`) it
  is made of the first tokens that end one.  Both are said of the text up to the
  cursor, where no atom, string or comment is pending.
* `LinesRead`: no text that ended at an earlier line held a whole datum.  Without
  it nothing could be said of the lines that came before the one that was parsed
  last, for the parser forgets them.

An invariant of the cursor alone is not inductive: a step of the parser goes over
a run of blanks, a comment or an atom at once, and `Lexing` goes over it
character by character.  The lemmas on blanks, runs and tokens
(`BlanksSkipped`, `ValueLexed`, `NothingLexed`, `ParenthesisLexed`) show that the
two meet again behind it; each is a count over the positions of one text, with
the state of `Lexing` as what is counted along.  `LexingGrows` says that what has been cut is never
taken back, which is why a datum found in the lines read so far is the first
datum of the file (`FirstDatumStays`), and why a file of which one says that its
lines fit may be compared with the whole of it and not just with what was read.
`BalanceRule`, `EndsRule` and `BuiltRule` give what one more token changes, and
there is one lemma for each kind of step (`ValueTaken`, `OparenTaken`,
`CparenTaken`, `NothingTaken`).  What a datum is, is not looked into: two
computations that put the same parts together in the same order end with the same
term, so that no induction over data is needed.

`ReadsAdvance` is the variant of the reader: with each step either more of the file
has been read, or `Left` is less, which counts what the parser can still do with
the text it has.  Blanks, values and parentheses move the cursor forwards, and
without them only the way out of the lists is left.

**Only model-checked.**  `AnswersAgree`, the correctness of the evaluator, which
is an induction over expressions, and `TailCallsFlat`, which is true of the runs'
programs and compares with the nesting of their text; `DatumIsWritten`, an
induction over data; what the machine does after a held frame has been assumed; and
the liveness properties, `CollectionEnds`, `RunsEnd` and `ReadEnds`, which are
out of the prover's reach: of the first and the last it is proved that nothing
can go on for ever, and left to TLC that there is always a step to take.

## Not modelled

* Allocation failure, and the depth of the C stack.
* Opcodes in no routine: NOP, DROP, POPARG, DEBUG.
* Floats; building and printing strings; the message and the frame of an
  exception; `debug` and `backtrace`.
* In the parser: escapes in strings, signs, fractions and bases of numbers.  The
  character level of the assembler.
* In the ports: files opened for update, and the checks of argument types.
* In `native.via`: `reduce`, `include-file`, the closures around ports, the
  read-eval-print loop.
* Re-entrant runs (a bound function that calls `via_run_eval`) and hosts that
  push, set registers or collect between runs.
* `via-cpp` and `standalone.c`, which are wrappers without a state of their own.

## Plan

Done, in the order of importance to the language: CallFrames with proofs; ViaHeap
with Collector and proofs; ViaMicrocode, ViaMachine and ViaMeaning; ViaAssembler
with proofs; templates and the bundled library; ViaReader and ViaPort with
proofs; the refinement of CallFrames by ViaMachine, with its proof.

What would come next:

1. The life cycle of the machine: creation that fails half-way, a second machine
   beside the first, against the static addresses.
2. ViaReader over ViaPort: the handle of the file that is read, closed or dropped
   by the program in between.
3. Floats, whose bits SKIPZ reads as an integer.
