# biff in TLA+

biff is a language that compiles to brainfuck. `biffc` parses a program and writes a
line-based IR, `ircompile` turns each IR line into a brainfuck gadget, `bfopt` merges
movements of the pointer, and an interpreter runs the result. There is no run-time system: no
stack, no heap, no calls. Everything a running program relies on - which cell holds what,
which cells are zero, that inlining ends - is decided once, by the compiler, and a mistake
shows up far away, as a wrong number in some cell of some program. That is what this project
specifies, model-checks and proves.

## The system

### Components, their state and their operations

| component | code | state | operations |
|---|---|---|---|
| scopes and variables | `compiler.cpp/.h` (`Compiler`, `Scope`) | stack of scopes, each with variables and `next_free` | `add_scope`, `remove_scope`, `get_var`, `set_var`, `set_next_free` |
| call stack, function table | `compiler.cpp/.h` | stack of `ActiveCall` (scope barrier, return cell), map of functions | `begin_call`, `end_call`, `current_call`, `add_function` |
| expressions | `codegen.cpp` `eval`, `eval_unary`, `eval_var_expr` | none of its own: the locals of the C++ recursion | one case per expression class |
| statements | `codegen.cpp` `*::generate` | the same | one method per statement class |
| inlining | `codegen.cpp` `generate_call` | the same | binds arguments, compiles the body, wipes the frame |
| types | `types.cpp/.h` (with `Compiler::m_type_pool`) | a map of types by name | `add_type`, `get_type`, sizes and field offsets |
| IR gadgets | `ir.cpp/.h` (`IRFileWriter`) | the output stream, a virtual base | one method per IR instruction |
| IR line compiler, macros | `ircompile.cpp` | macro table, macro being defined, expansion stack | one handler per IR word |
| optimizer | `bfopt.cpp` | the net movement not yet written | one pass over the characters |
| interpreter | `interpreter.cpp` | tape, pointer, program counter | one case per character |
| lexer, parser, AST | `lexer`, `parser`, `ast` | read position | recursive descent |
| main, errors | `biffc.cpp`, `compexcept` | - | parse, then generate statement by statement |

How they interact: the statement generators call `eval`, which calls itself and, for a call in an
expression, `generate_call`, which calls the statement generators for the body. All of them
read and write the one `Compiler`; a generator keeps a `Scope&`, an `ActiveCall*` or a
`next_free` it read earlier in its locals across such a nested call. Each writes IR text
whose operands are absolute cell numbers; `ircompile` calls one `IRFileWriter` method per line.
Between the two there is a contract that no program text states in full: each instruction
is given a `dump` (or a `flag`) and takes a certain number of cells from there up to be zero.

### What is hard

Nothing here runs concurrently and nothing is persisted. What is hard is of another kind:

* **re-entrance** - locals read before a nested evaluation and used after it, while
  the nested evaluation may inline functions that push and pop scopes and calls;
* **ownership of cells** - the allocator is a single number, raised and lowered by every
  generator by its own convention; a cell given back one step too early becomes the scratch of
  the next operator, or somebody's variable;
* **the zero invariant** - "Cells at next_free and above are zero" (codegen.cpp:255) is
  maintained by cleaning up in dozens of places, and code is generated once but *run* any
  number of times when it is in a loop;
* **termination** - compiling a call compiles a body, so recursion must be noticed across
  functions and across arguments;
* **widths** - constants are computed in `size_t`, cells count modulo 256, operands of the IR
  are cut down to a byte or not, depending on the instruction;
* **re-entrance again** - `ircompile` expands a macro by feeding its lines to the function that is
  dealing with the line that uses it, through the same members;
* **loops that must end** - the parser's loops stop at a token that may never come, a gadget's
  loops at a cell its own text changes.

The full list is under `hazards` in `PROJECT.json`, each at its line, with the properties
that would catch it or the reason why none does.

### What makes each component correct

* scopes: no two live variables have a common cell; a scope that ends does not make the cells it
  used available; a body sees its parameters and locals only.
* call stack: scopes, calls and the C++ recursion unwind together; no function is inlined
  inside itself.
* expressions: an intermediate value has one owner until it is consumed; evaluation changes no
  variable; every temporary is reclaimed by the statement that asked for the value.
* inlining: the frame is wiped down to the return value, and next_free goes back.
* IR and machine: every instruction finds its scratch at zero.
* types: the fields of a struct and the elements of an array lie inside what is reserved for them.
* IR compiler: a macro expands finitely, and a file means what its text with the uses replaced means.
* gadgets, optimizer, interpreter: the characters have the effect that ir.h promises for the instruction.
* parser: expressions are grouped by precedence, brackets match (braces but for those the end of the stream
  leaves open, and one too many), and it always ends.
* the whole: a program does on the tape what its text says.

## The modules

| module | models | extends |
|---|---|---|
| `IrTape` | the IR instructions, as what each may change and what it takes to be zero | - |
| `Types` | the types: sizes, and the offsets of struct fields | - |
| `Codegen` | the code generator: `codegen.cpp` over `compiler.cpp` | `IrTape`, `Types` |
| `CodegenProperties` | its type invariant, invariants and action properties | `Codegen` |
| `IrEffect` | what one IR instruction does to a tape, as `ir.h` promises | `IrTape` |
| `IrMachine` | compile a program and run its IR on a tape | `Codegen`, `IrEffect` |
| `Meaning` | the same program evaluated directly, next to the machine | `IrMachine` |
| `IrGadgets` | the brainfuck text of each instruction: `ir.cpp`, `compile_line` | `IrTape` |
| `IrRun` | abstract: a program as a sequence of IR instructions with their effects | `IrEffect` |
| `Backend` | `bfopt` and the interpreter on that text; implements `IrRun` | `IrGadgets` |
| `IrFile` | abstract: what an IR file with macros means | - |
| `IrCompile` | the macro expander of `ircompile`; implements `IrFile` | - |
| `Parser` | `parser.cpp` over a stream of token types | - |
| `MCCodegen`, `MCIrMachine`, `MCMeaning`, `MCBackend` | constants for TLC | the module named |
| `CodegenProofs` | proofs: types, nesting, no recursion | `CodegenProperties` |
| `OwnershipProofs` | proofs: who owns which cell | `CodegenProofs` |
| `ZeroProofs` | proofs: which cells are zero, what calls give back | `OwnershipProofs` |
| `WriteProofs` | proofs: which cells the code of a step changes | `ZeroProofs` |
| `Induction` | proofs: induction over the numbers, functions defined by recursion | - |
| `IrCompileProofs` | proofs: the macro expander, and that it implements `IrFile` | `IrCompile`, `Induction` |
| `MachineProofs` | proofs: what the compiler takes to be zero is zero when the program runs | `IrMachine`, `WriteProofs` |
| `ParserProofs` | proofs: order of operations, brackets | `Parser`, `Induction` |

How they compose, along the path of a program: `Parser` yields the grouping that `Codegen` chooses;
`Codegen` writes instructions of `IrTape`; `IrMachine` runs them by `IrEffect`; `Backend` shows that
the brainfuck does what `IrEffect` says, provided the scratch is zero, which is what
`ContractsHold` shows of the programs `Codegen` writes. `IrCompile` stands between the two and passes
instructions on.

### IrTape

One operator per `IRFileWriter` method that codegen's IR reaches. `out.dirty` is the set of cells
that may be nonzero when control *first* reaches the end of the code written so far: a `MOV` to zero
takes a cell out, everything else that writes a cell puts it in, and a block that may
be skipped joins both ways (`Close`). `out.unmet` collects the cells an instruction took to be
zero while they were dirty. The number of scratch cells of each gadget (`Scratch`, `Itoa`) is counted from the
brainfuck text in `ir.cpp`, not from the comments in `ir.h`: `DIV` and `MOD` work in six cells
from dump up where ir.h:124 speaks of four, and `ITOA` in ten where it speaks of eight.
Nothing goes wrong by that, because codegen.cpp passes a dump above which everything is free.

### Codegen

The generators are recursive C++ functions over a syntax tree. The tree is not an input: wherever
a generator looks at its next statement or expression, an action chooses it. The
behaviours are the compilations of *all* programs, within the bounds.

| variable | code |
|---|---|
| `scopes` | `Compiler::m_scope_stack`; `next` is `Scope::m_next_free` |
| `calls` | `Compiler::m_call_stack` |
| `funs` | `Compiler::functions`: whether defined, result, parameters |
| `acts` | the C++ stack: one record for each generator that waits for another one, with the locals it will use (`mark` is the `snapshot`, `dest` or `slot` it read) |
| `mode`, `res` | what happens next: a statement, an expression, an argument, or a value `res` has just been returned |
| `out` | the IR written |

A generator is cut into actions exactly where it calls another one: `Set` evaluates the
right-hand side, `SetValue` is everything after. What follows a nested call in the code (clearing a
temp, setting `next_free` back) is in the same action. `throw CompilerException` is `Reject`; the
conditions under which a program is refused for what it *names* (an unknown variable, a wrong
number of arguments) need no data here and are gathered in `Illegal`, the ones that depend on the
compiler's state are where the code has them (`ArraySize`, `EndCallInExpr`, `EndCallStmt`,
`FoldConstants`).

Three abstractions to know of. A function's body is chosen anew each time the function is inlined, so that
two calls of `f` are calls of two functions with one signature; since a body is compiled from its
AST with no memory of earlier inlinings, every compilation of a real program is still a behaviour.
An array access stays inside its array: the language has no bounds checks, and what a program does to
itself beyond them is not examined. The struct types are constants, built by `Types!StructOf` field
by field as `StructType::add_field` does, nested structs included.

### IrEffect, IrMachine

`Effect` is the meaning of an instruction on a tape of cells modulo `Byte`, once for `IrMachine` and
`IrRun`. In `IrMachine` a step of `Codegen` is followed by the run of the code it wrote (a block
waits until it is closed), and code that has run is forgotten. As running does not influence compiling,
this is the same run as one after the compilation, but the state does not hold the program, so that programs have no
longest length. An instruction whose scratch is not zero stops the run (`Stopped`). So does what
leaves the machine (`Derails`): a division by a zero cell, after which the gadget's pointer is
three or six cells to the left of where the next instruction takes it to be, and an array access when
the array's first cell is not zero.

### Meaning

Every action of `Codegen` is paired with what it means: `meant` has the values that the *program* gives its
variables, `worth` and `owed` those of the intermediate results, `typed` and `shown` the input and
output. `ValuesRight` compares them with the tape after every piece of code. Names are resolved by
`Codegen`; that the resolution respects the frame barrier is `CallsIsolated`, not `ValuesRight`.
A variable as left operand stands for itself until its operator is applied, as the code has it, so
what `a + bump(a)` should be is not judged: nothing in the repository says in which order operands
are read. Constants are computed in `size_t` up to the operator that looks at more than their last byte, as the code does too.

### IrGadgets, IrRun, Backend

`IrGadgets` is the text of `ir.cpp`, one operator per gadget, in tokens: a run of `+` or `-`, a
movement, any other character. The literal strings in the code are there as strings. The `_const` method of an
operator differs from the other in how its operand is put into place, which is `Plussed` and `Minussed`;
operands pass through `parse_addr` or `parse_byte`. `Backend` loads the text as `bfopt` leaves it,
each run of movements one movement (`Net`), with the partners of its brackets, and runs it as `run_bf` does. Its refinement of `IrRun` maps each
run of characters to the instruction they come from: the tape may only be seen to change when an
instruction's last character has run, all its scratch is zero again, and each instruction ends.

### IrCompile, IrFile

One step of `IrCompile` is one call of `feed`; `stack` has the calls of `expand` in progress with their copies
of the body. Of a line only what the expander looks at is kept. An exception leaves `active_` as it is,
and `main` exits. `IrFile` is the declarative reading: a use is replaced by the text of its macro,
which is the definitions' at that moment (bodies are collected unseen, so that uses bind late), and is refused if what
it leads to is undefined, leads to itself or has a line that is refused. What a label leads to (`Closure`) is what is in every set
of labels that is closed under use; the text of a macro (`Texts`) is given for uses nested less than n deep, and n is
the number of labels, below which no expandable macro goes. Things one may not
expect and both say: a second definition replaces the first; `end` outside a definition is an unknown
instruction; a definition cannot begin inside an expansion, since `def` in a body was refused
when it was read.

### Parser

`todo` is what the C++ calls in progress have yet to do, tokens to expect and functions to call; a
call is replaced by its body, up to the point where it looks at a token. The token vector is not
given: a token is chosen when the parser first looks at it, so that all streams of any length are
covered in finitely many states. Of the tree, `val` keeps the outermost operator of the last
expression. A throw at the end of the stream reads the line number of a token past the vector, and
may therefore also be a crash. Accepted by the code and by the model: a trailing comma in arguments and parameters,
`let x[1] = 2;` (an element store), a missing `}` at the end, and anything at all after a stray `}`.

## What the runs check

Passing runs. No definition is replaced and none switches the deadlock check off: what is
done, rejected or at a bound stutters by an action of its own.

| run | cfg | what it explores | properties | states |
|---|---|---|---|---|
| `expr` | `CodegenExpr` | one variable; four operators, by the scratch they need, nested; array creation, reads and stores; `print_val` | `TypeOK`, `ScratchZero`, `TempsOwned`, `StatementsReclaim`, `HeldUntouched`, `ExpressionsReadOnly` | 1.06 M |
| `call` | `CodegenCall` | two functions with and without result, called as statements, operands and arguments | `ZeroInvariant`, `TempsOwned`, `ReferencesCurrent`, `Nesting`, `NoRecursion`, `CallsReclaim`, `HeldUntouched` | 0.93 M |
| `block` | `CodegenBlock` | loops and ifs in each other with shadowing, strings, structs, prints | `ZeroInvariant`, `ScratchZero`, `VariablesDisjoint`, `HeldUntouched` | 1.32 M |
| `machine` | `MeaningData` | compiled, run and evaluated: arithmetic, ifs, prints, input, an array, nested structs | `MachineTypeOK`, `ContractsHold`, `DirtySound`, `ValuesRight`, `PrintsRight` | 1.27 M |
| `machine_call` | `MeaningCall` | the same with two functions of one and two parameters, bound by value or by reference, in each other and in arguments | `ContractsHold`, `ValuesRight`, `VariablesDisjoint`, `CallsIsolated` | 0.38 M |
| `backend` | `Backend` | every instruction and nested blocks, as brainfuck, optimized and interpreted | `TypeOK`, `PointerHeld`, `MeansIR` | 0.21 M |
| `macro` | `Macros` | all IR files over two labels | `TypeOK`, `ActiveIsStack`, `ExpansionDefinesNothing`, `StackSuffices`, `EveryLineEnds`, `MeansFile` | 0.26 M |
| `parser` | `Parser` | all token streams | `TypeOK`, `OrderOfOperations`, `BracketsMatch`, `Progress` | 1.14 M |

`ZeroInvariant`, `ScratchZero` and `TempsOwned` are the heart of the code generator: no dirty cell at or above
`next_free`, no instruction that works in a dirty cell, and one owner for each intermediate value.
`HeldUntouched` says the dynamic side of the last: while a left operand, an index, an if flag or a loop counter
waits in its cell, nothing that is written meanwhile - other operands, inlined bodies, nested
blocks - changes the cell. (One statement can: `print_str` of a variable that is no string, which README.md:180 warns
of and both this property and `CallsIsolated` exclude.) `CallsIsolated` and `CallsReclaim` are the README's promises about functions.
`DirtySound` ties the abstraction to the tape: a cell that is nonzero at the end of a run is one
`Codegen` takes to be dirty. `ValuesRight` and `PrintsRight` are end to end: what the program
computes is what its text says.

Two properties are refinements. `MeansIR` is `IR!Spec` for the instance of `IrRun` in
`Backend`, `MeansFile` is `File!Spec` for that of `IrFile` in `IrCompile`. The first includes liveness:
an instruction of `IrRun` is fair, so a gadget that never ends is a violation. `EveryLineEnds` and
`Progress` are liveness properties in their own right: no line keeps the expander busy forever, no
token stream keeps a loop of the parser going without consuming.

The action properties look at the code a step appends, which needs `KeepCode`; no step
depends on the code already written, so the `Codegen` runs use `VIEW StateView`, which leaves it out of the
fingerprint. Both views also identify compilations that have ended. `SYMMETRY FunSymmetry` exchanges
the two functions, which differ in name only and have no property that names one; no liveness is
checked with a symmetry or a view.

### Runs that find a violation

| run | property | what the program does |
|---|---|---|
| `machine_loop` | `ContractsHold` | `loop (x) { print_val(2); let y = 2; }` prints 2, then 4: the body is generated once, and in its second iteration the cell of `y` is nonzero while `print_val` takes it to be zero (codegen.cpp:255) |
| `string_cells` | `TypedCellsDisjoint` | after `let s = "a"; let y = 7;`, `s[2] = 9` changes `y`: a string has one cell fewer than its type says (codegen.cpp:797) |
| `booleans` | `ValuesRight` | README.md:71 has `||` and `&&` evaluate to 1 or 0; on the tape the first adds and the second gives its right operand: 2 with 2 gives 4 and 2, and 128 `||` 128 is false |
| `ra_const_dest` | `MeansIR` | `RA_CONST` into cell 300 writes cell 44: `compile_line` reads the destination as a byte (ircompile.cpp:261, ir.h:156-159) |

Because of the first, `ZeroInvariant` and `ScratchZero` are claims about the *first* time control reaches a
point, which is also how `out.dirty` is defined, and the machine runs have no loops. Because of the
third, their operators are `-` and `<`.

Four more places where code and comments part have no run: `print_val` of a
temporary never gives its cell back (codegen.cpp:740, against codegen.h:37, which is why `StatementsReclaim` leaves
`print_val` out); `DIV` and `MOD` need six zero cells where ir.h:124 asks for four, and `ITOA` ten where ir.h:139 asks for
eight (with 1 in the fifth cell `0 / 1` changes that cell, and printing a number clears the ninth; `MeansIR` gives each
what its text needs); and an array's name may be assigned like an Integer, which writes the first of its header cells and moves its accesses (codegen.cpp:573, ir.h:148).

### Bounds

| constant | bounds | why the value is enough |
|---|---|---|
| `MaxCells` | nothing new starts once `next_free` is there; what has started is finished above it | 4 to 8: two variables and a chain of temporaries, or a frame with argument, local and return cell inside another, or an array of one element and three cells above it |
| `MaxDepth` | pending generators | 3: a block in a block in a statement; 4: an operand in an operand in an index in a store; 5: a call in an argument of a call in a return |
| `MaxArray` | elements of an array; a longer one ends the behaviour in mode `"bound"` | 1: every address is base + 4 + index, and the header is always there |
| `MaxCode` | unrun instructions (`IrMachine` only; out of reach elsewhere) | tested when a statement or operand *starts*. Outside a block code is run as soon as it is written, so the bound is on the length of an if body alone |
| `Separate` (constraint) | cells from 5 up are for arrays and strings and what comes after them; in `machine`, an if is examined where there is no array | an if changes nothing of how cells are laid out, an array nothing of how blocks are joined |
| `Word` | `size_t` modulo | 15 or 16, above every cell number and a multiple of `Byte` |
| `Byte` | cells modulo | 2 to 4: wraps within one addition. In `backend` 4, 8 for array indices, 256 for decimal output |
| `TapeSize` | the tape's last cell | 20: above every scratch cell a program within `MaxCells` can name; `PointerHeld` fails if a gadget goes further |
| `Tapes`, `Elements` (`MCBackend`) | the starting tapes: every value of the operand cells and of one cell that is nobody's | each operator with a second cell, a constant and its own cell as right operand; each element access with a cell, a constant, and a cell that is index and destination |
| `MaxBody`, `MaxWritten`, `Labels` | lines of a macro, instructions after which no line is read, macros | 2, 1, 2: a macro with a use and something after it, mutual recursion, redefinition between uses |
| `StackLimit` | nested expansions the C++ stack has room for | one more than there are labels, so that unnoticed recursion reaches it |
| `MaxBlocks`, `MaxNesting` | braces open; other brackets open and pending `!` | 2 and 1: a block in a block; the parser has no memory of depth but its call stack |

Values are few because nothing but zero or nonzero, order and wrap-around is told apart. One or two
names suffice for shadowing and aliasing, since a name may be declared again in each scope.

### Fairness

The programs are sequential and nothing can hold them up, so where liveness is claimed it is under weak
fairness of the program's own step: `WF_vars(Next)` in `Parser` and `Backend` (a run goes on
until it stops), and in `IrCompile` of the steps of `feed` and `expand` only, not of reading a further line:
a file may end. `IrRun` assumes it of its instructions, which `Backend` has to
implement. For `Codegen` none is assumed and no liveness is claimed: that compilation ends is
the finiteness of the tree plus `NoRecursion`, which is a safety property here, and since the
tree is chosen step by step, termination of the model would only speak of the bounds.

## What is proved

The theorems hold for every value of the constants that satisfies the assumptions (`KeepCodeAssumption`,
`BoundsAssumption`, `LiteralsAssumption`, `StructsAssumption`, `SignaturesAssumption` for `Codegen`; `LabelsAssumption` and
`LimitAssumption` for `IrCompile`; `TokensAssumption` for `Parser`; TLC evaluates them on the runs).

`CodegenProofs`:

* `TypeCorrect == Spec => []TypeOK`
* `NestingKept == Spec => []Nesting`
* `InliningNeverRecurs == Spec => []NoRecursion`
* `Invariant == Spec => []IInv`, from which the three follow.

`IInv == Types /\ Nested /\ ModeShape /\ NoRecursion`. None of its parts is inductive alone.
`TypeOK` indexes `scopes` with the scope a suspended generator holds, so that a value returned to
it has a type only if that scope still exists: this is `ScopesNest`. That in turn depends on which
generators may be on top in which mode (`ModeShape`, `StackShape`) and on a body ending exactly
when its call is the innermost (`CallsNest`). `NoRecursion` looks at calls in progress, but the
name is checked when the *arguments* begin, and arguments may inline other functions before
the call begins: `CalleesNew` carries the check from one to the other - the calls in progress
outside a pending call are those that were there when its name was checked.

The argument: `InitInvariant`; for each action a lemma on types and one on nesting, the latter by
way of `ScopesNestStep`, `CallsNestStep` and the like, which say once what becomes of the
nesting when the stack keeps its first m activations and may get one more; `StepInvariant` combines
them by the disjuncts of `Next`. The bounds play no part but one: `MaxCells + MaxArray + 4 < Word` makes
the addition in `ArraySize` not wrap around, which in the code is what 64 bits do.

`IrCompileProofs`:

* `ExpanderTypes == Spec => []TypeOK`
* `ActiveLabels == Spec => []ActiveIsStack`
* `ExpansionIsReadOnly == Spec => []ExpansionDefinesNothing`
* `RecursionIsBounded == Spec => []StackSuffices`

They rest on `InvHolds`, whose `Inv` joins the shapes of the variables (`Shapes`, among them that no
macro's body holds a `def` or an `end`), the labels on the stack being defined (`Expanded`),
`ActiveIsStack` and `ExpansionDefinesNothing`. The two last need each other: that `feed` may pop a label from
`active_` depends on the labels on the stack being different, and that a fed line does not open or extend a
definition depends on bodies holding no `def` and on `defining_` being off while there is a stack.
`RecursionIsBounded` is then counting: the labels of the stack are different and among finitely many.

* `ExpanderImplementsFile == Spec => MeansFile`, the refinement of `IrFile`.

The invariant it needs besides `Inv` is `Midway`, how far the use of a macro has come while its line is `busy`. `Waiting`: each
call of `expand` waits for the next one at the line that uses the next one's macro, and has got over the lines before, whose uses
were of expandable macros. `Begins`: there are marks that split what has been written since the line was read among the calls, the
outermost first, and what is between two marks is the text of the lines which that call has fed. With it each step maps:

* A step of `feed` or `expand` in the middle of an expansion is a stutter of `IrFile`, to which only what was written
  before the line is visible.
* The return of the outermost `expand` is `Use`: its single mark spans all lines of the body. That this is the macro's `Text`
  is `TextUnfolds`: an expandable macro's text is its lines with each use replaced by the text of what it uses. `Texts` stops at a
  depth, so the texts must have settled there (`TextsSettle`): what an expandable macro uses leads to strictly fewer labels than it
  does itself (`ExpandableSmaller`), so that a macro's text no longer changes once the depth is above the number of labels it leads to.
* A throw is `Refuse`: whatever calls are in progress, the label of each leads to the labels of those above it
  (`StackLeads`), so that the line thrown at, or the label used twice, makes the use on the *file's* line not expandable
  (`ThrownUse`). That the expander may have written part of it by then is what `Refuse` allows.

The texts are defined by recursion. `Induction` derives induction and definition by recursion from the well-foundedness of `<`, in a
form without operator parameters: the hypothesis is a set of numbers. The theorem is about safety: that each line
ends is `EveryLineEnds`, which stays with TLC.

`OwnershipProofs`:

* `VariablesApart == Spec => []VariablesDisjoint`
* `TempsApart == Spec => []TempsOwned`
* `ReferencesStay == Spec => []ReferencesCurrent`
* `StatementsReclaimed == Spec => StatementsReclaim`, an action property
* `OwnershipKept == Spec => []OInv`, from which they follow.

The tape is a stack as the activations are. Each activation has a *floor*, the first cell that it or anything
above it took, and a *ceiling*, the first one above what it had taken when it suspended itself (`Floor`, `Ceiling`).
`OInv == IInv /\ Owned /\ VariablesDisjoint /\ TempsOwned`, and `Owned` has seven parts, each needed by a step that
hands out or gives back cells:

* `Stacked`: floors rise with the stack, `next_free` is above all ceilings, and the variables declared before an activation
  began end below its floor. A step that resets `next_free` to a mark therefore gives back nothing of anybody below.
* `Keeps`: what an activation holds is below its ceiling, and only four kinds hold anything.
* `Bindings`: the arguments bound so far lie in the frame, apart, below the one being evaluated.
* `Returns`: nothing is compiled between a return and the end of its body, and the returned cell is in the frame.
* `Results`: a value in a temp is above what was taken before its evaluation began; without it the temp that
  `ElementRead` or `FoldOnTape` gives back could be somebody else's.
* `Exact`: an evaluation leaves nothing but its temp, and a new activation starts right at the ceiling of
  the expression that waits for it. That makes the cell a generator assumes to be free (`mark`) the first free one, and
  `StatementsReclaim` follows from it.
* `Small`: where an array begins, so that its end does not wrap around `size_t`.

One lemma, `Settled`, carries the argument: a step changes only what is above one floor b. The first m activations
stay and lie below b with their variables; the new activation, the fresh variables, the value returned and the cell a
return fills are at b or above (`Settles`). From it all of `OInv` follows, and each action needs only to exhibit its m and b.
The invariant was checked by TLC on the instances of `expr`, `call` and `block` before it was proved.

`ZeroProofs`:

* `ZeroKept == Fitting => (Spec => []ZeroInvariant)`
* `ScratchKept == Fitting => (Spec => []ScratchZero)`
* `CallsReclaimed == Fitting => (Spec => CallsReclaim)`, an action property
* `CleanKept == Fitting => (Spec => [](OInv /\ ZInv))`, from which they follow.

`Fitting` says of the program that no struct is empty, that a literal is in quotes (two of the token's characters are
not on the tape), and that it does not both have strings and assign to elements. The constants of `expr`, `call` and `block` satisfy
it; without it the invariant is false. A string's type has one cell more than is reserved (the violation `string_cells`),
so that an element store can dirty a cell nobody owns. A variable of an empty struct owns no cell and may stand
right at `next_free`; an assignment to it, which codegen.cpp:573 does not refuse, writes there.

`ZInv == Backings /\ Zeroed`:

* `Backings`: wherever a name, an argument bound by reference, an array access under way or a loop's counter points to, it is into
  cells that a variable declared further out owns. What a program writes by name is therefore owned, hence below `next_free`.
* `ValueClean`: of all that an evaluation has taken, its value alone is dirty.
* `Gap`, `Tidy`, `GapsFree`: a right operand is evaluated above its left one, and between the two lie cells that the
  left one has given back without `next_free` coming down. They are clean, and no variable owns one.
* `BlocksTidy`: what was dirty before a block began may be dirty after it, since a block may be skipped; so that set must be clean
  where the dirty set itself is.
* `ZeroInvariant` and `ScratchZero`.

One lemma, `Cleaned`, carries the step: if the dirty set a step leaves is clean above the floor b it resets to, and
below only grew by owned cells (`Cleans`), all of `Zeroed` follows. TLC checked `ZInv` on the instances of
`expr`, `call` and `block` before it was proved.

`WriteProofs`:

* `HeldKept == Fitting => (Spec => HeldUntouched)`
* `ReadOnlyKept == Spec => ExpressionsReadOnly`
* `IsolationKept == Filled => (Spec => CallsIsolated)`, where `Filled` says that no struct is empty

All three are action properties about the instructions that a step appends. `Wrote` follows an output through the
operators of `IrTape`; from it `StepWorks` says of each action that its code writes at or above the floor of the
top activation (`Beyond`), to what the program names (`Placed`), or to what the top activation refers to (`Refs`).
`Known` is the small invariant this needs: which kinds of values each kind of activation holds.

* `HeldKept`: cells held are below the floor; names and references lie in cells of variables (`Backings`), and those are
  apart from the cells held (`TempsOwned`).
* `ReadOnlyKept`: variables end below the floor (`Stacked`), and an expression writes to no name.
* `IsolationKept`: another invariant, `Confined`: the variables declared since a body began, what the activations above it
  refer to and the value it returns lie in the body's `Span`, which is its frame, all cells above, and the
  variables it was given by reference.

`MachineProofs`:

* `ContractsKept == Runnable => (MachineSpec /\ []Fits => []ContractsHold)`
* `DirtyKept == Runnable => (MachineSpec /\ []Fits => []DirtySound)`
* `MachineTyped == Runnable => (MachineSpec /\ []Fits => []MachineTypeOK)`
* `VariablesStayApart == MachineSpec => []VariablesDisjoint` and `IsolationStays == Filled => (MachineSpec => CallsIsolated)`,
  the theorems above for a compiler whose code is run and forgotten as it goes

`ZeroProofs` is about what the *compiler* believes to be zero; these say that it is right about the *run*. `Runnable` is `Fitting`, that the
code is kept, and that the program has no loops: with one `ContractsHold` is false, which is the violation `machine_loop`. `Fits` is a
condition on the run: the tape reaches as far as the next instruction does, and an index is one of an element of its array. The language
checks neither. A division by zero or an overwritten array header is not excluded: the run stops there (`Stopped`).

The compiler keeps one dirty set, that of the end of the code. The run may be anywhere before it, so `MInv` says that there is a *chart*
(`Chart`): at each instruction the cells that may be nonzero when it is about to run, such that

* an instruction that is not of a block takes every tape from what is charted before it to what is charted after it (`Sound`: one lemma for
  each instruction of `IrTape`, against `Effect`);
* at a block what is charted at its `[` is, but for the flag, also charted behind its `]`, since the block may be skipped;
* the scratch of each instruction that is charted to be nonzero is in `unmet`, which `ScratchZero` says is empty;
* what is charted at the end of the code is dirty.

What is nonzero on the tape is charted for the instruction about to run: `InstructionStays` for the run, and `StepCharted` for the compiler,
each of whose steps continues the chart (`Straight`) or opens or closes the block of an if. The latter is where the proof needs to know which
`[` a `]` will be the partner of. Partners are defined on the text, by counting; the compiler knows activations. `Doors` relates the
two: each open block has its `[` in the code, with as many blocks open there as there are block activations up to it, and nowhere since have
there been fewer. From this `DoorPartner` finds that the `]` belongs to the innermost block, whose `before` holds what was charted at its `[`.

`ParserProofs`:

* `TypeCorrect == Spec => []TypeOK`
* `OrderKept == Spec => []OrderOfOperations`
* `BracketsMatched == Spec => []BracketsMatch`
* `Invariant == Spec => []IInv`, from which they follow; `IInv == Types /\ Ordered /\ Bracketed`.

`OrderOfOperations` speaks of the item whose turn it is only. `Ordered` says of the whole of `todo` that each item
`Gives` an expression that binds at least as tight as the item behind it `Needs`: an operator's level is known when its
right operand is still four functions away. `BracketsMatch` says what is open, which calls are in progress where a statement begins,
and what may be open in an accepted program: no parenthesis or square bracket, but braces, if the stream ended in a block. `Bracketed` says
that going through `todo` from the front, each item finds the brackets open that it will close (`Turns`, `Balances`):
a statement finds braces only, which is needed because the end of the stream returns from all calls of `parse_program` at
once (`AtTheEnd`), and because a brace too many returns from the outermost one (`OneBraceTooMany`).
`BlocksOutermost` says that nothing but calls of `parse_program` waits for a block to end; with `Balances` that makes one open brace
for each call inside main's (`BlocksCounted`, by induction over `todo`).

Only model-checked:

* that the values and the printed numbers of a compiled program are those of its meaning (`ValuesRight`, `PrintsRight`): the theorems
  above say which cells an instruction changes and which are zero, not what is in them. And that a loop breaks the contracts;
* everything about `Backend`: the text of a gadget is put together by folding over sequences, and what it does to a tape is the run of loops
  over it, both of which need induction over data;
* liveness (`Progress`, `EveryLineEnds` and the termination of the back end's runs) and `ENABLED`, which the prover cannot do.

## What is not modelled

* **Lexer**: characters to words line by line, and words to token types by a table; no state
  beyond the line counter. `Parser` ranges over all streams of token types.
* **AST**: constructors and printing.
* **DefineStruct as a statement**: its place in a program, and the refusal of a second definition of a name, which a
  function inlined twice runs into. The types it builds are modelled.
* **`set_virtual_base`**: `codegen.cpp` never writes it; only IR written by hand does (src/tests/macro.txt:48). It moves the pointer to
  a new cell 0 between two instructions.
* **Splitting IR lines into words**: a line is an instruction, a use, a definition or refused; argument counts (which
  `compile_line` checks for every instruction but `SAV`) and number syntax are not looked at.
* **Unbalanced blocks**: a failed compilation leaves a prefix of IR that `ircompile` turns into
  brainfuck with open brackets; what `run_bf` does with it (an empty `std::stack` for a closing one) is not modelled.
* **After a division by zero, an index out of range or a header overwritten**: nothing is claimed.
* **Loops and strings in `Meaning`**: because of the first violation; their layout and scratch are in `block`.
* **biffc main, `CompilerException`**: only the fact that an error stops the compilation.
* Wording of errors, source positions, `CMakeLists.txt`, the examples, opening of files.

## Plan

1. *Done*: `IrTape`, `Codegen` and its properties; `IrMachine`; types, nesting and non-recursion proved.
2. *Done*: the back end (`IrGadgets`, `IrEffect`, `Backend`) against `IrRun`; the macro expander against `IrFile`, with its
   safety proved; `Parser`; `Types`; the meaning of programs (`Meaning`).
3. Proofs. *Done*, of the code generator: types, nesting and non-recursion, ownership, the zero invariant and what calls give back, and
   what the code of a step changes; of the macro expander and the parser: the safety, and of the former the refinement of
   `IrFile`; of the machine: that the zero invariant is true of every run of a program without loops. *Left*: `ValuesRight`, for which the
   chart would have to carry values.
4. Models: `DefineStruct` as an action; the lexer's words.
