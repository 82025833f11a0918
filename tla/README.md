# A verification of the juls compiler

[juls](../src/README.md) is a small compiler, written in C99, from its own language to ELF, Mach-O and PE
executables for x86-64 and arm64. It is one sequential program: `main.c` includes the other files, reads the
source files, parses them into one syntax tree, checks the types, emits code for every function, lays out the
executable and writes it. There are no threads, no messages and nothing that survives a run; what is hard about
it is bookkeeping that has to agree across functions which never see each other: the emitter's idea of the stack
and the processor's, the caller's idea of a frame and the callee's, a pointer into a buffer and the buffer, the
offset that a patch was recorded with and the address the loader gives it.

This directory holds TLA+ modules of these parts, the TLC configurations that check them on small instances, and
TLAPS proofs of what holds for all instances. `PROJECT.json` relates every definition to the lines of code it
models.

## The parts of the program

| Part | State | Operations | Modelled by |
|---|---|---|---|
| Driver and source loader (`main.c`, `parse` in `parser.c`, `strings.c`) | list of files to load, source files, index in the list, current directory | `add_file_to_load`, `load_file`, `#load`, `#import`, the order of the phases | `SourceLoader`, `Executable` |
| Lexer (`lexer.c`) | input, position, the current and the previous token | `get_next_token` and its helpers, `advance_token` | `Lexer` |
| Parser (`parser.c`, nodes from `ast.c`) | the two tokens, `has_error`, the recursive descent, the tree | the `parse_` functions, `expect_token`, `rollback_one_token`, `report_error` | `Parser` |
| Type checker (`type_checking.c`, lookups in `ast.c`) | the table of types; `type_id` and `decl` of every node; the C stack | table lookups, casts, checks of signatures, statements and expressions | `Datatypes`, `TypeChecker` |
| x86-64 code generator (`x64.c`, stack in `main.c`) | allocated and committed stack, array of scopes, stack offsets in the tree, text section | emitters of functions, statements, expressions; `commit_stack` | `CodegenStack`, `Emitter`, `AbstractEmitter`, `X64Emit`, `X64Discipline`, `X64Run` |
| arm64 code generator (`arm64.c`) | the same, with slots aligned to 16 | the same | `CodegenStack`, `Emitter`, `AbstractEmitter`, `Arm64Emit`, `Arm64Discipline` |
| The code of both | registers, memory, stack pointer | what the emitted instructions do | `Processors`, `SourceRules`, `SourceValues`, `CompiledValues` |
| Linking (`x64.c`, `arm64.c`) | addresses of functions, patches of calls and strings, symbol table | start code, calls, string literals, patch loops | `Executable` |
| ELF, Mach-O and PE writers (`elf.c`, `macho.c`, `pe.c`) | offsets and addresses | layout, patches of string addresses | `Executable` |
| String builder (`main.c`) | linked lists of 1024-byte buffers, pointers into them | append bytes, reserve bytes, align, append another builder, size | `StringBuilder`, `ByteStream` |
| Allocator (`allocator.c`, `array_append` in `main.c`) | block in use, footers of earlier blocks, arrays | `alloc`, `reallocate`, `free_all`, `array_append` | `Allocator` |
| Platform layer, build tool | | | not modelled, see below |

They interact by calls only. The loader hands the parser one file at a time and the parser extends the loader's
list; the parser pulls tokens from the lexer and sends it back by one; the type checker follows calls from one
function into the signature of another; the emitters read what the type checker stored in the tree and store their
stack offsets and addresses there; the emitters and writers append to string builders and keep pointers into them,
through which they patch words later, when the builders have been joined. Everything is allocated from one
allocator, and arrays move in it when they grow.

### What makes each part right

- *Loader*: every file that is asked for, however often and from wherever, is parsed once; parsing fails only
  because of a malformed file; it comes to an end.
- *Lexer*: tokens lie inside the text, nothing but blanks and comments lies between them, a literal has the form
  the parser relies on, and going back by one token lexes the same token again.
- *Parser*: it accepts the sentences of the grammar and no others and builds the nodes they stand for; it reports
  an error exactly if it refuses; it ends, and does not write through the null pointer it uses for "missing".
- *Type checker*: one id per type; names mean the innermost declaration in scope; a type that was given stays;
  what is accepted without a message is what the emitters can handle (but for strings as operands);
  it stops for known reasons only.
- *Code generators*: their assertions about the stack hold; the stack as compiled is the stack at run time on every path; every
  access is inside the value it is meant for and never hits another live variable; caller and callee agree; and
  the code computes what the program means.
- *Linking and writers*: every call arrives at the function that the name means, every address of a string at
  its bytes, and the segments can be mapped.
- *String builder*: the lists of buffers are byte streams, and pointers stay valid and apart.
- *Allocator*: what is handed out is aligned, in mapped memory, disjoint and clear of the allocator's own words;
  arrays keep their items when they move; `free_all` finds every block again.

### What is hard about it

Mutual recursion with state that survives the calls (the emitters' stack, the parser's tokens, the types of a
function that is used before it is checked), lazily committed effects (`pop_stack` before `commit_stack`), values
computed twice in different places (frames, addresses), stale references (stack offsets of variables, pointers
into buffers and arrays, the rolled-back lexer, what is left in registers and below the stack pointer), error paths
that go on with half a node or with an untyped one, and boundaries (buffers, blocks, immediates, ends of files,
pages). `PROJECT.json` lists these hazards line by line with the properties that would catch them.

## The modules

### Code generators: the stack

`CodegenStack` is `struct Codegen`'s stack and its primitives (`push_scope`, `pop_scope`, `allocate_stack`,
`push_stack`, `pop_stack`, `commit_stack`) as operators from stack to stack; the C assertions are the `Can...`
predicates. `Emitter` holds what the two backends have in common: constants, variables, the type rules, and the
activations.

`X64Emit` is the emission of one function. The recursion of `x64_emit_function`, `x64_emit_statement` and
`x64_emit_expression` is the sequence `frames`, one record per C activation with its locals; each action is the
code of a handler between two recursive calls. The syntax tree is not given in advance: an activation chooses its
node when it is entered, among those that the type checker's rules allow there, so that the behaviours are the
emissions of *all* well-typed functions with at most `MaxNodes` inner nodes. `text` keeps the instructions that
move RSP, jump, call or return, each with the depth the compiler believed in; `accesses` the loads and stores of
the last handler; `locals` the declarations in scope with their offsets.

`Arm64Emit` is the same for `arm64.c`, with what differs there: slots of a multiple of 16 bytes, the link register
on the stack, displacements that the instructions encode in 12 or (for pairs) 7 signed bits, and the immediates of
ADD and SUB. An access is decoded as the processor would, so that `AccessesArrive` also covers the encoding.

`Features` names eight constructs that the front end accepts and a backend may get wrong, such as an assignment
that widens implicitly. Without a feature the node is not chosen. The run `x64_run` has no features: what it
shows holds of programs without these constructs. `arm64_emit` has the three widenings, which its padded slots
survive as far as the stack is concerned. `missing_return` is control that falls off the end of a function for which
no `ret` is emitted: of one with a return type whose last statement is not a return, and of every function that is
declared `-> void`, since the emitters test whether a type was written, not whether it is void (`EndsWithoutRet`).
Operands are integers and booleans (`Scalars`); literals are those that the compiler can emit, which on x86-64 are
integers of 32 bits. Where the compiler stops at an assertion there is no text to speak about: at strings as
operands, and at larger literals.

`AbstractEmitter` is what both promise: for each handler, which handler it calls next and with what, what it pushes,
pops, allocates and commits, which names it ends, and what may be in the instructions it emits, but neither the
instructions nor the loads and stores. Its constants are `Slot`, the bytes that a value of a type takes up on the
stack, and `Gap`, what a call pushes. `X64Discipline` and `Arm64Discipline` say that the two backends are such
emitters, with the sizes of the types and a return address, and with multiples of 16 bytes and a link register;
`x64_run` checks it (`EmitterSpec`, with the abstract action of each handler), and it is proved for both.

The second half of `AbstractEmitter` is the discipline, the invariant that explains why the emitters are right: the
activations are a chain of calls the handlers make (`ControlDiscipline`), no name disappears under an activation that
counts on it (`NameDiscipline`), and every activation finds the stack as it left it plus its callee's value
(`StackDiscipline`), with what it remembers about the values it waits for (`ValueDiscipline`). `Layout` adds where the
values lie: variables one below the other, arguments in the order of the parameters.

`X64Run` composes the emitter with a processor that executes the text: `pc`, `depth` (how far RSP is below its
value at entry), conditional jumps in both directions. It checks the emitter's beliefs against execution.

### Code generators: the values

`SourceValues` is the abstract specification: what a program means. Its state are the active calls with the values
of their variables and operands, and a step evaluates a node: a literal, a name, an operator, an assignment, a
declaration, an `if`, a call, a return. It knows neither registers nor memory.

`CompiledValues` is the code of both backends for the same nodes, executed as it is emitted: `contexts` are the
calls with their compile-time stacks and slots, `machine` is the processor of module `Processors` (two registers,
the stack pointer, memory of bytes), and an action is a handler of the emitters with its loads, its operation, its
stores and the adjustment of the stack pointer in the order of the code. Partial registers, zero extension, the
sign-extended immediates of the large adjustments, MOVZ/MOVN/MOVK, little-endian bytes and the return address on
the stack behave as on the processors. After each node the registers and the memory below the stack pointer are
forgotten, as a signal handler may forget them; what was never written is zeros in some behaviours and ones in
others. `SourceRules` holds what both sides agree on: which node may come next, by the type checker's rules.

The refinement mapping reads the values of variables and operands from their slots; `node` names what the step
evaluates on both sides, so that code for `-` cannot pass as code for another operator. `ComputesTheProgram` is
then the abstract specification as a property, checked by TLC (`MCCompiledValues` keeps the mapped state in the
variable `calls`).

Three restrictions are the price. A byte has `Radix` = 4 values instead of 256, so that eight bytes fit TLC's
integers; everything that counts bytes is unchanged. Functions whose returns are `void` here have no written return
type (`CanEnd`). Operands have one type, because for different widths the code
is wrong on both backends (a TODO says so, `x64.c:867`), and the orders `<`, `>`, `<=`, `>=` are those for which
each backend's signed conditions are right (`OrdersRight`). Loops are not executed here; a round of a loop is
straight code, and where its jumps go is `X64Run`'s subject.

### String builder and allocator

`ByteStream` is the abstract specification: streams that grow at the end, reserved slots that can be filled
later, and streams that are joined. `StringBuilder` is the code: buffers of fixed capacity, links, builders as
pairs of pointers, a reservation as a place in a buffer. The refinement mapping follows the links: a stream is
the concatenation of its list, a slot is a pointer counted from the head of its list. `MCStringBuilder` keeps the
mapping in two auxiliary variables (functions of the others) so that TLC computes it once per state, and checks
`ImplementsByteStream`, the abstract specification, as a property. An appended builder is not used again, which is
what the callers do; `ListsDisjoint` shows why they must not.

`Allocator` has one memory of words for everything: what clients write, the items of arrays, and the footers in
which the allocator saves the previous block. `mmap` chooses any free page-aligned place. A growing array is
copied by `reallocate`, and the old place stays. `FreeBlock` follows the footers, so that a footer that was
overwritten would lose blocks.

### Lexer and parser

`Lexer` works on characters: `SkipWhitespace`, identifiers, numbers, strings, directives and operators as in
`lexer.c`, with the extra character that is eaten after every comment. The order in which the arguments
`matches_character(...)` of `make_token` are evaluated is unspecified in C; an operator of two characters may
therefore come with a lexeme of one or of two, and `NextTokens` is a set.

`Parser` works on tokens. Its tokens are chosen as they are read, after a fixed beginning (a *shape*), so that one
behaviour stands for all texts that begin alike. Each `parse_` function is a short program of instructions
(expect, call, set an operand, mark, report ...), and the actions interpret them on a stack of activations;
the rollback of `parse_expression` and every test for a missing node is an instruction of its own. Nodes are kept
as the postfix sequence of what was built. `MCParser` states the grammar, independently of the parser, as the set
of sentences of each length with the node each stands for, and `ParsesTheGrammar` compares.

### Type checker

`Datatypes` is the table of types with its lookups and `can_implicitly_cast_to`. `TypeChecker` is the pass: `frames`
is the C stack of `type_check_statement`, `type_check_expression`, `resolve_type` and
`type_check_function_signature`, `ast` the tree with the `type_id`s and declarations found so far, `outcome` how
the compiler stopped (`done`, or one of the assertions and crashes it has). A node of the tree is chosen when the
pass first looks at it. Of a literal only its sign, its bits and whether it is a power of two are known: this is
what the choice of its type depends on. `AcceptedTreesCanBeEmitted` is the contract with the emitters, whose
guards in `Emitter` and `SourceRules` assume it. `NamesFollowScopes` is about the names that are emitted: in the
types of a signature, which are not, a `type_of` may name a parameter that comes later, or its own.

### Loader, linking and files

`SourceLoader` is the loop of `main` over the files to load, with `parse` at the level of directives and
declarations. `Executable` EXTENDS it with everything from the declarations to the file: the start code, functions
one by one with their calls (direct if the callee has an address, patched otherwise, a system call for `exit` and
`write`) and string literals, the two patch loops, and `generate_elf`, `generate_macho` or `generate_pe`. Text is
measured in bytes, not spelled; only words that hold displacements are kept, in the encoding of the architecture
(32-bit relative on x86-64, 26 bits in instructions for BL, two fields and a page offset for ADRP and ADD). The
operators `CallTarget` and `StringTarget` decode them as a processor does and know nothing of how they were encoded.
Of a file, `image` holds the segments that a loader maps and, for ELF and Mach-O, the sections and the symbol table that
a debugger reads: `SymbolsCoverTheText` and `SegmentsCanBeMapped` ask that the two views agree.

## The runs

| Run | Shows | Bounds |
|---|---|---|
| `x64_run` | x86-64 is an `AbstractEmitter`; assertions about the stack, accesses, variables, call frames of every emission; RSP is where the compiler believes on all paths and `ret` finds the return address | 3 inner nodes; base types of sizes 0, 1, 1, 8, 16; a function without and one with parameters of different widths |
| `arm64_emit` | the same for arm64 without the execution, with the encoding of displacements and with implicit widenings | 4 inner nodes; a third parameter, a string |
| `compiled_values` | the code of both backends implements the meaning of the program | 4 to 6 nodes after the declarations of six scenarios; bytes of 4 values |
| `type_checker` | names, types, the contract with the emitters, reasons to stop, it ends | 5 nodes of the whole language, 7 to 10 of four parts of it |
| `string_builder` | buffers behave like streams | buffers of 2 bytes, strings of 0 to 3, 4 buffers, 2 builders, 2 slots |
| `allocator` | ranges are disjoint, arrays keep their items, blocks stay chained | three pages of 8 words, blocks of one page, three kinds of requests, two arrays |
| `lexer` | nothing is lost, lexemes are inside, re-lexing agrees, it ends | all texts of 3 of 14 characters, longer ones of fewer |
| `parser` | accepts the grammar exactly, reports what it refuses, ends | 8 shapes, 5 to 7 more tokens of 5 to 12 kinds |
| `executable` | files loaded once, calls and strings arrive, segments can be mapped, it ends | 1 to 3 files, 4 functions, both architectures, three formats |
| `x64_widening_assignment` | finding: `s64 = s8` breaks an assertion | feature `widening_assignment` |
| `x64_large_frame` | finding: frames of 128 to 255 bytes | declarations of strings only |
| `parser_missing_operand` | finding: `return ;` writes through null | one shape |

Why the bounds are enough to mean something:

- *Emitters.* Three inner nodes already nest any statement in any other and an expression in that (an `if` in a
  `for` with a comparison), give loops that are left by `return`, calls inside of operands, and variables declared
  before, in and after inner scopes. Literals and identifiers are not counted. Sizes 1 and 8 make any confusion of
  two types show in the offsets. Every action and every disjunct fires.
- *Compiled values.* The scenarios start with variables and literals at the ends of the ranges of their types, of
  1, 2, 4, 8 and 16 bytes, signed and unsigned. Their nodes suffice for nested operators, casts to every narrower
  type, nested calls with sums and two parameters of different widths, conditions on computed values with declarations
  on either side, strings as arguments, and the two system calls. A node is begun only if what is open can still be
  completed within the bound.
- *Type checker.* `Everything` has all constructs in five nodes; `Scopes`, `Operators` and the two `Signatures` reach
  the depth at which names shadow each other, literals meet types that cannot hold them, and functions need each
  other's signatures in a circle. `MaxDepth` is the C stack: 24 activations are more than a tree without a circle
  can need here, so that only circles overflow it (`OverflowIsCircular`).
- *String builder.* With two bytes per buffer, three-byte strings span two or three buffers, every append can end
  at, before and behind a boundary, and four buffers allow joins of lists of two. What depends on 1024 is only
  that a reservation (at most 8 bytes in the code) fits into a buffer, and so it does here.
- *Allocator.* The requests are one without bytes, one that needs padding, and one that only a larger block holds;
  three pages allow two blocks with a gap and a large one; arrays move several times. The proofs hold for all sizes.
- *Lexer.* Every character class, all pairs that form operators and comments, and unterminated strings occur. The
  texts have comments that end before the text does and block comments that are followed by a blank: otherwise the
  character that `skip_whitespace` eats after a comment (`lexer.c:191`) is a lost token or lies behind the text,
  which violates `NothingSkipped` and `LexemesInside`.
- *Parser.* Tokens beyond a shape's beginning are unrestricted among its kinds, so that each shape covers one
  family of constructs with all errors in it; all shapes together use every `parse_` function. A parser that stays
  within `k` tokens never looks at the one after.
- *Executable.* The bodies put calls before, after and inside the functions they name, twice-defined functions, a
  missing `main`, literals that cross a page, and sections around the size of a page; the file systems have cycles, files asked for
  twice and from other directories, missing and malformed ones. `VmBase` is 2^24 instead of 2^32 because of TLC's
  integers, `NameSize` is 5; all else has the sizes of the code. Paths have no `..`: see the hazard at `parser.c:1096`.

`CHECK_DEADLOCK FALSE` is in the configurations of programs that end (or reach a bound) and have no further step.

*Fairness.* `ReachesTheEnd` of the lexer, `Terminates` of the parser, the type checker and the whole compiler assumes weak fairness of
`Next`: a sequential program that can take a step takes it. Nothing else is assumed, and the other runs check
safety only.

## The findings

The violation runs quote an assertion or a line of the code and reach a state in which it is false; what they show
is in `PROJECT.json`. In short: implicit widening in an assignment makes an assertion fail; a frame of 128 to 255
bytes moves RSP in the wrong direction, silently; `return ;` crashes. Other features of `Emitter` (an assignment to
a parameter, a widened argument or initializer, a mismatched return, a `for` without initializer or with a
declaration as body, a missing return) violate `AssertionsHold`, `CallFramesAgree`, `AccessesInBounds`, `JumpsAgree`
and `RspAsCompiled` when they are switched on in `X64Emit`. No run is kept for these; their hazards name the property
that is lost.

What the models further show, where nothing in the repository says otherwise, is recorded with the hazards and in
comments: more than 62 nested blocks exceed the array of scopes (`ScopesFit`, which no run checks); errors of the
type checker stop nobody; two strings pass it as operands, and the emitters stop when they load them; an error at the
end of a file that ends with a comment makes an assertion of the parser fail instead of being reported
(`LexemesInside` is violated by such texts); an undeclared target of an assignment ends in a null dereference after its message;
a `for` may read its own variable before it is initialized; `type_of` in return types can recurse without end; -200
becomes an `s8` (a TODO at `type_checking.c:358`); on arm64, strings beyond 512 bytes of stack are addressed
wrongly, although the assertion allows 1023, and the number of bytes of a string literal is cut to 16 bits; in PE
files the addresses of strings are never filled in.

## The proofs

The theorems listed in `PROJECT.json` are proved for all values of the constants. Their assumptions are those of the
modules and, where a construct of the language breaks the property, that programs do without it.

### The code generators

What the two backends have in common is proved once, of `AbstractEmitter`, and each backend is proved to implement it.

`AbstractEmitterProofs` (for all types, slots and gaps, all signatures, all features and any bound on nodes and scopes):

- `EmissionSound`: `EmitterSpec => []Sound`, where `Sound` is `TypeOK` with `ControlDiscipline` and `NameDiscipline`;
- `EmissionAccounted`: `EmitterSpec => []Accounting`, of programs with `StraightFeatures`;
- `EmissionLaidOut` and `EmissionClearsGap`: `EmitterSpec => []LaidOut` and `EmitterSpec => []ClearsGap`, of programs with
  `AlignedFeatures`;
- `EmissionTyped`: no operand is of type void, whatever the program.

Assumed: sizes are natural numbers, `Void` has size 0 and other types more, parameters are value types, no member of
a string is larger than the string (members have 8 bytes, strings 16), `MaxScopes > 1`, slots and the gap are natural
numbers. `TypeOK` is not inductive. That `EndBlock` leaves a scope stack that is not empty, that `EndIf`
patches an instruction that exists, that `ForStep` finds a name for its loop variable, depends on who called whom
and what they left behind. `ControlDiscipline` says which activations can be above which; `NameDiscipline` orders
the number of names each counts on. With them each of the actions preserves the conjunction: an action changes the
innermost activation, pushes one above it or removes it, and leaves the others alone, and the lemmas at the beginning
of the module prove that once for each of these three kinds of step.

`StraightFeatures` excludes the constructs that do break the stack: a `for` without an initializer, a declaration as the
body of a `for`, and, where integers take slots of different sizes, an assignment that widens (the finding of
`x64_widening_assignment`). Each property is violated when such a feature is switched on, so that the exclusion is needed.
On arm64 all integers take 16 bytes and the widening is harmless: `OneSlot` holds there. `Accounting` is
`Sound`, `StackDiscipline` and `JumpsAgree` together, because they need each other: a jump back is compiled for the depth
that the `for` recorded in `start`, a jump forward for what the stack will be when its patch is applied, and both are
known only from the equations of `FrameDiscipline`. That a handler can tell how much its callee has pushed rests on
`CallDiscipline` (the callee began at the height where the caller expected it, for the type the caller asked for) and
on `TopDiscipline`, which turns the callee's last step into the caller's next. The argument has three parts: instructions
that are appended behind each other keep agreeing if each begins where the one before it ended; the
activations below the innermost one do not change and the scopes they count on are kept; and one lemma per action.

`AlignedFeatures` excludes arguments that widen, again only where slots differ. Stack offsets of variables are remembered
in the tree long after they were computed. `Layout` says why they stay right: the visible variables lie one below the
other, below the return value and above the end of the innermost scope (`Placed`), so that what is pushed later cannot
reach them; those that an activation found lie in the scopes it found (`Sees`), which is what `EndBlock` and `for` need to
re-establish `Placed` when they remove names and a scope; an assignment keeps the offset of a variable that is still
there, a member is one of a string's, a declaration's slot is below all variables (`Remembers`); the arguments of a call
that is being emitted lie in the order of the parameters at partial sums of their slots (`Passes`). The frames agree because
the callee's offsets are the same partial sums counted from the other end (`BytesOfFirst` and `BytesOfLast`).

`X64Proofs` (for the same constants, slots being sizes):

- `EmitterImplements`: `Spec => EmitterSpec`, and hence `TypeCorrect`, `StackBalanced`, `JumpsLand`, `LayoutHolds`;
- `AssertionsAlwaysHold`: `Spec => []AssertionsHold`, with `StraightFeatures`, of programs that do not assign to parameters
  (the assertions that check the stack accounting; the limit of scopes and what is not implemented are not in it);
- `FramesAlwaysAgree`: `Spec => []CallFramesAgree`, with `AlignedFeatures`;
- `AccessesStayInBounds`, `StoresNeverClash`: `Spec => []AccessesInBounds` and `Spec => []StoresSpareVariables`, with
  `TypedFeatures`, which excludes two more constructs in which a value is copied as one of another size: initializers
  that widen and a return value of another type;
- `RspAlwaysAsCompiled`: `RunSpec /\ []ShortFrame => []RspAsCompiled`, with `AlignedFeatures`, of programs in which no function
  with a return type falls off its end (the hazard at `x64.c:1447`).

The implementation is a step for a step: the lemma of each handler shows that the instructions it appends have the
operations, depths and targets that the abstract action allows. The refinement needs `Sound`, because the
stacks the handlers compute with must be stacks. The last theorem is about executions: the text is
run by a processor that follows jumps in both directions and moves RSP by what the encoded immediates really are.
`ShortFrame` says that the committed stack never exceeds 127 bytes, up to where the 8-bit immediates are exact; frames of
128 to 255 bytes break it, as `x64_large_frame` finds. The invariant of the emission, `Compiled`, says of every instruction that
where it leaves RSP is the depth of the next, or of the instruction it jumps to, or that it is one of the jumps that
an activation still waits to patch (`Waiting`); its proof goes through the same three kinds of step. When the emission ends no
activation waits, no jump leads behind the text (`Sealed`) and the text ends with a `ret` (`Closed`), which is compiled for
depth 0 because the outermost scope starts there (`Grounded`). The processor then keeps `depth = text[pc].depth` from one instruction to the next.

`Arm64Proofs` (for the same constants, slots being multiples of 16 bytes):

- `EmitterImplements`: `Spec => EmitterSpec`, and hence `TypeCorrect`, `StackBalanced`, `JumpsLand`, `LayoutHolds`;
- `EmissionAligned`: where slots and the gap are multiples of 16, so is every offset, scope and height, whatever the program;
- `FramesAlwaysAgree`, `StoresNeverClash`: `Spec => []CallFramesAgree` and `Spec => []StoresSpareVariables`, with `AlignedFeatures`;
- `AccessesAlwaysArrive`: `Spec /\ []SmallFrame => []AccessesArrive`, of programs whose returned values have their type, where
  types have the sizes of the language (`MachineSizes`);
- `AssertionsAlwaysHold`: `Spec /\ []FrameFits => []AssertionsHold`, of programs that do not assign to parameters
  (the assertions about the stack accounting and about the adjustments of SP; those about the offsets of loads and
  stores need the smaller frames of `AccessesAlwaysArrive`, and the one at `arm64.c:420` fails within `FrameFits`).

With `OneSlot` these hold of programs with all implicit widenings. The conditions on frames are the limits of the
instructions: `SmallFrame` says that the parameters and the committed stack lie within 511 bytes, what LDP and STP reach (from 512 on
the code is wrong, the hazard at `arm64.c:420`), and `FrameFits` that the committed stack has at most 4095 bytes, the immediate of ADD and SUB
that the code asserts. That a store spares the link register is what `ClearsGap` is for; that displacements decode to
what was encoded rests on `EmissionAligned`.

### The other parts

`FrontEndProofs` (of the lexer for all texts and classes of characters, of the type checker for all programs and bounds):

- `LiteralsAlwaysParse`, `AlwaysRelexesTheSame`: `LexSpec => []LiteralsParse` and `LexSpec => []RelexesTheSame`;
- `LexemesAlwaysInside`, `NothingIsSkipped`: `LexSpec /\ CommentsEnd => []LexemesInside` and `=> NothingSkipped`;
- `NamesAlwaysFollowScopes`: `Spec => []NamesFollowScopes`, an emitted name stands for the innermost declaration visible there;
- `IdsUnique`: `Spec => []OneIdPerType`, the table never holds two entries for one type;
- `IdsFinal`: an entry of the table is never changed or removed.

Assumed of the lexer: texts are sequences of characters, and a line break is a blank. `CommentsEnd` says that a comment does not end
with the text and that a blank follows a block comment; in other texts the code does lose a character (the hazard at `lexer.c:191`).
`LexInv` says that the current token was lexed where it starts and that nothing would be skipped there, which is what makes
re-lexing idempotent. `skip_whitespace` is a recursive function over positions: that a function satisfies the recursion, and
induction over the rounds of the loop (`RoundInduction`), come from `SetInduction` (`DescentExists`).

Names are resolved while the tree is still being looked at: at any time some statements have no kind yet. A name that was
resolved could therefore lose its meaning later, when such a statement turns out to declare it. `NamesInv` says why it
does not. The tree is one the parser builds (`Structured`: functions are the roots, which parts a construct has and where it may
be, parameters before statements, a loop's variable before the rest of the loop). The stack holds the whole way up from the node
that is being checked, and every statement on that way is the last of its list (`FramesFit`). Only that node, or the variable of the
loop that begins, is still open as a declaration (`Attended`), so that nothing before a name that is looked up is (`Settled`), and
what is appended later comes after it. Given that, the walk of `find_declaration_by_name` meets the innermost visible declaration
first (`LookupFollows`), and the three ways in which the tree changes (`UpdatedTree`, `GrownTree`, `ListedTree`) keep both its
structure and the meaning of every resolved name (`NamesKept`). There is one lemma per handler. Functions on the way up (`Up`, `Sig`, the walk itself)
are recursive functions on the tree; that they exist, and induction over trees (`TreeInduction`), come from `SetInduction`,
as does that the declarations a check begins with are such a tree (`DeclarationsAre`).

The invariant of the table is that it is a sequence without repetitions. Every way to append to it goes through
`WithPointerTo`; the lemmas show that a lookup that answers 0 means that there is no such entry, whatever the table.

`AllocatorProofs` (for all sizes of pages, blocks and footers, all requests, any number of arrays):

- `NothingOverlaps`: `Spec => []RangesDisjoint`;
- `ItemsSurvive`: `Spec => []ArraysKeepTheirItems`;
- `FootersLeadEverywhere`: `Spec => []BlocksChained`.

Assumed: a block is larger than its footer, and a page is a multiple of every alignment; `alloc` does not compute
the padding again in a new block, so that without this the theorem is false. The invariant of the first,
`LayoutInv`, adds to the property that the mapped blocks are disjoint (`Blocks`), that what was handed out lies in a
block before its footer (`HandedOut`), that the block in use is mapped (`Using`), and that nothing handed out lies
where it still has room (`Unused`). The second needs in addition that the items of every array are one of the
ranges handed out, so that what others write is elsewhere, and that a footer is never written over them. The third says
that the footers lead from the block in use through all mapped blocks, so that `free_all` finds each of them. The chain
of allocators saved in the footers is proved to have each mapped block once: no footer in it is covered by anything
handed out, a new block is put in front of it, and `free_all` drops its first element. The recursive walk of the
property is then shown, by induction over `SetInduction`, to visit exactly this chain.

`StringBuilderProofs` (for all sizes of buffers, strings, reservations and alignments, any finite set of builders):

- `BuildersStaySafe`: `Spec => []MemorySafe`;
- `ListsStayApart`: `Spec => []ListsDisjoint`;
- `BuildersAreStreams`: `Spec => Stream!StreamSpec`, the builders implement `ByteStream`.

Assumed: a reservation fits into a buffer, and there are finitely many builders. The invariant `Sound` adds to the
property that two builders in use have different current buffers (`CurrentsDiffer`): without it, an append to one
builder could link a new buffer behind the current one of another, and `Current(b).next = 0` would be lost.
All operations on one list have the same effect, `Grows` (the current buffer gets longer, new ones are linked
behind it, the others stay), which is proved once to preserve `Sound`. The second follows from the first and from the
fact that the list of a builder in use leads to its current buffer: where links are injective and none leads to a first
buffer, two lists that share a buffer share the one before it, down to their heads, so that paths never meet
nor come back to themselves, and are therefore no longer than there are buffers.

The third is the refinement that `ImplementsByteStream` checks with a few strings, with the mapping of
`MCStringBuilder` as state functions (`StreamContent`, `StreamSlots`): strings of all lengths, all of
`ByteStream`'s specification. Its invariant needs, besides the two above, that every pointer leads into the list
of a builder in use (`Pointed`), also after builders were joined. Each action then has a lemma for what becomes
of the lists (`GrownListsAre`, `LinkedListsAre`, `PatchedListsAre`), of the bytes along them (`GrownContent`,
`LinkedContent`, `PatchedContent`) and of the slots (`GrownPositions`, `ReservedSlot`, `LinkedPositions`,
`PatchedPositions`). That the pieces of a string make up the string (`PiecesMakeUp`), whatever of it fits into
the current buffer and whether or not it ends with one, is the part of the argument that is about the arithmetic
of `string_builder_append_string`; that a list holds no buffer twice is what makes a patch change one slot of
one stream.

`ExecutableProofs` (for all file systems, programs, sizes of code and strings, any set of targets):

- `SymbolsAlwaysCover`: `Spec => []SymbolsCoverTheText`;
- `SegmentsAlwaysMapped`: `Spec => []SegmentsCanBeMapped`;
- `CallsAlwaysReach`: `Spec => [](TextInReach => CallsReachTheirFunction)`;
- `StringsAlwaysFound`: `Spec => [](LiteralsInReach => StringsAreFound)`;
- `AllReachedIsLoaded`: `Spec => []LoadsWhatIsReached`.

On x86-64 the calls and the strings need no condition. On arm64 a BL holds 26 bits and an ADRP 21, and the code checks neither when it
patches them: `TextInReach` says that the text has less than 128 MB, `LiteralsInReach` that the text and the literals
have less than 1 GB each, which keeps every distance within these fields.

Assumed: a file system has finitely many files, files are sequences of the items that `SourceLoader` defines
(`FilesAssumption`), targets are pairs of a known
system and a known processor, `NameSize` is a natural number, and `VmBase`, which is 2^32 in the code, is a multiple
of the largest page, 16384. The invariant of the first theorem, `Layout`, says that the symbols end where the text does,
or in a body where the function being emitted begins, and that there is one per function emitted (`SymbolsSound`), over
the types of loader and code generator; `ImageSound` says that the image is the one that the writer of the target lays
out, of which `ElfTextFound` and `MachOTextFound` prove that every address in the text is mapped exactly once, and
`ElfMapped`, `MachOMapped` and `PeMapped` that offsets and addresses agree within a page and that no two segments overlap.
The calls need `Links` in addition: every call holds the distance to its function or is in the list of calls to be
patched (`CallsSound`), `mainAddress` is 0 only if no main was emitted, because the start code comes first and no
function is at 0 (`EntrySound`), and on arm64 text, functions and calls are at multiples of 4, so that the two bits a BL
does not hold are 0 (`WordsAligned`). The strings need `StringsSound`: every patch lies in the text and names a literal that
ends in the string section; `StringWordReaches` computes what ADRP and ADD load from the patched words.

The last theorem is about the loader alone, which the code generator leaves unchanged (`LoaderSteps`). Its invariant `Loading`
says that the worklist has no path twice and only paths that are reached (`WorklistSound`), that the source files are
its first paths, in order (`SourcesSound`), that what the items parsed so far ask for is in the worklist
(`ParsedSound`), and that the declarations are the functions among these items (`DeclarationsSound`). When the loop ends all
items are parsed, so that the worklist is closed under what its files ask for. What is reached is defined by rounds:
`ReachedClosed` shows that one of the rounds adds no file, because each of the others adds at least one and there are fewer
files than rounds, and `ReachedLeast` that every closed set with the first file holds all that is reached.

`SetInduction` states induction over the naturals for a set, so that no operator has to be instantiated, and
derives from it least elements, that the partial sums of a sequence of naturals exist and are naturals, that a
recursion which only looks further down a line has a solution, and what
`FlattenSeq` of a sequence of sequences is, which `SequencesExt` defines by a recursive function: how it grows
with a sequence appended, or with the last one longer, that flattening distributes over concatenation, and that
its length depends on the lengths alone.

Only model-checked: everything about values (`CompiledValues`), the contract of the type checker with the
emitters (`AcceptedTreesCanBeEmitted`), its reasons to stop and `OverflowIsCircular`, and the parser. `StackBalanced`, `LayoutHolds` and what they rest on are proved and not invariants of a run: what they
are for, the properties above, is. Out of the prover's reach stay the liveness properties and what recursive functions over data compute
(the grammar, numbers in bytes).

## What is not modelled, and why

- *Bytes of instructions.* The models follow the stack, the addresses and the values; that the bytes of an ADD are
  those of an ADD is a table to compare with a manual.
- *Values of mixed operands, wrong orders and loops*: see above.
- *Names and constant fields in the files*: the symbol tables have entries with addresses and sections, but all names
  take `NameSize` bytes. String patches in PE files: the code has none.
- *Platform layer*: pure I/O (`unix.c` and `windows.c` open, read and write files through the operating system);
  its `allocate` and `deallocate` are the environment of `Allocator`.
- *Build tool*: `c_make.h` is a vendored library of its own (a third of all lines), which no part of the compiler
  includes; `c_make.c` configures it.
- *Output for people*: messages (except that one is reported), `print_ast`, the command line, `codesign`.

## Plan

1. An execution of the arm64 text as in `X64Run`, whose proof is that of `RspAlwaysAsCompiled` with other immediates.
2. Loops in `CompiledValues`, with the text of a body kept for its next round.
