# A verification model of nBallerina

nBallerina compiles Ballerina programs ahead of time: `src/compiler` reads the
BIR file the Ballerina front end wrote, turns it into LLVM IR and hands it to
LLVM; the program it makes calls two runtime libraries, `src/runtime/c_rt`
(mappings, in C) and `src/runtime/rust_rt` (arrays, boxes, printing, in Rust).
This directory holds TLA+ models of it, the TLC configurations that check them on
small instances, and proofs that TLAPS checks for every value of the constants.

## Inventory

| Component | State it keeps | Operations | What makes it correct |
|---|---|---|---|
| C runtime: mapping (`balmap.c`) | per map: `used`, `capacity`, `n_entries`, the slots | `bal_map_create`, `bal_map_insert`, `bal_map_lookup`, `map_spread_field_init`, and the growth inside them | a lookup answers what the last store put there; `used < capacity`; a growth loses nothing; every loop ends |
| Rust runtime: dynamic arrays (`bal_array.rs`) | `length`, `capacity`, a block from the allocator | `new`, `get_element`, `set_element`, `grow_array` | no access outside the block, `length` one past the largest index stored, elements keep their values |
| Rust runtime: Vec arrays (`lib.rs`) | a `Vec` | `array_init_*`, `array_store_*`, `array_load_*` for float, boolean, string, anydata | the same array, with a defined value for an element nobody stored |
| Rust runtime: boxes, printing (`lib.rs`) | none | `box_bal_*`, `print_*` | printing accepts every value a program can hold |
| Rust runtime: type checker (`type_checker.rs`) | none | `same_type` on mangled names | equal types, and only they, are the same |
| Compiler: values of type any (`CodeGenUtils.cpp`, `TypeCastInsnCodeGen.cpp`) | a tagged pointer, boxes on the heap | `int_to_any`, `any_to_int`, `bool_to_any`, `any_to_bool` | a value survives the cast to any and back |
| Compiler: code generation (`codegen/`) | per function: the stack cell of each variable, the LLVM block of each basic block | one visitor per BIR instruction and terminator | the emitted code does what the BIR says |
| Compiler: BIR model (`bir/`) | functions, variables, basic blocks, instructions | built once, then walked | names resolve to the variable that was declared |
| Compiler: BIR reader (`reader/`) | the constant pool, the file position, vectors that instructions point into | one reader per table and instruction | an index means the entry the writer meant; pointers into vectors stay valid; parameters keep their order |
| Compiler: driver (`driver.cpp`, `CodeGenerator.cpp`) | none | read, generate, write | the passes run in this order; the rest is I/O |
| Compiler: string table (`PackageCodeGen.cpp`) | a map | `addToStringTable` | nothing calls it |

The compiler's passes run one after the other in one thread, and so does the
program it makes: nothing in this code is concurrent, nothing is persisted and no
message is sent. What interacts are callers and callees. The emitted code owns the
stack cells of the variables, passes maps and arrays by pointer and indices as
`i64`, and drops some results (the found flag of `bal_map_lookup`); the mapping's
insert calls its growth, which calls the insert on a second table on the stack; the
array's store calls its growth, whose products decide what the store may touch.

The compiler's passes hand over a package of functions, blocks and instructions in
vectors; instructions point back to their block and blocks to their function, so
whoever reads the next one may move what is pointed to.

What is hard here is therefore arithmetic at its limits (wrapping sizes,
truncated products, indices narrowed between caller and callee), loops whose
termination depends on an invariant kept by another function, long sequences of
legal calls across several growths, two tables of different length alive at once,
state that is stale when it is used (unset elements, counters copied one by one,
pointers into vectors), a binary format whose reader must take every entry to its
last byte without looking at its length, names that are used before they are declared,
and an allocator that fails in the middle of a call. `PROJECT.json` lists these at
their lines under "hazards", with the properties that cover each.

## Modules

| Module | What it is |
|---|---|
| `MapSpec` | The abstract mapping: a call either takes effect and returns, or crashes |
| `BalMap` | `balmap.c`, one action per loop iteration or straight piece of code |
| `BalMapProperties` | Its invariants, its refinement of `MapSpec`, `IInv`, the measure of a call |
| `Measure` | Tuples of numbers in their lexicographic order, for what is left of a computation |
| `BalMapProof` | `IInv` is inductive, and what follows from it; every call gets shorter |
| `BalMapRefinement` | `RefInv` is inductive, and with it the table implements the mapping |
| `MCBalMap`, `MCBalMap_*.cfg` | Small instances |
| `ArraySpec` | The abstract array |
| `BalArray`, `BalArrayProperties`, `BalArrayProof`, `MCBalArray`, `MCBalArray_*.cfg` | The same for `bal_array.rs` |
| `VecArray`, `VecArrayProperties`, `VecArrayProof`, `MCVecArray`, `MCVecArray_*.cfg` | The same for the Vec arrays of `lib.rs` |
| `PoolLookup` | A constant pool that was read, and the getters on it |
| `ConstantPool` | Reading it, word by word: the read method of every entry and shape |
| `Vector` | `std::vector`: the buffer and the place an element lies at |
| `BirReader` | Reading the module behind the pool, item by item, into vectors of functions and blocks |
| `CodeGen` | Translating the package into an LLVM module: globals, declarations, allocas, blocks, code, terminators |
| `Compiler` | The three composed, as `main` runs them |
| `CompilerProperties` | Its invariants, the LLVM module as a function of the file, the measure of what is left |
| `CompilerProof` | `IInv` is inductive; pointers stay live and parameters in order |
| `CodeProof` | `PackageInv` and `CodeInv` are inductive; the package is the file's module, and the LLVM module is the package |
| `CompilerTermination` | Every step of the compiler makes its measure lower |
| `MCCompiler`, `MCCompiler_*.cfg` | 206 files, and one with a documented record |
| `BirProgram` | A BIR program before it runs: variables, types, values, well-typed instructions |
| `BirSpec` | What its instructions do to typed values: the abstract specification |
| `EmittedCode` | What the LLVM code of each visitor does to stack cells, tagged words and boxes |
| `EmittedCodeProperties` | Its invariants, its refinement of `BirSpec`, `TypeInv` and `IInv` |
| `EmittedCodeProof` | The invariants are inductive; the emitted code implements the BIR |
| `MCEmittedCode`, `MCEmittedCode_*.cfg` | Small programs |

### BalMap

The state is the C structs (`used`, `capacity`, `n_entries`, `entries`, each a
function from tables, the maps and `Local`, the `nMap` that a growth keeps on the
stack) and the locals of the one call that runs (`pc`, `op`, `tgt`, `src`,
`srcUsed`, `si`, `minCap`, `n`, `gi`, `cur`, `key`, `val`, `slot`). A call starts at `pc = "idle"`
and runs through

| `pc` | Code | Actions |
|---|---|---|
| `size` | the doubling loop of `bal_map_init_hashtable` | `DoubleSize`, `AllocTable`, `AllocFails` |
| `probe` | the endless loop of `bal_map_insert_with_hash` | `ProbeNext`, `ProbeOverwrite`, `ProbePlace` |
| `rehash` | the loop of `bal_map_grow_hashtable` | `RehashSkip`, `RehashEntry`, `RehashDone` |
| `find` | `bal_map_lookup_with_hash` | `FindNext`, `FindEnd` |
| `grow`, `spread` | `map_spread_field_init` | `SpreadGrow`, `SpreadSkip`, `SpreadInsert`, `SpreadDone` |
| `done` | the return to the caller | `Return` |

`overflow`, `shrink` and `nomem` are the three `abort`s; `nested` marks a growth
inside a growth, which the code does not exclude by itself. Keys are compared
as such: `Hash` is any function to the naturals, `Home` its low bits. The load
factor is the code's own, `(size_t)(n * 0.6f)` (`balmap.c:24`), as `Cap`: the float nearest to 0.6 is
5033165 / 2^23. `SizeMod` is
2^w of `size_t`, `MaxEntries` the largest table the allocator gives. Values are
opaque. The compiler passes only maps it has created, spreads one map into
another (`StructureInsnCodeGen.cpp:42-64`), and checks no result.

### BalArray

`length` and `capacity` are the fields, `cells` the block: what `alloc_zeroed`
cleared, what `realloc` left, what a store wrote. All arithmetic is that of a
release build: `ToI64`, `Bytes` and `BlockBytes` wrap at `2 * Half`, and the slice
that is made of the block takes its size in bytes for its number of elements, as
the code does. `phase` is `live`, or names the call that panicked; `wild` marks
an access outside the block. `new` is called with a size of the program's choice,
`set_element` and `get_element` with every `i64`. One module stands for the two
element types: `ElemSize` is 8 or 1.

### VecArray

A `Vec` as its length and a function from its indices; `Filler` marks what
`resize` wrote, to tell it from a stored zero. `Received` is what arrives of an
`i64` in a parameter of `2 * IndexHalf` values: all of it for the float, boolean and
string arrays (`IndexHalf = Half`), its low half for anydata, whose functions declare
an `i32` (`lib.rs:192`) that the emitted code, linked by name, knows nothing of. What
the runs and the refinement say of the values of elements, they say for `IndexHalf = Half`;
for the anydata array, indices from 2^31 on are answered as smaller ones. `index as usize` and
`+ 1` wrap. A failing allocation is a panic. `PrintPanics` is `print_string`
applied to the string that was loaded.

### ConstantPool, BirReader, CodeGen, Compiler

`phase` says which pass runs (`pool`, `module`, `code`) or how it ended: `done`,
`aborted` (the reader's own exits on input it does not support), `lost` (a read whose width
is not that of the word that was written there: from then on every word means something else),
`crashed` (a null pointer was used) or `undefined` (the code generator reached an `llvm_unreachable`, or looked into
an optional or a vector that does not hold what it looks for: with assertions the compiler stops, without
them nothing is known of it). `file` is the input and never changes.

A file's pool is a sequence of words, each with its width and value; what the field
is called is there for the properties only. `todo` is what the read method of the
current entry still has to read, as steps: a step is a width, the field it is kept in, and
for counts, flags and the type tag what follows from the value (`After`). So
`RecordShape` and its like are the read methods, line by line, and a method that reads
one word too few is `lost` at the next one that is narrower or wider. `ahead`
counts the bytes since the length of a shape. Getters on an entry of another kind, a field that was not read
or an index past the end give `Garbage`; the assertions of the code are not compiled in.

Behind the pool, `file.module` says what stands there, and every step of
`BirReader` reads one item: the package, a global, the head of a function, a name of a
parameter, the return variable, the type of a parameter, a local, a block, an
instruction. `at` is the loop the code is in, `n`, `k` and `j` its counters. What the reader
reads to throw it away (positions, scopes, annotations, imports, constants, type
definitions but for their functions) has no step. A `Vector` has a buffer, `fresh` counts the buffers that were ever allocated, and `Address`
is what a pointer to an element is; so a pointer into a vector that has moved since is an
address at which nothing lies any more. `ReadInsn` is one step per instruction, with the
operands the constructors are given; `Supported` are the kinds `readInsn` has a case for. `ignoreFunction` compares
the beginning of a name with six others; names are not spelled out here, so the constant `SpecialNames` says which
begin like that, and the runs use one that is longer than the name it begins with.

`CodeGen` walks the package with the same counters. `HitsNull` are the look-ups whose
result the visitors use without a check. An instruction becomes one item with the variables it
uses; what its code does is the matter of `EmittedCode`. A nil for the variable that `main` returns becomes
nothing (`LoadsMainsNil`, `ConstantLoadInsnCodeGen.cpp:77-82`). `FunctionsOf` follows an instruction's two
pointers to its function, and finds nothing if one of them is dead.

Not every instruction the reader builds has code. `NonTerminatorInsnCodeGen` has no visit method for a
type test, so `accept` (`Translatable.h:61-66`) casts its visitor to null and reaches `llvm_unreachable`; the
visit methods have cases for some types of operands only (`HasCode`: `checkMapSupport` and
`StructureInsnCodeGen.cpp:72`, `getNameOfType` for elements of arrays, `TypeCastInsnCodeGen.cpp:61`, the operands of
`BinaryOpInsnCodeGen`), and so has `getLLVMTypeOfType` (`HasLLVMType`). Whoever meets one of these ends `undefined`:
globals, declarations, allocas and instructions, in this order, each only of what is kept and not
native. `IsTranslatable` says of the file, without the order, that there is nothing of the kind in it.

The compiler's `FairSpec` is weak fairness of all its steps together: one thread, which runs until the
program ends.

### BirProgram, BirSpec, EmittedCode

A program has globals, the variables of `main` and those of one more function, which
may call itself. `Cell` is the place of a variable: `<<0, x>>` for a global, `<<d, x>>` for
the local `x` of the call at depth `d`. `Instructions[d]` is every well-typed instruction
there. A step of either machine fetches one (`Fetch`, any that reads only variables
the BIR has assigned to, as the front end's definite assignment guarantees) or executes it.
The instruction is part of the state, so that an instruction that reads the wrong
operand cannot hide behind another one that would have read it. Branches only choose what comes
next and are not modelled further.

`BirSpec` gives each variable a value with its type. `EmittedCode` has the
words: `cells` (an `alloca` or a global; `Undef` where nothing was stored), `heap` (the boxes
of `int_to_any`), `assigned`, `depth`, `dest` and `status`. Its actions are the visitors:

| Action | Code |
|---|---|
| `ConstantLoad`, `Move`, `Not`, `Neg` | `ConstantLoadInsnCodeGen`, `MoveInsnCodeGen`, `UnaryOpInsnCodeGen` |
| `Binary`, `BinaryTraps` | `BinaryOpInsnCodeGen`, ints and `==` of nils |
| `CopyAny`, `BitCast`, and the choice between the casts | `TypeCastInsnCodeGen` |
| `CastInt`, `BoxInt`, `BoxIntFails` | the emitted function `int_to_any` |
| `CastToInt`, `CastToIntGoesWild`, `CastToIntAborts` | `any_to_int` |
| `CastBoolean`, `CastToBoolean` | `bool_to_any`, `any_to_bool` |
| `Call`, `Return`, `MainReturns` | `TerminatorInsnCodeGen`, and the `alloca`s and argument stores of `FunctionCodeGen::visit` |

A load of a cell that holds `Undef` gives any value of its type, a copy of it is `Undef`
again; a load from an address that is no box crashes or gives anything. A
division by 0 is a trap. A word is `2 * Half` values wide, and the tags are the ones of the code: odd for an
int, a multiple of 4 for a box, 6 and 14 for the booleans, of which `any_to_bool`
compares the low byte (`Byte`). `malloc` returns aligned blocks, or null when `Addr` is
used up; the code does not look. The refinement maps a word to the value its tag says,
`aborted` and `crashed` to `failed`.

No text in the repository defines the instructions of the BIR. `BirSpec` is what the visitors say when words, tags and
boxes are taken out of them, and it is these lines that `PROJECT.json` maps it to; what the refinement adds is that the tags, the
boxes, the frames and the order of arguments never show. Three promises of it are as weak as what the repository says. Division and
remainder are promised for two non-negative ints: they are emitted as unsigned operators, and no
test or comment says what they should give for a negative one. A cast to boolean never fails; what is
no boolean becomes false. A cast to any may fail for want of memory: whether it does so with a message or, as here, by a store through the null
pointer of `malloc` (`CodeGenUtils.cpp:256`), `BirSpec` does not tell apart.

The compiler stops at a cast of any to nil (`TypeCastInsnCodeGen.cpp:61`), so there is none. A cast of
nil to an optional type falls through to a bitcast that stores nothing (`BitCast`), so the variable keeps
what its cell held. Nothing in the repository promises more of it: the one program that has such a cast,
`test/optional-type/init_optional_string_2.bal.skip`, is disabled. `AssignedCellsAreStored`,
`EveryAnyIsTagged` and the refinement are therefore stated of programs without a cast of nil, and the
proofs show that it is the only instruction they fail for; `frames` has it.

## Runs

| Run | Instance | Result |
|---|---|---|
| `one` | one map, five keys that collide before and after a growth (one probe wraps around the end), two values, sizes 4, 8, 16 | all of `BalMapProperties` holds in the middle of every loop; a growth copies every field it passes; refines `MapSpec`; every step brings a call nearer to its end |
| `two` | two maps, four keys, spreads in both directions, a 4-bit `size_t`, at most 8 slots | a spread copies every slot it passes; the invariant of the refinement proof, `RefInv`; refines `MapSpec`; calls end; both allocation failure and size overflow happen, in the middle of a spread too |
| `spread` | the code's own constants, the hashes of the test's own keys | violated: a spread leaves fields out (finding) |
| `empty` | the same | violated: spreading an empty map aborts (finding) |
| `block` | `i64` of 7 bits, elements of 4 bytes, a block of at most 20 bytes, sizes -1, 0, 1, 3, every index | memory safety of the growth, `length`, refines `ArraySpec` with any value for a gap |
| `gap` | the same | violated: a gap does not read 0 (finding) |
| `vec` | `i64` of 5 bits, at most 4 elements, every index | refines `ArraySpec` with `Zero` for a gap |
| `print` | the same, the filler unprintable | violated: printing a gap of a string array panics (finding) |
| `casts` | an int, a boolean, a variable and a global of type any; subtraction and `<`; `main` calls a function of two parameters of type any; the first ints on both sides that do not fit the word, and their negatives; room for one box | words can be told apart, whatever is assigned has a value; refines `BirSpec`: values survive the casts, arguments and results arrive, memory exhaustion included |
| `frames` | a recursive function of two parameters, three calls deep; subtraction, division and `<`; casts of nil, whose undefined words are copied, passed, returned and cast | cells are typed, callers untouched, whatever a wild word does |
| `compiler` | 188 files: a pool with an entry of every kind; every order of up to three of five functions (one with parameters, defaults and a call of itself, a native one, one without parameters, a special one, `main`), behind none to two functions of types; a pool with every shape; three inputs the reader aborts on; sixteen with one thing there is no code for (the type of a global, a parameter, a result or a local; eleven kinds of instruction; a nil in a `main` that returns nothing), and a type test that is dropped with its function | the pool is the file's, every shape ends where its length says, pointers live, parameters in order, nothing missing that is looked up; the files are well-formed, so that what is proved of such files is about them; the LLVM module is the one `Translated` says; every step leaves less to do; the compiler ends with a module exactly if the reader reads the file and there is code for all of it |
| `markdown` | the same with a record that has a documented field | violated: the documentation's length is taken for a count of ints (finding) |

Why these bounds are enough. In `one` a map grows twice, so a table that was
itself made by a growth is grown again; `HashOf` has three keys in one chain, one
that leaves the chain when the table doubles and two whose probe wraps, which are
all the ways a key can move. `two` needs tables of 4 and 8 slots only: a spread
grows its target at most once, and `SizeMod` and `MaxEntries` are within reach. In
`block` both products that wrap do so for some index, and the allocator's limit is
met with and without wrapping. The emitted code runs on 4-bit words (`Half` 8, `Byte` 16), the
narrowest in which 14, odd words and addresses are all there and both limits of `int_to_any` have
ints on either side: in `casts`, -5 and 4 are the first that are boxed, -4 the last that is not. One box is
enough to share it, to keep it across calls and to run out. `casts` has two calls at once, `frames` three:
a caller of a caller, and the result of a call in a cell that has the name of one of the callee's. In `vec` the index space is four times the largest
Vec on each side of 0, so `-1`, whose length wraps to 0, and indices that become
a huge `usize` all occur. In `compiler`, every shape
has its counts at 0 and at 2 and its flags both ways somewhere in the pool, and three functions are
enough for one to be read and dropped between two that stay, and for a call of one that is declared later; the
files are whole (a read past the end leaves 0, which no one has said anything about). `MaxEntries`, `MaxBytes` and `MaxLen` are the only bounds
on what a program can do; each stands for the allocator, whose failure is an action.

Deadlock is not checked in the array runs, in those of the emitted code, where a panic, a
trap or the end of `main` ends the program, and in those of the compiler, which ends when it is done. `BalMap` has a stuttering action `Halted` for its aborts, so its
runs check it.

Fairness. `FairSpec` of `BalMap` asks for weak fairness of `Step`, the disjunction of
all steps inside a call, and of nothing else: a call that has started in the only thread
goes on running. No caller is obliged to call. `FairSpec` of `Compiler` asks for weak fairness of `Next`:
nothing stops the compiler's only thread between two steps, and no step waits for anyone.

## Proofs

`BalMapProof`, `BalArrayProof`, `VecArrayProof`, `EmittedCodeProof`, `CompilerProof`, `CodeProof` and
`CompilerTermination` prove, for all constants that
meet the named assumptions, that the conjunction `IInv` of each model is inductive,
and from it the safety invariants of its runs. The two runtime libraries and the emitted code are
also proved to implement their abstract specifications. Assumptions: `KeyAssumption`,
`ValueAssumption`, `LocalAssumption` (distinct marker values), `SizeAssumption`
(positive sizes, no relation between them), `PowerAssumption` (`MinSize` and `SizeMod` are powers of 2, as
`BAL_MAP_MIN_SIZE` and the range of `size_t` are), `MemoryAssumption` (a block is at most half the
address space, an element has a size, the default capacity fits),
`WordAssumption` (an index parameter is no wider than an `i64`; a Vec is shorter than
half the address space; in `EmittedCode`, a word is a whole number of bytes and `malloc` aligns to 4),
`NamesAssumption`, `ParamsAssumption`, `InstructionsAssumption`, `SizesAssumption` and `ArgAssumption`
(what a well-formed BIR program is; `readLocalVar` meets the parameters in their order),
`FilesAssumption` (the tables of a file are lists, its words have a number; no function announces more default values than
names, as `readFunction` takes a name from the queue for each (`BIRReadFunction.cpp:152`) without asking whether there is one).

- BalMap. The heart is `KeysReachable`, in terms of `Dist`, the number of steps a probe
  takes downwards from a slot. It is not inductive alone: inserting needs that the
  probe has passed only slots that are neither empty nor hold the key (`ProbeInv`), growing
  needs that `nMap` holds only keys handed over, each once, and has room for all of them
  (`GrowInv` with `HandedOver`, which bounds `used` of `nMap` by what was copied and
  so excludes nested growth), and a call needs to be one on a map that exists (`CallInv`).
  `UsedCountsEntries` is a cardinality and takes the finite-set theorems. `SizeInv` says that every table has
  a power of 2 of slots, which `PowerOf2` states without recursion: a number that is divided by no odd number but 1. So
  the mask of the code is a remainder (`MasksAreRemainders`), and the doubling loop, which tests for
  an overflow only after the product has wrapped, wraps to 0 exactly when no size fits (`OverflowIsTrue`).
- BalMap, the end of a call. `CallMeasure` is five numbers: the stage of the call, the slots of the source a spread has
  still to pass, the phase of the insert (probe, choose a size, refill, go on), the sizes or the old slots a growth
  has not tried yet, and the slots the probe has not looked at. `CallsGetShorter` says that every step inside a call makes the measure
  lower in its lexicographic order, `CallsAreMeasured` that it is always five naturals, `NoEndlessDescent` that no
  infinite sequence of such tuples, of any length, goes down at every step. So no call goes on for ever. The loops of the code are endless ones:
  the probe ends because of the slot that is empty (`EmptySlot`), the doubling because sizes are powers of 2, so that a product that wraps is 0 and stops it,
  the growth inside an insert because it is not re-entered.
- BalMapRefinement. `TableImplementsMapping` is the refinement of `MapSpec`, by the value of a key
  in the table that is visible (`FieldIn`). While a map grows, its fields are in two tables, and while a map is spread the abstract
  call has not taken place, although fields have been copied. `IInv` says nothing of either: `GrowthCopiesFields` (`nMap` has, for each key
  that was handed over, the value of the old table) and `LocalsInv` (the key and the value a call holds are
  its operands, or those of the slot it copies) are added to it in `RefInv`. `PutFields` is the core: storing a key
  changes the field of this key and of no other. `SpreadCopiesWhatItVisits` is what is right about a spread: of the slots it has
  passed, the target has every field with the source's value, while it grows and whatever it had before. It needs that the insert in between
  stores the field of the slot just passed (`LocalsInv`). What is wrong with it is which slots it passes (`spread`).
- BalArray. `CapacityIsAllocated` needs the bound of `IInv` that the block fits the
  allocator: with it a sum that is too large for an `i64` wraps to a negative number
  (`ToI64Facts`), and a product that wraps ends in a layout or slice check that panics
  (`GrowthFits`). `BlockImplementsArray` is the refinement, with a gap that reads any value: what is promised
  of an element somebody stored needs that a growth moved the whole block.
- VecArray. `VecTypes` is its type invariant. `LastIsStored` says the length is one past the largest stored index, which
  makes the range check of the code the one of `ArraySpec`. With it
  `VecImplementsArray` proves the refinement itself, for index parameters as wide as the index:
  every initial state and step of `VecArray` is one of `ArraySpec`.

- EmittedCode. `TypeInv` needs only that the variable a result goes to has the type of the result
  (`ResultsFit`), and holds for every program; `CallersAreUntouched` follows from it. The rest of `IInv`
  needs a program without casts of nil (`NoNilCasts`), the one instruction that assigns and stores nothing:
  then operands are stored when they are read, a word of type any is tagged, and boxes hold only large ints.
  `EmittedCodeImplementsBir` is the refinement itself, one lemma per instruction. Its core is `StoreIsAssign`
  (a store changes the meaning of one cell, also when a box is added) and the lemmas on words:
  `SmallRoundTrip`, `BooleanRoundTrip`, `AddressFacts`, `TrueIsTrue` (no int and no address looks like true),
  `DivisionOfNats`.
- Compiler. `PointersAreLive` needs to know at every place of the reader how full the vectors are
  and how much was reserved (`FunctionsFit`, `BlocksFit`): functions of types are read before the reserve, one at
  a time, and dropped; blocks of default values are read and dropped before the reserve of the
  blocks; behind a reserve, the number of items still to come fits the room that is left
  (`NewFunctionFits`). Then no `emplace_back` moves a vector something points into, whatever the pool says.
  `ParamsKeepTheirOrder` needs that the queue holds the names not yet taken, `QueueFits`. Nothing is assumed of
  the words of the pool.
- Compiler, from the file to the LLVM module (`CodeProof`). What stands in the file is stated apart from the counters that
  walk it: `Selected(s, P)` are the items of `s` at the places `P` in their order, so `Kept` are the functions that are
  translated, `KeptInsns(b)` the places of the instructions the reader keeps and `CodeAt` those of them that become code, and one lemma, `SelectedStep`, says what one more
  item does to any of them. `PackageInv` says that the vectors hold what of the module has been passed
  (`FunctionsRead`, and `FunctionPart` for the function that is being read), and that no two buffers are the same
  (`BuffersApart`): `getFunctionRef` follows addresses, so two functions whose blocks shared a buffer would be taken
  for each other. It holds for every file (`PackageIsTheModule`). `CodeInv` says the same of the code generator: at every place and for every value of the three counters,
  the module is `CodeUpTo`, the whole translation of the functions before, `PartAt` of the current one, the declarations of
  those behind. It needs that no look-up fails, and the look-ups succeed because of it:
  all functions are declared before the first body, all allocas and blocks made before the first instruction.
  Its theorems are of the form `Spec /\ []ProgramIsWellFormed => ...`: the front end sees to it that names are declared, that
  a block ends with its only terminator, that functions have a name of their own and the type of a function. Of a
  file that does not, the compiler uses a null pointer or leaves a block without an end. `compiler` checks that its files are such files.
  A well-formed file may hold what there is no code for. `CodeRight` is about the module at `done`; that this is reached only without such
  things is the other half of `NothingMissing`, `phase = "undefined" => ~IsTranslatable`: it takes the type or the instruction
  the generator stopped at back to the place in the file it was read from (`CodeGivesUp`). That the generator does stop at each, and
  never ends with a module if one is there, is `CompilationEnds` in the run.
- Compiler, its end (`CompilerTermination`). `CompilerMeasure` is six numbers: the pass, the words or functions to come, the place
  inside a function, the items of the loop there, whether a block is still to be entered, its instructions. Every step makes it lower
  (`CompilationGetsShorter`) and it is six naturals (`CompilationIsMeasured`), for every file, so the compiler makes
  finitely many steps. The bounds of the loops must be numbers and must stay where they are while the loop runs: the lists of the file
  do by `FilesAssumption`, those of the package because it is the module that was read (`PackageIsTheModule`).

Left to TLC: `CallsEnd` and `CompilationEnds`. What their proofs need besides the theorems above is that some step
can be taken until the call or the compiler is done, which is a matter of `ENABLED` and out of the prover's reach. Of the compiler
`PoolIsAsWritten` and `EveryShapeEndsWhereItsLengthSays`, which compare what the reader reads with
words that another program, the Ballerina front end, has written: a theorem would need its grammar as an
assumption, and the only one at hand is the reader's own, so it would say nothing.

## Findings

The five violated runs show code that does not do what a test, a comment or the rest of the
repository says. A spread visits the first `used` slots of a table that has
`n_entries` (`balmap.c:145`); it aborts for an empty source (`balmap.c:142`); a gap of an int
or byte array above the first block is what `realloc` left there (`bal_array.rs:76`); the
filler of a string array cannot be printed (`lib.rs:261`); the documentation of a record's field is
read as ints where all other documentation is read as bytes (`ConstantPool.cpp:60`).

## Plan

Done: `MapSpec` and `BalMap` (the only component with loops that depend on each
other), `ArraySpec`, `BalArray`, `VecArray`; the emitted code for ints, booleans, nil and any,
with calls, shown and proved to implement the BIR; the compiler from the file to the
LLVM module, with branches and the functions in their order. To come, in this order:

1. `MemberAccess`: the visitors of arrays and maps. A store of an any element passes the address of the
   variable (`ArrayInsnsCodeGen.cpp:61`), so that an element changes with the variable; the
   found flag of a map lookup is dropped (`MapInsnsCodeGen.cpp:49`). `EmittedCode` then gets the two
   runtimes as values.
2. `TypeNames`: `same_type` against structural equality of types, over bounded names.

## Not modelled

- In `EmittedCode`: what the code of floats, strings, bitwise xor, maps and arrays computes. `CodeGen` has
  these instructions as items with their variables.
- In the reader: the swapping of bytes and the decoding of numbers; a file that is cut short; the tables that are
  read and dropped; the values a new array is initialised with, which `ReadArrayInsn` reads and drops.
- The command line, the target triple and the emission of object code (I/O around LLVM), the optimiser.
- The string table (nothing fills it), `box_bal_*` and `array_deinit_*` (nothing calls them), stdout, the
  accounting of memory that is never freed, the type checker.
