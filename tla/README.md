# A TLA+ development of the Cute engine

The repository is a small virtual machine: an assembler (C++) that turns
`.csm` text into an image, and a runtime (C) that loads the image and
interprets it in one thread. This directory holds TLA+ models of both, the TLC
configurations that check them, and machine-checked proofs.

## Inventory

| Part | Source | State | Operations |
| --- | --- | --- | --- |
| Call frames | `Runtime/core/context.c`, `contextdef.h` | a stack of at most 1000 frames; a frame has 256 typed slots, `object_field_count` (a `uint8_t`), the caller's return slot and return address | store, move and load a slot; call, return, module call |
| Interpreter | `Runtime/core/exec.c` | instruction pointer, compare difference, exit code, the error flag | one handler per opcode, `NEXT()` |
| Containers | `Runtime/container` | cells with a type each, `sub_objects`, size | new, get, set, size, copy, and the deleter |
| Reference counts | `Runtime/objects/manager.h`, `object.h` | `ref_count` of each object | `inc_ref`, `dec_ref`, which deletes at zero and so cascades |
| Object manager | `Runtime/objects/manager.c`, `utils/utils.h` | buckets with a bitmask of 64 indices, the stack of buckets with a free index, the list of all buckets | init, end, new bucket, push, pop, new object, delete object |
| Buffers | `Runtime/lib/buffer.c` | size, capacity, data pointer | 18 operations |
| Modules | `Runtime/modules` | two static tables | lookup, argument checks, the methods of the buffer module |
| Start and end | `Runtime/core/core.c` | the image, the exit code | load, run, exit |
| Image | `Instr/image.c`, `CuteInstr.h` | a header, the procedure table, the instruction pool | write, read, free |
| Tokenizer | `Assembler/tokenizer` | source, place in it, tokens | one scan per kind of token, comments, white space; the text of a token |
| Resolver | `Assembler/resolver`, `spec` | place in the token stream, instruction bytes, label addresses, patches, procedures | parse a procedure, an instruction, an operand; patch forward jumps |
| Code generator | `Assembler/codegen` | the procedure table by id | generate, write the image |
| Driver | `Assembler/assembler` | none | read the file, run the passes |

How they interact. Everything runs in one thread by direct calls. A handler of
the interpreter reads and writes the current frame; stores count references
through the manager; a count that reaches zero deletes the object, whose
deleter (of a container) gives up the references it holds and so may delete
further objects, all inside the store that started it. A module call hands a
pointer into the frame to a method and writes its result back. Errors are a
thread-local flag: `NEXT()` stops dispatching when it is set, but does not
return, so control falls into the handlers that follow in the source.

The assembler is another process: tokens go to the resolver, its procedures and
bytes to the code generator, and the image file is all the runtime sees of it.
Three conventions cross that border and are written down on both sides in
different code: how many operand bytes an opcode has, from where a jump counts,
and that a procedure stands in the table under its id.

What is hard here is not concurrency but order and accounting: four counters
(`ref_count`, `object_field_count`, `sub_objects`, the bitmasks) that must agree
with the cells they summarise at every step of a cascade; values read before a
store that may free them; what still runs after an error; failed allocations
half-way through an operation; and narrow integers. `PROJECT.json` lists each
such place with the property that would notice it going wrong.

What makes each part correct:

- frames, containers, reference counts: no cell refers to freed memory; every
  count is exact; nothing is lost; a cascade ends; only owned memory is touched;
- object manager: two live objects never share a bit; a bit is set exactly for a
  live object; the stack holds the buckets with a free index, once each;
- buffers: size within capacity, accesses within the allocation, bytes kept
  across reallocation, append concatenates, the reserve loop ends;
- interpreter: control reaches the statements of the source and no others; casts
  and comparisons agree with the mathematical ones where they can;
- assembler: every scan ends, no character is lost, a jump lands on its label,
  the table holds each procedure under its id, an image runs whole or not at all.

## Modules

| Module | What it is |
| --- | --- |
| `Machine` | frames, containers, reference counts, module calls and the interpreter's control after errors |
| `ObjectManager` | buckets, bitmasks, the stack and the list |
| `SlotPool` | the abstract pool of places that `ObjectManager` implements |
| `Buffer` | the buffer library and its methods |
| `Instr` | the opcodes, the length of their operands, 32-bit numbers as bytes |
| `Tokenizer` | the scans, and the text of a token |
| `Resolver` | the parser, label addresses and offsets |
| `Image` | the procedure table, the file, the loader |
| `Interp` | the instruction pointer, return addresses, how a run ends |
| `Toolchain` | the composition of these four, from text to execution |
| `Assembly` | what a source program means by the documents; `Toolchain` implements it |
| `Arith` | integers, casts, comparisons through doubles |
| `MCMachine`, `MCObjectManager`, `MCBuffer`, `MCToolchain` | symmetry sets, texts and other constants for TLC |
| `MachineProofs`, `ObjectManagerProofs`, `BufferProofs`, `ArithProofs` | inductive invariants and theorems of these four components |
| `TokenizerProofs`, `ResolverProofs` | the invariants of the two passes over a text, each for itself |
| `ToolchainProofs` | the invariant of the composition, built on those two, and its theorems |
| `Induction` | induction and recursion over numbers in the form the proofs use |

### Machine

A *cell* is a slot of a frame or an entry of a container; `atom` gives each cell
an object, the value `Prim` (type primitive) or `Wild` (type object, but a
pointer to none). An object that was freed may still be named; that or `Wild` is
a stray reference (`Stray`), and using one is an access to freed memory. `fields`, `sub` and `ref` are `object_field_count`,
`sub_objects` and `ref_count`. The program is arbitrary: whenever the
interpreter dispatches, any handler may run with any operands.

A handler is cut where the code gives up a reference. Its first step is
everything up to the first decrement and leaves behind `doomed` (cells whose
reference is being given up), `store` (the write that follows) and `popped` (a
popped frame still to be released). `DropRef` is one `ct_objects_dec_ref` with,
at zero, the deletion and the container's deleter; `FinishStore` is the write,
the increment and the counter that follow; `ReleaseFrame` is the loop at the end
of `ct_ctx_return_procedure`. While any of these is pending no other handler
starts. So the order decrement, overwrite, increment is that of the code, and a
value freed in between shows as a store of an object that is not alive.

| Code | Model |
| --- | --- |
| `ct_ctx_store_atom` | `StoreSlot`, then `FinishStore` |
| `ct_ctx_move_atom` | `Mov` |
| `ct_ctx_call_procedure` | `Call`, `CallFails`, `CallFaults` |
| `ct_ctx_return_procedure` | `ReturnValue`, then `ReleaseFrame` |
| `ct_ctx_modcall` | `ModCallPrim`, `ModCallBuffer`, `ModCallFails`, `ModCallOrphan`, `ModCallFaults` |
| `ct_container_new`, `_get`, `_set`, `_copy` | `ConNew`, `ConGet`, `ConSet`, `ConCopy` |
| `ct_objects_dec_ref`, `ct_objects_del_object`, `ct_container_del` | `DropRef` |
| `NEXT()` and the fall-through | `GoOn`, `After` |
| arithmetic, casts, `seti`, compare resolvers | `StorePrim` (all overwrite a slot by a primitive) |
| undefined behaviour | `Fault`; nothing is said of what follows |

`Risks` names what a program or its environment may do that the runtime does not
guard against (a self move, a call whose arguments overrun the frame, `conget`
on a buffer, a return from the first frame, failing or dirty memory, module
calls). Dirty memory (`garbage`) means that the cells of a new container hold
anything, an object that is alive too, and that `sub_objects` counts none of it
(`Fresh`). A run allows a chosen set of them, so that a property is never true
merely because the interesting case was left out without a name. `leak` is a
history variable: the references dropped without a decrement.

### ObjectManager and SlotPool

One action per path through `ct_objects_new_object` (a bucket on the stack, a
new bucket, no memory for a bucket), `ct_objects_del_object` and
`ct_objects_end`; the second malloc of an allocation, the object's own, may fail
after the bucket was popped and perhaps not pushed back. The bitmask of a new
bucket holds any bits, as the code does not set it. Both chains use the one
`next_bucket` field. `SlotPool` promises that every object keeps a place of its
own and that the pool grows only when it has no place left; `ObjectManager`
implements it with `room` = the indices of buckets not dropped by a failed
allocation (property `ImplementsPool`).

### Buffer

One action per method. `mem` has one entry per allocated byte; `Raw` is a byte
never written; `NoMem` is the NULL data pointer. Index arithmetic is modulo
`Word`, as in `uint32_t`. `push` and `append` enlarge the size and then run the
reserve loop, one iteration per `Grow` step. An error ends a behaviour but for
deletions: the interpreter falls from `MOD_CALL` through handlers that call no
module. An access outside the allocation is the final status `fault`, with
the access recorded.

`Machine` abstracts buffers to objects without references: `ModCallBuffer` is
any method that returns a buffer, `ModCallOrphan` one whose data could not be
allocated, `ModCallFaults` one that ends in `fault` here. Which inputs do so is
the question `Buffer` answers (`InBounds`).

### Toolchain

`Toolchain` instantiates `Tokenizer`, `Resolver`, `Image` and `Interp` over
shared variables and runs them as `assemble_string` and `cute_run` do: `Tokenize`
until the end of the text, `Resolve` until the end of the stream, `Generate`
once, then `Load` and `Execute`. A run starts from a pair in `Sources`: a text
and the program it was written for, or `<<>>` for text that is no program. Only
the properties read the program.

| Code | Model |
| --- | --- |
| `tokenize_word`, `_number`, `_char`, `_symbol` | one action each; the scan is the least place that holds no such character |
| `read_comment`, `tokenize_string` | one character per step (`ReadComment`, `ReadString`): their loops need not end |
| `eat_whitspace`, with its step back | `AfterBlanks` |
| `get_value`, `resolve_string` | `GetValue`, `Resolved` |
| `expect_token`, `expect_type` | `Is`, `IsType`, `Skip`: text is compared whatever the type; what is missing is passed over |
| `resolve`, `resolve_procedure` | `Proc`, `ProcHead`, `EndProcedure`, `End` |
| `parse_instruction` | `Label`, `Instruction`, `EndInstruction` and an action for each kind of operand |
| an exception of `stoi`, `stoul`, `stof` or `at` | `ProcHeadThrows`, `UnknownInstruction`, `SlotThrows`, `IntOperandThrows`, `FloatOperandThrows` |
| `generate`, `ct_image_write` | `Overflow`, `Write`, `WriteFails`, `OpenFails` |
| `ct_image_read`, `ct_runtime_load` | `Load`, `LoadFails`, `LoadCrashes` |
| `NEXT()` | `At`; `Overrun` when `ip` has left the pool |
| `CT_INSTR_JMP` | `Taken`, `IllegalJump` |
| call and return | `Call`, `CallFails`, `Return` |

A loop that reads the same thing for ever has no step in these modules, so that
under fairness it shows as something that never happens. `Interp` leaves out
what slots hold: a condition holds or not, a slot used as procedure id holds any
number up to `MaxId`, an operation that may fail may fail. What becomes of the
slots is the subject of `Machine`, what numbers they hold that of `Arith`.

*Refinement.* `Assembly` says what a source means: statements follow one another,
a jump goes to its label, a call to the procedure with the id, a return behind
the call, and only certain statements fail. It knows no bytes. The mapping turns
`ip` into the statement that starts at that byte (`Position`), the return
addresses likewise (`OpenCalls`), and a crash after an error into the failure
(`Outcome`). While nothing of the program runs, because there is none or because
an older image was loaded (`Silent`), the document stands still: of such a run
`ImplementsSource` says nothing. An address inside an instruction is `Nowhere`, from which `Assembly`
has no step: a wrong offset, operand length or table entry breaks
`ImplementsSource`. A program (`IsProgram`) has procedures with different ids,
0 among them; each ends in a statement that leaves it and names its own labels
only, and procedure 0 does not return, for after that the interpreter does what no
source says (`machine_last_return`). `Assembled` is what the assembler owes such
a program: each statement's opcode at its address (`Address`, by adding up what
the statements before it take), the operand of each jump the way to its label,
each procedure's entry its id, address and arguments.

*Texts of programs.* `Spells` says when a stream of tokens is a program's: the
tokens of each head and each statement, in order, with as many operands as the
opcode takes, and none more. `Spelt` says it of what the tokenizer hands over. A
text is laid out as the documents lay one out (`LaidOut`) if it is a list of
lexemes that spell the program, with blanks and closed comments between them
(`Gap`) and nothing behind the last (`WrittenAs`; a blank there makes the
assembler hang, `toolchain_newline`). `LexemesFound` compares the tokens of every
laid-out text with the list its layout put there. `Straight` is a program whose
jumps all go back (`Backwards`) and whose code is no longer than a 32-bit offset
reaches (`MaxOffset`); every source of the run `toolchain` is one
(`StraightSources`).

### Arith

Two slots and `cmp_diff`, with every operation of the integers, the casts and the
comparisons between them. 64-bit words are `W` bits and the 53 bits of a double
`P`, with `P + 1 < W` as 53 + 1 < 64; doubles are numbers of halves, so that some
are no integers, rounded to the nearest with ties to even, or `Inf`, `NegInf`,
`NaN`. Undefined conversions and shifts are choices between what machines do.
Powers of two are a recursive function and a bit operation acts on the set of
places at which a word has a one (`Ones`), so that all of it can be proved about.

## Runs

| Run | Instance | Shows |
| --- | --- | --- |
| `machine_clean` | 2 objects, 2 slots, 2 frames, 2 cells, no risks; 638,211 states | `SubExact`, `FieldCountExact`, `StoredIsAlive`, `NoOrphan`, `CleanUntilError`, `LeakOnlyWhenFull`, and that every cascade ends (`HandlerEnds`) |
| `machine_risky` | 1 object, 3 slots, 2 frames, 2 cells, 2 arguments, every risk but dirty memory; 1,095,795 states | `NoDangling` and `RefExact` hold even then, also for calls that copy two references to the same object |
| `machine_freed` | 2 objects, 2 slots, 2 frames, 1 cell, dirty memory | a reference left in a new container is given up and frees an object that a slot holds |
| `machine_modcall` | risk `modcall`, 3 slots | the result of a module call is not counted, so a return forgets a reference |
| `machine_last_return` | risk `toplevel` | the interpreter goes on after the first procedure returned |
| `objects` | 5 objects, 3 buckets of 2 indices, any initial bits, failing malloc; 24,466 states | `OnePlaceEach`, `MaskExact`, `StackExact`, `ChainsEnd`, and the refinement of `SlotPool` |
| `buffers` | 2 buffers of up to 4 bytes, 32 bits scaled to modulo 10, failing memory; 224,724 states | `SizeFits`, `InBounds`, `OldBytesKept`, `AppendConcatenates`, `GrowthEnds` |
| `buffer_hang` | no failures, fair | the reserve loop never ends from a capacity of 0 or 1 |
| `toolchain` | 1,750 texts, five files that may stand there before; 73,655 states | `NothingLost`, `WholeWords`, `LoadedExact`, `TableExact`, `Spelt`, `LexemesFound`, `Assembled`, `ScanEnds`, `AssemblyEnds`, and that backward jumps, calls and returns do what the source says (`ImplementsSource`) |
| `toolchain_newline` | programs whose text ends in a newline | they are never assembled |
| `toolchain_forward` | programs with forward jumps | they land 4 bytes behind the label |
| `arith` | words of 4 bits, doubles of 2; 33,850 states | `RoundTrip`, `DivisionExact`, `CompareSound`, `CastIntExact`, `CastUIntExact` |

### The bounds and why they are enough

- Two objects are needed for a cascade, a cycle, and for an object freed while
  another's cell is overwritten; two frames for caller and callee; two slots
  for source and destination, and three for two arguments that may overrun the
  frame, with one object (several objects under these risks are the theorems'
  part). 256 slots are scaled to `NSlots`, and the counter
  that wraps at 256 wraps at `NSlots`, so a full frame is reached. The theorems
  below cover every size.
- `MaxLeak` ends behaviours after more forgotten references to one object, and
  those in which dirty memory took a count as far below zero;
  `MaxSize` bounds containers, and `ByteSize(n) = n + 1` stands for 72 + 9n in
  the size of a copy: all that matters is that it is more than n.
- Two indices per bucket let a bucket be empty, partly full and full; three
  buckets let the stack hold two while a third is made.
- `Word` = 10 and `MaxBytes` = 4 keep the relation of 2^32 and 2^31 - 1
  (`MaxBytes` = `Word` / 2 - 1), with `MinCap` = 2 for 16; the growth 2, 3, 4, 6
  includes a loop of two iterations that succeeds and one that is too large.
  Two byte contents, 0 and `Raw`, are enough to tell a copied byte from one that
  was not.
- The texts of `toolchain` are: every main procedure of up to two statements
  chosen among a move, a number, a call, a label and three kinds of jump, alone,
  with a second procedure of up to two statements, and in reverse order; each
  mnemonic once; each text in three layouts (no space, spaces and tabs,
  comments). Further, one program with each character in turn removed or
  replaced by a digit, a letter or a quote, and all texts of up to three
  characters over ten that the tokenizer tells apart, and ids and argument counts
  that an unsigned int or an unsigned long cannot hold. So each scan meets each
  kind of neighbour, and the end of the text, in every state.
- A member of `Letter` is a run of letters, digits and underscores that begins
  with no digit: a mnemonic or a label is one character. `IntMax` = 300 stands
  for `INT_MAX` and is still larger than a byte, `UIntMax` = 601 for `UINT_MAX`
  and `ULongMax` = 4999 for `ULONG_MAX`; `Unfit` names one number that `stof`
  refuses; `MaxCalls` = 3 for 1000 allows
  a call in a called procedure and a call that fails; `MaxArgs` = 4 for 256;
  `MaxId` = 2 reaches a procedure id that does not exist. `Earlier` holds one file
  for each answer of the loader: nothing, another kind of file, an image of
  another version, a whole image, and one cut short.
- `W` = 4 and `P` = 2 keep the bounds above the last integer that a double
  holds exactly, so that rounding up to 2^(W-1) and 2^W, ties, and unequal
  integers with equal doubles all occur.
- Deadlock is not checked: `halt`, an error or a fault ends a behaviour, and so
  does an end of the manager.

### Fairness

`ScanEnds` and `AssemblyEnds` assume weak fairness of `Assemble`: the assembler is
one thread that waits for nothing. Nothing is assumed of the runtime that
executes the program.

`HandlerEnds`, `GrowthEnds` and `CallsEnd` assume weak fairness of the steps
that continue what a handler has begun (`Continue`, `Grow`), and of nothing
else: the runtime is one thread that does nothing else until the handler is
done. No fairness is assumed of the program.

## Proofs

Each component has its proofs in a module of its own. Nothing is assumed but the
assumptions on constants stated in the modules, which TLC evaluates in every
run, and the hypotheses on `Risks` listed below, each of which names a class of
programs or of environments.

Induction. The provers take no predicate as a parameter, so `Induction` states
induction for sets of numbers: a set with 0 that has with each number its
successor contains all of them. It follows from the well-founded inclusion of
finite sets. Two more forms come from it: a set of numbers that is not empty has a
least element (the scans of the tokenizer take one), and a sequence of values
can be continued for ever (`Recursion`), from which a recursive function is
known to satisfy its own equation (`Pow2` of `Arith`, `Number` of `Resolver`).

### Machine

| Theorem | Property | Risks excluded |
| --- | --- | --- |
| `TypeCorrect`, `NothingDangles`, `RefCountsAreExact`, `SubCountsAreExact` | `TypeOK`, `NoDangling`, `RefExact`, `SubExact` | `garbage` |
| `NothingIsOrphaned` | `NoOrphan` | `garbage` |
| `StoredSurvives` | `StoredIsAlive` | `garbage`, `movself`, `getself` |
| `FieldCountsAreExact`, `OnlyFullFramesLeak` | `FieldCountExact`, `LeakOnlyWhenFull` | `garbage`, `modcall` |
| `NoFaultBeforeError` | `CleanUntilError` | all but `oom` |

`RefExact` alone is not inductive. That a decrement to zero frees an object
nobody holds needs `RefExact` and `NoDangling` together; that a container's
deleter gives up all of its references needs `SubExact`; that in turn needs
that no reference lies past the container's last cell (`RefsInside`), that
freed objects and frames above the top hold nothing that is not being given up
(`DeadHoldNothing`, `AboveTopIsClear`) so that reusing them forgets nothing,
and that a pending store writes to a cell that holds nothing else and whose
owner survives the cascade (`StoreHasTarget`): a container being written is
still held by a slot of the frame. `Inv` is their conjunction (`InvHolds`).

The other theorems add to it what is true in the middle of a handler: an object
with a count of zero is the one about to be stored (`Tended`); the value about
to be stored is held by some cell that is not being given up (`StoreHeld`); a
counter is the number of object slots less those being given up, which are all
of the popped frame (`CountOK`, `DoomedOK`).

The hypotheses are the places where the code does not guard. With dirty memory a new
container may hold references that `sub_objects` does not count, to freed objects
and to objects alive; giving one up takes a count nobody made, so that not even
`RefExact` and `NoDangling` are left (`machine_freed`). A slot moved
onto itself, or a cell of a container moved over that container, gives up the
last reference to what it is about to write. A module call writes its result
without counting it. After an error even a program that takes no risk may run
such an instruction with operands read from anywhere, so `StoredIsAlive` speaks
of the time before the first error.

The proof has a lemma per action. Lemmas at the start say how the number of
references changes when one cell is written or cleared, and that the first
`sub_objects` references of a container are all of them; the long ones are
`DropRefPreserves`, `FinishStorePreserves`, `CallPreserves` and
`ConCopyPreserves`, each with a step per conjunct of `Inv`. For the later
theorems the actions are sorted by what they do to cells, counts and pending
work (`Kinds`), so that each theorem needs a lemma per kind and not per handler.

### ObjectManager

`TypeOK`, `OnePlaceEach`, `MaskExact`, `StackExact`, `ChainsEnd`, and the
refinement `ImplementsPool`, for any number of objects, buckets and indices.

`next_bucket` is the link of two chains at once, and the definitions that walk
along it are recursive; so `Inv` states both without a walk. The stack is a
numbering of the waiting buckets, each linked to the one below (`Stacked`); no
cycle can arise because the buckets can be given ranks that fall along every
link (`Descending`): after a push the stack is ranked by its numbering, with the
pushed bucket between it and all others (`PushDescends`). That a walk reaches exactly the numbered buckets, and
ends, is then proved by induction along the numbering and down the ranks. Two
parts are about uninitialised bitmasks: no live object has a bit that was set
when its bucket was made (`Apart`), and a bucket that began full can wait on the
stack only as the first one (`FullIsFirst`), which the code reaches by pushing
the bucket it starts with without looking. `DroppedHaveRoom` says that what a
failed allocation dropped could still serve.

The refinement maps `room` to the free indices of the buckets that were not
dropped; a new bucket is an extension of the pool in the same step as the
allocation, and a failed one takes its room away.

### Buffer

`TypeOK`, `SizeFits`, `InBounds` and the action properties `OldBytesKept` and
`AppendConcatenates`, for any number of buffers and every width of the index.

`Inv`: a buffer has as many bytes as its capacity says, or none (`Sound`), and
between two calls a size within it (`Whole`), which fails while the reserve loop
of `push` or `append` runs, for the size is enlarged first; the loop remembers
what the buffer was (`GrowSound`), has not changed a byte below the old size, and
still has the other buffer's bytes. `InBounds` says which access leaves the
memory: one whose index plus length wraps, or one to memory that was never
allocated. Each method is shown to keep `Inv` and every byte below both sizes
in one lemma.

### Toolchain, Tokenizer and Resolver

`TypeOK`, `NothingLost`, `WholeWords`, `LoadedExact` and `TableExact`, for every
text, whether it is the text of a program or not. For programs, of any number and
size of procedures:

| Theorem | Says |
| --- | --- |
| `LexemesAreTokens` | `LaidOutAs(list)` => the tokens are that list |
| `TokensSpell` | `LaidOut` => `[]Spelt` |
| `CodeIsAssembled` | `Straight` and `[]Spelt` => `[]Assembled` |
| `RunsAsWritten` | `[]Assembled` => `ImplementsSource` |
| `ProgramsRun` | `Straight` and `[]Spelt` => `ImplementsSource` |
| `TextRuns` | `LaidOut` and `Straight` => `[]Assembled` and `ImplementsSource` |

So `TextRuns` goes from a text to its run with hypotheses on that text and its
program alone: nothing about the code is assumed. Neither can be dropped: a text
that ends in a newline is never assembled, and a jump forward lands four bytes
behind its label (`toolchain_forward`).

`TokenizerProofs`: the tokens lie one after another (`Apart`, `Before`), every
place up to the one reached is in a token, a blank, a quote or a comment
(`AllCovered`), and a word or number ends where no letter or digit follows
(`WholeWords`). While a string or a comment is read its beginning is still known
(`Quoted`, `Commented`). `ResolverProofs`: the stream ends in a token the
resolver never passes (`StreamOK`, `Reading`), everything emitted is a byte
(`Code`), every label lies in its procedure and every patch inside the bytes
(`Pending`). `ToolchainProofs` takes both for the instances that `Toolchain`
composes (`Passes`), adds that the file is a beginning of the image, no image, or
what stood there before (`Filed`) and that the registers keep their types (`Running`).

`TokensSpell`. The tokenizer of a laid-out text is always behind one of its lexemes
and in the gap before the next, or in a comment of that gap whose newline is ahead
(`OnWay`). From inside a gap the blanks end at the next lexeme or at a comment
(`GapStep`); the character a lexeme begins with decides which action runs
(`KindOfStep`, which is what the different kinds of character in
`ToolchainAssumption` are for); and a scan ends where the lexeme does, the only
place it can (`PastUnique`, `ReadsLexeme`).

`CodeIsAssembled`. The resolver is always at a place of the program: before a
procedure, in its head, before a statement, before operand `n` of one, before
the semicolon, or done (`Assembling`, one disjunct for each of its loops). At
each of them the procedures behind are listed and their code is right
(`Finished`), and so are the statements behind in this procedure (`Emitted`);
the labels behind have their addresses (`Labelled`) and no patch waits, for no
jump goes forward (`Begun`); inside a statement its opcode stands at its address
and the code is as long as the operands read so far. There is a lemma for each
place (`FollowsProcedure`, `FollowsHead`, `FollowsLabel`, `FollowsSlot`, ...),
which shows from `Spelt` that the action taken there is the one meant and where
it leads. Emitting more never changes code that is right (`CodedStays`,
`FinishedStays`), for bytes are only added behind it. That an offset of a jump
comes back from its four bytes is `FourBytes`.

`RunsAsWritten` is the refinement, for any depth of calls: `Assembled` is all it
needs of the assembler. The proof: addresses grow along the statements
(`AddressOrder`), so each belongs to one statement that makes bytes
(`StatementAtAddress`), and what follows a place in a body is the next such
statement, for labels make none (`FromIs`). A loaded image holds that code, and
its table the procedures: as many different ids as procedures, each below their
number, are all of them (`AllIdsUsed`), so every id that passes the check of
`ct_ctx_call_procedure` is one of the program's. `Track`, inductive with `Inv`,
says that while a program runs the pointer and every return address lead to a
statement, the outermost to one of procedure 0. Then the interpreter finds at
the pointer the opcode and operands of that statement (`Fetch`), never overruns
the pool or lacks a frame (`NoFault`), takes no illegal jump (`NoIllegalJump`),
and each of its steps is the document's (`GoingOnIsGo`, `TakenIsJump`,
`CallIsCall`, `ReturnIsReturn`, `HaltIsHalt`, `FailingIsFail`) or none
(`EnterIsStutter`).

`LoadedExact` has two halves, for the two ways an image gets to be loaded: one just
written is the image the assembler made, and one that stood in a file that could
not be opened is the whole image that stood there. That it is then the wrong one
is a departure of the code (below); `RunsAsWritten` is about a run of the image
just made.

`ToolchainAssumption` is what the code is built on: a letter is no digit, `'\0'`, a
blank, `#` and the quotes are neither, an unsigned int is no longer than an
unsigned long, a float has four bytes, there is room for one call, texts are
texts, and what is paired with a text is a program or nothing. A file that stands
there before may be any file, an older image too; that it holds no more entries
and bytes than its header says only means that what follows is never read.

### Arith

`RoundTrip` and the action properties `DivisionExact`, `CastIntExact`,
`CastUIntExact`, `CompareSound`, for integers of any width and doubles of any
precision with `1 < P` and `P + 1 < W`. Rounding is shown to be monotone, to
keep the sign, and to be exact below 2^P; powers of two above that are doubles, so
a number on one side of such a bound stays there when rounded. The invariant says
that an odd number of halves occurs only where doubles are that dense, which is
why a difference of two doubles never rounds to zero or across it.

`DivisionExact` is stated without the operators of the steps: a word stands for
the number whose two's complement it is (`Signed`), and a quotient and a remainder
are two numbers with a = b*q + r in which r is smaller than b and has the sign of
a (`Leaves`). There is at most one such pair, and none that W bits hold exactly
when b is 0 or `INT_MIN` is divided by -1; the steps store its parts and trap
just then.

### Only model-checked

- Liveness (`HandlerEnds`, `GrowthEnds`, `ScanEnds`, `AssemblyEnds`), which is out
  of the prover's reach.
- `LexemesFound`, which adds to `LexemesAreTokens` that the layouts of the run are
  layouts in the sense of `LaidOut`.
- The violations: what the six runs show is a counterexample.

## Where the code departs from its documents

The six runs that end in a violation each quote a line in `PROJECT.json`,
`findings`. Also seen, and stated by no run:

- when the image file cannot be opened for writing, the assembler ends as if it had
  written it, and an older image in that file is loaded and runs
  (`image.c:26`, `codegen.cpp:37`; `OpenFails` of `Image`, stage "stale"), where
  the README says that the assembler outputs the file;
- `push` writes its byte one past the end of the buffer and leaves the new last
  byte as it was (`buffer.c:259`; `PushByte` of `Buffer`); only the >= of the
  reserve loop keeps the write inside the memory (`InBounds`);
- `mov $x $x` on the only reference to an object frees it and writes it back
  (`contextdef.h:77`; the risk `movself` of `Machine`, under which `StoredIsAlive`
  fails);
- when the malloc of the object that filled a bucket fails, the bucket has a
  free index but is on no stack (`manager.c:168`; the set `dropped` of
  `ObjectManager`, which `StackExact` excepts);
- procedure ids with gaps write behind the table, although nothing in the
  documents forbids them (`codegen.cpp:24`; `Overflow` of `Image`);
- `out` reads two bytes of operands, but a number written as its format is
  assembled as four (`resolver.cpp:120`), so the format must be written as a
  slot, as the README's example does;
- a negative number, a string or the end of the text among the operands makes
  the resolver hang (`resolver.cpp:109`); a number above `INT_MAX` throws even
  for `setu` (line 119); a label never defined is address 0 (line 69);
- a backslash that begins a string escapes nothing (`tokenizer.cpp:140`);
- two equal infinities compare as not equal, and large integers that differ as
  equal (`exec.c:45`);
- a division or a modulo by 0 stops the process without an error, and so does one of
  `INT_MIN` by -1, also the modulo, whose result would be 0 (`exec.c:366`);
- `f2u` converts to a signed integer (`exec.c:333`), so from 2^63 up to 2^64 it
  passes its check and stores whatever the machine makes of a conversion that C
  does not define; `CastUIntExact` says nothing of that half;
- `f2i` of 2^63 passes its check too, for `INT64_MAX` is rounded up when compared
  with a double (`exec.c:296`), and so does `f2u` of 2^64 (`exec.c:322`);
- an id or argument count between 2^32 and 2^64 is narrowed without a word
  (`resolver.cpp:41`, 51; `Narrow` of `Resolver`);
- the loader does not check its two allocations (`image.c:67`, 71; `LoadCrashes` of
  `Image`);
- after an error that returns at once the exit code is uninitialised
  (`exec.c:63`), and a return handler reached by the fall-through overwrites
  the 1 that `NEXT()` set (`context.c:163`);
- the capacity of a new buffer is at least 16 where `docs/modules/00-buffer.md`
  says it fits the size exactly; find-buffer rejects a pattern that would fit
  exactly at the end;
- `ct_objects_end`, which the runtime never calls, reaches only part of the
  buckets because pushing a bucket rewrites its link in the list.

## Not modelled

- Error texts, formatting and logging, the debug build, what `out` prints, build
  files: no property is about them.
- The exit code, and what a process that ended leaves to its parent.
- The arithmetic of doubles: it is the machine's.
- The depth of the C stack in a cascade of deletions. A container so large that
  its byte size overflows 32 bits is beyond `MaxSize`.
- Reading the source file and printing its tokens.
- What is behind the instruction pool once the pointer has left it: that is
  undefined, and the model ends there (`Overrun`).

## Plan

What is left, in this order:

1. An abstract machine without reference counts (objects live as long as they are
   reachable or forgotten) that `Machine` implements.
2. Results of the buffer searches against a reference definition; the byte size
   of containers in scaled words; the exit code in `Interp`.
