# Specifications of cairo-vm.c

TLA+ specifications, model-checking configurations and machine-checked proofs
for the Cairo VM written in C in this repository. Paths below are relative to
the root of the repository.

## 1. The system

The repository is a library in the making: the state a Cairo program runs on
(memory, runner, registers), the decoder of its instructions, the field its
values live in and the reader of its compiled form exist; the
fetch-decode-execute loop, builtins, hints, trace and memory relocation that
`README.md` describes do not exist yet. Everything runs in one thread. What is
hard about it is therefore not scheduling but long sequences of legal calls,
calls that fail half way, counters and buffers of fixed size, results nobody
looks at, and bit fields.

| component | source | state it keeps | operations |
|---|---|---|---|
| values and addresses | `src/relocatable.*` | none | comparison of tagged values |
| memory | `src/memory.*` | number of segments; hash table from address to value, whose keys and values are malloc'ed | `memory_new`, `memory_get`, `memory_insert`, `memory_add_segment`, `memory_load_data`, `memory_free`, `print_memory` |
| runner | `src/cairo_runner.*`, `src/vm.*`, `src/run_context.h`, `src/program.*` | program, memory, segment bases, initial and final pointers, pc/ap/fp | `runner_new`, `runner_initialize` and the five functions it is made of, `runner_free` |
| decoder | `src/decoder.*`, `src/instruction.*` | none | `decode_instruction`, `decode_offset`, `instruction_size` |
| conversions | `src/utils.*` | none | eight conversions between integers and byte buffers, `felt_equal` |
| felt library | `lambdaworks/lib` | none; the caller owns the buffers | limbs to field element and back, constants, four operations |
| parser | `src/parser.*` | a `Program` on the heap and the blocks it points to | `parse_json_filename`, `free_program` |
| simdjson | `lib/simdjson.*`, vendored | structural indexes, tape, string buffer, stack of open containers | stage 1 (indexing), stage 2 (walk, strings, numbers), navigation of the tape |

Interactions. The runner owns a memory and calls `memory_add_segment` four
times and `memory_load_data` twice during one initialization; a client may use
the same memory through the memory API before and after it. `memory_insert`
compares values with `maybe_relocatable_equal`, which calls `felt_equal`. The
table itself belongs to Collections-C and calls back into `key_compare`. The
decoder calls two of the conversions. The parser reads a file with simdjson:
stage 1 finds the structural characters, the walk of stage 2 turns them into a
tape, and the parser navigates the tape, copies texts onto the heap and turns
constants into felts with `from`. Nothing connects the decoder, the parser or
the felt operations to the runner yet.

What is hard, and what makes each component correct:

- **memory**: a cell is written at most once whatever the calls, loads and
  errors (write-once); cells exist only in segments that were added; a new
  segment is empty; what was accepted can be read; a load that stops half way
  leaves what it wrote and an error that can be explained; blocks are not lost;
  two 32-bit counters wrap.
- **runner**: both loads of the initialization are unchecked on the strength of
  a comment; the image in memory must be complete and clean also when the
  memory has been used before or the runner is initialized again; the two words
  of the first frame are found by position.
- **decoder**: every field at its bits, every bad group rejected with the error
  of the first group looked at, nothing lost; two results derived from another
  field.
- **conversions**: which values survive being written and read back.
- **felt library**: an element has two forms, limbs and Montgomery form; the
  one that is written must be the one that is read by the next call, limbs
  that nobody reduced must not break anything, and results may be operands.
- **parser**: each of its allocations may fail and each access to the document
  may throw; what it returns has to be something `free_program` can free.
  Constants pass through 64 bits.
- **simdjson**: masks with a carry from block to block; batches and vectors
  written past the end; buffers sized from the length of the file alone; a walk
  that has no bound but what it finds; back-patched words.

## 2. Modules

| module | what it is |
|---|---|
| `Relocatable` | addresses with wrapping fields, felts as four limbs, tagged values and their comparison |
| `WriteOnceStore` | abstract specification: segments come into existence, a cell is written at most once, all ends together |
| `Memory` | `src/memory.c` under any client |
| `Runner` | `src/cairo_runner.c` over `Memory` |
| `Utils` | the conversions of `src/utils.c` on 64-bit words |
| `Conversions` | a caller that writes and reads back |
| `Decoder` | `src/decoder.c` on 64-bit words |
| `FieldRegisters` | abstract specification: registers that hold field elements |
| `FeltLibrary` | `lambdaworks/lib/lambdaworks/src/lib.rs` on buffers of four limbs |
| `Parser` | `src/parser.cpp` over a heap |
| `Scanner` | simdjson stage 1: the structural characters of a file |
| `StringParsing` | simdjson `parse_string` |
| `CodePoint` | the arithmetic on code points in simdjson `handle_unicode_codepoint` |
| `Number` | simdjson `parse_number`, on integers |
| `JsonDocument` | what stage 1 leaves to stage 2 |
| `Walk` | simdjson stage 2: the walk and the tape |
| `Dom` | the navigation of the tape, and the grammar of JSON as a reference |
| `MemoryProofs`, `RunnerProofs`, `DecoderProofs`, `FeltProofs`, `ScannerProofs`, `WalkProofs`, `ParserProofs` | theorems about the module named; `DecoderProofs` also about `Conversions`, `WalkProofs` about `Dom` |
| `ScalarProofs` | theorems about `StringParsing`, `CodePoint` and `Number` |
| `MCMemory`, `MCRunner`, `MCWords`, `MCFeltLibrary`, `MCParser`, `MCScanner`, `MCDom` | values of the constants for TLC; `MCDom` also checks the grammar against a generator of JSON texts, and `MCWords` and `MCScanner` put independent machines into one run |

### Memory

| specification | code |
|---|---|
| `num_segments`, `data` | the two fields of `struct memory`; `data` is a function from the addresses present |
| `blocks` | malloc'ed keys and values that nothing has freed |
| `refused` | how often `cc_hashtable_add` has returned an error |
| `call` | the stack frame of the call under way, or of the last one with its result |
| `memory_insert(ptr, value, ok)` | the whole of `memory_insert`, one disjunct per way out; `ok` is `!is_error` |
| `memory_load_data`, `LoadStep`, `LoadReturn` | entry, one turn of the loop, the way out |

`Insert` and `AddSegment` are single steps because nothing can happen in the
middle of them. A load is one step per turn, so its half-done states are states
at which invariants are checked. The hash table is external: `cc_hashtable_get`
and `cc_hashtable_add` are what the code relies on, with `key_compare` deciding
which keys are one, and an entry may be refused. `memory_get` changes nothing
and so is an operator that the properties use, not an action.

A value that conflicts is one that `maybe_relocatable_equal` tells apart. Felts
are sequences of four limbs over a small set of contents; the two in the runs
differ in the last limb only.

### Runner

One runner over one memory. `stage` is where control is inside
`runner_initialize`: each call of `memory_add_segment` is a step together with
the assignments up to the next call, each load is entered by a step and then
executed by `RunLoad`. The steps after a load do not look at its result,
because the code does not. `locals` holds `return_fp`, `end` and the `stack`
array. Between initializations the client may do anything to the memory that
`Memory` allows. `runner_free` ends the memory and the program's array; a new
runner may follow.

### Utils and Decoder

An unsigned integer is the set of positions of its one bits. Masks, shifts and
`|` are then set operations at the real widths, which TLC's 32-bit integers
could not hold, and what leaves the width of a variable is lost as in C. A
`switch` is a `CASE`, with the `default` branch as `OTHER`. `Layout` and
`Groups` restate the drawing in `src/instruction.h`, bit by bit, without the
masks and shifts of the decoder.

### FeltLibrary and FieldRegisters

`buf` is the contents of each `felt_t` the caller owns and `written` the ones a
call of the library wrote last. A `FieldElement` of the crate is its number
times R modulo the prime (Montgomery form, as `docs/rust-integration.md`
describes it); `limbs_to_felt` and `felt_to_limbs` are the two conversions of
`lib.rs`, and every wrapper converts its operands, calls the crate and writes
the result, into any buffer. Buffers that no call has written hold anything.
`FieldRegisters` has a register with a field element for each buffer and no
limbs at all; an element comes out of a number that fits in a `uint64_t` or out
of other elements. `ComputesInField` says the library implements it.

### Parser

`heap` maps each block held to its size and its cells, `program` is the
`Program` being built (its fields `Unset` until they are written), `pc` is the
next thing `parse_json_filename` does. Each `malloc` is a step that may fail,
each turn of a loop is a step, and each access to the document may throw, which
ends the process: the callers are C. A file is the three members the parser
asks for, any of them missing. `free_program` computes the pointers it passes
to `free` from the program and the heap as the code does, by the length it
finds. The client parses and frees without end.

### simdjson

Of 48,673 lines, the program runs one kernel (chosen by the processor; the
lines mapped are those of haswell) and of it what `parser::load` and the
accessors of `src/parser.cpp` reach.

- `Scanner` treats a file block by block, with masks as sets of bits as the
  code has them as words, three carries between the blocks, and the indexer
  that writes the places of one block while the next is scanned, in whole
  batches. `Lexed` is the reference: a lexer that takes a character at a time.
- `StringParsing` is one call of `parse_string`; each turn of its loop copies a
  vector and takes one of four ways. What a cell of the buffer holds is told by
  the place of the file it came from, so a misplaced byte cannot pass for
  another. `Unescaped` is the reference. What four digits come to is a class
  there, in the code and in the reference alike. The arithmetic behind the
  classes is in `CodePoint`: the code point of a surrogate pair and the bytes
  that are written, against UTF-16 and UTF-8 as the Unicode standard has them.
- `Number` is one call of `parse_number`, one step per digit. Two history
  variables keep the number as written and the character behind it.
- `Walk` has one action per label of `walk_document`. Its document is what
  stage 1 leaves, with the byte that follows the file, since the walk reads it.
  `JsonDocument` says what such a document is; `ReadyToWalk` of `Scanner` is what
  the walk takes for granted, checked of every file, broken ones included.
- `Dom` has `after_element`, the iterators and `scope_count` over the tape the
  walk wrote, and JSON over structural characters as the reference. `Met` is
  what the iterators of a container meet from a place on, a function of the
  container and the place, so that it can be reasoned about.

## 3. What is checked

Passing runs:

| run | bounds | question |
|---|---|---|
| `memory_calls` | 3 segment numbers, 2 offsets, 2 segments added, 4 values, 6 arrays of up to 3, every address, 1 refusal | is every sequence of calls safe, can every error be explained, does every load return? |
| `runner_boot` | two initializations and one segment more, 3 programs, a client that writes under, in and above the runner's segments | is the image always complete, clean and apart? |
| `decoder_words` | all 2^16 flags; offsets around every power of two; values of at most two one bits, and the masks | is decoding the inverse of the layout, are errors the right ones, and what survives a conversion? |
| `felt_field` | limbs of one bit, prime 13, 3 buffers with anything in them, alike up to their names | does the library compute in the field? |
| `parser_calls` | attributes of 0 to 3 texts, any of them wrong or with a NUL inside; 8 data; arrays that report 2 elements at most; numbers of 2 bits; 6 blocks | can what is returned always be freed, and is it what the file says? |
| `json_scan` | every file of up to 4 characters of 8 classes, 5 of 5 classes, up to 10 of 2 classes, alone and behind up to 5 operators, in blocks of 6 and batches of 2; strings of up to 3 pieces in vectors of 4; integers of up to 3 digits in 4 bits | do blocks, vectors and widths make no difference? |
| `json_walk` | every JSON text of up to 9 structural characters, all that differ from one of up to 7 in one of them, all short ones in front of any byte; depth for 3 open containers; counts up to 2 | is exactly JSON taken, within the buffers, and does the tape read back as the file? |

Why the bounds are enough. In the memory, two offsets make every load of two
elements started at the second one wrap, and an array of three meet its own
first cell, with an equal and with a different value. Two segments with the
same offsets are what an aliasing of keys needs. One refusal may fall into a
plain insert, into the middle of a load, or nowhere. The four values differ in
the last limb of a felt and in one field of a pointer. `MaxSegments < SegMod`
keeps the segment counter from wrapping. In the runner the programs have zero,
two and three words, with `main` at the start, inside and past the end, and the
client reaches cells of segments that the second initialization will add. The
decoder acts on the flags as a whole, and on each offset alone, so all flags
over one triple of offsets and many triples over two settings leave nothing out
but combinations of independent parts. A conversion moves bits one at a time,
so pairs of bits show every loss and every collision. With the prime 13 below
2^4 three of the sixteen arrays of limbs are not reduced, and three buffers are
two operands and a result in all their coincidences. In the parser, two
reported elements are the smallest number with a first and a last turn of each
loop, and a third in the file is one that the count leaves out; six blocks hold
one whole program, so running out of them is a failure as well. A block of six
has even and odd runs of backslashes that end before, at and after its end.
Three to five operators in front move the end of the first block into the
middle of a file, and with ten more characters there are three blocks and the
two steps of two blocks each that the reader hands out. Masks of three and four
bits need the second batch, and those of five and six the loop behind it. A
vector of four cuts an escape of two bytes, one of six and a surrogate pair of
twelve anywhere. Four bits overflow at 16, between the two- and the three-digit
numbers with every first digit, as 64 bits do at twenty. Nine structural
characters nest three containers, put one behind another inside a third, and
overflow a count of 2; one replaced character makes a text that nearly is JSON
out of every one that is, and the bytes behind the file are there for every
short text because only the last characters meet them.

Properties, by the hazard they are for:

| property | what it says | if the code were wrong |
|---|---|---|
| `SegmentsAllocated` | every cell is in a segment that was added | bounds guard off by one |
| `FreshSegment` | `memory_add_segment` returns what did not exist and reads as empty | the same, or keys that alias |
| `WriteOnce` | no call, error or half load changes a cell | a lost overwrite guard |
| `AcceptedIsStored` | what was accepted so far is what `memory_get` returns where it was meant | a comparison that is too lenient, a pointer that moves wrongly |
| `ErrorHasCause` | an error means a missing segment or a conflict still there | pointers that never compare equal |
| `HeapBalance` | blocks held = two per entry and two per refusal | keys not freed |
| `LoadReturns` | a load ends | an iterator that does not move |
| `ImplementsStore` | all of it is a write-once store | any of these |
| `LoadErrorsUnreachable` | the comment at `src/cairo_runner.c:33` | a second initialization into old segments |
| `BootImage` | whole program at `program_base`, pc at main, frame under fp, `ret` of main goes to `final_pc` | frame words swapped |
| `CleanBoot` | the four new segments hold that and nothing else | a write the guard let through earlier |
| `SegmentsApart` | the four pointers are in four segments that exist | a segment not counted |
| `InitializeReturns` | `runner_initialize` returns | a load that does not end |
| `LosesNothing` | an accepted word is the one the layout gives for its instruction | a wrong shift, mask or bias |
| `RejectsByGroup` | rejected exactly for a group with two bits or the high bit, with the first error | a missing default branch, another order |
| `ImmediateTakesTwoWords` | size two exactly with bit 2 | enum values taken for bit values |
| `WhatReadersKeep` | what each pair of conversions preserves | any change of a shift or a width |
| `EqualIsSameElement` | comparing limbs the library wrote is comparing elements | limbs that are not reduced, a limb not compared |
| `ComputesInField` | a chain of calls on any buffers computes in the field | Montgomery form written out, a result written early |
| `ReadyToFree` | what `free_program` reads was written, is freed once, and is all there is | a length left behind by a failed allocation |
| `CopiesFit` | no copy leaves its block | a NUL not counted |
| `TextsOfTheFile` | texts up to their first NUL, in their places, or none | a loop bounded by another count |
| `KeepsSmallConstants` | as many constants as simdjson counts; those that fit are kept, others never look like themselves | a narrower scan, a block of another size |
| `FindsTokens` | the indexes are the starts of the tokens, wherever blocks end | a lost carry |
| `RefusesStrings` | open strings, raw control characters and empty files are refused, and nothing else | a check against the wrong block |
| `IndexesFit` | whole batches stay in what was allocated | a capacity without the batch |
| `ReadyToWalk` | what the walk takes for granted of any file: places in the file, strings over before the next one, three entries behind them | a missing sentinel |
| `UnescapesString` | the buffer is the string, whatever a vector cuts | a quote found behind a backslash |
| `StaysInItsBuffers` | a string takes no more than its bytes, and a vector no more than the slack | a search that passes the quote |
| `ReadsTheNumber` | integers are the ones in the text, refused only if they do not fit | an overflow taken for a number |
| `ReadsWhatStage1Wrote` | the walk stops on the entries written for it | the check of issue 906 left out |
| `TapeFits`, `StringsFit` | the buffers sized by the file are never outgrown | a capacity one word short |
| `TakesJSON` | exactly JSON is taken, and a depth error has its cause | a depth that does not go back |
| `ReadsBack` | the iterators meet the whole file in its order | a back-patched word off by one |
| `SizesAreThoseOfTheFile` | counts are the numbers of elements, saturating | a comma counted twice, an overflow |
| `WalkReturns` | the walk ends | a token looked at and not taken |

`MemoryTypeOK`, `FeltTypeOK` and `WalkTypeOK` are the type invariants; that of
the felts has the bound below the prime and that of the walk the bound of the
depth in them. Those of `Runner` and `Number` are proved and not listed with a
run.

Runs that find a disagreement between a text and the code (each checks the one
property that states the text):

| run | text | what happens |
|---|---|---|
| `memory_next_free` | `README.md:179` | the pointer a load returns may be an occupied cell |
| `memory_leak` | `src/memory.h:54` | the blocks of a refused entry are never freed |
| `memory_print` | `src/memory.h:57` | cells above a gap are not printed |
| `runner_refusal` | `src/cairo_runner.c:33` | a load fails although the segments were added, because the table refuses an entry |
| `parser_constants` | `README.md:227`, `README.md:149` | every constant of more than 64 bits becomes the same felt, negative immediates among them |

Fairness. `LoadFairness` and the runner's `Fairness` are weak fairness of the
steps inside one call of C: the thread that entered `memory_load_data` or
`runner_initialize` executes until it returns and no other thread can disable
its next step. `WalkSpec` has the same for the one call that the walk is. The
client is never obliged to call anything, so no liveness is claimed across
calls.

Deadlock is checked for the memory, the runner and the felts. The decoder, the
conversions, the strings, the numbers, stage 1 and the walk stop when their one
call has returned, and the process that parses may exit or terminate.

## 4. What is proved

Each `*Proofs` module states its theorems for every value of the constants.
Their argument is an inductive invariant, checked by TLC before it was proved;
each action has a lemma that it preserves it.

**`MemoryProofs`**, for all widths, all sets of addresses, values and arrays,
any number of segments and of refused entries:

- `Invariance`: the inductive invariant `MemoryInv`;
- `TypeCorrect`, `BlocksAccounted`, `AcceptedIsRead`: the invariants
  `MemoryTypeOK`, `HeapBalance`, `AcceptedIsStored`;
- `CellsAreWrittenOnce`: the action property `WriteOnce`;
- `ErrorsHaveCauses`: `ErrorHasCause`, from `CellsAreWrittenOnce`'s lemma that
  a conflict once there stays there;
- `LoadsGoOn`: nothing interrupts a running load, and each of its turns moves the
  iterator by one element or ends the call;

and, when the client adds fewer segments than an unsigned int can count
(`NoSegmentWrap`):

- `CellsAreAllocated`, `SegmentsAreFresh`: `SegmentsAllocated`, `FreshSegment`;
- `MemoryImplementsStore`: `ImplementsStore`.

Assumptions: the widths are positive, and what the client passes has the types
of the C parameters (`WidthAssumption`, `ClientAssumption`, `BoundAssumption`).
Four lemmas carry the data: `AdvanceSteps` (advancing n + 1 times is advancing
n times and once more, at any width), `ValueEquality` (the comparison of tagged
values is equality), `Lookup` (the table finds the entry of the address and no
other, from `key_compare`), and `InsertKeepsPromises` (all that an insert may
do). `AcceptedIsStored` is not inductive: it does not say that the local `ptr`
of a load is where the next element belongs. `InLoop` adds that, the finiteness
of the table makes `HeapBalance` inductive, and the last conjunct of
`MemoryInv` ties the states between `memory_free` and `memory_new` down.

**`RunnerProofs`**, for all programs and every client, under `BootConditions`:
the counter of segments does not wrap, the table takes every entry, and
programs fit in a segment of at least two cells. The run `runner_refusal` shows
that the second is needed. Proved are `RunnerTypeCorrect` (`RunnerTypeOK`),
`LoadsCannotFail` (`LoadErrorsUnreachable`, what the comment at
`src/cairo_runner.c:33` relies on), `ImageIsComplete` (`BootImage`),
`SegmentsAreApart`, `BootIsClean` (`CleanBoot`), and that the runner and its
client together keep what `MemoryProofs` has for the memory alone:
`RunnerKeepsCells`, `RunnerImplementsStore`. The invariant `RunnerInv` has, on
top of the memory's, `BaseInv` (the segments added so far are four consecutive
ones below `num_segments`), `ControlInv` (what each stage has already put into
the locals and which load is under way) and `ContentsInv` (which cells of the
fresh segments are taken at each stage: a prefix of the program, then a prefix
of the frame). `InitializationGoesOn` says that no step is skipped, repeated or
interrupted, and that the loads, whose results the code ignores, have loaded
all they were given before the next step begins. A load cannot meet a conflict
because the part of the segment it has not reached is empty, and it cannot wrap
because the program fits.

**`DecoderProofs`**, for every 64-bit word: `RejectsTheFirstBadGroup`,
`ImmediatesTakeTwoWords`, `DecodingLosesNothing` (`RejectsByGroup`,
`ImmediateTakesTwoWords`, `LosesNothing`); and for every word and every pair of
conversions `ReadersKeep` (`WhatReadersKeep`). Each group of bits is taken by
itself: `FaultyGroups` says for which of its settings it is rejected,
`GroupsAreKept` that the layout of the decoded instruction has the group's bits,
and `GroupsCoverFlags` that there are no others; `OffsetsAreKept` has the bias
and the sign of the three offsets. The loops of `utils.c` over bytes are folds;
`LoopRuns` unrolls one, and `BitOfByte`, `ByteAt` and the lemmas behind them
follow a single bit through it.

**`FeltProofs`**, for every base, every prime that needs more than a limb and
less than four, and any number of buffers: `FeltTypeCorrect`,
`EqualityIsFieldEquality`, `LibraryComputesInField`. The lemmas are modular
arithmetic from division on (nothing of it is in the library of the provers),
that four digits give the number back, and that the two conversions cancel.

**`WalkProofs`**, for every file, every byte behind it and every depth:
`WalkTypeCorrect`, `WalkReadsWhatStage1Wrote`, `WalkTapeFits`,
`WalkStringsFit`. `WalkInv` bounds three quantities at each label: the place is
inside the file, or behind it while the byte there is a comma or closes
something, and then by two at most; the tape has a word for each character, one
for the root and one more behind a number; and three times the string buffer is
at most five times the place in the file, since a string has two quotes and a
character behind it. For the tape the byte behind the file must not close
anything, which a `padded_string` guarantees by filling it with zeros.

**`WalkProofs`**, what is read back: `WalkReadsBack`, `WalkSizes` (`ReadsBack`,
`SizesAreThoseOfTheFile`). Both say nothing before the walk has returned.
`LayoutInv` is the invariant behind them. It gives every word that leads an
element its character, its container, its role and the number of elements
before it, and asks of these (`Layout`) that an element and the one behind it
are separated in the file by what JSON has between the two, and that a closed
container points past its end, which has as many elements before it as the
container counts. `Stack` ties the words still unwritten to `open_containers`,
each entry the container of the one above it; `Spot` says what each label knows
of the character it comes from. It is claimed only while there is no error and
the walk is not past the end of the document: a walk that is may write
anything, and is refused (`Running`). A step appends a word (`AddHead`) or closes
the innermost container (`Close`). From the layout of a parsed document
(`ParsedIsLaid`) the reading follows by induction from the end of the tape to
its start (`EveryHeadReads`): `RestStep` reads an element and all that follow it
in its container, `ElementStep` a container from its first element.

**`WalkProofs`**, what is taken: `WalkTakesJSON` (`TakesJSON`), for every document,
whatever its length. The grammar of `Dom` says from each place on where a value,
a list of elements or one of members may end. `JsonInv` says that the document
is JSON exactly when what is left of it is what the label expects there: a
value, a field or what may follow one (`ValueFits`, `FieldIs`, `BehindIs`), and
then the rest of each open container up to the root (`GoesOn`, `Lists`). It is an
equivalence, so that a step which takes a character keeps it in both directions,
and one which refuses a character shows that nothing in the grammar has that
character there. Each form an element may have has its lemma (`ContainerFits`,
`ElementsFit`, `MembersFit`, `BehindFits`), from what the grammar is at one place
(`GrammarRule`). `DepthInv` counts the containers that have been opened and not
closed (`Open`) along with `depth`; the walk refuses with `DEPTH_ERROR` at the
place where the two reach the bound.

**`WalkProofs`**, that it ends: `WalkGoesOn`. `Passed` is twice the place in the
document, and one more unless a container is about to begin there. Every step
makes it larger, and it is never more than `2 * n + 7` for a document of `n`
structural characters.

**`ScannerProofs`**, for every file, every even length of a block and every batch
of two entries or more: `NoIndexOutside`, `WalkIsReady`, `StringsAreRefused`,
`TokensAreFound` (`IndexesFit`, `ReadyToWalk`, `RefusesStrings`,
`FindsTokens`). All four look at the end of the file; `ScanInv` is what makes
them inductive. `CarriesInv` says that the three carries are the state of the
lexer at the seam of two blocks, unless a character came before that no JSON
text has: behind one, scanner and lexer may differ, and the properties claim
nothing. `EntriesInv` says that the entries in use are the tokens of the blocks
written, and `MaskInv` the same of the block that is scanned and not yet
written. In a block, `EscapeRule` shows that the addition of
`find_escaped_branchless` marks the characters behind an odd run of
backslashes, from `CarryRule`; `PrefixRule` follows the
parity of the quotes; and `AgreeInBlock` puts both together, character by
character. Strings need more, since the walk reads them in files with such
characters too: `StringsInv` says of every file that the carries are what the
characters before the block come to (an odd number of backslashes, an odd number
of unescaped quotes, the last character), and that no entry is in a string. From
it follows that a string is over before the next entry (`StringEnds`). The sum of
two masks is defined by its carries, and `MCScanner!PlusAdds` compares that with
the sum of integers, for the masks of the run.

**`ScannerProofs`**, from one stage to the other: `StageOneLeavesDocuments`.
`HasLeft` says which documents a scanned file may be to the walk: what each
character may stand for, and no string longer without its escapes than its
text. There is one for every file that is accepted, and each of them is a
document (`IsDocument`), which is the only thing that `Walk` assumes. So what
`WalkProofs` shows of documents holds of files, without a module that runs the
two stages in one.

**`ScalarProofs`**, strings: for every string, every length of a vector, and
padding for a vector and for the digits of an escape, `StringsAreUnescaped` and
`StringsStay` (`UnescapesString`, `StaysInItsBuffers`). The invariant
`StringInv` says that the reader stands on a place that no backslash before it
takes, that it has not passed the closing quote, and that the bytes so far
spell what is in the buffer up to `dst`; behind `dst` may be anything, since a
vector is copied before anyone looks at it. That the reader never stops on an
escaped place is what neither property says and both need: only then is the
first quote it finds the one that stage 1 found. One lemma for each way a turn
of the loop takes (`QuoteStep`, `EscapeStep`, `CodePointStep`, `NeitherStep`).

**`ScalarProofs`**, code points: `CodePointsAreWritten` and `PairsAreRead`, for all
of them. What `codepoint_to_utf8` writes is well-formed and reads back as the
code point, in as many bytes as `StringParsing` has for its class; and what the
code makes of a surrogate pair is the code point that has these two units, where
nothing but a low surrogate is taken for the second. TLC evaluates both around
every power of two and every end of a range (`MCScanner!EscapesAreCodePoints`).

**`ScalarProofs`**, integers: for every width and every text of digits,
`NumberReadsTheNumber`. The invariant is that the integer is the number modulo
the width, and that the number lies between powers of ten given by the first
digit and the count; the three facts on powers that the comment in
`parse_number` relies on are `DigitsAssumption`.

**`ParserProofs`**, for every set of files and blocks and every width:
`ReturnedCanBeFreed`, `CopiesStayInBlocks`, `TextsAreTheFiles`,
`SmallConstantsAreKept` (`ReadyToFree`, `CopiesFit`, `TextsOfTheFile`,
`KeepsSmallConstants`). None of the four says anything while a program is being
built; `ParserInv` does. Its main part, `BuiltInv`, is ownership: at each label
it names the places that have been written, which are some of the fields and
some of the elements of the attributes, and says that these places hold all the
blocks of the heap, each once, and otherwise null pointers. A step adds a place
(`FieldAdded`, `ElementAdded`, both from `OneMorePlace`) or writes a block
without touching a place (`NothingMoves`). That the block of the data is no
text and not the block of the attributes, so that writing constants disturbs
neither, follows from ownership (`DataApart`). The assumptions are that the
widths are positive, that pointers and words are told apart, and that documents
have the types simdjson gives their members.

Several of these need induction over data: what a fold computes, what state the
lexer is in, how many bytes are spelled. The induction theorems of the library
take an operator as a parameter, which the provers cannot instantiate, so the
modules that need one derive induction over a set of numbers (`Least`,
`Induction`) from the theorem that a well-founded relation has minimal
elements.

Out of the provers' reach, and so only model-checked, is liveness under
fairness: `LoadReturns`, `InitializeReturns`, `WalkReturns`. What does not need
fairness is proved: `LoadsGoOn`, `InitializationGoesOn` and `WalkGoesOn` show
that each step comes nearer to the end and that only so many can be taken
before it. Every other property of the passing runs is stated by a theorem.
`GrammarGeneratesJSON`, which holds the grammar of `Dom` against a generator of
JSON texts, is evaluated by TLC up to four characters; the proofs do not rest
on it.

## 5. What is not modelled

- Of `lib/simdjson.*` (48,673 of the repository's 49,848 lines of code): the
  copies of both stages for the five processors that are not the one at hand,
  the On-Demand API, serializers, JSON pointers, document streams and the
  loading of files, none of which the program uses or which are input and
  output; and of what it does use, the check of UTF-8 and the reading of
  floating-point numbers, which `src/parser.cpp` never asks for. The models map
  the code the program runs, so the share of all lines they cover stays small.
- Arithmetic of the counters beyond their limits where it takes 2^32 calls:
  `num_segments` that wraps is the premise `NoSegmentWrap`. Offsets do wrap.
- Allocation failures the code does not look at: `malloc` in `memory_insert`,
  `cc_hashtable_new_conf` in `memory_new`, `cc_array_new` and `cc_array_add` in
  the runner. The code goes on through a null or unset pointer and no state
  follows that a property could speak of.
- Uses of a memory after `memory_free`, and of copies of `struct memory`, which
  share a table and not a counter; two runners over one program, which both
  free its array.
- The hash function: the table is what `key_compare` makes of it.
- `print_memory` as a loop: it is the set of addresses it shows. In a segment
  without a gap, of 2^32 cells, the offset wraps and the loop does not end.
- The `lambdaworks_math` crate, which is not in the repository: the field is
  what its documentation says. `lambdaworks.h:13` announces the result of `from`
  "in montgomery format", whereas `lib.rs` writes the limbs of the number itself
  (`Felt::representative`); every call of the library agrees with `lib.rs`.
- `src/main.c`, the tests, and what is not written yet: the execution loop,
  builtins, hints, trace and relocation.

## 6. Plan

Done: the memory, the runner, the decoder and conversions, the felt library,
the parser, the part of simdjson it runs, and the proofs of section 4. Left,
in order:

1. The strings and numbers of one document behind the walk, in place of its
   choice to refuse any of them.
2. The check of UTF-8 in stage 1, with a byte by byte definition as reference.
3. Failures of `cc_array_new` and `cc_array_add` in the runner, and two runners
   over copies of one program or one memory, once the code says what is meant
   to happen.
4. The execution loop over `Decoder`, `Memory` and `FeltLibrary`, and
   relocation, when they are written.
