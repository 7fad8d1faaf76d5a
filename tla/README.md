# marpaWrapper in TLA+

TLA+ models of [marpaWrapper](../src), a C library that puts a three-phase
interface (define a grammar, read tokens, compute values) on libmarpa, of the
small containers it is built on, and of the parser inside libmarpa. TLC checks
the models on small instances; for every value of the constants, TLAPS proves
all safety properties of the models of the wrapper's own code, that the
stack implements its abstract specification, and of libmarpa that the census of
a grammar and the iteration over the trees of a bocage are right.

Paths are relative to the repository: `marpaWrapper.c` is
`src/src/marpaWrapper.c`, `marpa.c` is `src/libmarpa-dist/marpa.c`.

## Inventory

| Component | State | Operations | Interacts with |
|---|---|---|---|
| Generic stack, `genericStack.c` | pointer buffer, allocated and used size, grow options | `newp`, `destroyv`, `pushi`, `popp`, `getp`, `seti`, `sizei` | the heap; free, copy and failure callbacks; used by `marpaWrapper_vb` |
| Pointer tables, `manageBuf.c` | caller's pointer, allocated size, used mark | `createp`, `freev` | hold symbols, rules and progress items of the wrapper, indexed by libmarpa's ids |
| Wrapper and grammar phase, `marpaWrapper.c` | libmarpa grammar, symbol and rule tables, options | `newp`, `destroyv`, `g_addSymbolp`, `g_addRulep`, `g_precomputeb` | libmarpa first, the table second: two records of the same ids |
| Read phase | libmarpa recognizer, two arrays of expected terminals | `r_startb`, `r_alternativeb`, `r_completeb`, `r_readb`, `r_terminals_expectedb`, `r_terminal_is_expectedb`, `r_event_activateb` | libmarpa's input state; sizes taken from the grammar |
| Event dispatch, `_marpaWrapper_event` | none of its own | called by precompute, start and complete | turns libmarpa's events into one callback and one answer |
| Value phase, `marpaWrapper_vb` | bocage, order, tree, valuator, stack, one output pointer | one call, one exit label | generic stack, four user callbacks |
| Lexeme reader, `r_recognizeb` | length per symbol | a loop over reader, lexeme and value callbacks | the read phase |
| Progress report, `r_progressb` | table of progress items | one call | pointer tables, libmarpa |
| Logger, message and date builders | log level, callback | formatting, `write` loop | called everywhere, changes nothing of the above |
| libmarpa, grammar (vendored) | symbols, rules, their flags and ranks; after precomputation internal rules, items and tables | `marpa_g_*` | the wrapper's grammar phase |
| libmarpa, recognizer | Earley sets with links and Leo items, alternatives, events, a progress report | `marpa_r_*` | the wrapper's read phase, `r_progressb` |
| libmarpa, bocage to value | or- and and-nodes, their order, the stack of nooks, the valuator | `marpa_b_new`, `marpa_o_*`, `marpa_t_*`, `marpa_v_*` | `marpaWrapper_vb` |

Nothing in the library runs concurrently. What is hard to test is of another
kind:

- **Allocations fail between two steps.** libmarpa hands out an id before the
  wrapper finds memory for its entry; `seti` frees before it allocates;
  `createp` reallocates in a loop; `vb` builds five objects and can fail at
  any of them.
- **Sequences of legal calls.** Pop, push, get and set move one buffer through
  4, 8 and 4 slots with pointers left above the top; `startb` in the middle of
  a parse; symbols added to a grammar that is being read with.
- **Answers that do not say what happened.** `completeb` answers FALSE on
  exhaustion, on a warning, on a failed `malloc`, and the recognizer has moved
  in some of these cases; `precomputeb` answers FALSE for a grammar that is
  precomputed all the same.
- **Loops that end only if something else happens**: the growth loop of the
  stack, the step loop of `vb`, the loop around `write`.
- **Algorithms that are right for most grammars.** libmarpa rewrites rules with
  nullable symbols and sequences, replaces chains of completions by Leo items,
  shares or-nodes between trees, and reports everything in terms of the caller's
  rules. A mistake shows only for particular grammars and inputs.

`PROJECT.json` lists these under `hazards`, each with its line and with the
properties that would catch it going wrong.

## Modules

| Module | Models | Built on |
|---|---|---|
| `SparseArray` | abstract specification of the stack: an array that reads NULL where nothing was set | |
| `GenericStack` | `genericStack.c` | implements `SparseArray` |
| `GenericStackProofs` | theorems, the refinement of `SparseArray` among them | `GenericStack` |
| `ManageBuf` | `manageBuf.c`, operations on a table record | |
| `Grammar` | wrapper lifecycle and grammar phase | `ManageBuf` |
| `Progress` | `marpaWrapper_r_progressb` | `ManageBuf` |
| `GrammarProofs` | theorems | `Grammar`, `Progress` |
| `Recognizer` | read phase and event dispatch | `Grammar` |
| `RecognizerProofs` | theorems | `Recognizer`, `GrammarProofs` |
| `Value` | `marpaWrapper_vb` | `SparseArray` as its stack |
| `ValueProofs` | theorems | `Value` |
| `Reader` | `marpaWrapper_r_recognizeb` and its comparator | `Recognizer` |
| `ReaderProofs` | theorems | `Reader`, `RecognizerProofs` |
| `Logger` | `_marpaWrapper_log`, `genericLogger.c`, `messageBuilder.c`, `dateBuilder.c` | |
| `LoggerProofs` | theorems | `Logger` |
| `MarpaPrecompute` | the census of `marpa_g_precompute` | |
| `MarpaRewrite` | internal rules: sequences, CHAF rewriting, the start rule | `MarpaPrecompute` |
| `MarpaItems` | items, prediction and right-recursion tables, `marpa_g_precompute` as a whole | `MarpaRewrite` |
| `MarpaAvl` | `marpa_avl.c` | |
| `MarpaSymbols` | `marpa_g_*`: building a grammar and asking about it | `MarpaItems`, `MarpaAvl` |
| `MarpaGrammar` | a grammar's life, and what its census and internal rules must say | `MarpaSymbols` |
| `MarpaRecce` | `marpa_r_*`: Earley sets, Leo items, events, progress report | `MarpaSymbols` |
| `MarpaBocage` | `marpa_b_new`, `marpa_o_*` | `MarpaRecce` |
| `MarpaTree` | `marpa_t_*`, `marpa_v_*` | `MarpaBocage` |
| `MarpaParse` | one parse from `marpa_r_new` to the last tree, and what it must say | `MarpaTree` |
| `MarpaCensus` | the census with its loops one turn at a time | `MarpaPrecompute` |
| `MarpaCensusProofs` | theorems | `MarpaCensus` |
| `MarpaNooks` | `marpa_t_next` with its loops one turn at a time | |
| `MarpaNooksProofs` | theorems | `MarpaNooks` |
| `MC...` | instances for TLC; `MCGrammar` holds `Grammar` and `Progress`, `MCMarpa` holds `MarpaGrammar`, `MarpaCensus` and `MarpaNooks` | |

Most libmarpa modules are written as operators on records (a grammar, a
recognizer, a bocage, a tree, a valuator), one per function of `marpa.c`, under
its name; `MarpaGrammar` and `MarpaParse` are the state machines that call them.
`MarpaCensus` and `MarpaNooks` take two of these computations apart again.
`Grammar`, `Recognizer` and `Value` do not use them: they leave open what
libmarpa decides, so that their properties hold for whatever it answers.

### GenericStack

Variables carry the names of the C structure's members. `bufpp` is a function
from slots to blocks or NULL, `heap` gives the contents of every element block,
FREE when it is not allocated, and `bufSlots` says how many pointers the memory
behind `bufpp` really holds, which is not always what `allocSizei` says.
`returned` is a ghost: the blocks `popp` gave to its caller.

`pushi`, `popp`, `newp` and `destroyv` are one action each, with a second
action for what an allocation failure leaves behind. `getp` and `seti` start
with `beginCall`, take one `grow` or `growFails` step per turn of their loop
and end with `getp`, `seti`, `setiTooSmall` or `setiFails`. `tight` says whether memory is
short: only then may a `realloc` fail; a `malloc` of an element also fails when
every block is taken.

### ManageBuf and Grammar

A table is a record: is the caller's pointer null, live or dangling; allocated
size; used mark; which slots have an entry; was a block lost. The doubling loop
is `Fits`: the smallest size doubling reaches that is large enough. `FirstSize`
is 100 in the code.

`Grammar` keeps libmarpa's side (`xsy`, `xrl`, `startXsy`, `phase`) and the
wrapper's side (`symbolTab`, `ruleTab`) apart, since their agreement is what can
go wrong. `given` are the symbols the caller has pointers to: only those can
appear in a rule or a token. A call that libmarpa refuses without effect is a
stuttering step. What `marpa_g_precompute` thinks of the rules beyond its first
checks is left open: it succeeds, or fails and leaves the grammar "spoiled"
(its tree of rules for the duplicate check is gone, so that
`marpa_g_rule_new` is no longer defined; the model makes no such call). After a
dangling table pointer every call is undefined, and the model stops.

### Progress

A call of `progressb` frees the table of the last one, checks its range, and
goes through two loops: over the Earley sets of the range (`reportStart`,
`setDone`, `setsDone`) and over the items of a report (`item`, or `itemNoRoom`
and `itemNoBlock` where memory is missing). `finish` closes the report and
sorts; `qsort` is any permutation that the comparator finds in order. Only `itemNoBlock`
returns past `finish`, so that a report stays open. Between calls
`startb` replaces the recognizer, `completeb` adds an Earley set and `destroyv`
frees the table. What libmarpa reports of a set is arbitrary here and `MarpaRecce`'s
there. Two cases that are undefined in C are left out: a recognizer without an Earley
set (the grammar has only the empty parse), whose `marpa_r_latest_earley_set`
follows a null pointer (`marpa.c:18641`), and a rule without an entry in the
wrapper's table, which `RulesKnown` is about.

### Recognizer

The recognizer is libmarpa's input state: current and furthest earleme, whether
there is an Earley set at the current one, tokens accepted and not yet scanned,
terminals expected, active events. Which accessible terminals are expected next
and which subscribed events trigger depends on Earley sets that are not
modelled and is a free choice, so the properties hold for every grammar that
behaves so.

`event` is `_marpaWrapper_event`: any call may fail for want of memory,
exhaustion fails, a warning fails on demand, and otherwise the callback gets the
events in an order `qsort` may produce, given the weights the comparator
computes. The callback's result is ignored by the code.

`terminals_expectedb` makes two arrays; either `malloc` may fail, and when the
second does the first is given back.
Calls on the recognizer before `startb` are `notStarted`. `event_activateb` is
modelled for the symbols the recognizer's vectors have room for.

### Value

`pc` follows `marpaWrapper_vb` from object to object and through the step loop
to `marpaWrapper_v_end_label`; `fail` is the code's `rcb = FALSE; goto`. The
stack is the array of `SparseArray`, which `GenericStack` implements. The
valuator is external: a parse is a sequence of trees, a tree the sequence of
steps `marpa_v_step` tells `vb` to take together with the term it stands for,
and the callbacks build terms. That the steps of a tree, taken one after the other
on an empty array, leave its term in entry 0 is libmarpa's promise
(`StepsMakeTerm`; a tree carries the arrays in between as `stacks`): what `vb`
adds to it is that the stack holds just that array, through all failures and
from one tree to the next. `valueOutputp` is GARBAGE or NULL when the call
begins, as C leaves it. A tree that still has a valuator is paused, and `vb` takes
libmarpa's refusal to go on for the end of the trees.

### Reader

`pc` is where `recognizeb` is: asking the reader, checking the expected
terminals, pushing those that match, or completing the earleme. The calls it
makes are the actions of `Recognizer`, so that every failure of these is a
failure here. The callbacks are the environment. `text` says how much of the
input each symbol matches at a position: `isLexemeb` is asked about a position
and changes nothing. A symbol whose option gives a size matches all of it or
nothing, which is what the option is for ("Used only in LATM mode"). `Tried` are
the orders `qsort` may leave: when the comparator contradicts itself, which it
does for two symbols of the same size without a first character, any order of
the two. The reader may add a symbol to the grammar between two positions.

### Logger

A message passes `_marpaWrapper_log`, `_marpaWrapper_logExt`,
`genericLogger_log` and the default callback; each holds a text, which is a
buffer of its own or a static text, and frees it on the way back. `text` says
which, `heap` which buffers are allocated, `lost` which buffers have no owner.
The line itself is a number of bytes; `output` records which byte of the line
each written byte was. `bytesWriten` is signed and `count` is not, so that a
negative sum ends the loop.

### libmarpa

Symbols, rules, internal rules and Earley sets are numbered from 1 and 0 stands
for none, where the code counts from 0 and uses -1. Internal symbols are
records: the symbol itself, its nulling alias, a virtual symbol of a sequence or
of a piece of a rule, the start. An item (AHM) is an internal rule with a
position that skips nulled symbols. Bit vectors, obstacks, workareas and the
order within an Earley set are abstracted to sets, and `transitive_closure` and
`rhs_closure` are a fold and a recursive function. Balanced trees keep their shape, since
their rotations are the point. `IntBits` is the width of an int, for ranks
and for the latest earleme there can be (`JEARLEME_THRESHOLD`).

`marpa_g_precompute` is one operator of its parts in the code's order; it marks
flags on the symbols before it can fail, and the model keeps them.
After a census that failed, the tree of rules is gone and `marpa_g_rule_new`
dereferences a null pointer: the model says "CRASHED" and stops.

In `MarpaParse` the caller's stack is part of the state, and a step of the
valuator puts a tree node there, so that the value of a parse is the parse
tree. `Spans`, `Predicted` and `Trees` define from the caller's rules and the
tokens alone what can be derived where; the properties compare libmarpa's
answers with them.

### MarpaCensus and MarpaNooks

In the models above the census and a call of `marpa_t_next` are one step each,
and what they compute is compared with a definition on small inputs only. Here
one turn of a C loop is one action and the data the loops work on are variables,
so that the loops have invariants and their results can be proved.

`MarpaCensus` has the reach matrix, which `transitive_closure` changes in place
while it reads it; the bit vector and the worklist of `rhs_closure`, which runs
for the nullable and again for the productive symbols; the flags and the
verdict. `Derived` and `Reached` say what the flags mean: the least set that is
closed under the rules, and the least set closed under "occurs on a right-hand
side". `XsyIds`, `empty_lhs_v`, `terminal_v`, `LhsJoins` and the like come from
`MarpaPrecompute`, so that both models read a grammar in the same way.

`MarpaNooks` has the nook stack, the bits of or-nodes in use and the worklist. A
call begins with `beginCall`; `nextChoice` and `dropNook` iterate the stack from
its end, `nookDone`, `childNook` and `giveUp` are the turns of the expanding loop,
`finishTree` and `noTreeLeft` return. The bocage is any and-or graph, cyclic ones
included, with any order of the choices that is not empty (`NookConstants`; an
or-node has an and-node, and ranking keeps the best). `IsTree` is what a
tree is: a choice at each or-node, the root first, everything the choices ask for
and nothing else, each or-node in one place. The last is libmarpa's own condition,
so that the parses of finding 4, which would need a shared or-node twice, are no
trees here: `MarpaNooks` says that the iterator returns what the bocage holds, and
`parse` and `missing_trees` whether the bocage holds all parses. `seen` is a
history variable.

## Runs

| Run | Result | Question |
|---|---|---|
| `generic_stack` | passes | Does the buffer always hold the elements, is every block owned once and none lost, is the stack an array, do `getp` and `seti` return? |
| `small_elements` | violates `BufferHoldsSlots` | Is any element size above 0 enough, as the header says? |
| `grammar` | passes | Do libmarpa's ids and the wrapper's tables agree whatever fails, and is a precomputed grammar left alone? Does `progressb` hand out every progress item of its range once, whatever failed in earlier calls? |
| `recognizer` | passes | Are tokens and events neither lost nor doubled, and is a failed call all or nothing? |
| `reader` | passes | Does `recognizeb` push exactly the tokens that match, or the longest of them, is none refused without cause, and do the arrays of expected terminals stay large enough when symbols are added? |
| `event_order` | violates `EventsSorted` | Are events delivered in the order the header promises? |
| `value` | passes | Is everything released, is each result the value of its tree, does success mean all trees, does the call return? |
| `value_output` | violates `FreesOnlyOutputs` | Does the exit label free only what a callback returned? |
| `logger` | passes | Is every buffer of a log line released, is the line written without a gap, does the call return? |
| `libmarpa` | passes | Do the census, the internal rules and the loop marks agree with what the rules mean, and does a refused call change nothing? Do the loops of the census find the sets the rules define, in the space they have? Does `marpa_t_next` return every tree once and whole, and does every call return? |
| `parse` | passes | Are expected terminals, events, progress reports, trees, ranks and the ambiguity metric what the rules say? |
| `missing_trees` | violates `FullSetOfParses` | Does a bocage hold every parse of every grammar? |

The run `libmarpa` holds three models that share no state, and the run `grammar`
two: `part`, chosen in the first state, says which of them moves, and the others
stay in a first state of theirs. `CensusRight`, `NooksSound` and `TreesOnceEach`
are conjunctions of properties that the theorems below also state one by one, and
so is `IdsKnown` of the run `grammar`.

### Bounds, and why they are enough

- *Stack*: indices 3, 4 and 8 are the edges of the buffers of 4 and 8 slots, so
  that a set can grow the buffer to 16 slots, and pushes stop at size 5
  (`MaxSize`), one more than the first buffer holds. Two blocks and one value
  are enough for two slots to share a block and for the heap to run out. Halving
  happens at 8 and 16 slots. Pointers are 2 bytes, elements 0 or 2 (1 in
  `small_elements`).
- *Grammar*: tables start with one slot (100 in the code), so that three ids
  reach the second doubling, and a run of lost ids reaches the damage a failing
  `createp` can do. Seven rules: an ordinary rule, an empty one, duplicates of a
  left-hand side, sequences with and without separator, one sequence the
  wrapper refuses.
- *Progress*: up to two Earley sets (`MaxSets`) with reports of no, one or two
  items, so that the table doubles twice; all ranges from below the first set to
  past the last, given from either end. Reports need sorting, and some hold items
  that compare equal. Calls may follow each other without end.
- *Recognizer*: two symbols, tokens of length 0 to 2 and value 0 or 1, two
  earlemes (`MaxEarleme`): a token can be refused for each reason, wait over an
  earleme without an Earley set, and meet another that ends with it. Wrapper
  options are the two opposite ones. Lengths near libmarpa's
  `JEARLEME_THRESHOLD` are left to `parse`.
- *Reader*: up to three symbols, all of which can be expected together: one of
  unknown size that matches 1 or 3 characters or nothing, and two of size 2, or
  of sizes 1 and 2, so that a symbol of unknown size can match less or more than
  one that was tried before. Two positions are enough for a length left from the
  first to be seen at the second. The third symbol may also come while reading.
- *Logger*: levels below, at and above the default; lines of 1 and 3 bytes, up
  to three failures of `write` (`MaxErrors`), so that they can outnumber the
  bytes written.
- *libmarpa grammar*: four symbols, up to four calls of which one is a setting
  (`MaxCalls`, `MaxOptions`), rules from a menu of eight and two sequences: runs of
  nullable symbols, both recursions, cycles, unproductive and inaccessible
  symbols, duplicates. The menu is offered in order, so that a set of rules
  comes once; precomputation may come anywhere and more than once. Sentences
  are compared up to length 3 (`Bound`). Ints have 5 bits, so that the largest
  rank is 3. Four rules are enough for a double rotation.
- *Census*: all sets of up to four of ten rules over three symbols, sequences of
  minimum 0 and 2 and a separator among them, with the third symbol a terminal by
  default, by declaration or not at all, and the grammar of the empty string. A
  dependency can take three steps, against and along the numbering of the symbols.
- *Trees*: bocages of three or-nodes with two choices each, all ways for the
  first two to hang things below themselves, an or-node below itself included,
  which no parse builds: cycles make the iterator give up trees at each
  place. Ranking may leave one of two choices, orders differ from the numbering
  of the and-nodes, and one bocage is that of an empty parse. One valuator at a
  time (`MaxPaused`).
- *parse*: fourteen grammars with inputs of up to four earlemes, all sequences
  and combinations of tokens: Leo chains below and above the start symbol,
  recursion in the middle, tokens of length 2, two symbols for one token,
  ambiguity (five trees), ranks, three nullable symbols in a row, nullable and
  nulling symbols around a solid one, sequences with both kinds of separators,
  the grammar of the empty input. `extras` limits refused tokens, switched
  events and reports in a behaviour. Ints have 6 bits: a token of length 7 is too
  long at once, and one of length 6 once the parse has moved on.
- *Value*: two parses, one ambiguous with two trees of five steps that reuse
  stack positions, one with a nulled symbol. Every step can fail.

Deadlock is checked in `value` and `logger`, where the caller can always call
again. The other systems may stop: nobody has to call the library, and after a dangling
pointer nothing is defined.

### Fairness

`GenericStack!FairSpec`, `Value!FairSpec`, `LoggerSpec` and `NookSpec` (as part of `MCSpec`)
assume weak fairness of the steps of a call that was entered, and nothing of the caller: a C function that can
take its next step takes it. `CallsReturn` in addition assumes that memory is not short
for ever, since the growth loop retries a failed `realloc` without end. `VbReturns`
assumes that the user's callbacks return, each being part of one step.
`LogReturns` holds as long as `write` does not fail for ever: an error that
persists takes `bytesWriten` below 0, which ends the loop, but errors that
alternate with written bytes could go on without end, and `MaxErrors` excludes
that.

## Findings

1. **First buffer sized by the element** (`genericStack.c:50`).
   `marpaWrapper.h:185` asks for an element size above 0; below
   `sizeof(void *)` the buffer is too small for the pointers stored in it.
   `LargeElementsFit` proves that this is the only case.
2. **Event order** (`marpaWrapper.c:1523`). The comparator looks for libmarpa's
   codes in an array of the wrapper's, all events weigh the same, and the order
   `marpaWrapper.h:109` promises is left to `qsort`.
3. **Uninitialized output** (`marpaWrapper.c:713` and `1051`). Every early exit
   of `marpaWrapper_vb` tests and frees a pointer that has no value yet.
4. **Parses that are not found** (`marpa.c:16184`). When an internal rule begins
   with a nulled symbol and is left recursive behind it, as in
   `A ::= N A a | a`, all levels of `A` share the or-node of the nulled symbol, a
   tree may use an or-node only once, and `marpa_t_next` ends without a tree
   although `marpa_b_new` found a parse (`api.texi:2972`: "the full set of parses").
   With the nulled symbol at the end of a right-recursive rule, `A ::= a A N | a`,
   the or-nodes of the Leo path are stored where they are not looked for
   (`marpa.c:14468`, `14479`, `14680`). `TreesExact` holds for all
   other grammars of the run.

Smaller things met while modelling, where the models follow the code and no
run asks the question:

- The grammar is not frozen while a recognizer runs, whatever
  `marpaWrapper.c:377` says: `marpa_g_symbol_new` does not test for a precomputed
  grammar. The arrays the comment is about survive it (`ExpectedArraysSound`); the
  recognizer's event vectors do not grow.
- `recognizeb` answers FALSE when the parse is exhausted, also when it is
  complete, since `completeb` does. A callback that calls
  `terminals_expectedb` rewrites the array the loop walks over.
- `marpaWrapper.h:143` has `lexemeValueb` called once per position; without
  `longestAcceptableTokensShareTheSameValueAndLengthb` it is called for every
  chosen symbol. `firstChari` has a default in the header that
  `symbolOptionDefaultb` does not set.
- `write`'s -1 is added to the bytes written: a byte is written again, or the
  rest of the line is dropped when failures outnumber the bytes (`LineWhole`
  states both). "Internal error" is logged as an error whatever the level of
  the message it replaces. A date that cannot be made loses its buffer.
- A failing `malloc` in `progressb` (`marpaWrapper.c:1996`) leaves libmarpa's
  report open; the next call drops it and is right (`ProgressWhole`). On a
  recognizer of the empty parse `progressb` follows a null pointer
  (`marpaWrapper.c:1921`).
- libmarpa: a cut rule raises the prediction event of its left-hand side where
  its pieces begin (`marpa.c:9240`), and an empty parse raises none at earleme 0
  (`11594`); a sequence with an unproductive separator is dropped with its
  sentences of one item (`7219`); `marpa_g_rule_is_proper_separation` is negated
  (`5942`); `marpa_g_symbol_is_start` is never true (`3373`, `8582`); after
  `marpa_o_rank` the ambiguity metric counts or-nodes that are no longer
  reachable (`15565`), so that `vb` may call a parse ambiguous that is not; a
  precomputation that fails leaves its marks; `marpa_g_force_valued` stops half
  way at a locked symbol.

## Proofs

For every value of the constants that satisfies the modules' assumptions:

- `GenericStackProofs`: `StackTypes`, `StackFits`, `StackOwns`, `StackKeeps`
  prove `TypeOK` and the first three invariants of the run. The inductive invariant
  is their conjunction. None is inductive alone: that a push leaks nothing needs
  that the slot it overwrites holds a returned block (`NoLeak`), that `popp`
  cuts off no other needs that the size fits the buffer, that `seti` frees a
  block no other slot holds needs `SlotsOwnBlocks`. Each operation has a lemma
  of its own; `ReservedRoom` and `SlotInside` say that every slot accessed is
  inside the buffer. `LargeElementsFit` proves `BufferHoldsSlots` under the
  assumption that element sizes are 0 or at least `PtrSize`.
  `StackImplementsArray`: the refinement mapping reads a slot as the contents of
  its block. That a step changes the entry it should and no other
  rests on `SlotsOwnBlocks` (the block `seti` frees is behind no other slot) and
  on the bound `SizeReached`, which keeps every position below the size in
  `Index`. One lemma says what each change of the buffer does to the contents
  (`PushedContents`, `SetContents`, `PoppedContents`...), one per operation that
  it is the array's.
- `GrammarProofs`: `GrammarTypes`, `GrammarTables`, `GrammarSymbols` and
  `GrammarRules`, together `GrammarIds`; `GrammarDamage` and the action property
  `GrammarFreezes`. The inductive invariant `GrammarInv` adds `IdsFirst` (a table has entries only for
  ids libmarpa has given out) to the invariants of the run: without it the entry
  of a new id might be there already, and the mark might move back over
  entries. `RoomMade` and `RoomRefused` say what `createp` does when it succeeds
  and when it fails; the lemmas `AddSymbol`, `AddSymbolFails` and `AddRule` use nothing else
  of it. `ProgressExactlyOnce` proves `ProgressWhole` of `Progress`. Its inductive
  invariant `ProgressInv` says at each place of a call which items are in the
  table: those of the sets passed, and of the current set those that were read.
  That none is there twice rests on libmarpa's report holding an item once
  (`NextItemIsNew`), and that no failure breaks the table on its being full up to
  its mark (`Full`): `createp` is then asked for one slot more than are taken and
  doubles at most once (`FullRefused`). `SortKeepsItems`: sorting neither loses nor
  doubles an item.
- `RecognizerProofs`: `ReadHasRoom`, `ReadAhead`, `ReadDelivers` and the action
  properties `ReadLosesNothing` and `ReadFailsWhole`. The inductive invariant
  `RecInv` holds `GrammarInv` and says in addition that rules and start symbol
  mention only symbols the caller was given (`CoreGiven`), that a recognizer
  exists only beside a precomputed grammar (`Beside`), and that an array of
  expected terminals was made when all symbols of the rules existed (`Room`).
  The last is why the arrays stay long enough: symbols are still added, but none
  of them is in a rule (`AccessibleIsCore`). `CompleteMoves` and `OfferLeaves`
  say what libmarpa's two input functions leave behind, and the calls of the
  wrapper, `readb` with both in a row, use nothing else of them. `Listing` is
  the fact about the set of all orders of a finite set that delivery rests on:
  an order of the events has each of them once.
- `ReaderProofs`: `RecognizePushesLongest`, `RecognizeHasRoom`,
  `RecognizeRefusesBadOnly`. `ReaderInv` follows the loops: every symbol passed
  while asking either has its match in `lengthl` or was skipped because a longer
  match was known (`Said`), and the longest is some symbol's (`Asking`, `Told`);
  while pushing, what begins at the current earleme are the chosen symbols
  passed so far (`Pushed`, `Shared`). `ChosenAreLongest` concludes that skipping
  is sound in whatever order `qsort` leaves the array.
- `ValueProofs`: `VbReleases`, `VbValuesTrees`, `VbCompletes`. `ValueInv` has one
  clause per place of the call: which objects exist there (`Ladder`), how many
  results were given for the trees begun (`Progress`), and that the stack holds
  the array of the steps taken so far (`Computation`), with the callback's
  result still beside it between the callback and `seti`.
- `LoggerProofs`: `LogReleases`, `LogWritesLine`. For the first, a function holds
  a text only between its entry and its return (`HeldOnTheWay`), and a buffer is
  allocated exactly as long as a function holds it. For the second, `NoGap` alone
  is not inductive: that the next byte continues the line needs that
  `bytesWriten` is the number of bytes written less the failures and is not ahead of
  the last byte (`WriteLoop`).

- `MarpaCensusProofs`: `CensusTypes`, `CensusHasRoom`, `CensusDerives`,
  `CensusReaches`, `CensusMarks`, `CensusVerdicts`, together `CensusIsRight`. Only
  two of the inductive invariant's clauses take thought. A single pass over the
  matrix is enough because a path through a row that was passed is in the matrix
  already or goes on through the current row, and behind the current column the
  latter are in it too (`ThroughPassed`). A worklist that looks at a rule when one
  of its symbols is popped is enough because a rule whose right-hand side is
  complete and whose left-hand side is missing is still to be looked at, or one
  of its symbols is still to be popped or pushed (`NothingForgotten`), and too
  much is never marked (`NothingElse`, `AtMost`: what is marked is in every closed
  set). No induction over derivations is needed: nullable, productive and
  accessible are defined as least closed sets, and the invariant is about an
  arbitrary one. `RoomForEach` counts: a list without repetition has at most as
  many places as there are symbols.
- `MarpaNooksProofs`: `NookTypesHold`, `NooksHaveRoom`, `NooksInUse`, together
  `NooksAreSound`; `TreesAreWhole`, `TreesOnce`, `TreesAll`, together
  `TreesExactlyOnce`; and the action property `PausedTrees`, which is in no run.
  `Shape` says that the nooks are a part of a tree: each hangs on an earlier one, an
  or-node comes once, a role marked as expanded has what it asks for. A whole
  stack is then a tree (`StackIsTree`), and a tree that agrees with a whole stack
  is that tree (`NothingBeyond`). For the rest, trees are ordered by the
  choices at the nooks of the stack in turn: every tree returned is behind the
  stack, every other is ahead of it or contains it (`Passing`, while the stack is
  expanded; `Passed`, while it is iterated). That no step moves past a
  tree is one lemma per change of the stack (`PassingPushed`, `PassedTurned`,
  `PassedDropped`); the one that needs an argument is giving up: a stack that asks
  for an or-node in use is part of no tree. `NookInv` also keeps `seen`
  finite, so that its cardinality can be counted up with `parseCount`.

Assumptions on constants are the modules' `StackConstants`, `IndexCovers`,
`TableConstants`, `GrammarConstants`, `ProgressConstants`, `RecognizerConstants`, `ReaderConstants`,
`ValueConstants`, `StepsMakeTerm`, `LoggerConstants`, `CensusConstants` and
`NookConstants`; TLC evaluates them on the runs. They give the sets their types,
except `IndexCovers` (the array has every position that can be reached),
`StepsMakeTerm` (above), `CensusConstants` (the start symbol has a rule, a
sequence has one symbol on its right-hand side: what precomputation has
tested, and what the calls that add rules allow), `ProgressConstants` (a report
holds an item once: libmarpa keeps it as a tree) and `NookConstants` (the
choices of an or-node are different and-nodes of its own, and there is one).

Only model-checked:

- `CallsReturn`, `VbReturns`, `LogReturns` and `CallReturns`: liveness under
  fairness is out of TLAPS's reach.
- The properties of `MarpaGrammar` and `MarpaParse`: rewritten rules, loops,
  balanced trees, Earley sets and bocages are built by recursive operators
  over grammars and trees, and what these compute would need induction over
  data. That the operators for the census and for the tree iterator agree with
  `MarpaCensus` and `MarpaNooks` is not stated as a theorem either: both are compared with
  the same meaning of a grammar (`CensusExact`) and with the parses (`TreesExact`)
  on the runs.

## Mutants

Next to the definitions they change, operators marked "Mutant" give a
definition as a plausible mistake would have it (a block not freed, a guard
dropped, an index off by one). `PROJECT.json` pairs each property of a passing
run with at least one; with the definition replaced, TLC finds the property violated.

## Not modelled

- Of the wrapper: `progressb` on a recognizer without an Earley set; the option
  defaults, which are constants; `strerror`. In `Value`, callbacks that are not
  supplied, a callback that succeeds with a NULL output, and steps that libmarpa
  reports as errors, which happens only on a grammar that is not OK, and `vb` meets
  none. The free, copy and
  failure callbacks of the stack report and are not asked for permission: their
  results change nothing.
- Of libmarpa: zero-width assertions, rejection of Earley items (`marpa_r_clean`
  and what belongs to it, which the wrapper never calls), reference counts, the
  trace functions (`marpa.c` from line 18534), `marpa_tavl.c`, which the
  library does not use, and the bit vectors, obstacks and dynamic stacks, which
  are sets and sequences here. Running out of memory inside libmarpa aborts the
  process. The threshold on the number of items in a set only warns.
- Hazards of the wrapper that no model can show: the array
  `terminals_expectedb` gives out is freed by the next `startb`
  (`marpaWrapper.c:416`), callbacks of the stack are called without a NULL test
  (`1594`), and `endOfInputb` is read where only the reader callback sets it
  (`1802`). They concern the caller's copies, options and variables.
- Bindings, build files, the literate source in `bundle` and the test program
  have no state of their own.

## Plan

1. Done: `GenericStack` with `SparseArray`, `ManageBuf`, `Grammar`, `Recognizer`,
   `Value`; proofs of the stack's and the grammar phase's invariants.
2. Done: `Reader`, `Logger`, and libmarpa from the grammar to the value of a
   tree.
3. Done: proofs of all safety properties of `Recognizer`, `Reader`, `Value` and
   `Logger`, and of the refinement of `SparseArray`.
4. Done: `MarpaCensus` and `MarpaNooks`, and `Progress`, with their proofs.
5. The same for what libmarpa does between the two: the scan and completion loops
   of an Earley set, whose items are a least set too; the balanced tree as a
   search structure.
6. In `Value`: optional callbacks, ownership of what elements point to.
