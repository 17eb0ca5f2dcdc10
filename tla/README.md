# A TLA+ model of BiModalText

This directory specifies the text structures of the repository in TLA+, checks
them with TLC on small instances, and proves part of what is checked for every
instance with TLAPS. Paths below are relative to the repository root; the
program is in `src/`.

## 1. The system

The program is a single-threaded C++ header library with two drivers. Its
subject is `BiModalText`: a text kept as a skip list of nodes, where each node
holds up to about 4096 characters either in a gap buffer (cheap to edit) or in
a packed vector (cheap to read). Nothing is stored on disk and nothing runs
concurrently. What makes it hard is arithmetic on positions: spans kept on
several levels, gaps that move inside buffers, nodes that split and vanish
under an erase that is still running, and exceptions that leave in the middle.

| component | source | state | operations | must be right |
|---|---|---|---|---|
| Node storage | `Nodes.hpp` | a byte vector, `gap_start`, `gap_end`; or a packed vector | `insert`, `erase`, `split_right`, `move_gap`, `expand_buffer`, `expand`, `compact`, `at`, `physical_index` | an edit changes exactly what it is asked to, whatever old bytes a gap holds; all ways of reading agree; `at()` sees what `std::string` would |
| BiModalText | `BiModalSkipList.hpp` | nodes with `level`, `next[]`, `span[]`, `data`; `total_size` | `insert`, `erase`, `optimize`, `clear`, with `find_node`, `split_node`, `remove_node` | spans exact, levels nested, no dangling node, none lost unless an allocation fails, every call returns, the text is the one `std::string` would hold |
| Readers | `BiModalSkipList.hpp` | the iterator's node, offset and cached length | `at`, `to_string`, `scan`, `begin`/`++`/`*`, `debug_verify_spans` | all readers see one text; an edit disturbs an iterator only in the node it is on |
| Node allocation | `BiModalSkipList.hpp` | a `std::pmr` pool | `create_node`, `destroy_node` | each node destroyed exactly once |
| Baselines | `Baselines.hpp` | one gap buffer; a list of pieces over two strings | `insert`, `erase`, `at`, `to_string` | the same text |
| Fuzzer and tests | `fuzzer.cpp` | a `BiModalText` and a `std::string` | random operations, comparisons | reports a bug only where there is one |
| LibRope wrapper, librope | `librope_wrapper.cpp`, `librope/` | a C skip list of strings: links, skips, a character and a byte count | `insert`, `erase`, `size`, `scan`, destruction | links and skips exact while an insertion is cut into nodes and a deletion frees them; the counters; the same text |
| Benchmark | `benchmark.cpp` | the filters, the random generators, the structure under test | scenarios A to F on up to seven structures, timed | the edits are in range, and the structures compared were given the same work |

How they interact: everything is a call. `BiModalText` calls the nodes, the
fuzzer and the benchmark call the text structures, and the `std::string` in the
fuzzer is what all of them are measured against. Iterators are the only state
shared across calls: they hold pointers into a node's buffer.

The hazards are listed one by one, at their lines, under `hazards` in
`PROJECT.json`, with the properties aimed at each.

## 2. The modules

```
                     TextBuffer          (what a text promises)
                   /     |      \   \      \
        NodePair  BiModalStructure  SimpleGapBuffer  PieceTable  Rope   each implements it
              |      /    |    \        |
            Nodes   /     |     \     GapBuffers
              |    /      |      \
      GapBuffers  /       |       \
        BiModalText  BiModalReads  Fuzzer, BiModalDocs                  Benchmark

 proofs: TextLemmas - NodePairProofs
                    | - SimpleGapBufferProofs
                    | - PieceTableProofs
                    | - RopeProofs - RopeLayout
                    | - BenchmarkProofs
                    | - BiModalProofs - BiModalTheorems
                            |               |
                       BiModalLayout      Fuzzer
```

**`TextBuffer`** is the abstract specification: a sequence of characters and
one request at a time. Insert and erase act as on a `std::string`; an erase may
take its characters in several bites, all at the same position; a "keep"
request (optimize, a split) must leave the text alone; a failed allocation ends
a request and changes nothing more. `ClampsPosition` says what an insertion
beyond the end does: `BiModalText` throws `out_of_range`, the baselines move it
to the end. An erase is specified to be cut at the end of the text.

**`GapBuffers`** is a byte buffer with a gap, which a node of `BiModalText` and the
baseline `SimpleGapBuffer` both are: a record of `buf`, `gap_start` and `gap_end`.
`MoveLeft`/`MoveRight` are the two `std::copy` calls of `move_gap`, so the gap keeps
the stale bytes the code leaves in it; a fresh vector is filled with `Zero`, which is
not a character, so that reading a byte nobody wrote shows. **`Nodes`** adds what only
`Nodes.hpp` has, byte by byte: the packed node, `split_right`, `expand`, `compact`.
`Content` reads through `physical_index` (`at`, the iterator), `ToString` copies block
by block (`to_string`, `scan`, `compact`).

**`NodePair`** drives those operations the way `BiModalText` does: a node `u`
and the sibling `v` that `split_right` cuts off it are inserted into, erased
from, split, packed and reopened, and each operation may throw where it
allocates. `req` is the call under way; the two-step shape (call, body) lets the
body fail.

**`BiModalText`** is the skip list. `level`, `next`, `span`, `mode`, `data`
are the fields of a node (`level[n] = 0`: not allocated); `x`, `acc`, `lvl`,
`update` are the locals of `find_node` and of the walks, and `pc` says which
loop the call is in. Actions and code:

| action | code |
|---|---|
| `FindAdvance`, `FindDescend`, `FindSkip` | one iteration of a loop of `find_node` |
| `InsertRejected`, `InsertSearch`, `InsertFirst` | the checks of `insert` and the empty text |
| `InsertFits`, `InsertSplits` | the insertion into the target, `split_node` included |
| `InsertAllocFails`, `InsertFirstLost`, `InsertGrowFails`, `InsertSplitFails` | `bad_alloc` at each place where `insert` allocates; with `SplitNodeFails`, what `create_node` has taken by then |
| `EraseIgnored`, `EraseClamp`, `EraseSearch`, `EraseDone` | the checks and the loop head of `erase` |
| `EraseShrinks`, `EraseRemoves`, `EraseFails` | one iteration: characters taken, `remove_node`, or a throwing `expand` |
| `OptimizeStart/Node/Fails/Done`, `ClearStart/Node/Done` | one node of the walk each |

The random height of a new node is any height from 1 to `MaxLevel`. A node's
storage is abstracted to its mode and its characters; that this is what
`Nodes.hpp` provides is what `NodePair` shows. Two throws are not repeated as
actions: `insert` and `erase` throw on a null target, and `TargetExists` shows
that the null target never occurs.

**`BiModalStructure`** states what the list promises (`Behind` and `TextBehind`
follow level 0 from a node, as recursive functions, which the proof system
understands) and the refinement of `TextBuffer`. **`BiModalReads`** adds the
readers (`At` is the search of `at()`, which differs from `find_node` at borders;
`Iterated` is a loop from `begin()` to `end()`) and what they promise; their loops
are recursive functions of the locals of the loop.
**`BiModalDocs`** states what documents and tests say and the code does not do.

**`SimpleGapBuffer`** and **`PieceTable`** are the baselines, with every branch
of their operations; the erase of the piece table is stepped through piece by
piece.

**`Rope`** is librope behind `LibRope`. `height`, `next`, `skip`, `data` are
the fields of a node and `num_chars`, `num_bytes` those of the rope; `e`,
`offset`, `lvl`, `iter` are the locals of the search, `rest` and `tail` what an
insertion has still to store. Actions and code:

| action | code |
|---|---|
| `CallInsert`, `CallErase`, `CallDestroy` | the methods of `LibRope`; `CStr` is what `c_str()` makes of a string with a zero in it |
| `Start`, `FindRight`, `FindDown` | the bounds taken by `rope_insert` and `rope_del`, and one turn of `iter_at_char_pos` |
| `InvalidUtf8`, `InsertHere`, `InsertIntoNext` | the early return, and an insertion that fits the node or the next one |
| `InsertCut`, `InsertPiece`, `InsertTail`, `InsertDone` | the end of the node cut off, one new node per turn (`insert_at`, which may raise the head), the end put back |
| `DelStart`, `DelTrim`, `DelRemove`, `DelDone` | `rope_del_at_iter`, one node per turn |
| `FreeStart`, `FreeNode`, `FreeDone` | `rope_free`, and a new rope |

A character is a model value with a width in bytes; `Bad` stands for a byte that
starts no character. The text an observer is shown while an insertion is under
way (`AbsText`) is the old one, with the cut end at its place; between the
turns of a deletion it is what is left.

**`Benchmark`** is the driver: `Plan` lists what `main` measures in order, one
row per scenario and structure, and each row is attempted `Repeats` times on a
fresh text. Where a row inserts is `Pos`, which differs from structure to
structure: the old midpoint, the present midpoint, behind the text typed so far,
or a random position. The numbers of the generator are a constant of a
behaviour (`draws`, any sequence of period `Period`), since the seed is fixed. A
structure is an abstract text here, which the other modules justify for the
four of this repository; `vector`, `string` and the GNU rope are library code.

**`Fuzzer`** composes `BiModalText` with the `std::string` of `fuzzer.cpp`, the
random operations and the checks. Random draws are nondeterministic, so one
behaviour is one seed, and a check may happen between any two operations, not
only every hundredth. Its erase takes a length that lies inside the text, and its
inserts repeat one letter, as in the code; `clear` comes from the sanity tests.

`MC*.tla` give TLC its values. In several modules a definition is preceded by a
variant whose comment starts with "Slip:". No specification uses these: they are
plausible mistakes in that piece of code (a dropped guard, an off-by-one, a
forgotten update), named in `PROJECT.json` under `mutants`, each of which must
make a particular property fail. They show that the properties can fail.

## 3. The runs

| run | states | what it shows |
|---|---|---|
| `node_pair` | 29 k | `TypeOK`, `ReadsAgree`, that the byte buffers implement `TextBuffer`, failing allocations included, and `EachNodeExact`: each of the two nodes by itself is edited exactly as asked, whatever a gap holds |
| `bimodal_text` | 714 k | four nodes, three levels, one character per node, no failures: all structural properties (below), and `Implements` |
| `bimodal_failures` | 345 k | what survives when any allocation may throw, with empty texts and lengths of 0 and beyond the end: `SpanExact`, `LevelsNested`, `MemorySafe`, `NoEmptyNode`, `ReadsAgree`, `TotalSizeNeverAhead`, `LosesOnlyNewBlocks` (the only block ever lost is the one `create_node` has just taken), and `CallsReturn`: every call returns |
| `simple_gap_buffer` | 86 k | gap inside the buffer, `Implements` |
| `piece_table` | 87 k | pieces non-empty and apart, `at` and `to_string` agree, `Implements` |
| `fuzzer` | 158 k | `OnlyFailuresCaught`: whatever the seed, a reported bug means that an allocation failed |
| `rope` | 192 k | links and skips exact in the middle of insertions and deletions, and the counters after them (`RopeCheck`, `IterExact`), only live nodes touched and none lost (`MemorySafe`), every call ends (`CallsProgress`, `NeverStuck`), `Implements` |
| `benchmark` | 303 k | `EditsInRange`, `SameWork` and `Finishes` for every filter and every sequence of random numbers |
| `doc_*` | small | four statements of the documents or tests that the code refutes (section 6) |

The properties of `bimodal_text`: `SpanExact` (every span of every level is the
distance it stands for), `LevelsNested` (level i is level 0 without the lower
nodes), `NoLeak` (allocated = linked), `MemorySafe` (every node and level the
search and its caller touch exists), `FindExact` (target and `update[]` are
right when the search ends), `TargetExists`, `ReadsAgree`, `NodeSizeBounded`, and
the action property `OthersUndisturbed`. The last one is about iterators held across
an edit: the node edited may be reallocated, repacked, split or freed under an
iterator on it, but every other node keeps its characters, its storage and its
successor, so that an iterator there goes on as before. It is the finest statement
that does not depend on the pointers an iterator caches. The structural ones hold in
every state outside `clear()`, whose walk frees nodes that the head still leads to;
the edits of one iteration are one action, because nothing can observe the structure
between its assignments except an exception, and each place where one can be thrown
is an action of its own.

Two statements about `BiModalText` have no run and are only proved: that `size()` is
the number of characters stored, between the rounds of an erase too
(`TotalSizeExact`; `fuzzer` compares `size()` with the oracle's after each call), and
what `optimize()` has done when it returns (`OptimizePacks`).

`bimodal_text` has no failing allocations and no empty insertions. What a half-done
split or `optimize()`, or the empty node of `insert(0, "")`, does to the structural
properties is what `bimodal_failures` shows, and the theorems for every size.
`OnlyFailuresCaught` of the fuzzer excuses whatever follows a failure and says nothing
about it.

### Bounds

- `Node`: four nodes alive at once, on three levels, in `bimodal_text`: a first, a
  last and two middle nodes give jumps over several nodes and an `update[]` with
  three different entries. Three nodes on two levels, without symmetry, in
  `bimodal_failures`, whose question is where an exception leaves.
- `NodeMax` 1 or 2 where the code has 4096, so that splits happen at once;
  insertions up to two or three characters, longer than a node (and so a node that
  is still too long after its one split).
- `MaxText` 3 to 5 characters. It stops new insertions only.
- `EraseLens` reach into the node, to its border, beyond it, and beyond the text.
- `SizeMod` 16 where the code has 2^64. Only `pos + len` in `erase` is computed
  modulo it. In the passing runs the largest sum is smaller than 16, that is, the
  caller passes a length that does not wrap; `doc_erase_returns` passes 15.
- `DefaultGap` = `DeletePad` = 1 where the code has 1024 and 8: gaps run full
  after one insertion, so `expand_buffer` is exercised at every gap position.
- `MaxAdded` 5: the `added` string of the piece table only grows, so the model
  stops inserting after five characters.
- `rope`: four nodes, nodes up to height 2 and a head up to 3 (the code has 59 and
  60), two bytes per node where the code has 136, characters of one and of two
  bytes: nodes that are full, and nodes that have a byte left that no wide character
  fits. Two characters of input make two pieces and an end to put back, so that the
  iterator is used after the head was raised. `CallInsert` waits until there are
  nodes enough for that.
- `benchmark`: texts of two to five characters and three edits where the code has
  10 or 100 MB and thousands; two attempts, so that one follows another; the chunk
  (1000 in the code) divides the size of two of the scenarios that fill
  chunk by chunk and not that of the third; a generator repeats itself after four
  numbers, more than an attempt draws.
- Symmetry: the nodes are interchangeable (the pool or `malloc` may return any
  block). `bimodal_failures`, which checks liveness, does not use it.

`CHECK_DEADLOCK FALSE` is set for the fuzzer alone: the program exits once it
has reported a bug.

### Fairness

`FairSpec` adds `WF_vars(Step)` and no more: the thread that is in a call keeps
executing it. No fairness is put on any single action, so the choice between
success and failure, and the caller's choice whether to call at all, stay free.
`CallsReturn` then says that the loops themselves end. `Benchmark` has
`WF_vars(Work)` for the same reason: `main` goes on until it returns.

`Rope` is checked with symmetry, which rules out liveness checking, and shows the
same without fairness: `CallsProgress` has every step of a call lower a measure
(the stage of the call, then what its loop has left to do), and `NeverStuck` says
that until the call has ended there is a step that changes something.

## 4. The proofs

`TextLemmas` and `NodePairProofs` hold machine-checked
proofs about `Nodes` and `NodePair` for every alphabet, every `DefaultGap`,
`DeletePad`, `Inputs` and `MaxText`, with or without failing allocations. They
assume what the modules assume: the gap a node begins with is not empty, the other
padding is a natural number (`NodesAssumption`), and `NodePairAssumption`.

- The second part of `TextLemmas` (its first is about strings in general and loops) and
  the first part of `NodePairProofs` prove what each operation
  does to the characters of a node:
  every gap node is `Gap(b, gs, ge)` and its text is `Chars(b, gs, ge)`;
  moving the gap keeps the text (two overlapping copies, one per direction),
  growing keeps it, inserting and erasing edit it as a `std::string`, a split
  cuts it in two, `expand` and `compact` keep it, and the block-wise readers
  produce it.
- `NodePairProofs` then proves `Spec => []IInv` (`Inductive`) and from it
  **`TypeCorrect`** (`[]TypeOK`) and
  **`ReadersAgree`** (`[]ReadsAgree`). The invariant is `IInv == TypeOK /\ CleanNodes`.
  `CleanNodes` says that the text of each node by itself is made of characters, so
  that no byte nobody wrote is read; the step of an erase or of a split needs it of
  each node, and the text as a whole would not give it. `TypeOK` carries that a call
  under way names an existing node and a position inside it, without which no
  operation keeps the gap inside the buffer.
- The last part but one is **`NodesImplementText`** (`Spec => Implements`):
  under the refinement mapping `text <- Text, req <- AbsReq` the initial state
  maps to the initial state and each step to a step of `TextBuffer`: a `Call`
  action to `Invoke`, `DoInsert` to `Insert`, `DoErase` to `Erase` (its length
  cut at the end of the node), `DoSplit` and `DoOptimize` to `Keep`, each of the
  failures to `Fail`.
- The last is **`NodesEditExactly`** (`Spec => EachNodeExact`), from the same lemmas:
  what a gap still holds of earlier texts comes back in neither node, and no character
  moves to the other node but by a split.

`SimpleGapBufferProofs` rests on the same lemmas about the bytes. Its invariant is
`IInv == TypeOK /\ CleanText /\ OneChar`; `CleanText` says that the text is made of
characters (no byte nobody wrote is read), and `OneChar` that
`insert(pos, char)` writes one byte, which a full buffer has room for after
growing because `GapBufferAssumption` has it grow by at least one. From it
**`TypeCorrect`** and **`GapBufferImplementsText`**
(`Spec => Implements`, a position beyond the end being moved to the end).

`PieceTableProofs` is about the piece table, for every `Char`, `Inputs`, `EraseLens`
and `MaxAdded` with `PieceTableAssumption`.

- *The invariant.* `PiecesApart` is not inductive as it stands, for it does not say
  that the loop of erase is where its local `it` says. `IInv` adds to `TypeOK` that every
  piece lies in the buffer (`Within`), that no two share a byte (`Disjoint`), that
  `total_length` is the length of the text, and `Erasing`: inside the loop the
  pieces in front of `it` hold exactly `req.pos` characters, and `req.len` more exist
  from there on.
- *The steps.* `Flat(buf, list)` is the text of a list of pieces; what is appended to
  the buffer does not change it (`FlatLater`), and a piece replaced by others changes
  it in one place (`PutFlat`). An insertion cuts the text where `Before` says
  (`InsertedInto`), a round of the erase takes a prefix of one piece (`Takes`,
  `Consumed`). That `Before`, a recursive function, and `FlattenSeq`, a recursion of the
  library, have the values the steps need is proved from the least index at
  which they would not (`BeforeIs`, `FlattenIs`).
- *The results.* **`TypeCorrect`**, **`PiecesStayApart`**, **`ReadersAgree`** (`at()`
  sees what `scan()` emits, also between two rounds of an erase) and
  **`PieceTableImplementsText`**: the cut of a piece at the start of an erase is a
  stutter, each round an `EraseSome`, the end of the loop an `Erase` of no character.

`BenchmarkProofs` is about the driver, for all sizes, edits, blocks to paste, attempts,
builds, filters and sequences of random numbers (`BenchmarkAssumption`: an attempt
prefills something, and no less than one chunk).

- *The invariant.* `Editing` ties the midpoint, the length of the text and the count
  of the characters prefilled to the scenario and the edits done, and `Worked` says
  which text that is without a word of the structure or its policy: if everything is
  typed in the middle, the halves of the prefill around what was typed (`Middle`);
  if positions are random, the last of the texts that the first numbers of the generator
  make (`Drops`). `Results` says the same of the attempts that are over.
- *The steps.* The three policies for the middle all insert somewhere inside what was
  typed there (`PosIs`), and inserting the same letter anywhere in a run of it has one
  result (`MiddleGrows`). With random positions the number of edits is the number of draws,
  because every attempt begins with a generator in the state of its seed; two
  sequences of texts made from the same numbers do not differ first anywhere
  (`DropsAgree`). No edit inserts a character of the prefill (`FilledSplice`), so that
  a final text tells how much was prefilled.
- *The results.* **`EditsStayInRange`** (`[]EditsInRange`) and **`AttemptsDoTheSame`**
  (`[]SameWork`): the last text is determined by the scenario and the prefill.

`TextLemmas`, `BiModalProofs` and `BiModalTheorems` do the same
for the skip list, for every set of nodes, every `MaxLevel`, `NodeMax`, `SizeMod`,
`Inputs`, `EraseLens` and `MaxText` that `BiModalAssumption` admits.

- *The invariant.* None of the structural properties is inductive by itself. Whether
  `span[n][i]` is right depends on the order of the nodes and on the text behind
  each of them, and neither is a variable: the code has only links. The invariant
  (`IInv` in `BiModalLayout`) therefore says that they exist:
  `TypeOK /\ \E r, w : Good(r, w)`, where the rank `r` falls along the lists, so
  that "the next node with level i" can be said without following a link
  (`FirstBehind`), and `w[c]` is the text behind `c` (`Texts`). `Spanned` then gives
  each span as a difference of lengths; `Finding` says what the search has passed
  and that the links it has left behind in `update[]` reach the position;
  `Targeting` what `update[]` is when it ends; `Served` what is known of the
  arguments at each place in the call; `Packing` and `Clearing` are the walks of
  `optimize` and `clear`.
- *The steps.* Each action has a lemma that gives the new `r` and `w`. An insertion,
  a split, a shrinking erase and a removal rewrite `w` at one place, and every cell
  before that place has the same piece of its text spliced (`TextLemmas`); a split
  puts a new rank between two old ones, which doubling the ranks makes room
  for. `BiModalProofs` ends in **`Invariance`** (`Spec => []IInv`).
- *The recursion.* `TextBehind` and `Behind` are recursive functions. The ranks show
  that the recursion is well founded on the cells that matter, and from there that
  `TextBehind[c] = w[c]` and that `Behind[c]` is the set of the nodes of lower rank
  (`TextBehindIs`, `BehindIs`). With these two the properties of `BiModalStructure`
  follow from `Good`.
- *The readers.* The loops of `at()` and of an iteration are recursive functions too,
  and what a recursive definition stands for is a function only if there is one that
  satisfies its equation. `LoopHasResult` (`TextLemmas`) shows that every loop over a set
  of states has such a function, whether it ends or not, and `LoopResult` that a loop that
  keeps to a set and lowers a rank there has the result of a state it stops in. For
  `at()` that set is `Searching` (the search stands at the end of a node, at or before
  the position), so that the node it ends at holds the position and the skip loop is
  never entered (`AtIs`); for an iteration, `Iterating` (what has been read and what is
  ahead of the iterator are the text).
- *The fuzzer.* `OnlyFailuresCaught` says nothing about the steps of a call, so the
  invariant of `Fuzzer` is one of two: `Agrees`, no allocation has failed so far and
  the text will be, when the request in hand has been served, what the `std::string`
  will be when the same has been done to it (`Becomes`, `Completed`); or `Doomed`, one has
  failed and `run()` is about to report it. While none has failed the text is one in
  which none can: `NoFail` is an instance of `BiModalProofs` with `AllocMayFail`
  FALSE, and a step either fails or is a step of it (`FailsOrSteps`), so that the lemmas
  of the refinement apply although allocations may fail. An erase in several rounds is the
  erase at once (`EraseTwice`); an iteration needs no node to be empty (`Filled`),
  which holds because the fuzzer inserts no empty string. The checks then pass by
  the lemmas about the readers.
- *The results.* **`TypeCorrect`**, **`SpansExact`**, **`ListsNested`**,
  **`MemoryIsSafe`**, **`FindIsExact`**, **`SizeNeverAhead`**, **`TargetsExist`**,
  **`NodesHoldText`**, **`ReadersAgree`** (`[]ReadsAgree`), and the action properties
  **`OptimizeIsComplete`**, **`OthersKeptInPlace`**, **`OnlyNewBlocksLost`**;
  **`FuzzerFindsNothing`** (`FuzzSpec => []OnlyFailuresCaught`), with no hypothesis
  beyond `BiModalAssumption`; and, where no allocation fails, **`SizeIsExact`**,
  **`NothingLeaks`**, **`NodesBounded`** and **`BiModalImplementsText`**
  (`Spec => Implements`): a call maps to `Invoke`, the insertion into the target to
  `Insert`, each iteration of an erase that takes characters to `EraseSome`,
  `optimize` to `Keep`, the first step of `clear` to `Clear`, the steps of a search
  to stutters.
- *The hypotheses.* The last group assumes `~AllocMayFail`, because the code does not
  keep these promises otherwise: a split that throws leaves characters that
  `total_size` does not count in a node that is too long (section 6, 1), after which an
  erase is cut at the wrong end, and an insertion that fails may lose a block. The first group
  assumes `AllocMayFail => LengthsFit`: if allocations can fail, no caller passes a
  length that makes `pos + len` wrap. Both at once are too much: after a failed
  split (two characters counted, four stored) TLC erases 15 characters at
  position 1 with `SizeMod` 16; the length is not cut, the three characters behind
  the position are taken, and `total_size` goes below zero. One of the two alone does
  not get there: without failures the size counts everything the erase can find.

`RopeLayout` and `RopeProofs` do the same for librope, for every set of nodes, every
`MaxHeight`, `NodeStrSize`, alphabet, width of its characters, and set of inputs that
`RopeAssumption` admits.

- *The invariant.* `RopeCheck` is not inductive: it says nothing of the locals through
  which the links are written. As for the skip list, `IInv` (in `RopeLayout`) says
  that ranks `r` and texts `w` exist that fit the links: `TypeOK /\ \E r, w : Good(r, w)`.
  `Spanned` gives each skip as a difference of lengths. `Along(.., it, u, k)` is what
  makes an edit right: each level of the iterator stands on the last node of that
  level that is not behind `u`, at the same distance from the end of the text. `Finding`
  is how far the search has got with that; `Piecing` says what an insertion has
  put into new nodes (the first `Done` characters of the string, at the place where it
  began, the cut end and the rest of the string still to come behind them); `Deleting`
  where the next round of a deletion goes on; `Freeing` what `rope_free` has left.
- *The steps.* The lists are parameters of the lemmas, because a step passes through lists
  that are no state: the head has grown and the node is not linked yet
  (`Grow`, `SplitOrdered`, `AddNode`), a node is empty and not taken out yet (`Unlink`).
  An edit within a node splices the texts of all cells before it (`Rewritten`) and moves
  the skips of the links that span it (`Reskipped`, which is `update_offset_list`). A new
  node gets a rank between two old ones. Sizes in bytes are sums over the characters; that
  `Bytes`, which folds over a string, adds up over strings put together is proved first.
- *The recursion.* `TextFrom` and `Behind` are recursive functions, and what they have
  to be follows from the ranks, as above.
- *The loops.* A turn of the search that goes right leaves fewer nodes behind `e`, one that
  goes down a level less; a piece leaves less of the string to store; a round of a deletion
  takes at least one character, and one of `rope_free` a node. `Along`, `Piecing` and
  `Deleting` are what this needs: the node the search goes to is one of those behind, a node
  has room for a character of the string, and the node a deletion has stopped at is not
  empty. The count of the nodes is a `Cardinality`, so that the theorem assumes a finite `Node`.
- *The refinement.* The text a caller may rely on is not always the one in the nodes. While
  an insertion is cut into nodes, `AbsText` is the text of the nodes without the pieces
  already put in, and with the end of the node that was cut off (`Shown`): the text from
  before the call. `Piecing` says where the pieces are, so that each further one is a stutter
  (`PieceShown`), and so is the end put back; the return is the `Insert`. Each round of a
  deletion is an `EraseSome` of what it takes (`TakenAt`), and the `Erase` of the abstract text
  is the return. `Plain` (a call has no arguments but its own) is added to the invariant:
  `Start` cuts the length of whatever call it is. The request is mapped by `AbsReq`, with its
  length cut at the end of the text, because `rope_del` cuts it in a step of its own, and
  as `keep` when the string is not UTF-8.
- *The results.* `RopeInvariant` (`Spec => []IInv`), and from it **`TypesKept`** (`[]TypeOK`),
  **`ListsKept`** (`[]RopeCheck`), **`IterKept`** (`[]IterExact`), **`MemoryKept`**
  (`[]MemorySafe`), the action property **`CallsEnd`** (`CallsProgress`, for a finite `Node`)
  and **`RopeImplementsText`** (`Spec => Implements`).

What is only model-checked: liveness (`CallsReturn` of the skip list, and `Finishes`, that
the benchmark ends having measured what was asked), which is out of the prover's reach; and
of librope `NeverStuck`, which is about `ENABLED`. `CallsProgress`, which is proved, and
`NeverStuck` together are what the end of every call of librope rests on: a step is always
possible, and each one is a step towards the end.

## 5. What is not modelled, and why

- Of `benchmark.cpp`: the times, the values read, the output. It catches no
  exception, so a `bad_alloc` in a baseline ends the program, and the baselines
  have no failing steps. What the model says of the row "GNU Rope" on a build
  without one is that it is not measured (the program prints "N/A").
- Of librope: a failing `malloc` (the result is written to without a test);
  `rope_copy`, `rope_new_with_utf8`, the wchar variants and `_rope_print`, which the
  wrapper does not reach. `_rope_check` is
  the invariant `RopeCheck`. That `memcpy` and `memmove` inside one `str[]` do what
  `StringInsert` and `StringErase` say of its characters is taken as read.
  The wrapper's moves pass the pointer on and are not modelled.
- The block lists inside `std::pmr::unsynchronized_pool_resource`: library code.
  Allocation is modelled by what its callers see: a node, or `bad_alloc`.
- `rank[]` of a node: written, never read. `rebuild_spans` is never called;
  it appears only as the reference that `SpanExact` compares with.
- `debug_dump_structure` and all printing. The checks of `debug_verify_spans`
  are stated as invariants (`SpanExact`, `ReadsAgree`, `OnlyFailuresCaught`, and the
  proved `TotalSizeExact`).
- An iterator on the node an edit changes: it holds pointers into a buffer that may
  be gone, and what it reads then is undefined.
- Sizes are unbounded integers, as lengths of text in memory cannot wrap. What
  could wrap is checked: no difference goes below zero (`TypeOK`), and `pos + len`
  of `erase` is taken modulo `SizeMod`. `SimpleGapBuffer::erase` adds the two
  as well; its callers pass lengths that fit, and the model takes them so.

## 6. Where the code departs from its documents

Each is the counterexample of a `doc_*` run, and has a finding in `PROJECT.json`.

1. `doc_split_failure`: when `split_node` throws, the node already holds the new
   text but `total_size` does not count it, though the report claims consistency.
2. `doc_erase_returns`: `erase(pos, len)` with `pos + len` beyond `size_t` is
   not cut and does not return, where `std::string::erase` would.
3. `doc_iterator_count`: inserting the empty string into an empty text leaves a
   node over which the iterator counts one character, while `size()` is 0.
4. `doc_node_max`: nodes longer than `NODE_MAX_SIZE` exist. What does hold is
   `NodeSizeBounded`: no node exceeds both it and the longest insertion.

Some departures have no run of their own. `REFACTOR_NOTES.md:42` says that
`span[0]` is the size of the node itself, where it is the size of the next node
(`SpanExact`). `BiModalSkiplist.md:147` and the test named in `fuzzer.cpp:563` let
`optimize()` merge small neighbours, which it does not do (theorem `OptimizeIsComplete`
says that it moves nothing; `report_draft.md:276` concedes it).

When an insertion fails, memory may be lost, which no document promises or denies.
`create_node` takes a block of the pool and then constructs the node in it; the
constructor allocates the buffer of the node, and if that throws nothing gives the
block back. So every failed first insertion and every failed split may lose one block
(`InsertFirstLost`, `SplitNodeFails`), and the first insertion a whole node when its
text does not fit. A failing `split_right` does give the new node back. `NoLeak` is
therefore only checked without failures; that nothing else is ever lost, no node that
was linked and nothing `clear()` walks over, is `LosesOnlyNewBlocks`.

The benchmark departs from its notes in what it compares. Where the initial size is
no multiple of 1000, `BiModalText` is prefilled with less than the others in the
scenarios that fill it by chunks (`benchmark.cpp:249`, 395, 634; the helper
`prefill_chunks` that would fill the rest is not called). Scenario B announces a
read of 100 MB (`benchmark.cpp:506`; `BENCHMARK_NOTES.md:15-17` and `README.txt:131`
say that nothing is edited), and prints the time for the 10 MB text that scenario A
has edited. In scenario D librope inserts without the read that the others do first.
And the "midpoint" of A is fixed for some structures and moves with the typing for
others; `SameWork` shows that the texts come out the same even so. The notes give
5 MB where the code has 10, and describe a scenario "Backspacer" (lines 29-34) that no
code measures: the letter `g` is accepted and enables nothing.

## 7. Plan

Done, in the order of importance:

1. `TextBuffer`, `Nodes`, `NodePair`: the bytes of a node. Model-checked and proved.
2. `BiModalText`, `BiModalReads`, `BiModalDocs`: the skip list, what an edit leaves
   of an iterator, what a failure leaves of the list. Model-checked.
   Proved, but for liveness.
3. `Fuzzer`, composed of the skip list and the oracle. Model-checked and proved.
4. `SimpleGapBuffer`, `PieceTable`: the baselines. Model-checked and proved.
5. `Rope`: librope and its wrapper. Model-checked, and proved but for `NeverStuck`.
6. `Benchmark`: the driver. Model-checked, and proved but for its end.
