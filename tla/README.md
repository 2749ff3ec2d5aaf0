# TableStateMachineURLFilteringOnline in TLA+

The program compresses URLs.  A dictionary file lists *anchors* (frequent substrings) and
*symbols* (characters), each with a Huffman code.  An Aho-Corasick automaton of the anchors
finds, at every position of a URL, the anchors that end there; a dynamic program chooses
between anchors and symbols; the chosen codes are packed into bytes.  The same sources hold
a packet scanner (a reader thread, scanner threads, queues), a compressed form of the
automaton and a deduplicating scan with a dictionary of repeated words.

The modules here are written from the C sources.  Paths are relative to the root of the
repository.  `PROJECT.json` names, for every definition, the lines it stands for.

## 1. Inventory

| Component | State | Operations | Interacts with |
|---|---|---|---|
| Aho-Corasick builder, `AhoCorasick/ACBuilder.c` | nodes (gotos, depth, match, message, patterns/huffman slots, failure, hasFailInto), a FIFO of nodes | `acBuildTreeASCII`: `enter`, `constructFailures`, `avoidFailToAcceptingStates` | called by both machine generators; its nodes outlive it in `machine->nodeTable` |
| Full-table machine, `StateMachine/TableStateMachine*.c` | table, matches, patterns | `generateTableStateMachine`, `putStates`, `match1TableMachine`, `matchDictionaryTableMachine` | reads the tree; used by the compressor and by the scanners |
| URL compressor, `TableStateMachineTest.c` | `P`, `ymins`, `N` per URL; the row of results | `CompressURLsMachine`, `GetLongestAnchor` | table, nodes, symbols; calls the bit packer |
| Bit packing, `CommonFunctions.c` | row of bytes, byte index, bits used in it | `ConcutByteArrayToByteArray`, `ConcutBitsToSingleByte`; conversions of codes | called by both compressors |
| Packet pipeline, `DumpReader/DumpReader.c`, `BoundedBuffer/PacketReader.c`, `Scanner.c` | thread states, packet queues, free queues, counters | `inspectDumpFile`, the reader thread, the scanner threads | linked lists; machines |
| Linked list, `BoundedBuffer/LinkedList.c` | doubly linked items, `done` | insert, get, delete, dequeue, set done, contains, destroy | the pipeline's queues |
| Driver, `main.c` | anchors, symbols, number of anchors, over a loop of dictionary files | `main`, `BuildAncorsData`, `VerifyAllSymbols` | everything above the packet pipeline |
| Compressed machine, `StateMachine/StateMachineGenerator.c`, `StateMachine.c`, `StateGenerator.c` | state table, pattern table, look-up tables of depth 1 and 2 | `createStateMachine` (`generateStates`, `setRealPointers`, `setStatesData`), `match` | the tree; the state encodings |
| State encodings, `States/*.c`, `Common/BitArray` | bytes of a state | a writer and a `getNextState` per layout | the compressed machine |
| Compressor of the compressed machine, `StateMachineTest.c` | as the URL compressor | `CompressURLsStateMachine` | the compressed machine |
| Dictionary, `Dedup/*` | open-addressing table, Bloom filter | add with probing and resizing, get, the scan that skips known words | the table machine, scanners |
| not run: `AhoCorasick/FindLP.c`, `acsmx.c`, `main_old.c` | | | nothing calls them |

What is hard in it, and what makes each part correct:

* **Builder.**  Three passes over one mutable tree.  Failure pointers are right only if the
  breadth-first pass has already set those of the smaller nodes; the depth-first pass then
  *moves* failure pointers and extends the match sets of nodes while other nodes still refer
  to them.  Correct: a trie; failure pointers are longest suffixes except where a matching
  leaf was skipped (the compressed machine exits on a failure into one); a node reports only anchors that end there; the loops end.  `createNewNode`
  leaves fields unset, slot arrays have a fixed length.
* **Table machine.**  The table is built from the shortened failure chains.  Correct: it is
  the Aho-Corasick automaton, whatever was skipped, and reports what must be reported.
* **Compressor.**  A recurrence that reads back to the beginning of an anchor, a `P[0]` that
  is never assigned, and a walk back that must hit the positions of the recurrence.  Correct:
  no read before `P[0]`, the emitted size is the promised one, the codes decode to the URL.
* **Bit packer.**  Two cursors with different phase in bytes.  Correct: the row is the
  concatenation of the codes.
* **Pipeline.**  Lists without locks between threads, a dequeue that does not wait although
  its header says so, and memory freed by another thread than the one that used it.
  Correct: no list is used by two threads at once, every line scanned once in file order by
  one scanner, freed once, and everything ends.
* **Linked list.**  Unlinking at both ends over reused memory.
* **Compressed machine.**  Leaves and the inside of paths have no state, pointers to depth 1
  and 2 have no memory, and both are decided in a pass before the one that writes.  Correct:
  its own error exits are not reached, the scan follows the automaton, and each step that
  reads nothing comes nearer to the root.
* **State encodings.**  Five layouts of bits, each with a writer and one to three readers that
  count the same things in different code.  Correct: what is written is read, inside the
  memory that was allocated.
* **Dictionary.**  A table that grows on collisions, probed to one bound by insertion and to
  another by look-up; a scan that jumps over known words.  Correct: a word of the file is
  found, and after a jump the scan is where a scan of every character would be.

`PROJECT.json` lists the hazards by line.

## 2. Modules and the code

Every module says at its head what one step is.  Names follow the source.

* **`ACBuilder`** - a step is an iteration of a loop of the builder.  `enter` is `Walk`,
  `createNewNode`, `SetMatch`; `constructFailures` is `StartFailures` ... `EndFailures` with
  the inner search as `Climb`; the recursion of `avoidFailToAcceptingStatesRecursive` is a
  stack of nodes, an iteration of its `while` is `Inherit`.  A node's hash map of gotos
  iterates in insertion order, which is the order of ids.  Anchors are entries of
  `anchorsArr`, so pattern, code and lengths of a slot are one value.  Copying outside the
  slot arrays, or copying a slot nobody wrote, is undefined behaviour: the step `Fault`
  ends the behaviour there.  `word` is auxiliary.  **`ACBuilderProofs`** has the proofs;
  what they use of words, their beginnings, ends and longest known ends is in
  **`StringLemmas`**, which models no code and which all proofs about words share.
* **`TableMachine`** (extends `ACBuilder`) - the generator runs the builder, `PutState`
  fills one row; the scan reads one character per step.  **`Matcher`** is its
  specification, without automaton: the state is the longest suffix of the text that is a
  prefix of an anchor; a report is made only where an anchor ends, and is made where that
  suffix or the next longest is itself an anchor.  The proofs are in `UrlCompressorProofs`.
* **`UrlCompressor`** (extends `TableMachine`) - `CompressChar` is one iteration of the
  recurrence, with the whole search of candidates (`AnchorsAt`, `GetLongestAnchor`);
  `EmitAnchor` and `EmitSymbol` are the walk back.  Only sizes of codes are kept.
  **`UrlCompressorProofs`** has the proofs about both.
* **`BitPacker`** - `Call`, one `CopyBits` per iteration, `Return`; bytes are bit vectors
  and the C expression of `ConcutBitsToSingleByte` is translated shift by shift.
  **`BitStream`** is its specification: a call appends the bits of its code.
* **`PacketPipeline`** - main, reader and scanners interleave.  `list_dequeue` is split
  between its look at `list->first` (`LookAtQueue`) and the removal (`DeleteFirst`), since
  it holds no lock; `exit(1)` in a thread ends all.  A packet is its line number.
  **`PipelineProofs`** has the proofs.
* **`LinkedList`** - a step is a call (`list_destroy`: a step per item), over a heap of
  cells that `malloc` hands out again with their old contents.  **`ListQueue`** is what
  `LinkedList.h` says of it, a sequence whose `Dequeue` waits on an empty list until
  `list_set_done`.  `list_dequeue` does not wait; `DequeueGivesUp` is that one difference.
* **`StateEncodings`** - no state of its own: the layouts as functions from the memory of a
  `malloc` to bytes.  A writer returns the memory it leaves; a reader returns the next state,
  whether it failed, the match bit, the rows of the matches and the new index, as
  `NextStateResult` and `*idx` do.  The masks of `BitArray.c` are translated as the bits they
  pick.  The loop of a writer over the elements is `ForEach` with a round (`SetChild_LE`,
  `SetPosition_PC`, ...) as its body.
* **`StateBuffer`** (extends it) - the life of one state: allocated over garbage, written or
  refused, read by every reader.  **`EncodingProofs`** has the lemmas about the layouts,
  **`StateBufferProofs`** the theorems about the state.
* **`CompressedMachine`** (extends `ACBuilder` and `StateEncodings`) - the builder runs first;
  `GenerateBranch`, `GeneratePath` are iterations of `generateStates`, `SetBranch`, `SetPath`
  of `setStatesData`, `Step` of `matchIterative`.  The recursion that sets a pointer
  (`setRealPointers`) is the function `Climbed`, the inner `while` that follows a path the
  sequence `Path`; both are instances of `Chain`, the nodes a loop along a function of nodes
  meets.  `Garbage` has the bytes `malloc` may leave in a state; each new state is full of one
  of them, chosen anew every time.  `CMAssumption` has what the code takes for granted: ASCII
  characters, at most `MAX_ARRAY_LENGTH` (100) of them, anchors of more than one character and
  less than `MAX_PATH_LENGTH` (512), and limits below 64 gotos.  The exits of the code are the
  phase `exit`, a dereferenced NULL is the phase `crash`.  **`CompressedMachineProofs`** has the
  proofs.
* **`Dictionary`** - an iteration of the loops of `dictionaryreader_read` and
  `dictionary_add_all_autosize` is a step (the `probe` loop is `ProbeEnds`), `DICTIONARY_GET`
  an operator.  Hash functions are arbitrary.
* **`DictionaryScan`** (extends it) - `matchDictionaryTableMachine` in both builds.  The
  automaton under it is the one `Matcher` describes and `TableMachine` implements.
* **`DataStructureProofs`** has the proofs about the linked list, the bit packer and the
  dictionary with its scan, one after the other.
* `MC...` modules give the constants their values.

Some definitions are preceded by variants marked `mutant`.  They are no part of any
specification: each is what the next definition would be with a plausible mistake, and
shows that the property paired with it in `PROJECT.json` notices that mistake.

## 3. Runs

| Run | Instance | What it shows |
|---|---|---|
| `tree` | all lists of at most 3 anchors of 0-3 characters over 2 letters | longest-suffix failures, skipping, inherited reports |
| `tree_heap` | 2 anchors out of 6 whose inner nodes inherit, 2 slots, counters of 1, 2, -1 in new nodes | a node's own anchor does not depend on unset memory; every loop ends; `Fault` happens |
| `table_scan` | all lists of at most 2 anchors of 0-3 characters, all texts of 5 | `TableMachine` implements `Matcher` |
| `compress` | lists of 3 anchors out of 5, 6 URLs, cheap and dear codes, two values of `P[0]` | recurrence and walk back |
| `compress_minimum` | the same | violation: not the shortest candidate is taken |
| `bits` | codes of 0, 3, 8 and 11 bits, rows of 3 bytes | `BitPacker` implements `BitStream` |
| `pipeline` | 3 scanners, files of 0-4 lines of 3 lengths (one too long), all arguments | everything about the threads |
| `list_queue` | 3 cells, 2 data, index 0 | `LinkedList` is the queue of `LinkedList.h` but for dequeues that give up; links, also while it is destroyed |
| `list_index` | the same, indices 0 and 1 | violation: `list_get(1)` |
| `encodings` | states of 1-9, 63, 64 and 65 children, paths of 1-9 and 257 characters, 3 ids, memory of zeros or ones | every layout is read back; what the readers nobody calls do |
| `compressed` | 3 anchors out of 9 of 2-5 characters over 3 letters, three choices of layouts, 4 texts, states allocated full of ones | the compressed machine behaves like its automaton and never exits on a root that branches |
| `dictionary` | words of 2 characters, 8 files of 0-8 lines, 4 pairs of hash functions, 3 sets of anchors, 6 texts, both builds | words are found; jumps keep the state |

Bounds, and why they are enough:

* Two letters and length 3 give every relation between anchors the builder distinguishes:
  prefix, suffix, suffix of a suffix, repetition, empty entry; three anchors let a node
  inherit through two others and skip two leaves in a row.  `MaxSlots = 8` is never reached
  with three short anchors; `tree_heap` has 2 slots so that it is.  `FreshCounts = {0}` in
  all runs but `tree_heap` is the counter a fresh, zeroed heap gives (`createNewNode` does
  not set it); what inherited slots are worth otherwise is undefined, and not claimed.
* Texts of five characters are longer than any path to a state and back through a failure
  chain of length two.
* Sizes of 0, 3, 8, 11 bits meet every phase of the destination byte: 3 and 11 make the
  fill of a byte run through all residues of 8, and the row of three bytes overflows at
  different places.
* Four lines over three scanners wrap the round robin; five different moments at which a
  queue is empty exist for each scanner.
* A path of 257 and states of 63, 64, 65 children lie on both sides of the limits of the
  headers: 6, 8 and 14 bits for a size, 8 bits for the bytes of a state.  Nine elements use
  every phase of the flags of three bits and of two.  Memory of zeros and of ones shows every
  bit that is ORed into what was there.
* `GotoLimits` makes every branch a table, every one linear, or every one a bitmap as the
  arguments of `createStateMachine` do; paths appear with all of them.  The nine strings have
  inner nodes that match, paths that others fail into, failures to depths 0 to 2 and leaves
  that fail to leaves.
* `MaxEntries = 8` lets a file end and reach the bound; with `MaxTable = 12` tables
  grow up to ten times their entries, and a file of eight equal lines is given up.  Hash
  functions with one, two, five or eleven values give no collision, a chain of probes, and a
  word stored at a far probe.
* Three cells are a first, an inner and a last item, and one more call reuses a freed cell.
* The lists of the specifications are bounded by the number of cells, lines or bytes; no
  counter is cut off by a state constraint.

Fairness.  `PPSpec` assumes weak fairness of each thread: a thread blocks only in
`pthread_join`, and the scheduler runs the others.  `ACFairSpec` assumes that a function which
has begun goes on, as sequential code does.  The other specifications state none: that the
scan of the compressed machine goes on is the action property `ReadsOrClimbs`.

## 4. What the runs found

Two disagreements with the text of the repository are kept as runs that end in a violation:

* `list_index`: `LinkedList.h:31` says `list_get` "Returns the data of element in given
  index".  `find_inner` never increments its counter, so every index but 0 finds nothing.
  The program only passes 0, and for 0 the list is right (`list_queue`).
* `compress_minimum`: `StateMachineTest.c:279` says of the recurrence that an anchor is used
  if its code "minimizes total lenght of encoded string".  The loop compares every anchor
  with the symbol, not with the best so far: the last one that beats the symbol is taken.

A third is part of a property that holds:

* **Dequeues give up.**  `LinkedList.h:64-71` says of `list_dequeue` that it "should block (wait)
  if there is no item to dequeue", and fails only after `list_set_done`.  The code has the wait
  in comments and fails on every empty list.  `CallsImplementQueue` has the queue of the header as
  its specification and allows `DequeueGivesUp` besides.  The pipeline does well without the wait:
  no scanner starts before the reader has ended, and `GivesUpOnlyWhenDone` says that a dequeue
  gives up only where the header lets it.

Others contradict no text, and are built into the properties that hold:

* **Reports can be missed.**  The depth-first pass lets a node inherit from its failure node
  before that node may have inherited itself.  With `abcd`, `bcx` and `c`, the node `abc` is
  visited before `bc`, and does not report `c`.  `LongestAnchorIsReported` and `Matcher`
  say which reports are certain: an anchor at the node itself or at its longest suffix.  The
  own pattern of a state that inherited its match is the empty string, and the scan takes that
  for a match (`TableStateMachine.c:140`): a `NULL` there would break `MatcherSpec`.
* **Inner anchors are encoded wrongly.**  `GetLongestAnchor` records the last anchor met in
  a suffix of the pattern, also if it does not end at the current position.  With `abcd`
  and `bc`, the position of `d` may be encoded by the code of `bc`.  `DecodesToURL` states
  decodability under `NoInnerAnchor`, so no property is about these.  `CandidatesFit` (no read before `P[0]`) and
  `EmitsWhatPSays` hold for all anchors.
* **Characters without a code are lost.**  A symbol whose code has size 0 is chosen like any
  other, and cheaper than all, but the walk back emits nothing for it (`TableStateMachineTest.c:190`).
  `DecodesToURL` says that what is decoded is the URL without the characters that have no code,
  except for those inside an anchor, and is the URL itself if every character has one.
* **Slots can overflow.**  A node inherits every skipped leaf's slots without a check of the
  20 entries, and `numMatches` of a node that is no anchor is whatever `malloc` left.
  `Fault` marks both.
* `hasFailInto` is not an exact count (it is decremented but not incremented when a failure
  pointer moves), yet its truth value, all the code uses, is right (`HasFailIntoIsRight`).

* **Far words of the dictionary.**  Insertion stores a word at a probe larger than the table
  (`Dictionary.c:69` tests the slot after the loop), the look-up drops what it finds there
  (`Dictionary.h:86`).  `WordsAreFound` names exactly these words; the cost is a word that is
  scanned instead of jumped over.
* **Words with a zero.**  `strncpy` cuts the word of an entry at its first 0, its state is the
  one of the whole line: a jump over it enters the state of other characters.
  `JumpsKeepTheScan` excludes those jumps (`JumpsWholeWords`), and no property is about them.
* **Jumps lose reports.**  A jumped word is not searched: the anchors that lie in it are not
  reported.  Anchors that begin before it are.
* **The build of `Flags.h`.**  With `TEST_BLOOM_PERF_ONLY` the scan asks the Bloom filter only:
  it reports nothing, hashes up to a word behind the text, and may stop there.
* **A root with one goto.**  `generateStates` makes it a path, no node gets a look-up key, and
  `matchIterative` uses only the first-level table in the root: it never leaves the root.
  Such a machine may also exit while it is built ("Memory index out of bound"), since the
  pointers that take no memory were counted by depth.
* **64 children.**  `MAX_NODE_DEGREE` is 64, a size of 64 is stored as 0 in six bits: a linear
  or bitmap state with 64 children finds none of them.
* **Paths report more.**  A path asks the failures of its nodes again, and so reports anchors
  the nodes failed to inherit; a branch does not.  `MatchesLikeTheAutomaton` therefore has a
  lower and an upper bound.
* **Sorted rows.**  `sortArrays` takes the cells of a pattern row, 14 pointers long, for
  pointers: it moves pointers inside the first cells only.  The order of the cells stays, and each
  cell whose beginning is among the pointers moved gets another one, the first cell always.  Only
  printing reads them; `PrintsWhatMatched` excludes such rows, and no property is about them.  The
  entries of states without matches are never written.
* **Readers nobody calls.**  `OtherReaders` states what they do.
  - `getNextState_LT` takes zeros for no goto where the writer fills with ones; `getNextState_PC`
    numbers the rows by position, and the simple layout looks for its pointers in the wrong place
    from five children on.
  - `getNextState_PC` copies a code by a length that only its branch for a verbose match sets
    (`PathCompressedState.c:312,323`): otherwise `length` is anything, and where the copy does not
    fit into the code nothing is defined afterwards (`CopyFits`, `Undefined`).
  - `printState_LT` always writes more than the 2048 bytes of its text.  `printState_PC` does so
    beyond 144 characters (`MAX_PRINTED`), and reads an older layout with three bits per position:
    the characters are right, the match bit shown at a position is that of a position three times
    as far, and of the failures it shows nothing is claimed (`OldFailuresOf_PC`).

## 5. Proofs

| Module | Specification | Proved |
|---|---|---|
| `ACBuilderProofs` | `ACSpec` | `ACTypesHold`, `FailurePointersAreRight`, `OwnAnchorsAreKept`, `LongestAnchorsAreReported`, `ReportsEndAtTheNode`, `HasFailIntoIsKept` |
| `UrlCompressorProofs` | `TMSpec` | `TableTypesHold`, `TableMachineImplementsMatcher` |
| | `UCSpec` | `CompressorTypesHold`, `AnchorsFoundFit`, `PromisedSizeIsEmitted`, `EncodingDecodes` |
| `DataStructureProofs` | `BPSpec` | `TypeCorrect`, `RowCorrect`, `Refinement` |
| | `DictSpec`, `ScanSpec` | `DictTypeCorrect`, `WordsFound`, `ScanTypesHold`, `JumpsAreSafe` |
| | `LLSpec` | `ListTypesHold`, `CellsAreLinked`, `ListImplementsQueue` |
| `PipelineProofs` | `PPSpec` | `PipelineTypes`, `NoTwoAtAList`, `NoPacketLeft`, `PacketsInOrder`, `NoUseAfterFree`, `AllPacketsOnce` |
| `StateBufferProofs` | `SBSpec` | `SBTypesAreRight`, `WritersStayInside`, `BranchIsReadBack`, `PathIsReadBack` |
| `CompressedMachineProofs` | `CMSpec` | `MachineBuildsTheTree`, `CompressedMachineIsTyped`, `ConstructionAlwaysSucceeds`, `MachineFollowsTheAutomaton`, `ScanReadsOrClimbs`, `MachineMatchesLikeTheAutomaton` |

The modules build on each other as the C files do.  Every step of the compressor, of the table
machine or of the compressed machine is a step of the builder or leaves the tree alone, so that
the invariants of `ACBuilderProofs` hold in all of them and are cited, not proved again.
`CompressedMachineProofs` takes what it knows of bytes from `EncodingProofs`.  What all proofs
about words use of their beginnings and ends is in `StringLemmas`.

### The builder

For every finite alphabet, every set of strings, any number of anchors and slots
(`ACAssumption` alone; a `char` has 256 values, and `CharsInOrder` lists the gotos of a node):

* `ACTypesHold`: `ACSpec => []ACTypeOK` - no failure pointer that is followed is NULL;
* `FailurePointersAreRight`: `ACSpec => []FailureIsLongestSuffix`;
* `OwnAnchorsAreKept`: `ACSpec => []OwnAnchorComesFirst`;
* `LongestAnchorsAreReported`: `ACSpec => []LongestAnchorIsReported`;
* `HasFailIntoIsKept`: `ACSpec => []HasFailIntoIsRight`;
* `ReportsEndAtTheNode`: `FreshCounts = {0} => (ACSpec => []ReportsAreSuffixes)`.  The condition
  is needed: an inner node has the `numMatches` that `malloc` left, and with another value
  than 0 it reports slots nobody wrote.

`FailureIsLongestSuffix` speaks of the finished tree.  What the steps keep is `ACInv`: `TreeInv`
(nodes are the prefixes of anchors, each once), `EnterInv` and `MatchInv` (what has been entered
of the anchors, and why a node matches), `FailInv` (a pointer that is set is the longest suffix
but for matching leaves), `QueueInv` and `ParentInv` (depths in the queue grow by at most one, and
each node without a failure pointer is still ahead), `ClimbInv` (the search for one pointer has
passed no suffix that could be extended).  `QueueInv` is what makes the search right: it starts
at the failure node of the parent, which is set because every shorter node has left the queue.

The reports need three invariants more.  `SlotInv` keeps the first slot of an anchor.  `ReportInv`
divides the nodes into those the depth-first pass has visited, which report the anchor of their
longest suffix, and those below a node on the stack.  `SuffixInv`, for zeroed nodes, says
that the slots below `numMatches` hold anchors that end at the node, the first the longest of them.
`hasFailInto` needs `OnceInv` (each node is linked once) and `CountInv`: the counter is at most the
number of nodes that fail into the node, and positive while there is one.  The code decrements it
when it moves a pointer away from a leaf and does not increment it at the new target; its truth
value stays right because the new target is where the leaf itself fails into already, and
because in the end nobody fails into a leaf.

### The table machine

From `ACAssumption` and `TMAssumption` (texts are over the alphabet):

* `TableTypesHold`: `TMSpec => []TMTypeOK`;
* `TableMachineImplementsMatcher`: `TMSpec => MatcherSpec` - the table and the scan implement
  the specification that knows no automaton.

The loop of `putStates` along the failure pointers is a recursive function, `GotoAlongFailures`.
`GotoIs` shows, by the least depth at which it would fail, that it returns the node of the longest
end of the text that the tree knows, although failure pointers skip matching leaves: a leaf has
no goto, so nothing is lost.  `LongestStep` is the theorem about words behind it: the longest
known end of a text with one more character is found among the known ends of the longest known
end.  `TMInv` carries this through `putStates` (a state is written right or still waiting in the
queue) and through the scan.  The reports `Matcher` demands come from `LongestAnchorsAreReported` by way
of `MessageInv`, by which each anchor entered is the own anchor of a node, and of `TailEnds`, by which the
longest suffix of a node is what `Matcher` calls the next longest.  `MatchInv` gives those it allows.

### The compressor

From `UCAssumption` besides (no anchor of one character, which the driver sorts out; sizes of codes
are naturals, those of anchors at least one bit; `FreshCounts = {0}`, as the heap of a program that has
just started gives; `P[0]` is any integer):

* `CompressorTypesHold`: `UCSpec => []UCTypeOK`;
* `AnchorsFoundFit`: `UCSpec => []CandidatesFit` - no read before `P[0]`;
* `PromisedSizeIsEmitted`: `UCSpec => []EmitsWhatPSays`;
* `EncodingDecodes`: `UCSpec => []DecodesToURL`, which is about anchors none of which occurs
  inside another: for every code table, what is emitted makes up the URL but for characters that
  have no code, and the URL if all have one.

`LoopInv` says of every position read that its choice is a symbol or an anchor that ends there
(`Fitting`), and that `P` is the size of the chosen code plus `P` where that code begins
(`SizeRight`).  `FoundFits` and `FoundEnds` trace an anchor through `GetLongestAnchor`, the patterns
of the state and the slots of its node to the anchor of the dictionary (`PatternsRight`,
`SuffixInv`).  The walk back then keeps two sums: bits emitted plus `P` of what is left, and
strings emitted behind what is left of the URL (`DecodeInv`).

### The bit packer

For all sets of codes, code lengths and row lengths, from
`BPAssumption` alone (`MaxBytes` is a natural number; a code of *n* bits has the
`n \div 8 + 1` bytes that are copied):

* `TypeCorrect`: `BPSpec => []BPTypeOK` - no index leaves the row before `Overflow`;
* `RowCorrect`: `BPSpec => [](RowHoldsStream /\ ZeroBehind)`;
* `Refinement`: `BPSpec => AppendsCodes` - the packer implements `BitStream`.

The inductive invariant `PackInv` is `BPTypeOK /\ RoomInv /\ SourceInv /\ RowHoldsStream /\
ZeroBehind`.  The properties alone are not inductive.  `SourceInv` ties the shifted copy of
the code to the code: without it, nothing says that the bits an iteration moves are the next
ones.  `RoomInv` excludes a partly used byte behind the row and says that between calls all
bits are committed.  `ZeroBehind` is needed since the bits are ORed in.  The argument is
about one iteration: `ConcutBits` says what a byte holds afterwards, the step lemmas carry
this to bit positions by quotient and remainder.

### The dictionary and its scan

For all files, pairs of hash functions, widths and sizes, the dictionary from
`DictionaryAssumption` alone, the scan from `ScanAssumption` and `ProbeAssumption` besides:

* `DictTypeCorrect`: `DictSpec => []DictTypeOK`;
* `WordsFound`: `DictSpec => []WordsAreFound` - a word of the file that a look-up misses was
  stored at a probe larger than the table;
* `ScanTypesHold`: `ScanSpec => []ScanTypeOK` - the scan that jumps stays in its text, the one
  of `TEST_BLOOM_PERF_ONLY` leaves it by less than a word;
* `JumpsAreSafe`: `ScanSpec => []JumpsKeepTheScan` - behind a jump the scan is where a scan of
  every character would be, and only anchors inside the word jumped over are missed.

The inductive invariant of the dictionary, `TableInv`, is `DictTypeOK /\ Chains /\ BloomFull`.  `Chains` says
of every entry inserted that a slot of its probe sequence holds its word, and that the slots
before it all hold other words; a slot never changes before the table is thrown away, so that
this survives every later insertion.  `BloomFull` says that the bits of every entry
are set once the dictionary is ready.  A look-up then meets the word, or the slot `Chains`
names lies behind the bound of the look-up.

The scan's is `SInv`.  `MatchesEnd` ties the state to the text, `AtBorder` the characters read of
a word to the place where it begins, `ScanPhases` the build to the steps it takes.  Two facts carry
a jump.  `LookupIsSound`: what a look-up returns has the word that was looked up; this
needs `SizeInv`, a bound on the table, since a look-up ends only within the values of `probe`.
`ProbeAssumption` is that bound: the code has 1048576 both for the entries of a file
(`DictionaryReader.c:15`) and for the size of the table (`Dictionary.c:95`), and the table grows to
ten times its entries at most.  `BorderForgets`: once the depth of the state is no more than the
characters read of the word, nothing before the word matters.

### The pipeline

For any number of threads, any file and any sizes, from `PPAssumption` alone:

* `PipelineTypes`: `PPSpec => []PPTypeOK` - the queue the reader deals to exists;
* `NoTwoAtAList`: `PPSpec => []NoListRace` - no two threads are at an unlocked list at once;
* `NoPacketLeft`: `PPSpec => []GivesUpOnlyWhenDone`;
* `PacketsInOrder`: `PPSpec => []ScannedInOrder` - round robin in the order of the file;
* `NoUseAfterFree`: `PPSpec => []NothingUsedAfterFree`;
* `AllPacketsOnce`: `PPSpec => []EveryPacketOnce` - in the end every line was scanned and freed
  once, and the bytes of all scanners are those of the reader.

The first five follow from one inductive invariant, `IInv`.  To the properties it adds what the
threads owe each other.  `Phases` says who may run: scanners only behind the end of the
reader, the main thread at the free queues only behind the end of every scanner; the absence
of races is this and nothing else, since no list takes a lock.  `AtQueue` ties the reader's
queue to the number of the line (`q = count % Threads`), by which a line enqueued is the next
one dealt to its queue and to no other (`DealLine`).  `Kept` says that a free queue holds what
its scanner scanned; when the last scanner is joined that is what was dealt to it, so that the
packets of free queue *i* are those whose number is *i* modulo `Threads` (`DealtApart`).
`FreedOnce` keeps that while the main thread frees: a packet it takes was at one place only.
The arithmetic of `\div` and `%` by a constant `Threads` is proved first (`Unique`, `DivIs`).
`AllPacketsOnce` needs more: that no packet gets lost between the queues and the main thread
(`AllKept`, `Emptied`, `LastLine`), and what the counters are sums of.  A scanner has counted
the first so many lines dealt to it (`BytesCounted`), the reader what it dealt to each queue
(`BytesDealt`); a line adds to one summand of the second (`SumGrows`), and in the end
the summands are the same.

### The list

For every finite heap, every datum and every order of calls, from `LLAssumption` alone:

* `ListTypesHold`: `LLSpec => []LLTypeOK`;
* `CellsAreLinked`: `LLSpec => []WellLinked`;
* `ListImplementsQueue`: `Indices \subseteq {0} => (LLSpec => CallsImplementQueue)` - every call
  is one of the queue of `LinkedList.h`, or a dequeue that gives up on an empty list.  The
  condition is the one of run `list_queue`, and `list_index` shows what the other indices do.

`WellLinked` follows `next` from `first`, and says nothing unless the cells form one chain.  The
invariant `LinkInv` is therefore existential: some sequence of distinct cells is the list, from
both ends, and its cells are the live ones.  Each call changes that sequence at one end, and
`Chain` is that sequence.

### The encodings

For every list of at most 100 children with different characters, every path of at most 512
positions, every id and everything `malloc` may leave in the memory, from `SBAssumption` alone (a
child has a character, a goto below `LOOKUP_VALUE_NOT_FOUND`, a type and a match bit; 100 is
`MAX_ARRAY_LENGTH`, 512 is `MAX_PATH_LENGTH`):

* `SBTypesAreRight`: `SBSpec => []SBTypeOK`;
* `WritersStayInside`: `SBSpec => []NeverWritesOutside`;
* `BranchIsReadBack`: `SBSpec => [](BranchReadsBack /\ BranchReadsEverywhere)` - the first
  for the characters a run asks for, the second for every byte;
* `PathIsReadBack`: `SBSpec => [](PathReadsBack /\ PathReadsEverywhere)` - likewise,
  for the positions where a text may leave the path.

The inductive invariant is `SBInv`.  `StateIsCreated` says that the header read back is that of a
state of so many bytes and children, before and after the writer; `StateIsSet` says `Holds`: the
memory has the characters, the flags, the pointers and the failure of the elements, each where
the layout puts it.  `NeverWritesOutside` alone would not do, since what a writer checks it reads
from the memory.  The proof goes up in four layers:

1. bits and bytes: a bit, a pair or a triple of bits that is set is read again, and nothing else
   changes, also where three bits cross a byte (`SetBit`, `SetThree`, ...);
2. one round of a writer: an element is added, and those before it stay - the pointers need that
   the places of regular elements lie apart (`PtrsHavePlaces`);
3. the loop: `ForEach` keeps what a round keeps (`RoundsExist`: a recursive function over the
   naturals exists as it is written), and `sortArrays` leaves the same elements in order;
4. the readers: the pointer of a child is found by counting regular ones, its row by counting
   matches; the bitmap counts characters, which needs that its children are sorted (`BelowIsBefore`).
   A path ends at one position (`WalkEnds`), and the rows of its matches are 0, 1, 2, ...
   (`RankIsTaken`).

What the layouts lose is in the statements: a list never finds a character above 127 (it compares
signed), and 64 children are stored as none.

### The compressed machine

For every list of anchors, every text and every choice of layouts, from `ACAssumption` and
`CMAssumption`, whatever counters `malloc` leaves in the nodes and whatever byte of `Garbage` each new
state is full of (proved for all `Garbage`):

* `MachineBuildsTheTree`: `CMSpec => ACSpec` - the construction and the scan leave the tree alone;
* `CompressedMachineIsTyped`: `CMSpec => [](IdsFit => CMTypeOK)`;
* `ConstructionAlwaysSucceeds`: `CMSpec => [](IdsFit => ConstructionSucceeds)` - no pointer that is
  followed is NULL, it only exits for a root that does not branch, and every node is compressed
  as the code's own check demands;
* `MachineFollowsTheAutomaton`: `CMSpec => [](IdsFit => FollowsTheAutomaton)` - the bytes of the
  states, the two look-up tables, the paths and the leaves without a state together behave like
  the automaton;
* `ScanReadsOrClimbs`: `CMSpec /\ []IdsFit => ReadsOrClimbs` - an iteration of `matchIterative`
  reads or comes nearer to the root;
* `MachineMatchesLikeTheAutomaton`: `CMSpec => [](IdsFit => MatchesLikeTheAutomaton)` - where the root
  branches, an iteration reports a match if the node of a position it read matches, and only if an
  anchor ends at one; and so does the scan.

`IdsFit` is `nextID <= LOOKUP_VALUE_NOT_FOUND`.  A state number has 16 bits in the bytes of the
states, and the largest one, 65535, stands for none (`FastLookup.h:16`); `addState` checks neither.  It is a
hypothesis and not an assumption on the constants, since the number of states follows from the
anchors only through the construction.  Every state of the run `compressed` satisfies it.

The argument has six parts.

1. *Loops over nodes end.*  `Chain` follows a function of nodes up to a bound; `ChainIs` says when
   it is the whole walk.  The recursion of `setRealPointers` climbs failures, on which depths
   shrink; the loop along a path goes down, and no word is as long as `MAX_PATH_LENGTH`.
2. *What the tree is.*  `Built` has what the builder's invariants say of a finished tree: gotos
   and depths are those of the words, a failure is a proper suffix and the longest one but for matching
   leaves, `hasFailInto` is zero exactly where nobody fails into (`BuiltAlways`).  That last fact
   is what makes the paths right: no failure leads inside one.
3. *Numbering.*  Which nodes get a state can be told from the tree alone: those that are neither leaf
   nor `Interior` to a path (`StateNode`).  `generateStates` reaches them breadth first; the
   invariant `TreeGen` says that a node is numbered, or lies at or below exactly one node of the
   queue (`Apart`, `OpenIn`).  `KeyInv` ties the keys of the look-up tables to the words of depth 1
   and 2, and `AllFresh` says that every state allocated is empty and has room for the pointers
   that were counted.
4. *Data.*  `setStatesData` walks the same queue (`DataIs`): what has left it is `Done`, its bytes
   hold the gotos and the failure of its node (`BranchHolds`, `PathHolds`) - a goto into a leaf
   is stored as the failure of the leaf (`Leads`) -, its look-up entry is written; what is still ahead
   is `Fresh`.  That the writer does not exit needs the count of pointers made in the first pass
   and the one made in the second to agree (`NotRegular`, `CountPositions`).
5. *Scan.*  The readers' lemmas of `EncodingProofs` turn the bytes back into gotos and failures.
   `Stands` says that the scan is at a node whose word ends the text, and that no longer one could go
   on with the next character (`Follows`).  A step needs two facts about the automaton: after a goto
   the longest known end is the node reached (`Advance`), and without one nothing is lost by the
   failure (`FallBack`).  The leaf skipped in part 4 is the reason `Follows` speaks of the next
   character: the machine is then not at the longest node of the text, but at the longest one
   that matters.

6. *Reports.*  A step reads a goto, or a path up to where the text leaves it.  `Seen` says of the
   positions read that a match of the deepest node is reported, and that a report has a matching
   node whose word ends there; `Anchored` turns that node into an anchor.  For a path both come from
   the match bits of its positions: a bit is set if the node or one of its failures matches, and
   the deepest node of the text is the node of the position (`GotoIsDeep`) until the step fails.

The invariants `GenInv`, `CMInv` and `SeenInv` put these together for all phases.

### What is only model-checked

* Liveness (`BuildEnds`, `Terminates`) and `ENABLED`, which are beyond the prover.
* `PrintsWhatMatched` of `CompressedMachine`: which patterns are printed.  It needs the rows of the
  pattern table, of which the proofs know nothing.
* `OtherReaders` of `StateBuffer`, the readers nobody calls.
* `CMTypeOK`, `ConstructionSucceeds`, `FollowsTheAutomaton`, `ReadsOrClimbs` and
  `MatchesLikeTheAutomaton` beyond `IdsFit`: what a
  machine of more than 65535 states does is neither proved nor, on these instances, met.

The induction theorems of the library take an operator as their parameter, which the installed
provers cannot instantiate.  Where a proof needs induction over data (`GotoAlongFailures`,
the states along a text, the flattening of the emitted strings, `Chain`, sums) it takes the least
counterexample instead (`LeastElement` of `StringLemmas`, from the well-foundedness of the naturals).

## 6. Not modelled

* Printing, timing, PAPI counters, statistics, the destruction of trees and of the compressed
  machine, `createSimpleStateMachine`, `matchIterativeSimple` and `matchRecursive` (nothing
  calls them), `FindLP.c`, `acsmx.c` (third party), `main_old.c` (commented out), build output
  under `Debug`, `Machines`, `Release` and `.svn`.
* The driver `main.c`: a loop over hard-coded directories that reads and parses files.
  `NUM_OF_ANCHORS` is not reset between two dictionary files, so that from the second file on
  the tree is built over entries of `anchorsArr` that nobody wrote, and `symbolArr` keeps the
  bits of the codes before.  The effect of the first is undefined; what each file would
  compute on its own is `UrlCompressor`.
* `CompressURLsStateMachine`: it looks up the node of a step by `next.stateID`, which steps in
  the root, in linear and bitmap states and at the end of a path leave as it was, and which
  nobody initialises.  The build does not select it.

* A copy of verbose runs: `BitmapEncodedState.c:300` copies the Huffman code of a cell of the pattern
  table by the length in that cell, which nobody sets.  Nothing reads the copy;
  `PrintsWhatMatched` is about runs in which it fits.
* `ACBuilder.c:298`: a node that inherits copies `huffman_len` bytes of a code, which is its
  length in bits, out of an array with a byte for eight of them.  A slot is one value here, and what the copy reads
  behind the code is in no slot.

Possible extensions: proofs of what is printed (`PrintsWhatMatched`), over what is proved of the
machine, and about the readers of `OtherReaders`.
