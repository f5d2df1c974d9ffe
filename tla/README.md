# Intermittent task runtimes: specifications, model checks and proofs

The repository holds the Alpaca system of the OOPSLA 2017 paper and what it is
compared with. All of it is software for devices that lose power at any
moment, keep only their non-volatile memory (FRAM or flash) and start again
from `main()`. The question everywhere is the same: does the program, with
power failures, behave like the program without them?

## 1. Inventory

Paths are relative to the repository. The `ext/alpaca` submodule is empty;
Alpaca's runtime and the code its compiler emits are read from the compiled
application `bld/alpaca/cuckoo.S`, which links them.

| component | state it keeps | operations | what makes it correct |
|---|---|---|---|
| **Alpaca runtime** (`bld/alpaca/cuckoo.S`: `task_prologue`, `transition_to`, `write_to_gbuf`, `clear_isDirty`, `memcpy`, `my_memset`, `main`) | originals `_global_x`, private copies `_global_x_bak`, boot stamps `_global_x_isDirty`, `_numBoots`, the commit list (`data_src`, `data_dest`, `data_size`, `num_dirty_gv`, `gv_index`), two contexts and `curctx`, all non-volatile | privatize, read, write, enter in the list, transition, commit, start after a power failure | a task takes effect as a whole or not at all; stamps are never stale; the list names exactly what was written and never overflows; commits end |
| **Cuckoo filter, Alpaca** (`src/main_cuckoo_alpaca.c`, tasks of `cuckoo.S`, `golden_result/cuckoo.txt`) | the filter, the key, two indexes, counters, `next_task` | 13 tasks, started by the entry task | no key is lost while insertions succeed, the counts agree with the filter, the program ends with the golden result; the compiled tasks do the same under power failures |
| **Chain runtime** (`ext/chain/ChainRuntime/libchain`) | fields of channels with time stamps, double-buffered self fields with index pairs and dirty bits, dirty lists of tasks, two contexts with a logical time | `task_prologue`, `chan_in`, `chan_out`, `transition_to`, `main` | a sync returns the most recent committed value in every attempt; prologues end; lists stay in their bounds |
| **DINO runtime** (`ext/dino/DinoRuntime/libdino`) | the recovery bit, versioned copies on the checkpointed stack | task boundary (copies and a Mementos checkpoint), restore | versioned non-volatile variables are as they were at the boundary |
| **Mementos, FRAM** (`ext/mementos/libmementos/src/mementos_fram.c`, `mementos.c`, `mementos_main.c`) | two bundles, a pointer to the active one, the place last resumed from | checkpoint, find the active bundle, restore, stuck path watchpoint | after any failure the program goes on from the last checkpoint that completed; bundles do not overlap; the watchpoint fires only for a program that is stuck |
| **Mementos, flash** (`mementos_flash.c`, `mementos_main.c`) | a log of bundles in two segments, erase marks | find, locate, mark, erase, checkpoint, clean up at boot | only completed bundles are restored, and the most recent one; bundles stay in their segments; the log never blocks |
| **IPOS** (`ext/libipos-gcc-dma/src`) | the index of the next task, commit flag, jump request, pages of protected variables in RAM, in a buffer and at their final places | run the initial tasks, schedule, jump, swap pages, commit | initial tasks are not skipped; an access finds its page; a task's pages and the choice of the next task are committed once, together |
| **Cuckoo filter, Chain and DINO** (`src/main_cuckoo_{chain,dino}.c`) | the filter in five channels, or in versioned non-volatile memory | the same 13 tasks, or segments between boundaries | as on Alpaca |
| **Activity recognition** (`src/main_ar_*.c`) | two models, a window of readings, counts, the mode the switches select | warm up, train, recognize | each version prints the golden counts; Chain's channels together hold what Alpaca's variables do |
| **Bit counts** (`src/main_bc_*.c`) | seven counters, a seed, the method | seven methods to count the bits of 100 words | all methods agree |
| **Blowfish** (`src/main_blowfish_*.c`) | key, boxes, vector, text | mix the key, generate 521 pairs of words, encrypt in feedback mode | the golden cyphertext; every word is written before the cipher reads it |
| **Cold chain monitor** (`src/main_cem_*.c`) | a dictionary of 512 nodes, a log of 64 | sample, split in letters, search, compress, add a node | the dictionary is a forest that the log tells and is never full; the golden block |
| **RSA** (`src/main_rsa_*.c`) | numbers of 8 digits of 8 bits and products of 16, next tasks | exponentiation, multiplication, reduction digit by digit | results are less than the modulus; the golden cyphertext |
| **Compiler passes** (`ext/dino/LLVM`, `ext/mementos/llvm`) | LLVM IR | instrumentation | what is emitted is what the runtimes expect |
| **Build scripts, measurements** | | | |

How they interact: an application calls its runtime at every access to shared
state and at every transition; the runtime calls the next task; a power
failure takes control from any of them back to `main()`, which calls the
runtime's prologue. They share nothing but non-volatile memory: there is one
processor, and no code here touches task state from an interrupt. What is hard
is therefore not parallelism but the *failure between any two stores*, over and
over, and what a second attempt sees of the first. `PROJECT.json` lists the
hazards, each at its line, with the properties aimed at it; those with a note
say why no property covers them.

## 2. Modules

| module | models | role |
|---|---|---|
| `AtomicTasks` | nothing of the code | abstract specification: what a task runtime promises |
| `AlpacaRuntime` | `cuckoo.S`, runtime and emitted access code | detailed specification, safety, progress, refinement of `AtomicTasks`, inductive invariant |
| `AlpacaRuntimeProofs` | | proofs about `AlpacaRuntime` |
| `CuckooHash` | hash functions of `main_cuckoo_alpaca.c` | hashes, and exclusive or bit by bit |
| `CuckooProgram` | the tasks of `main_cuckoo_alpaca.c` | each task as its accesses in program order |
| `CuckooTasks` | the program without power failures | functional correctness, inductive invariant |
| `CuckooProofs` | | proofs about `CuckooHash` and `CuckooTasks` |
| `CuckooAlpaca` | the compiled tasks on the runtime | composes `AlpacaRuntime` and `CuckooTasks`, refines the latter, inductive invariant |
| `CuckooAlpacaProofs` | | proofs about `CuckooAlpaca` |
| `ChainRuntime` | `libchain/src/chain.c` | detailed specification, safety, progress, inductive invariant |
| `ChainRuntimeProofs` | | proofs about `ChainRuntime` |
| `Checkpoints` | nothing of the code | abstract specification: what a checkpointing runtime promises |
| `MementosFram` | `mementos_fram.c`, boot and restore | detailed specification, safety, refinement of `Checkpoints`, inductive invariant |
| `MementosFramProofs` | | proofs about `MementosFram` |
| `MementosFlash` | `mementos_flash.c`, boot | detailed specification, safety, inductive invariants |
| `MementosFlashProofs` | | proofs about `MementosFlash` |
| `Ipos` | `psched.c`, `dataProtec.c` and `.h` | detailed specification, safety, refinement of `AtomicTasks`, inductive invariant |
| `IposProofs` | | proofs about `Ipos` |
| `Cem` | `main_cem_alpaca.c` | the tasks of the equipment monitor on Alpaca, safety, inductive invariant |
| `CemProofs` | | proofs about `Cem` |
| `Ar`, `Bitcount`, `Blowfish`, `Rsa` | `main_*_alpaca.c` | the tasks of an application on Alpaca |
| `ChainProgram` | `chain.h`, `chain.c` as applications see them | channels, syncs and outputs of atomic tasks |
| `ArChain`, `BitcountChain`, `BlowfishChain`, `CemChain`, `CuckooChain`, `RsaChain` | `main_*_chain.c` | the tasks of an application on Chain |
| `Dino` | `dino.h`, `dino.c` | boundaries, copies, stores and power failures of any program |
| `ArDino`, `BlowfishDino`, `CemDino`, `CuckooDino`, `RsaDino`, and the second half of `BitCounts` | `main_*_dino.c` | the segments between boundaries |
| `DinoPrograms` | | the six programs as instances of `Dino` |
| `Activity`, `BitCounts`, `BlowfishCipher`, `CemNodes`, `RsaDigits` | what the versions of an application share, `golden_result/*.txt` | pure functions, and what programs must print |
| `MCAlpacaRuntime`, `MCChainRuntime` | | instances for TLC with their programs |
| `MCPrograms` | | all applications in one instance: it extends `CuckooTasks`, with few buckets, and `Cem`, and instantiates the others |

The other runs check a component's module itself, with the constants its `.cfg`
gives.

### AlpacaRuntime

The variables carry the names of the code. `data_src` and `data_size` are left
out: an entry's source is always the private copy of its destination. Private
copies and stamps are addressed by variable. `pc` names the place in the code
between two stores, `todo` stands for the counter of a loop or for the rest of
a straight-line sequence, and `reg` for the register of the last read. Each
action makes at most one store to non-volatile memory, so that `PowerFail`,
which is enabled everywhere, falls between any two stores. Stores that span
several bytes can be torn where the code copies bytes: `TornCopy` leaves an
arbitrary value in the variable being committed, `TornClear` a partly cleared
stamp.

Decisions worth knowing:

* `write_to_gbuf()` makes four stores, size, destination, source and count.
  The first three go to a slot beyond the count and are one action, since
  nothing reads the slot before the count covers it.
* `clear_isDirty()` clears stamps in any order (the code goes upwards); the
  properties hold for every order, and so for the code's.
* The model's task is a choice of reads, writes and a next task, so that what
  it shows holds for every program whose read-then-written variables are
  `War`. The variables a task only writes are written in place by the compiled
  code; `CuckooAlpaca` adds them.
* `GbufAssumption` (room for every variable a task may write) is what the
  compiler computes: `task_relocate` may write 128 elements and 3 scalars, and
  the arrays have 131 entries.

`TasksAreAtomic` maps the committed store to the originals overlaid with the
copies a commit in progress has yet to bring home, the view of an attempt to
what a read would return, and requires `AtomicTasks!Spec` of the result.

### CuckooProgram, CuckooTasks, CuckooAlpaca

`Script(t, m, coin)` is what task `t` does from memory `m` when `rand() % 2`
gives `coin`: its accesses in program order, and the next task. Words have 16
bits; the hash functions and the XOR of indexes are computed, not abstracted,
since the golden result is about them. Buckets and scalars are keys of one
memory function. Reads are in a script where the runtime reacts to them
(elements of `filter` in `task_add` and `task_relocate`).

`CuckooTasks` runs scripts as a whole, from `store` to `store`, and `current` is
the task to run next. `CuckooAlpaca` extends it and `AlpacaRuntime`: it runs the
scripts access by access on the runtime's own actions, privatized variables
through `Read` and `Write`, others in place, with power failures anywhere, and
an attempt that starts over flips its coin again. Here `store` and `current` are
history variables, the memory as of the last transition and the task it led to;
`RunsAsTasks` says that the two go through a behaviour of `CuckooTasks`. It fails
if the compiler forgets to privatize the scalars (the mutant), or if two attempts
with different coins left different in-place writes behind. `FinalCounts` says of
non-volatile memory itself what the program promises: when `task_done` runs, it
is what the completed tasks made of it, and at least as many keys were found as
inserted.

### ChainRuntime

The program is a plan per execution: which fields the task outputs, with which
values, and where it goes. A restarted attempt follows the same plan. Time and
lists are those of the code; `now`, `committed` and `aborts` are history.
`chan_in()` changes no state and is the operator `ChanIn`; `SyncIsMostRecent`
compares it with the last committed outputs at every point of a task's body.
The statement `dirty_self_fields[num_dirty_self_fields++] = self_field`
(`chain.c:271`) is two stores in the compiled `chan_out`, count first, and two
actions here, `CountDirty` and `EnterDirty`. A power failure between them
leaves a counted slot that nobody wrote; it holds NULL, or an entry of an
earlier execution, whose dirty bits then decide. `PopDirty` swaps nothing for
NULL, where the device would interpret whatever is at address 0.

### MementosFram

RAM is the globals at its low end and the stack at its high end; `Value` is
what a word may hold. `BundleWord(k)` is the word at offset `k` of the bundle
of the running program and `WriteOrder` the order in which the assembly and
the loops of `__mementos_checkpoint` write them, which is not the order of
addresses. Between any two words the power may fail. Restoring is two actions
only, `NoteRestorePc`, the one non-volatile store of it, and `Restore`: RAM and
registers do not survive a failure in between.

A segment for a bundle is as large as RAM, while a bundle holds RAM's used part
*and* header, registers and magic number. That two bundles stay apart follows
from the stack: the call that writes the bundle needs `FrameSize` words below
`sp` itself, and these are as many as the bundle's overhead, `Registers + 3`.
With `ProgramPush` allowed one word further, `BundlesApart` fails; with the
second segment one word lower (the mutant), too.

Whether a call of `__mementos_checkpoint` checks voltage or a timer and returns
at once is the program's choice between `Checkpoint` and its other steps.
`ResumesFromCheckpoint` maps the state of the running program and the contents
of the active bundle to `Checkpoints`: until `activePtr` is stored, a failure
takes the program back to the previous checkpoint, from then on to this one.

### MementosFlash

The two segments are words that can be programmed once (`Program`, by which
bits are cleared only) and erased together. `Data` abstracts all contents that
matter to nobody, `Magic`, `Zero` and `Blank` are the words the searches look
for, and headers keep their sizes, since the walks are driven by them. The
header's two bytes are two programming steps; in between it announces
`TornSize` words of globals, which is 0xFF bytes in the code and more than a
bundle here. A word that is no header is read as a size of `JunkSize`.
`locate_next_bundle` and `find_active_bundle` clear words as they go: their
operators yield what they return together with the words cleared in order, and
`TornSearch` lets the power fail between two of them.

Simplifications: erasing a segment is one step. Sizes count words: the code
stores them in bytes, rounded to even, in one byte of the header each
(`mementos_flash.c:105-117`), and so they must fit (`MaxHeaderSize`, 127 words, in
`SizesAssumption`), which the code does not check. The copying back is left out:
`mementos.c:64-163` reads the layout of FRAM bundles, with two words of header,
whatever the memory (its comment at lines 28-31 describes the flash layout).
`force_free()` is never called. The branch of `__mementos_checkpoint` that finds
no segment
marked is left out because it is unreachable, which is `RoomCanBeMade`.

### Ipos

One action per non-volatile write or DMA transfer; `PowerFail` between any two,
`TornSend` and `TornCommit` in the middle of a transfer. Addresses are numbers,
because the code finds the page of a variable by comparing them.

Any attempt of a task may call `os_jump()`, with any argument, or not call it,
whatever earlier attempts did. The code keeps the request in the non-volatile
`jump` and `jump_to` and clears it only when a task ends, so that an attempt
that was cut short leaves it to a later attempt. `asked` is what this attempt
asked for, volatile; the history variable `begun` says whether some attempt of
this task asked. `NextTaskAsAsked` compares them with the task that is about to
be committed as next: an attempt that asked gets what it asked for; one that
did not goes on to the successor or, only when an earlier attempt of the *same*
task did ask, to where `jump_to` leads; a task that never asked does not jump.
The mutant that leaves `jump` set after the jump breaks it. The other history
variable, `ran`, is the set of initial tasks executed so far.

`__pageSwap()` searches for a page with `<=` (`dataProtec.c:158`), while the test
whether a variable is in the current page takes the upper limit for the next
page (`dataProtec.h:58`). The two disagree for a variable at the start of a page
other than the first. `SwapMissesPageStarts` says that they disagree for nothing
else: a swap brings the page of the variable it is for, unless that variable
starts a later page; then it brings the page before, and the access goes to the
word behind `RAM_PAG` (`AccessBeyond`). What is there is not a protected variable:
a write is lost, a read gives no variable's value. The instance has a variable
at the start of each of its pages. `TasksAreAtomic` is about accesses that reach
their page.

`TasksAreAtomic` says that IPOS makes the promise Alpaca makes, of the same
abstract specification: the committed store is the pages at their final places
overlaid, once the commit flag is set, with those in the buffer, and a task
sees its page in RAM and the others where a swap would look for them. The
mutant whose commit leaves out the last page breaks it.

Known limits: `RVAR` (`dataProtec.h:83-86`) adds the result of
the swap, which is 0, to addresses that the swap changes, in an order that C
leaves open; the model takes the one that works. Merging tasks
(`psched.c:115-136, 148-166`) compares counters with sizes that are 1 and never
change. The pages that initial tasks write are never sent (`psched.c:80-81`,
a `TODO`), so that the model's initial tasks write nothing; they call no
`os_jump()`, either.

### The applications on Alpaca and Chain

Each task of the source is one action, named for it, with its guard, its reads
and writes, and its transition; loops over an array inside a task are functions
over its indexes. `AlpacaRuntime` and `ChainRuntime` show that tasks take
effect as a whole, so that nothing is lost by that; `CuckooAlpaca` shows it for
one application access by access.

On Chain a field is written by a task to a set of channels with the time of the
task, and a sync takes the latest of the fields it names, in the order it names
them when stamps are equal. A sync with channels nobody has written yet has no
value, where the code follows a NULL pointer; the task is then not enabled, and
`ProgramsEnd` would be false. A self channel's
outputs are visible at once, where the code swaps them in at the writer's next
prologue: no other task syncs with the self channels of these applications, so
that none can tell. What was one variable on Alpaca is several
channels on Chain, and each sync has its own list of them. That these lists are
right is what the Chain modules are about: `ChainAsAlpaca` compares variable by
variable for `ar` and `bc`, and asks of the compressed log's channels that they
hold a forest which the log tells; RSA and the filter are checked by their
results and by `ResultIsReduced`. Their lists are *not* all right: see
`CuckooChain` in section 6.

The equipment monitor compresses letters as they come: the path of the letters
seen since the last symbol is a path in a dictionary of nodes, each linked to
its first child and to its next sibling; where the path leaves the dictionary
the node it left at is written to the log as a symbol, and a node is added
below it. `Cem` keeps the copies of nodes that `task_compress` and
`task_add_node` leave for `task_add_insert`, which writes them back with the new
link. `DictionaryIsForest` says that links reach every node that was added, each
once, and nothing else; `LogTellsDictionary` that the log names the node each one
was added under, so that a reader of it can make the same dictionary again.

Data are abstracted where nothing depends on them: byte arrays become words and
output the values printed. Arithmetic keeps its width: 16-bit hashes, 32-bit words of
Blowfish as pairs of halves, digits of RSA in words of 16 bits,
the fixed-point square root of activity recognition.

### Dino, DinoPrograms

DINO programs are C programs with boundaries; what lies between two is a
*segment*. An instance gives for each boundary the stores the segment makes to
non-volatile memory, one by one in program order, its effect on locals, and the
next boundary; and which variables the programmer has versioned there and
forgotten to restore (`Unrestored`; `REDUCE_NORMALIZE` in RSA has no restore
macro, so that the recovery bit stays set until the next one). A power failure
falls between any two stores, takes locals back to the checkpoint and leaves
non-volatile memory as it is; the macros put the copies back. That a
checkpoint takes effect as a whole is `MementosFram`.

`SegmentsAreAtomic` asks of every segment of every application that however
often it is interrupted it has the effect of one uninterrupted attempt, with
any outcome of `rand()` an attempt may draw, and any answer RSA's comparison of
equal leading digits may find in the memory below the modulus. `BlowfishDino`
lets power fail
after each sixteenth word while a box is first filled, since all of those
stores are plain and independent.

## 3. Runs

| run | instance | question |
|---|---|---|
| `alpaca_atomic` | elements a, b, scalar s, two tasks, two values, stamps 0..2 | atomicity, stamps, list, cursor |
| `alpaca_commit_ends` | two elements, one task, strong fairness | do commits end? |
| `cuckoo_on_alpaca` | 4 buckets, 6 keys, 2 relocations, stamps 0..2 | is the compiled program the program, and are its counts those of the filter? |
| `chain_sync` | two working tasks, a self field, a channel, strong fairness | syncs, stamps, do prologues end? |
| `fram_promise` | 8 words of RAM, one global, up to two words of stack | the promise of checkpoints, bundles apart, watchpoint |
| `flash_bundles` | segments of 15 words, bundles of 5 or 6 | whole bundles, segments, room |
| `ipos` | two pages of three words, a variable at the start of each and one beside it, two values, three tasks, two initial ones, jumps by 0 and 2 | atomicity, initial tasks, page swaps, jumps |
| `programs` | the six applications in three versions at their own sizes (RSA on Alpaca and Chain with a second text), and the cuckoo filter on Alpaca with 32 buckets, 28 keys, 2 relocations | golden results, segments atomic under failures, termination, the dictionary and its log, reduction, the filter's consistency |
| `chain_dirty_overflow`, `flash_newest`, `cuckoo_chain_lost`, `rsa_dino_compare` | see section 6 | disagreements of code and comments, tests or golden results |

Bounds. The stamp wraps after 2 boots instead of 65535: one step below the
wrap, the wrap and the step after it all occur, many times, and behaviour
depends on nothing but whether a stamp equals `_numBoots` and whether that is
the largest. Two elements are enough for an entry to be copied while another
waits, and for a stale stamp beside a fresh one; the scalar adds the second
way into the list. Four buckets for six keys force relocations, a chain that
gives up, and every branch of `task_add`; thirty-two for twenty-eight keys add
chains that succeed, chains that would run in a circle, and whole behaviours
with and without a failed insertion, for every sequence of victims. Six words
of RAM would leave no stack beside the frame of a checkpoint; eight give it two
words, so that bundles differ in size and content from one checkpoint to the
next, and as many checkpoints and failures as TLC likes. Two or three bundles
fit a flash segment of fifteen words: every run of the log fills a segment,
goes to the other, supersedes and erases, with torn bundles at every position;
the torn size leads beyond the end of a bundle, and the junk size beyond that.
Chain's bounds are constants of `ChainRuntime`: `MaxOuts` outputs of
an execution, `MaxTransitions` transitions of a behaviour, `MaxAborts` failures
in one execution's body. Three transitions suffice for a value to be output,
swapped, overwritten and synced; behaviours stop at the bound, which is why
those runs do not check deadlock. The applications stop because the programs
call `exit(0)`.

The applications run with the constants of the source (`GOLDEN_BUCKETS` and so
on for the filter): there are no bounds in `programs`, but one input each, the
one compiled in. The golden text of RSA
never needs `task_reduce_add`, because no estimate of a quotient digit is too
large for it; the second text, two letters found for that, does. The crowded
filter is there because the golden run relocates little. For IPOS two pages are
enough for a swap, for a page that was sent in an earlier swap to be brought
again, and for a swap that misses its variable; three tasks tell a jump by 2 and
one by 0 from the step to the successor.

Fairness. Programs without power failures are weakly fair in their next task: the
processor goes on (`AskedToEnd`; the Blowfish application is left out of
`ProgramsEnd` because evaluating its steps twice takes TLC too long, and that it
ends is seen from `GoldenResult`, whose premise it reaches). `ProgramsEnd` is
about the code's own loops: tasks that repeat themselves until a count is
reached, the search in the dictionary, chains of relocations. The
runtimes need more: power failures are always possible, so that nothing at all
can be promised unless charges now and then last for the next piece of work.
`ChargeLasts` states that for the prologues: each of their steps, when it could
happen again and again, happens. It says nothing about tasks, whose attempts
may fail for ever, and charges may be just long enough for one step of
progress: `CommitEnds` and `PrologueEnds` hold because the cursor and the list
length are stored at each step (the mutants that do not store them fail).

## 4. Proofs

All safety properties of the runtimes, those of the cuckoo filter, both run task
by task and compiled on the runtime, and those of the equipment monitor's
dictionary are proved for every value of the constants. No property is inductive
by itself: each module states, as named conjuncts, the invariant that is (`IInv`,
`TasksInv`, `CuckooInv`, `CemInv`); the proof modules prove that it holds at
first, one lemma per action that the action preserves it, and the theorems from
it. TLC checked each invariant on small instances before it was proved.

| theorem | property | hypotheses beyond the constants' assumptions |
|---|---|---|
| `AlpacaRuntimeProofs!TypeCorrect`, `StampsAreFresh`, `GbufNeverOverflows`, `CursorRestarts`, `CommitListIsExact`, `Atomicity` | `TypeOK`, `NoStaleStamp`, `GbufFits`, `CursorAtStart`, `CommitListExact`, `TasksAreAtomic` | |
| `ChainRuntimeProofs!TypeCorrect`, `ListFits`, `StampsDiffer`, `SyncsAgree` | `TypeOK`, `DirtyListFits`, `NoEqualStamps`, `SyncIsMostRecent` | `NoWrap`, `ListHolds` |
| `MementosFramProofs!TypeCorrect`, `BundlesStayApart`, `WatchpointIsRight`, `Resumption` | `TypeOK`, `BundlesApart`, `StuckPathIsStuck`, `ResumesFromCheckpoint` | |
| `MementosFlashProofs!TypeCorrect`, `BundlesStayInSegment`, `RoomIsMade` | `TypeOK`, `BundleInSegment`, `RoomCanBeMade` | |
| `MementosFlashProofs!FoundBundlesAreWhole` | `FoundIsWhole` | `TornFits` |
| `IposProofs!TypeCorrect`, `InitialTasks`, `NextTask`, `SwapsMissPageStarts`, `Atomicity` | `TypeOK`, `InitTasksHaveRun`, `NextTaskAsAsked`, `SwapMissesPageStarts`, `TasksAreAtomic` | |
| `CuckooProofs!FingerprintIsNotEmpty`, `XorUndone` | of the hashes | |
| `CuckooProofs!InvariantHolds`, `CuckooTypeCorrect`, `OccupiedAsInserted`, `NoKeyIsLost`, `NoneIsMissed` | `TasksInv`, `TasksTypeOK`, `OccupiedIsInserted`, `NoKeyLost`, `NoFalseNegatives` | |
| `CuckooAlpacaProofs!CuckooInvariance`, `CuckooRunsAsTasks`, `CuckooKeepsKeys`, `CuckooFinalCounts` | `CuckooInv`, `RunsAsTasks`, `NoKeyLost`, `FinalCounts` | |
| `CemProofs!CemInvariance`, `ForestAlways`, `LogAlways`, `RoomAlways` | `CemInv`, `DictionaryIsForest`, `LogTellsDictionary`, `DictionaryHasRoom` | `LogFitsDictionary` |

### Alpaca runtime

For every program (`War`, tasks, variables, values), every stamp width and
every list size with room for one task. `IInv` is the type invariant with
three parts:

* `StampInv`: no stamp is ahead of `_numBoots`; once the prologue has passed
  the increment, all stamps are strictly behind it, and a running task's
  stamps equal it only for elements it may write. The wrap works because
  everything is cleared before the increment, which `pc = "wrap"` records.
* `ControlInv`: what holds at each place of the code: where a commit is in
  progress, how far the cursor is, that what was copied equals its copy, that
  outside a commit the cursor is at 0, and which variable is on its way into
  the list.
* `ListInv`: while a task runs, the list names what is stamped and what has
  been entered of the scalars, without repetition: its length is the
  cardinality of a subset of `War[task]`, hence within bounds.

`Atomicity` maps each action to a step of `AtomicTasks` (`Read`, `Write`,
`SwitchContext` to `Complete`, failures to `PowerFail`) or to a stutter.

### Chain runtime

For every set of tasks and fields and every program of outputs and syncs in
which a sync names no task twice and a channel leads from one task to another
(`SyncAssumption`). The two hypotheses are what the code takes for granted and
does not check: `NoWrap`, that the logical time does not reach its end
(without it `SyncIsMostRecent` fails, section 6), and `ListHolds`, that the
dirty list has room for the outputs of all attempts of one execution.

What a sync returns is decided by what a failure can leave behind, so the
invariant speaks of every field at every moment. A field whose task is not
running is `Settled`: its latest value is the committed one, and if it has not
been swapped yet it is in its task's list, which is how the prologue will find
it. A field of the running task is `UnderWay`: the buffer that is read holds
the committed value, and what this execution has output so far is in the other
one, marked and listed. `SettledInv` turns into `RunningInv` when the
prologue has emptied the list, and back when the context is switched. `TimeInv`
(stamps are in the past, those of two writers differ), `PosInv`, `CountInv`
(at most `MaxOuts` entries per attempt, so that `ListFits`), `BufferInv` and
`OutputInv` (each store of `chan_out()`) support them.

### Mementos, FRAM

For every size of RAM, globals and registers. `StackInv` says that a frame of a
checkpoint fits below the stack; `BundleInv` that the active bundle is as large
as its header says; `CheckpointInv` that a checkpoint writes to the other bundle
and that what it has written is the running program word by word, in the order
of the code; `WatchpointInv` when a restore is noted. `StackAssumption` (RAM
holds the globals and one frame), `MagicAssumption` and `OffAssumption` (two
model values differ from the words) are all the constants need. `Resumption`
maps the store of `activePtr` to the abstract checkpoint, and shows that every
word written before it changes nothing that `Checkpoints` sees.

### Mementos, flash

For every segment size, number of registers, size of globals and set of stack
sizes such that a bundle fits a segment and each size its byte of the header
(`SizesAssumption`). The two searches are recursive functions over addresses that
rise from a bundle to the next. That
they return what they should at *every* address is proved from a least or
greatest counterexample (`DownInduction`, `UpInduction`, two lemmas about sets of
numbers), since a theorem of induction that takes an operator is out of the
provers' reach.

`RoomInv` gives the three simple theorems. `FoundIsWhole` is the hardest
statement here, because the code repairs nothing: a torn header, a torn bundle,
a half-made mark, an interrupted search and an interrupted erasure all remain
in flash, and the bundle found after them must be whole. The invariant adds
what each segment looks like until it is marked: the first holds at most one
bundle, at its start (`FirstInv`); in the second, every whole bundle is followed
by the next one or by nothing, and nothing behind one that is not whole carries
the magic number (`SecondInv`); the bundle underway is the last one of its
segment (`WriteInv`); what a failure has cut short is marked before the program
runs again (`CutInv`); a bundle of the first segment and unmarked ones of the
second are not there together (`SupersedeInv`); and a mark is complete when its
first word is (`MarkInv`). `TornFits` is needed: see section 6.

### IPOS

For every number and size of pages, tasks and initial tasks, every layout of
variables and every set of jumps. `BootInv` and `RanInv` follow the start
through any number of power failures; `FlagInv` and `IndexInv` say which
of the three indexes of the scheduler is current at each place, and that `jump`
is set only if an attempt of the task being executed has asked, which the index
computed from it inherits (`NextIndexes`); `PagesInv`
that the lists of sent pages agree where one is read after the other was
written, and that the page in RAM is among them; `CopiedInv` that the pages a
commit has passed are at home. `Atomicity` maps the store of the commit flag
to `Complete`.

### Cuckoo filter

For every number of buckets that is a power of two up to 2^15, every number of
insertions and of relocations that a word holds. `CountInv` and `KeyInv` follow
the counters and the key through the 13 tasks. The difficult part is the
filter: relocations move fingerprints through buckets in a chain of any length,
each bucket must remain one of the two its key is looked up in, and equal keys
and equal fingerprints occur. `HomeInv` says that there is a function that maps
every bucket in use to a key of its own inserted so far, whose fingerprint the
bucket holds and of whose two buckets it is one; and that during a relocation
the victim is a key that no bucket is mapped to. A step of the chain swaps
the victim with the occupant of its other bucket, which is where it belongs
since the exclusive or with the same hash undoes itself (`XorUndone`, proved
bit by bit over the 16 bits, with no bit-vector theory at hand). As long as no
insertion has failed, as many buckets are in use as keys were inserted; the
function is then onto, and `NoKeyLost` follows; `NoFalseNegatives` adds that the
lookups count at least one key per bucket in use.

`FingerprintIsNotEmpty`: no 16-bit key has fingerprint 0, since the step from
the hash's seed stays in a window that does not reach the wrap. "Word is 0" is
therefore a sound test for an empty bucket.

### Cuckoo filter on Alpaca

For the same numbers, every stamp width and every list size that
`AlpacaRuntime` allows: `ProgramAssumption` says that the runtime's variables,
tasks and privatized variables are those of the program, and `CuckooSpec` has
power failures between any two stores. `CuckooInv` is the invariants of the two
modules composed, that the runtime's task is the current one, and what relates
them:

* `Leftovers`: the committed store (the originals, with what a commit has yet to
  bring home) is `store`, except for variables the current task writes in place,
  where an attempt that failed may have left anything. These are variables every
  attempt writes before it ends, whatever its coin.
* `Attempting`: what is left of an attempt takes the memory it sees (copies before
  originals) to the outcome of a script from `store`, and writes only what the
  task may.
* `Finished`: when the accesses are used up, what the attempt sees is that outcome,
  and stays so through the entries in the list and the commit.
* `Fresh`: before it begins, an attempt sees the committed store.

`CuckooRunsAsTasks` follows, since the switch of context is then the step of
`CuckooTasks` and everything else a stutter, and `CuckooKeepsKeys` and
`CuckooFinalCounts` carry over what was proved of `CuckooTasks`. The tasks'
scripts enter by one lemma per task, that it is `Steady`: the variables it writes in
place do not depend on the coin, and from a memory that differs only there it does
the same accesses and goes on to the same task.

### Equipment monitor

For every number of letters, size of the log and size of the dictionary that
holds the letters and a node for each symbol (`LogFitsDictionary`: 256 + 64 are at
most 512). The links are mutable and spread over 512 nodes, but the log gives
the tree another, rigid form: `Parent(j)` is the symbol that was written, or is
about to be, when node `j` was added. `ChildInv` says that a node's child is the
first node added under it, `SiblingInv` that a sibling is the next one added under
the same node; both are exact, which makes links and added nodes one to one
(`ForestAlways`: a link to every node from the least counterexample, none to the
same node twice). `SearchInv` says what the search knows: the copies of parent and
last sibling are still what the dictionary holds, since nothing is added before
they are written back, and no child passed so far has the letter; `LetterInv`,
that children have different letters, follows when the node is added. `NodesInv`
counts a node for each symbol, so that the dictionary is never full and
`while (1)` in `task_add_insert` is not reached.

### Only model-checked

* Liveness under fairness, which the prover does not reach: `CommitEnds`,
  `PrologueEnds`, `ProgramsEnd`.
* Statements about one computation, the compiled-in input: `GoldenResult`,
  `GoldenOnDino`, `SquaresBase` (true of this exponent only).
* `SegmentsAreAtomic` and `ChainAsAlpaca`, which depend on the applications' own
  texts: six programs' segments, and lists of channels task by task. What the
  latter says of the equipment monitor on Chain is proved for Alpaca only.
* `ResultIsReduced`: that a product reduced digit by digit is less than the modulus
  is arithmetic on sums over digits, that is, induction over data.

## 5. Not modelled

Clocks, pins, timers, time measurement, LEDs and the wording of the output;
tasks no other task transitions to (`task_init_array`); interrupts, which count
timer overflows only; energy; the layout macros of Chain's channels (addresses
are field names); Chain's `rand()` in an attempt that starts over
(`ChainProgram` runs tasks as a whole, `ChainRuntime` repeats choices); DINO's
semi-automatic and automatic modes, whose calls a compiler pass generates and
which the applications do not use; IPOS's merging of tasks, `os_search()`,
`os_memMapper()` and interrupt masking; the compiler passes themselves, whose
state is a program in LLVM IR and whose output is modelled where it meets the
runtimes; build scripts. `reg` aside, processor registers and the stack, which
a task does not keep.

## 6. Findings

Shown by violation runs:

* `chan_out()` (`chain.c:271`) appends to a list that restarts do not empty:
  attempts cut short add up until the list overruns its array
  (`chain_dirty_overflow`), against the comment at `chain.c:266-268`.
* `find_active_bundle()` (`mementos_flash.c:362`) marks the first segment for
  erasure whenever it is not empty, also when the bundle it returns lies there:
  the mark overwrites the program counter of that segment's first bundle, and
  the next boot erases it and resumes from an older checkpoint
  (`flash_newest`). `alt_segment`, which names the other segment, is assigned
  and never read.
* On Chain, `task_add` (`main_cuckoo_chain.c:412-415, 435-438`) does not sync
  with what `task_relocate` wrote; the sync is commented out, while
  `task_relocate` still declares `task_add` a reader (`:219-221`). A bucket that
  a relocation filled looks empty, is overwritten, and a key reported as
  inserted is not found (`cuckoo_chain_lost`, 16 keys in 32 buckets). The golden
  run is not affected.
* On DINO, `reduce_compare()` (`main_rsa_dino.c:558-566`) compares the addresses
  of two numbers in place of their digits. With `qxn` placed below the blocks
  this happens to give the golden cyphertext; the other way round it does not
  (`rsa_dino_compare`).

Shown by properties that state what the code does, checked and proved:

* `__pageSwap()` (`dataProtec.c:158`) does not "Find the requested page"
  (`dataProtec.c:152`) of a variable at the start of a later page: it finds the
  one before, and the access goes beyond the page in RAM
  (`SwapMissesPageStarts`). A program is safe from it if it keeps those addresses
  free.
* A task that called `os_jump()` (`psched.c:96-100`) only in an attempt that
  failed may still jump; if the failure fell between the two stores, to where an
  earlier task's request leads (`NextTaskAsAsked`, last case).
* `psched.c:68` says initial tasks are executed once; after a power failure they
  start over. `InitTasksHaveRun` is what does hold.

Seen while modelling or proving, not shown by a run:

* On flash, half of a header announces 255 bytes of globals. If stacks grow
  beyond what a segment holds next to that, a bundle at the start of a segment
  whose second header byte was never written seems to reach into the other
  segment, and what is found there may be a bundle that never completed:
  `FoundIsWhole` fails with `SegSize = 15` and `TornSize = 20`. The proof needs
  `TornFits`; `mementos_flash.c` checks no size. With segments of 512 bytes it
  holds for stacks of up to about 220 bytes.
* The dirty list of Chain (`MAX_DIRTY_SELF_FIELDS` entries) is safe if it holds
  the outputs of *all* attempts of one execution (`ListHolds`), not of one, as
  the code assumes; that is what `ListFits` proves and `chain_dirty_overflow`
  lacks.

* Chain's logical time wraps and syncs compare it as a number, which the `TODO`
  at `chain.c:113` mentions; `ChainRuntime` with `MaxTime = 2` and
  `MaxTransitions = 4` violates `SyncIsMostRecent`.
* After a checkpoint that a failure cut short, `locate_next_bundle()`
  (`mementos_flash.c:248`) writes on behind the torn bundle, where the walk of
  `find_active_bundle()` does not come, against the comment at
  `mementos_flash.c:341`.
* `TASK_PRINT` of `main_cem_dino.c:383-390` clears the counts of the block it has
  printed without having versioned them: repeated, it prints an empty block. It
  is the one segment `SegmentsAreAtomic` leaves out.
* `task_set_ukey` of `main_blowfish_chain.c:450-452` starts with an `i` that
  nobody has set. `BlowfishChain` models it as a choice; unless it is 0,
  `task_set_key` asks for bytes nobody wrote.
* `task_square_base` of `main_rsa_alpaca.c:307` does not set the operands of the
  multiplication; it squares the base only because the exponent is 3
  (`SquaresBase` holds for it; the mutant of `task_exp`, which visits other
  exponents on the way, breaks it).

## 7. Plan

Done, in this order: `AtomicTasks`, `AlpacaRuntime` and their proofs;
`ChainRuntime`; `CuckooProgram`, `CuckooTasks`, `CuckooAlpaca`; `Checkpoints`,
`MementosFram`; `MementosFlash`; the applications on Alpaca and Chain; `Dino`
and the applications on it; `Ipos`; the proofs about `MementosFram`, `Ipos`,
`ChainRuntime`, `MementosFlash` and `CuckooTasks`; the proof that the compiled
filter on the Alpaca runtime is the filter of `CuckooTasks`; the proofs about the
dictionary of the equipment monitor.

Left: that `Dino`'s segments are atomic whenever every variable a segment reads
and then writes is versioned; what `ResultIsReduced` says of RSA for numbers of
any length.

Runs are kept few: an instance answers as many questions as its size allows,
and a new one is added for a new module or a disagreement only.
