# Blimp in TLA+

Blimp is a family of RISC-V processors in Verilog (`src/hw`), with a functional
model in C++ that they are tested against (`src/fl`), an assembler (`src/asm`)
and an FPGA system around them (`src/fpga`). The processors are assembled from
interchangeable units. The largest one, `hw/top/BlimpV8.v`, fetches
speculatively with several reads under way, renames registers, issues in order
to four pipes, completes out of order, commits in order through a reorder
buffer, and squashes behind taken branches and jumps.

This directory models three things. First BlimpV8: each unit in a module of its
own, checked and in part proved against what it promises, and the units put
together as the top level wires them, checked against sequential execution.
Around it, the memory network and the display of the FPGA system, and the
assembler beside the instruction decoder. And the largest program of
`src/app`, the game of Colossal Cave, whose rules are a state machine of its own.

In the hardware modules one step is one clock edge. A unit's outputs are operators over
its registers and its inputs (the `assign`s and `always_comb`s), and the edge is
one action that gives every register its next value, whatever happens at once:
in this code the hard cases are those in which an allocation meets a completion
or a commit, or a commit a squash, on the same edge. The names are those of the source.

## 1 Inventory

| Component | Source | State | What happens on an edge | Correct when |
|---|---|---|---|---|
| Sequence number generator | `hw/fetch/SeqNumGenL3.v` | a list of used numbers, head, tail | allocate, free on commit, free all younger on squash, reclaim up to `p_reclaim_width` | no number is in flight twice; none is lost |
| Age logic | `hw/util/SeqAge.v` | oldest number | advance on commit | `is_older` is program order, across the wrap |
| Fetch unit | `hw/fetch/fetch_unit_variants/FetchUnitL3.v` | next address, reads wanted, reads to drop, `resp_fifo` | request, answer, drop, deliver, redirect | decode gets the program's path, each instruction once |
| Decode and issue | `hw/decode_issue/.../DecodeIssueUnitL5.v` | `F_reg`, whether a jump has redirected | stall, issue, redirect, be squashed | operands are those of program order |
| Rename table | `hw/decode_issue/RenameTable.v` | register and pending bit of each name, free list | allocate, complete, free | every register is free, mapped or superseded, and only one of them |
| Register file, router | `Regfile.v`, `InstRouter.v` | registers | write, forward | a value is read in the cycle it is written |
| Arithmetic pipe | `hw/execute/execute_units_l6/ALUL6.v`, `ExQueue.v` | `D_reg`, a queue with bypass | compute, queue, pass | nothing lost or reordered, also at full |
| Multiplier and divider | `IterativeMulDivRemL7.v` | five states, operands, partial result | swap signs, step, restore sign | the result is the functional model's, and comes |
| Load-store pipe | `LoadStoreUnitL7.v` | two stages and `stage2_fifo` | send, match an answer, extend | an answer meets its instruction |
| Control-flow pipe | `ControlFlowUnitL6.v` | `D_reg`, whether it has redirected | decide, redirect once | only what is not issued is squashed |
| Squash unit, age arbiter | `hw/squash/SquashUnitL1*.v`, `hw/util/SeqArb.v` | none | | the oldest request wins, one grant |
| Writeback and commit | `WritebackCommitUnitL3.v`, `ROB.v` | `X_reg`, entries, `deq_ptr` | arbitrate, insert, bypass, retire | commits in program order, each once |
| Fifo | `hw/common/Fifo.v` | two pointers, array | push, pop | a bounded queue |
| Functional model | `fl/FLProc.cpp`, `fl/FLMem.cpp` | pc, registers, memory | execute one instruction | it is the reference |
| FPGA memory network | `fpga/MemXBar.v`, `FPGAMem.v`, `PeripheralMemServer.v`, `fpga/net`, `hw/common/RRArb.v` | arbiters' filters, a queue and two stages, a peripheral state machine, keys | route, arbitrate, queue, read or write, answer | each server answers each client in order, with what was last written |
| Program loader | `fpga/spi/SPIMemClient.v` | address, data, go bit | take a word, write, start or stop fetch | no word comes while it is busy |
| Character buffer | `fpga/vga/CharBuf.v` | a ring of rows, cursor, shift | write, delete, scroll, clear | the screen is that of a terminal |
| Other FPGA protocols | `SPIMinion.v`, `fpga/ps2`, `VGADriver.v` | shift registers, counters | sample | |
| Assembler, disassembler | `src/asm` | none | a line to a word and back | they undo each other |
| Instruction decoder | `InstDecoder.v`, `ImmGen.v`; `fl/FLInst.cpp` | none | a word to control signals | both decoders agree |
| Colossal Cave | `src/app/adventure` | some forty variables: player, objects, dwarves, clocks, score | one sentence; one turn; save, restore | the rules keep them consistent, and the program does not stop by accident |
| Earlier units | the other variants under `hw/` | | | as the V8 units, with less |

Interactions. All connections are val/rdy interfaces, on which a message passes
in a cycle with both, and notifications, which cannot be refused. Fetch takes a
number for each instruction it hands to decode; decode takes a register for each
name written and hands the instruction to the one pipe that knows its operation;
the pipes ask the writeback unit, which grants the oldest. Three notifications
come back: *completion* (to the rename table and the register file), *commit*
(to the number generator, the free list and every copy of the age register) and
*squash* (to fetch, decode and the generator), which the squash unit chooses
among a jump in decode and a branch in its pipe.

Hard here: several of these on one edge, with later assignments winning over
earlier ones; values bypassed combinationally in three places; identities
(sequence numbers, physical registers) that are reused while older holders may
be around; state that nothing can undo once an instruction is issued; and units
that wait for each other. In the memory network: three clients and two servers
of different speed, and queues that do not look at full. In the game: dozens of
verbs that move objects, random dwarves and a pirate that do so as well, two
clocks, and long sequences of sentences nobody tried. The `hazards` of `PROJECT.json` list them by line.

## 2 Modules

| Module | Models | Abstract counterpart | Proofs |
|---|---|---|---|
| `SeqAge` | `SeqAge.v` | `Precedes`, the order on the ring | `SeqArb_proofs` |
| `SeqNumGen` | `SeqNumGenL3.v`, its age register | | `SeqNumGen_proofs` |
| `FetchUnit` | `FetchUnitL3.v` | `FetchStream` | `Blimp_proofs` |
| `RenameTable` | `RenameTable.v` | program order of `inflight` | `RenameTable_proofs` |
| `Fifo` | `Fifo.v` | `BoundedQueue` | `MCUnits_proofs` |
| `ExQueue` | `ExQueue.v` over `Fifo` | `BoundedQueue` | `MCUnits_proofs` |
| `MulDivRem` | `IterativeMulDivRemL7.v`, whole data path | arithmetic of `FLProc.cpp` | `MCUnits_proofs` |
| `SeqArb` | `SeqArb.v`, `SquashUnitL1.v`, `SquashUnitL1Chain.v` | "the oldest request" | `SeqArb_proofs`, `MCUnits_proofs` |
| `WritebackCommit` | `WritebackCommitUnitL3.v`, `ROB.v` | program order of `inflight` | `MCUnits_proofs` |
| `LoadStoreUnit` | `LoadStoreUnitL7.v` over `Fifo` | a memory that is read and written at once | `LoadStoreUnit_proofs` |
| `RV` | the operations, from `ALUL6.v` and others | | |
| `DecodeIssue` | `DecodeIssueUnitL5.v`, `Regfile.v`, `InstRouter.v` | | |
| `ALU`, `MulPipe`, `ControlFlow` | the pipes as BlimpV8 uses them | | |
| `Blimp` | `BlimpV8.v` without `MEM_XU` | `Isa` | `Blimp_proofs` |
| `MemNet` | `MemSubSys.v`: `MemXBar.v`, `fpga/net`, `RRArb.v`, `FPGAMem.v`, `PeripheralMemServer.v`, `SPIMemClient.v` | what each server owes, in order | `MemNet_proofs` |
| `CharBuf` | `CharBuf.v` | a terminal that moves its rows | `MCUnits_proofs` |
| `Asm` | `asm/*.cpp`, the table of `inst.h`, the fields of `FLInst.cpp` | each translation is the other's inverse | |
| `InstDecoder` | `InstDecoder.v`, `ImmGen.v`, the patterns of `defs/ISA.v` | the decoder in `Asm` | |
| `AdvVocab` | the words and `vocab` | | |
| `AdvCave`, `AdvMove` | the travel table; `gettrav`, `dotrav`, `goback` and the special moves | | |
| `AdvWorld` | places of objects, `carry`, `drop`, death, score | | |
| `AdvVerbs` | `verb.c`, `itverb.c`, verb by verb | | |
| `AdvTurn` | `turn.c`: dwarves, pirate, lamp, closing, what a turn looks at | | |
| `Adventure` | `adventure.c`, `english.c`: prompt, parser, answers to questions; the file, written and read call by call, also when a call fails | the game that was left | `Adventure_proofs` |

`MC` modules and their `.cfg` files hold the instances for TLC; a module that
needs nothing but values for its constants is run by itself, with a `.cfg` of
its name. Operators named `X_Something` just before an operator `X`, marked
*Mutant*, are wrong versions of it: with one of them in place of `X` the
property it is meant for fails, so they show that the property says something
about the code. Nothing uses them.

A unit that is modelled by itself has an environment. Where the environment has
to know something (which instructions are in flight, in which order, which
register is committed) it is a variable that only observes: `inflight`, `arch`,
`delivered`, `redirect`, `args`. In `Blimp` all modules are instantiated with
the real neighbours, and `MeetsAssumptions` checks that these are allowed
environments of `SeqNumGen` and `RenameTable`, so that what is proved of these
two alone holds in the processor. It is proved for every size (section 4).

Some correspondences that are not one line for one line:

- *Addresses* are word addresses, an instruction is a record that is already
  decoded (`uop`, `rd`, `rs1`, `rs2`, `imm`, `op2_sel`). How a word is decoded
  is modelled by itself, in `InstDecoder`, where a word is the set of its bits.
- *Writing and reading an array of bits* is a function. The priority encoder of
  the free list is its meaning, the first free register.
- *32-bit literals.* `curr_head_ptr + 1` in `SeqNumGenL3.v:103` is not taken
  modulo the number of sequence numbers, because the literal widens the sum.
- *An undefined value* (`1'bx`, the write enable of BEQ and others) is either
  value.
- *Registers without reset* keep no value before they are written: a cleared
  valid bit is a record with `val` only.
- *The copies of the age register* in fetch, decode, the pipes and writeback get
  the same reset and the same notification, and are one variable in `Blimp`.
  That the reorder buffer's own `deq_ptr` agrees with it is checked
  (`RobHoldsCompleted`).
- *A queue that is pushed at full* (`FPGAMem.v:110`) overwrites its oldest entry
  and counts one more than it holds (`Pushed` in `MemNet`), until its pointers
  meet again and it takes itself for empty (`Wrapped`).
- *A save file* is, for each call of `fwrite`, the values that got to the disk.
  `Writes` and `Reads` are the two lists of calls, `saveadv` leaves what one of
  the outcomes in `Disk` lets through, and `restore` reads what is there,
  variable by variable, over those of the running game.
- *A key* is counted, not named; the counter of `key_buf` wraps as the two
  pointers of the Fifo do when it is popped at empty.
- *A line of assembler* is the sequence of its tokens, since splitting and
  printing are text.
- *In the game* the globals are the fields of one record, `game`, and each
  function of the code is an operator from a record to a record, so that calls
  nest as in C. A chance event (`pct`, `rand`) is a choice. What the program
  only prints is left out. `game.fatal` is the number given to `bug()`, which
  ends the program. A sentence is two words of the vocabulary, with the parser
  as it is: `vocab` searches the table as its binary search does, duplicates
  included (section 6).

## 3 Runs

Every property is in the module named, with the behaviour it is about.

| Run | Asks | Bounds, and why they are enough |
|---|---|---|
| `seqnumgen` | Are numbers in flight unique, ordered, marked, reclaimed? | 8 numbers, 2 reclaimed per edge, up to 7 in flight: the window wraps, a squash frees more than one edge reclaims, head meets tail. Proved for all values. |
| `seqnumgen_wrap` | What if the pipeline can hold as many? | the same with 16; finds the counterexample of section 6 |
| `rename_table` | Is every register accounted for, are pending bits exact, does nothing write a freed register? | 2 names, 4 registers, up to 4 issued: both spares in flight, allocation meets completion and commit of either name. All but `AllocAgain` is proved for all values. |
| `pipeline_ends` | Does decode get the program's path? Do results retire in order, with their own data? | The first and the last unit, one at a time (`stage`). Fetch: 4 addresses (they wrap), 3 reads under way, any delay: a squash meets reads under way, in `resp_fifo` and leaving at once, and squashes follow each other. Writeback: 2 pipes, 4 numbers, 4 in flight: as many results as entries, so the slot just freed is filled again. All but `Delivers` and `EveryCommits` is proved for all values. |
| `units` | Each of the small parts, through all its inputs: is the queue with bypass a queue? do both trees and the chain find the oldest? is each product and quotient the functional model's, and does it come? does the screen scroll? do the two translations undo each other, and the two decoders agree? | One part per behaviour. Queue: depth 2, three messages (proved for every depth). Arbiters: 1 to 5 wires (padded trees of depth 0 to 3), 4 numbers, every position of the oldest. Arithmetic: all operands of 3 bits, all 8 operations, back to back; three bits have both signs, the overflow of -4/-1 and divisors of all lengths. Screen: 3 rows and 3 columns, two characters, any text. Assembler: every instruction, each field at its limits, one beyond and in the middle, at two places in memory. Decoders: words with any of the bits that tell instructions apart. Queue, arbiters, arithmetic (but for `Finishes`) and screen are proved for every size. |
| `mul_div_rem_overflow` | Without the exception? | finds the counterexample of section 6 |
| `load_store` | Does an answer meet its instruction, do loads see the stores before them? | 2 under way in the memory and 2 places in `stage2_fifo`, as tight as the unit's comment allows; stores of each size and one cut off at the end of the word, loads of two sizes, bytes of 2 bits (sign and value). Proved for all values but for `Answered`. |
| `memory_network` | Does each client get what it asked for, in order, whatever is granted and stalled? Is the loader always ready for its next word? How does the queue fill? | a queue of 2 and its 2 stages, 2 reads of fetch, 2 requests of the load-store unit, a word of SPI every 4 cycles or later, an answer held back for 1 cycle, keys that come while a read waits for one: more under way than fits, so the queue does overflow. Proved for all values. See below. |
| `memory_network_overrun` | Is the comment on SPI right that there is no backpressure? | the depths of the code (queue of 4, 8 + 9 + 1 under way), loads only, answers held back for 1 cycle at a time, nobody types and the loader writes one word after the other (`LoadSpec`); finds the counterexample of section 6 |
| `memory_network_keys` | Does a key that leaves the buffer answer a read? | a queue of 2, 1 read of fetch, 2 requests of the load-store unit; finds the counterexample of section 6 |
| `adventure` | Do the rules keep objects, clocks and score consistent, and does nothing end the program by accident? | fourteen scenes, see below |
| `blimp` | Is the trace that of sequential execution, and does it go on? Is nothing issued squashed, and does each unit get the environment it needs? | three programs of 8 addresses on 2 registers of 3 bits, 5 physical ones, 8 numbers, 2 reads under way, a `resp_fifo` of 2. All but `RetiresForever` is proved for all sizes. |

The programs of `blimp` are in `MCBlimp`: a loop of slow products that overwrite
each other beside a fast sum that does not wait; jumps to computed addresses and
jumps in the shadow of taken branches; the other operations and branches on
results just written. In all of them what lies beyond a jump is not an
instruction, so that fetch goes where decode must not. They are endless and
retire four to eight instructions a round, so every number and register is used
again and again. An unknown delay of the memory and of each multiplication
makes every interleaving of fetch, completion and squash.

In `memory_network` the clients may have five requests under way where the queue
and its two stages hold four, as those of BlimpV8 on the FPGA may have 8 + 9 + 1
where 4 + 2 fit. So requests do come to a full queue, and the push, which does
not look, overwrites one (`overrun`). What the two properties say of order and of
the loader's turn, they say until that happens, and the run ends there
(`RunNext`). How it comes to that is the first part of `AnswersMatchRequests`:
the queue holds one request and one more for each cycle in which an answer was
kept waiting (`kept`), however much is under way. So with answers that are taken
at once the queue never fills, and with the code's depth of four it takes three
cycles of waiting. `memory_network_overrun` shows the other side, with the
code's own numbers: the loader is not heard any more.

`adventure` starts in fourteen situations (the constant `Scenes`): at the bird,
the snake, the bridge with the troll, the pit, the plover alcove, the dragon, the
first meeting with the dwarves, with an axeman about, hunted by the pirate, in a
cave about to close, in the repository, with a lamp running out, at the boulders,
and with a game to save and restore. In each, every order of the sentences that matter there
is tried, with the outcomes of the chance events that matter there. A scene
bounds the sentences said, the rooms walked to, the dwarves that may come and the
rolls (the fields of `Scene` in `MCAdventure`), and `LimitCap` bounds the lamp.
A scene starts in a state that a game reaches: a new game taken on by the program's own operators, or by a script of sentences (`Rehearse`) before the free
play (`Perform`). In the scene `saved` the disk may fail with every SAVE (`Disks`):
the file cannot be opened, or it ends before the first value, within a table,
between the tables and the counter of what is carried, or just before the last
variable; LOAD in the middle of a game, and the next process, read what is there.
A game put together from two (`torn`) can have a counter that is one lower than
before with every file that is read, so the run leaves it at -1 (`LeastHolding`).
`RestoreIsExact` and `FatalHasKnownCause` are checked of torn games as well, the
rules of the game of the others. `ClosingRunsDown` states liveness of the closing as
a variant that falls: the prompt has no fairness, as nobody makes the player
type. The run allows the program to stop, since the game ends.

Fairness, and what in the code justifies it:

- The clock runs: weak fairness of the edge (`WF_vars(Next)`), everywhere.
- The memory takes a request and answers it in the end (`Requests`, `Answers` in
  `FetchUnit`; the first conjunct of `LoadStoreUnit`): the test memories do so
  after a bounded delay (`test/fl/MemIntfTestServer.v`). Decode accepts in the
  end (`Accepts`) and writeback takes a result in the end (`W_rdy` in
  `LoadStoreUnit`): the arbiter prefers the oldest, and the oldest commits.
- `Retire` in `SeqNumGen`, `CompleteOldest` and `CommitOldest` in `RenameTable`:
  the rest of the processor makes progress. For the units alone this is assumed;
  `RetiresForever` of `Blimp` checks it of the composition.
- `OfferOldest` in `WritebackCommit` is strongly fair: a pipe may offer other
  results in between, so offering the oldest is not always enabled, but a pipe
  holds its instructions in order and comes to the oldest one.
- `units` assumes that the clock runs for the multiplier (`Finishes`).
- `Blimp` assumes only the clock, the memory's answers and the end of
  multiplications (checked in `MulDivRem`, `Finishes`), written as three
  formulas of the form "infinitely often" which weak fairness of these three
  implies. Without any one of them `RetiresForever` fails.

Deadlock is checked everywhere but in `adventure`, and there is none: a clocked circuit always has a
next edge. What is called deadlock of a processor, an edge that changes nothing
for ever, is what the liveness properties exclude.

## 4 Proofs

TLAPS checks the following for all values of the constants: every safety
property of every hardware unit that is modelled by itself, what the units of
BlimpV8 rely on in each other, and what the game keeps. The assumptions are those of the modules (`ASSUME`), which say at least what the parameters of the
source say, and what is named below.

- **Age** (`IsOlderIsPrecedes`, in `SeqArb_proofs`): the three comparisons of
  `is_older` say "nearer to the oldest number on the ring", for every number of
  them.
- **`SeqArb`** (`RootIsOldest`, `GrantIsOldest`, `TreeRootIsOldest`,
  `ChainEndIsOldest`; `ArbitersChooseOldest` in `MCUnits_proofs`). The trees and
  the chain are recursive functions, and the claim is one for all their levels.
  It is proved by least counterexample: if some level held something else than
  the oldest of the requests below it, there would be a first one (`LeastNat`),
  and the level before it is right. The invariant of the run that uses them is
  that no two valid requests carry the same number.
- **`SeqNumGen`** (`TypeCorrect`, `Unique`, `AgeCorrect`, `ListCorrect`).
  Uniqueness is not inductive: a squash moves the head back, and why the next
  number is free does not follow from those in flight being different. The
  invariant says that they are the consecutive numbers from the oldest to the
  head (`InFlightIsWindow`), that the list marks just these (`ListIsWindow`),
  and that the tail lags at most one commit behind the oldest number
  (`TailFollowsOldest`), so window and lag never fill the ring. The lag is
  bounded because reclaiming skips freed numbers at least as fast as the one
  commit per edge frees them. Assumption: `PipelineFits`, fewer instructions in
  flight than numbers. Section 6 shows that it is necessary.
- **`RenameTable`** (`PartitionHolds`, `TypeCorrect`, `TableIsInOrder`,
  `PendingBitsExact`, `WritersKeepTheirRegisters`). `Partition` is inductive
  with the types: names map to different registers, superseded registers of
  instructions in flight are different and mapped by no name, and the free ones
  are all others. That a lookup finds the register of the youngest writer needs
  more (`FullInv`): the writers of one name form a chain in which each
  supersedes the register of the one before it (`Chain`), the name maps to the
  last of them, and a register is pending while its writer runs. So the
  register a writer will write is either mapped or superseded by a younger
  writer that is still there, hence not free. No assumption but at least as
  many registers as names.
- **`Fifo`** (`NeverOverrun`, `FifoImplementsQueue`, in `MCUnits_proofs`): pointers at most the depth
  apart, hence the slot a push writes is outside the part they enclose, and the
  contents as a sequence change as a bounded queue. A Fifo is used within its
  limits: no pop at empty, no push at full without a pop. **`ExQueue`**
  (`ExQueueImplementsQueue`, in the same module) uses its Fifo within these
  limits, and a message passes by only an empty one.
- **`FetchUnit`** (`FetchTypes`, `CountersCorrect`, `RoomForAnswers`,
  `FetchFollowsPath`, in `Blimp_proofs`), in any environment. Under the refinement mapping the abstract pc is the
  address of the first answer still wanted, or the next address to request if
  there is none. The invariant: the two counters add up to the reads under way,
  and those still wanted are the last ones, at consecutive addresses that end
  before `curr_addr`. Since answers queued and reads under way are within the
  limit together, an answer finds room. No assumption on the memory but order.
- **`WritebackCommit`** (`CommitsInOrder`, `BufferHoldsCompleted`, in
  `MCUnits_proofs`). The
  invariant follows each result from the pipe to commit: instructions in flight
  carry the consecutive numbers from `oldest` on (`InOrder`), a pipe offers at
  most one of them (`OnePerPipe`), the register behind the arbiter and the
  entries of the buffer hold those that have completed, with their own data
  (`RegisterIsCompleted`, `EntriesAreCompleted`), and `deq_ptr` is `oldest`.
  Assumption: no more in flight than numbers, for any number of pipes.
- **`LoadStoreUnit`** (`PushIsSafe`, `LoadsSeeStores`). That `stage2_fifo` is
  never overrun is proved with the unit and not taken from `Fifo`, because the
  unit pushes without a look at `full`. The invariant counts (`Lengths`: what waits in `stage2_fifo` and its output is
  what the memory has under way or has answered), says what each answer under
  way will be (`AnswersAreRight`), and that the memory is the abstract one
  without the stores not yet taken (`MemoryLags`). Assumption: the memory has
  at most as many requests under way as the queue has entries, which the comment
  at line 228 of the source asks for; with two more TLC finds an overrun.
- **`Blimp`** (`NothingIssuedIsSquashed`, `AssumptionsMet`, `AnswersFindRoom`,
  `FetchImplementsStream`, `ProgramIsExecuted`), on top of
  `SeqNumGen_proofs`, `RenameTable_proofs` and the fetch unit's invariant. That
  a squash hits nothing issued is not inductive: it depends on what every unit
  holds. The invariant `BInv` says that a pipe holds only issued instructions of
  its own operations that are not done (`AluHolds`, `MulHolds`, `CtrlHolds`), that
  a result in the writeback register or in the reorder buffer is that of one which
  is done (`RegisterHolds`, `BufferHolds`), and that the buffer's `deq_ptr` is the
  oldest number. `BranchIsLast` adds that a branch which has not
  asked yet is the last one issued: it asks in its first cycle in the pipe, and
  a squash stops decode in that cycle. With it go the invariants of `SeqNumGen`
  (issued instructions and the one in decode carry the consecutive numbers from
  the oldest on) and of `RenameTable`, which are kept because every cycle is a
  step of both: that is `AssumptionsMet`. With it, what is proved of the units
  alone holds in the processor; for fetch `AnswersFindRoom` and
  `FetchImplementsStream` say so.

  `ProgramIsExecuted` is the refinement of `Isa`. A step is one of `Isa` when an
  instruction retires, and the abstract registers are those `arch` names. To
  show that what retires is the program's, a second invariant, `IsaInv`, follows
  every instruction from decode on. `InOrder`: each one in flight has the pc
  that comes after the one before it (`PcOf`), reads what the last writer before
  it computes or else what is committed (`Holding`), and has put its result into
  its register once it is done (`Written`). That no other instruction writes
  this register in between comes from the chain of writers that `RenameTable`
  keeps; that decode reads the right one, from the same chain, the pending bits
  and the forwarding of a completion in its own cycle. `OnPath` and `Ahead` say
  where speculation stands: unless a taken branch has yet to redirect it, decode
  holds the next instruction or fetch wants it, and fetch is at the address
  after the instruction in decode, or at the target of the jump there if that
  has been redirected, computed from the operand the jump will also issue with.

  One hypothesis of these theorems is not proved,
  `HeadStaysBehindTail`: taking a number does not move the head onto the tail.
  It is what the comparison in `SeqNumGenL3.v:103` is for, and it fails only at
  the wrap described in section 6. TLC finds it true of the instance of
  `blimp`, where `MeetsAssumptions` implies it. The constants are those of the code:
  at least two sequence numbers, at least as many physical registers as names,
  any program.
- **`MulDivRem`** (`MulDivRemIsCorrect`, `CalculationLosesNothing`, in
  `MCUnits_proofs`), for words of every width from 1 on. While it multiplies,
  what is added and what is left make up the product modulo 2^(2W). While it
  divides, the dividend is quotient times divisor plus what is left, the weight
  in `b_shift` is a power of two, and what is left is less than twice the
  shifted divisor (`Dividing`), so what remains at weight one is the remainder.
  Two kinds of division take other ways through the same states and have
  invariants of their own: by zero, and by the most negative word, which never
  fits (`Lowering`). Excluded is the most negative word divided by itself, of
  which section 6 says why.
- **`CharBuf`** (`ScreenShowsTheText`, in `MCUnits_proofs`), for at least two
  rows. Why the first row on the screen follows the cursor's in the ring is a
  part of the invariant (`ScreenInv`), and so is that the cursor's first column
  is blank whenever it stands there, on which the deletion across a line
  depends.

- **`MemNet`** (`NetInvariant`, `AnswersAreRight`, `LoaderIsInTime`,
  `OverrunTakesWaiting`). The invariant `IInv` holds until a request is pushed at
  the full queue, and relates what is in the network to what was promised when a
  request was taken: the stages and the queue of the block memory hold, in order,
  what it owes (`BramHolds`), the peripherals their one request
  (`PeripheralHolds`). What is owed for a read is what it will find: the data of
  the last write ahead of it that has not been carried out, or what is in the
  memory if there is none (`Values`). The loader's turn at the arbiter comes
  within a round, because every grant moves the filter towards it (`SpiTurn`).

  How far off a full queue is says `Backlog`: the queue holds one request and one
  more for each cycle since it was last empty in which an answer was kept
  waiting, since in all other cycles it gives one to the stages for the one it
  takes. Hence `OverrunTakesWaiting`: a push at full comes after at least
  `FifoDepth - 1` such cycles, three in the code, for any number of requests under
  way. That the code allows them is the finding of `memory_network_overrun`; no
  theorem here assumes them away.
  Of the constants it is assumed that the queue has at least two places and the
  buffer of keys one, as the code's have, that the block memory and the
  peripherals have different addresses, and that words of SPI are at least four
  cycles apart (a word takes at least 32 periods of `sclk`, each sampled more
  than once).

- **`Adventure`** (`GamesAreSound`, `HoldingAlwaysCounts`, `AlwaysGoTogether`,
  `RestoreIsAlwaysExact`, `ClosingAlwaysRunsDown`, `TrollAlwaysHoldsBridge`), for
  every game: any sentence at any prompt, any outcome of chance, any life of the
  lamp, any saving and restoring, with any failure of the disk. The scenes of the
  run are not in these theorems.

  The argument follows the calls. The routines hand one record on to each other,
  and of each of them one lemma says what it leaves alone and what it keeps. Most
  are *plain*: they do not touch the counter, the bottle, the bird and the
  bridge, or move one object that goes with no other (`Plain`); plain ones
  compose. The few that take, drop, fill or empty what goes together are shown to
  move both (`vtake`, `vdrop`, `vpour`, `vkill` and `vthrow` are the long ones).
  `Leads` says that a routine leads from a sound game to a sound one, `Passes`
  the same of a turn with its clocks, `Heeds` of a sentence.

  The invariant `IInv` says more than the properties. A liquid that is carried is
  the one its bottle's state names (`Kept`), and since that is read off the state
  by arithmetic, the states of bottle and bird stay in range. All of it ends when
  the cave is closed, as the bottle of the repository is in state -2; so it is
  conditional on `~closed`, and the turn that closes the cave may leave `holding`
  wrong. The rooms the player is or was in stay within the table of rooms and
  what `spcmove` makes of it (`Loc`), so that `gettrav` and `goback` are defined.
  A game that was left comes back into play, so it has to be one as well
  (`Sound(left)`). And what is saved is all there is to a game at the prompt:
  words and luck are used up by then (`Suspended`, `AtRest`).

  All this is said until a file that stops short is read (`torn`), which leaves
  half of one game and half of another. `RestoreIsAlwaysExact` does not need it:
  it is about any process in any state that reads a whole file, whatever failed
  before. It rests on `FileIsLeft`: each entry of the file holds values of the
  game that was left, as many as got to the disk, of the variable whose call is
  at that place in `Writes`; and a variable's call is at the same place in `Reads`
  (`StoredIsLeft`, `AllIsStored`, `RestoredElements`).

  `TrollAlwaysHoldsBridge` has a hypothesis, `Somewhere`: when the player is
  asked for words he is not in room 0. The other theorems have none. It is
  needed: a player who looks around while a dwarf blocks his way is in room 0
  for one prompt, where everything lies that is nowhere, and there TAKE TROLL
  picks up the end of the bridge that is not shown. Of the run's scenes only
  `meeting` comes there, and nobody says TAKE in it.

  Assumed of the tables (`CaveAssumption`, `PlacesAssumption`,
  `WordsAssumption`, which TLC evaluates) is that a room's travel table fits in
  `travel` and leads to rooms or to what `dotrav` knows, that a new game starts
  with nothing carried and the troll at his bridge, and that a word which names
  an object has the number of one.

TLC has checked each of these invariants first, or the properties they give (the
type invariants by themselves are proved and no longer among the runs' properties).

Model-checked only:

- `FatalHasKnownCause`: that no object gets into a state it has no text for needs
  the states of each of the sixty-four objects, verb by verb. TLC follows them
  from the scenes on.
- `DyingNeverPays`, which compares two sums over the treasures; that one is less
  than the other takes an induction over the objects.
- `RoundTrip` and `DecodersAgree`, which are about finite tables of strings: TLC
  goes through all that differ, and a proof would do no more.
- All liveness: `AllocAgain`, `Delivers`, `EveryCommits`, `Answered`, `Finishes`,
  `RetiresForever`. Liveness under fairness and `ENABLED` are out of the prover's reach.

The library's induction theorems are out of reach too; where a claim is one for
every level of a recursive function, or every step of a sum, the least
counterexample takes their place.

## 5 Not modelled

- *Decoding in the composition*: `Blimp` starts from decoded instructions, one or
  a few for each kind; `RV` says which. `InstDecoder` is checked by itself.
- *The data path of the ALU*: `RV` defines the operations once for `ALU` and
  `Isa`, so `blimp` checks that the right operands meet the right operation, not
  the adder. The multiplier's data path is checked by itself.
- *Unaligned words*: the functional memory keeps such a word at an address of
  its own (`FLMem.cpp`, `mem[addr]`), the unit cuts it off at the end of the
  aligned one, and nothing says what is meant. Halfwords at offset 3 are cut off
  by both and are in the run.
- *The memory pipe in the composition* (planned).
- *Bits on the pins*: `SPIMinion`, `Keyboard`, `ScanCodeFilter` and `VGADriver`
  are shift registers, counters and a table without a partner to wait for.
  `MemNet` takes words and keys as they leave them, `CharBuf` characters.
- *Byte strobes of the block memory*: each selects its own memory; words are whole.
- *Order between servers*: the load-store unit matches answers by order alone,
  and a read of block memory can overtake an older one of the keyboard
  (`MemXBar.v:234`). `AnswersMatchRequests` holds per server; no text of the
  repository promises more, and no property claims it.
- *Texts of the game* (`advent1.h`, `advent2.h`, `advent4.h`): data. Saving is
  that of the native build; the RISC-V build has none (`blimp_exit` stores to an
  address and returns). A cut within one `int` of the save file leaves a value of
  mixed bytes, or the old one.
- *The end of the input at a question* of the game that wants yes or no
  (`database.c:124`): the process ends there as it does at the prompt before
  (`EndOfInput`), and only the file outlives it.
- *The earlier processors and units* (section 7), the *other applications*, their
  small C library in `app/utils` (formatting of text) and *build files*.
- *Cycle times*: how many cycles a unit takes matters only where it changes an
  order.

## 6 Findings

**Numbers handed out twice** (`seqnumgen_wrap`). `SeqNumGenL3.v:103` compares
`curr_head_ptr + 1`, 32 bits wide, with the tail, to keep one number unused. At
the last number the sum is one more than any pointer, so with the tail at 0 the
number is handed out, head and tail meet, the generator takes itself for empty
and starts over while all numbers are in flight. `docs/uarch/seq_nums.rst:38`
says the head must not reach the tail. It takes as many instructions in flight
as numbers; the back end of BlimpV8 has a reorder buffer of that size and does
not exclude it by construction. Other units are right whenever `PipelineFits`.

**A division** (`mul_div_rem_overflow`). The most negative word divided by
itself is itself instead of 1, since the shifted divisor looks like -1 to the
check of `IterativeMulDivRemL7.v:125`. `ResultIsCorrect` leaves out this one case.

**Keys lost** (`memory_network_keys`). `PeripheralMemServer.v:226` pops the key
buffer whenever the next state is RESP: once when the key is latched, and again
in each cycle in which the answer waits to be taken. Those keys answer no read,
and at an empty buffer the read pointer passes the write pointer and old keys
come again. `vga_ascii_val` (line 223) is the same, and repeats a character on
the screen. An answer waits whenever writeback, or the arbiter of answers, takes
another one in that cycle.

**A full queue** (`memory_network_overrun`). `FPGAMem.v:110` pushes whatever is
asked for, also while `req.rdy` is low. A request that waits at the full queue is
pushed again in every cycle: it overwrites the oldest entry, and as one is taken
out for each that comes in, the queue stays full and the request is never heard.
If it is the loader's, the next word of SPI comes while `SPIMemClient` is still in
`WAIT_MEM` and is lost, and addresses and data are exchanged from then on; the
comment of `SPIMemClient.v:72` says that there is no backpressure to worry about.
It takes answers that wait for writeback for three cycles while the queue is
never empty (`OverrunTakesWaiting`). Whether a program makes BlimpV8's writeback
keep them waiting so long is not shown here; nothing in the code prevents it.

**What the game's model shows beside the properties.** These are in the model as
they are in the code; `FatalHasKnownCause` says that no other ends the program.

- The table of words has duplicates, and the binary search of `vocab`
  (`database.c`) always meets the same one of two: FEE, FIE, FOO and FUM are
  found as the giant's words but FOE only as the verb, PLANT and ROD always as
  the second object of that name. So ROD cannot be taken by name and the fissure
  cannot be bridged, and FEE FIE FOE FOO never completes. `vocab` compares the
  meanings of two entries, but both its searches end at the same one, TROLL
  excepted.
- LOOK while a dwarf follows leaves the player in room 0, whose travel is asked
  for next: `bug(42)`. Before that he may TAKE what is nowhere, the troll's
  other end of the bridge for one. Room 140 is a room, but `gettrav` refuses it.
- `copytrv` copies the first entry of a travel table only, so BACK searches what
  is left of another room's and may end in `bug(42)`.
- A bottle's liquid carried into the closing cave leaves `holding` one too high.
- LOG with an object is `bug(39)`: `actspk` has messages up to HOURS. The oyster
  opened twice reaches code not meant for it.
- What `fopen`, `fwrite` and `fclose` return is not looked at in `saveadv`
  (`adventure.c:209`): without a file the calls get a null pointer, and a file
  that is cut short counts as saved. `restore` reads a short file straight into
  the variables, reports it, and play goes on with half of each game: the counter
  of what is carried, for one, is then not that of the objects carried
  (`HoldingCounts` without `~torn` fails).

**What the assembler accepts.** Immediates of 12 bits are accepted up to
`0xfff`, and those from `0x800` come back negative; nothing checks the lower
bound. A field that cannot be parsed is reported and adds no bits. `RoundTrip`
is about numbers that fit their field.

## 7 Plan

Done, in this order: age and numbers, rename table, writeback, execute queue,
fetch, multiplier, arbiters, load-store unit, the composition; the game;
assembler and decoders; the memory network; the character buffer; proofs of
all units that are modelled by themselves, of what they rely on in the
composition, and of what the game keeps.

To come, extending the model:

1. `MEM_XU` in `Blimp`, with loads and stores in `Isa`; a run with a program of
   its own, so that the bounds of the present one can stay.
2. `MemNet` with `LoadStoreUnit`, `FetchUnit` and writeback as its clients, to
   see whether a program of BlimpV8 brings about the waiting that an overrun takes.
3. The earlier units where they differ: `RegfilePending` with decode units L1 to
   L3, fetch units L1 and L2, the writeback unit L1, the pipelined multiplier.

And proofs:

4. `FatalHasKnownCause`: the states each object can be in, verb by verb.
