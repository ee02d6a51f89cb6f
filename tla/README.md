# Verification of the three-way R10K core

The repository is a 3-way superscalar, out-of-order RISC-V core (RV32IM) in the
style of the MIPS R10000, written in SystemVerilog (`src/verilog/`).
Instructions are renamed onto 64 physical registers, wait in a reservation
station, execute out of order and retire in order from a 32-entry reorder
buffer.  This directory holds TLA+ models of its parts, TLC configurations that
check them on small instances, and TLAPS proofs.

A clock cycle is one step.  `always_comb` blocks become operators of the state
before the edge, the registers of `always_ff` become variables, and the wires
into a component are parameters of its action.  The loops of a block (`for i <
WAY`) run within one step, in the order of the code.

## 1. Inventory

| component | state | operations in a cycle | talks to |
|---|---|---|---|
| ROB (`rob.sv`) | ring of entries, head, tail, is_empty, has_rewind, in_rewind, oldest_exc_rob_index, rewind_target_PC, three output registers | retire up to WAY; complete; resolve; dispatch; or rewind up to WAY | everything |
| free list (`freelist.sv`) | ring of free registers, head, tail, isEmpty | push Told of the retired; pop for the dispatched, or push back T of the rewound | ROB, dispatch |
| map table (`map_table.sv`) | map, ready | set ready for completed tags; rename a group, or undo rewound renamings | dispatch, ROB, CQ |
| dispatch stage (`dispatch_stage.sv`), decoder | none | size of the group; wiring | instruction buffer, ROB, RS, free list, map table |
| instruction buffer (`inst_buff.sv`) | ring of 12 | take from fetch, give to dispatch, flush | fetch, dispatch, SQ |
| reservation station (`rs.sv`, `selector.sv`) | 16 entries | squash, wake up, issue, insert | dispatch, CQ, SQ, issue queue |
| issue queue (`issue_queue.sv`) | 6 entries | send to units, take from RS, flush | RS, register file, units |
| functional units (`fu.sv`, `mult.sv`) | one register per unit, 4 multiplier stages | execute, resolve, flush (not all of them) | issue queue, CQ, ROB, SQ, cache |
| completion queue (`cq.sv`) | ring of 16 | take up to 12 results, complete up to WAY | units, ROB, RS, map table, register file |
| register file (`regfile.sv`) | 64 values | write, read with bypass | CQ, issue queue |
| store queue (`sq.sv`) | ring of 4, request latch | allocate, fill in, forward to loads, retire to the cache, flush | instruction buffer, units, ROB, cache |
| cache controller, data cache (`cache_ctrl.sv`, `dcache.sv`) | state of the store, 32 lines, 2 miss entries | load, read before write, store, fill | SQ, load unit, memory |
| memory arbiter, memory (`mem_ctrl.sv`, `mem.sv`) | 15 transactions | accept or refuse, answer late | both caches |
| fetch, instruction cache, predictor (`fetch_stage.sv`, `bank_icache.sv`, `branch_predictor.sv`, `twobc.sv`) | pc; lines and misses; table of branches and 2-bit counters | fetch, predict, prefetch, restart, train | instruction buffer, ROB |

`arch_map.sv`, `icache.sv` and `dcache_deprecated.sv` are not instantiated by
`p.sv`.  `test_prog`, `ground_truth` and `example` hold programs, expected
results and course examples.

The hard behaviours are the recovery from a misprediction that takes several
cycles and runs in four components at once; faults found out of order; registers
that enter the free list at both ends in one cycle; results of squashed
instructions that arrive late; stores that read a line before they write it
while loads go on; and memory answers that come out of order.  `PROJECT.json`
lists each at its line.  What makes the parts correct:

* ROB: valid entries are the ring segment; the oldest fault is known; a rewind
  squashes exactly what is younger than it and ends; instructions leave in order.
* free list and map table: no register is lost or owned twice; the map is the
  committed mapping overlaid with the ROB in program order; ready bits are exact.
* RS, issue queue, units, CQ: each dispatched instruction completes exactly once
  or is squashed; no result of a squashed one reaches a new one; none is dropped.
* SQ and caches: a load sees the youngest older store; memory sees the stores in
  program order, each once; fills land in the line that missed.
* front end: the instructions handed to dispatch form the predicted path without
  a gap or a repetition, each is the word of its address, and after a restart the
  path starts at the target.

## 2. Plan

| part | modules | composes | checked or proved |
|---|---|---|---|
| ROB | `Rob`, `RobProofs` | | ring, faults and the quiet restart under any input, proved |
| renaming | `FreeList`, `MapTable`, `RenameCore`, `InOrderWindow`, `FreeListProofs`, `MapTableProofs`, `RenameProofs` | Rob, FreeList, MapTable | ownership, mapping, tags, ready bits, refinement of an in-order window, proved |
| loads and stores | `LineData`, `StoreQueue`, `LoadUnit`, `DataCache`, `LoadStorePath`, `FlatMemory`, `LoadStoreProofs` | the three components with memory | coherence and current fills, proved; refinement of a flat memory, progress |
| back end | `InOrder`, `ReservationStation`, `IssueQueue`, `FunctionalUnits`, `CompletionQueue`, `Backend`, `ResultPath`, `BackendProofs` | those four with Rob; units and queue alone | never two places, wake-up, losses only for want of room, proved for every program; own results, complete flush, progress; room for results |
| front end | `ICache`, `Fetch`, `InstBuff`, `FrontEnd`, `FrontEndProofs` | those three with memory | predicted path and fetched words, proved; progress |

The four compositions meet at the ROB and at memory: `RenameCore` and `Backend`
take any dispatch groups, `FrontEnd` shows what the groups are made of; `Backend`
lets the memory unit answer at any time, `LoadStorePath` shows what it answers and
when it must.  One composition of everything would have too many states.  Worth
doing next: the retirement of the ROB and `ResultPath` together, to find the
smallest completion queue that never loses a result, and the refinement of
`FlatMemory` for programs without forwarded bytes.

Runs stay at the smallest sizes at which the interesting thing happens.

## 3. Modules

**`Rob`** models `rob.sv`.  `Run` is a cycle that does not rewind and `Rewind`
one that does, the one that starts it included, after the branch on
`in_rewind_next` (`rob.sv:237`).  The retire loop is `RetireNum`: the number of
entries it passes; `StartsRewind` says that it stops at a fault.  An entry keeps
the kind of its instruction as far as the loop looks at it, its registers, flags,
predicted target and code; `pc`, `taken`, `correct`, `update` and `instr_num` go
through the ROB without effect on it and are left out.  `Next` gives the ROB any
completions and resolutions, also for entries that are not in use.

**`FreeList`** models `freelist.sv`, with the loops over `Told`, the group and
`reg_T` given in closed form: the place of the k-th register depends on how many
before it are not register 0 (`Used`).

**`MapTable`** models `map_table.sv`.  `MapAfter` and `MapUndone` are the map
after the first k turns of the dispatch and the rewind loop.

**`RenameCore`** instantiates the three and is their wiring in `p.sv` and
`dispatch_stage.sv`.  In a step all three take their cycle; `RunCycle` and
`RewindCycle` compute the wires in the order of the combinational logic: what
retires, the registers popped with those just freed, the renamed group, the
entries.  Two variables describe the surroundings: `operand`, the source tag that
the reservation station holds for each instruction in flight, and `resolved`, the
branches that have resolved and not yet completed (`fu_branch` resolves at once
and completes through the queue).  The cache accepts a store only while the ROB
holds one.  Instruction buffer and reservation station
offer any group that fits.  The units answer only for instructions in the ROB;
whether the real units do is the question of `Backend` (`OwnResults`).  One source register per instruction stands for the two.  The free
list has ROB_SIZE entries, as in `sys_defs.svh:240-242`.  The test bench stops
the clock at an exception code (`testbench.sv:680`), so the model does.

**`InOrderWindow`** is the abstract specification: a committed mapping, a window
of instructions and a set of free registers; in a step some leave the window at
its old end and commit, some are squashed at its young end behind a fault that
has become the oldest, or some enter with fresh registers.

**`LineData`** holds addresses, lines and words, `combine_store`
(`cache_ctrl.sv:16-64`) and `Extract`, the part of a line that a load gets.
Accesses are bytes or words: a half word is a byte of twice the size.

**`StoreQueue`** models `sq.sv`.  Its block works in five stages (flush, retire,
execute, dispatch, and the answers in between); the operators with a parameter
`flush` are the queue after the first, with `accepted` after the second, with
`store` after the third.  `SlotsBefore` is the walk from the head to the place of
a load, which a full and an empty queue share.  `OlderComplete` is the same walk
in the reservation station (`rs.sv:169-182`).

**`LoadUnit`** models `alu_mem` and `fu_mem`.  Result and end of an instruction
are `ResultValid` and `LoadResultValue`.

**`DataCache`** models `dcache.sv` and `cache_ctrl.sv` with the arbiter in front
(`mem_ctrl.sv`).  The one-hot `operation` is the number of its port.  Memory is
driven on the falling edge, so the wires are those of the second half of the
cycle.  `miss_outstanding` has no reset and starts with either value.  When a load
meets a store in its line and is accepted in that cycle, `load_en` (`fu.sv:199`)
and `load_accepted` (`cache_ctrl.sv:182-184, 208-213`) depend on each other and
both values are consistent; `Stalls` then has both.  `prev_addr` and the state
`ORIG_LOAD` make no difference in `p.sv` and are left out, as the comment in the
module says.

**`LoadStorePath`** wires these with memory.  `unified_memory` and `loaded_data`
are `mem.sv`; its latency is any number of cycles.  A command may be refused at
any time: this stands for tags in use by the instruction cache.  The variable
`window` describes dispatch, reservation station and ROB by what they do to loads
and stores: any group for which the store queue has room enters (the limit of
`inst_buff.sv:45-52`), stores issue in any order, loads when `OlderComplete`, and
they leave in order, a store when the cache has accepted it.  A flush may come in
any cycle in which no store is being retired.  Addresses are inside memory.

**`FlatMemory`** is what all this has to look like: one memory and a window of
loads and stores in program order; a load is answered with what the older
stores of the window leave in memory, stores go to memory in order, one per step.

**`ReservationStation`** models `rs.sv` with `selector.sv`.  The order of the
selector is "unspecified" (`selector.sv:4`), so the table is a set and `Issues`
any choice of ready entries.  The operators are the wires of one cycle: what may
be issued, counted with the bits before the completions (`rs.sv:57-61`), and what
remains (`Remaining`) after rewind, completion and issue.

**`IssueQueue`** models `issue_queue.sv`: `Fits` and `Sent` are the entries that
the loop sends, passing those whose unit is taken; `Kept` moves up.  **`InOrder`**
is the order in which a loop takes the entries or units of a set.

**`FunctionalUnits`** models `fu_fast_int` (`fu_macro.svh`), `fu_mult`,
`fu_branch` and the occupancy of `fu_mem`.  A multiplier is the row of its
registers `execute_data[0 .. NUM_STAGE]`.  Only integer and memory unit have a
flush.

**`CompletionQueue`** models `cq.sv` as the sequence from head to tail, with the
two things the code does at its limits: a result without room is lost, and a full
queue takes itself for empty.  In a cycle of a flush the completions are read
from place 0 of the ring, which is any place of the sequence.

**`Backend`** wires these with `Rob`.  `Pipeline` is everything behind dispatch;
`RunCycle` and `RewindCycle` add the two kinds of cycle of the ROB.  A packet is
an instruction on its way with its ROB index, which is also the tag of its result:
`RenameCore` shows that tags are unique (`OneOwner`).  `needs` and `current` are
history: the sources still in flight, and whether the instruction is still in the
ROB.  The program is any that follows its rules; `Speculated` are the kinds that
come behind an unresolved branch.  `Backend` has no stores and lets a load take any
time.  **`ResultPath`** is units and completion queue alone, for any instructions
that the issue queue can send, at the sizes of the processor.

**`ICache`** models `bank_icache.sv`: two caches, for even and odd blocks, so that
three words in a row are read at once.  A miss is `miss_outstanding` until memory
takes the request, and `current_mem_tag` from then on; when the address changes it
is given up.  `tags` stands for tag and index together, as the comment in the
module says, and a block is known by its number.

**`Fetch`** models `fetch_stage.sv` and **`InstBuff`** models `inst_buff.sv`;
`NumGiven` and `NumTaken` are how far the two loops get.  Addresses count words.

**`FrontEnd`** wires these with memory.  Memory and predictor are external: memory
takes or refuses a request and answers in any order; a tag that is answered is
used again, also by the data cache; the predictor gives any answer of the form of
`branch_predictor.sv:142-157`, a different one each time a branch is fetched again.
The ROB is the three wires it has to the front end, with what `RobProofs` shows of
them (`QuietRestart`; `has_rewind` is up with `fetch_flush`).  `expected` is
history: the address that dispatch must get next.  A word is known by its address,
so that a word under another address is seen to be wrong.

Operators whose comment calls them a mutated form are never used by the model:
each is the definition it precedes with a plausible bug, and substituting it must
make the property paired with it in `PROJECT.json` fail.

## 4. Runs

| run | instance | shows |
|---|---|---|
| `rob_any_inputs` | ROB 3, width 2, two targets, {plain, store, WFI} | `TypeOK`, `ValidIffLive`, `OldestException`, `RewindsToOldest`, `LeavesInOrder`, `QuietRestart` under any input |
| `rename_map` | ROB 3, width 1, two registers and r0, {branch r1 <- r2, r2 <- r1} | `MapIsOverlay`, also in the middle of a rewind |
| `rename_window` | ROB 3, width 2, one register and r0, {branch r1 <- r1, WFI} | `OneOwner`, `ReadyExact`, `DestinationsRenamed`, `OperandsExact`, `TargetOfOldest`, and `IsInOrderWindow`: refinement of `InOrderWindow` |
| `backend` | ROB 3, RS 2, IQ 2, CQ 4, width 2, two multiplier stages, all kinds | `OnePlace`, `WakesExactly`, `NoLeftovers`, `OwnResults`, and `HeadMoves` under fairness |
| `backend_any_program` | ROB 3, RS 2, IQ 2, CQ 2, width 2, one multiplier stage; integer, multiplication, branch, any of them behind an open branch | `NeverTwice`, `WakesExactly`, `LostOnlyForRoom` |
| `load_store_coherent` | queue 3, width 2, two lines in one set, words of one byte, window 3 for the line of the stores and 2 for both | `CacheIsMemory`, `FillsAreCurrent`, and `IsFlatMemory`: refinement of `FlatMemory`, with up to two stores in front of a load |
| `load_store_progress` | queue 2, width 1, two lines in two sets | `LoadsFinish`, `StoresFinish` under fairness |
| `front_end` | eight words with two branches and two stores, two targets, one line in each cache, buffer 4, width 3, two tags | `PredictedPath`, `FetchedWordsExact`, and `FetchGoesOn` under fairness |
| `load_lost_fill` | queue 2, width 1, two lines in one set | `LoadsFinish` is violated |
| `byte_forwarded` | queue 3, width 2, words of two bytes | `IsFlatMemory` is violated |
| `stale_multiply` | as `backend`, without loads, multiplications behind an open branch | `OwnResults` is violated |
| `result_lost` | width 3, multipliers of 4 stages, queue of 16: the sizes of `p.sv` | `NothingLost` is violated |

The first eight pass; the last four show the disagreements of section 5.

**Bounds.**  With width 2 a cycle retires two, or retires one and finds
a fault, or dispatches two that depend on each other; with three entries the ring
is full and wraps with every one of these.  A rewind that has undone some
renamings and not yet others at a clock edge needs a ring of four at width two,
or three at width one (`rename_map`).  A third way adds longer groups and no
new kind of interaction between two members.  Two targets (as predicted, not as
predicted) are all the ROB distinguishes.  In `backend` two entries of reservation
station and issue queue are fewer than the instructions in flight, so both fill
up; a queue of four results never does there.  Two stages let a multiplication be
overtaken by everything that was issued after it.  `backend_any_program` is the
same model with the two defects of section 5 within reach: multiplications and
branches go behind open branches, so that squashed ones end late and complete
others, and a queue of two results fills up and drops some (in this instance TLC
finds `OwnResults`, `NoLeftovers`, `RoomForResults` and "every instruction in flight
has a place" all violated).  One stage is enough for a multiplication to
outlive the flush.
In `front_end` one line in each cache makes every third block evict another;
a buffer of four refuses part of a group of three; two tags come back out of
order and are used again at once; a branch in an even and one in an odd word,
next to each other, are each place of a group.  These runs have no artificial
bound on behaviour: their state spaces are finite and explored to the end.

The load and store path is bounded by `MAX_WINDOW`, the loads and stores in flight.
Two of them are enough for every overlap of a load, a store and their commands,
since the unit holds one operation and the cache processes one store; older and
younger ones only wait in the queue.  Three are needed for a load that sees two
stores, where their order matters; `ThreeOfOneLine`, a constraint of
`load_store_coherent`, has three only when all are of the line that is stored to.
While the queue is not empty `dispatch_empty_slots` is 0 for the sizes of
`sys_defs.svh`, so at most `WAY` stores are in it; a queue of three is passed around
many times.  Two tags let answers come out of order, and two lines in one set evict
each other.  The runs of whole words have one byte in a word and one word in a line:
a second word of a line would only be another address in it.

Deadlock is checked in all runs.  A stopped clock is a step of its own
(`~Running /\ UNCHANGED vars`).

**Fairness.**  `ClockTicks` says that the clock ticks: weak fairness of the whole
next-state relation.  `Backend!FairSpec` adds that the memory unit does not keep an
instruction for ever (`MemoryAnswers`), which is what `LoadsFinish` says of the
load and store path; section 5 says when it fails.  Everything else in `Backend`
follows from the clock alone: no fairness is assumed between the ready
instructions of the reservation station, although the selector may prefer any.

`FrontEnd!FairSpec` adds that memory does not refuse the instruction cache for ever
while it asks (`MemoryTakes`: a transaction ends after `MEM_LATENCY_IN_CYCLES`, and
the data cache asks for a bounded number of things before it waits for dispatch)
and that every transaction ends (`MemoryAnswers`).

`LoadStorePath!FairSpec`: not every cycle is one of a flush (`Runs`: `store_flush`
is a pulse of one cycle, `rob.sv:179-180`); memory takes a command in the end
(`Takes`: each transaction ends after `MEM_LATENCY_IN_CYCLES`, and the arbiter
prefers the data cache); and each transaction is answered in the end (`Sends`).

## 5. Disagreements with the code's own account

* `load_lost_fill`: `dcache.sv:193-199` writes fills and the store of a cycle in
  one loop.  When a load's fill and the store's write are for one set, the store
  wins, while line 187 clears the miss entry.  The load is in its wait state, in
  which it never asks again, so it and everything behind it stand still.  The
  module says that it serves two loads and one store at the same time
  (`dcache.sv:24`).
* `byte_forwarded`: a store writes the low byte of its register
  (`combine_store`), but `sq.sv:158` forwards the byte at the place that the
  address has in its word, and masks the low byte of the load's result.  A load
  of an odd byte right after its store gets the wrong byte.  `bfs.c` of the test
  programs stores such a byte (`visited`, the second member of a struct) and
  reads it back.  `sq.sv:162` does the same with half words.

* `stale_multiply`: `fu_mult` has no flush (`fu.sv:661`).  A multiplication that a
  mispredicted branch squashes may be sent as late as in the cycle of the flush,
  and its result comes when it has gone through the pipeline.  Dispatch goes on in
  the cycle of the flush, with what fetch has brought since the branch was
  resolved, and gives the ROB index out again.  The result then completes the new
  instruction with the wrong value (`complete.svh:9`: "The ROB # of the completed
  instruction").  `fu_branch` (`fu.sv:583`) has the same gap, one cycle wide: a
  branch that is issued in the cycle that squashes it is sent in that of the flush,
  and resolved against an instruction dispatched in that of the flush.
* `result_lost`: the queue drops results when it is full, and completes nothing in
  that cycle (`cq.sv:52, 63, 73`).  Its output `stall`, which its test bench
  checks (`test_cq.sv:62`), ends in `execute_stall`, a wire of `p.sv` that nothing
  reads.  `ResultPath` reaches the limit with integer instructions and
  multiplications alone.  It lets the issue queue send three instructions in
  every cycle; the ROB of 32 entries and its way of retiring are not in that run,
  so it shows that nothing between issue and completion prevents the loss.

A fourth one, seen with the configuration of `load_lost_fill` and `StoresFinish` in
the place of `LoadsFinish`: after the line of a store has been read, the controller
waits with the store and never reads again (`cache_ctrl.sv:232-258`).  A load's
fill for the same set evicts the line in between; the store is never accepted and
the ROB never retires it.

Both deadlocks of the data cache need a load and a store whose lines share a set
within the time of a memory access; `load_store_progress` shows that without that
nothing stands still.  `load_store_coherent` shows that even with conflicts no load
gets a wrong word.

The predictor keeps its tag in a field that is too narrow (`branch_predictor.sv:61`)
and is trained twice by a mispredicted branch (`rob.sv:200`).  Neither touches
correctness: `FrontEnd` and `FetchedPath` hold for any answer it gives.

## 6. Proofs

`RobProofs` proves, for every `ROB_SIZE`, `WAY`, set of registers, targets and
instructions that satisfy `RobAssumption` and for every sequence of inputs:

* `TypeCorrect`, `RingExact`, `OldestIsOldest`, `RewindIsPrecise`: the four
  invariants of `rob_any_inputs`;
* `LeavingIsInOrder`, `RestartIsQuiet`: its action properties.

The inductive invariant `RobInv` is the conjunction of the four invariants.  They
need each other: that the fault found by the retire loop is the oldest one needs
`OldestException`; that it stays in the ring while older ones retire
(`OldestStays`) needs that retired entries carry no exception; that a resolution
cannot mark an unused entry needs `ValidIffLive`; and a rewind in a later cycle
knows where it must stop only by `RewindsToOldest`.  `RunRing` and `RewindRing`
say where each entry is after a cycle, in distances from the head; all the
arithmetic of wrapping is in those two and in `RingTypes`.  `RunPreserves` and
`RewindPreserves` then go through the conjuncts.  `LeastElement` (in `NaturalLemmas`) gets the first
faulty instruction of a group from the well-foundedness of the natural numbers.

`QuietRestart` says of every entry that it was there before and has come no further
from the head (`ComesNearer`), so that an entry that retires cannot be filled again in
the same cycle of a full ring.  It needs only that `fetch_flush` implies
`has_rewind` and that no rewind is under way (`FlushIsBlocked`); that is the
assumption `FrontEnd` makes of the ROB.

`RenameProofs` proves, for every `ROB_SIZE`, `WAY`, number of registers, set of
addresses and table of the decoder that satisfy `RenameAssumption`:

* `EveryRegisterOwnedOnce`, `MapFollowsProgramOrder`, `NoDestinationForgotten`,
  `TagsStayRight`, `ReadyBitsExact`, `RestartsAtOldest`, `TypesOfTheCore`: the
  invariants of `rename_map` and `rename_window`;
* `CoreIsInOrderWindow`: the refinement of `InOrderWindow`.

`RenameAssumption` asks for `0 \in PC`, since `rewind_target_PC` is 0 after reset
(`rob.sv:111`), and for a ring larger than the width, with which no cycle fills an
empty ROB.

None of the invariants is inductive by itself.  `MapIsOverlay` says that
the map table is an overlay, but a rewind is right only if the registers it
gives back are not those of somebody else; `OneOwner` counts owners in the map
table, which a rewind changes several rows of in one cycle.  The inductive
invariant `CoreInv` has these parts:

* `RobInv`, the invariant of the ROB by itself, used through the theorems of
  `RobProofs`; and `RingExact`, `RingDistinct` of the free list;
* `Ownership`: the committed mappings, the registers given to the instructions in
  the ROB and the free ones are pairwise different, and nothing else is left.  The
  committed mapping is in no register of the core: it is what the oldest writer of
  a register replaced.  It does not move during a rewind, which is why ownership
  is stated with it and not with the map table, as `OneOwner` is;
* `MapIsOverlay` and `DestinationsRenamed`;
* `OperandsExact`, with the types of the operands;
* `FaultInv`: `TargetOfOldest`, that a branch found faulty before it completes is
  one whose resolution has been sent, and that the instruction a rewind goes back
  to is complete;
* `ReadyExact`.

The argument runs through `SeenBy(d, a)`, the mapping of register `a` that the
instruction `d` places behind the head sees.  `SeenTurns` and `SeenOrigin` say how
it changes from one instruction to the next and where it comes from;
`SeenDistinct` turns `Ownership` into what instructions see.  In a step the loops
of the code come in through the modules of the components: `FreeListProofs` says
which registers are in the ring after a cycle that frees, hands out or takes back
registers with holes in between (`RetireList`, `DispatchList`, `RewindList`), and
`MapTableProofs` gives the map after each turn of a loop as a function of the map
after the turn before (`DispatchTurns`, `RewindTurns`).  `RunShape` and
`RewindShape` say which entry is where in program order after a cycle.  From
these follow that what stays sees what it saw (`SeenShift`), that a group goes on
where the window ends (`DispatchOverlay`), that a rewind goes back through what
the instructions saw (`RewindOverlay`), and that every register keeps one owner
(`OwnershipStep`).  `Room` counts: what a cycle frees always fits into the free
list, since no register is in two places.  The next steps then are `RunStep` and
`RewindStep` for the registers, `RunOperands`, `RunFaults`, `RunReady` and their
counterparts for the rest, `NextCore` for all.

For the refinement the window is the ROB in program order (`Win`), the committed
mapping that of `Ownership`, the free registers those of the ring.
`WindowFacts` says that the overlay of the abstract module is what instructions
see.  `RunRefines` and `RewindRefines` then show that a cycle is a `Step` with
nothing squashed, or with nothing new.

`FrontEndProofs` proves, for every number of words, set of branches, stores and
targets, size of the caches and of the buffer and set of tags that satisfy
`FrontEndAssumption`, which asks for a program of at least one word:

* `FetchedPath`: the invariant `PredictedPath` of `front_end`;
* `FetchedWords`: the invariant `FetchedWordsExact`;
* `FrontEndTypes`: its type invariant.  It needs `InMemory`: fetch asks for
  addresses behind the end of the program, but memory refuses them
  (`mem.sv:49-58`), so no line ever holds one.

The inductive invariant `FrontEndInv` has four parts.  `CacheInv`: lines hold
their blocks, and a transaction that a cache waits for is pending for the block it
asks for; this is what reuse of tags could break, and `CachePreserves` goes
through what one cycle does to a tag.  `StreamTypes`: ring and pc.
`EntriesExact`: every slot holds the word of its address.  `Restart`: while
`fetch_flush` is up the ROB is blocked and expects the target, otherwise `Path`,
which is `PredictedPath` in distances from the head.  The arithmetic of the ring is
in `WrapAdd`, `WrapInjective` and `WrapPeriod`, for any modulus; `BufferAfter`
says what the buffer holds, entry by entry, after it has given n and taken m, and
`PcFollows` that fetch goes on behind the last instruction taken.  `PathGoesOn`
puts the two together.

`LoadStoreProofs` proves, for every size of queue, cache, line and word, every
assignment of lines to sets, every set of tags and of operations and every window
that satisfy the four assumptions of the modules:

* `CacheAgreesWithMemory`, `FillsAgreeWithMemory`, `LoadStoreTypes`: the
  invariants of `load_store_coherent`, also where a fill is lost and where
  forwarded bytes are wrong (`load_lost_fill`, `byte_forwarded`): neither
  makes cache and memory disagree.

That the cache is right now does not make it right in the next cycle: `dcache.sv`
writes a fill to the line that its port carries in the cycle of the answer, and a
store in every cycle in which its command is on the bus, so what matters is what
may change the line meanwhile.  The inductive invariant `PathInv` adds:

* `RingInv`: the stores of the window lie in the ring from head to tail, in order;
  the unit executes an operation of the window that is not done; and a store that is
  offered is the oldest operation and done.  Hence the executing store is never
  the one at the head (`OldestAtHead`, `ExecutesElsewhere`), and a store that is
  offered stays as it is until it is taken (`OfferGoesOn`);
* `LinesInv`: lines are in their sets, and no line on its way is in the cache;
* `MissInv`: two pending misses have different tags and lines.  The load
  with a pending miss is in the unit, and stands in its queue state only while it is
  stalled by a store to its line; otherwise it would ask again (`LoadWaits`);
* `BusInv`: a command on the bus is for a line that is neither in the cache nor on
  its way, or it writes a line that is in the cache and not on its way.

`BusGoesOn`, `MissesGoOn`, `MemoryGoesOn` and `CacheGoesOn` say what a cycle does to
bus, misses, memory and each set of the cache; `WindowGoesOn` and `CountsGoOn` do so
for the window, in which one store, several loads or everything may leave while a
group enters.  `CombineTwice` is why a store may be written again and
again.  `FlushStep` treats a flush, in which no store is on the bus; `LinesStep`,
`MissStep`, `BusStep`, `CacheStep` and `FillStep` the other cycles.

`BackendProofs` proves, for every size of ROB, reservation station, issue queue and
completion queue, every width, depth of the multipliers and program that satisfy
`BackendAssumption`:

* `BackendTypes`: the type invariant.  No queue holds more than its entries:
  dispatch and issue look at the room of the cycle before, and that is enough;
* `NeverInTwoPlaces`: `NeverTwice`, so nothing is issued or sent twice and no
  instruction that has left the ROB has a current packet;
* `AlwaysWakesExactly`: `WakesExactly`;
* `NothingElseIsLost`: `LostOnlyForRoom`.  An instruction in flight keeps its place
  unless its result is in a unit or in the completion queue and the queue has no
  room.  The handshakes between the parts and the flush lose none.

No theorem has a condition on the program or on the room for results: squashed
multiplications may end late and complete other instructions (`stale_multiply`)
and a full completion queue may drop results (`result_lost`), as in the processor.

`NeverTwice` speaks of current packets, those of the instruction that now has their
ROB index.  In a rewind, squashed packets stay in issue queue, units and
completion queue until the flush behind it, or longer in the units that have no
flush.  The inductive invariant `BackendInv` has these parts:

* `Shape`: `RobInv`, used through the theorems of `RobProofs`, and the types and sizes
  of the parts;
* `Once` and `Apart`: no part has two current packets of one ROB index and no two
  parts have one each, also in a rewind;
* `AllTracked`: a current packet belongs to an entry of the ROB, and what it still
  needs is in flight and older; a packet that is not current needs nothing and is
  otherwise free, so that it may be anywhere and end at any time;
* `WaitsTracked`: the same of what a packet in the reservation station waits for.
  In a rewind that need not be in flight any more, which is why `WakesExactly` alone
  is not inductive;
* `Flushing`: in the cycle of the flush nothing is in flight, so the flush cannot lose
  anything; a rewind goes on only from a head that has completed;
* `WakesExactly`.

A completion by a stale packet leaves no instruction waiting, since the reservation
station looks at the same completions as the ROB: whoever completes an entry wakes
up those that wait for it.  What it breaks is `OwnResults`.

`InOrderTakesAll`, from the rank of an element in a set, is what every loop over
entries comes down to: it takes each place of the set once.  With it `EntriesTake`,
`MultMoves`, `ProductsTaken` and `ResultsTaken` say which packets a loop takes, and
`SentHaveUnits` that none is sent without a unit.  `Flow` is a cycle of all parts as
sets of packets; `OneMove` then says that an instruction goes to one part unless
it completes, is squashed or is flushed, and `Origins` that no packet comes from
nowhere.  `RunShape` and `RewindShape` say what a cycle does to one entry of the ROB.
`RunKeepsInv` and `RewindKeepsInv` go through the conjuncts; by `RewindRetires`
an instruction that retires in a rewind has nothing left to wait for.  `InvCountsPlaces` turns the
invariant into the numbers that `Places` counts, and `RunLoses` follows one
instruction through a cycle.

TLC has checked the inductive invariants too: `CoreInv` and `SeenDistinct` in the
instances of `rename_map` and `rename_window`, `FrontEndInv` and `InMemory` in that
of `front_end`, `BackendInv` in those of `backend` and `backend_any_program`, `PathInv`
in those of `load_store_coherent`, `byte_forwarded` and `load_lost_fill`.

Only model-checked:

* `IsFlatMemory`, which holds only for programs whose bytes are not forwarded
  (`byte_forwarded`) and whose proof would need what `ResultAfter` computes for a
  queue of any length;
* `OnePlace`, `NoLeftovers` and `OwnResults`, which the processor does not have in
  general: `stale_multiply` violates all three and a lost result the first.  They
  hold in the instance of `backend`, where no result is lost and no multiplication
  or branch goes behind an open branch.  What is true of every program is
  `NeverTwice`, `WakesExactly` and `LostOnlyForRoom`;
* the liveness properties (`HeadMoves`, `LoadsFinish`, `StoresFinish`,
  `FetchGoesOn`).  `HeadMoves` is relative to a memory unit that answers.

Liveness under fairness and induction over data are out of this prover's reach.

## 7. Not modelled

* The decoder is a table and appears as the constant `Decoded`; arithmetic in the
  units is data, and so is the physical register file, whose owners are in
  `RenameCore` and whose writes are the completions of `Backend`.
* The tables and counters of the branch predictor: any answer is safe.
* Stores in `Backend`: they wait for the store queue and the cache, which are in
  `LoadStorePath`.
* The whole processor in one model: the four compositions above meet at wires that
  each takes at its most general, or with what another one shows.
* Timing below a clock cycle (the `SD` delays, memory driven on the other clock
  edge), and x values.
