------------------------------ MODULE FrontEnd ------------------------------
(***************************************************************************)
(* Everything in front of dispatch, as wired in src/verilog/p.sv: the fetch  *)
(* stage asks the instruction cache for words, the cache asks memory behind  *)
(* the data cache, and the instruction buffer passes the words to dispatch.  *)
(* The ROB restarts fetch.  A clock cycle of all of them is one step.        *)
(*                                                                         *)
(* A word of the program is known by its address, so that a word that comes  *)
(* out under another address is seen to be wrong.                            *)
(*                                                                         *)
(* Of the ROB and of dispatch only the wires to the front end are kept: any  *)
(* number of instructions is asked for, but none in a cycle in which         *)
(* has_rewind is up or rises with a restart (rob.sv:277-284; RobProofs shows *)
(* that has_rewind is up in every cycle with fetch_flush).  The predictor    *)
(* gives any answer of the form of branch_predictor.sv:142-157.  Of the data *)
(* cache the commands that keep the bus or take a tag are kept.              *)
(***************************************************************************)
EXTENDS Integers, Sequences, FiniteSets

CONSTANTS
    WORDS,          \* words of the program, that memory has
    Branches,       \* the words that are branches or jumps
    Stores,         \* the words that are stores
    Targets,        \* where a prediction or a restart may go
    ICACHE_SIZE,    \* lines of each instruction cache
    SIZE,           \* entries of the instruction buffer
    Tag             \* tags of memory transactions

\* The instruction cache is built for three words in a cycle.
WAY == 3

ASSUME FrontEndAssumption ==
    /\ WORDS \in Nat \ {0} /\ WORDS % 2 = 0
    /\ Branches \cup Stores \cup Targets \subseteq 0 .. WORDS - 1
    /\ ICACHE_SIZE \in Nat \ {0}
    /\ SIZE \in Nat \ {0}
    /\ Tag \subseteq Nat \ {0}

VARIABLES
    pc,
    icache_data, last, current_mem_tag, miss_outstanding,
    queue, head, tail, is_empty,
    pending,            \* what memory will answer under each tag
    fetch_flush,        \* one-cycle pulse of the ROB: restart fetch
    rewind_target_PC,   \* where, while fetch_flush is up
    has_rewind,         \* the ROB takes nothing
    expected            \* history: what dispatch must get next

vars == <<pc, icache_data, last, current_mem_tag, miss_outstanding, queue, head,
          tail, is_empty, pending, fetch_flush, rewind_target_PC, has_rewind,
          expected>>

Word == 0 .. WORDS - 1
Block == 0 .. (WORDS \div 2) - 1

NoPacket == [inst |-> 0, PC |-> 0, target_pc |-> 0]

IC == INSTANCE ICache
IB == INSTANCE InstBuff
FS == INSTANCE Fetch

-----------------------------------------------------------------------------
(* Memory (external).  A tag is free, or belongs to a load of a block, or    *)
(* to a load of the data cache.                                              *)

Free == -1
Other == -2

FreeTags == {k \in Tag : pending[k] = Free}

\* The instruction cache asks for a block that memory has.
Asks == IC!Icache2Imem_command(pc) /\ IC!Icache2Imem_addr(pc) \in Block

\* What the instruction cache is told: a tag, or 0 when it has no command,
\* when memory refuses it or when the data cache is on the bus.
Responses == {0} \cup IF Asks THEN FreeTags ELSE {}

\* The tag the data cache gets; it is on the bus only when the other is not.
OtherTags(response) == {0} \cup IF response = 0 THEN FreeTags ELSE {}

\* The tag that is answered.
Answers == {0} \cup (Tag \ FreeTags)

PendingNext(response, other, mem_tag) ==
    [k \in Tag |-> IF k = response THEN IC!Icache2Imem_addr(pc)
                   ELSE IF k = other THEN Other
                   ELSE IF k = mem_tag THEN Free
                   ELSE pending[k]]

-----------------------------------------------------------------------------
(* The predictor (external).                                                *)

\* Its answers for a branch at place k of the words.
Predictions(k) ==
    {[taken |-> FALSE, target_pc |-> FS!pc_find(k) + 1]}
        \cup {[taken |-> TRUE, target_pc |-> t] : t \in Targets}

-----------------------------------------------------------------------------

Init ==
    /\ FS!FetchInit
    /\ IC!ICacheInit
    /\ IB!InstBuffInit
    /\ pending = [k \in Tag |-> Free]
    /\ fetch_flush = FALSE
    /\ rewind_target_PC = 0
    /\ has_rewind = FALSE
    /\ expected = 0

insts == [k \in 1 .. WAY |-> IC!Icache_inst_out(FS!pc_find(k), pc)]

\* Without a branch among the words nothing depends on the answer.
AnyPrediction ==
    IF FS!FirstBranch(insts) = {} THEN {[taken |-> FALSE, target_pc |-> 0]}
    ELSE UNION {Predictions(k) : k \in FS!FirstBranch(insts)}

\* The instruction that follows on the predicted path.
Successor(p) == IF p.inst \in Branches THEN p.target_pc ELSE p.PC + 1

\* Dispatch takes n instructions, the buffer m, and the ROB restarts fetch.
ExpectedNext(n) == IF n = 0 THEN expected ELSE Successor(IB!At(n - 1))

\* What the buffer may give, whatever dispatch and the store queue have room for.
Given ==
    UNION {IB!NumGiven(num_can_fetch, store_empty_slots) :
              num_can_fetch \in 0 .. WAY, store_empty_slots \in 0 .. WAY}

\* The instruction cache and memory, the same in every cycle.
CacheCycle ==
    \E response \in Responses, mem_tag \in Answers :
        \E other \in OtherTags(response), mem_data \in Block :
            /\ mem_tag # 0 /\ pending[mem_tag] # Other => mem_data = pending[mem_tag]
            /\ mem_tag = 0 => mem_data = 0
            /\ IC!ICacheCycle(pc, response, mem_tag, mem_data)
            /\ pending' = PendingNext(response, other, mem_tag)

\* Fetch and the buffer, when dispatch gets n instructions.
StreamCycle(n) ==
    \E prediction \in AnyPrediction :
        LET valid == IC!Icache_valid_out(pc)
            fetch_in == FS!fetch_out(valid, insts, prediction)
        IN \E m \in IB!NumTaken(fetch_in, n) :
              /\ IB!InstBuffCycle(n, fetch_in, m, fetch_flush)
              /\ FS!FetchCycle(FS!pc_next(valid, insts, prediction, m),
                               fetch_flush, rewind_target_PC)

\* The ROB takes instructions; one of them may be a halt.
Dispatch ==
    /\ ~has_rewind
    /\ \E n \in Given :
          /\ CacheCycle
          /\ StreamCycle(n)
          /\ expected' = ExpectedNext(n)
          /\ has_rewind' \in {FALSE, n > 0}
    /\ fetch_flush' = FALSE
    /\ rewind_target_PC' = 0

\* The ROB has a fault to rewind to, and at some time has done so.
Blocked ==
    /\ has_rewind
    /\ CacheCycle
    /\ StreamCycle(0)
    /\ has_rewind' \in BOOLEAN
    /\ fetch_flush' = FALSE
    /\ rewind_target_PC' = 0
    /\ UNCHANGED expected

\* A branch that turns out mispredicted, the first one or one older than the
\* fault the ROB waits for, restarts fetch.
Mispredict ==
    /\ CacheCycle
    /\ StreamCycle(0)
    /\ fetch_flush' = TRUE
    /\ rewind_target_PC' \in Targets
    /\ expected' = rewind_target_PC'
    /\ has_rewind' = TRUE

Next == Dispatch \/ Blocked \/ Mispredict

Spec == Init /\ [][Next]_vars

\* The clock ticks: WF_vars(Next), as every step is a step of Next.
ClockTicks == []<><<TRUE>>_vars \/ []<>~ENABLED <<Next>>_vars

\* Memory does not refuse the instruction cache for ever, and answers.
MemoryTakes == []<>~Asks \/ []<><<\E k \in Tag : pending[k] = Free /\ pending'[k] \in Block>>_vars
MemoryAnswers == \A k \in Tag : []<>(pending[k] = Free)

FairSpec == Spec /\ ClockTicks /\ MemoryTakes /\ MemoryAnswers

-----------------------------------------------------------------------------
(* Properties.                                                              *)

\* The instructions in the buffer, oldest first.
Buffered ==
    LET n == IF is_empty THEN 0 ELSE ((tail + SIZE - head) % SIZE) + 1
    IN [d \in 1 .. n |-> IB!At(d - 1)]

TypeOK ==
    /\ IC!ICacheTypeOK
    /\ pc \in Nat
    /\ queue \in [0 .. SIZE - 1 -> [inst : Word, PC : Word, target_pc : Nat]]
    /\ head \in 0 .. SIZE - 1 /\ tail \in 0 .. SIZE - 1
    /\ is_empty => head = (tail + 1) % SIZE
    /\ pending \in [Tag -> Block \cup {Free, Other}]
    /\ fetch_flush \in BOOLEAN /\ has_rewind \in BOOLEAN
    /\ rewind_target_PC \in Word

\* From what dispatch must get next, through the buffer, to the address fetch
\* asks for runs one predicted path: no instruction is left out, given twice,
\* or left over from before a restart, whichever of the fetched words the
\* buffer had room for and whatever the predictor said for a branch that is
\* fetched again (fetch_stage.sv:50-86, inst_buff.sv:40-86).
PredictedPath ==
    ~fetch_flush =>
        LET n == Len(Buffered) IN
        /\ \A d \in 1 .. n : Buffered[d].PC =
              IF d = 1 THEN expected ELSE Successor(Buffered[d - 1])
        /\ pc = IF n = 0 THEN expected ELSE Successor(Buffered[n])

\* A line holds the block it is looked up by, and an instruction the word of
\* its address, although a miss is given up when fetch moves on, its answer
\* comes later and its tag is used again, by the data cache too
\* (bank_icache.sv:45-88, 184-236).
FetchedWordsExact ==
    /\ \A bank \in IC!Bank, i \in IC!Index :
          icache_data[bank][i].valids =>
              icache_data[bank][i].data = icache_data[bank][i].tags
    /\ \A d \in DOMAIN Buffered : Buffered[d].inst = Buffered[d].PC

\* Dispatch does not wait for ever for an instruction that memory has: a
\* refused request is repeated and one of the two caches does not keep the
\* other from the bus (bank_icache.sv:56-61, 184-193).
FetchGoesOn ==
    is_empty /\ ~fetch_flush /\ pc + WAY - 1 \in Word ~> ~is_empty \/ fetch_flush
=============================================================================
