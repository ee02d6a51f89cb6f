------------------------------- MODULE ICache -------------------------------
(***************************************************************************)
(* The instruction cache of src/verilog/bank_icache.sv: two caches, one for  *)
(* the even and one for the odd blocks of two words, so that three words in  *)
(* a row are read in one cycle.  Addresses count words.  The content of a    *)
(* block is known by the number of the block it was read from.               *)
(***************************************************************************)
EXTENDS Integers

CONSTANTS
    ICACHE_SIZE,    \* lines of each cache
    Tag             \* tags of memory transactions, 0 is none

VARIABLES
    icache_data,        \* the lines of both caches
    last,               \* the block each cache was asked for in the last cycle
    current_mem_tag,    \* the transaction each cache waits for
    miss_outstanding    \* whether each cache has a miss that memory has not taken

Bank == {0, 1}
Index == 0 .. ICACHE_SIZE - 1

\* A line; tags stands for the tag and the index together.
Line == [valids : BOOLEAN, tags : Nat, data : Nat]

NoBlock == -1

BlockOf(w) == w \div 2
IndexOf(block) == (block \div 2) % ICACHE_SIZE

-----------------------------------------------------------------------------
(* Wires; pc is the address of the first of the three words.                *)

\* The three words lie in the block of the first and in the next one.
cache_addr(bank, pc) ==
    IF BlockOf(pc) % 2 = bank THEN BlockOf(pc) ELSE BlockOf(pc) + 1

changed_addr(bank, pc) == cache_addr(bank, pc) # last[bank]

LineFor(bank, pc) == icache_data[bank][IndexOf(cache_addr(bank, pc))]

cache_valid_out(bank, pc) ==
    LineFor(bank, pc).valids /\ LineFor(bank, pc).tags = cache_addr(bank, pc)

Icache_valid_out(pc) == \A bank \in Bank : cache_valid_out(bank, pc)

\* Word w, from the cache of its block.
Icache_inst_out(w, pc) == 2 * LineFor(BlockOf(w) % 2, pc).data + (w % 2)

Loads(bank, pc) == miss_outstanding[bank] /\ ~changed_addr(bank, pc)

\* Cache 0 goes first; without any command cache 1 has the bus.
cache_on_bus(pc) == IF Loads(0, pc) THEN 0 ELSE 1

Icache2Imem_command(pc) == Loads(cache_on_bus(pc), pc)
Icache2Imem_addr(pc) == cache_addr(cache_on_bus(pc), pc)

mem2cache_response(bank, pc, response) ==
    IF cache_on_bus(pc) = bank THEN response ELSE 0

data_write_enable(bank, mem_tag) ==
    current_mem_tag[bank] = mem_tag /\ current_mem_tag[bank] # 0

\* Mutated form of unanswered_miss: a refused request is not repeated.
unanswered_miss_asks_once(bank, pc, response) ==
    changed_addr(bank, pc) /\ ~cache_valid_out(bank, pc)

unanswered_miss(bank, pc, response) ==
    IF changed_addr(bank, pc) THEN ~cache_valid_out(bank, pc)
    ELSE miss_outstanding[bank] /\ mem2cache_response(bank, pc, response) = 0

\* Mutated form of update_mem_tag: a new address does not give up the old miss.
update_mem_tag_keeps(bank, pc, mem_tag) ==
    miss_outstanding[bank] \/ data_write_enable(bank, mem_tag)

update_mem_tag(bank, pc, mem_tag) ==
    \/ changed_addr(bank, pc)
    \/ miss_outstanding[bank]
    \/ data_write_enable(bank, mem_tag)

-----------------------------------------------------------------------------

ICacheInit ==
    /\ icache_data = [bank \in Bank |->
          [i \in Index |-> [valids |-> FALSE, tags |-> 0, data |-> 0]]]
    /\ last = [bank \in Bank |-> NoBlock]
    /\ current_mem_tag = [bank \in Bank |-> 0]
    /\ miss_outstanding = [bank \in Bank |-> FALSE]

\* One clock cycle; memory takes the command under tag response (0: refuses
\* it), and answers transaction mem_tag (0: none) with block mem_data.
ICacheCycle(pc, response, mem_tag, mem_data) ==
    /\ icache_data' = [bank \in Bank |-> [i \in Index |->
          IF /\ ~changed_addr(bank, pc)
             /\ data_write_enable(bank, mem_tag)
             /\ i = IndexOf(cache_addr(bank, pc))
          THEN [valids |-> TRUE, tags |-> cache_addr(bank, pc), data |-> mem_data]
          ELSE icache_data[bank][i]]]
    /\ last' = [bank \in Bank |-> cache_addr(bank, pc)]
    /\ current_mem_tag' = [bank \in Bank |->
          IF update_mem_tag(bank, pc, mem_tag)
          THEN mem2cache_response(bank, pc, response)
          ELSE current_mem_tag[bank]]
    /\ miss_outstanding' = [bank \in Bank |-> unanswered_miss(bank, pc, response)]

ICacheTypeOK ==
    /\ icache_data \in [Bank -> [Index -> Line]]
    /\ last \in [Bank -> Nat \cup {NoBlock}]
    /\ current_mem_tag \in [Bank -> Tag \cup {0}]
    /\ miss_outstanding \in [Bank -> BOOLEAN]
=============================================================================
