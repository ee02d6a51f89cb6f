------------------------------ MODULE LoadUnit ------------------------------
(***************************************************************************)
(* The memory unit, fu_mem and alu_mem of src/verilog/fu.sv.  It holds one    *)
(* load or store.  In its first cycle a store goes to the store queue and is  *)
(* done; a load asks the store queue once, remembers the answer, then waits  *)
(* for its line and lays the answer over it.                                *)
(***************************************************************************)
EXTENDS LineData

VARIABLES
    execute_data,           \* the instruction in the unit
    alu_start,              \* this is its first cycle
    load_state,             \* LOAD_STATE_IDLE, _QUEUE or _WAIT
    internal_load_result    \* what the store queue answered

loadUnitVars == <<execute_data, alu_start, load_state, internal_load_result>>

MemOp == [rw : {"read", "write"}, func : Func, addr : Addr, store_data : WordData,
          sq_index : Nat]
NoOp == [rw |-> "none", func |-> "byte", addr |-> ZeroAddr, store_data |-> ZeroWord,
         sq_index |-> 0]

LUNoLoadResult == [valid |-> FALSE, data |-> ZeroWord, mask |-> {}]

LoadUnitTypeOK ==
    /\ execute_data \in MemOp \cup {NoOp}
    /\ alu_start \in BOOLEAN
    /\ load_state \in {"idle", "queue", "wait"}
    /\ internal_load_result \in [valid : BOOLEAN, data : WordData, mask : SUBSET Byte]

LoadUnitInit ==
    /\ execute_data = NoOp
    /\ alu_start = FALSE
    /\ load_state = "idle"
    /\ internal_load_result = LUNoLoadResult

-----------------------------------------------------------------------------

Starts(flush, rw) == ~flush /\ alu_start /\ execute_data.rw = rw

\* A load wants its line; load_accepted is the answer of the cache controller.
load_en(flush, load_accepted) == ~flush /\ load_state = "queue" /\ ~load_accepted

\* load_addr_aligned; the address of an empty unit is 0.
load_line == execute_data.addr.line

load_state_next(flush, load_valid, load_accepted) ==
    IF Starts(flush, "read") THEN "queue"
    ELSE IF load_state = "idle" \/ load_valid THEN "idle"
    ELSE IF load_accepted THEN "wait"
    ELSE load_state

\* Mutated form of Merged: the answer of the store queue is forgotten.
MergedNothing(result) == result

\* The result with the bytes of the older stores laid over it.
Merged(result) ==
    IF ~internal_load_result.valid THEN result
    ELSE [b \in Byte |-> IF b \in internal_load_result.mask
                         THEN internal_load_result.data[b]
                         ELSE result[b]]

\* The unit hands out the result of its instruction.
ResultValid(flush, load_valid, load_accepted) ==
    /\ ~flush
    /\ execute_data # NoOp
    /\ load_state_next(flush, load_valid, load_accepted) = "idle"

LoadResultValue(content) == Merged(Extract(execute_data.func, execute_data.addr, content))

\* Room for the next instruction.
Free(flush, load_valid, load_accepted) ==
    execute_data = NoOp \/ flush \/ ResultValid(flush, load_valid, load_accepted)

\* One clock cycle; the issue queue sends op, or NoOp, and the store queue
\* answers with forwarded.
LoadUnitCycle(flush, load_valid, load_accepted, forwarded, op) ==
    LET state == load_state_next(flush, load_valid, load_accepted) IN
    IF flush THEN /\ execute_data' = NoOp
                  /\ alu_start' = FALSE
                  /\ load_state' = "idle"
                  /\ internal_load_result' = LUNoLoadResult
    ELSE /\ op # NoOp => Free(flush, load_valid, load_accepted)
         /\ execute_data' = IF Free(flush, load_valid, load_accepted) THEN op ELSE execute_data
         /\ alu_start' = (op # NoOp)
         /\ load_state' = state
         /\ internal_load_result' =
               IF state = "idle" THEN LUNoLoadResult
               ELSE IF Starts(flush, "read") THEN forwarded
               ELSE internal_load_result
=============================================================================
