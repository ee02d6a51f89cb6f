--------------------------- MODULE FunctionalUnits ---------------------------
(***************************************************************************)
(* Which instruction is in which functional unit (src/verilog/fu.sv,          *)
(* fu_macro.svh, mult.sv, p.sv): WAY units for fast integer instructions and  *)
(* one for branches, which take a cycle; WAY pipelined multipliers; and one   *)
(* memory unit, which takes as long as the data cache does.  What they        *)
(* compute is left out; LoadUnit has the memory unit in detail.               *)
(***************************************************************************)
EXTENDS Integers, Sequences, FiniteSets, InOrder

CONSTANTS
    WAY,        \* units of a kind, and most instructions sent in a cycle
    NUM_STAGE,  \* stages of a multiplier
    NoInst      \* an empty register

VARIABLES
    fast_int,   \* the instructions in the integer units
    mult,       \* for each multiplier the instructions in its registers
    branch,     \* the instruction in the branch unit
    mem         \* the instruction in the memory unit

unitVars == <<fast_int, mult, branch, mem>>

FuType == {"mem", "int", "mult", "branch"}

OneOrNone(inst) == IF inst = NoInst THEN <<>> ELSE <<inst>>

-----------------------------------------------------------------------------

\* The first register of a multiplier is taken and no product is ready in it.
alu_busy(i) == mult[i][0] # NoInst /\ mult[i][NUM_STAGE] = NoInst

FreeMultipliers == {i \in 1 .. WAY : ~alu_busy(i)}

\* mem_done says that the memory unit finishes in this cycle.
execute_empty_slots(mem_done) ==
    [int |-> WAY,
     branch |-> 1,
     mult |-> Cardinality(FreeMultipliers),
     mem |-> IF mem = NoInst \/ mem_done THEN 1 ELSE 0]

\* The multipliers with a product in their last register.
ReadyMultipliers == {i \in 1 .. WAY : mult[i][NUM_STAGE] # NoInst}

\* Their products, the lowest multiplier first.
Products ==
    [k \in 1 .. Cardinality(ReadyMultipliers) |->
        mult[InOrder(ReadyMultipliers)[k]][NUM_STAGE]]

\* The valid results in the order of the wires result[type][unit].
Results(mem_done, flush) ==
    (IF mem_done /\ ~flush THEN OneOrNone(mem) ELSE <<>>)
    \o (IF flush THEN <<>> ELSE fast_int)
    \o Products
    \o OneOrNone(branch)

-----------------------------------------------------------------------------
(* The registers after a clock cycle; execute has the instructions sent, for  *)
(* each type.  Only the integer units and the memory unit have a flush input. *)

\* Mutated form of fast_int_next: no flush.
fast_int_next_without_flush(execute, flush) == execute.int

fast_int_next(execute, flush) == IF flush THEN <<>> ELSE execute.int

\* The pipelines move; the instructions sent go to the free multipliers, the
\* lowest first.
mult_next(execute) ==
    [i \in 1 .. WAY |-> [s \in 0 .. NUM_STAGE |->
        LET k == Cardinality({j \in FreeMultipliers : j <= i}) IN
        IF s > 0 THEN mult[i][s - 1]
        ELSE IF i \in FreeMultipliers /\ k <= Len(execute.mult) THEN execute.mult[k]
        ELSE NoInst]]

branch_next(execute) == IF execute.branch = <<>> THEN NoInst ELSE Head(execute.branch)

mem_next(execute, mem_done, flush) ==
    IF flush THEN NoInst
    ELSE IF execute.mem # <<>> THEN Head(execute.mem)
    ELSE IF mem_done THEN NoInst
    ELSE mem

UnitsInit ==
    /\ fast_int = <<>>
    /\ mult = [i \in 1 .. WAY |-> [s \in 0 .. NUM_STAGE |-> NoInst]]
    /\ branch = NoInst
    /\ mem = NoInst
=============================================================================
