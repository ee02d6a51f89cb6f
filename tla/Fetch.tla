-------------------------------- MODULE Fetch --------------------------------
(***************************************************************************)
(* The fetch stage of src/verilog/fetch_stage.sv: it asks for WAY words in a *)
(* row, offers them up to the first branch to the instruction buffer, and    *)
(* moves on behind what the buffer takes.  Addresses count words.            *)
(***************************************************************************)
EXTENDS Integers, Sequences

CONSTANTS
    WAY,        \* words fetched in a cycle
    Branches    \* the instructions that are branches or jumps

VARIABLE pc

\* The place of the first branch among the words (no place or a single one).
FirstBranch(insts) ==
    {k \in 1 .. WAY : /\ insts[k] \in Branches
                      /\ \A j \in 1 .. k - 1 : insts[j] \notin Branches}

pc_find(k) == pc + k - 1

\* What is offered when the cache has the words; prediction is the answer of
\* the predictor for the first branch.  Only a branch carries a target.
fetch_out(Imem2proc_valid, insts, prediction) ==
    LET num == IF ~Imem2proc_valid THEN 0
               ELSE IF FirstBranch(insts) = {} THEN WAY
               ELSE CHOOSE k \in FirstBranch(insts) : TRUE
    IN [k \in 1 .. num |->
           [inst |-> insts[k], PC |-> pc + k - 1,
            target_pc |-> IF k \in FirstBranch(insts) THEN prediction.target_pc ELSE 0]]

\* Mutated form of pc_next: follows a branch that the buffer has not taken.
pc_next_before_taken(Imem2proc_valid, insts, prediction, inst_buff_num_fetched) ==
    IF Imem2proc_valid /\ prediction.taken /\ FirstBranch(insts) # {}
    THEN prediction.target_pc
    ELSE pc + inst_buff_num_fetched

\* Without a restart: a taken branch counts once the buffer has taken it.
pc_next(Imem2proc_valid, insts, prediction, inst_buff_num_fetched) ==
    LET behind == pc + inst_buff_num_fetched
        branch == IF Imem2proc_valid THEN FirstBranch(insts) ELSE {}
    IN CASE prediction.taken /\ (\E k \in branch : pc_find(k) < behind) -> prediction.target_pc
         [] ~prediction.taken /\ (\E k \in branch : pc_find(k) + 1 < behind) ->
               pc_find(CHOOSE k \in branch : TRUE) + 1
         [] OTHER -> behind

FetchInit == pc = 0

\* One clock cycle.
FetchCycle(next, fetch_flush, branch_target_PC) ==
    pc' = IF fetch_flush THEN branch_target_PC ELSE next
=============================================================================
