----------------------------- MODULE ResultPath -----------------------------
(***************************************************************************)
(* The functional units in front of the completion queue, for any            *)
(* instructions that the issue queue can send.  Only the number of results   *)
(* matters here, so all instructions are the same.                           *)
(***************************************************************************)
EXTENDS Integers, Sequences, FiniteSets

CONSTANTS WAY, NUM_STAGE, CQ_SIZE, NoInst, Inst,
    Sent    \* the types of instruction in the program

VARIABLES fast_int, mult, branch, mem, queue

vars == <<fast_int, mult, branch, mem, queue>>

FU == INSTANCE FunctionalUnits
CQ == INSTANCE CompletionQueue

Init == FU!UnitsInit /\ CQ!QueueInit

\* The memory unit finishes in some cycle.
MemAnswers == IF mem = NoInst THEN {FALSE} ELSE BOOLEAN

\* How many of each type the issue queue may send.
Sendable(mem_done) ==
    LET slots == FU!execute_empty_slots(mem_done)
        upTo(type) == 0 .. IF type \in Sent THEN slots[type] ELSE 0
    IN {num \in [mem : upTo("mem"), int : upTo("int"), mult : upTo("mult"),
                 branch : upTo("branch")] :
           num.mem + num.int + num.mult + num.branch <= WAY}

Cycle(num, mem_done, flush) ==
    LET execute == [type \in FU!FuType |-> [k \in 1 .. num[type] |-> Inst]] IN
    /\ fast_int' = FU!fast_int_next(execute, flush)
    /\ mult' = FU!mult_next(execute)
    /\ branch' = FU!branch_next(execute)
    /\ mem' = FU!mem_next(execute, mem_done, flush)
    /\ queue' = CQ!queue_next(FU!Results(mem_done, flush), flush)

Next ==
    \E mem_done \in MemAnswers, flush \in BOOLEAN :
        \E num \in Sendable(mem_done) : Cycle(num, mem_done, flush)

Spec == Init /\ [][Next]_vars

-----------------------------------------------------------------------------
(* Properties.                                                              *)

\* Every result finds room in the completion queue (cq.sv:51-60).
NothingLost ==
    \A mem_done \in MemAnswers :
        Len(queue) + Len(FU!Results(mem_done, FALSE)) <= CQ_SIZE
=============================================================================
