--------------------------- MODULE CompletionQueue ---------------------------
(***************************************************************************)
(* The completion queue of src/verilog/cq.sv: it takes all the results of a   *)
(* cycle and completes up to WAY of the oldest.  The ring is kept as the      *)
(* sequence of its entries from head to tail.  stall is not connected in      *)
(* p.sv: a result that finds no room is lost.                                 *)
(***************************************************************************)
EXTENDS Integers, Sequences

CONSTANTS
    WAY,        \* most completions in a cycle
    CQ_SIZE     \* entries of the ring

VARIABLE queue

LesserOf(a, b) == IF a < b THEN a ELSE b

\* With a full ring head equals tail: no result is taken, the loop over the
\* completions ends at once, and empty_next goes up.
IsFull == Len(queue) = CQ_SIZE

\* The results that find room, measured from the head before the completions.
Accepted(results) == SubSeq(results, 1, LesserOf(CQ_SIZE - Len(queue), Len(results)))

\* Mutated form of NumCompleted: completes full groups only.
NumCompletedFullGroup == IF Len(queue) < WAY THEN 0 ELSE WAY

NumCompleted == IF IsFull THEN 0 ELSE LesserOf(WAY, Len(queue))

\* The wires complete, as a set of one sequence.  In a cycle with a flush they
\* are read from place 0 of the ring, which may be anywhere in the sequence.
Completions(flush) ==
    IF flush
    THEN {<<>>} \cup {SubSeq(queue, p, LesserOf(p + WAY - 1, Len(queue))) : p \in DOMAIN queue}
    ELSE {SubSeq(queue, 1, NumCompleted)}

queue_next(results, flush) ==
    IF flush \/ IsFull THEN <<>>
    ELSE SubSeq(queue, NumCompleted + 1, Len(queue)) \o Accepted(results)

QueueInit == queue = <<>>
=============================================================================
