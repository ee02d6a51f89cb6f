----------------------------- MODULE IssueQueue -----------------------------
(***************************************************************************)
(* The issue queue of src/verilog/issue_queue.sv: it sends what the          *)
(* functional units have room for, oldest first, past the instructions that  *)
(* must wait, and keeps the rest in front of what the reservation station    *)
(* issues.                                                                   *)
(***************************************************************************)
EXTENDS Integers, Sequences, FiniteSets, InOrder

CONSTANTS
    WAY,        \* width of issue, and most instructions sent in a cycle
    IQ_SIZE     \* entries of the queue

VARIABLE iq     \* the entries in use, from index 0

Smaller(a, b) == IF a < b THEN a ELSE b

\* Mutated form of Fits: one more than there are units.
FitsOneMore(slots) ==
    {k \in DOMAIN iq :
        Cardinality({j \in 1 .. k - 1 : iq[j].kind = iq[k].kind}) <= slots[iq[k].kind]}

\* The entries that find a unit of their type, slots being the free units.
Fits(slots) ==
    {k \in DOMAIN iq :
        Cardinality({j \in 1 .. k - 1 : iq[j].kind = iq[k].kind}) < slots[iq[k].kind]}

Sent(slots) ==
    {k \in Fits(slots) : Cardinality({j \in Fits(slots) : j < k}) < WAY}

\* The entries in S, in the order of the queue.
Entries(S) == [k \in 1 .. Cardinality(S) |-> iq[InOrder(S)[k]]]

\* The wires execute.
execute(slots) ==
    [type \in DOMAIN slots |-> Entries({k \in Sent(slots) : iq[k].kind = type})]

Kept(slots) == Entries(DOMAIN iq \ Sent(slots))

issue_empty_slots(slots) == Smaller(WAY, IQ_SIZE - Len(Kept(slots)))

\* Mutated form of iq_next: no flush.
iq_next_without_flush(slots, issue, flush) == Kept(slots) \o issue

\* A flush clears the register only: what is sent in that cycle is sent.
iq_next(slots, issue, flush) == IF flush THEN <<>> ELSE Kept(slots) \o issue

IssueQueueInit == iq = <<>>
=============================================================================
