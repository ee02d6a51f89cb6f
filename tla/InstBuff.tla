------------------------------ MODULE InstBuff ------------------------------
(***************************************************************************)
(* The instruction buffer of src/verilog/inst_buff.sv: a ring between fetch  *)
(* and dispatch.  In a cycle it first gives, then takes.                     *)
(***************************************************************************)
EXTENDS Integers, Sequences, FiniteSets

CONSTANTS
    WAY,        \* most instructions given and taken in a cycle
    SIZE,       \* entries of the ring
    Stores,     \* the instructions that are stores
    NoPacket    \* a cleared entry

VARIABLES
    queue,      \* the ring
    head,       \* index of the oldest instruction
    tail,       \* index of the youngest instruction
    is_empty    \* tells the empty ring from the full one

Slot == 0 .. SIZE - 1

\* Mutated form of Wrap: only the step onto SIZE goes back to 0.
WrapAtSize(i) == IF i = SIZE THEN 0 ELSE i

Wrap(i) == i % SIZE

\* The d-th turn of the first loop finds an instruction.
Filled(d) == ~is_empty /\ \A e \in 0 .. d - 1 : Wrap(head + e) # tail

At(d) == queue[Wrap(head + d)]

StoresUpTo(d) == Cardinality({e \in 0 .. d : At(e).inst \in Stores})

\* The d-th turn gives it: dispatch has room, the store queue too.
Gives(d, num_can_fetch, store_empty_slots) ==
    /\ d < num_can_fetch
    /\ Filled(d)
    /\ At(d).inst \in Stores => StoresUpTo(d) <= store_empty_slots

\* How many instructions are given (a set of one number).
NumGiven(num_can_fetch, store_empty_slots) ==
    {n \in 0 .. WAY :
        /\ \A d \in 0 .. n - 1 : Gives(d, num_can_fetch, store_empty_slots)
        /\ n < WAY => ~Gives(n, num_can_fetch, store_empty_slots)}

EmptyAfterGiving(n) == ~Filled(n)

\* There is space for the k-th instruction taken, after n have been given.
HasSpace(k, n) == Wrap(tail + k) # Wrap(head + n) \/ (k = 1 /\ EmptyAfterGiving(n))

\* inst_buff_num_fetched (a set of one number).
NumTaken(fetch_in, n) ==
    {m \in 0 .. Len(fetch_in) :
        /\ \A k \in 1 .. m : HasSpace(k, n)
        /\ m < Len(fetch_in) => ~HasSpace(m + 1, n)}

InstBuffInit ==
    /\ queue = [i \in Slot |-> NoPacket]
    /\ head = 0
    /\ tail = SIZE - 1
    /\ is_empty = TRUE

\* One clock cycle: n are given, the first m of fetch_in are taken.
InstBuffCycle(n, fetch_in, m, fetch_flush) ==
    IF fetch_flush
    THEN /\ queue' = [i \in Slot |-> NoPacket]
         /\ head' = 0
         /\ tail' = SIZE - 1
         /\ is_empty' = TRUE
    ELSE /\ queue' = [i \in Slot |->
               LET k == {j \in 1 .. m : Wrap(tail + j) = i} IN
               IF k # {} THEN fetch_in[CHOOSE j \in k : TRUE]
               ELSE IF \E d \in 0 .. n - 1 : Wrap(head + d) = i THEN NoPacket
               ELSE queue[i]]
         /\ head' = Wrap(head + n)
         /\ tail' = Wrap(tail + m)
         /\ is_empty' = (EmptyAfterGiving(n) /\ m = 0)
=============================================================================
