----------------------------- MODULE StoreQueue -----------------------------
(***************************************************************************)
(* The store queue, src/verilog/sq.sv: a ring that stores enter when they    *)
(* are dispatched, that the memory unit fills in when they execute, that     *)
(* loads search for older stores to their word, and that the ROB empties     *)
(* from its head into the data cache.                                       *)
(*                                                                         *)
(* Operators with a flush parameter are wires of the cycle: the queue after  *)
(* the flush, then after retirement, then after execution.  is_32_bit and    *)
(* is_16_bit are func while a store is offered.                             *)
(***************************************************************************)
EXTENDS LineData, Sequences

CONSTANTS
    SQ_SIZE,    \* entries of the ring
    WAY         \* superscalar width

\* sys_defs.svh has WAY 3 and SQ_SIZE 4; with a larger queue
\* dispatch_empty_slots would overflow its two bits.
ASSUME StoreQueueAssumption ==
    /\ WAY \in Nat \ {0}
    /\ SQ_SIZE = WAY + 1

VARIABLES
    sq,             \* the entries
    head,           \* oldest store
    tail,           \* next free place
    empty,          \* whether head = tail means that there is no store
    store_en_prev   \* a store has been offered to the cache and not taken

storeQueueVars == <<sq, head, tail, empty, store_en_prev>>

Slot == 0 .. SQ_SIZE - 1
Inc(i) == (i + 1) % SQ_SIZE

Entry == [valid : BOOLEAN, func : Func, addr : Addr, data : WordData]
NoEntry == [valid |-> FALSE, func |-> "byte", addr |-> ZeroAddr, data |-> ZeroWord]

\* A store the memory unit has executed.
StoreRequest == [valid : BOOLEAN, sq_index : Slot, func : Func, addr : Addr, data : WordData]
NoStore == [valid |-> FALSE, sq_index |-> 0, func |-> "byte", addr |-> ZeroAddr,
            data |-> ZeroWord]

StoreQueueTypeOK ==
    /\ sq \in [Slot -> Entry]
    /\ head \in Slot /\ tail \in Slot
    /\ empty \in BOOLEAN /\ store_en_prev \in BOOLEAN

StoreQueueInit ==
    /\ sq = [i \in Slot |-> NoEntry]
    /\ head = 0 /\ tail = 0
    /\ empty = TRUE /\ store_en_prev = FALSE

-----------------------------------------------------------------------------

\* A store is offered to the cache; in a flush none is.
store_en(flush, is_store) == ~flush /\ (store_en_prev \/ (~empty /\ is_store))

\* The store at the head, and address 0 when none is offered.
Offered(flush, is_store) == IF store_en(flush, is_store) THEN sq[head] ELSE NoEntry

\* Mutated form of head_next: the head does not wrap around the ring.
head_next_straight(flush, accepted) ==
    IF flush THEN 0 ELSE IF accepted THEN head + 1 ELSE head

head_next(flush, accepted) ==
    IF flush THEN 0 ELSE IF accepted THEN Inc(head) ELSE head

tail_index(flush) == IF flush THEN 0 ELSE tail

EmptyAfter(flush, accepted) ==
    \/ flush
    \/ empty
    \/ accepted /\ head_next(flush, accepted) = tail

\* The entries after the flush, the retirement of the head and the execution of
\* a store.
Executed(flush, accepted, store) ==
    LET kept == IF flush THEN [i \in Slot |-> NoEntry]
                ELSE IF accepted THEN [sq EXCEPT ![head] = NoEntry]
                ELSE sq
    IN IF ~store.valid THEN kept
       ELSE [kept EXCEPT ![store.sq_index] =
                [valid |-> TRUE, func |-> store.func, addr |-> store.addr,
                 data |-> store.data]]

\* Slots from h up to the place i, oldest first.
SlotsBefore(h, i) == [j \in 1 .. (i + SQ_SIZE - h) % SQ_SIZE |-> (h + j - 1) % SQ_SIZE]

LoadResult == [valid : BOOLEAN, data : WordData, mask : SUBSET Byte]
NoLoadResult == [valid |-> FALSE, data |-> ZeroWord, mask |-> {}]

\* Mutated form of Overlaid: an older store wins over a younger one.
OverlaidOldestWins(result, e, addr) ==
    IF ~e.valid \/ ~SameWord(e.addr, addr) \/ result.valid THEN result
    ELSE [valid |-> TRUE, data |-> e.data, mask |-> Byte]

\* What a load takes from one more store e.  A byte is taken from the place its
\* address has in the register that was to be stored.
Overlaid(result, e, addr) ==
    IF ~e.valid \/ ~SameWord(e.addr, addr) THEN result
    ELSE IF e.func = "word" THEN [valid |-> TRUE, data |-> e.data, mask |-> Byte]
    ELSE [valid |-> TRUE,
          data |-> [result.data EXCEPT ![0] = e.data[e.addr.byte]],
          mask |-> result.mask \cup {0}]

\* What the stores in the places older, oldest first, leave for a load, store by
\* store.
ResultAfter(older, entries, addr) ==
    LET r[k \in 0 .. Len(older)] ==
          IF k = 0 THEN NoLoadResult
          ELSE Overlaid(r[k - 1], entries[older[k]], addr)
    IN r

\* fu_load_result: the stores in front of sq_index, laid over each other.
Forwarded(flush, accepted, store, sq_index, addr) ==
    LET older == SlotsBefore(head_next(flush, accepted), sq_index) IN
    ResultAfter(older, Executed(flush, accepted, store), addr)[Len(older)]

\* load_ready of rs.sv: all stores in front of sq_index have executed
\* (store_complete).
OlderComplete(flush, accepted, store, sq_index) ==
    LET h == head_next(flush, accepted)
        older == SlotsBefore(h, sq_index)
    IN \A j \in DOMAIN older : Executed(flush, accepted, store)[older[j]].valid

\* The stores that may be dispatched.  Unless the queue is empty the free places
\* count only when there are more than WAY.
dispatch_empty_slots(flush, accepted) ==
    LET h == head_next(flush, accepted)
        t == tail_index(flush)
        free == IF t > h THEN SQ_SIZE - t + h ELSE h - t
    IN IF EmptyAfter(flush, accepted) THEN WAY
       ELSE IF free > WAY THEN free
       ELSE 0

\* One clock cycle; n stores are dispatched.
StoreQueueCycle(flush, is_store, accepted, store, n) ==
    LET t == tail_index(flush)
        new == {(t + k) % SQ_SIZE : k \in 0 .. n - 1}
    IN
    /\ sq' = [i \in Slot |-> IF i \in new THEN NoEntry
                             ELSE Executed(flush, accepted, store)[i]]
    /\ head' = head_next(flush, accepted)
    /\ tail' = (t + n) % SQ_SIZE
    /\ empty' = (EmptyAfter(flush, accepted) /\ n = 0)
    /\ store_en_prev' = (store_en(flush, is_store) /\ ~accepted)
=============================================================================
