--------------------------- MODULE FrontEndProofs ---------------------------
(***************************************************************************)
(* Proofs about the front end, for every program, every size of the caches   *)
(* and of the instruction buffer and every set of tags.                      *)
(***************************************************************************)
EXTENDS FrontEnd, TLAPS

\* What fetch hands to the buffer.
Packet == [inst : Nat, PC : Nat, target_pc : Nat]

(***************************************************************************)
(* The invariant of the caches: a line holds its block, and a transaction    *)
(* that a cache waits for will be answered with the block it is asked for.   *)
(***************************************************************************)
CacheTypes ==
    /\ icache_data \in [IC!Bank -> [IC!Index -> IC!Line]]
    /\ last \in [IC!Bank -> Int]
    /\ current_mem_tag \in [IC!Bank -> Tag \cup {0}]
    /\ pending \in [Tag -> Int]

\* A valid line holds the block of its tag.
LinesExact ==
    \A bank \in IC!Bank, i \in IC!Index :
        icache_data[bank][i].valids =>
            icache_data[bank][i].data = icache_data[bank][i].tags

\* The transaction that a cache waits for is pending for the block it wants.
WaitsExact ==
    \A bank \in IC!Bank :
        current_mem_tag[bank] # 0 =>
            /\ last[bank] \in Block
            /\ pending[current_mem_tag[bank]] = last[bank]

\* The inductive invariant of the two caches and memory.
CacheInv == CacheTypes /\ LinesExact /\ WaitsExact

-----------------------------------------------------------------------------
(* The instruction cache.                                                   *)

\* The addresses of a fetch are addresses of lines.
LEMMA AddrTypes ==
    ASSUME pc \in Nat, NEW bank \in IC!Bank
    PROVE  /\ IC!cache_addr(bank, pc) \in Nat
           /\ IC!IndexOf(IC!cache_addr(bank, pc)) \in IC!Index
<1>1. IC!cache_addr(bank, pc) \in Nat
  BY DEF IC!cache_addr, IC!BlockOf
<1>2. IC!cache_addr(bank, pc) \div 2 \in Nat
  BY <1>1
<1> QED BY <1>1, <1>2, FrontEndAssumption DEF IC!IndexOf, IC!Index

\* Nothing is valid and nothing is waited for after reset.
LEMMA CacheInit == Init => CacheInv
<1> SUFFICES ASSUME Init PROVE CacheInv
  OBVIOUS
<1> USE DEF Init, IC!ICacheInit
<1>1. CacheTypes
  BY DEF CacheTypes, IC!Line, Free, IC!NoBlock
<1>2. LinesExact
  BY DEF LinesExact
<1>3. WaitsExact
  BY DEF WaitsExact
<1> QED BY <1>1, <1>2, <1>3 DEF CacheInv

\* A cycle of the caches with memory, whatever is given up, asked for and answered
\* in it (bank_icache.sv).
LEMMA CachePreserves ==
    ASSUME CacheInv, pc \in Nat, CacheCycle
    PROVE  CacheInv'
<1>1. PICK response \in Responses, mem_tag \in Answers :
        \E other \in OtherTags(response), mem_data \in Block :
            /\ mem_tag # 0 /\ pending[mem_tag] # Other => mem_data = pending[mem_tag]
            /\ mem_tag = 0 => mem_data = 0
            /\ IC!ICacheCycle(pc, response, mem_tag, mem_data)
            /\ pending' = PendingNext(response, other, mem_tag)
  BY DEF CacheCycle
<1>2. PICK other \in OtherTags(response), mem_data \in Block :
        /\ mem_tag # 0 /\ pending[mem_tag] # Other => mem_data = pending[mem_tag]
        /\ mem_tag = 0 => mem_data = 0
        /\ IC!ICacheCycle(pc, response, mem_tag, mem_data)
        /\ pending' = PendingNext(response, other, mem_tag)
  BY <1>1
<1>3. /\ response \in Tag \cup {0} /\ other \in Tag \cup {0}
      /\ response # 0 => Asks /\ pending[response] = Free
      /\ other # 0 => pending[other] = Free
      /\ 0 \notin Tag
  BY FrontEndAssumption DEF Responses, OtherTags, FreeTags
<1>4. Block \subseteq Nat
  BY FrontEndAssumption DEF Block
<1>5. /\ CacheTypes /\ LinesExact /\ WaitsExact
  BY DEF CacheInv
<1> DEFINE addr(bank) == IC!cache_addr(bank, pc)
<1>6. \A bank \in IC!Bank : addr(bank) \in Nat /\ IC!IndexOf(addr(bank)) \in IC!Index
  BY AddrTypes
<1>7. IC!Icache2Imem_addr(pc) \in Nat
  BY <1>6 DEF IC!Icache2Imem_addr, IC!cache_on_bus, IC!Bank
<1>8. CacheTypes'
  <2>1. icache_data' \in [IC!Bank -> [IC!Index -> IC!Line]]
    BY <1>2, <1>4, <1>5, <1>6 DEF IC!ICacheCycle, CacheTypes, IC!Line
  <2>2. last' \in [IC!Bank -> Int]
    BY <1>2, <1>6 DEF IC!ICacheCycle
  <2>3. current_mem_tag' \in [IC!Bank -> Tag \cup {0}]
    BY <1>2, <1>3, <1>5 DEF IC!ICacheCycle, CacheTypes, IC!mem2cache_response
  <2>4. pending' \in [Tag -> Int]
    BY <1>2, <1>5, <1>7 DEF PendingNext, CacheTypes, Other, Free
  <2> QED BY <2>1, <2>2, <2>3, <2>4 DEF CacheTypes
<1>9. LinesExact'
  <2> SUFFICES ASSUME NEW bank \in IC!Bank, NEW i \in IC!Index,
                      icache_data'[bank][i].valids
               PROVE  icache_data'[bank][i].data = icache_data'[bank][i].tags
    BY DEF LinesExact, IC!Bank, IC!Index
  <2> DEFINE written == /\ ~IC!changed_addr(bank, pc)
                        /\ IC!data_write_enable(bank, mem_tag)
                        /\ i = IC!IndexOf(IC!cache_addr(bank, pc))
  <2>1. icache_data'[bank][i] =
          IF written
          THEN [valids |-> TRUE, tags |-> IC!cache_addr(bank, pc), data |-> mem_data]
          ELSE icache_data[bank][i]
    BY <1>2 DEF IC!ICacheCycle
  <2>2. CASE written
    <3>1. mem_tag # 0 /\ pending[mem_tag] = last[bank] /\ last[bank] \in Block
      BY <2>2, <1>5 DEF WaitsExact, IC!data_write_enable
    <3>2. mem_data = last[bank]
      BY <3>1, <1>2, <1>4 DEF Other
    <3> QED BY <2>1, <2>2, <3>2 DEF IC!changed_addr
  <2>3. CASE ~written
    BY <2>1, <2>3, <1>5 DEF LinesExact
  <2> QED BY <2>2, <2>3
<1>10. WaitsExact'
  <2> SUFFICES ASSUME NEW bank \in IC!Bank, current_mem_tag'[bank] # 0
               PROVE  /\ last'[bank] \in Block
                      /\ pending'[current_mem_tag'[bank]] = last'[bank]
    BY DEF WaitsExact, IC!Bank, Block
  <2>1. /\ last'[bank] = addr(bank)
        /\ current_mem_tag'[bank] =
              IF IC!update_mem_tag(bank, pc, mem_tag)
              THEN IC!mem2cache_response(bank, pc, response)
              ELSE current_mem_tag[bank]
    BY <1>2 DEF IC!ICacheCycle
  <2>2. CASE IC!update_mem_tag(bank, pc, mem_tag)
    <3>1. current_mem_tag'[bank] = response /\ IC!cache_on_bus(pc) = bank
      BY <2>1, <2>2 DEF IC!mem2cache_response
    <3>2. IC!Icache2Imem_addr(pc) = addr(bank) /\ addr(bank) \in Block
      BY <3>1, <1>3 DEF IC!Icache2Imem_addr, Asks
    <3>3. response \in Tag
      BY <3>1, <1>3
    <3> QED BY <1>2, <2>1, <3>1, <3>2, <3>3 DEF PendingNext
  <2>3. CASE ~IC!update_mem_tag(bank, pc, mem_tag)
    <3>1. /\ current_mem_tag'[bank] = current_mem_tag[bank]
          /\ last[bank] = addr(bank)
          /\ mem_tag # current_mem_tag[bank]
      BY <2>1, <2>3 DEF IC!update_mem_tag, IC!changed_addr, IC!data_write_enable
    <3>2. /\ current_mem_tag[bank] \in Tag
          /\ last[bank] \in Block
          /\ pending[current_mem_tag[bank]] = last[bank]
      BY <3>1, <1>5 DEF WaitsExact, CacheTypes
    <3>3. current_mem_tag[bank] # response /\ current_mem_tag[bank] # other
      BY <3>2, <1>3, <1>4 DEF Free
    <3> QED BY <1>2, <2>1, <3>1, <3>2, <3>3 DEF PendingNext
  <2> QED BY <2>2, <2>3
<1> QED BY <1>8, <1>9, <1>10 DEF CacheInv

-----------------------------------------------------------------------------
(* Arithmetic of the ring.                                                  *)

\* Quotient and remainder.
LEMMA Division == \A a \in Nat : \E q \in Int : a = SIZE * q + (a % SIZE)
<1> TAKE a \in Nat
<1>1. a \div SIZE \in Int /\ a = SIZE * (a \div SIZE) + (a % SIZE)
  BY FrontEndAssumption
<1> QED BY <1>1

\* A remainder is known by the number it is of.
LEMMA Remainder == \A q \in Int, r \in 0 .. SIZE - 1 : (SIZE * q + r) % SIZE = r
BY FrontEndAssumption

\* An index is a place in the ring.
LEMMA WrapType == \A a \in Nat : IB!Wrap(a) \in IB!Slot
BY FrontEndAssumption DEF IB!Wrap, IB!Slot

\* It does not matter when one wraps.
LEMMA WrapAdd == \A a, b \in Nat : IB!Wrap(IB!Wrap(a) + b) = IB!Wrap(a + b)
<1> SUFFICES ASSUME NEW a \in Nat, NEW b \in Nat
             PROVE  ((a % SIZE) + b) % SIZE = (a + b) % SIZE
  BY DEF IB!Wrap
<1>1. a % SIZE \in Nat
  BY WrapType DEF IB!Wrap, IB!Slot
<1> DEFINE c == (a % SIZE) + b
<1>2. c \in Nat /\ c % SIZE \in 0 .. SIZE - 1
  BY <1>1, WrapType DEF IB!Wrap, IB!Slot
<1>3. PICK q \in Int : a = SIZE * q + (a % SIZE)
  BY Division
<1>4. PICK p \in Int : c = SIZE * p + (c % SIZE)
  BY <1>2, Division
<1>5. SIZE * (q + p) = SIZE * q + SIZE * p
  BY FrontEndAssumption
<1>6. SIZE * q \in Int /\ SIZE * p \in Int
  BY FrontEndAssumption
<1>7. a + b = SIZE * (q + p) + (c % SIZE)
  BY <1>1, <1>2, <1>3, <1>4, <1>5, <1>6
<1> QED BY <1>2, <1>7, Remainder

\* Less than once around the ring, places are different.
LEMMA WrapInjective ==
    \A a, b \in Nat : a <= b /\ b - a < SIZE /\ IB!Wrap(a) = IB!Wrap(b) => a = b
<1> SUFFICES ASSUME NEW a \in Nat, NEW b \in Nat, a <= b, b - a < SIZE,
                    a % SIZE = b % SIZE
             PROVE  a = b
  BY DEF IB!Wrap
<1>1. PICK q \in Int : a = SIZE * q + (a % SIZE)
  BY Division
<1>2. PICK p \in Int : b = SIZE * p + (b % SIZE)
  BY Division
<1>3. b - a = SIZE * (p - q)
  BY <1>1, <1>2, FrontEndAssumption
<1>4. p - q < 1
  BY <1>3, FrontEndAssumption
<1>5. p - q > -1
  BY <1>3, FrontEndAssumption
<1>6. p - q = 0
  BY <1>4, <1>5
<1> QED BY <1>3, <1>6, FrontEndAssumption

\* Once around the ring is the same place.
LEMMA WrapPeriod == \A a \in Nat : IB!Wrap(a + SIZE) = IB!Wrap(a)
<1> TAKE a \in Nat
<1>1. a + SIZE \in Nat /\ a % SIZE \in 0 .. SIZE - 1
  BY FrontEndAssumption
<1>2. PICK q \in Int : a = SIZE * q + (a % SIZE)
  BY Division
<1>3. SIZE * (q + 1) = SIZE * q + SIZE /\ SIZE * q \in Int
  BY FrontEndAssumption
<1>4. a + SIZE = SIZE * (q + 1) + (a % SIZE)
  BY <1>1, <1>2, <1>3, FrontEndAssumption
<1> QED BY <1>1, <1>4, Remainder DEF IB!Wrap

\* Distances from one place are different up to the size of the ring.
LEMMA SameDistance ==
    ASSUME NEW h \in Nat, NEW u \in 1 .. SIZE, NEW v \in 1 .. SIZE,
           IB!Wrap(h + u) = IB!Wrap(h + v)
    PROVE  u = v
<1>1. h + u \in Nat /\ h + v \in Nat
  BY FrontEndAssumption
<1>2. (h + u) - (h + v) < SIZE /\ (h + v) - (h + u) < SIZE
  BY FrontEndAssumption
<1>3. h + u = h + v
  BY <1>1, <1>2, WrapInjective, FrontEndAssumption
<1> QED BY <1>3, FrontEndAssumption

\* A place stays where it is.
LEMMA WrapSlot == \A i \in IB!Slot : IB!Wrap(i) = i
BY FrontEndAssumption DEF IB!Wrap, IB!Slot

\* The distance from index h to index t.
LEMMA Distance ==
    \A h, t \in IB!Slot :
        /\ (t + SIZE - h) % SIZE \in 0 .. SIZE - 1
        /\ IB!Wrap(t + 1) = IB!Wrap(h + (((t + SIZE - h) % SIZE) + 1))
BY FrontEndAssumption DEF IB!Wrap, IB!Slot

-----------------------------------------------------------------------------
(* The instruction buffer.                                                  *)

\* The number of instructions in the buffer.
Count == IF is_empty THEN 0 ELSE ((tail + SIZE - head) % SIZE) + 1

\* The pointers of the buffer; an empty buffer has its tail behind its head.
RingTypes ==
    /\ head \in IB!Slot
    /\ tail \in IB!Slot
    /\ is_empty \in BOOLEAN
    /\ is_empty => head = IB!Wrap(tail + 1)

\* The tail in distances from the head, of the empty ring as of any other.
LEMMA CountRange ==
    ASSUME RingTypes
    PROVE  /\ Count \in 0 .. SIZE
           /\ Count = 0 <=> is_empty
           /\ tail = IB!Wrap(head + Count + SIZE - 1)
           /\ \A k \in Nat \ {0} : IB!Wrap(tail + k) = IB!Wrap(head + Count + k - 1)
<1> USE FrontEndAssumption DEF RingTypes, IB!Slot
<1>1. Count \in 0 .. SIZE /\ (Count = 0 <=> is_empty)
  BY DEF Count
<1>2. tail = IB!Wrap(head + Count + SIZE - 1)
  BY DEF Count, IB!Wrap
<1>3. ASSUME NEW k \in Nat \ {0}
      PROVE  IB!Wrap(tail + k) = IB!Wrap(head + Count + k - 1)
  <2>1. CASE ~is_empty
    <3>1. tail = IB!Wrap(head + Count - 1)
      BY <2>1 DEF Count, IB!Wrap
    <3>2. head + Count - 1 \in Nat /\ (head + Count - 1) + k = head + Count + k - 1
      BY <1>1, <2>1
    <3> QED BY <3>1, <3>2, WrapAdd
  <2>2. CASE is_empty
    <3>1. head = IB!Wrap(tail + 1) /\ Count = 0
      BY <2>2, <1>1
    <3>2. tail + 1 \in Nat /\ k - 1 \in Nat /\ (tail + 1) + (k - 1) = tail + k
      OBVIOUS
    <3>3. IB!Wrap(head + (k - 1)) = IB!Wrap(tail + k)
      BY <3>1, <3>2, WrapAdd
    <3>4. head + Count + k - 1 = head + (k - 1)
      BY <3>1
    <3> QED BY <3>3, <3>4
  <2> QED BY <2>1, <2>2
<1> QED BY <1>1, <1>2, <1>3

\* The buffer gives no more than it has.
LEMMA GivenRange ==
    ASSUME RingTypes, NEW n \in Given
    PROVE  n \in 0 .. Count /\ n \in 0 .. WAY
<1>1. PICK a \in 0 .. WAY, b \in 0 .. WAY : n \in IB!NumGiven(a, b)
  BY DEF Given
<1>2. n \in 0 .. WAY /\ \A d \in 0 .. n - 1 : IB!Filled(d)
  BY <1>1 DEF IB!NumGiven, IB!Gives
<1>3. Count \in 0 .. SIZE /\ (Count = 0 <=> is_empty)
  BY CountRange
<1>4. n <= Count
  <2> SUFFICES ASSUME n > Count PROVE FALSE
    BY <1>2, <1>3
  <2>1. Count \in 0 .. n - 1 /\ IB!Filled(Count)
    BY <1>2, <1>3
  <2>2. ~is_empty /\ Count - 1 \in 0 .. Count - 1
    BY <2>1, <1>3 DEF IB!Filled
  <2>3. IB!Wrap(head + (Count - 1)) # tail
    BY <2>1, <2>2 DEF IB!Filled
  <2>4. IB!Wrap(head + (Count - 1)) = tail
    BY <2>2, <1>3, FrontEndAssumption DEF Count, IB!Wrap, RingTypes, IB!Slot
  <2> QED BY <2>3, <2>4
<1> QED BY <1>2, <1>3, <1>4 DEF WAY

\* The buffer is empty once it has given all it held (inst_buff.sv).
LEMMA EmptyAfterGivingAll ==
    ASSUME RingTypes, NEW n \in 0 .. Count
    PROVE  IB!EmptyAfterGiving(n) <=> n = Count
<1> USE FrontEndAssumption DEF RingTypes, IB!Slot
<1>1. Count \in 0 .. SIZE /\ (Count = 0 <=> is_empty)
  BY CountRange
<1>2. CASE is_empty
  BY <1>1, <1>2 DEF IB!EmptyAfterGiving, IB!Filled
<1>3. CASE ~is_empty
  <2>1. tail = IB!Wrap(head + (Count - 1))
    BY <1>3 DEF Count, IB!Wrap
  <2>2. CASE n = Count
    <3>1. Count - 1 \in 0 .. n - 1
      BY <2>2, <1>1, <1>3
    <3> QED BY <2>1, <2>2, <3>1 DEF IB!EmptyAfterGiving, IB!Filled
  <2>3. CASE n < Count
    <3>1. ASSUME NEW e \in 0 .. n - 1 PROVE IB!Wrap(head + e) # tail
      <4>1. /\ head + e \in Nat /\ head + (Count - 1) \in Nat
            /\ head + e < head + (Count - 1)
            /\ (head + (Count - 1)) - (head + e) < SIZE
        BY <1>1, <2>3
      <4> QED BY <4>1, <2>1, WrapInjective
    <3> QED BY <1>3, <2>3, <3>1 DEF IB!EmptyAfterGiving, IB!Filled
  <2> QED BY <2>2, <2>3, <1>1
<1> QED BY <1>2, <1>3

\* The buffer takes no more than it has room for.
LEMMA TakenRange ==
    ASSUME RingTypes, NEW n \in 0 .. Count, NEW fetch_in, Len(fetch_in) \in Nat,
           NEW m \in IB!NumTaken(fetch_in, n)
    PROVE  m \in 0 .. Len(fetch_in) /\ m <= SIZE - (Count - n)
<1>1. m \in 0 .. Len(fetch_in) /\ \A k \in 1 .. m : IB!HasSpace(k, n)
  BY DEF IB!NumTaken
<1>2. Count \in 0 .. SIZE /\ head \in Nat /\ SIZE \in Nat \ {0}
  BY CountRange, FrontEndAssumption DEF RingTypes, IB!Slot
<1>3. m <= SIZE - (Count - n)
  <2> DEFINE k == SIZE - (Count - n) + 1
  <2> SUFFICES ASSUME m >= k PROVE FALSE
    BY <1>1, <1>2
  <2>1. k \in 1 .. m /\ k \in Nat \ {0}
    BY <1>1, <1>2
  <2>2. IB!HasSpace(k, n)
    BY <1>1, <2>1
  <2>3. IB!Wrap(tail + k) = IB!Wrap(head + Count + k - 1)
    BY <2>1, CountRange
  <2>4. head + Count + k - 1 = (head + n) + SIZE /\ head + n \in Nat
    BY <1>2
  <2>5. IB!Wrap((head + n) + SIZE) = IB!Wrap(head + n)
    BY <1>2, <2>4, WrapPeriod
  <2>6. k = 1 /\ n = Count
    BY <2>2, <2>3, <2>4, <2>5, EmptyAfterGivingAll DEF IB!HasSpace
  <2> QED BY <2>6, <1>2
<1> QED BY <1>1, <1>3

\* What is in the buffer after a cycle: what was left, then what was taken.
LEMMA BufferAfter ==
    ASSUME RingTypes, NEW n \in 0 .. Count, NEW fetch_in, Len(fetch_in) \in Nat,
           NEW m \in 0 .. Len(fetch_in), m <= SIZE - (Count - n),
           IB!InstBuffCycle(n, fetch_in, m, FALSE)
    PROVE  /\ RingTypes'
           /\ Count' = Count - n + m
           /\ \A d \in 0 .. Count - n + m - 1 :
                 queue'[IB!Wrap(head' + d)] =
                    IF d < Count - n THEN queue[IB!Wrap(head + (n + d))]
                    ELSE fetch_in[d - (Count - n) + 1]
<1> DEFINE c == Count - n
<1>1. /\ Count \in 0 .. SIZE /\ head \in Nat /\ SIZE \in Nat \ {0}
      /\ c \in 0 .. SIZE /\ m \in Nat /\ c + m <= SIZE
  BY CountRange, FrontEndAssumption DEF RingTypes, IB!Slot
<1>2. head' = IB!Wrap(head + n) /\ tail' = IB!Wrap(tail + m)
  BY DEF IB!InstBuffCycle
<1>3. head' \in IB!Slot /\ tail' \in IB!Slot
  <2>1. head + n \in Nat /\ tail + m \in Nat
    BY <1>1 DEF RingTypes, IB!Slot
  <2> QED BY <1>2, <2>1, WrapType
<1>4. is_empty' \in BOOLEAN /\ (is_empty' <=> c + m = 0)
  <2>1. is_empty' = (IB!EmptyAfterGiving(n) /\ m = 0)
    BY DEF IB!InstBuffCycle
  <2>2. is_empty' \in BOOLEAN /\ (is_empty' <=> n = Count /\ m = 0)
    BY <2>1, EmptyAfterGivingAll, Zenon
  <2>3. c + m = 0 <=> n = Count /\ m = 0
    BY <1>1
  <2> QED BY <2>2, <2>3, Zenon
<1>5. \A k \in Nat \ {0} : IB!Wrap(tail + k) = IB!Wrap(head + Count + k - 1)
  BY CountRange
<1>6. IB!Wrap(tail' + 1) = IB!Wrap(head' + (c + m))
  <2>1. IB!Wrap(tail' + 1) = IB!Wrap(tail + (m + 1))
    BY <1>1, <1>2, WrapAdd DEF RingTypes, IB!Slot
  <2>2. IB!Wrap(tail + (m + 1)) = IB!Wrap(head + Count + (m + 1) - 1)
    BY <1>1, <1>5
  <2>3. IB!Wrap(head' + (c + m)) = IB!Wrap((head + n) + (c + m))
    <3>1. head + n \in Nat /\ c + m \in Nat
      BY <1>1
    <3>2. IB!Wrap(IB!Wrap(head + n) + (c + m)) = IB!Wrap((head + n) + (c + m))
      BY <3>1, WrapAdd
    <3> QED BY <3>2, <1>2
  <2>4. head + Count + (m + 1) - 1 = (head + n) + (c + m)
    BY <1>1
  <2> QED BY <2>1, <2>2, <2>3, <2>4
<1>7. RingTypes'
  <2>1. is_empty' \in BOOLEAN
    BY <1>4
  <2>2. is_empty' => head' = IB!Wrap(tail' + 1)
    <3> SUFFICES ASSUME c + m = 0 PROVE head' = IB!Wrap(tail' + 1)
      BY <1>4
    <3>1. head' + (c + m) = head'
      BY <1>3 DEF IB!Slot
    <3> QED BY <3>1, <1>3, <1>6, WrapSlot
  <2>3. IB!Wrap(tail' + 1) = IB!Wrap(tail + 1)'
    BY DEF IB!Wrap
  <2> QED BY <1>3, <2>1, <2>2, <2>3 DEF RingTypes, IB!Slot
<1>8. Count' = c + m
  <2>1. CASE c + m = 0
    BY <2>1, <1>4 DEF Count
  <2>2. CASE c + m # 0
    <3>1. ~is_empty'
      BY <1>4, <2>2
    <3> DEFINE x == ((tail' + SIZE - head') % SIZE)
    <3>2. Count' = x + 1
      BY <3>1 DEF Count
    <3>3. x \in 0 .. SIZE - 1 /\ IB!Wrap(tail' + 1) = IB!Wrap(head' + (x + 1))
      BY <1>3, Distance
    <3>4. IB!Wrap(head' + (c + m)) = IB!Wrap(head' + (x + 1))
      BY <1>6, <3>3
    <3> HIDE DEF x
    <3> DEFINE y == c + m
    <3>5. y \in 1 .. SIZE /\ x + 1 \in 1 .. SIZE /\ head' \in Nat
      BY <1>1, <1>3, <2>2, <3>3 DEF IB!Slot
    <3> HIDE DEF y
    <3>6. IB!Wrap(head' + y) = IB!Wrap(head' + (x + 1))
      BY <3>4 DEF y
    <3>7. y = x + 1
      BY <3>5, <3>6, SameDistance
    <3> QED BY <3>2, <3>7 DEF y
  <2> QED BY <2>1, <2>2
<1>9. ASSUME NEW d \in 0 .. c + m - 1
      PROVE  queue'[IB!Wrap(head' + d)] =
                IF d < c THEN queue[IB!Wrap(head + (n + d))] ELSE fetch_in[d - c + 1]
  <2> DEFINE i == IB!Wrap(head + (n + d))
             K == {j \in 1 .. m : IB!Wrap(tail + j) = i}
  <2>1. IB!Wrap(head' + d) = i
    <3>1. head + n \in Nat /\ d \in Nat /\ (head + n) + d = head + (n + d)
      BY <1>1
    <3>2. IB!Wrap(IB!Wrap(head + n) + d) = IB!Wrap((head + n) + d)
      BY <3>1, WrapAdd
    <3> QED BY <3>1, <3>2, <1>2
  <2>2. i \in IB!Slot
    BY <1>1, WrapType
  <2>3. queue'[i] = IF K # {} THEN fetch_in[CHOOSE j \in K : TRUE]
                    ELSE IF \E e \in 0 .. n - 1 : IB!Wrap(head + e) = i THEN NoPacket
                    ELSE queue[i]
    BY <2>2 DEF IB!InstBuffCycle
  <2>4. ASSUME NEW j \in 1 .. m PROVE j \in K <=> j = d - c + 1
    <3>1. IB!Wrap(tail + j) = IB!Wrap(head + Count + j - 1)
      BY <1>5
    <3>2. /\ head + Count + j - 1 \in Nat /\ head + (n + d) \in Nat
          /\ (head + Count + j - 1) - (head + (n + d)) = (c + j - 1) - d
          /\ c + j - 1 \in 0 .. SIZE - 1 /\ d \in 0 .. SIZE - 1
      BY <1>1
    <3>3. head + Count + j - 1 = head + (n + d) <=> j = d - c + 1
      BY <1>1
    <3>4. /\ (head + Count + j - 1) - (head + (n + d)) < SIZE
          /\ (head + (n + d)) - (head + Count + j - 1) < SIZE
      BY <1>1, <3>2
    <3>5. IB!Wrap(tail + j) = i <=> head + Count + j - 1 = head + (n + d)
      BY <1>1, <3>1, <3>2, <3>4, WrapInjective
    <3> QED BY <3>3, <3>5
  <2>5. CASE d < c
    <3>1. K = {}
      BY <1>1, <2>4, <2>5
    <3>2. ASSUME NEW e \in 0 .. n - 1 PROVE IB!Wrap(head + e) # i
      <4>1. /\ head + e \in Nat /\ head + (n + d) \in Nat
            /\ head + e < head + (n + d)
            /\ (head + (n + d)) - (head + e) < SIZE
        BY <1>1, <2>5
      <4> QED BY <4>1, WrapInjective
    <3> QED BY <2>1, <2>3, <2>5, <3>1, <3>2
  <2>6. CASE d >= c
    <3>1. d - c + 1 \in 1 .. m
      BY <1>1, <2>6
    <3>2. K = {d - c + 1}
      BY <2>4, <3>1
    <3>3. ~(d < c)
      BY <1>1, <2>6
    <3> HIDE DEF K, i
    <3> QED BY <2>1, <2>3, <3>2, <3>3
  <2> QED BY <2>5, <2>6, <1>1
<1> QED BY <1>7, <1>8, <1>9

-----------------------------------------------------------------------------
(* Fetch.                                                                   *)

\* The words come from the block of the first one and the next one.
LEMMA BlockOfWord ==
    ASSUME pc \in Nat, NEW k \in 1 .. WAY
    PROVE  LET w == pc + k - 1 IN
           /\ w \in Nat
           /\ IC!BlockOf(w) % 2 \in IC!Bank
           /\ IC!cache_addr(IC!BlockOf(w) % 2, pc) = IC!BlockOf(w)
           /\ 2 * IC!BlockOf(w) + (w % 2) = w
BY DEF WAY, IC!BlockOf, IC!cache_addr, IC!Bank

\* With hits in both banks, the words fetched are those of their addresses.
LEMMA WordsOfLines ==
    ASSUME CacheInv, pc \in Nat, IC!Icache_valid_out(pc), NEW k \in 1 .. WAY
    PROVE  insts[k] = pc + k - 1
<1> DEFINE w == pc + k - 1
           bank == IC!BlockOf(w) % 2
           line == IC!LineFor(bank, pc)
<1>1. /\ bank \in IC!Bank
      /\ IC!cache_addr(bank, pc) = IC!BlockOf(w)
      /\ 2 * IC!BlockOf(w) + (w % 2) = w
  BY BlockOfWord
<1>2. IC!IndexOf(IC!cache_addr(bank, pc)) \in IC!Index
  BY <1>1, AddrTypes
<1>3. line.valids /\ line.tags = IC!cache_addr(bank, pc)
  BY <1>1 DEF IC!Icache_valid_out, IC!cache_valid_out
<1>4. line.data = line.tags
  BY <1>1, <1>2, <1>3 DEF CacheInv, LinesExact, IC!LineFor
<1>5. insts[k] = 2 * line.data + (w % 2)
  BY DEF insts, FS!pc_find, IC!Icache_inst_out
<1> QED BY <1>1, <1>3, <1>4, <1>5

\* At most one instruction of a group is the first branch.
LEMMA FirstBranchIsOne ==
    /\ \A j, k \in FS!FirstBranch(insts) : j = k
    /\ FS!FirstBranch(insts) \subseteq 1 .. WAY
    /\ FS!FirstBranch(insts) = {} => \A k \in 1 .. WAY : insts[k] \notin Branches
<1>1. \A j, k \in FS!FirstBranch(insts) : j = k
  <2> SUFFICES ASSUME NEW j \in FS!FirstBranch(insts), NEW k \in FS!FirstBranch(insts)
               PROVE  j = k
    OBVIOUS
  <2>1. j \in 1 .. WAY /\ k \in 1 .. WAY /\ insts[j] \in Branches /\ insts[k] \in Branches
    BY DEF FS!FirstBranch
  <2>2. (\A i \in 1 .. k - 1 : insts[i] \notin Branches) /\ (\A i \in 1 .. j - 1 : insts[i] \notin Branches)
    BY DEF FS!FirstBranch
  <2> QED BY <2>1, <2>2 DEF WAY
<1>2. FS!FirstBranch(insts) \subseteq 1 .. WAY
  BY DEF FS!FirstBranch
<1>3. ASSUME FS!FirstBranch(insts) = {}, NEW k \in 1 .. WAY PROVE insts[k] \notin Branches
  <2>0. \A i \in 1 .. WAY : insts[i] \in Branches =>
            \E j \in 1 .. i - 1 : insts[j] \in Branches
    BY <1>3 DEF FS!FirstBranch
  <2> HIDE DEF insts
  <2>1. insts[1] \notin Branches
    BY <2>0 DEF WAY
  <2>2. insts[2] \notin Branches
    BY <2>0, <2>1 DEF WAY
  <2>3. insts[3] \notin Branches
    BY <2>0, <2>1, <2>2 DEF WAY
  <2> QED BY <2>1, <2>2, <2>3 DEF WAY
<1> QED BY <1>1, <1>2, <1>3

\* The predictor answers with an address, the next one when not taken.
LEMMA PredictionTypes ==
    ASSUME pc \in Nat, NEW prediction \in AnyPrediction
    PROVE  /\ prediction.taken \in BOOLEAN
           /\ prediction.target_pc \in Nat
           /\ \A k \in FS!FirstBranch(insts) :
                 ~prediction.taken => prediction.target_pc = pc + k
<1>1. FS!FirstBranch(insts) \subseteq 1 .. WAY /\ \A j, k \in FS!FirstBranch(insts) : j = k
  BY FirstBranchIsOne
<1>2. Targets \subseteq Nat
  BY FrontEndAssumption
<1>3. CASE FS!FirstBranch(insts) = {}
  <2>1. prediction = [taken |-> FALSE, target_pc |-> 0]
    BY <1>3 DEF AnyPrediction
  <2> QED BY <1>3, <2>1
<1>4. CASE FS!FirstBranch(insts) # {}
  <2>1. PICK k \in FS!FirstBranch(insts) : prediction \in Predictions(k)
    BY <1>4 DEF AnyPrediction
  <2>2. k \in Nat
    BY <1>1, <2>1
  <2>3. \/ prediction = [taken |-> FALSE, target_pc |-> FS!pc_find(k) + 1]
        \/ \E t \in Targets : prediction = [taken |-> TRUE, target_pc |-> t]
    BY <2>1 DEF Predictions
  <2>4. FS!pc_find(k) + 1 = pc + k
    BY <2>2 DEF FS!pc_find
  <2>5. CASE prediction = [taken |-> FALSE, target_pc |-> FS!pc_find(k) + 1]
    BY <1>1, <2>1, <2>2, <2>4, <2>5
  <2>6. CASE \E t \in Targets : prediction = [taken |-> TRUE, target_pc |-> t]
    BY <1>2, <2>6
  <2> QED BY <2>3, <2>5, <2>6
<1> QED BY <1>3, <1>4

\* What fetch offers: words in a row, the last one perhaps a branch.
Offered(prediction) == FS!fetch_out(IC!Icache_valid_out(pc), insts, prediction)

\* Fetch offers consecutive instructions, only the last of which may jump
\* (fetch_stage.sv).
LEMMA OfferedPackets ==
    ASSUME CacheInv, pc \in Nat, NEW prediction \in AnyPrediction
    PROVE  LET f == Offered(prediction) IN
           /\ Len(f) \in 0 .. WAY
           /\ Len(f) # 0 => IC!Icache_valid_out(pc)
           /\ \A j \in 1 .. Len(f) :
                 /\ f[j] \in Packet
                 /\ f[j].PC = pc + j - 1
                 /\ f[j].inst = pc + j - 1
                 /\ f[j].inst \in Branches <=> j \in FS!FirstBranch(insts)
                 /\ j \in FS!FirstBranch(insts) =>
                       j = Len(f) /\ f[j].target_pc = prediction.target_pc
<1> DEFINE valid == IC!Icache_valid_out(pc)
           num == IF ~valid THEN 0
                  ELSE IF FS!FirstBranch(insts) = {} THEN WAY
                  ELSE CHOOSE k \in FS!FirstBranch(insts) : TRUE
           f == [k \in 1 .. num |->
                   [inst |-> insts[k], PC |-> pc + k - 1,
                    target_pc |-> IF k \in FS!FirstBranch(insts) THEN prediction.target_pc ELSE 0]]
<1>1. Offered(prediction) = f
  BY DEF Offered, FS!fetch_out
<1>2. /\ FS!FirstBranch(insts) \subseteq 1 .. WAY
      /\ \A j, k \in FS!FirstBranch(insts) : j = k
      /\ FS!FirstBranch(insts) = {} => \A k \in 1 .. WAY : insts[k] \notin Branches
  BY FirstBranchIsOne
<1>3. num \in 0 .. WAY /\ (num # 0 => valid)
  BY <1>2 DEF WAY
<1>4. FS!FirstBranch(insts) # {} /\ valid => num \in FS!FirstBranch(insts)
  OBVIOUS
<1> HIDE DEF num, valid
<1>5. Len(f) = num
  BY <1>3
<1>6. ASSUME NEW j \in 1 .. num
      PROVE  /\ f[j] \in Packet
             /\ f[j].PC = pc + j - 1
             /\ f[j].inst = pc + j - 1
             /\ f[j].inst \in Branches <=> j \in FS!FirstBranch(insts)
             /\ j \in FS!FirstBranch(insts) =>
                   j = num /\ f[j].target_pc = prediction.target_pc
  <2>1. j \in 1 .. WAY /\ valid
    BY <1>3 DEF WAY
  <2>2. insts[j] = pc + j - 1 /\ pc + j - 1 \in Nat
    BY <2>1, WordsOfLines DEF valid
  <2>3. prediction.target_pc \in Nat
    BY PredictionTypes
  <2>4. f[j] = [inst |-> insts[j], PC |-> pc + j - 1,
                target_pc |-> IF j \in FS!FirstBranch(insts) THEN prediction.target_pc ELSE 0]
    OBVIOUS
  <2>5. f[j] \in Packet
    BY <2>2, <2>3, <2>4 DEF Packet
  <2>6. insts[j] \in Branches <=> j \in FS!FirstBranch(insts)
    <3>1. CASE FS!FirstBranch(insts) = {}
      BY <3>1, <1>2, <2>1
    <3>2. CASE FS!FirstBranch(insts) # {}
      <4>1. num \in FS!FirstBranch(insts)
        BY <3>2, <1>4, <2>1
      <4>2. insts[num] \in Branches /\ \A i \in 1 .. num - 1 : insts[i] \notin Branches
        BY <4>1 DEF FS!FirstBranch
      <4>3. j = num \/ j \in 1 .. num - 1
        BY <1>3 DEF WAY
      <4>4. j \in FS!FirstBranch(insts) => j = num
        BY <4>1, <1>2
      <4> HIDE DEF insts
      <4>5. CASE j = num
        BY <4>1, <4>2, <4>5
      <4>6. CASE j \in 1 .. num - 1
        BY <4>2, <4>4, <4>6, <1>3
      <4> QED BY <4>3, <4>5, <4>6
    <3> QED BY <3>1, <3>2
  <2>7. j \in FS!FirstBranch(insts) => j = num
    BY <1>2, <1>4, <2>1
  <2> HIDE DEF f
  <2> QED BY <2>2, <2>4, <2>5, <2>6, <2>7
<1> HIDE DEF f
<1> QED BY <1>1, <1>3, <1>5, <1>6 DEF valid

\* Fetch goes on behind what the buffer takes.
LEMMA PcFollows ==
    ASSUME CacheInv, pc \in Nat, NEW prediction \in AnyPrediction,
           NEW m \in 0 .. Len(Offered(prediction))
    PROVE  FS!pc_next(IC!Icache_valid_out(pc), insts, prediction, m) =
              IF m = 0 THEN pc ELSE Successor(Offered(prediction)[m])
<1> DEFINE valid == IC!Icache_valid_out(pc)
           branch == IF valid THEN FS!FirstBranch(insts) ELSE {}
           behind == pc + m
           next == FS!pc_next(valid, insts, prediction, m)
           f == Offered(prediction)
<1>1. /\ Len(f) \in 0 .. WAY
      /\ Len(f) # 0 => valid
      /\ \A j \in 1 .. Len(f) :
            /\ f[j].PC = pc + j - 1
            /\ f[j].inst \in Branches <=> j \in FS!FirstBranch(insts)
            /\ j \in FS!FirstBranch(insts) =>
                  j = Len(f) /\ f[j].target_pc = prediction.target_pc
  BY OfferedPackets
<1>2. /\ FS!FirstBranch(insts) \subseteq 1 .. WAY
      /\ \A j, k \in FS!FirstBranch(insts) : j = k
  BY FirstBranchIsOne
<1>3. /\ prediction.taken \in BOOLEAN
      /\ \A k \in FS!FirstBranch(insts) : ~prediction.taken => prediction.target_pc = pc + k
  BY PredictionTypes
<1>4. m \in Nat /\ m <= Len(f)
  BY <1>1
<1>5. \A k \in branch : k \in Nat /\ FS!pc_find(k) = pc + k - 1
  BY <1>2 DEF FS!pc_find, WAY
<1>6. \A k \in branch : k < m => FALSE
  <2> SUFFICES ASSUME NEW k \in branch, k < m PROVE FALSE
    OBVIOUS
  <2>1. k \in 1 .. Len(f) /\ k \in FS!FirstBranch(insts)
    BY <1>1, <1>2, <1>4 DEF WAY
  <2>2. k = Len(f)
    BY <1>1, <2>1
  <2> QED BY <2>2, <1>1, <1>4
<1>7. next = CASE prediction.taken /\ (\E k \in branch : FS!pc_find(k) < behind) -> prediction.target_pc
               [] ~prediction.taken /\ (\E k \in branch : FS!pc_find(k) + 1 < behind) ->
                     FS!pc_find(CHOOSE k \in branch : TRUE) + 1
               [] OTHER -> behind
  BY DEF FS!pc_next
<1>8. ~\E k \in branch : FS!pc_find(k) + 1 < behind
  BY <1>4, <1>5, <1>6
<1>9. (\E k \in branch : FS!pc_find(k) < behind) <=> m \in branch
  <2>1. ASSUME NEW k \in branch, FS!pc_find(k) < behind PROVE m \in branch
    <3>1. k <= m
      BY <1>4, <1>5, <2>1
    <3>2. k = m
      BY <1>4, <1>5, <1>6, <3>1
    <3> QED BY <3>2
  <2>2. ASSUME m \in branch PROVE \E k \in branch : FS!pc_find(k) < behind
    BY <1>4, <1>5, <2>2
  <2> HIDE DEF branch, behind
  <2> QED BY <2>1, <2>2
<1>10. next = IF prediction.taken /\ m \in branch THEN prediction.target_pc ELSE behind
  <2> HIDE DEF next, branch, behind
  <2> QED BY <1>7, <1>8, <1>9
<1> HIDE DEF next, f
<1>11. CASE m = 0
  <2>1. m \notin branch
    BY <1>2, <1>11 DEF WAY
  <2> QED BY <1>10, <1>11, <2>1 DEF next
<1>12. CASE m # 0
  <2>1. m \in 1 .. Len(f) /\ valid
    BY <1>1, <1>4, <1>12
  <2>2. m \in branch <=> f[m].inst \in Branches
    BY <1>1, <2>1
  <2>3. CASE m \in branch
    <3>1. Successor(f[m]) = prediction.target_pc
      BY <1>1, <2>1, <2>2, <2>3 DEF Successor
    <3>2. ~prediction.taken => prediction.target_pc = behind
      BY <1>3, <2>1, <2>3
    <3> QED BY <1>2, <1>10, <1>12, <2>3, <3>1, <3>2 DEF next, f
  <2>4. CASE m \notin branch
    <3>1. Successor(f[m]) = behind
      BY <1>1, <1>4, <2>1, <2>2, <2>4 DEF Successor
    <3> QED BY <1>2, <1>10, <1>12, <2>4, <3>1 DEF next, f
  <2> QED BY <2>3, <2>4
<1> QED BY <1>11, <1>12

-----------------------------------------------------------------------------
(* Fetch and the buffer together.                                           *)

\* Types of pc, restart target and buffer.
StreamTypes ==
    /\ pc \in Nat
    /\ rewind_target_PC \in Nat
    /\ RingTypes
    /\ queue \in [IB!Slot -> Packet]

\* Each place of the buffer holds the word of its address.
EntriesExact == \A i \in IB!Slot : queue[i].inst = queue[i].PC

\* The d-th instruction in the buffer, from 0.
Entry(d) == queue[IB!Wrap(head + d)]

\* PredictedPath, while there is no restart.
Path ==
    /\ \A d \in 0 .. Count - 1 :
          Entry(d).PC = IF d = 0 THEN expected ELSE Successor(Entry(d - 1))
    /\ pc = IF Count = 0 THEN expected ELSE Successor(Entry(Count - 1))

\* While the ROB restarts fetch it takes nothing, and expects the target.
Restart ==
    /\ fetch_flush \in BOOLEAN
    /\ has_rewind \in BOOLEAN
    /\ fetch_flush => has_rewind /\ expected = rewind_target_PC
    /\ ~fetch_flush => Path

(***************************************************************************)
(* The inductive invariant.                                                 *)
(***************************************************************************)
FrontEndInv == CacheInv /\ StreamTypes /\ EntriesExact /\ Restart

\* A cycle of fetch and the buffer with its answers named.
Streams(n, prediction, m) ==
    /\ prediction \in AnyPrediction
    /\ m \in IB!NumTaken(Offered(prediction), n)
    /\ IB!InstBuffCycle(n, Offered(prediction), m, fetch_flush)
    /\ FS!FetchCycle(FS!pc_next(IC!Icache_valid_out(pc), insts, prediction, m),
                     fetch_flush, rewind_target_PC)

\* A cycle of fetch and buffer has a prediction and a number taken.
LEMMA StreamsCycle ==
    ASSUME NEW n, StreamCycle(n)
    PROVE  \E prediction, m : Streams(n, prediction, m)
BY DEF StreamCycle, Streams, Offered

\* What the buffer takes and gives is no more than it has room for and holds.
LEMMA StreamRanges ==
    ASSUME CacheInv, StreamTypes, NEW n \in 0 .. Count, NEW prediction, NEW m,
           Streams(n, prediction, m)
    PROVE  /\ Len(Offered(prediction)) \in Nat
           /\ m \in 0 .. Len(Offered(prediction))
           /\ m <= SIZE - (Count - n)
<1>1. Len(Offered(prediction)) \in Nat
  BY OfferedPackets DEF Streams, StreamTypes, WAY
<1> QED BY <1>1, TakenRange DEF Streams, StreamTypes

\* Types, and the word in each entry.
LEMMA StreamTypesPreserved ==
    ASSUME CacheInv, StreamTypes, EntriesExact, NEW n \in 0 .. Count,
           NEW prediction, NEW m, Streams(n, prediction, m)
    PROVE  /\ pc' \in Nat
           /\ RingTypes'
           /\ queue' \in [IB!Slot -> Packet]
           /\ EntriesExact'
<1> DEFINE f == Offered(prediction)
<1>1. /\ Len(f) \in Nat /\ m \in 0 .. Len(f) /\ m <= SIZE - (Count - n)
  BY StreamRanges
<1>2. \A j \in 1 .. Len(f) :
         f[j] \in Packet /\ f[j].PC = pc + j - 1 /\ f[j].inst = pc + j - 1
  BY OfferedPackets DEF Streams, StreamTypes
<1>3. pc' \in Nat
  <2>1. FS!pc_next(IC!Icache_valid_out(pc), insts, prediction, m) \in Nat
    <3>1. FS!pc_next(IC!Icache_valid_out(pc), insts, prediction, m) =
             IF m = 0 THEN pc ELSE Successor(f[m])
      BY <1>1, PcFollows DEF Streams, StreamTypes
    <3>2. CASE m = 0
      BY <3>1, <3>2 DEF StreamTypes
    <3>3. CASE m # 0
      <4>1. f[m] \in Packet
        BY <1>1, <1>2, <3>3
      <4>2. Successor(f[m]) \in Nat
        BY <4>1 DEF Successor, Packet
      <4> QED BY <3>1, <3>3, <4>2
    <3> QED BY <3>2, <3>3
  <2> QED BY <2>1 DEF Streams, FS!FetchCycle, StreamTypes
<1>4. CASE fetch_flush
  <2>1. /\ queue' = [i \in IB!Slot |-> NoPacket]
        /\ head' = 0 /\ tail' = SIZE - 1 /\ is_empty' = TRUE
    BY <1>4 DEF Streams, IB!InstBuffCycle
  <2>2. RingTypes'
    BY <2>1, FrontEndAssumption DEF RingTypes, IB!Slot, IB!Wrap
  <2>3. queue' \in [IB!Slot -> Packet] /\ EntriesExact'
    BY <2>1 DEF EntriesExact, NoPacket, Packet, IB!Slot
  <2> QED BY <1>3, <2>2, <2>3
<1>5. CASE ~fetch_flush
  <2>1. IB!InstBuffCycle(n, f, m, FALSE)
    BY <1>5 DEF Streams, IB!InstBuffCycle
  <2>2. RingTypes'
    BY <1>1, <2>1, BufferAfter DEF StreamTypes
  <2> DEFINE K(i) == {j \in 1 .. m : IB!Wrap(tail + j) = i}
             entry(i) == IF K(i) # {} THEN f[CHOOSE j \in K(i) : TRUE]
                         ELSE IF \E d \in 0 .. n - 1 : IB!Wrap(head + d) = i THEN NoPacket
                         ELSE queue[i]
  <2>3. queue' = [i \in IB!Slot |-> entry(i)]
    BY <2>1 DEF IB!InstBuffCycle
  <2>4. ASSUME NEW i \in IB!Slot
        PROVE  entry(i) \in Packet /\ entry(i).inst = entry(i).PC
    <3>1. CASE K(i) # {}
      <4>1. PICK j \in 1 .. m : entry(i) = f[j]
        BY <3>1
      <4>2. j \in 1 .. Len(f)
        BY <1>1, <4>1
      <4> QED BY <4>1, <4>2, <1>2
    <3>2. CASE K(i) = {} /\ \E d \in 0 .. n - 1 : IB!Wrap(head + d) = i
      <4>1. entry(i) = NoPacket
        BY <3>2
      <4> QED BY <4>1 DEF NoPacket, Packet
    <3>3. CASE K(i) = {} /\ ~\E d \in 0 .. n - 1 : IB!Wrap(head + d) = i
      <4>1. entry(i) = queue[i]
        BY <3>3
      <4> QED BY <4>1 DEF StreamTypes, EntriesExact
    <3> QED BY <3>1, <3>2, <3>3
  <2> HIDE DEF entry
  <2>5. queue' \in [IB!Slot -> Packet] /\ EntriesExact'
    BY <2>3, <2>4 DEF EntriesExact, IB!Slot
  <2> QED BY <1>3, <2>2, <2>5
<1> QED BY <1>4, <1>5

\* After a restart the path starts at its target.
LEMMA PathRestarts ==
    ASSUME fetch_flush, NEW n, NEW prediction, NEW m, Streams(n, prediction, m),
           expected' = rewind_target_PC
    PROVE  Path'
<1>1. pc' = rewind_target_PC /\ is_empty'
  BY DEF Streams, FS!FetchCycle, IB!InstBuffCycle
<1>2. Count' = 0
  BY <1>1 DEF Count
<1> QED BY <1>1, <1>2 DEF Path

\* Otherwise it goes on where it was.
LEMMA PathGoesOn ==
    ASSUME CacheInv, StreamTypes, Path, ~fetch_flush, NEW n \in 0 .. Count,
           NEW prediction, NEW m, Streams(n, prediction, m),
           expected' = ExpectedNext(n)
    PROVE  Path'
<1> DEFINE f == Offered(prediction)
           c == Count - n
<1>1. /\ Len(f) \in Nat /\ m \in 0 .. Len(f) /\ m <= SIZE - (Count - n)
  BY StreamRanges
<1>2. /\ Count \in 0 .. SIZE /\ c \in 0 .. SIZE /\ m \in Nat /\ head \in Nat /\ n \in Nat
  BY <1>1, CountRange, FrontEndAssumption DEF StreamTypes, RingTypes, IB!Slot
<1>3. \A j \in 1 .. Len(f) :
         /\ f[j] \in Packet /\ f[j].PC = pc + j - 1
         /\ j < Len(f) => Successor(f[j]) = pc + j
  <2> SUFFICES ASSUME NEW j \in 1 .. Len(f)
               PROVE  /\ f[j] \in Packet /\ f[j].PC = pc + j - 1
                      /\ j < Len(f) => Successor(f[j]) = pc + j
    OBVIOUS
  <2>1. /\ f[j] \in Packet /\ f[j].PC = pc + j - 1
        /\ f[j].inst \in Branches => j = Len(f)
    BY OfferedPackets DEF Streams, StreamTypes
  <2>2. j < Len(f) => f[j].inst \notin Branches
    BY <1>1, <2>1
  <2>3. pc \in Nat
    BY DEF StreamTypes
  <2> QED BY <2>1, <2>2, <2>3, <1>1 DEF Successor
<1>4. IB!InstBuffCycle(n, f, m, FALSE)
  BY DEF Streams, IB!InstBuffCycle
<1>5. /\ Count' = c + m
      /\ \A d \in 0 .. c + m - 1 :
            Entry(d)' = IF d < c THEN Entry(n + d) ELSE f[d - c + 1]
  BY <1>1, <1>4, BufferAfter DEF StreamTypes, Entry, IB!Wrap
<1>6. pc' = IF m = 0 THEN pc ELSE Successor(f[m])
  BY <1>1, PcFollows DEF Streams, StreamTypes, FS!FetchCycle
<1>7. /\ \A d \in 0 .. Count - 1 :
            Entry(d).PC = IF d = 0 THEN expected ELSE Successor(Entry(d - 1))
      /\ pc = IF Count = 0 THEN expected ELSE Successor(Entry(Count - 1))
  BY DEF Path
<1>8. expected' = IF n = 0 THEN expected ELSE Successor(Entry(n - 1))
  BY DEF ExpectedNext, IB!At, Entry
<1>13. Count - 1 \in Int /\ Entry(Count - 1)' = queue'[IB!Wrap(head' + (Count' - 1))]
  BY <1>2 DEF Entry, IB!Wrap
<1> DEFINE after(d) == queue'[IB!Wrap(head' + d)]
<1>14. \A d \in 0 .. c + m - 1 :
            after(d) = IF d < c THEN Entry(n + d) ELSE f[d - c + 1]
  BY <1>5 DEF Entry, IB!Wrap
<1> HIDE DEF f, c, after
<1>9. pc = IF c = 0 THEN expected' ELSE Successor(Entry(Count - 1))
  BY <1>2, <1>7, <1>8 DEF c
<1>10. ASSUME NEW d \in 0 .. c + m - 1
       PROVE  after(d).PC = IF d = 0 THEN expected' ELSE Successor(after(d - 1))
  <2>1. CASE d < c
    <3>1. n + d \in 0 .. Count - 1 /\ after(d) = Entry(n + d)
      BY <1>2, <1>14, <2>1 DEF c
    <3>2. CASE d = 0
      BY <1>2, <1>7, <1>8, <3>1, <3>2
    <3>3. CASE d # 0
      <4>1. d - 1 \in 0 .. c + m - 1 /\ d - 1 < c /\ n + (d - 1) = (n + d) - 1 /\ n + d # 0
        BY <1>2, <2>1, <3>3
      <4>2. after(d - 1) = Entry((n + d) - 1)
        BY <1>14, <4>1
      <4>3. Entry(n + d).PC = Successor(Entry((n + d) - 1))
        BY <1>7, <3>1, <4>1
      <4> QED BY <3>1, <3>3, <4>2, <4>3
    <3> QED BY <3>2, <3>3
  <2>2. CASE d = c
    <3>1. 1 \in 1 .. Len(f) /\ after(d) = f[1]
      BY <1>1, <1>2, <1>14, <2>2
    <3>2. pc \in Nat
      BY DEF StreamTypes
    <3>3. f[1].PC = pc
      BY <1>3, <3>1, <3>2
    <3>4. CASE c = 0
      BY <1>9, <2>2, <3>1, <3>3, <3>4
    <3>5. CASE c # 0
      <4>1. d - 1 \in 0 .. c + m - 1 /\ d - 1 < c /\ n + (d - 1) = Count - 1 /\ d # 0
        BY <1>2, <2>2, <3>5 DEF c
      <4>2. after(d - 1) = Entry(Count - 1)
        BY <1>14, <4>1
      <4> QED BY <1>9, <3>1, <3>3, <3>5, <4>1, <4>2
    <3> QED BY <3>4, <3>5
  <2>3. CASE d > c
    <3> DEFINE j == d - c
    <3>1. j \in 1 .. Len(f) /\ j + 1 \in 1 .. Len(f) /\ j < Len(f)
      BY <1>1, <1>2, <2>3
    <3>2. /\ d - 1 \in 0 .. c + m - 1 /\ ~(d - 1 < c) /\ ~(d < c) /\ d # 0
          /\ (d - 1) - c + 1 = j /\ d - c + 1 = j + 1
      BY <1>2, <2>3
    <3>3. after(d) = f[j + 1] /\ after(d - 1) = f[j]
      BY <1>14, <3>2
    <3>4. f[j + 1].PC = pc + (j + 1) - 1 /\ Successor(f[j]) = pc + j
      BY <1>3, <3>1
    <3>5. pc + (j + 1) - 1 = pc + j
      BY <3>1 DEF StreamTypes
    <3> QED BY <3>2, <3>3, <3>4, <3>5
  <2> QED BY <1>2, <2>1, <2>2, <2>3
<1>11. pc' = IF c + m = 0 THEN expected' ELSE Successor(after(c + m - 1))
  <2>1. CASE m = 0 /\ c = 0
    BY <1>6, <1>9, <2>1
  <2>2. CASE m = 0 /\ c # 0
    <3>1. /\ c + m - 1 \in 0 .. c + m - 1 /\ c + m - 1 < c /\ n + (c + m - 1) = Count - 1
          /\ c + m # 0
      BY <1>2, <2>2 DEF c
    <3>2. after(c + m - 1) = Entry(Count - 1)
      BY <1>14, <3>1
    <3> QED BY <1>6, <1>9, <2>2, <3>1, <3>2
  <2>3. CASE m # 0
    <3>1. /\ c + m - 1 \in 0 .. c + m - 1 /\ ~(c + m - 1 < c) /\ (c + m - 1) - c + 1 = m
          /\ c + m # 0
      BY <1>2, <2>3
    <3>2. after(c + m - 1) = f[m]
      BY <1>14, <3>1
    <3> QED BY <1>6, <2>3, <3>1, <3>2
  <2> QED BY <2>1, <2>2, <2>3
<1>12. Count' = c + m
  BY <1>5
<1>15. \A d \in 0 .. Count' - 1 : queue'[IB!Wrap(head' + d)].PC =
            IF d = 0 THEN expected' ELSE Successor(queue'[IB!Wrap(head' + (d - 1))])
  BY <1>2, <1>10, <1>12 DEF after
<1>16. pc' = IF Count' = 0 THEN expected'
             ELSE Successor(queue'[IB!Wrap(head' + (Count' - 1))])
  BY <1>2, <1>11, <1>12 DEF after
<1> QED BY <1>15, <1>16 DEF Path, Entry, IB!Wrap, Successor

-----------------------------------------------------------------------------
(* The invariant is inductive.                                              *)

\* The front end starts in its invariant.
LEMMA FrontEndInit == Init => FrontEndInv
<1> SUFFICES ASSUME Init PROVE FrontEndInv
  OBVIOUS
<1>1. CacheInv
  BY CacheInit
<1>2. StreamTypes
  BY FrontEndAssumption
  DEF Init, FS!FetchInit, IB!InstBuffInit, StreamTypes, RingTypes, IB!Slot, IB!Wrap,
      NoPacket, Packet
<1>3. EntriesExact
  BY DEF Init, IB!InstBuffInit, EntriesExact, NoPacket
<1>4. Count = 0 /\ pc = 0 /\ expected = 0
  BY DEF Init, IB!InstBuffInit, FS!FetchInit, Count
<1>5. Path
  BY <1>4 DEF Path
<1> QED BY <1>1, <1>2, <1>3, <1>5 DEF FrontEndInv, Restart, Init

\* Every action is a cycle of fetch and the buffer: what is left to show of one
\* is the path and the restart.
LEMMA StreamInv ==
    ASSUME FrontEndInv, NEW n \in 0 .. Count, CacheCycle, StreamCycle(n),
           rewind_target_PC' \in Nat,
           fetch_flush => expected' = rewind_target_PC,
           ~fetch_flush => expected' = ExpectedNext(n)
    PROVE  CacheInv' /\ StreamTypes' /\ EntriesExact' /\ Path'
<1>1. CacheInv /\ StreamTypes /\ EntriesExact /\ Restart
  BY DEF FrontEndInv
<1>2. PICK prediction, m : Streams(n, prediction, m)
  BY StreamsCycle
<1>3. CacheInv'
  BY <1>1, CachePreserves DEF StreamTypes
<1>4. StreamTypes' /\ EntriesExact'
  <2>1. pc' \in Nat /\ RingTypes' /\ queue' \in [IB!Slot -> Packet] /\ EntriesExact'
    BY <1>1, <1>2, StreamTypesPreserved
  <2> QED BY <2>1 DEF StreamTypes, IB!Slot
<1>5. CASE fetch_flush
  BY <1>2, <1>3, <1>4, <1>5, PathRestarts
<1>6. CASE ~fetch_flush
  <2>1. Path
    BY <1>1, <1>6 DEF Restart
  <2>2. Path'
    BY <1>1, <1>2, <1>6, <2>1, PathGoesOn
  <2> QED BY <1>3, <1>4, <2>2
<1> QED BY <1>5, <1>6

\* Every clock cycle keeps the invariant.
LEMMA FrontEndStep == FrontEndInv /\ [Next]_vars => FrontEndInv'
<1> SUFFICES ASSUME FrontEndInv, [Next]_vars PROVE FrontEndInv'
  OBVIOUS
<1>1. CacheInv /\ StreamTypes /\ EntriesExact /\ Restart
  BY DEF FrontEndInv
<1>2. Count \in 0 .. SIZE /\ 0 \in 0 .. Count /\ ExpectedNext(0) = expected
  <2>1. Count \in 0 .. SIZE
    BY <1>1, CountRange DEF StreamTypes
  <2> QED BY <2>1, FrontEndAssumption DEF ExpectedNext
<1>3. CASE Dispatch
  <2>1. PICK n \in Given : /\ CacheCycle /\ StreamCycle(n)
                          /\ expected' = ExpectedNext(n)
                          /\ has_rewind' \in {FALSE, n > 0}
    BY <1>3 DEF Dispatch
  <2>2. n \in 0 .. Count
    BY <1>1, <2>1, GivenRange DEF StreamTypes
  <2>3. ~fetch_flush /\ fetch_flush' = FALSE /\ rewind_target_PC' \in Nat
    BY <1>1, <1>3 DEF Dispatch, Restart
  <2>4. CacheInv' /\ StreamTypes' /\ EntriesExact' /\ Path'
    BY <2>1, <2>2, <2>3, StreamInv
  <2>5. has_rewind' \in BOOLEAN
    <3>1. (n > 0) \in BOOLEAN
      BY <2>2
    <3>2. has_rewind' = FALSE \/ has_rewind' = (n > 0)
      BY <2>1, Zenon
    <3> QED BY <3>1, <3>2, Zenon
  <2> QED BY <2>3, <2>4, <2>5 DEF FrontEndInv, Restart
<1>4. CASE Blocked
  <2>1. /\ CacheCycle /\ StreamCycle(0) /\ expected' = expected
        /\ fetch_flush' = FALSE /\ rewind_target_PC' = 0 /\ has_rewind' \in BOOLEAN
    BY <1>4 DEF Blocked
  <2>2. fetch_flush => expected' = rewind_target_PC
    BY <1>1, <2>1 DEF Restart
  <2>3. CacheInv' /\ StreamTypes' /\ EntriesExact' /\ Path'
    BY <1>2, <2>1, <2>2, StreamInv
  <2> QED BY <2>1, <2>3 DEF FrontEndInv, Restart
<1>5. CASE Mispredict
  <2>1. /\ CacheCycle /\ StreamCycle(0)
        /\ fetch_flush' = TRUE /\ has_rewind' = TRUE
        /\ expected' = rewind_target_PC' /\ rewind_target_PC' \in Nat
    BY <1>5, FrontEndAssumption DEF Mispredict
  <2>2. PICK prediction, m : Streams(0, prediction, m)
    BY <2>1, StreamsCycle
  <2>3. CacheInv'
    BY <1>1, <2>1, CachePreserves DEF StreamTypes
  <2>4. pc' \in Nat /\ RingTypes' /\ queue' \in [IB!Slot -> Packet] /\ EntriesExact'
    BY <1>1, <1>2, <2>2, StreamTypesPreserved
  <2> QED BY <2>1, <2>3, <2>4 DEF FrontEndInv, Restart, StreamTypes, IB!Slot
<1>6. CASE UNCHANGED vars
  <2>1. CacheInv'
    BY <1>1, <1>6
    DEF vars, CacheInv, CacheTypes, LinesExact, WaitsExact
  <2>2. StreamTypes' /\ EntriesExact'
    BY <1>1, <1>6
    DEF vars, StreamTypes, RingTypes, EntriesExact, IB!Slot, IB!Wrap
  <2>3. Count' = Count
    BY <1>6 DEF vars, Count
  <2>4. Path' <=> Path
    BY <1>6, <2>3 DEF vars, Path, Entry, IB!Wrap
  <2>5. Restart'
    BY <1>1, <1>6, <2>4 DEF vars, Restart
  <2> QED BY <2>1, <2>2, <2>5 DEF FrontEndInv
<1> QED BY <1>3, <1>4, <1>5, <1>6 DEF Next

\* So it always holds.
LEMMA FrontEndIsInductive == Spec => []FrontEndInv
BY FrontEndInit, FrontEndStep, PTL DEF Spec

\* The instructions of the buffer are its entries.
LEMMA BufferedEntries ==
    ASSUME StreamTypes
    PROVE  /\ Count \in 0 .. SIZE
           /\ Len(Buffered) = Count
           /\ DOMAIN Buffered = 1 .. Count
           /\ \A d \in 1 .. Count : Buffered[d] = Entry(d - 1)
<1>1. Count \in 0 .. SIZE
  BY CountRange DEF StreamTypes
<1>2. Buffered = [d \in 1 .. Count |-> Entry(d - 1)]
  BY DEF Buffered, Count, Entry, IB!At
<1> HIDE DEF Buffered, Count, Entry
<1>3. Count \in Nat
  BY <1>1, FrontEndAssumption
<1>4. DOMAIN Buffered = 1 .. Count
  BY <1>2
<1>5. Len(Buffered) = Count
  BY <1>2, <1>3
<1> QED BY <1>1, <1>2, <1>4, <1>5

-----------------------------------------------------------------------------

\* Dispatch gets the instructions of one predicted path, each once and in
\* order, and fetch goes on at its end, for every size of the buffer and every
\* program: whatever the instruction buffer refuses fetch asks for again, and a
\* restart leaves nothing of the wrong path (fetch_stage.sv:50-86,
\* inst_buff.sv:40-86, rob.sv:277-284).
THEOREM FetchedPath == Spec => []PredictedPath
<1>1. FrontEndInv => PredictedPath
  <2> SUFFICES ASSUME FrontEndInv, ~fetch_flush PROVE PredictedPath
    BY DEF PredictedPath
  <2>1. StreamTypes /\ Path
    BY DEF FrontEndInv, Restart
  <2>2. /\ Count \in 0 .. SIZE /\ Len(Buffered) = Count
        /\ \A d \in 1 .. Count : Buffered[d] = Entry(d - 1)
    BY <2>1, BufferedEntries
  <2>3. Count \in Nat
    BY <2>2, FrontEndAssumption
  <2>4. ASSUME NEW d \in 1 .. Count
        PROVE  Buffered[d].PC = IF d = 1 THEN expected ELSE Successor(Buffered[d - 1])
    <3>1. d - 1 \in 0 .. Count - 1 /\ Buffered[d] = Entry(d - 1)
      BY <2>2, <2>3
    <3>2. Entry(d - 1).PC =
             IF d - 1 = 0 THEN expected ELSE Successor(Entry((d - 1) - 1))
      BY <2>1, <3>1 DEF Path
    <3>3. CASE d = 1
      BY <3>1, <3>2, <3>3
    <3>4. CASE d # 1
      <4>1. d - 1 \in 1 .. Count /\ d - 1 # 0
        BY <2>3, <3>4
      <4>2. Buffered[d - 1] = Entry((d - 1) - 1)
        BY <2>2, <4>1
      <4> QED BY <3>1, <3>2, <3>4, <4>1, <4>2
    <3> QED BY <3>3, <3>4
  <2>5. pc = IF Count = 0 THEN expected ELSE Successor(Buffered[Count])
    <3>1. pc = IF Count = 0 THEN expected ELSE Successor(Entry(Count - 1))
      BY <2>1 DEF Path
    <3>2. Count # 0 => Buffered[Count] = Entry(Count - 1)
      BY <2>2, <2>3
    <3> QED BY <3>1, <3>2
  <2> QED BY <2>2, <2>4, <2>5 DEF PredictedPath
<1> QED BY <1>1, FrontEndIsInductive, PTL

\* No instruction reaches dispatch under the address of another, and no line of
\* the instruction cache holds another block than its own: the answer to a miss
\* that was given up is never taken for that of a later one, however memory
\* uses its tags again (bank_icache.sv:45-88, 184-236).
THEOREM FetchedWords == Spec => []FetchedWordsExact
<1>1. FrontEndInv => FetchedWordsExact
  <2> SUFFICES ASSUME FrontEndInv PROVE FetchedWordsExact
    OBVIOUS
  <2>1. CacheInv /\ StreamTypes /\ EntriesExact
    BY DEF FrontEndInv
  <2>2. \A bank \in IC!Bank, i \in IC!Index :
           icache_data[bank][i].valids =>
              icache_data[bank][i].data = icache_data[bank][i].tags
    BY <2>1 DEF CacheInv, LinesExact
  <2>3. ASSUME NEW d \in DOMAIN Buffered PROVE Buffered[d].inst = Buffered[d].PC
    <3>1. d \in 1 .. Count /\ Count \in 0 .. SIZE /\ Buffered[d] = Entry(d - 1)
      BY <2>1, BufferedEntries
    <3>2. head + (d - 1) \in Nat
      BY <2>1, <3>1, FrontEndAssumption DEF StreamTypes, RingTypes, IB!Slot
    <3>3. IB!Wrap(head + (d - 1)) \in IB!Slot
      BY <3>2, WrapType
    <3> QED BY <2>1, <3>1, <3>3 DEF EntriesExact, Entry
  <2> QED BY <2>2, <2>3 DEF FetchedWordsExact
<1> QED BY <1>1, FrontEndIsInductive, PTL

-----------------------------------------------------------------------------
(* The types.  Addresses that the caches ask for may lie behind the program, *)
(* those of the words that they hold may not.                                *)

\* What a line holds, what memory owes and what the buffer holds is part of the
\* program.
InMemory ==
    /\ \A bank \in IC!Bank, i \in IC!Index :
          icache_data[bank][i].valids => icache_data[bank][i].data \in Block
    /\ last \in [IC!Bank -> Nat \cup {IC!NoBlock}]
    /\ miss_outstanding \in [IC!Bank -> BOOLEAN]
    /\ pending \in [Tag -> Block \cup {Free, Other}]
    /\ \A i \in IB!Slot : queue[i].PC \in Word
    /\ rewind_target_PC \in Word

\* A cache takes blocks from memory, and asks only for those it has.
LEMMA CacheInMemory ==
    ASSUME FrontEndInv, InMemory, CacheCycle
    PROVE  /\ \A bank \in IC!Bank, i \in IC!Index :
                 icache_data'[bank][i].valids => icache_data'[bank][i].data \in Block
           /\ last' \in [IC!Bank -> Nat \cup {IC!NoBlock}]
           /\ miss_outstanding' \in [IC!Bank -> BOOLEAN]
           /\ pending' \in [Tag -> Block \cup {Free, Other}]
<1>1. PICK response \in Responses, mem_tag \in Answers :
        \E other \in OtherTags(response), mem_data \in Block :
            /\ IC!ICacheCycle(pc, response, mem_tag, mem_data)
            /\ pending' = PendingNext(response, other, mem_tag)
  BY DEF CacheCycle
<1>2. PICK other \in OtherTags(response), mem_data \in Block :
        /\ IC!ICacheCycle(pc, response, mem_tag, mem_data)
        /\ pending' = PendingNext(response, other, mem_tag)
  BY <1>1
<1>3. pc \in Nat /\ CacheTypes
  BY DEF FrontEndInv, StreamTypes, CacheInv
<1>4. ASSUME NEW bank \in IC!Bank, NEW i \in IC!Index, icache_data'[bank][i].valids
      PROVE  icache_data'[bank][i].data \in Block
  <2>1. \/ icache_data'[bank][i].data = mem_data
        \/ icache_data'[bank][i] = icache_data[bank][i]
    BY <1>2 DEF IC!ICacheCycle
  <2> QED BY <1>4, <2>1 DEF InMemory
<1>5. last' \in [IC!Bank -> Nat \cup {IC!NoBlock}]
  BY <1>2, <1>3, AddrTypes DEF IC!ICacheCycle
<1>6. miss_outstanding' \in [IC!Bank -> BOOLEAN]
  <2>1. \A bank \in IC!Bank : miss_outstanding[bank] \in BOOLEAN
    BY DEF InMemory
  <2>2. \A bank \in IC!Bank : IC!unanswered_miss(bank, pc, response) \in BOOLEAN
    BY <2>1, Zenon DEF IC!unanswered_miss, IC!cache_valid_out, IC!changed_addr
  <2> QED BY <1>2, <2>2 DEF IC!ICacheCycle
<1>7. pending' \in [Tag -> Block \cup {Free, Other}]
  <2>1. response \in Tag => IC!Icache2Imem_addr(pc) \in Block
    BY FrontEndAssumption DEF Responses, Asks
  <2>2. \A k \in Tag : pending[k] \in Block \cup {Free, Other}
    BY DEF InMemory
  <2> QED BY <1>2, <2>1, <2>2 DEF PendingNext
<1> QED BY <1>4, <1>5, <1>6, <1>7

\* The words of a group are part of the program when both lines are valid.
LEMMA OfferedWords ==
    ASSUME FrontEndInv, InMemory, NEW prediction \in AnyPrediction,
           NEW j \in 1 .. Len(Offered(prediction))
    PROVE  Offered(prediction)[j].PC \in Word
<1> DEFINE w == pc + j - 1
           bank == IC!BlockOf(w) % 2
           line == IC!LineFor(bank, pc)
<1>1. CacheInv /\ pc \in Nat
  BY DEF FrontEndInv, StreamTypes
<1>2. /\ Len(Offered(prediction)) \in 0 .. WAY
      /\ Len(Offered(prediction)) # 0 => IC!Icache_valid_out(pc)
      /\ Offered(prediction)[j].PC = w
  BY <1>1, OfferedPackets
<1>3. j \in 1 .. WAY /\ IC!Icache_valid_out(pc)
  BY <1>2 DEF WAY
<1>4. /\ bank \in IC!Bank
      /\ IC!cache_addr(bank, pc) = IC!BlockOf(w)
      /\ 2 * IC!BlockOf(w) + (w % 2) = w
  BY <1>1, <1>3, BlockOfWord
<1>5. IC!IndexOf(IC!cache_addr(bank, pc)) \in IC!Index
  BY <1>1, <1>4, AddrTypes
<1>6. line.valids /\ line.tags = IC!BlockOf(w)
  BY <1>3, <1>4 DEF IC!Icache_valid_out, IC!cache_valid_out
<1>7. line.data = line.tags /\ line.data \in Block
  BY <1>1, <1>4, <1>5, <1>6 DEF CacheInv, LinesExact, IC!LineFor, InMemory
<1>8. IC!BlockOf(w) \in Block
  BY <1>6, <1>7
<1>9. w \in Nat
  BY <1>1, <1>3 DEF WAY
<1> HIDE DEF w
<1>10. w \in Word
  BY <1>4, <1>8, <1>9, FrontEndAssumption DEF Block, Word
<1> QED BY <1>2, <1>10

\* The buffer takes words of the program from fetch.
LEMMA QueueInMemory ==
    ASSUME FrontEndInv, InMemory, NEW n \in 0 .. Count, StreamCycle(n)
    PROVE  \A i \in IB!Slot : queue'[i].PC \in Word
<1>1. PICK prediction, m : Streams(n, prediction, m)
  BY StreamsCycle
<1> DEFINE f == Offered(prediction)
<1>2. Len(f) \in Nat /\ m \in 0 .. Len(f)
  BY <1>1, StreamRanges DEF FrontEndInv
<1>3. \A j \in 1 .. Len(f) : f[j].PC \in Word
  BY <1>1, OfferedWords DEF Streams
<1>4. NoPacket.PC \in Word
  BY FrontEndAssumption DEF NoPacket, Word
<1>5. ASSUME NEW i \in IB!Slot
      PROVE  \/ queue'[i] = NoPacket
             \/ queue'[i] = queue[i]
             \/ \E j \in 1 .. Len(f) : queue'[i] = f[j]
  <2> DEFINE K == {j \in 1 .. m : IB!Wrap(tail + j) = i}
  <2>1. CASE fetch_flush
    BY <1>1, <2>1 DEF Streams, IB!InstBuffCycle
  <2>2. CASE ~fetch_flush
    <3>1. queue'[i] = IF K # {} THEN f[CHOOSE j \in K : TRUE]
                      ELSE IF \E d \in 0 .. n - 1 : IB!Wrap(head + d) = i THEN NoPacket
                      ELSE queue[i]
      BY <1>1, <2>2 DEF Streams, IB!InstBuffCycle
    <3>2. K # {} => (CHOOSE j \in K : TRUE) \in 1 .. Len(f)
      <4>1. K \subseteq 1 .. Len(f)
        BY <1>2
      <4> HIDE DEF K
      <4> QED BY <4>1
    <3> HIDE DEF K, f
    <3> QED BY <3>1, <3>2
  <2> QED BY <2>1, <2>2
<1> HIDE DEF f
<1> QED BY <1>3, <1>4, <1>5 DEF InMemory

\* Nothing but the program gets into caches, buffer and memory bus.
LEMMA AlwaysInMemory == Spec => []InMemory
<1>1. Init => InMemory
  <2> SUFFICES ASSUME Init PROVE InMemory
    OBVIOUS
  <2> USE DEF Init, IC!ICacheInit, IB!InstBuffInit
  <2>1. \A bank \in IC!Bank, i \in IC!Index : ~icache_data[bank][i].valids
    OBVIOUS
  <2>2. /\ last \in [IC!Bank -> Nat \cup {IC!NoBlock}]
        /\ miss_outstanding \in [IC!Bank -> BOOLEAN]
        /\ pending \in [Tag -> Block \cup {Free, Other}]
    OBVIOUS
  <2>3. (\A i \in IB!Slot : queue[i].PC \in Word) /\ rewind_target_PC \in Word
    BY FrontEndAssumption DEF NoPacket, Word
  <2> QED BY <2>1, <2>2, <2>3 DEF InMemory
<1>2. ASSUME FrontEndInv, InMemory, [Next]_vars PROVE InMemory'
  <2>1. CASE UNCHANGED vars
    BY <1>2, <2>1 DEF vars, InMemory, IC!Bank, IC!Index, IB!Slot
  <2>2. CASE Next
    <3>1. 0 \in 0 .. Count /\ Given \subseteq 0 .. Count
      <4>1. StreamTypes
        BY <1>2 DEF FrontEndInv
      <4>2. Count \in 0 .. SIZE /\ \A n \in Given : n \in 0 .. Count
        BY <4>1, CountRange, GivenRange DEF StreamTypes
      <4> QED BY <4>2, FrontEndAssumption
    <3>2. PICK n \in 0 .. Count : CacheCycle /\ StreamCycle(n)
      BY <2>2, <3>1 DEF Next, Dispatch, Blocked, Mispredict
    <3>3. rewind_target_PC' \in Word
      <4>1. rewind_target_PC' = 0 \/ rewind_target_PC' \in Targets
        BY <2>2 DEF Next, Dispatch, Blocked, Mispredict
      <4> QED BY <4>1, FrontEndAssumption DEF Word
    <3> QED BY <1>2, <3>2, <3>3, CacheInMemory, QueueInMemory
            DEF InMemory, IC!Bank, IC!Index, IB!Slot, Word, Block, Free, Other, IC!NoBlock
  <2> QED BY <1>2, <2>1, <2>2
<1> QED BY <1>1, <1>2, FrontEndIsInductive, PTL DEF Spec

\* Everything in front of dispatch is of its type: neither a line nor an
\* instruction nor a request on the bus is from outside of memory, although fetch
\* runs past its end (bank_icache.sv:45-88, fetch_stage.sv:50-86).
THEOREM FrontEndTypes == Spec => []TypeOK
<1>1. FrontEndInv /\ InMemory => TypeOK
  <2> SUFFICES ASSUME FrontEndInv, InMemory PROVE TypeOK
    OBVIOUS
  <2>1. CacheTypes /\ StreamTypes /\ EntriesExact /\ Restart
    BY DEF FrontEndInv, CacheInv
  <2>2. IC!ICacheTypeOK
    BY <2>1 DEF IC!ICacheTypeOK, CacheTypes, InMemory
  <2>3. queue \in [0 .. SIZE - 1 -> [inst : Word, PC : Word, target_pc : Nat]]
    <3>1. queue \in [IB!Slot -> Packet]
      BY <2>1 DEF StreamTypes
    <3>2. ASSUME NEW i \in IB!Slot
          PROVE  queue[i] \in [inst : Word, PC : Word, target_pc : Nat]
      <4>1. queue[i] \in Packet /\ queue[i].inst = queue[i].PC /\ queue[i].PC \in Word
        BY <2>1, <3>1 DEF EntriesExact, InMemory
      <4> HIDE DEF Word
      <4> QED BY <4>1 DEF Packet
    <3> QED BY <3>1, <3>2 DEF IB!Slot
  <2> QED BY <2>1, <2>2, <2>3 DEF TypeOK, StreamTypes, RingTypes, IB!Slot, IB!Wrap, Restart, InMemory
<1> QED BY <1>1, FrontEndIsInductive, AlwaysInMemory, PTL
=============================================================================
