----------------------------- MODULE FlatMemory -----------------------------
(***************************************************************************)
(* What the load and store path promises: one memory and the loads and       *)
(* stores in flight in program order.  A load is answered with what the       *)
(* older stores in flight leave in memory; stores enter memory one by one, in *)
(* program order, each once.  There is no queue, no cache and no bus here.   *)
(***************************************************************************)
EXTENDS LineData, Sequences

CONSTANTS
    WAY,        \* most operations that enter in one step
    NoValue     \* the value of what has not been answered

VARIABLES
    memory,     \* the lines
    window      \* the operations in flight, oldest first

vars == <<memory, window>>

\* The lines after the first k operations of the window.
After[k \in 0 .. Len(window)] ==
    IF k = 0 THEN memory
    ELSE LET o == window[k] IN
         IF o.rw = "read" THEN After[k - 1]
         ELSE [After[k - 1] EXCEPT
                  ![o.addr.line] = combine_store(o.func, o.addr, @, o.data)]

\* What load k has to return.
Answer(k) ==
    LET o == window[k] IN Extract(o.func, o.addr, After[k - 1][o.addr.line])

Stores(n) == {k \in 1 .. n : window[k].rw = "write"}

\* The first n operations leave, some loads are answered, and new ones enter.
Step(n) ==
    LET left == Len(window) - n IN
    /\ \A k, l \in Stores(n) : k = l
    /\ \A k \in 1 .. n \ Stores(n) : window[k].value # NoValue
    /\ memory' = After[n]
    /\ left <= Len(window') /\ Len(window') <= left + WAY
    /\ \A k \in 1 .. left :
          \/ window'[k] = window[k + n]
          \/ /\ window[k + n].rw = "read" /\ window[k + n].value = NoValue
             /\ window'[k] = [window[k + n] EXCEPT !.value = Answer(k + n)]
    /\ \A k \in left + 1 .. Len(window') : window'[k].value = NoValue

\* All operations in flight are squashed, and new ones enter.
Squash ==
    /\ UNCHANGED memory
    /\ Len(window') <= WAY
    /\ \A k \in DOMAIN window' : window'[k].value = NoValue

Init ==
    /\ memory = [l \in Line |-> ZeroContent]
    /\ window = <<>>

Next == Squash \/ \E n \in 0 .. Len(window) : Step(n)

Spec == Init /\ [][Next]_vars
=============================================================================
