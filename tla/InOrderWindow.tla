---------------------------- MODULE InOrderWindow ----------------------------
(***************************************************************************)
(* What the rename core promises to the rest of the processor: a window of  *)
(* instructions in program order between the committed mapping and the      *)
(* speculative one.  In a step some instructions leave the window at its    *)
(* old end and commit their mapping, some are squashed at its young end     *)
(* because of a faulty instruction, or some enter there with fresh          *)
(* registers.  There is no ROB, no map table and no order of free registers *)
(* here.                                                                    *)
(***************************************************************************)
EXTENDS Integers, Sequences, FiniteSets

CONSTANTS
    WAY,        \* most instructions that leave, or enter, in one step
    SIZE,       \* most instructions in the window
    ArchReg,    \* architectural registers, 0 is never written
    PhyReg      \* physical registers

VARIABLES
    committed,  \* the mapping left by the instructions that have retired
    window,     \* the instructions in flight, oldest first
    free        \* the registers not in use

vars == <<committed, window, free>>

\* Instruction d of the window writes register a.
Writes(d, a) == a # 0 /\ window[d].dest = a

\* The mapping of a after the first k instructions of the window.
Overlay(k, a) ==
    LET writers == {d \in 1 .. k : Writes(d, a)} IN
    IF writers = {} THEN committed[a]
    ELSE window[CHOOSE d \in writers : \A e \in writers : e <= d].T

\* The registers whose mapping the first k instructions replace.
Replaced(k) == {Overlay(d - 1, window[d].dest) : d \in {e \in 1 .. k : window[e].dest # 0}}

Squashed(j) ==
    {window[d].T : d \in Len(window) - j + 1 .. Len(window)} \ {0}

\* The first k instructions retire, the last j are squashed, and window'
\* continues what is left with new instructions.
Step(k, j) ==
    LET kept == SubSeq(window, k + 1, Len(window) - j)
        new == SubSeq(window', Len(kept) + 1, Len(window'))
        avail == free \cup Replaced(k) \cup Squashed(j)
        taken == {new[d].T : d \in DOMAIN new} \ {0}
    IN
    /\ k + j <= Len(window)
    /\ Len(kept) <= Len(window') /\ Len(window') <= SIZE
    /\ Len(new) <= WAY
    \* a faulty instruction does not retire; squashing starts once it is the
    \* oldest one, and spares it; nothing enters behind it
    /\ \A d \in 1 .. k : ~window[d].fault
    /\ j > 0 => kept # <<>> /\ kept[1].fault /\ new = <<>>
    /\ new # <<>> => \A d \in DOMAIN window : ~window[d].fault
    \* an instruction keeps its registers; only the last one left recovers
    \* from its fault
    /\ \A d \in DOMAIN kept :
          /\ window'[d].dest = kept[d].dest
          /\ window'[d].T = kept[d].T
          /\ kept[d].fault => window'[d].fault \/ Len(window') = 1
    \* fresh registers, one for each destination
    /\ \A d \in DOMAIN new : (new[d].T = 0) <=> (new[d].dest = 0)
    /\ taken \subseteq avail
    /\ Cardinality(taken) = Cardinality({d \in DOMAIN new : new[d].dest # 0})
    /\ free' = avail \ taken
    /\ committed' = [a \in ArchReg |-> Overlay(k, a)]

Init ==
    /\ committed = [a \in ArchReg |-> a]
    /\ window = <<>>
    /\ free = PhyReg \ ArchReg

Next == \E k, j \in 0 .. WAY : Step(k, j)

Spec == Init /\ [][Next]_vars
=============================================================================
