------------------------------ MODULE LineData ------------------------------
(***************************************************************************)
(* Addresses and the contents of memory as the load and store path sees     *)
(* them: a line of words, a word of bytes.  A line is what moves between     *)
(* memory and cache (64 bits in src/verilog/dcache.sv), a word is a register.*)
(* Accesses are bytes or words and are aligned; a half word behaves like a   *)
(* byte of twice the size.                                                  *)
(***************************************************************************)
EXTENDS Integers

CONSTANTS
    Line,       \* line addresses
    ZeroLine,   \* the line of address 0, which idle ports carry
    WORDS,      \* words in a line
    BYTES,      \* bytes in a word
    Value       \* values of a byte

ASSUME LineDataAssumption ==
    /\ ZeroLine \in Line
    /\ WORDS \in Nat \ {0}
    /\ BYTES \in Nat \ {0}
    /\ 0 \in Value

Byte == 0 .. BYTES - 1
WordData == [Byte -> Value]
LineContent == [0 .. WORDS - 1 -> WordData]
Func == {"byte", "word"}
Addr == [line : Line, word : 0 .. WORDS - 1, byte : Byte]

ZeroWord == [b \in Byte |-> 0]
ZeroContent == [w \in 0 .. WORDS - 1 |-> ZeroWord]
ZeroAddr == [line |-> ZeroLine, word |-> 0, byte |-> 0]

SameWord(a, b) == a.line = b.line /\ a.word = b.word

\* The accesses that programs make.
Aligned(func, addr) == func = "word" => addr.byte = 0

\* The line after a store of word to addr: a byte is stored from the low end of
\* the register.
combine_store(func, addr, content, word) ==
    IF func = "word" THEN [content EXCEPT ![addr.word] = word]
    ELSE [content EXCEPT ![addr.word][addr.byte] = word[0]]

\* The register that a load gets out of a line; byte loads extend with zeros.
Extract(func, addr, content) ==
    IF func = "word" THEN content[addr.word]
    ELSE [ZeroWord EXCEPT ![0] = content[addr.word][addr.byte]]
=============================================================================
