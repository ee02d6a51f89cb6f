--------------------------- MODULE MCLoadStorePath ---------------------------
(***************************************************************************)
(* Instances of the load and store path for TLC.                            *)
(***************************************************************************)
EXTENDS LoadStorePath

At(line, word, byte) == [line |-> line, word |-> word, byte |-> byte]

Load(func, addr) ==
    [rw |-> "read", func |-> func, addr |-> addr, store_data |-> ZeroWord]
Store(func, addr, v) ==
    [rw |-> "write", func |-> func, addr |-> addr, store_data |-> [ZeroWord EXCEPT ![0] = v]]

\* Each line in a set of its own.
OwnSet == [l \in Line |-> l]
\* All lines in one set.
OneSet == [l \in Line |-> 0]

\* Two values stored to one line, and loads from it and from another.
OneStoredLine ==
    {Store("word", At(0, 0, 0), 0), Store("word", At(0, 0, 0), 1),
     Load("word", At(0, 0, 0)), Load("word", At(1, 0, 0))}

\* A store to one line and loads from it and from another.
TwoLines == {Store("word", At(0, 0, 0), 0), Load("word", At(0, 0, 0)), Load("word", At(1, 0, 0))}

\* A store to one line and a load from another.
StoreAndLoad == {Store("word", At(0, 0, 0), 0), Load("word", At(1, 0, 0))}

\* A byte store and a load of a byte, both of the second byte of a word.
SecondByte == {Store("byte", At(0, 0, 1), 1), Load("byte", At(0, 0, 1))}

\* Bound on the window: three are in flight only if all of them are of the line
\* that is stored to.
ThreeOfOneLine ==
    Len(window) > 2 => \A k \in DOMAIN window : window[k].op.addr.line = 0
=============================================================================
