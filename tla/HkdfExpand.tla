----------------------------- MODULE HkdfExpand -----------------------------
(***************************************************************************)
(* The expand loop of HKDF: blocks of HashLength bytes, each computed from *)
(* the block before it and a one-byte counter, until the requested length  *)
(* is reached.  The code has 32 bytes a block and counts to 255.           *)
(***************************************************************************)
EXTENDS Integers, Sequences

CONSTANTS
    Impl,         \* the implementation: "ts", "py" or "rs"
    HashLength,   \* the bytes of a block
    MaxCounter,   \* the largest value of the counter byte
    Lengths       \* the lengths asked for

VARIABLES
    length,    \* the length asked for
    offset,    \* the bytes of output written
    counter,   \* the number of the next block
    blocks,    \* the counter bytes that went into the blocks, in order
    outcome    \* "running", "output", "RangeError" or "counter overflow"

vars == <<length, offset, counter, blocks, outcome>>

ValidLength(n) == n \in 1 .. HashLength * MaxCounter

Smaller(m, n) == IF m < n THEN m ELSE n

Init ==
    /\ length \in Lengths
    /\ offset = 0 /\ counter = 1 /\ blocks = << >>
    /\ outcome = IF ValidLength(length) THEN "running" ELSE "RangeError"

(* One iteration: counter is the byte Buffer.from([counter]) makes of it.  *)
Block ==
    /\ outcome = "running" /\ offset < length
    /\ blocks' = Append(blocks, counter % (MaxCounter + 1))
    /\ offset' = offset + Smaller(HashLength, length - offset)
    /\ UNCHANGED length

(* Mutants of CountTs: the counter starts over before it reaches the       *)
(* byte's largest value; the check for overflow comes before the next      *)
(* block is known to be needed.                                            *)
CountTsEarly == counter' = (counter % (MaxCounter - 1)) + 1 /\ UNCHANGED outcome

CountTsChecked ==
    IF counter = MaxCounter
    THEN outcome' = "counter overflow" /\ UNCHANGED counter
    ELSE counter' = counter + 1 /\ UNCHANGED outcome

CountTs == counter' = counter + 1 /\ UNCHANGED outcome

(* Python counts as TypeScript does.                                       *)
CountPy == CountTs

(* Rust counts in a u8 and checks for overflow after the block it has just *)
(* written, whether or not another one is needed.                          *)
CountRs ==
    IF counter = MaxCounter
    THEN outcome' = "counter overflow" /\ UNCHANGED counter
    ELSE CountTs

NextBlock ==
    /\ Block
    /\ CASE Impl = "ts" -> CountTs
         [] Impl = "py" -> CountPy
         [] Impl = "rs" -> CountRs

Return ==
    /\ outcome = "running" /\ offset >= length
    /\ outcome' = "output"
    /\ UNCHANGED <<length, offset, counter, blocks>>

Next == NextBlock \/ Return

(* The function runs to its end once it is called.                         *)
Spec == Init /\ [][Next]_vars /\ WF_vars(Next)

-----------------------------------------------------------------------------
(* The output is exactly as long as asked for, from no block too many, and *)
(* every block has a counter byte of its own, starting at 1 and fitting    *)
(* the byte, also in the longest output.                                   *)
OutputIsComplete ==
    /\ \A i \in 1 .. Len(blocks) : blocks[i] = i
    /\ outcome = "output" =>
          /\ offset = length
          /\ HashLength * (Len(blocks) - 1) < length
          /\ length <= HashLength * Len(blocks)

(* Every length between 1 and HashLength * MaxCounter yields its output.   *)
AllowedLengthsWork ==
    length \in 1 .. HashLength * MaxCounter ~> outcome = "output"
=============================================================================
