---------------------------- MODULE MCAlgorithms ----------------------------
(***************************************************************************)
(* The codec and HKDF for TLC: a frame that is transferred or an output    *)
(* that is expanded.  Which one it is is chosen at the start, the other    *)
(* stays idle.                                                             *)
(***************************************************************************)
EXTENDS FrameTransfer

CONSTANTS
    HashLength, MaxCounter, Lengths   \* of HkdfExpand

ASSUME ImplAssumption == Impl \in {"ts", "py", "rs"}
ASSUME SizesAssumption ==
    /\ HashLength \in Nat \ {0} /\ MaxCounter \in Nat \ {0}
    /\ Lengths \subseteq Int

VARIABLES
    algorithm,                                  \* the one that runs
    length, offset, counter, blocks, outcome    \* of HkdfExpand

Hkdf == INSTANCE HkdfExpand

hkdfVars == <<length, offset, counter, blocks, outcome>>
allVars == <<algorithm, vars, hkdfVars>>

FrameIdle ==
    /\ frame = [type |-> BOOTSTRAP_MESSAGE, sequence |-> 0, payload |-> << >>,
                tag |-> NoTag]
    /\ wire = Refused /\ damage = "none" /\ output = Pending
HkdfIdle ==
    /\ length = 0 /\ offset = 0 /\ counter = 1 /\ blocks = << >>
    /\ outcome = "RangeError"

AlgorithmsInit ==
    \/ algorithm = "frame" /\ Init /\ HkdfIdle
    \/ algorithm = "hkdf" /\ FrameIdle /\ Hkdf!Init

TransferStep ==
    algorithm = "frame" /\ Next /\ UNCHANGED <<algorithm, hkdfVars>>
ExpandStep ==
    algorithm = "hkdf" /\ Hkdf!Next /\ UNCHANGED <<algorithm, vars>>

(* The fairness is that of HkdfExpand: the loop runs to its end.           *)
AlgorithmsSpec ==
    /\ AlgorithmsInit
    /\ [][TransferStep \/ ExpandStep]_allVars
    /\ WF_allVars(ExpandStep)

-----------------------------------------------------------------------------
(* Payloads up to one byte beyond the limit, told apart by their last byte.*)
SomePayloads ==
    {<< >>} \cup {[i \in 1 .. n |-> IF i = n THEN b ELSE 1] :
                    n \in 1 .. MAX_PAYLOAD_LENGTH + 1, b \in Byte}

SomeTags == {NoTag} \cup {<<b>> : b \in Byte} \cup {<< >>, <<0, 0>>}

(* Numbers outside the field and tags of a wrong length as well.           *)
AnyInputs ==
    [type : Byte, sequence : -1 .. MaxSequence + 1, payload : SomePayloads,
     tag : SomeTags]

(* Every length up to one beyond the largest.                              *)
EveryLength == -1 .. HashLength * MaxCounter + 1

-----------------------------------------------------------------------------
(* hkdfExpand returns complete outputs from distinct counter bytes.        *)
OutputIsComplete == Hkdf!OutputIsComplete

(* hkdfExpand has an output for every length its guard allows.             *)
AllowedLengthsWork == Hkdf!AllowedLengthsWork
=============================================================================
