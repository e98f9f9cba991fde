----------------------------- MODULE VectorGate -----------------------------
(***************************************************************************)
(* The cross-language gate of ts/scripts/diff-vectors.mjs: it runs every   *)
(* vector of vectors/protocol.json through the executors of the three      *)
(* languages, and with --update first has the vitest suite write the pins  *)
(* anew.  Between two runs any of the mirrors may be broken or repaired,   *)
(* and a run may be interrupted anywhere.                                  *)
(***************************************************************************)
EXTENDS Integers, SequencesExt

CONSTANTS
    SeqMax, LastSeq, HashLength, MaxCounter, Base, SequenceWidth, LengthWidth,
    PrefixLength, AUTHENTICATION_TAG_LENGTH,
    BOOTSTRAP_MESSAGE, CLASSICAL_MESSAGE, NoTag, Refused,   \* of VectorExecutor
    Numbers,     \* the numbers that the inputs of a vector may hold
    MaxSafe,     \* Number.MAX_SAFE_INTEGER, 2^53 - 1
    AsDouble,    \* AsDouble[n]: the double JSON.parse makes of n
    AsWritten,   \* AsWritten[n]: the shortest digits that are read as it
    Pool,        \* the vectors that a manifest may hold, without their pins
    Size,        \* the vectors of a manifest
    Builds,      \* what may be wrong with a build: a fault for each language
    MaxRuns      \* bound: how often the gate is run

VARIABLES
    file,       \* vectors/protocol.json: vectors with their pins
    manifest,   \* what the gate has read of it (its numbers are converted
                \* where they are used)
    build,      \* the fault of every language
    stage,      \* what the gate does next
    failures,   \* the mismatches it has found: language and identifier
    exit,       \* "none", "0" or "1"
    runs,       \* how often it was started
    pins,       \* where the pins come from: "reference" or "stale"
    rewrote     \* has this run changed the pins

Languages == {"ts", "py", "rs"}

Ts == INSTANCE VectorExecutor WITH Impl <- "ts"
Py == INSTANCE VectorExecutor WITH Impl <- "py"
Rs == INSTANCE VectorExecutor WITH Impl <- "rs"

(* The inputs with Becomes[n] in the place of every number n.              *)
Converted(inputs, Becomes) ==
    [key \in DOMAIN inputs |->
        CASE key \in {"sequence", "length", "message_type", "version"} ->
                 Becomes[inputs[key]]
          [] key \in {"sequences", "bases"} ->
                 [i \in DOMAIN inputs[key] |-> Becomes[inputs[key][i]]]
          [] OTHER -> inputs[key]]

(* What a language's executor answers, or an error.  Python's integers are *)
(* exact, the suite's numbers are doubles, and Rust is sent what the gate, *)
(* a JavaScript program, prints of the doubles it has read.                *)
compute(language, operation, inputs) ==
    CASE language = "ts" -> Ts!compute(operation, Converted(inputs, AsDouble))
      [] language = "py" -> Py!compute(operation, inputs)
      [] language = "rs" -> Rs!compute(operation, Converted(inputs, AsWritten))
Throws == Ts!Throws

(* What every executor answers alike: the vectors a manifest can hold.     *)
Portable(operation, inputs) ==
    /\ compute("ts", operation, inputs) # Throws
    /\ {Converted(inputs, AsDouble), Converted(inputs, AsWritten)} = {inputs}
    /\ operation = "hkdf_expand" => inputs.length <= HashLength * (MaxCounter - 1)
    /\ operation = "transcript" => << << >> >> \notin {inputs.messagesA, inputs.messagesB}
    /\ operation = "sequence_trace" =>
           /\ \A i \in DOMAIN inputs.sequences : inputs.sequences[i] \in 0 .. SeqMax
           /\ Ts!Trace!traceSequence(inputs.sequences).expected <= SeqMax

gateVars == <<file, manifest, build, stage, failures, exit, runs, pins, rewrote>>

Wrong == <<"wrong">>
Faults == {"none", "throws", "wrong", "missing key", "extra key"}
NoFault == [language \in Languages |-> "none"]

(* What an executor of a build answers.                                    *)
Run(language, vector) ==
    LET output == compute(language, vector.operation, vector.inputs)
    IN  CASE build[language] = "none" \/ output = Throws -> output
          [] build[language] = "throws" /\ output # Throws -> Throws
          [] build[language] = "wrong" /\ output # Throws ->
                 [key \in DOMAIN output |-> Wrong]
          [] build[language] = "missing key" /\ output # Throws ->
                 [key \in DOMAIN output \ {"out", "aborted"} |-> output[key]]
          [] build[language] = "extra key" /\ output # Throws ->
                 [key \in DOMAIN output \cup {"debug"} |->
                     IF key = "debug" THEN Wrong ELSE output[key]]

(* Mutant of compareVector: the keys that are not expected pass.           *)
compareExpectedKeys(expected, actual) ==
    \A key \in DOMAIN expected :
        key \in DOMAIN actual /\ actual[key] = expected[key]

(* Exactly the expected keys, with the expected values.                    *)
compareVector(expected, actual) ==
    /\ DOMAIN actual = DOMAIN expected
    /\ \A key \in DOMAIN expected : actual[key] = expected[key]

Ids(vectors) == {vectors[i].id : i \in DOMAIN vectors}

WellFormed(vectors) ==
    /\ \A i, j \in DOMAIN vectors : vectors[i].id = vectors[j].id => i = j
    /\ \A mechanism \in {"shipped", "specified"} :
           \E i \in DOMAIN vectors : vectors[i].mechanism = mechanism

(* The vitest suite on what it has read: a failing test is an exit code    *)
(* other than zero.                                                        *)
SuitePasses(vectors) ==
    /\ WellFormed(vectors)
    /\ \A i \in DOMAIN vectors :
           compareVector(vectors[i].expected, Run("ts", vectors[i]))

-----------------------------------------------------------------------------
Pinned(vector, inputs, expected) ==
    [id |-> vector.id, mechanism |-> vector.mechanism,
     operation |-> vector.operation, inputs |-> inputs, expected |-> expected]

Reference(vector) == compute("ts", vector.operation, vector.inputs)

Init ==
    /\ build \in Builds
    /\ \E vectors \in [1 .. Size -> Pool] :
           \/ /\ \A i \in 1 .. Size : Reference(vectors[i]) # Throws
              /\ file = [i \in 1 .. Size |-> Pinned(vectors[i], vectors[i].inputs,
                                                      Reference(vectors[i]))]
              /\ pins = "reference"
           \/ /\ file = [i \in 1 .. Size |-> Pinned(vectors[i], vectors[i].inputs,
                                                      [out |-> Wrong])]
              /\ pins = "stale"
    /\ manifest = << >> /\ stage = "idle" /\ failures = {} /\ exit = "none"
    /\ runs = 0 /\ rewrote = FALSE

StartRun ==
    /\ stage = "idle" /\ runs < MaxRuns
    /\ manifest' = file /\ runs' = runs + 1
    /\ failures' = {} /\ exit' = "none" /\ rewrote' = FALSE
    /\ stage' \in {"update", "ts"}
    /\ UNCHANGED <<file, build, pins>>

(* run throws on an exit code other than zero, which ends the gate.        *)
Abort == stage' = "done" /\ exit' = "1"

(* A vector as the suite writes it: its numbers printed from the doubles.  *)
Rewritten(vector, expected) ==
    Pinned(vector, Converted(vector.inputs, AsWritten), expected)

(* Mutant of Regenerated: the pins of the specified vectors stay.          *)
RegeneratedIfShipped(vector) ==
    Rewritten(vector, IF vector.mechanism = "shipped" THEN Run("ts", vector)
                                                     ELSE vector.expected)

Regenerated(vector) == Rewritten(vector, Run("ts", vector))

(* The suite computes all pins before it writes the file anew.             *)
UpdatePins ==
    /\ stage = "update"
    /\ IF \E i \in DOMAIN file : Run("ts", file[i]) = Throws
       THEN Abort /\ UNCHANGED <<file, pins, rewrote>>
       ELSE /\ file' = [i \in DOMAIN file |-> Regenerated(file[i])]
            /\ rewrote' = (file' # file)
            /\ pins' = IF build["ts"] = "none" THEN "reference" ELSE "stale"
            /\ stage' = "updated"
            /\ UNCHANGED exit
    /\ UNCHANGED <<manifest, build, failures, runs>>

(* The same process goes on to test what it has read before.               *)
TestOldPins ==
    /\ stage = "updated"
    /\ IF SuitePasses(manifest) THEN stage' = "ts" /\ UNCHANGED exit ELSE Abort
    /\ UNCHANGED <<file, manifest, build, failures, runs, pins, rewrote>>

TypeScriptGate ==
    /\ stage = "ts"
    /\ IF SuitePasses(file) THEN stage' = "py" /\ UNCHANGED exit ELSE Abort
    /\ UNCHANGED <<file, manifest, build, failures, runs, pins, rewrote>>

(* The outputs of an executor by identifier: of two vectors with the same  *)
(* one the last counts.                                                    *)
Results(language, vectors) ==
    [id \in Ids(vectors) |->
        Run(language, vectors[CHOOSE i \in DOMAIN vectors :
                                 /\ vectors[i].id = id
                                 /\ \A j \in i + 1 .. Len(vectors) : vectors[j].id # id])]

Mismatches(language, results) ==
    {<<language, manifest[i].id>> :
        i \in {j \in DOMAIN manifest :
                  ~(/\ manifest[j].id \in DOMAIN results
                    /\ compareVector(manifest[j].expected, results[manifest[j].id]))}}

(* One throw ends the executor.                                            *)
Fails(language, vectors) ==
    \E i \in DOMAIN vectors : Run(language, vectors[i]) = Throws

PythonGate ==
    /\ stage = "py"
    /\ IF Fails("py", file) THEN Abort /\ UNCHANGED failures
       ELSE /\ failures' = failures \cup Mismatches("py", Results("py", file))
            /\ stage' = "rs" /\ UNCHANGED exit
    /\ UNCHANGED <<file, manifest, build, runs, pins, rewrote>>

(* Rust is given the inputs that the gate has read; then comes the report. *)
RustGate ==
    /\ stage = "rs"
    /\ IF Fails("rs", manifest) THEN Abort /\ UNCHANGED failures
       ELSE /\ failures' = failures \cup Mismatches("rs", Results("rs", manifest))
            /\ stage' = "done"
            /\ exit' = IF failures' = {} THEN "0" ELSE "1"
    /\ UNCHANGED <<file, manifest, build, runs, pins, rewrote>>

(* The run is over, or is killed, and the mirrors are worked on.           *)
Commit ==
    /\ stage # "idle" /\ runs < MaxRuns
    /\ stage' = "idle" /\ exit' = "none" /\ manifest' = << >> /\ failures' = {}
    /\ build' \in Builds
    /\ UNCHANGED <<file, runs, pins, rewrote>>

Next ==
    \/ StartRun \/ UpdatePins \/ TestOldPins
    \/ TypeScriptGate \/ PythonGate \/ RustGate
    \/ Commit

Spec == Init /\ [][Next]_gateVars

-----------------------------------------------------------------------------
(* What a JavaScript program has of the vectors after it has read them.    *)
Read(vectors) ==
    [i \in DOMAIN vectors |->
        [vectors[i] EXCEPT !.inputs = Converted(@, AsDouble)]]

AllMatch ==
    \A i \in DOMAIN file, language \in Languages :
        Run(language, file[i]) = file[i].expected

(* The gate exits with 0 only if each of the three languages gives exactly *)
(* the pinned outputs of the well-formed file that it has read, whichever  *)
(* mirror is broken and in whatever way, and with 1 only if that is not so *)
(* or the file has just been changed.                                      *)
VerdictIsTrue ==
    stage = "done" =>
        /\ exit = "0" => Read(manifest) = Read(file) /\ WellFormed(file) /\ AllMatch
        /\ exit = "1" => rewrote \/ ~WellFormed(file) \/ ~AllMatch

(* Healthy mirrors pass the gate on pins that come from a healthy          *)
(* reference, through whatever updates, broken builds and interruptions    *)
(* before, on exactly the vectors that the three languages compute alike;  *)
(* a number that is no double, or is printed with other digits, is none.   *)
HealthyMirrorsPass ==
    (stage = "done" /\ build = NoFault /\ pins = "reference" /\ ~rewrote) =>
        (exit = "0" <=>
            /\ WellFormed(manifest)
            /\ \A i \in DOMAIN manifest :
                   Portable(manifest[i].operation, manifest[i].inputs))

(* "regenerate the manifest pins from the canonical reference, then        *)
(* continue to gate every language against the new pins": an update with   *)
(* healthy mirrors ends in success.                                        *)
UpdateGatesNewPins ==
    (stage = "done" /\ build = NoFault /\ rewrote /\ WellFormed(file)
        /\ \A i \in DOMAIN file : Portable(file[i].operation, file[i].inputs))
    => exit = "0"
=============================================================================
