----------------------------- MODULE CallContents -----------------------------
(***************************************************************************)
(* What a worker call does: the choice of Mix in src/worker/compose.go and *)
(* the data of the request body in src/generator/reader.go.                *)
(***************************************************************************)
EXTENDS Integers, Sequences, SequencesExt, FiniteSetsExt

CONSTANTS
    Pattern,      \* length of the ASCII pattern
    DefaultChunk, \* chunk size of a reader that is given none, or zero
    Word          \* values of the 64-bit word sizeRemaining, here less

ASSUME ContentsAssumption ==
    Pattern \in Nat \ {0} /\ DefaultChunk \in Nat \ {0} /\ Word \in Nat \ {0}

----------------------------------------------------------------------------
(* Mix. *)

WeightedFuncs == Seq([weight : Int, func : STRING])

Positive(choices, i) == IF choices[i].weight > 0 THEN choices[i].weight ELSE 0

\* Mutant of Current: negative weights count.
CurrentOfAll(choices, i) ==
    MapThenSumSet(LAMBDA j : choices[j].weight, 1 .. i)

\* The sum of the weights up to choice i, which Mix compares with its random
\* number.
Current(choices, i) == MapThenSumSet(LAMBDA j : Positive(choices, j), 1 .. i)

TotalWeight(choices) ==
    MapThenSumSet(LAMBDA j : Positive(choices, j), DOMAIN choices)

\* The function that the random number r chooses.
Chosen(choices, r) ==
    LET reached == {i \in DOMAIN choices :
                       choices[i].weight > 0 /\ r < Current(choices, i)}
    IN  IF reached = {} THEN 0 ELSE Min(reached)

\* The functions that a call of Mix(choices) may make.
MixCalls(choices) ==
    IF \E i \in DOMAIN choices : choices[i].func = "nil" THEN {"abort"}
    ELSE IF TotalWeight(choices) <= 0 THEN {"none"}
    ELSE {choices[i].func : i \in
             {Chosen(choices, r) : r \in 0 .. TotalWeight(choices) - 1} \ {0}}

\* Of each TotalWeight random numbers, choice i has its weight.
IsProportional(choices) ==
    \A i \in DOMAIN choices :
        Cardinality({r \in 0 .. TotalWeight(choices) - 1 :
                        Chosen(choices, r) = i}) = Positive(choices, i)

----------------------------------------------------------------------------
(* Reader. *)

Modes == {"ascii", "random"}

\* A byte of random data.
Random == -1

ChunkSize(chunk) == IF chunk > 0 THEN chunk ELSE DefaultChunk

\* Mutant of ToWrite: does not look at what remains.
ToWriteChunk(reader, len) == Min({reader.chunkSize, len})

ToWrite(reader, len) == Min({reader.sizeRemaining, reader.chunkSize, len})

NewReader(size, chunk, mode) ==
    [sizeRemaining |-> size, chunkSize |-> ChunkSize(chunk),
     asciiPatternIndex |-> 0, mode |-> mode]

\* fillASCII and fillRandom.
Filled(reader, n) ==
    [i \in 1 .. n |-> IF reader.mode = "random" THEN Random
                      ELSE (reader.asciiPatternIndex + i - 1) % Pattern]

AtEOF(reader, len) == reader.sizeRemaining = 0 \/ ToWrite(reader, len) = 0

\* The reader after n bytes.
AfterRead(reader, n) ==
    [reader EXCEPT
        !.sizeRemaining = (@ - n) % Word,
        !.asciiPatternIndex = IF reader.mode = "random" THEN @
                              ELSE (@ + n) % Pattern]

=============================================================================
