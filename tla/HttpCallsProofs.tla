--------------------------- MODULE HttpCallsProofs ---------------------------
(***************************************************************************)
(* Proofs about HttpCalls, for every set of workers, mix, buffer and       *)
(* transport: how often a request is recorded, and as what, what an upload *)
(* sends, what Mix calls, and what the percentiles of a dump are.          *)
(***************************************************************************)
EXTENDS HttpCalls, PercentilesProofs

PC == {"idle", "sent", "eof", "body", "read", "close", "closeSecond"}
ReadErrors == {"none", "closed", "failed", "canceled", "EOF"}

CallTypes ==
    /\ pc \in [Worker -> PC]
    /\ closer \in [Worker -> {"idle", "closeSecond"}]
    /\ readErr \in [Worker -> ReadErrors]
    /\ once \in [Worker -> BOOLEAN] /\ bodyClosed \in [Worker -> BOOLEAN]
    /\ ended \in [Worker -> 0 .. 1]
    /\ DOMAIN func = Worker
    /\ errors \in Nat /\ failures \in Nat

\* A request is recorded by what ends it first: an error of RoundTrip, a
\* response without a body, or the once of its body.
Recorded(w) ==
    /\ pc[w] \in {"sent", "eof"} => ended[w] = 0 /\ ~once[w]
    /\ pc[w] \in {"body", "read"} => ended[w] = (IF once[w] THEN 1 ELSE 0)
    /\ pc[w] \in {"close", "closeSecond"} => ended[w] = 1 /\ once[w]
    /\ (pc[w] = "idle" /\ IsRequest(w)) => ended[w] = 1

\* Close ends the request before it closes the body.
ClosedLast(w) ==
    /\ closer[w] = "closeSecond" => once[w]
    /\ bodyClosed[w] => once[w]
    /\ (pc[w] = "read" /\ readErr[w] = "closed") => once[w]
    /\ pc[w] = "read" => readErr[w] # "none"
    /\ (program # "other" /\ pc[w] \in {"body", "read"}) => ~once[w]

\* A read has failed and the failure has still to be counted.
Uncounted(w) == pc[w] = "read" /\ readErr[w] = "failed" /\ ~once[w]
UncountedSet == {w \in Worker : Uncounted(w)}

\* Each error is a failure, and each failure is or will be an error, unless
\* another goroutine ends the request before.
Balanced ==
    /\ errors + Cardinality(UncountedSet) <= failures
    /\ program # "other" => errors + Cardinality(UncountedSet) = failures

CallInv ==
    /\ CallTypes
    /\ \A w \in Worker : Recorded(w) /\ ClosedLast(w)

----------------------------------------------------------------------------
(* The variables of one worker. *)

OthersKeep(w) ==
    \A v \in Worker \ {w} :
        /\ pc'[v] = pc[v] /\ closer'[v] = closer[v] /\ readErr'[v] = readErr[v]
        /\ once'[v] = once[v] /\ bodyClosed'[v] = bodyClosed[v]
        /\ ended'[v] = ended[v] /\ func'[v] = func[v]

LEMMA OthersKeepCallInv ==
    ASSUME CallInv, NEW w \in Worker, OthersKeep(w), program' = program,
           CallTypes', Recorded(w)', ClosedLast(w)'
    PROVE  CallInv'
<1>1. ASSUME NEW v \in Worker \ {w} PROVE Recorded(v)' /\ ClosedLast(v)'
  BY <1>1 DEF CallInv, OthersKeep, Recorded, ClosedLast, IsRequest
<1> QED
  BY <1>1 DEF CallInv

\* What end of RoundTrip and countError do to the counters.
LEMMA EndEffect ==
    ASSUME NEW w \in Worker, NEW err, CallTypes, ended[w] = 0,
           End(w, err) \/ CountError(w, err)
    PROVE  /\ ended' \in [Worker -> 0 .. 1] /\ ended'[w] = 1
           /\ \A v \in Worker \ {w} : ended'[v] = ended[v]
           /\ errors' \in Nat /\ errors \in Nat
           /\ errors' = errors \/ (errors' = errors + 1 /\ ~Ignored(err))
<1>1. ended' = [ended EXCEPT ![w] = @ + 1]
  BY DEF End, CountError
<1>2. errors' = errors \/ (errors' = errors + 1 /\ ~Ignored(err))
  BY DEF End, CountError
<1> QED
  BY <1>1, <1>2 DEF CallTypes

\* An error is counted when it is one of the server or the network.
LEMMA CountedErrors ==
    ASSUME NEW w \in Worker, NEW err
    PROVE  /\ CountError(w, err) /\ err = "failed" => errors' = errors + 1
           /\ CountError(w, err) /\ err = "canceled" => errors' = errors
           /\ End(w, err) /\ err \in {"nil", "EOF", "canceled"} =>
                 errors' = errors
           /\ End(w, err) /\ err = "failed" => errors' = errors + 1
BY DEF End, CountError, Ignored

\* once.Do records a request once.
LEMMA EndOnceEffect ==
    ASSUME NEW w \in Worker, NEW err, CallTypes,
           ended[w] = (IF once[w] THEN 1 ELSE 0), EndOnce(w, err)
    PROVE  /\ once' \in [Worker -> BOOLEAN] /\ once'[w]
           /\ ended' \in [Worker -> 0 .. 1] /\ ended'[w] = 1
           /\ \A v \in Worker \ {w} :
                 ended'[v] = ended[v] /\ once'[v] = once[v]
           /\ errors' \in Nat
           /\ once[w] => errors' = errors
           /\ ~once[w] /\ err \in {"nil", "EOF", "canceled"} =>
                 errors' = errors
           /\ ~once[w] /\ err = "failed" => errors' = errors + 1
<1>0. errors \in Nat /\ ended \in [Worker -> 0 .. 1]
      /\ once \in [Worker -> BOOLEAN]
  BY DEF CallTypes
<1>1. /\ once' \in [Worker -> BOOLEAN] /\ once'[w]
      /\ \A v \in Worker \ {w} : once'[v] = once[v]
  BY <1>0 DEF EndOnce
<1>2. CASE once[w]
  BY <1>0, <1>1, <1>2 DEF EndOnce, OnceIsDone, counters
<1>3. CASE ~once[w]
  <2>1. ended[w] = 0 /\ End(w, err)
    BY <1>3 DEF EndOnce, OnceIsDone
  <2> QED
    BY <1>1, <1>3, <2>1, EndEffect, CountedErrors
<1> QED
  BY <1>2, <1>3

----------------------------------------------------------------------------
(* The balance of errors and failures. *)

Owed(w) == IF Uncounted(w) THEN 1 ELSE 0

\* A step of one worker adds it to UncountedSet, takes it out, or does neither.
LEMMA UncountedChange ==
    ASSUME NEW w \in Worker, OthersKeep(w)
    PROVE  /\ Cardinality(UncountedSet) \in Nat
           /\ Cardinality(UncountedSet)' =
                 Cardinality(UncountedSet) - Owed(w) + Owed(w)'
<1> DEFINE rest == UncountedSet \ {w}
<1>1. IsFiniteSet(UncountedSet) /\ IsFiniteSet(rest) /\ w \notin rest
  <2>1. UncountedSet \subseteq Worker
    BY DEF UncountedSet
  <2> QED
    BY <2>1, CallsAssumption, FS_Subset
<1>2. Cardinality(UncountedSet) \in Nat /\ Cardinality(rest) \in Nat
  BY <1>1, FS_CardinalityType
<1>a. Cardinality(rest \cup {w}) = Cardinality(rest) + 1
  BY <1>1, FS_AddElement
<1>3. Cardinality(UncountedSet) = Cardinality(rest) + Owed(w)
  <2>1. UncountedSet = IF Uncounted(w) THEN rest \cup {w} ELSE rest
    BY DEF UncountedSet
  <2> HIDE DEF rest
  <2>2. CASE Uncounted(w)
    BY <1>a, <2>1, <2>2 DEF Owed
  <2>3. CASE ~Uncounted(w)
    BY <1>2, <2>1, <2>3 DEF Owed
  <2> QED
    BY <2>2, <2>3
<1>4. Cardinality(UncountedSet)' = Cardinality(rest) + Owed(w)'
  <2>1. \A v \in Worker \ {w} : Uncounted(v)' <=> Uncounted(v)
    BY DEF OthersKeep, Uncounted
  <2>2. UncountedSet' = IF Uncounted(w)' THEN rest \cup {w} ELSE rest
    BY <2>1 DEF UncountedSet
  <2>3. Cardinality(UncountedSet)' = Cardinality(UncountedSet')
    OBVIOUS
  <2> HIDE DEF rest
  <2>4. CASE Uncounted(w)'
    BY <1>a, <2>2, <2>3, <2>4 DEF Owed
  <2>5. CASE ~Uncounted(w)'
    BY <1>2, <2>2, <2>3, <2>5 DEF Owed
  <2> QED
    BY <2>4, <2>5
<1> HIDE DEF rest
<1> QED
  BY <1>2, <1>3, <1>4 DEF Owed

LEMMA BalanceKept ==
    ASSUME NEW w \in Worker, OthersKeep(w), CallTypes, CallTypes', Balanced,
           program' = program,
           errors' + Owed(w)' - (errors + Owed(w)) <= failures' - failures,
           program # "other" =>
               errors' + Owed(w)' - (errors + Owed(w)) = failures' - failures
    PROVE  Balanced'
<1>1. /\ Cardinality(UncountedSet) \in Nat
      /\ Cardinality(UncountedSet)' =
            Cardinality(UncountedSet) - Owed(w) + Owed(w)'
  BY UncountedChange
<1>2. /\ errors \in Nat /\ errors' \in Nat
      /\ failures \in Nat /\ failures' \in Nat
      /\ Owed(w) \in Nat /\ Owed(w)' \in Nat
  BY DEF CallTypes, Owed
<1> DEFINE u == Cardinality(UncountedSet)
<1>3. /\ errors + u <= failures
      /\ program # "other" => errors + u = failures
  BY DEF Balanced
<1>4. u \in Nat /\ u' = u - Owed(w) + Owed(w)'
  BY <1>1
<1> HIDE DEF u
<1>5. errors' + u' <= failures' /\ (program # "other" => errors' + u' = failures')
  BY <1>2, <1>3, <1>4
<1> QED
  BY <1>5 DEF Balanced, u

----------------------------------------------------------------------------
(* Every step keeps both. *)

LEMMA StartCallKeeps ==
    ASSUME CallInv, Balanced, NEW w \in Worker, StartCall(w)
    PROVE  CallInv' /\ Balanced'
<1> USE DEF CallInv
<1>1. PICK f \in MixCalls(choices) :
          /\ func' = [func EXCEPT ![w] = f]
          /\ pc' = [pc EXCEPT ![w] = IF f \in {"get", "upload"} THEN "sent"
                                     ELSE "idle"]
  BY DEF StartCall, Goto
<1>2. /\ pc[w] = "idle" /\ closer[w] = "idle" /\ program' = program
      /\ closer' = closer /\ errors' = errors /\ failures' = failures
      /\ ended' = [ended EXCEPT ![w] = 0]
      /\ readErr' = [readErr EXCEPT ![w] = "none"]
      /\ once' = [once EXCEPT ![w] = FALSE]
      /\ bodyClosed' = [bodyClosed EXCEPT ![w] = FALSE]
  BY DEF StartCall, config
<1>3. OthersKeep(w) /\ CallTypes'
  BY <1>1, <1>2 DEF CallTypes, OthersKeep, PC, ReadErrors
<1>4. /\ pc'[w] = IF f \in {"get", "upload"} THEN "sent" ELSE "idle"
      /\ func'[w] = f /\ ended'[w] = 0 /\ ~once'[w] /\ ~bodyClosed'[w]
      /\ closer'[w] = "idle"
  BY <1>1, <1>2 DEF CallTypes
<1>5. Recorded(w)' /\ ClosedLast(w)'
  BY <1>4 DEF Recorded, ClosedLast, IsRequest
<1>6. Owed(w) = 0 /\ Owed(w)' = 0
  BY <1>2, <1>4 DEF Owed, Uncounted
<1> QED
  BY <1>2, <1>3, <1>5, <1>6, OthersKeepCallInv, BalanceKept DEF CallTypes

LEMMA ReadRequestBodyKeeps ==
    ASSUME CallInv, Balanced, NEW w \in Worker, ReadRequestBody(w)
    PROVE  CallInv' /\ Balanced'
<1> USE DEF CallInv
<1>1. /\ pc[w] = "sent"
      /\ pc' = [pc EXCEPT ![w] = "eof"] \/ pc' = pc
      /\ UNCHANGED <<program, func, closer, body, counters, failures>>
  BY DEF ReadRequestBody, Goto, config
<1>2. OthersKeep(w) /\ CallTypes' /\ pc'[w] \in {"sent", "eof"}
  BY <1>1 DEF CallTypes, OthersKeep, PC, body, counters
<1>3. Recorded(w)' /\ ClosedLast(w)'
  BY <1>1, <1>2 DEF Recorded, ClosedLast, body, counters
<1>4. Owed(w) = 0 /\ Owed(w)' = 0
  BY <1>1, <1>2 DEF Owed, Uncounted
<1> QED
  BY <1>1, <1>2, <1>3, <1>4, OthersKeepCallInv, BalanceKept
  DEF CallTypes, counters

LEMMA RoundTripFailsKeeps ==
    ASSUME CallInv, Balanced, NEW w \in Worker, RoundTripFails(w)
    PROVE  CallInv' /\ Balanced'
<1> USE DEF CallInv
<1>1. PICK err \in {"failed", "canceled"} :
          /\ CountError(w, err)
          /\ failures' = failures + (IF err = "failed" THEN 1 ELSE 0)
  BY DEF RoundTripFails, Errors
<1>2. /\ pc[w] \in {"sent", "eof"} /\ pc' = [pc EXCEPT ![w] = "idle"]
      /\ UNCHANGED <<program, func, closer, body>>
  BY DEF RoundTripFails, Goto, config
<1>3. ended[w] = 0 /\ ~once[w]
  BY <1>2 DEF Recorded
<1>4. /\ ended' \in [Worker -> 0 .. 1] /\ ended'[w] = 1
      /\ \A v \in Worker \ {w} : ended'[v] = ended[v]
      /\ errors' \in Nat
  BY <1>1, <1>3, EndEffect
<1>5. OthersKeep(w) /\ CallTypes' /\ pc'[w] = "idle"
  <2>1. OthersKeep(w) /\ pc'[w] = "idle" /\ pc' \in [Worker -> PC]
    BY <1>2, <1>4 DEF CallTypes, OthersKeep, PC, body
  <2>2. failures' \in Nat
    BY <1>1 DEF CallTypes
  <2> QED
    BY <1>2, <1>4, <2>1, <2>2 DEF CallTypes, body
<1>6. Recorded(w)' /\ ClosedLast(w)'
  BY <1>2, <1>4, <1>5 DEF Recorded, ClosedLast, body
<1>7. Owed(w) = 0 /\ Owed(w)' = 0
  BY <1>2, <1>5 DEF Owed, Uncounted
<1>8. errors' = errors + (IF err = "failed" THEN 1 ELSE 0)
  BY <1>1, CountedErrors DEF CallTypes
<1> QED
  BY <1>1, <1>2, <1>5, <1>6, <1>7, <1>8, OthersKeepCallInv, BalanceKept
  DEF CallTypes

LEMMA RoundTripReturnsKeeps ==
    ASSUME CallInv, Balanced, NEW w \in Worker, RoundTripReturns(w)
    PROVE  CallInv' /\ Balanced'
<1> USE DEF CallInv
<1>1. /\ pc[w] \in {"sent", "eof"}
      /\ UNCHANGED <<program, func, closer, body, failures>>
  BY DEF RoundTripReturns, config
<1>2. ended[w] = 0 /\ ~once[w]
  BY <1>1 DEF Recorded
<1>3. CASE End(w, "nil") /\ Goto(w, "idle")
  <2>1. /\ ended' \in [Worker -> 0 .. 1] /\ ended'[w] = 1
        /\ \A v \in Worker \ {w} : ended'[v] = ended[v]
        /\ errors' = errors
    BY <1>2, <1>3, EndEffect, CountedErrors
  <2>2. OthersKeep(w) /\ CallTypes' /\ pc'[w] = "idle"
    BY <1>1, <1>3, <2>1 DEF CallTypes, OthersKeep, PC, body, Goto
  <2>3. Recorded(w)' /\ ClosedLast(w)'
    BY <1>1, <2>1, <2>2 DEF Recorded, ClosedLast, body
  <2>4. Owed(w) = 0 /\ Owed(w)' = 0
    BY <1>1, <2>2 DEF Owed, Uncounted
  <2> QED
    BY <1>1, <2>1, <2>2, <2>3, <2>4, OthersKeepCallInv, BalanceKept
    DEF CallTypes
<1>4. CASE Goto(w, "body") /\ UNCHANGED <<durations, errors, ended>>
  <2>1. OthersKeep(w) /\ CallTypes' /\ pc'[w] = "body"
    BY <1>1, <1>4 DEF CallTypes, OthersKeep, PC, body, Goto
  <2>2. Recorded(w)' /\ ClosedLast(w)'
    BY <1>1, <1>2, <1>4, <2>1 DEF Recorded, ClosedLast, body
  <2>3. Owed(w) = 0 /\ Owed(w)' = 0
    BY <1>1, <2>1 DEF Owed, Uncounted
  <2> QED
    BY <1>1, <1>4, <2>1, <2>2, <2>3, OthersKeepCallInv, BalanceKept
    DEF CallTypes
<1> QED
  BY <1>3, <1>4 DEF RoundTripReturns

LEMMA ReadBodyKeeps ==
    ASSUME CallInv, Balanced, NEW w \in Worker, ReadBody(w)
    PROVE  CallInv' /\ Balanced'
<1> USE DEF CallInv
<1>1. PICK err \in ReadErrors \ {"none"} :
          /\ readErr' = [readErr EXCEPT ![w] = err]
          /\ failures' = failures + (IF err = "failed" THEN 1 ELSE 0)
          /\ err = "closed" => bodyClosed[w]
  BY DEF ReadBody, Errors, ReadErrors
<1>2. /\ pc[w] = "body" /\ pc' = [pc EXCEPT ![w] = "read"]
      /\ UNCHANGED <<program, func, closer, once, bodyClosed, counters>>
  BY DEF ReadBody, Goto, config
<1>3. OthersKeep(w) /\ CallTypes' /\ pc'[w] = "read" /\ readErr'[w] = err
  BY <1>1, <1>2 DEF CallTypes, OthersKeep, PC, ReadErrors, counters
<1>4. Recorded(w)' /\ ClosedLast(w)'
  BY <1>1, <1>2, <1>3 DEF Recorded, ClosedLast, counters, ReadErrors
<1>5. /\ Owed(w) = 0
      /\ Owed(w)' = IF err = "failed" /\ ~once[w] THEN 1 ELSE 0
  BY <1>2, <1>3 DEF Owed, Uncounted
<1>6. program # "other" => ~once[w]
  BY <1>2 DEF ClosedLast
<1>7. errors' = errors /\ errors \in Nat /\ failures \in Nat
  BY <1>2 DEF counters, CallTypes
<1> QED
  BY <1>1, <1>2, <1>3, <1>4, <1>5, <1>6, <1>7, OthersKeepCallInv, BalanceKept

LEMMA ReturnReadKeeps ==
    ASSUME CallInv, Balanced, NEW w \in Worker, ReturnRead(w)
    PROVE  CallInv' /\ Balanced'
<1> USE DEF CallInv
<1>1. /\ pc[w] = "read" /\ pc' = [pc EXCEPT ![w] = "close"]
      /\ EndOnce(w, readErr[w])
      /\ UNCHANGED <<program, func, closer, readErr, bodyClosed, failures>>
  BY DEF ReturnRead, Goto, config
<1>2. /\ ended[w] = (IF once[w] THEN 1 ELSE 0)
      /\ readErr[w] \in ReadErrors \ {"none"}
      /\ readErr[w] = "closed" => once[w]
  BY <1>1 DEF Recorded, ClosedLast, CallTypes
<1>3. /\ once' \in [Worker -> BOOLEAN] /\ once'[w]
      /\ ended' \in [Worker -> 0 .. 1] /\ ended'[w] = 1
      /\ \A v \in Worker \ {w} : ended'[v] = ended[v] /\ once'[v] = once[v]
      /\ errors' \in Nat
      /\ once[w] => errors' = errors
      /\ ~once[w] /\ readErr[w] \in {"nil", "EOF", "canceled"} =>
            errors' = errors
      /\ ~once[w] /\ readErr[w] = "failed" => errors' = errors + 1
  BY <1>1, <1>2, EndOnceEffect
<1>4. OthersKeep(w) /\ CallTypes' /\ pc'[w] = "close"
  BY <1>1, <1>3 DEF CallTypes, OthersKeep, PC
<1>5. Recorded(w)' /\ ClosedLast(w)'
  BY <1>1, <1>3, <1>4 DEF Recorded, ClosedLast
<1>6. /\ Owed(w) = (IF readErr[w] = "failed" /\ ~once[w] THEN 1 ELSE 0)
      /\ Owed(w)' = 0
  BY <1>1, <1>4 DEF Owed, Uncounted
<1>7. errors' = errors + Owed(w) /\ errors \in Nat /\ failures \in Nat
  BY <1>2, <1>3, <1>6 DEF ReadErrors, CallTypes
<1> QED
  BY <1>1, <1>4, <1>5, <1>6, <1>7, OthersKeepCallInv, BalanceKept

\* The two steps of Close, of whatever goroutine.
LEMMA CloseStepEffect ==
    ASSUME CallInv, NEW w \in Worker, NEW at, CloseStep(w, at),
           at # "closeSecond" => ended[w] = (IF once[w] THEN 1 ELSE 0),
           at = "closeSecond" => once[w]
    PROVE  /\ once' \in [Worker -> BOOLEAN] /\ once'[w]
           /\ bodyClosed' \in [Worker -> BOOLEAN]
           /\ ended' \in [Worker -> 0 .. 1] /\ errors' = errors
           /\ at # "closeSecond" => ended'[w] = 1
           /\ at = "closeSecond" => ended'[w] = ended[w]
           /\ \A v \in Worker \ {w} :
                 /\ ended'[v] = ended[v] /\ once'[v] = once[v]
                 /\ bodyClosed'[v] = bodyClosed[v]
<1> USE DEF CallInv
<1>1. CASE at # "closeSecond"
  <2>1. EndOnce(w, "nil") /\ UNCHANGED bodyClosed
    BY <1>1 DEF CloseStep, EndsRequest
  <2> QED
    BY <1>1, <2>1, EndOnceEffect DEF CallTypes
<1>2. CASE at = "closeSecond"
  BY <1>2 DEF CloseStep, EndsRequest, CallTypes, counters
<1> QED
  BY <1>1, <1>2

LEMMA CloseBodyKeeps ==
    ASSUME CallInv, Balanced, NEW w \in Worker, CloseBody(w)
    PROVE  CallInv' /\ Balanced'
<1> USE DEF CallInv
<1>1. /\ pc[w] \in {"close", "closeSecond", "body"} /\ CloseStep(w, pc[w])
      /\ pc' = [pc EXCEPT ![w] = IF pc[w] = "closeSecond" THEN "idle"
                                 ELSE "closeSecond"]
      /\ UNCHANGED <<program, func, closer, readErr, failures>>
  BY DEF CloseBody, Goto, NextOfClose, config
<1>2. /\ pc[w] # "closeSecond" => ended[w] = (IF once[w] THEN 1 ELSE 0)
      /\ pc[w] = "closeSecond" => once[w] /\ ended[w] = 1
  BY <1>1 DEF Recorded
<1>3. /\ once' \in [Worker -> BOOLEAN] /\ once'[w]
      /\ bodyClosed' \in [Worker -> BOOLEAN]
      /\ ended' \in [Worker -> 0 .. 1] /\ errors' = errors
      /\ ended'[w] = 1
      /\ \A v \in Worker \ {w} :
            /\ ended'[v] = ended[v] /\ once'[v] = once[v]
            /\ bodyClosed'[v] = bodyClosed[v]
  BY <1>1, <1>2, CloseStepEffect
<1>4. OthersKeep(w) /\ CallTypes' /\ pc'[w] \in {"idle", "closeSecond"}
  BY <1>1, <1>3 DEF CallTypes, OthersKeep, PC
<1>5. Recorded(w)' /\ ClosedLast(w)'
  BY <1>3, <1>4 DEF Recorded, ClosedLast
<1>6. Owed(w) = 0 /\ Owed(w)' = 0
  BY <1>1, <1>4 DEF Owed, Uncounted
<1> QED
  BY <1>1, <1>3, <1>4, <1>5, <1>6, OthersKeepCallInv, BalanceKept
  DEF CallTypes

LEMMA OtherCloseKeeps ==
    ASSUME CallInv, Balanced, NEW w \in Worker, OtherClose(w)
    PROVE  CallInv' /\ Balanced'
<1> USE DEF CallInv
<1>1. /\ program = "other" /\ CloseStep(w, closer[w])
      /\ \/ closer[w] = "idle" /\ pc[w] \in {"body", "read"} /\ ~once[w]
         \/ closer[w] = "closeSecond"
      /\ closer' = [closer EXCEPT ![w] = IF closer[w] = "closeSecond"
                                         THEN "idle" ELSE "closeSecond"]
      /\ UNCHANGED <<program, func, pc, readErr, failures>>
  BY DEF OtherClose, NextOfClose, config
<1>2. /\ closer[w] # "closeSecond" => ended[w] = (IF once[w] THEN 1 ELSE 0)
      /\ closer[w] = "closeSecond" => once[w]
  BY <1>1 DEF Recorded, ClosedLast
<1>3. /\ once' \in [Worker -> BOOLEAN] /\ once'[w]
      /\ bodyClosed' \in [Worker -> BOOLEAN]
      /\ ended' \in [Worker -> 0 .. 1] /\ errors' = errors
      /\ closer[w] # "closeSecond" => ended'[w] = 1
      /\ closer[w] = "closeSecond" => ended'[w] = ended[w]
      /\ \A v \in Worker \ {w} :
            /\ ended'[v] = ended[v] /\ once'[v] = once[v]
            /\ bodyClosed'[v] = bodyClosed[v]
  BY <1>1, <1>2, CloseStepEffect
<1>4. OthersKeep(w) /\ CallTypes'
  BY <1>1, <1>3 DEF CallTypes, OthersKeep
<1>5. Recorded(w)' /\ ClosedLast(w)'
  BY <1>1, <1>2, <1>3 DEF Recorded, ClosedLast, IsRequest
<1>6. Owed(w)' <= Owed(w) /\ Owed(w) \in Nat /\ Owed(w)' \in Nat
  BY <1>1, <1>3 DEF Owed, Uncounted
<1>7. errors' = errors /\ failures' = failures
      /\ errors \in Nat /\ failures \in Nat
  BY <1>1, <1>3 DEF CallTypes
<1> QED
  BY <1>1, <1>4, <1>5, <1>6, <1>7, OthersKeepCallInv, BalanceKept

LEMMA CallInvInductive ==
    ASSUME CallInv, Balanced, [Next]_vars
    PROVE  CallInv' /\ Balanced'
<1>1. ASSUME NEW w \in Worker, CallStep(w) PROVE CallInv' /\ Balanced'
  BY <1>1, StartCallKeeps, ReadRequestBodyKeeps, RoundTripFailsKeeps,
     RoundTripReturnsKeeps, ReadBodyKeeps, ReturnReadKeeps, CloseBodyKeeps,
     OtherCloseKeeps
  DEF CallStep
<1>2. CASE StopPool \/ AllEnded \/ UNCHANGED vars
  <2>1. UNCHANGED <<program, func, pc, closer, body, counters, failures>>
    BY <1>2 DEF StopPool, AllEnded, vars, config
  <2>2. CallInv'
    BY <2>1 DEF CallInv, CallTypes, Recorded, ClosedLast, IsRequest, body,
                counters
  <2>3. UncountedSet' = UncountedSet
    BY <2>1 DEF UncountedSet, Uncounted, body
  <2>4. Balanced'
    BY <2>1, <2>3 DEF Balanced, counters
  <2> QED
    BY <2>2, <2>4
<1> QED
  BY <1>1, <1>2 DEF Next

LEMMA InitCallInv == Init => CallInv /\ Balanced
<1> SUFFICES ASSUME Init PROVE CallInv /\ Balanced
  OBVIOUS
<1>1. once = [w \in Worker |-> FALSE] /\ bodyClosed = [w \in Worker |-> FALSE]
  BY DEF Init
<1>2. once \in [Worker -> BOOLEAN] /\ bodyClosed \in [Worker -> BOOLEAN]
  BY <1>1, Zenon
<1>3. \A w \in Worker : ~once[w] /\ ~bodyClosed[w]
  BY <1>1
<1>4. CallTypes
  BY <1>2 DEF Init, CallTypes, PC, ReadErrors
<1>5. \A w \in Worker : Recorded(w) /\ ClosedLast(w)
  BY <1>3 DEF Init, Recorded, ClosedLast, IsRequest
<1>6. UncountedSet = {}
  BY DEF Init, UncountedSet, Uncounted
<1>7. Balanced
  BY <1>6, FS_EmptySet DEF Init, Balanced
<1> QED
  BY <1>4, <1>5, <1>7 DEF CallInv

LEMMA CallInvHolds == Spec => [](CallInv /\ Balanced)
<1>1. Init => CallInv /\ Balanced
  BY InitCallInv
<1>2. CallInv /\ Balanced /\ [Next]_vars => (CallInv /\ Balanced)'
  BY CallInvInductive
<1> QED
  BY <1>1, <1>2, PTL DEF Spec

\* Whoever reads and closes a body, and in whatever order, its request is
\* recorded once, and it is recorded when the call is over.
THEOREM EndsOnceHolds == Spec => []EndsOnce
<1>1. CallInv => EndsOnce
  BY DEF CallInv, CallTypes, Recorded, EndsOnce
<1> QED
  BY <1>1, CallInvHolds, PTL

\* No body that the program closes, and no request that the end of the run
\* cancels, is ever counted as an error.
THEOREM CloseIsNoErrorHolds == Spec => []CloseIsNoError
<1>1. CallInv /\ Balanced => CloseIsNoError
  <2> SUFFICES ASSUME CallInv, Balanced PROVE CloseIsNoError
    OBVIOUS
  <2>1. Cardinality(UncountedSet) \in Nat
    <3>1. UncountedSet \subseteq Worker
      BY DEF UncountedSet
    <3> QED
      BY <3>1, CallsAssumption, FS_Subset, FS_CardinalityType
  <2> QED
    BY <2>1 DEF Balanced, CallInv, CallTypes, CloseIsNoError
<1> QED
  BY <1>1, CallInvHolds, PTL

\* Every failure of the server or the network is counted when its call is over,
\* unless another goroutine has closed the body first.
THEOREM FailuresCountedHolds == Spec => []FailuresCounted
<1>1. CallInv /\ Balanced => FailuresCounted
  <2> SUFFICES ASSUME CallInv, Balanced, program # "other",
                      \A w \in Worker : pc[w] # "read"
               PROVE  errors = failures
    BY DEF FailuresCounted
  <2>1. UncountedSet = {}
    BY DEF UncountedSet, Uncounted
  <2>2. Cardinality(UncountedSet) = 0
    BY <2>1, FS_EmptySet
  <2> QED
    BY <2>2 DEF Balanced, CallInv, CallTypes
<1> QED
  BY <1>1, CallInvHolds, PTL

----------------------------------------------------------------------------
(* UploadIsExact: what the transport has read, and what remains. *)

\* Remainders add up.
LEMMA RemainderIsUnique ==
    ASSUME NEW n \in Nat, NEW p \in Nat \ {0}, NEW q \in Int,
           NEW r \in 0 .. p - 1, n = p * q + r
    PROVE  n % p = r
<1> DEFINE k == n \div p
<1>1. /\ k \in Int /\ n % p \in 0 .. p - 1
      /\ n = p * k + (n % p)
  OBVIOUS
<1> HIDE DEF k
<1>2. p * (k - q) = r - (n % p)
  BY <1>1
<1>3. CASE k - q >= 1
  <2>1. p * (k - q) >= p
    BY <1>1, <1>3
  <2> QED
    BY <1>1, <1>2, <2>1
<1>4. CASE k - q <= -1
  <2>1. p * (k - q) <= -p
    BY <1>1, <1>4
  <2> QED
    BY <1>1, <1>2, <2>1
<1>5. CASE k = q
  BY <1>1, <1>2, <1>5
<1> QED
  BY <1>1, <1>3, <1>4, <1>5

LEMMA RemainderOfSum ==
    ASSUME NEW a \in Nat, NEW b \in Nat, NEW p \in Nat \ {0}
    PROVE  ((a % p) + b) % p = (a + b) % p
<1> DEFINE k == a \div p
           m == ((a % p) + b) \div p
           r == ((a % p) + b) % p
<1>1. /\ k \in Int /\ a % p \in Nat /\ a = p * k + (a % p)
  OBVIOUS
<1>2. /\ m \in Int /\ r \in 0 .. p - 1 /\ (a % p) + b = p * m + r
  BY <1>1
<1> HIDE DEF k, m, r
<1>3. a + b = p * (k + m) + r
  <2>1. p * (k + m) = p * k + p * m
    BY <1>1, <1>2
  <2> QED
    BY <1>1, <1>2, <2>1
<1>4. (a + b) % p = r
  <2>1. k + m \in Int /\ a + b \in Nat
    BY <1>1, <1>2
  <2> QED
    BY <1>2, <1>3, <2>1, RemainderIsUnique
<1> QED
  BY <1>4 DEF r

\* A read writes no more than what remains, the chunk and the buffer allow, and
\* nothing only when nothing remains.
LEMMA ToWriteIsBounded ==
    ASSUME NEW r, r.sizeRemaining \in Nat, r.chunkSize \in Nat \ {0},
           NEW len \in Nat \ {0}
    PROVE  /\ ToWrite(r, len) \in 0 .. r.sizeRemaining
           /\ ToWrite(r, len) = 0 => r.sizeRemaining = 0
<1> DEFINE S == {r.sizeRemaining, r.chunkSize, len}
<1>1. \E x \in S : \A y \in S : x <= y
  <2>1. CASE r.sizeRemaining <= r.chunkSize /\ r.sizeRemaining <= len
    BY <2>1
  <2>2. CASE r.chunkSize <= r.sizeRemaining /\ r.chunkSize <= len
    BY <2>2
  <2>3. CASE len <= r.sizeRemaining /\ len <= r.chunkSize
    BY <2>3
  <2> QED
    BY <2>1, <2>2, <2>3
<1>2. Min(S) \in S /\ \A y \in S : Min(S) <= y
  BY <1>1 DEF Min
<1> QED
  BY <1>2 DEF ToWrite

\* What has been read of the body of a worker's upload, and what its reader
\* still has to give.
Reading(w) == IsUpload(w) /\ pc[w] \in {"sent", "eof"}

Exact(w) ==
    /\ sent[w] \in Seq(Int)
    /\ Len(sent[w]) <= size
    /\ mode = "ascii" =>
          \A i \in 1 .. Len(sent[w]) : sent[w][i] = (i - 1) % Pattern
    /\ Reading(w) =>
          /\ reader[w].sizeRemaining = size - Len(sent[w])
          /\ reader[w].chunkSize \in Nat \ {0}
          /\ reader[w].mode = mode
          /\ mode = "ascii" =>
                reader[w].asciiPatternIndex = Len(sent[w]) % Pattern
          /\ pc[w] = "eof" => Len(sent[w]) = size

Readers == [sizeRemaining : Int, chunkSize : Int, asciiPatternIndex : Int,
            mode : Modes]

UploadInv ==
    /\ size \in 0 .. Word - 1 /\ chunk \in Nat /\ mode \in Modes
    /\ DOMAIN sent = Worker
    /\ reader \in [Worker -> Readers]
    /\ \A w \in Worker : Exact(w)

OthersUpload(w) ==
    \A v \in Worker \ {w} :
        /\ pc'[v] = pc[v] /\ func'[v] = func[v]
        /\ sent'[v] = sent[v] /\ reader'[v] = reader[v]

LEMMA OneWorkerUploads ==
    ASSUME UploadInv, NEW w \in Worker, OthersUpload(w),
           UNCHANGED <<mode, size, chunk>>, DOMAIN sent' = Worker,
           reader' \in [Worker -> Readers], Exact(w)'
    PROVE  UploadInv'
<1>1. ASSUME NEW v \in Worker \ {w} PROVE Exact(v)'
  <2>1. Exact(v)
    BY DEF UploadInv
  <2>2. /\ pc'[v] = pc[v] /\ func'[v] = func[v]
        /\ sent'[v] = sent[v] /\ reader'[v] = reader[v]
        /\ mode' = mode /\ size' = size
    BY <1>1 DEF OthersUpload
  <2> QED
    BY <2>1, <2>2 DEF Exact, Reading, IsUpload
<1> QED
  BY <1>1 DEF UploadInv

LEMMA NewReaderTyped ==
    ASSUME NEW s \in Nat, NEW c \in Nat, NEW m \in Modes
    PROVE  /\ NewReader(s, c, m) \in Readers
           /\ NewReader(s, c, m).sizeRemaining = s
           /\ NewReader(s, c, m).chunkSize \in Nat \ {0}
           /\ NewReader(s, c, m).asciiPatternIndex = 0
           /\ NewReader(s, c, m).mode = m
BY ContentsAssumption DEF NewReader, Readers, ChunkSize

LEMMA StartCallUploads ==
    ASSUME CallTypes, UploadInv, NEW w \in Worker, StartCall(w)
    PROVE  UploadInv'
<1>0. /\ pc \in [Worker -> PC] /\ DOMAIN func = Worker
      /\ reader \in [Worker -> Readers] /\ DOMAIN sent = Worker
      /\ size \in Nat /\ chunk \in Nat /\ mode \in Modes
  BY ContentsAssumption DEF CallTypes, UploadInv
<1>1. PICK f \in MixCalls(choices) :
          /\ func' = [func EXCEPT ![w] = f]
          /\ reader' = [reader EXCEPT ![w] =
                           IF f = "upload" THEN NewReader(size, chunk, mode)
                           ELSE EmptyReader]
          /\ Goto(w, IF f \in {"get", "upload"} THEN "sent" ELSE "idle")
  BY DEF StartCall
<1>2. /\ sent' = [sent EXCEPT ![w] = <<>>]
      /\ UNCHANGED <<mode, size, chunk>>
  BY DEF StartCall, config
<1>3. NewReader(size, chunk, mode) \in Readers /\ EmptyReader \in Readers
  BY <1>0, NewReaderTyped DEF EmptyReader, Modes
<1>4. OthersUpload(w) /\ DOMAIN sent' = Worker /\ reader' \in [Worker -> Readers]
  BY <1>0, <1>1, <1>2, <1>3 DEF OthersUpload, Goto
<1>5. /\ sent'[w] = <<>> /\ size' = size /\ mode' = mode /\ func'[w] = f
      /\ f = "upload" => pc'[w] = "sent"
                         /\ reader'[w] = NewReader(size, chunk, mode)
  BY <1>0, <1>1, <1>2 DEF Goto
<1>6. 0 % Pattern = 0
  BY ContentsAssumption, RemainderIsUnique
<1>7. Exact(w)'
  BY <1>0, <1>5, <1>6, NewReaderTyped DEF Exact, Reading, IsUpload
<1> QED
  BY <1>2, <1>4, <1>7, OneWorkerUploads

\* The bytes of one read, after those of the reads before.
LEMMA FilledGoesOn ==
    ASSUME NEW s \in Seq(Int), NEW r, NEW n \in Nat,
           r.asciiPatternIndex \in Int, r.mode \in Modes
    PROVE  /\ s \o Filled(r, n) \in Seq(Int)
           /\ Len(s \o Filled(r, n)) = Len(s) + n
           /\ \A i \in 1 .. Len(s) : (s \o Filled(r, n))[i] = s[i]
           /\ r.mode = "ascii" =>
                 \A i \in 1 .. n : (s \o Filled(r, n))[Len(s) + i]
                                      = (r.asciiPatternIndex + i - 1) % Pattern
<1> DEFINE t == Filled(r, n)
<1>1. /\ t \in Seq(Int) /\ Len(t) = n
      /\ r.mode = "ascii" =>
            \A i \in 1 .. n : t[i] = (r.asciiPatternIndex + i - 1) % Pattern
  <2>1. \A i \in 1 .. n : (r.asciiPatternIndex + i - 1) % Pattern \in Int
    BY ContentsAssumption
  <2>2. t \in [1 .. n -> Int]
    BY <2>1 DEF Filled, Random
  <2> QED
    BY <2>2 DEF Filled
<1> HIDE DEF t
<1>2. /\ s \o t \in Seq(Int) /\ Len(s \o t) = Len(s) + n
      /\ \A i \in 1 .. Len(s) : (s \o t)[i] = s[i]
      /\ \A i \in 1 .. n : (s \o t)[Len(s) + i] = t[i]
  BY <1>1
<1> QED
  BY <1>1, <1>2 DEF t

LEMMA ReadRequestBodyUploads ==
    ASSUME CallTypes, UploadInv, NEW w \in Worker, ReadRequestBody(w)
    PROVE  UploadInv'
<1>0. /\ pc \in [Worker -> PC] /\ DOMAIN sent = Worker
      /\ reader \in [Worker -> Readers] /\ size \in 0 .. Word - 1
      /\ mode \in Modes /\ Word \in Nat \ {0} /\ Pattern \in Nat \ {0}
      /\ UNCHANGED <<func, mode, size, chunk>>
  BY ContentsAssumption DEF CallTypes, UploadInv, ReadRequestBody, config
<1>1. /\ Exact(w) /\ Reading(w) /\ pc[w] = "sent"
  BY DEF UploadInv, ReadRequestBody, Reading
<1> DEFINE s == sent[w]
           r == reader[w]
<1>2. /\ s \in Seq(Int) /\ Len(s) <= size /\ Len(s) \in Nat
      /\ r.sizeRemaining = size - Len(s) /\ r.sizeRemaining \in Nat
      /\ r.chunkSize \in Nat \ {0} /\ r.mode = mode /\ r \in Readers
      /\ mode = "ascii" => r.asciiPatternIndex = Len(s) % Pattern
      /\ mode = "ascii" => \A i \in 1 .. Len(s) : s[i] = (i - 1) % Pattern
  <2>1. /\ s \in Seq(Int) /\ Len(s) <= size
        /\ r.sizeRemaining = size - Len(s)
        /\ r.chunkSize \in Nat \ {0} /\ r.mode = mode
        /\ mode = "ascii" => r.asciiPatternIndex = Len(s) % Pattern
    BY <1>1 DEF Exact
  <2>2. mode = "ascii" => \A i \in 1 .. Len(s) : s[i] = (i - 1) % Pattern
    BY <1>1 DEF Exact
  <2>3. r \in Readers
    BY <1>0
  <2> HIDE DEF s, r
  <2>4. Len(s) \in Nat /\ r.sizeRemaining \in Nat
    BY <1>0, <2>1
  <2> QED
    BY <2>1, <2>2, <2>3, <2>4
<1>3. PICK len \in Buffers :
          LET n == ToWrite(reader[w], len)
          IN  IF AtEOF(reader[w], len)
              THEN Goto(w, "eof") /\ UNCHANGED upload
              ELSE /\ sent' = [sent EXCEPT ![w] = @ \o Filled(reader[w], n)]
                   /\ reader' = [reader EXCEPT ![w] = AfterRead(@, n)]
                   /\ UNCHANGED pc
  BY DEF ReadRequestBody
<1> DEFINE n == ToWrite(r, len)
<1>4. n \in 0 .. r.sizeRemaining /\ (n = 0 => r.sizeRemaining = 0)
  BY <1>2, CallsAssumption, ToWriteIsBounded
<1> HIDE DEF n, s, r
<1>5. CASE AtEOF(r, len)
  <2>1. /\ pc' = [pc EXCEPT ![w] = "eof"] /\ sent' = sent /\ reader' = reader
    BY <1>3, <1>5 DEF Goto, upload, r
  <2>2. Len(s) = size
    BY <1>0, <1>2, <1>4, <1>5 DEF AtEOF, n
  <2>3. OthersUpload(w)
    BY <1>0, <2>1 DEF OthersUpload
  <2>4. Exact(w)'
    BY <1>0, <1>1, <2>1, <2>2 DEF Exact, Reading, IsUpload, s
  <2> QED
    BY <1>0, <2>1, <2>3, <2>4, OneWorkerUploads
<1>6. CASE ~AtEOF(r, len)
  <2>1. /\ sent' = [sent EXCEPT ![w] = s \o Filled(r, n)]
        /\ reader' = [reader EXCEPT ![w] = AfterRead(r, n)]
        /\ pc' = pc
    BY <1>3, <1>6 DEF n, r, s
  <2>2. n \in Nat /\ r.sizeRemaining - n = size - (Len(s) + n)
        /\ r.sizeRemaining - n \in 0 .. Word - 1
    BY <1>0, <1>2, <1>4
  <2>3. (r.sizeRemaining - n) % Word = r.sizeRemaining - n
    BY <1>0, <2>2, RemainderIsUnique
  <2>4. /\ AfterRead(r, n) \in Readers
        /\ AfterRead(r, n).sizeRemaining = size - (Len(s) + n)
        /\ AfterRead(r, n).chunkSize \in Nat \ {0}
        /\ AfterRead(r, n).mode = mode
        /\ mode = "ascii" => AfterRead(r, n).asciiPatternIndex
                                = (r.asciiPatternIndex + n) % Pattern
    <3>1. r.asciiPatternIndex \in Int
          /\ (r.asciiPatternIndex + n) % Pattern \in Int
      BY <1>0, <1>2, <2>2 DEF Readers
    <3>2. AfterRead(r, n) =
              [r EXCEPT !.sizeRemaining = r.sizeRemaining - n,
                        !.asciiPatternIndex =
                            IF r.mode = "random" THEN r.asciiPatternIndex
                            ELSE (r.asciiPatternIndex + n) % Pattern]
      BY <2>3 DEF AfterRead
    <3> DEFINE left == r.sizeRemaining - n
               index == IF r.mode = "random" THEN r.asciiPatternIndex
                        ELSE (r.asciiPatternIndex + n) % Pattern
    <3>a. AfterRead(r, n) =
              [r EXCEPT !.sizeRemaining = left, !.asciiPatternIndex = index]
          /\ left \in Int /\ index \in Int
      BY <2>2, <3>1, <3>2
    <3> HIDE DEF left, index
    <3>b. /\ AfterRead(r, n) \in Readers
          /\ AfterRead(r, n).sizeRemaining = left
          /\ AfterRead(r, n).chunkSize = r.chunkSize
          /\ AfterRead(r, n).mode = r.mode
          /\ AfterRead(r, n).asciiPatternIndex = index
      BY <1>2, <3>a DEF Readers
    <3>3. /\ AfterRead(r, n) \in Readers
          /\ AfterRead(r, n).sizeRemaining = r.sizeRemaining - n
          /\ AfterRead(r, n).chunkSize = r.chunkSize
          /\ AfterRead(r, n).mode = r.mode
          /\ r.mode # "random" => AfterRead(r, n).asciiPatternIndex
                                   = (r.asciiPatternIndex + n) % Pattern
      BY <3>b DEF left, index
    <3> QED
      BY <1>2, <2>2, <3>3
  <2>5. mode = "ascii" =>
            (r.asciiPatternIndex + n) % Pattern = (Len(s) + n) % Pattern
    BY <1>0, <1>2, <2>2, RemainderOfSum
  <2> DEFINE t == s \o Filled(r, n)
  <2>6. /\ t \in Seq(Int) /\ Len(t) = Len(s) + n
        /\ \A i \in 1 .. Len(s) : t[i] = s[i]
        /\ mode = "ascii" =>
              \A i \in 1 .. n :
                  t[Len(s) + i] = (r.asciiPatternIndex + i - 1) % Pattern
    <3>1. s \in Seq(Int) /\ r.asciiPatternIndex \in Int /\ r.mode \in Modes
          /\ r.mode = mode
      BY <1>2 DEF Readers
    <3>2. /\ t \in Seq(Int) /\ Len(t) = Len(s) + n
          /\ \A i \in 1 .. Len(s) : t[i] = s[i]
      BY <2>2, <3>1, FilledGoesOn
    <3>3. r.mode = "ascii" =>
              \A i \in 1 .. n :
                  t[Len(s) + i] = (r.asciiPatternIndex + i - 1) % Pattern
      BY <2>2, <3>1, FilledGoesOn
    <3> HIDE DEF t
    <3> QED
      BY <3>1, <3>2, <3>3
  <2> HIDE DEF t
  <2>7. mode = "ascii" => \A i \in 1 .. Len(t) : t[i] = (i - 1) % Pattern
    <3> SUFFICES ASSUME mode = "ascii", NEW i \in 1 .. Len(t)
                 PROVE  t[i] = (i - 1) % Pattern
      OBVIOUS
    <3>1. CASE i <= Len(s)
      BY <1>2, <2>6, <3>1
    <3>2. CASE i > Len(s)
      <4> DEFINE j == i - Len(s)
      <4>1. j \in 1 .. n /\ i = Len(s) + j /\ j - 1 \in Nat
        BY <1>2, <2>2, <2>6, <3>2
      <4>2. t[i] = (r.asciiPatternIndex + j - 1) % Pattern
        BY <2>6, <4>1
      <4>3. r.asciiPatternIndex = Len(s) % Pattern /\ Len(s) % Pattern \in Nat
        BY <1>0, <1>2
      <4>4. ((Len(s) % Pattern) + (j - 1)) % Pattern = (Len(s) + (j - 1)) % Pattern
        BY <1>0, <1>2, <4>1, RemainderOfSum
      <4> HIDE DEF j
      <4>5. r.asciiPatternIndex + j - 1 = (Len(s) % Pattern) + (j - 1)
            /\ Len(s) + (j - 1) = i - 1
        BY <1>2, <2>2, <4>1, <4>3
      <4> QED
        BY <4>2, <4>4, <4>5
    <3> QED
      BY <1>2, <2>6, <3>1, <3>2
  <2>8. OthersUpload(w) /\ DOMAIN sent' = Worker /\ reader' \in [Worker -> Readers]
        /\ sent'[w] = t /\ reader'[w] = AfterRead(r, n)
    BY <1>0, <2>1, <2>4 DEF OthersUpload, t
  <2>9. Exact(w)'
    <3>1. /\ pc'[w] = "sent" /\ mode' = mode /\ size' = size
          /\ Len(t) <= size
      BY <1>0, <1>1, <1>2, <1>4, <2>1, <2>2, <2>6
    <3>2. /\ reader'[w].sizeRemaining = size - Len(t)
          /\ reader'[w].chunkSize \in Nat \ {0}
          /\ reader'[w].mode = mode
      BY <2>4, <2>6, <2>8
    <3>3. mode = "ascii" => reader'[w].asciiPatternIndex = Len(t) % Pattern
      BY <2>4, <2>5, <2>6, <2>8
    <3>4. sent'[w] = t /\ t \in Seq(Int)
      BY <2>6, <2>8
    <3> QED
      BY <2>7, <3>1, <3>2, <3>3, <3>4 DEF Exact
  <2> QED
    BY <1>0, <2>8, <2>9, OneWorkerUploads
<1> QED
  BY <1>5, <1>6

LEMMA RoundTripUploads ==
    ASSUME CallTypes, UploadInv, NEW w \in Worker,
           RoundTripFails(w) \/ RoundTripReturns(w)
    PROVE  UploadInv'
<1>0. /\ pc \in [Worker -> PC] /\ DOMAIN sent = Worker
      /\ reader \in [Worker -> Readers] /\ size \in Nat
      /\ UNCHANGED <<func, mode, size, chunk>>
  BY ContentsAssumption
  DEF CallTypes, UploadInv, RoundTripFails, RoundTripReturns, config
<1>1. DropBody(w) /\ (Goto(w, "idle") \/ Goto(w, "body"))
  BY DEF RoundTripFails, RoundTripReturns
<1>2. EmptyReader \in Readers
  BY NewReaderTyped DEF EmptyReader, Modes
<1>3. OthersUpload(w) /\ DOMAIN sent' = Worker /\ reader' \in [Worker -> Readers]
  BY <1>0, <1>1, <1>2 DEF OthersUpload, DropBody, Goto
<1>4. sent'[w] = <<>> /\ pc'[w] \in {"idle", "body"}
  BY <1>0, <1>1 DEF DropBody, Goto
<1>5. Exact(w)'
  BY <1>0, <1>4 DEF Exact, Reading
<1> QED
  BY <1>0, <1>3, <1>5, OneWorkerUploads

\* The other steps leave the request bodies alone.
LEMMA BodyStepUploads ==
    ASSUME CallTypes, UploadInv, UNCHANGED <<config, func, upload>>,
           \/ pc' = pc
           \/ \E w \in Worker, at \in {"read", "close", "closeSecond", "idle"} :
                 Goto(w, at)
    PROVE  UploadInv'
<1>1. /\ UNCHANGED <<mode, size, chunk, func, reader, sent>>
      /\ pc \in [Worker -> PC]
  BY DEF config, upload, CallTypes
<1>2. ASSUME NEW v \in Worker PROVE Exact(v)'
  <2>1. Exact(v)
    BY DEF UploadInv
  <2>2. pc'[v] \in {"sent", "eof"} => pc'[v] = pc[v]
    BY <1>1 DEF Goto
  <2> QED
    BY <1>1, <2>1, <2>2 DEF Exact, Reading, IsUpload
<1> QED
  BY <1>1, <1>2 DEF UploadInv

LEMMA UploadInvInductive ==
    ASSUME CallInv, UploadInv, [Next]_vars
    PROVE  UploadInv'
<1>0. CallTypes
  BY DEF CallInv
<1>1. ASSUME NEW w \in Worker, StartCall(w) PROVE UploadInv'
  BY <1>0, <1>1, StartCallUploads
<1>2. ASSUME NEW w \in Worker, ReadRequestBody(w) PROVE UploadInv'
  BY <1>0, <1>2, ReadRequestBodyUploads
<1>3. ASSUME NEW w \in Worker, RoundTripFails(w) \/ RoundTripReturns(w)
      PROVE  UploadInv'
  BY <1>0, <1>3, RoundTripUploads
<1>4. ASSUME NEW w \in Worker,
             ReadBody(w) \/ ReturnRead(w) \/ CloseBody(w) \/ OtherClose(w)
      PROVE  UploadInv'
  <2>1. UNCHANGED <<config, func, upload>>
    BY <1>4 DEF ReadBody, ReturnRead, CloseBody, OtherClose
  <2>2. pc' = pc \/ \E at \in {"read", "close", "closeSecond", "idle"} : Goto(w, at)
    BY <1>4 DEF ReadBody, ReturnRead, CloseBody, OtherClose, NextOfClose
  <2> QED
    BY <1>0, <2>1, <2>2, BodyStepUploads
<1>5. CASE StopPool \/ AllEnded \/ UNCHANGED vars
  <2>1. UNCHANGED <<config, func, upload, pc>>
    BY <1>5 DEF StopPool, AllEnded, vars
  <2> QED
    BY <1>0, <2>1, BodyStepUploads
<1> QED
  BY <1>1, <1>2, <1>3, <1>4, <1>5 DEF Next, CallStep

LEMMA InitUploadInv == Init => UploadInv
<1> SUFFICES ASSUME Init PROVE UploadInv
  OBVIOUS
<1>1. size \in 0 .. Word - 1 /\ chunk \in Nat /\ mode \in Modes
  BY CallsAssumption, ContentsAssumption DEF Init, UploadSize
<1>2. EmptyReader \in Readers
  BY NewReaderTyped DEF EmptyReader, Modes
<1>3. /\ sent = [w \in Worker |-> <<>>] /\ reader = [w \in Worker |-> EmptyReader]
      /\ pc = [w \in Worker |-> "idle"]
  BY DEF Init
<1>4. \A w \in Worker : Exact(w)
  BY <1>1, <1>3 DEF Exact, Reading
<1> QED
  BY <1>1, <1>2, <1>3, <1>4 DEF UploadInv

\* Whatever the sizes, the chunks and the buffers of the transport, a request
\* body never gets longer than its announced length, is complete at its end, and
\* repeats the ASCII pattern without a break (reader.go:89-135).
THEOREM UploadIsExactHolds == Spec => []UploadIsExact
<1>1. UploadInv => UploadIsExact
  <2> SUFFICES ASSUME UploadInv, NEW w \in Worker, IsUpload(w)
               PROVE  /\ mode = "ascii" =>
                            \A i \in DOMAIN sent[w] :
                                sent[w][i] = (i - 1) % Pattern
                      /\ Len(sent[w]) <= size
                      /\ pc[w] = "eof" => Len(sent[w]) = size
    BY DEF UploadIsExact
  <2>1. Exact(w) /\ DOMAIN sent[w] = 1 .. Len(sent[w])
    BY DEF UploadInv, Exact
  <2> QED
    BY <2>1 DEF Exact, Reading
<1>2. Init => UploadInv
  BY InitUploadInv
<1>3. CallInv /\ UploadInv /\ [Next]_vars => UploadInv'
  BY UploadInvInductive
<1> QED
  BY <1>1, <1>2, <1>3, CallInvHolds, PTL DEF Spec

----------------------------------------------------------------------------
(* The choice of Mix: what its sums of weights are. *)

LEMMA PositiveIsNat ==
    ASSUME NEW cs \in WeightedFuncs, NEW i \in DOMAIN cs
    PROVE  cs[i].weight \in Int /\ Positive(cs, i) \in Nat
<1>1. cs[i] \in [weight : Int, func : STRING]
  <2> DEFINE R == [weight : Int, func : STRING]
  <2>1. cs \in Seq(R)
    BY DEF WeightedFuncs
  <2> HIDE DEF R
  <2>2. cs[i] \in R
    BY <2>1
  <2> QED
    BY <2>2 DEF R
<1>2. cs[i].weight \in Int
  BY <1>1
<1> QED
  BY <1>2 DEF Positive

\* The recursion by which MapThenSumSet is defined has the same solutions for
\* the weights as for a function with their values.
LEMMA CurrentIsSum ==
    ASSUME NEW cs, NEW n \in Nat, NEW g,
           \A j \in 1 .. n : g[j] = Positive(cs, j) /\ g[j] \in Int
    PROVE  Current(cs, n) = SumOver(g, 1 .. n)
<1> DEFINE Solves(it) ==
              it = [s \in SUBSET (1 .. n) |->
                       IF s = {} THEN 0
                       ELSE Positive(cs, Picked(s)) + it[s \ {Picked(s)}]]
           it == CHOOSE h : Solves(h)
<1>1. Under(1 .. n, n + 1) /\ IntOn(g, 1 .. n) /\ n + 1 \in Nat
  BY DEF Under, IntOn
<1>2. ASSUME NEW h PROVE Iterates(g, 1 .. n, h) <=> Solves(h)
  <2>1. ASSUME NEW s \in SUBSET (1 .. n)
        PROVE  (IF s = {} THEN 0 ELSE g[Picked(s)] + h[s \ {Picked(s)}])
                  = (IF s = {} THEN 0
                     ELSE Positive(cs, Picked(s)) + h[s \ {Picked(s)}])
    <3>1. s # {} => Picked(s) \in 1 .. n
      BY DEF Picked
    <3> QED
      BY <3>1
  <2> QED
    BY <2>1 DEF Iterates
<1>3. Solves(it)
  <2>1. \E h : Solves(h)
    <3> HIDE DEF Solves
    <3> QED
      BY <1>1, <1>2, IteratesExists
  <2> HIDE DEF Solves
  <2> QED
    BY <2>1
<1>4. Current(cs, n) = it[1 .. n]
  BY DEF Current, MapThenSumSet, MapThenFoldSet, Picked
<1> HIDE DEF it, Solves
<1>5. PICK f : Summing(g, 1 .. n, n + 1, f)
  BY <1>1, SummingExists
<1>6. it[1 .. n] = f[n + 1]
  BY <1>1, <1>2, <1>3, <1>5, IteratesSums
<1>7. SumOver(g, 1 .. n) = f[n + 1]
  BY <1>1, <1>5, SumOverIsSum
<1> QED
  BY <1>4, <1>6, <1>7

\* Mix adds up the positive weights.
LEMMA CurrentAddsUp ==
    ASSUME NEW cs \in WeightedFuncs
    PROVE  /\ Current(cs, 0) = 0
           /\ \A i \in DOMAIN cs :
                 Current(cs, i) = Current(cs, i - 1) + Positive(cs, i)
           /\ \A i \in 0 .. Len(cs) : Current(cs, i) \in Nat
           /\ TotalWeight(cs) = Current(cs, Len(cs))
<1>1. Len(cs) \in Nat /\ DOMAIN cs = 1 .. Len(cs)
  BY DEF WeightedFuncs
<1>2. \A j \in 1 .. Len(cs) : Positive(cs, j) \in Nat
  BY <1>1, PositiveIsNat
<1> DEFINE g == [j \in DOMAIN cs |-> Positive(cs, j)]
<1>3. \A j \in 1 .. Len(cs) : g[j] = Positive(cs, j) /\ g[j] \in Nat
  BY <1>1, <1>2
<1> HIDE DEF g
<1>4. ASSUME NEW i \in 0 .. Len(cs)
      PROVE  /\ Current(cs, i) = SumOver(g, 1 .. i) /\ Current(cs, i) \in Int
             /\ SumOver(g, 1 .. 0) = 0
             /\ i > 0 => SumOver(g, 1 .. i) = SumOver(g, 1 .. i - 1) + g[i]
  <2>1. i \in Nat /\ \A k \in 1 .. i : k \in 1 .. Len(cs)
    BY <1>1
  <2>2. \A k \in 1 .. i : g[k] = Positive(cs, k) /\ g[k] \in Int
    BY <1>3, <2>1
  <2>3. Current(cs, i) = SumOver(g, 1 .. i)
    BY <2>1, <2>2, CurrentIsSum
  <2> QED
    BY <2>1, <2>2, <2>3, SumOverPrefix
<1>5. Current(cs, 0) = 0
  BY <1>1, <1>4, 0 \in 0 .. Len(cs)
<1>6. ASSUME NEW i \in DOMAIN cs
      PROVE  Current(cs, i) = Current(cs, i - 1) + Positive(cs, i)
  <2>1. /\ i \in 0 .. Len(cs) /\ i - 1 \in 0 .. Len(cs)
        /\ i \in 1 .. Len(cs) /\ i > 0
    BY <1>1
  <2> QED
    BY <1>3, <1>4, <2>1
<1>7. \A i \in 0 .. Len(cs) : Current(cs, i) \in Nat
  <2> DEFINE S == {i \in Nat : i <= Len(cs) => Current(cs, i) \in Nat}
  <2>1. 0 \in S
    BY <1>5
  <2>2. ASSUME NEW i \in Nat, i \in S PROVE i + 1 \in S
    <3> SUFFICES ASSUME i + 1 <= Len(cs) PROVE Current(cs, i + 1) \in Nat
      OBVIOUS
    <3>1. i + 1 \in DOMAIN cs /\ i + 1 - 1 = i /\ Current(cs, i) \in Nat
      BY <1>1, <2>2
    <3>2. Positive(cs, i + 1) \in Nat
      BY <1>1, <1>2, <3>1
    <3>3. Current(cs, i + 1) = Current(cs, i) + Positive(cs, i + 1)
      BY <1>6, <3>1
    <3> QED
      BY <3>1, <3>2, <3>3
  <2> HIDE DEF S
  <2>3. ASSUME NEW i \in 0 .. Len(cs) PROVE i \in S
    BY <1>1, <2>1, <2>2, SetInduction, i \in Nat
  <2> QED
    BY <1>1, <2>3 DEF S
<1>8. TotalWeight(cs) = Current(cs, Len(cs))
  BY <1>1 DEF TotalWeight, Current
<1> QED
  BY <1>5, <1>6, <1>7, <1>8

LEMMA CurrentGrows ==
    ASSUME NEW cs \in WeightedFuncs, NEW i \in 0 .. Len(cs),
           NEW j \in i .. Len(cs)
    PROVE  Current(cs, i) <= Current(cs, j)
<1>1. Len(cs) \in Nat /\ DOMAIN cs = 1 .. Len(cs)
  BY DEF WeightedFuncs
<1> DEFINE S == {d \in Nat : i + d <= Len(cs) =>
                    Current(cs, i) <= Current(cs, i + d)}
<1>2. 0 \in S
  BY <1>1, CurrentAddsUp
<1>3. ASSUME NEW d \in Nat, d \in S PROVE d + 1 \in S
  <2> SUFFICES ASSUME i + (d + 1) <= Len(cs)
               PROVE  Current(cs, i) <= Current(cs, i + (d + 1))
    OBVIOUS
  <2>1. /\ i + (d + 1) \in DOMAIN cs /\ i + (d + 1) - 1 = i + d
        /\ i + d \in 0 .. Len(cs) /\ Current(cs, i) <= Current(cs, i + d)
    BY <1>1, <1>3
  <2>2. /\ Current(cs, i + (d + 1))
              = Current(cs, i + d) + Positive(cs, i + (d + 1))
        /\ Positive(cs, i + (d + 1)) \in Nat
        /\ Current(cs, i) \in Nat /\ Current(cs, i + d) \in Nat
    BY <2>1, CurrentAddsUp, PositiveIsNat
  <2> QED
    BY <2>1, <2>2
<1> HIDE DEF S
<1>4. j - i \in S
  BY <1>1, <1>2, <1>3, SetInduction
<1> QED
  BY <1>1, <1>4 DEF S

\* A random number chooses the function in whose part of the sum it is.
LEMMA ChosenBetween ==
    ASSUME NEW cs \in WeightedFuncs, NEW i \in DOMAIN cs, NEW r \in Nat
    PROVE  Chosen(cs, r) = i
              <=> (Current(cs, i - 1) <= r /\ r < Current(cs, i))
<1>1. /\ Len(cs) \in Nat /\ DOMAIN cs = 1 .. Len(cs)
      /\ i \in 1 .. Len(cs) /\ i - 1 \in 0 .. Len(cs)
  BY DEF WeightedFuncs
<1>2. \A j \in 0 .. Len(cs) : Current(cs, j) \in Nat
  BY CurrentAddsUp
<1> DEFINE reached == {j \in DOMAIN cs :
                          cs[j].weight > 0 /\ r < Current(cs, j)}
<1>3. Chosen(cs, r) = IF reached = {} THEN 0 ELSE Min(reached)
  BY DEF Chosen
<1>4. ASSUME Chosen(cs, r) = i
      PROVE  Current(cs, i - 1) <= r /\ r < Current(cs, i)
  <2>1. reached # {}
    BY <1>1, <1>3, <1>4
  <2>2. reached \subseteq Nat
    BY <1>1
  <2>3. \E m \in reached : \A k \in reached : m <= k
    <3> HIDE DEF reached
    <3> QED
      BY <2>1, <2>2, LeastNumber
  <2>4. Min(reached) \in reached /\ \A k \in reached : Min(reached) <= k
    <3> HIDE DEF reached
    <3> QED
      BY <2>3 DEF Min
  <2>5. i \in reached /\ \A k \in reached : i <= k
    BY <1>3, <1>4, <2>1, <2>4
  <2>6. ASSUME r < Current(cs, i - 1) PROVE FALSE
    <3> DEFINE A == {j \in Nat : j <= i - 1 /\ r < Current(cs, j)}
    <3>1. i - 1 \in A
      BY <1>1, <2>6
    <3>2. PICK j \in A : \A k \in A : j <= k
      <4> HIDE DEF A
      <4>1. A \subseteq Nat
        BY DEF A
      <4> QED
        BY <3>1, <4>1, LeastNumber
    <3>3. j # 0
      BY CurrentAddsUp
    <3>4. /\ j \in DOMAIN cs /\ j <= i - 1 /\ r < Current(cs, j)
          /\ j - 1 \in Nat /\ j - 1 \in 0 .. Len(cs) /\ j - 1 <= i - 1
      BY <1>1, <3>2, <3>3
    <3>5. j - 1 \notin A
      <4> HIDE DEF A
      <4>1. j \in Nat /\ ~(j <= j - 1)
        BY <3>2 DEF A
      <4> QED
        BY <3>2, <4>1
    <3>6. ~(r < Current(cs, j - 1))
      BY <3>4, <3>5
    <3>7. Current(cs, j) = Current(cs, j - 1) + Positive(cs, j)
      BY <3>4, CurrentAddsUp
    <3>8. cs[j].weight > 0
      <4>1. j \in 0 .. Len(cs) /\ Positive(cs, j) \in Nat
        BY <1>1, <3>4, PositiveIsNat
      <4>2. PICK a \in Nat : a = Current(cs, j - 1)
        BY <1>2, <3>4
      <4>3. PICK b \in Nat : b = Current(cs, j)
        BY <1>2, <4>1
      <4>4. PICK p \in Nat : p = Positive(cs, j)
        BY <4>1
      <4>5. r < b /\ ~(r < a) /\ b = a + p
        BY <3>4, <3>6, <3>7, <4>2, <4>3, <4>4
      <4>6. p > 0
        BY <4>5
      <4> QED
        BY <4>4, <4>6 DEF Positive
    <3>9. j \in reached
      BY <3>4, <3>8
    <3> QED
      BY <1>1, <2>5, <3>9
  <2> QED
    BY <1>1, <1>2, <2>5, <2>6
<1>5. ASSUME Current(cs, i - 1) <= r, r < Current(cs, i)
      PROVE  Chosen(cs, r) = i
  <2>1. cs[i].weight > 0
    <3>1. Current(cs, i) = Current(cs, i - 1) + Positive(cs, i)
      BY CurrentAddsUp
    <3> QED
      BY <1>1, <1>2, <1>5, <3>1 DEF Positive
  <2>2. i \in reached
    BY <1>5, <2>1
  <2>3. ASSUME NEW j \in reached PROVE i <= j
    <3> SUFFICES ASSUME j < i PROVE FALSE
      BY <1>1
    <3>1. j \in 0 .. Len(cs) /\ i - 1 \in j .. Len(cs)
      BY <1>1
    <3>2. Current(cs, j) <= Current(cs, i - 1)
      BY <3>1, CurrentGrows
    <3>3. Current(cs, j) \in Nat /\ Current(cs, i - 1) \in Nat
      BY <1>1, <1>2, <3>1
    <3>4. r < Current(cs, j)
      OBVIOUS
    <3> HIDE DEF reached
    <3> QED
      BY <1>5, <3>2, <3>3, <3>4
  <2>4. reached \subseteq Nat
    BY <1>1
  <2>5. Min(reached) = i
    <3> HIDE DEF reached
    <3>1. Min(reached) \in reached /\ \A k \in reached : Min(reached) <= k
      BY <2>2, <2>3 DEF Min
    <3>2. Min(reached) \in Nat /\ i \in Nat
           /\ Min(reached) <= i /\ i <= Min(reached)
      BY <2>2, <2>3, <2>4, <3>1
    <3> QED
      BY <3>2
  <2> QED
    BY <1>3, <2>2, <2>5
<1> QED
  BY <1>4, <1>5

\* Whatever its arguments, Mix is proportional.
LEMMA MixProportional ==
    ASSUME NEW cs \in WeightedFuncs
    PROVE  IsProportional(cs)
<1> SUFFICES ASSUME NEW i \in DOMAIN cs
             PROVE  Cardinality({r \in 0 .. TotalWeight(cs) - 1 :
                                    Chosen(cs, r) = i}) = Positive(cs, i)
  BY DEF IsProportional
<1>1. /\ Len(cs) \in Nat /\ DOMAIN cs = 1 .. Len(cs)
      /\ i \in 0 .. Len(cs) /\ i - 1 \in 0 .. Len(cs)
      /\ Len(cs) \in i .. Len(cs)
  BY DEF WeightedFuncs
<1>2. PICK a \in Nat : a = Current(cs, i - 1)
  BY <1>1, CurrentAddsUp
<1>3. PICK b \in Nat : b = Current(cs, i)
  BY <1>1, CurrentAddsUp
<1>4. PICK t \in Nat : t = TotalWeight(cs) /\ b <= t
  BY <1>1, <1>3, CurrentAddsUp, CurrentGrows
<1>5. PICK p \in Nat : p = Positive(cs, i) /\ b = a + p
  BY <1>2, <1>3, CurrentAddsUp, PositiveIsNat
<1>6. {r \in 0 .. t - 1 : Chosen(cs, r) = i} = a .. b - 1
  <2>1. \A r \in Nat : Chosen(cs, r) = i <=> (a <= r /\ r < b)
    BY <1>2, <1>3, ChosenBetween
  <2> QED
    BY <1>4, <2>1
<1>7. Cardinality(a .. b - 1) = p
  <2>1. a \in Int /\ b - 1 \in Int
    OBVIOUS
  <2> QED
    BY <1>5, <2>1, FS_Interval
<1> QED
  BY <1>4, <1>5, <1>6, <1>7

\* Mix chooses in proportion to the weights, for any weights (compose.go:32-75).
THEOREM MixIsProportionalHolds == Spec => []MixIsProportional
<1>1. Init => choices \in WeightedFuncs
  BY CallsAssumption DEF Init
<1>2. choices \in WeightedFuncs /\ [Next]_vars => (choices \in WeightedFuncs)'
  BY DEF Next, CallStep, StartCall, ReadRequestBody, RoundTripFails,
         RoundTripReturns, ReadBody, ReturnRead, CloseBody, OtherClose,
         StopPool, AllEnded, vars, config
<1>3. choices \in WeightedFuncs => MixIsProportional
  BY MixProportional DEF MixIsProportional
<1> QED
  BY <1>1, <1>2, <1>3, PTL DEF Spec

----------------------------------------------------------------------------
(* The percentiles of the request durations. *)

DurationsType == durations \in [SampleBuckets -> Nat]

DurationsMove ==
    \/ durations' = durations
    \/ \E b \in Durations : durations' = [durations EXCEPT ![b] = @ + 1]

LEMMA EndOnceMoves ==
    ASSUME NEW w, NEW err, EndOnce(w, err)
    PROVE  DurationsMove
BY DEF EndOnce, End, DurationsMove, counters

LEMMA DurationsTypeInductive ==
    ASSUME DurationsType, [Next]_vars
    PROVE  DurationsType'
<1>1. ASSUME NEW w \in Worker, CallStep(w) PROVE DurationsMove
  <2>1. CASE StartCall(w)
    BY <2>1 DEF StartCall, DurationsMove
  <2>2. CASE ReadRequestBody(w)
    BY <2>2 DEF ReadRequestBody, counters, DurationsMove
  <2>3. CASE RoundTripFails(w)
    BY <2>3 DEF RoundTripFails, DurationsMove
  <2>4. CASE RoundTripReturns(w)
    BY <2>4 DEF RoundTripReturns, End, DurationsMove
  <2>5. CASE ReadBody(w)
    BY <2>5 DEF ReadBody, counters, DurationsMove
  <2>6. CASE ReturnRead(w)
    BY <2>6, EndOnceMoves DEF ReturnRead
  <2>7. ASSUME NEW at, CloseStep(w, at) PROVE DurationsMove
    BY <2>7, EndOnceMoves DEF CloseStep, counters, DurationsMove
  <2>8. CASE CloseBody(w) \/ OtherClose(w)
    BY <2>7, <2>8 DEF CloseBody, OtherClose
  <2> QED
    BY <1>1, <2>1, <2>2, <2>3, <2>4, <2>5, <2>6, <2>8 DEF CallStep
<1>2. ASSUME StopPool \/ AllEnded \/ UNCHANGED vars PROVE DurationsMove
  BY <1>2 DEF StopPool, AllEnded, vars, counters, DurationsMove
<1>3. DurationsMove
  BY <1>1, <1>2 DEF Next
<1> QED
  BY <1>3, CallsAssumption DEF DurationsType, DurationsMove

\* Whatever has been measured, a percentile lies in the bucket of the sample
\* that it stands for (formatter.go:140-201).
THEOREM PercentilesFitHolds == Spec => []PercentilesFit
<1>1. Init => DurationsType
  BY DEF Init, DurationsType
<1>2. DurationsType => PercentilesFit
  <2> SUFFICES ASSUME DurationsType, NEW percent \in Percents,
                      NEW native \in BOOLEAN
               PROVE  IsPercentile(Percentile(Histogram(durations, native),
                                              percent),
                                   durations, percent, native, LastBucket)
    BY DEF PercentilesFit
  <2>1. AreSamples(durations)
    BY CallsAssumption DEF DurationsType, AreSamples
  <2>2. percent \in 1 .. 99 /\ LastBucket \in Nat \ {0}
    BY CallsAssumption
  <2>3. CASE native
    <3>1. native = TRUE /\ Histogram(durations, native)
                             = NativeHistogram(durations)
      BY <2>3 DEF Histogram
    <3> QED
      BY <2>1, <2>2, <3>1, NativePercentile
  <2>4. CASE ~native
    <3>1. native = FALSE /\ Histogram(durations, native)
                              = ClassicHistogram(durations, LastBucket)
      BY <2>4 DEF Histogram
    <3> QED
      BY <2>1, <2>2, <3>1, ClassicPercentile
  <2> QED
    BY <2>3, <2>4
<1>3. DurationsType /\ [Next]_vars => DurationsType'
  BY DurationsTypeInductive
<1> QED
  BY <1>1, <1>2, <1>3, PTL DEF Spec

=============================================================================
