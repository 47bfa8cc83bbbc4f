------------------------------- MODULE HttpCalls -------------------------------
(***************************************************************************)
(* HTTP requests of worker calls, measured by src/client/http.go: get and  *)
(* upload of src/cmd/echoclient, mixed by Mix, and programs that close the *)
(* response body early or from another goroutine.                          *)
(*                                                                         *)
(* The transport of net/http, which reads the request body and answers, is *)
(* external: what it may do is modelled.  Data of the response body and    *)
(* labels are left out.                                                    *)
(***************************************************************************)
EXTENDS CallContents, Percentiles

CONSTANTS
    Worker,         \* each has at most one request at a time
    Mixes,          \* choices of Mix
    Sizes, Chunks,  \* -size and -chunk of uploads
    Buffers,        \* lengths of the buffers the transport reads with
    Programs,       \* what calls the client: "command", a program that closes
                    \* a body "early", or from "other" goroutines
    SampleBuckets,  \* buckets of the request duration
    Durations,      \* those that occur
    LastBucket,     \* highest classic bucket
    Percents,       \* desiredPercentiles
    MaxCalls        \* bound: calls

ASSUME CallsAssumption ==
    /\ IsFiniteSet(Worker)
    /\ Mixes \subseteq WeightedFuncs
    /\ Sizes \subseteq 0 .. Word - 1 /\ Chunks \subseteq 0 .. Word - 1
    /\ Buffers \subseteq Nat \ {0}
    /\ Programs \subseteq {"command", "early", "other"}
    /\ Durations \subseteq SampleBuckets
    /\ SampleBuckets \subseteq Nat /\ IsFiniteSet(SampleBuckets)
    /\ LastBucket \in Nat \ {0} /\ Percents \subseteq 1 .. 99
    /\ MaxCalls \in Nat

VARIABLES
    program,    \* one of Programs
    choices,    \* the arguments of Mix
    mode,       \* the data of uploads
    size,       \* their total size: also the announced content length
    chunk,      \* their chunk size
    stopped,    \* the context of the pool is canceled
    calls,      \* calls so far
    func,       \* what each worker's call does
    pc,         \* where each worker is
    closer,     \* where the goroutine is that closes the worker's body
    reader,     \* request body
    sent,       \* bytes the transport has read from it, while it does
    readErr,    \* what the body's Read has returned
    once,       \* measuringBody.once is done
    bodyClosed, \* ReadCloser.Close of the response body has been called
    requests,   \* http_client_requests_total
    durations,  \* http_client_request_duration_seconds
    errors,     \* http_client_errors_total
    failures,   \* history: errors of the server or the network
    ended       \* history: how often the worker's call has been recorded

counters == <<requests, durations, errors, ended>>
body == <<readErr, once, bodyClosed>>
upload == <<reader, sent>>
config == <<program, choices, mode, size, chunk>>
vars == <<config, stopped, calls, func, pc, closer, upload, body,
          counters, failures>>

Goto(w, at) == pc' = [pc EXCEPT ![w] = at]

\* A size below the chunk is raised to it.
UploadSize(s, c) == IF c > s THEN c ELSE s

EmptyReader == NewReader(0, 0, "ascii")

\* Programs that are not the command have no flags: the options of a reader are
\* varied with the command only.
Init ==
    /\ program \in Programs /\ choices \in Mixes
    /\ mode \in Modes
    /\ \E s \in Sizes, c \in Chunks : size = UploadSize(s, c) /\ chunk = c
    /\ program # "command" => mode = "ascii" /\ chunk = 0
    /\ stopped = FALSE /\ calls = 0
    /\ func = [w \in Worker |-> "none"]
    /\ pc = [w \in Worker |-> "idle"]
    /\ closer = [w \in Worker |-> "idle"]
    /\ reader = [w \in Worker |-> EmptyReader]
    /\ sent = [w \in Worker |-> <<>>]
    /\ readErr = [w \in Worker |-> "none"]
    /\ once = [w \in Worker |-> FALSE]
    /\ bodyClosed = [w \in Worker |-> FALSE]
    /\ requests = 0 /\ errors = 0 /\ failures = 0
    /\ ended = [w \in Worker |-> 0]
    /\ durations = [b \in SampleBuckets |-> 0]

----------------------------------------------------------------------------
(* How a request ends. *)

\* Mutant of Ignored: asks the context, not the error.
IgnoredWhenStopped(err) == stopped

Ignored(err) == err = "canceled"

\* countError.
CountError(w, err) ==
    /\ errors' = IF Ignored(err) THEN errors ELSE errors + 1
    /\ ended' = [ended EXCEPT ![w] = @ + 1]

\* end of RoundTrip.
End(w, err) ==
    \/ /\ err \in {"nil", "EOF"}
       /\ \E b \in Durations : durations' = [durations EXCEPT ![b] = @ + 1]
       /\ ended' = [ended EXCEPT ![w] = @ + 1]
       /\ UNCHANGED errors
    \/ /\ err \notin {"nil", "EOF"}
       /\ CountError(w, err)
       /\ UNCHANGED durations

\* Mutant of OnceIsDone: no once.
AlwaysEnds(w) == FALSE

OnceIsDone(w) == once[w]

\* once.Do; end is a single step for other goroutines, which wait for it.
EndOnce(w, err) ==
    /\ once' = [once EXCEPT ![w] = TRUE]
    /\ IF OnceIsDone(w) THEN UNCHANGED counters
       ELSE End(w, err) /\ UNCHANGED requests

----------------------------------------------------------------------------
(* A worker call. *)

\* Calls end at once when Mix has nothing to call, or aborts the pool.
StartCall(w) ==
    /\ pc[w] = "idle" /\ closer[w] = "idle"
    /\ ~stopped
    /\ calls < MaxCalls
    /\ calls' = calls + 1
    /\ \E f \in MixCalls(choices) :
          /\ func' = [func EXCEPT ![w] = f]
          /\ stopped' = (f = "abort")
          /\ reader' = [reader EXCEPT ![w] =
                           IF f = "upload" THEN NewReader(size, chunk, mode)
                           ELSE EmptyReader]
          /\ Goto(w, IF f \in {"get", "upload"} THEN "sent" ELSE "idle")
    /\ sent' = [sent EXCEPT ![w] = <<>>]
    /\ ended' = [ended EXCEPT ![w] = 0]
    /\ readErr' = [readErr EXCEPT ![w] = "none"]
    /\ once' = [once EXCEPT ![w] = FALSE]
    /\ bodyClosed' = [bodyClosed EXCEPT ![w] = FALSE]
    /\ UNCHANGED <<config, closer, requests, durations, errors, failures>>

IsRequest(w) == func[w] \in {"get", "upload"}
IsUpload(w) == func[w] = "upload"

\* The transport reads the request body; at its end, or an early answer, it
\* reads no more.
ReadRequestBody(w) ==
    /\ pc[w] = "sent"
    /\ IsUpload(w)
    /\ \E len \in Buffers :
          LET n == ToWrite(reader[w], len)
          IN  IF AtEOF(reader[w], len)
              THEN Goto(w, "eof") /\ UNCHANGED upload
              ELSE /\ sent' = [sent EXCEPT ![w] = @ \o Filled(reader[w], n)]
                   /\ reader' = [reader EXCEPT ![w] = AfterRead(@, n)]
                   /\ UNCHANGED pc
    /\ UNCHANGED <<config, stopped, calls, func, closer, body, counters, failures>>

\* The errors of the transport: it has seen the context, or it has failed.
Errors == {"failed"} \cup (IF stopped THEN {"canceled"} ELSE {})

\* The request body is not used any more.
DropBody(w) ==
    /\ reader' = [reader EXCEPT ![w] = EmptyReader]
    /\ sent' = [sent EXCEPT ![w] = <<>>]

\* next.RoundTrip returns an error.
RoundTripFails(w) ==
    /\ pc[w] \in {"sent", "eof"}
    /\ \E err \in Errors :
          /\ CountError(w, err)
          /\ failures' = failures + (IF err = "failed" THEN 1 ELSE 0)
    /\ Goto(w, "idle")
    /\ DropBody(w)
    /\ UNCHANGED <<config, stopped, calls, func, closer, body, requests,
                   durations>>

\* next.RoundTrip returns a response: without a body to measure, or with one.
RoundTripReturns(w) ==
    /\ pc[w] \in {"sent", "eof"}
    /\ requests' = requests + 1
    /\ \/ End(w, "nil") /\ Goto(w, "idle")
       \/ Goto(w, "body") /\ UNCHANGED <<durations, errors, ended>>
    /\ DropBody(w)
    /\ UNCHANGED <<config, stopped, calls, func, closer, body, failures>>

\* ReadCloser.Read of the response body ends with an error.
ReadBody(w) ==
    /\ pc[w] = "body"
    /\ \E err \in IF bodyClosed[w] THEN {"closed"} ELSE Errors \cup {"EOF"} :
          /\ readErr' = [readErr EXCEPT ![w] = err]
          /\ failures' = failures + (IF err = "failed" THEN 1 ELSE 0)
    /\ Goto(w, "read")
    /\ UNCHANGED <<config, stopped, calls, func, closer, upload, once, bodyClosed,
                   counters>>

\* The rest of measuringBody.Read.
ReturnRead(w) ==
    /\ pc[w] = "read"
    /\ EndOnce(w, readErr[w])
    /\ Goto(w, "close")
    /\ UNCHANGED <<config, stopped, calls, func, closer, upload, readErr, bodyClosed,
                   failures>>

\* Mutant of EndsRequest: Close closes the connection first.
EndsRequestLast(at) == at = "closeSecond"

\* The first step of measuringBody.Close ends the request.
EndsRequest(at) == at # "closeSecond"

NextOfClose(at) == IF at = "closeSecond" THEN "idle" ELSE "closeSecond"

CloseStep(w, at) ==
    \/ EndsRequest(at) /\ EndOnce(w, "nil") /\ UNCHANGED bodyClosed
    \/ /\ ~EndsRequest(at)
       /\ bodyClosed' = [bodyClosed EXCEPT ![w] = TRUE]
       /\ UNCHANGED <<once, counters>>

CloseBody(w) ==
    /\ \/ pc[w] \in {"close", "closeSecond"}
       \/ pc[w] = "body" /\ program = "early"
    /\ CloseStep(w, pc[w])
    /\ Goto(w, NextOfClose(pc[w]))
    /\ UNCHANGED <<config, stopped, calls, func, closer, upload, readErr, failures>>

\* Another goroutine closes the body while the worker reads it.
OtherClose(w) ==
    /\ program = "other"
    /\ \/ closer[w] = "idle" /\ pc[w] \in {"body", "read"} /\ ~once[w]
       \/ closer[w] = "closeSecond"
    /\ CloseStep(w, closer[w])
    /\ closer' = [closer EXCEPT ![w] = NextOfClose(closer[w])]
    /\ UNCHANGED <<config, stopped, calls, func, pc, upload, readErr, failures>>

\* The pool stops.
StopPool ==
    /\ ~stopped
    /\ stopped' = TRUE
    /\ UNCHANGED <<config, calls, func, pc, closer, upload, body, counters, failures>>

\* No request is under way and none may start.
AllEnded ==
    /\ stopped \/ calls = MaxCalls
    /\ \A w \in Worker : pc[w] = "idle" /\ closer[w] = "idle"
    /\ UNCHANGED vars

CallStep(w) ==
    \/ StartCall(w) \/ ReadRequestBody(w)
    \/ RoundTripFails(w) \/ RoundTripReturns(w)
    \/ ReadBody(w) \/ ReturnRead(w) \/ CloseBody(w) \/ OtherClose(w)

Next == (\E w \in Worker : CallStep(w)) \/ StopPool \/ AllEnded

Spec == Init /\ [][Next]_vars

----------------------------------------------------------------------------
(* Properties. *)

\* Each request is recorded once, as a duration, an error or a canceled one:
\* when its response has no body to measure, or its body is read to the end or
\* closed, by whatever goroutine (http.go:77-107).
EndsOnce ==
    \A w \in Worker :
        /\ ended[w] <= 1
        /\ (IsRequest(w) /\ pc[w] = "idle") => ended[w] = 1

\* Only what the server or the network did is counted as an error: not a body
\* that the program closes, also while it is being read by another goroutine,
\* and not what the end of the run cancels (http.go:93-118).
CloseIsNoError == errors <= failures

\* Unless another goroutine closes the body, each failure is counted when the
\* call is over.
FailuresCounted ==
    (program # "other" /\ \A w \in Worker : pc[w] # "read") => errors = failures

\* However the transport reads it and whatever the flags, a request body has the
\* size its header announces, and the ASCII pattern goes on from one read to the
\* next (upload.go:56-71, reader.go:89-135).
UploadIsExact ==
    \A w \in Worker : IsUpload(w) =>
        /\ mode = "ascii" =>
              \A i \in DOMAIN sent[w] : sent[w][i] = (i - 1) % Pattern
        /\ Len(sent[w]) <= size
        /\ pc[w] = "eof" => Len(sent[w]) = size

\* Mix chooses in proportion to the weights, whatever weights there are
\* (compose.go:32-75).
MixIsProportional == IsProportional(choices)

Histogram(samples, native) ==
    IF native THEN NativeHistogram(samples)
    ELSE ClassicHistogram(samples, LastBucket)

\* Each percentile of a dump is in the bucket of the sample it stands for,
\* through the spans and deltas of native histograms as through cumulative
\* counts (formatter.go:140-201).
PercentilesFit ==
    \A percent \in Percents, native \in BOOLEAN :
        IsPercentile(Percentile(Histogram(durations, native), percent),
                     durations, percent, native, LastBucket)

=============================================================================
