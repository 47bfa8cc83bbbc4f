------------------------------ MODULE Percentiles ------------------------------
(***************************************************************************)
(* Percentiles of Prometheus histograms, src/metrics/formatter.go.  The    *)
(* samples are a function from bucket indexes to counts.  Bucket 0 is the  *)
(* zero bucket, bucket i holds (2^(i-1), 2^i], the native buckets of       *)
(* schema 0; a finer schema changes the bounds and nothing else.           *)
(***************************************************************************)
EXTENDS Integers, Sequences, FiniteSets, FiniteSetsExt

\* 2 to the power of i.
Bound[i \in Nat] == IF i = 0 THEN 1 ELSE 2 * Bound[i - 1]

SumOver(f, S) == MapThenSumSet(LAMBDA i : f[i], S)

Total(samples) == SumOver(samples, DOMAIN samples)

\* The samples in buckets 0 .. b.
UpTo(samples, b) == SumOver(samples, {i \in DOMAIN samples : i <= b})

\* The numbers of S in ascending order.
Ascending(S) ==
    [k \in 1 .. Cardinality(S) |->
        CHOOSE i \in S : Cardinality({j \in S : j < i}) = k - 1]

----------------------------------------------------------------------------
(* What the client library gathers. *)

\* A histogram without Schema: the cumulative counts of buckets 1 .. last.
ClassicHistogram(samples, last) ==
    [native |-> FALSE, total |-> Total(samples),
     cumulative |-> [b \in 1 .. last |-> UpTo(samples, b)]]

\* Buckets in the spans: those with samples, and gaps of at most two buckets.
InSpans(samples) ==
    LET used == {i \in DOMAIN samples : i > 0 /\ samples[i] > 0}
    IN  {i \in DOMAIN samples :
            \/ i \in used
            \/ \E a, b \in used : a < i /\ i < b /\ b - a <= 3}

\* The first of the buckets of each span, which follow each other.
Starts(indexes) ==
    {k \in DOMAIN indexes : k = 1 \/ indexes[k] # indexes[k - 1] + 1}

\* The offset of a span is the gap before its first bucket.
Spans(indexes) ==
    LET starts == Ascending(Starts(indexes))
        Gap(k) == indexes[k] - (IF k = 1 THEN 0 ELSE indexes[k - 1] + 1)
        After(j) == IF j = Len(starts) THEN Len(indexes) + 1 ELSE starts[j + 1]
    IN  [j \in DOMAIN starts |->
            [offset |-> Gap(starts[j]), length |-> After(j) - starts[j]]]

\* A histogram with Schema 0: each delta is the change from the bucket before.
NativeHistogram(samples) ==
    LET indexes == Ascending(InSpans(samples))
    IN  [native |-> TRUE, total |-> Total(samples), spans |-> Spans(indexes),
         deltas |-> [k \in DOMAIN indexes |->
                        samples[indexes[k]] -
                           (IF k = 1 THEN 0 ELSE samples[indexes[k - 1]])]]

----------------------------------------------------------------------------
(* formatter.go *)

ClassicBuckets(h) ==
    [b \in DOMAIN h.cumulative |->
        [lower |-> IF b = 1 THEN 0 ELSE Bound[b - 1], upper |-> Bound[b],
         count |-> h.cumulative[b] - (IF b = 1 THEN 0
                                      ELSE h.cumulative[b - 1])]]

\* Mutant of SpanBuckets: the offset counts from the start of the last span.
SpanBucketsFromStart(state, span) ==
    LET first == state.index + span.offset
    IN  [index |-> first, indexes |-> state.indexes \o
            [k \in 1 .. span.length |-> first + k - 1]]

\* One round of the loop over the spans.
SpanBuckets(state, span) ==
    LET first == state.index + span.offset
    IN  [index |-> first + span.length, indexes |-> state.indexes \o
            [k \in 1 .. span.length |-> first + k - 1]]

\* The loop: the indexes of the buckets in the spans.
SpanIndexes(spans) ==
    LET State[j \in 0 .. Len(spans)] ==
            IF j = 0 THEN [index |-> 0, indexes |-> <<>>]
            ELSE SpanBuckets(State[j - 1], spans[j])
    IN  State[Len(spans)].indexes

NativeBuckets(h) ==
    LET indexes == SpanIndexes(h.spans)
        counts == [k \in DOMAIN indexes |->
                      SumOver(h.deltas, 1 .. k)]
    IN  <<[lower |-> 0, upper |-> 0,
           count |-> h.total - SumOver(counts, DOMAIN counts)]>>
        \o [k \in DOMAIN indexes |->
               [lower |-> Bound[indexes[k] - 1], upper |-> Bound[indexes[k]],
                count |-> counts[k]]]

\* Samples in the buckets before k.
Before(buckets, k) ==
    SumOver([j \in DOMAIN buckets |-> buckets[j].count], 1 .. k - 1)

\* Mutant of HoldsRank: a rank at the end of a bucket goes to the next one.
HoldsRankAfterEnd(buckets, k, rank) ==
    buckets[k].count > 0 /\ 100 * (Before(buckets, k) + buckets[k].count) > rank

\* Bucket k is the first to reach the rank, a number in hundredths.
HoldsRank(buckets, k, rank) ==
    /\ buckets[k].count > 0
    /\ 100 * (Before(buckets, k) + buckets[k].count) >= rank

\* percentileFromHistogram, a fraction <<numerator, denominator>>.
Percentile(h, percent) ==
    LET buckets == IF h.native THEN NativeBuckets(h) ELSE ClassicBuckets(h)
        rank == h.total * percent
        holding == {k \in DOMAIN buckets : HoldsRank(buckets, k, rank)}
        k == Min(holding)
        b == buckets[k]
    IN  IF h.total = 0 THEN <<0, 1>>
        ELSE IF holding = {} THEN <<buckets[Len(buckets)].upper, 1>>
        ELSE <<100 * b.count * b.lower
                  + (b.upper - b.lower) * (rank - 100 * Before(buckets, k)),
               100 * b.count>>

----------------------------------------------------------------------------
(* What a percentile is. *)

\* The bucket of the smallest sample that percent of the samples do not exceed.
BucketOf(samples, percent) ==
    Min({i \in DOMAIN samples :
            100 * UpTo(samples, i) >= Total(samples) * percent
               /\ samples[i] > 0})

\* value is in that bucket.  Classic buckets 1 .. last start at 0, and a sample
\* above them counts as the highest bound.
IsPercentile(value, samples, percent, native, last) ==
    \/ Total(samples) = 0 /\ value[1] = 0
    \/ /\ Total(samples) > 0
       /\ LET i == BucketOf(samples, percent)
          IN  \/ native /\ i = 0 /\ value[1] = 0
              \/ ~native /\ i > last /\ value = <<Bound[last], 1>>
              \/ ~native /\ i <= 1
                 /\ value[1] >= 0 /\ value[1] <= Bound[1] * value[2]
              \/ /\ i > (IF native THEN 0 ELSE 1)
                 /\ native \/ i <= last
                 /\ value[1] >= Bound[i - 1] * value[2]
                 /\ value[1] <= Bound[i] * value[2]

=============================================================================
