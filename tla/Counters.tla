------------------------------ MODULE Counters ------------------------------
(***************************************************************************)
(* metrics.rs and runtime_metrics.rs: the counters of a run, the rings of  *)
(* latencies and what is read from them.  Operators only.                  *)
(***************************************************************************)
EXTENDS Integers, Sequences, FiniteSets, SequencesExt

\* Gauges that have not been measured: larger than any value, and no value.
Unset == 1000

Gauges == {"consumer_status", "consumer_source", "consumer_last_external_event_age_secs",
           "output_stream_up", "external_openers"}
Levels == {"processing_threads", "consumer_clients"}
Totals ==
    {"frames_in", "frames_out", "frames_dropped", "fallback_count", "effect_error_count",
     "inference_runtime_fallback_gpu_to_cpu", "blur_runtime_fallback_gpu_to_cpu",
     "idle_entered_total", "idle_frames_pushed_total", "input_acquire_attempts_total",
     "input_acquire_failures_total", "resume_failures_total", "unattributable_wakes_total",
     "consumer_transitions_total", "frames_out_while_no_consumer_total",
     "input_reacquire_total", "input_reacquire_failures_total", "input_down_ms_total",
     "consumer_resync_total", "consumer_resync_corrections_total",
     "consumer_resync_failures_total", "output_stream_down_total"}

NewCounters == [c \in Gauges \cup Levels \cup Totals |-> IF c \in Gauges THEN Unset ELSE 0]

\* The inc_ and add_ of a total, the set_ of a gauge or a level.
AddTo(counters, total, n) == [counters EXCEPT ![total] = @ + n]
Measure(counters, gauge, value) == [counters EXCEPT ![gauge] = value]
\* A change of the consumer's status counts as a transition.
SetConsumerStatus(counters, status) ==
    AddTo(Measure(counters, "consumer_status", status), "consumer_transitions_total", 1)

\* sync_dropped: the counter itself is the baseline, so nothing is counted twice.
SyncDropped(counters, slotTotal) ==
    IF slotTotal > counters["frames_dropped"]
    THEN [counters EXCEPT !["frames_dropped"] = slotTotal] ELSE counters

(***************************************************************************)
(* Rings and percentiles.                                                  *)
(***************************************************************************)
Capacity(n) == IF n < 1 THEN 1 ELSE n

\* Fault: the ring grows by one before it drops anything.
PushKeepingOne(ring, value, capacity) ==
    Append(IF Len(ring) > Capacity(capacity) THEN Tail(ring) ELSE ring, value)
PushSample(ring, value, capacity) ==
    Append(IF Len(ring) = Capacity(capacity) THEN Tail(ring) ELSE ring, value)

\* sort_unstable: some order of the samples in which none is followed by a smaller one.
Sorts(ranks, ring) ==
    /\ \A i \in DOMAIN ring : \E j \in DOMAIN ring : ranks[j] = i
    /\ \A i, j \in DOMAIN ring : i < j => ring[ranks[i]] <= ring[ranks[j]]
SortedSamples(ring) ==
    LET ranks == CHOOSE r \in [DOMAIN ring -> DOMAIN ring] : Sorts(r, ring)
    IN  [i \in DOMAIN ring |-> ring[ranks[i]]]

\* percentile_us of sorted samples; p in hundredths.
Percentile(sorted, p) ==
    LET n        == Len(sorted)
        share    == IF p < 0 THEN 0 ELSE IF p > 100 THEN 100 ELSE p
        position == (share * n + 99) \div 100
    IN  IF n = 0 THEN 0
        ELSE IF position = 0 THEN sorted[1]
        ELSE sorted[IF position > n THEN n ELSE position]

\* What a percentile is: a sample that at least that share of them do not exceed,
\* and no smaller sample does.
Below(ring, v) == Cardinality({i \in DOMAIN ring : ring[i] <= v})
IsPercentile(v, ring, p) ==
    /\ \E i \in DOMAIN ring : ring[i] = v
    /\ Below(ring, v) * 100 >= p * Len(ring)
    /\ \A i \in DOMAIN ring : ring[i] < v => Below(ring, ring[i]) * 100 < p * Len(ring)

(***************************************************************************)
(* What a line says of a window: frames per unit of time, in hundredths    *)
(* (compute_fps, round2).                                                  *)
(***************************************************************************)
FramesPerUnit(frames, window) ==
    IF window <= 0 THEN 0 ELSE (200 * frames + window) \div (2 * window)

\* emit_metrics_line, with the stages and the CPU when there are any.
LinesOf(stages, cpu, periodic) ==
    <<IF periodic THEN "metrics tick" ELSE "run metrics">>
        \o (IF stages = <<>> THEN <<>> ELSE <<IF periodic THEN "stage timings" ELSE "run stage timings">>)
        \o (IF cpu = <<>> THEN <<>> ELSE <<IF periodic THEN "cpu shares" ELSE "run cpu shares">>)
=============================================================================
