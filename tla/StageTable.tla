----------------------------- MODULE StageTable -----------------------------
(***************************************************************************)
(* The per-stage latencies (StageTimings): an index from a stage to its    *)
(* place in a list of rings.  Effects record into it, a live change of a   *)
(* chain removes the stages that stopped, the reporter takes copies; a     *)
(* lock makes each of them one step.                                       *)
(***************************************************************************)
EXTENDS Counters

CONSTANTS
    Stages,      \* the stages there may be
    RingSize,    \* capacity of a ring
    MaxSamples   \* bound: samples taken in all

VARIABLES
    index,    \* the place of a stage in entries
    entries,  \* the stages with their rings, in order of first use
    copied,   \* the last snapshot
    taken     \* what was really recorded: every sample of a stage since its removal

vars == <<index, entries, copied, taken>>

Init ==
    /\ index = <<>>
    /\ entries = <<>>
    /\ copied = <<>>
    /\ taken = [s \in Stages |-> <<>>]

SamplesTaken == FoldLeft(LAMBDA sum, s : sum + Len(taken[s]), 0, SetToSeq(Stages))

\* A stage seen for the first time goes to the end of the list.
Registered(stage) ==
    IF stage \in DOMAIN index THEN [index |-> index, entries |-> entries]
    ELSE [index |-> [s \in DOMAIN index \cup {stage} |->
                        IF s = stage THEN Len(entries) + 1 ELSE index[s]],
          entries |-> Append(entries, [stage |-> stage, ring |-> <<>>])]

Record(stage, sample) ==
    LET with == Registered(stage)
        at   == with.index[stage]
    IN  /\ SamplesTaken < MaxSamples
        /\ index' = with.index
        /\ entries' = [with.entries EXCEPT ![at].ring = PushSample(@, sample, RingSize)]
        /\ taken' = [taken EXCEPT ![stage] = Append(@, sample)]
        /\ copied' = <<>>

Without(stage) == [s \in DOMAIN index \ {stage} |-> index[s]]

\* Fault: the places after the removed one are not moved up.
RemoveKeepingPlaces(stage) ==
    /\ stage \in DOMAIN index
    /\ entries' = RemoveAt(entries, index[stage])
    /\ index' = Without(stage)
    /\ taken' = [taken EXCEPT ![stage] = <<>>]
    /\ copied' = <<>>

\* Searched for in the list; the places after it move up.
RemoveStage(stage) ==
    /\ \E pos \in DOMAIN entries :
          /\ entries[pos].stage = stage
          /\ entries' = RemoveAt(entries, pos)
          /\ index' = [s \in DOMAIN Without(stage) |->
                          IF index[s] > pos THEN index[s] - 1 ELSE index[s]]
    /\ taken' = [taken EXCEPT ![stage] = <<>>]
    /\ copied' = <<>>

\* The percentiles of every ring, in the order of the list.
RingSummary(ring) ==
    LET sorted == SortedSamples(ring)
    IN  [count |-> Len(ring), p50 |-> Percentile(sorted, 50), p95 |-> Percentile(sorted, 95),
         p99 |-> Percentile(sorted, 99)]

TakeSnapshot ==
    /\ copied' = [i \in DOMAIN entries |-> [stage |-> entries[i].stage,
                                            latency |-> RingSummary(entries[i].ring)]]
    /\ UNCHANGED <<index, entries, taken>>

Next ==
    \/ \E stage \in Stages, sample \in 1..2 : Record(stage, sample)
    \/ \E stage \in Stages : RemoveStage(stage)
    \/ TakeSnapshot

Spec == Init /\ [][Next]_vars

(***************************************************************************)
(* What the table promises.                                                *)
(***************************************************************************)
\* The last samples of seq, at most as many as a ring holds.
Tailed(seq) == SubSeq(seq, IF Len(seq) > RingSize THEN Len(seq) - RingSize + 1 ELSE 1, Len(seq))

\* However stages come and go, every sample is in the ring of its own stage, the
\* latest ones are kept, and a stage that is back starts with none of the old ones.
SamplesStayHome ==
    \A stage \in Stages :
        IF stage \in DOMAIN index
        THEN /\ index[stage] \in DOMAIN entries
             /\ entries[index[stage]].stage = stage
             /\ entries[index[stage]].ring = Tailed(taken[stage])
        ELSE taken[stage] = <<>>

\* No stage is listed twice or left in the list without a place in the index.
OnePlaceEach == Len(entries) = Cardinality(DOMAIN index)

\* A snapshot has the percentiles of every ring there is, under the name of its stage.
SnapshotExact ==
    copied # <<>> =>
        /\ Len(copied) = Len(entries)
        /\ \A i \in DOMAIN entries :
              LET l    == copied[i].latency
                  ring == entries[i].ring
              IN  /\ copied[i].stage = entries[i].stage
                  /\ l.count = Len(ring) /\ l.count \in 1..RingSize
                  /\ IsPercentile(l.p50, ring, 50) /\ IsPercentile(l.p95, ring, 95)
                  /\ IsPercentile(l.p99, ring, 99)

StagesHold == SamplesStayHome /\ OnePlaceEach /\ SnapshotExact
=============================================================================
