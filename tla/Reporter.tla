------------------------------ MODULE Reporter ------------------------------
(***************************************************************************)
(* The metrics reporter (metrics_reporter.rs): a thread that wakes up      *)
(* every interval, looks at the counters the other threads change, and     *)
(* writes a line unless it would say what the last one said.               *)
(***************************************************************************)
EXTENDS Counters

CONSTANTS
    ReportEvery,   \* metrics_interval_secs
    PollEvery,     \* POLL_INTERVAL
    Heartbeat,     \* QUIET_HEARTBEAT
    AlertAge,      \* EVENT_SILENCE_ALERT
    Bumped,        \* the totals that change in this model
    MaxBumps,      \* bound: how often any counter changes
    MaxClock       \* bound of the clock

VARIABLES
    counters,  \* the run's counters
    slotDrops, \* the input slot's count of dropped frames
    clock,     \* the time
    bumps,     \* changes so far
    due,       \* the reporter: last tick, totals at it, last line and its time
    log        \* the lines: frames they add up to, and what the last tick saw

vars == <<counters, slotDrops, clock, bumps, due, log>>

NoLine == [c \in DOMAIN NewCounters |-> -1]

Init ==
    /\ counters = NewCounters
    /\ slotDrops = 0
    /\ clock = 0
    /\ bumps = 0
    /\ due = [tick |-> 0, out |-> 0, dropped |-> 0, line |-> NoLine, at |-> 0, on |-> TRUE]
    /\ log = [frames |-> 0, drops |-> 0, ticked |-> NewCounters, ticks |-> 0]

(***************************************************************************)
(* The other threads.  The reporter reads the counters one by one while    *)
(* they change; no property below compares two of them.                    *)
(***************************************************************************)
Counted(new) ==
    /\ bumps < MaxBumps
    /\ counters' = new
    /\ bumps' = bumps + 1
    /\ UNCHANGED <<clock, due, log>>

Bump == \E total \in Bumped : Counted(AddTo(counters, total, 1)) /\ UNCHANGED slotDrops
\* A frame is overwritten in the slot; the worker catches up now and then.
SlotDrops ==
    /\ bumps < MaxBumps
    /\ slotDrops' = slotDrops + 1
    /\ bumps' = bumps + 1
    /\ UNCHANGED <<counters, clock, due, log>>
WorkerSyncs ==
    /\ counters["frames_dropped"] # slotDrops
    /\ counters' = SyncDropped(counters, slotDrops)
    /\ UNCHANGED <<slotDrops, clock, bumps, due, log>>
ConsumerMoves == \E status \in 0..1 :
    status # counters["consumer_status"] /\ Counted(SetConsumerStatus(counters, status))
        /\ UNCHANGED slotDrops
\* A resync ages the last event, or sees one.
Resyncs == \E age \in {0, AlertAge - 1, AlertAge, AlertAge + 1, Unset} :
    Counted(Measure(AddTo(counters, "consumer_resync_total", 1),
                    "consumer_last_external_event_age_secs", age)) /\ UNCHANGED slotDrops

(***************************************************************************)
(* tick_verdict.                                                           *)
(***************************************************************************)
Age(c) == c["consumer_last_external_event_age_secs"]
Silent(c) == Age(c) # Unset /\ Age(c) >= AlertAge
CrossedSilence(prev, cur) == Silent(cur) /\ ~Silent(prev)

Excluded == {"idle_frames_pushed_total", "consumer_resync_total",
             "consumer_last_external_event_age_secs"}
SameLine(prev, cur) == \A c \in DOMAIN cur \ Excluded : prev[c] = cur[c]

\* Fault: silence is a change like any other that is excluded.
EmitWithoutSilence(prev, cur, frames, drops, quiet) ==
    frames # 0 \/ drops # 0 \/ quiet >= Heartbeat \/ ~SameLine(prev, cur)

Emits(prev, cur, frames, drops, quiet) ==
    \/ frames # 0
    \/ drops # 0
    \/ quiet >= Heartbeat
    \/ CrossedSilence(prev, cur)
    \/ ~SameLine(prev, cur)

(***************************************************************************)
(* reporter_loop: sleep to the next tick, at most a poll at a time.  The   *)
(* time it reckons with is when it meant to wake up.                       *)
(***************************************************************************)
Positive(n) == IF n < 0 THEN 0 ELSE n
SleepFor == LET left == Positive(ReportEvery - (clock - due.tick))
            IN  IF left < PollEvery THEN left ELSE PollEvery

Sleep(late) ==
    /\ due.on
    /\ clock + SleepFor + late <= MaxClock
    /\ LET now    == clock + SleepFor
           frames == Positive(counters["frames_out"] - due.out)
           drops  == Positive(counters["frames_dropped"] - due.dropped)
           first  == due.line = NoLine
           emits  == first \/ Emits(due.line, counters, frames, drops, now - due.at)
       IN  /\ clock' = now + late
           /\ IF now - due.tick < ReportEvery THEN UNCHANGED <<due, log>>
              ELSE /\ due' = [due EXCEPT !.tick = now,
                                         !.out = counters["frames_out"],
                                         !.dropped = counters["frames_dropped"],
                                         !.line = IF emits THEN counters ELSE @,
                                         !.at = IF emits THEN now ELSE @]
                   /\ log' = [frames |-> log.frames + (IF emits THEN frames ELSE 0),
                              drops |-> log.drops + (IF emits THEN drops ELSE 0),
                              ticked |-> counters, ticks |-> log.ticks + 1]
    /\ UNCHANGED <<counters, slotDrops, bumps>>

\* MetricsReporter::drop, or the run's flag: the loop is left at its next look.
ReporterStops ==
    /\ due.on
    /\ due' = [due EXCEPT !.on = FALSE]
    /\ UNCHANGED <<counters, slotDrops, clock, bumps, log>>

Next ==
    \/ Bump \/ SlotDrops \/ WorkerSyncs \/ ConsumerMoves \/ Resyncs
    \/ \E late \in 0..1 : Sleep(late)
    \/ ReporterStops

Spec == Init /\ [][Next]_vars

(***************************************************************************)
(* What the log can be relied on for.                                      *)
(***************************************************************************)
Ticked == log.ticks > 0

\* The frames and drops of all lines add up to the totals: none are in a tick that
\* was suppressed, and none are in two lines.
LinesAddUp == log.frames = due.out /\ log.drops = due.dropped

\* After a tick the last line says what the counters said then, whatever else a
\* suppressed tick left out.
LastLineIsTrue ==
    Ticked => /\ SameLine(due.line, log.ticked)
              /\ Silent(log.ticked) => Silent(due.line)

\* A reporter that works is heard of within a heartbeat.
HeartbeatIsKept == Ticked => due.tick - due.at < Heartbeat

\* Drops are counted as the slot counts them, however seldom the worker looks.
DropsCountedOnce == counters["frames_dropped"] <= slotDrops

ReporterHolds == LinesAddUp /\ LastLineIsTrue /\ HeartbeatIsKept /\ DropsCountedOnce
=============================================================================
