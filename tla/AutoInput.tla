------------------------------ MODULE AutoInput ------------------------------
(***************************************************************************)
(* The daemon with `device = "auto"` (run_auto): look for a camera, run    *)
(* until the run ends, wait, look again; with the delay that grows while   *)
(* runs fail, the accounting of how long clients could not see the output, *)
(* and Ctrl-C at any moment.  Time is a clock of whole units.              *)
(***************************************************************************)
EXTENDS Devices

CONSTANTS
    Interval,   \* the poll interval while there is no camera
    BaseDelay,  \* acquire_backoff_base_ms
    MaxDelay,   \* acquire_backoff_max_ms
    Errors,     \* errors a run may end with
    MaxTime     \* bound of the clock

VARIABLES
    step,      \* where run_auto is
    now,       \* the clock
    stop,      \* SHUTDOWN_REQUESTED
    going,     \* the flag of the run's token, TRUE until it is told to end
    began,     \* when the run was started
    backoff,   \* failure_backoff, 0 for none
    until,     \* when the wait is over
    marks,     \* OUTPUT_DOWN_SINCE_MS, the two totals, and the epoch (-1: unset)
    seen       \* what really happened: the output's time down and coming back,
               \* the failures in a row, the last failure, a Ctrl-C nobody heard

vars == <<step, now, stop, going, began, backoff, until, marks, seen>>

Smaller(a, b) == IF a < b THEN a ELSE b
Larger(a, b) == IF a < b THEN b ELSE a

Init ==
    /\ step = "looking"
    /\ now = 0
    /\ stop = FALSE
    /\ going = FALSE
    /\ began = 0
    /\ backoff = 0
    /\ until = 0
    /\ marks = [since |-> 0, rebuilds |-> 0, invisible |-> 0, epoch |-> -1]
    /\ seen = [dark |-> -1, total |-> 0, returns |-> 0, row |-> 0, failed |-> -MaxDelay,
               unheard |-> FALSE]

(***************************************************************************)
(* The marks.  The epoch is the first time anything asks for it.           *)
(***************************************************************************)
Epoch == IF marks.epoch = -1 THEN now ELSE marks.epoch
Elapsed == now - Epoch

\* Fault: the first start of the process counts as a rebuild too.
MarkLiveAlways ==
    [since |-> 0, rebuilds |-> marks.rebuilds + 1, epoch |-> Epoch,
     invisible |-> marks.invisible + (IF marks.since = 0 THEN 0 ELSE Larger(Elapsed - marks.since, 0))]

MarkLive ==
    IF marks.since = 0 THEN marks
    ELSE [since |-> 0, rebuilds |-> marks.rebuilds + 1, epoch |-> Epoch,
          invisible |-> marks.invisible + Larger(Elapsed - marks.since, 0)]

\* The first edge counts, should there be a second one.
MarkDown ==
    [marks EXCEPT !.since = IF @ = 0 THEN Larger(Elapsed, 1) ELSE @, !.epoch = Epoch]

(***************************************************************************)
(* The delay after a failed run.                                           *)
(***************************************************************************)
ResetFactor == 4
NextBackoff(current, uptime) ==
    IF uptime >= MaxDelay * ResetFactor \/ current = 0 THEN Smaller(BaseDelay, MaxDelay)
    ELSE Smaller(2 * current, MaxDelay)

(***************************************************************************)
(* run_auto.                                                               *)
(***************************************************************************)
Look(found) ==
    /\ step = "looking"
    /\ IF stop THEN step' = "ended" /\ UNCHANGED <<began, backoff, until, seen>>
       ELSE IF found
       THEN /\ step' = "starting"
            /\ began' = now
            /\ UNCHANGED <<backoff, until, seen>>
       ELSE /\ step' = "waiting"
            /\ backoff' = 0
            /\ until' = now + Interval
            /\ seen' = [seen EXCEPT !.row = 0]
            /\ UNCHANGED began
    /\ UNCHANGED <<now, stop, going, marks>>

\* What run_auto does with the error of a run, and what then has happened.
Surface(error, happened) ==
    IF IsTransient(error)
    THEN LET delay == NextBackoff(backoff, now - began)
         IN  /\ step' = "waiting"
             /\ backoff' = delay
             /\ until' = now + delay
             /\ seen' = [happened EXCEPT
                            !.failed = now,
                            !.row = IF now - began >= MaxDelay * ResetFactor THEN 1 ELSE @ + 1]
    ELSE step' = "ended" /\ seen' = happened /\ UNCHANGED <<backoff, until>>

\* The chain, the output or its start: nothing has been visible.
StartFails(error) ==
    /\ step = "starting"
    /\ Surface(error, seen)
    /\ UNCHANGED <<now, stop, going, began, marks>>

OutputStarts ==
    /\ step = "starting"
    /\ step' = "acquiring"
    /\ marks' = MarkLive
    /\ seen' = IF seen.dark = -1 THEN seen
               ELSE [seen EXCEPT !.dark = -1, !.total = @ + (now - seen.dark), !.returns = @ + 1]
    /\ UNCHANGED <<now, stop, going, began, backoff, until>>

Dark == [seen EXCEPT !.dark = now]

\* teardown_partial and then the mark; IsInputContention without a placeholder, or
\* any other error.
AcquireFails(error) ==
    /\ step = "acquiring"
    /\ marks' = MarkDown
    /\ Surface(error, Dark)
    /\ UNCHANGED <<now, stop, going, began>>

\* acquire_input looks at the flag before every attempt.
AcquireStops ==
    /\ step = "acquiring"
    /\ stop
    /\ step' = "ended"
    /\ marks' = MarkDown
    /\ seen' = Dark
    /\ UNCHANGED <<now, stop, going, began, backoff, until>>

AcquireOpens ==
    /\ step = "acquiring"
    /\ ~stop
    /\ step' = "opened"
    /\ UNCHANGED <<now, stop, going, began, backoff, until, marks, seen>>

\* register_token: from here on Ctrl-C reaches the run.
RegisterToken ==
    /\ step = "opened"
    /\ step' = "serving"
    /\ going' = TRUE
    /\ UNCHANGED <<now, stop, began, backoff, until, marks, seen>>

\* The loop has been told to end: a clean end leaves the daemon too.
RunStops ==
    /\ step = "serving"
    /\ ~going
    /\ step' = "ended"
    /\ marks' = MarkDown
    /\ seen' = Dark
    /\ UNCHANGED <<now, stop, going, began, backoff, until>>

RunFails(error) ==
    /\ step = "serving"
    /\ going' = FALSE
    /\ marks' = MarkDown
    /\ Surface(error, Dark)
    /\ UNCHANGED <<now, stop, began>>

\* wait_serving_control, a tenth of a second at a time.
WaitEnds ==
    /\ step = "waiting"
    /\ stop \/ now >= until
    /\ step' = IF stop THEN "ended" ELSE "looking"
    /\ UNCHANGED <<now, stop, going, began, backoff, until, marks, seen>>

\* The handler: the flag of the process, then every token there is.
CtrlC ==
    /\ stop' = TRUE
    /\ going' = FALSE
    /\ seen' = [seen EXCEPT !.unheard = step = "opened" \/ (@ /\ step # "serving")]
    /\ UNCHANGED <<step, now, began, backoff, until, marks>>

Tick ==
    /\ now < MaxTime
    /\ step \notin {"looking", "ended"}
    /\ now' = now + 1
    /\ UNCHANGED <<step, stop, going, began, backoff, until, marks, seen>>

Next ==
    \/ \E found \in BOOLEAN : Look(found)
    \/ \E error \in Errors : StartFails(error) \/ AcquireFails(error) \/ RunFails(error)
    \/ OutputStarts \/ AcquireStops \/ AcquireOpens \/ RegisterToken \/ RunStops
    \/ WaitEnds \/ CtrlC \/ Tick

Spec == Init /\ [][Next]_vars

(***************************************************************************)
(* What run_auto promises.                                                 *)
(***************************************************************************)
\* The base, doubled as often.
Doubled[times \in Nat] == IF times = 0 THEN Smaller(BaseDelay, MaxDelay) ELSE 2 * Doubled[times - 1]

\* An outage is one rebuild and counts from its first edge to the next start, however
\* many starts failed in between.  (The first one of a process may count one unit less.)
OutagesAreCountedOnce ==
    /\ marks.rebuilds = seen.returns
    /\ marks.invisible \in {seen.total, seen.total - 1}
    /\ (marks.since = 0) = (seen.dark = -1)

\* The delay is the base after a run that held or a poll without a camera, doubles
\* with every failure after that, and is never more than the ceiling.
DelayCountsFailures ==
    backoff = IF seen.row = 0 THEN 0
              ELSE Smaller(Doubled[seen.row - 1], MaxDelay)

\* A run is never started sooner after a failed one than the shortest delay.
NoTightLoop == step = "starting" => began - seen.failed >= Smaller(BaseDelay, MaxDelay)

\* A run that serves has been told to end if Ctrl-C was pressed, unless that was after
\* the camera was opened and before the token was registered.
CtrlCIsHeard == step = "serving" /\ stop /\ going => seen.unheard

AutoInputHolds ==
    /\ OutagesAreCountedOnce
    /\ DelayCountsFailures
    /\ NoTightLoop
    /\ CtrlCIsHeard
=============================================================================
