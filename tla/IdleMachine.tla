---------------------------- MODULE IdleMachine ----------------------------
(***************************************************************************)
(* The idle state machine of fluxframe-cli/src/idle/state.rs as operators: *)
(* IdleStateMachine::tick is a pure function of the current state, the     *)
(* detector's verdict and whether `teardown_secs` have elapsed since the   *)
(* last transition.  Time is a Boolean here: the caller owns the timer and *)
(* says whether the grace period is over.                                  *)
(***************************************************************************)

ConsumerStatus == {"Present", "Absent", "Unknown"}
IdleState      == {"Active", "Cooldown", "Idle"}
IdleEdge       == {"None", "EnterIdle", "ResumeActive"}

\* Unknown is read as Present: a blind detector never starts the cooldown.
IsPresentOrUnknown(status) == status # "Absent"

\* The (state, verdict) table of IdleStateMachine::tick.
NextState(state, status, graceOver) ==
    CASE IsPresentOrUnknown(status) -> "Active"
      [] ~IsPresentOrUnknown(status) /\ state = "Active" -> "Cooldown"
      [] ~IsPresentOrUnknown(status) /\ state = "Cooldown" ->
            IF graceOver THEN "Idle" ELSE "Cooldown"
      [] OTHER -> "Idle"

\* Fault: only a jump from Active counts as entering Idle.
EdgeFromActive(from, to) ==
    CASE from = "Active" /\ to = "Idle" -> "EnterIdle"
      [] from = "Idle" /\ to = "Active" -> "ResumeActive"
      [] OTHER                          -> "None"

\* The one-shot side effect that goes with a transition.  Leaving Cooldown
\* for Active has none: nothing was torn down yet.
Edge(from, to) ==
    CASE from = "Cooldown" /\ to = "Idle" -> "EnterIdle"
      [] from = "Idle" /\ to = "Active"   -> "ResumeActive"
      [] OTHER                            -> "None"

\* IdleLevel::Active: the worker may pull real frames (Cooldown included).
LevelActive(state) == state \in {"Active", "Cooldown"}
=============================================================================
