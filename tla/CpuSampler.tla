----------------------------- MODULE CpuSampler -----------------------------
(***************************************************************************)
(* CPU time by the role of its thread (thread_cpu.rs).  Threads are named, *)
(* run, and end; once per tick of the reporter their clocks are read and   *)
(* the differences to the reading before are shared out.                   *)
(***************************************************************************)
EXTENDS Integers, FiniteSets, Functions

CONSTANTS
    Threads,    \* the ids of threads; one that is free is given again
    MainThread, \* the thread that runs the frames
    MaxTicks    \* bound: ticks a thread runs

VARIABLES
    names,    \* the threads that exist, each with its comm
    run,      \* the ticks each has run since it started
    prev,     \* the sampler's reading: role and ticks by thread
    spent,    \* ticks run since the sampler was last called, by thread
    reused,   \* ids given to another thread since the last call
    missed,   \* the last call could not read /proc
    window,   \* time since the last call
    sampled   \* the last shares, with what was really run in their window

cpuVars == <<names, run, prev, spent, reused, missed, window, sampled>>

(***************************************************************************)
(* Roles.  A comm stands for the names that begin like it.                 *)
(***************************************************************************)
Comms == {"rayon-", "input", "output", "fluxframe-out", "pool"}
Roles == {"worker", "rayon", "input", "output", "other"}
Classify(comm) ==
    CASE comm = "rayon-" -> "rayon"
      [] comm = "input" -> "input"
      [] comm \in {"output", "fluxframe-out"} -> "output"
      [] OTHER -> "other"
RoleOf(thread) == IF thread = MainThread THEN "worker" ELSE Classify(names[thread])

\* read_thread_ticks; a thread that ends meanwhile is left out, like one that has ended.
ReadTicks == [t \in DOMAIN names |-> [role |-> RoleOf(t), ticks |-> run[t]]]

(***************************************************************************)
(* shares_between: ticks over the window.  A new thread's ticks count from *)
(* 0, those of a thread that is gone are dropped.                          *)
(***************************************************************************)
Delta(before, cur, t) ==
    LET old == IF t \in DOMAIN before THEN before[t].ticks ELSE 0
    IN  IF cur[t].ticks < old THEN 0 ELSE cur[t].ticks - old
InRole(cur, role) == {t \in DOMAIN cur : cur[t].role = role}
SharesBetween(before, cur) ==
    LET delta == [t \in DOMAIN cur |-> Delta(before, cur, t)]
    IN  [process |-> SumFunctionOnSet(delta, DOMAIN cur),
         roles |-> [r \in Roles |-> SumFunctionOnSet(delta, InRole(cur, r))]]

NoShares == [ok |-> FALSE, process |-> 0, roles |-> [r \in Roles |-> 0], real |-> 0, clean |-> FALSE, reused |-> {}]

Init ==
    /\ names = [t \in {MainThread} |-> "pool"]
    /\ run = [t \in Threads |-> 0]
    /\ prev = [t \in {MainThread} |-> [role |-> "worker", ticks |-> 0]]
    /\ spent = [t \in Threads |-> 0]
    /\ reused = {}
    /\ missed = FALSE
    /\ window = 0
    /\ sampled = NoShares

ThreadStarts(t, comm) ==
    /\ t \notin DOMAIN names
    /\ names' = [u \in DOMAIN names \cup {t} |-> IF u = t THEN comm ELSE names[u]]
    /\ run' = [run EXCEPT ![t] = 0]
    /\ spent' = [spent EXCEPT ![t] = 0]
    /\ reused' = IF t \in DOMAIN prev THEN reused \cup {t} ELSE reused
    /\ sampled' = NoShares
    /\ UNCHANGED <<prev, missed, window>>

ThreadEnds(t) ==
    /\ t \in DOMAIN names \ {MainThread}
    /\ names' = [u \in DOMAIN names \ {t} |-> names[u]]
    /\ sampled' = NoShares
    /\ UNCHANGED <<run, prev, spent, reused, missed, window>>

Works(t) ==
    /\ t \in DOMAIN names
    /\ run[t] < MaxTicks
    /\ run' = [run EXCEPT ![t] = @ + 1]
    /\ spent' = [spent EXCEPT ![t] = @ + 1]
    /\ window' = 1
    /\ sampled' = NoShares
    /\ UNCHANGED <<names, prev, reused, missed>>

SharesOf(cur) ==
    LET shares == SharesBetween(prev, cur)
    IN  [ok |-> window > 0, process |-> shares.process, roles |-> shares.roles,
         real |-> SumFunctionOnSet(spent, DOMAIN cur),
         clean |-> ~missed, reused |-> reused \cap DOMAIN cur]

\* Fault: threads are added to the reading before, and never taken from it.
SampleKeepingOld ==
    /\ sampled' = SharesOf(ReadTicks)
    /\ prev' = [t \in DOMAIN names \cup DOMAIN prev |->
                   IF t \in DOMAIN prev THEN prev[t] ELSE ReadTicks[t]]
    /\ missed' = FALSE
    /\ spent' = [t \in Threads |-> 0]
    /\ reused' = {}
    /\ window' = 0
    /\ UNCHANGED <<names, run>>

Sample ==
    /\ sampled' = SharesOf(ReadTicks)
    /\ prev' = ReadTicks
    /\ missed' = FALSE
    /\ spent' = [t \in Threads |-> 0]
    /\ reused' = {}
    /\ window' = 0
    /\ UNCHANGED <<names, run>>

\* /proc cannot be read: the time of the call is kept, the reading is not.
SampleUnread ==
    /\ missed' = TRUE
    /\ spent' = [t \in Threads |-> 0]
    /\ window' = 0
    /\ sampled' = NoShares
    /\ UNCHANGED <<names, run, prev, reused>>

Next ==
    \/ \E t \in Threads, comm \in Comms : ThreadStarts(t, comm)
    \/ \E t \in Threads : ThreadEnds(t) \/ Works(t)
    \/ Sample
    \/ SampleUnread

Spec == Init /\ [][Next]_cpuVars

(***************************************************************************)
(* What the shares say.                                                    *)
(***************************************************************************)
\* The roles add up to the process, whatever threads came and went.
RolesAddUp ==
    sampled.process = SumFunctionOnSet(sampled.roles, Roles)

\* What is counted is what the threads that are there ran in the window, and less
\* only if an id has changed hands; unless the reading before failed.
SharesAreReal ==
    sampled.ok /\ sampled.clean =>
        /\ sampled.process <= sampled.real
        /\ sampled.reused = {} => sampled.process = sampled.real

CpuHolds == RolesAddUp /\ SharesAreReal
=============================================================================
