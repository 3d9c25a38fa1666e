---------------------------- MODULE EditorProofs ----------------------------
(***************************************************************************)
(* Proofs about Editor, for any presets, values, files, workers and        *)
(* channel, and for any number of events and troubles.                     *)
(*                                                                         *)
(* The inductive invariant comes in three layers.  Structure holds always: *)
(* tags are never used twice, an answer belongs to the request the window  *)
(* has under its tag, and the listener waits for the command it has read.  *)
(* Mirroring holds as long as no command took more than 5 s and no worker  *)
(* was replaced before its end was reported: while a worker has its        *)
(* stream, every part of the mirror either will be fetched once more or    *)
(* shows what the daemon has when the messages on their way are read.      *)
(* Marking holds as long as, besides, nothing blurred the baseline:        *)
(* requests come in an order that keeps changes apart from the fetches of  *)
(* the baseline, and what the window will compare with when it has read    *)
(* its messages is the file, unless a fetch on its way puts it right.      *)
(***************************************************************************)
EXTENDS Editor, TLAPS

-----------------------------------------------------------------------------
(* Types. *)

Leaving == {"SetPreset", "Revert", "Reload"}
Kind == {"SetParam", "SetEnabled", "Other", "CurrentPreset", "Save"} \cup Fetching \cup Leaving
Request == {p \in [tag : Nat, kind : Kind, value : Value \cup {Absent}] :
              p.kind \in {"SetParam", "SetEnabled"} => p.value \in Value}

Message ==
    [is : {"connected"}, data : Snapshot] \cup [is : {"reply"}, tag : Nat, r : Answer]
        \cup [is : {"disconnected", "retry"}] \cup [is : {"tick"}, stale : BOOLEAN]

Phase == {"new", "handshake", "idle", "await", "closed", "gone"}
WorkerState ==
    [phase : Phase, queue : Seq(Entry), request : Entry \cup {Absent},
     wire : Command \cup {Absent}, linked : BOOLEAN]

\* What the window may send: the daemon's command for what it will do with the answer.
Fits(kind, value, cmd) ==
    /\ kind \in {"SetParam", "SetEnabled"} => value \in Value
    /\ kind = "SetParam" => cmd = Edit("param", value)
    /\ kind = "SetEnabled" => cmd = Edit("flag", value)
    /\ kind = "Other" => cmd.op = "edit" /\ cmd.cell = "chain"
    /\ kind \in Fetching => cmd = Plain("get_config")
    /\ kind = "CurrentPreset" => cmd = Plain("current_preset")
    /\ kind = "Save" => cmd = Plain("save_preset")
    /\ kind \in {"SetPreset", "Revert"} => cmd.op = "set_preset"
    /\ kind = "Reload" => cmd = Plain("reload")
Outgoing == {m \in [kind : Kind, value : Value \cup {Absent}, cmd : Command] :
               Fits(m.kind, m.value, m.cmd)}
Question == {m \in Outgoing : m.kind \in Leaving}

Types ==
    /\ status \in {"connecting", "connected", "disconnected"}
    /\ name \in Name \cup {Absent}
    /\ config \in Config \cup {Absent} /\ baseline \in Config \cup {Absent}
    /\ lost \in LostSession \cup {Absent}
    /\ pending \in SUBSET Request /\ nextTag \in Nat
    /\ worker \in Worker
    /\ tick \in BOOLEAN
    /\ debounced \in Value \cup {Absent}
    /\ dialog \in Question \cup {Absent}
    /\ inbox \in Seq(Message)
    /\ workers \in [Worker -> WorkerState]
    /\ conns \in Seq(Worker)
    /\ call \in Call \cup {Absent}
    /\ channel \in Seq([cmd : Command, waits : BOOLEAN])
    /\ alive \in BOOLEAN
    /\ active \in Name /\ mem \in Config /\ saved \in [Name -> Config]
    /\ overtaken \in BOOLEAN /\ stalled \in BOOLEAN /\ abandoned \in BOOLEAN
    /\ events \in Nat /\ troubles \in Nat

\* What the window has shown once it keeps.
Known ==
    IsConnected \/ debounced # Absent \/ dialog # Absent \/ pending # {} =>
        name \in Name /\ config \in Config /\ baseline \in Config

-----------------------------------------------------------------------------
(* Structure: what always holds. *)

Queue(w) == workers[w].queue
Asks(w) == workers[w].request # Absent
Answers(i) == inbox[i].is = "reply"

\* Tags are given once: they are below the counter, and no two answers, queue
\* entries and requests have one in common.
TagsBelow ==
    /\ \A p \in pending : p.tag < nextTag
    /\ \A i \in DOMAIN inbox : Answers(i) => inbox[i].tag < nextTag
    /\ \A w \in Worker : \A i \in DOMAIN Queue(w) : Queue(w)[i].tag < nextTag
    /\ \A w \in Worker : Asks(w) => workers[w].request.tag < nextTag
PendingOnce == \A p, q \in pending : p.tag = q.tag => p = q
AnswersOnce ==
    \A i, j \in DOMAIN inbox : Answers(i) /\ Answers(j) /\ inbox[i].tag = inbox[j].tag => i = j
QueuesOnce ==
    \A v, w \in Worker : \A i \in DOMAIN Queue(v), j \in DOMAIN Queue(w) :
        Queue(v)[i].tag = Queue(w)[j].tag => v = w /\ i = j
RequestsOnce ==
    \A v, w \in Worker : Asks(v) /\ Asks(w) /\ workers[v].request.tag = workers[w].request.tag => v = w
QueuedUnanswered ==
    \A w \in Worker : \A i \in DOMAIN Queue(w), k \in DOMAIN inbox :
        Answers(k) => inbox[k].tag # Queue(w)[i].tag
RequestUnanswered ==
    \A w \in Worker : Asks(w) => \A k \in DOMAIN inbox : Answers(k) => inbox[k].tag # workers[w].request.tag
RequestUnqueued ==
    \A v, w \in Worker : Asks(v) =>
        \A i \in DOMAIN Queue(w) : Queue(w)[i].tag # workers[v].request.tag
Tags ==
    /\ TagsBelow /\ PendingOnce /\ AnswersOnce /\ QueuesOnce /\ RequestsOnce
    /\ QueuedUnanswered /\ RequestUnanswered /\ RequestUnqueued

\* What the window has under a tag is what the worker has under it.
QueuesFit ==
    \A w \in Worker : \A i \in DOMAIN Queue(w) : \A p \in pending :
        p.tag = Queue(w)[i].tag => Fits(p.kind, p.value, Queue(w)[i].cmd)
RequestsFit ==
    \A w \in Worker : Asks(w) => \A p \in pending :
        p.tag = workers[w].request.tag => Fits(p.kind, p.value, workers[w].request.cmd)
\* An accepted answer has what the request was for.
AnswersFit ==
    \A i \in DOMAIN inbox : Answers(i) /\ inbox[i].r.ok =>
        \A p \in pending : p.tag = inbox[i].tag =>
            /\ p.kind \in Fetching => inbox[i].r.data \in Config
            /\ p.kind = "CurrentPreset" => inbox[i].r.data \in Name
Fitting == QueuesFit /\ RequestsFit /\ AnswersFit

\* A new chain is fetched back right after it is sent.
ChainsFetched ==
    \A w \in Worker :
        /\ \A i \in DOMAIN Queue(w) :
              Queue(w)[i].cmd.op = "edit" /\ Queue(w)[i].cmd.cell = "chain" =>
                  i + 1 \in DOMAIN Queue(w) /\ Queue(w)[i + 1].cmd = Plain("get_config")
        /\ Asks(w) /\ workers[w].request.cmd.op = "edit" /\ workers[w].request.cmd.cell = "chain" =>
              1 \in DOMAIN Queue(w) /\ Queue(w)[1].cmd = Plain("get_config")

\* What w has sent and waits for.
Sent(w) == IF workers[w].phase = "handshake" THEN Plain("handshake") ELSE workers[w].request.cmd
CallOf(w) == call # Absent /\ call.worker = w
\* A worker has a request while it awaits the answer, and one command on its way at most.
Phases ==
    \A w \in Worker :
        /\ Asks(w) <=> workers[w].phase = "await"
        /\ workers[w].phase \in {"new", "idle"} => workers[w].wire = Absent /\ ~CallOf(w)
        /\ InRoundTrip(w) /\ workers[w].wire # Absent => workers[w].wire = Sent(w) /\ ~CallOf(w)
        /\ workers[w].linked => alive
\* The listener serves the first connection; the answer it waits for is that to
\* the last command in the channel.
Listener ==
    /\ call # Absent => conns # <<>> /\ call.worker = Head(conns)
    /\ \A i \in DOMAIN channel : channel[i].waits =>
          /\ i = Len(channel) /\ call # Absent /\ call.answer = Absent
          /\ InRoundTrip(call.worker) => channel[i].cmd = Sent(call.worker)
    /\ call # Absent /\ call.answer # Absent /\ InRoundTrip(call.worker) =>
          LET cmd == Sent(call.worker)
          IN  call.answer.ok =>
                 /\ cmd.op = "get_config" => call.answer.data \in Config
                 /\ cmd.op = "current_preset" => call.answer.data \in Name
                 /\ cmd.op = "handshake" => call.answer.data \in Snapshot

Structure == Types /\ Known /\ Tags /\ Fitting /\ ChainsFetched /\ Phases /\ Listener

-----------------------------------------------------------------------------
(* Mirroring. *)

Part == Cell \cup {"name"}
Mirror(part) == IF part = "name" THEN name ELSE config[part]
Truth(part) == IF part = "name" THEN active ELSE mem[part]

\* The parts an accepted answer to a request of this kind sets, and to what.
Sets(kind) ==
    CASE kind = "SetParam" -> {"param"}
      [] kind = "SetEnabled" -> {"flag"}
      [] kind \in Fetching -> Cell
      [] kind = "CurrentPreset" -> {"name"}
      [] OTHER -> {}
SetTo(p, r, part) ==
    CASE p.kind \in {"SetParam", "SetEnabled"} -> p.value
      [] p.kind \in Fetching -> r.data[part]
      [] OTHER -> r.data

\* The window, reading m with the requests in P, sets part; sets it to x; fetches it again.
Touches(P, m, part) ==
    \/ m.is = "connected"
    \/ m.is = "reply" /\ m.r.ok /\ \E p \in P : p.tag = m.tag /\ part \in Sets(p.kind)
Gives(P, m, part, x) ==
    \/ m.is = "connected" /\ x = IF part = "name" THEN m.data.name ELSE m.data.config[part]
    \/ /\ m.is = "reply" /\ m.r.ok
       /\ \E p \in P : p.tag = m.tag /\ part \in Sets(p.kind) /\ x = SetTo(p, m.r, part)
Owes(P, m, part) ==
    /\ m.is = "reply" /\ m.r.ok
    /\ \E p \in P : p.tag = m.tag /\ (p.kind \in Leaving \/ (part # "name" /\ p.kind = "SetEnabled"))

\* Showing part as now, the window that reads s ends with x.
Shows(P, s, now, part, x) ==
    \/ (\A i \in DOMAIN s : ~Touches(P, s[i], part)) /\ now = x
    \/ \E i \in DOMAIN s :
          Gives(P, s[i], part, x) /\ \A j \in DOMAIN s : j > i => ~Touches(P, s[j], part)

\* The answer the listener has for the worker in use, as the message it will be.
Late == CallOf(worker) /\ call.answer # Absent
LateMessage ==
    IF workers[worker].phase = "handshake" THEN Connected(call.answer.data)
    ELSE Reply(workers[worker].request.tag, call.answer)

\* cmd, once served, is answered with the part.
Renews(cmd, part) == cmd.op = IF part = "name" THEN "current_preset" ELSE "get_config"
Owed(part) ==
    \/ \E i \in DOMAIN Queue(worker) : Renews(Queue(worker)[i].cmd, part)
    \/ Asks(worker) /\ ~Late /\ Renews(workers[worker].request.cmd, part)
    \/ Asks(worker) /\ Late /\ Owes(pending, LateMessage, part)
    \/ \E i \in DOMAIN inbox : Owes(pending, inbox[i], part)
Shown(part) ==
    \/ Late /\ Gives(pending, LateMessage, part, Truth(part))
    \/ /\ Late => ~Touches(pending, LateMessage, part)
       /\ Shows(pending, inbox, Mirror(part), part, Truth(part))

\* The worker's stream has brought, or is about to bring, the first snapshot.
Tracking ==
    /\ workers[worker].linked
    /\ \/ workers[worker].phase \in {"idle", "await"}
       \/ workers[worker].phase = "handshake" /\ Late /\ call.answer.ok
Mirrors ==
    Tracking =>
        /\ conns # <<>> /\ worker = Head(conns)
        /\ \A part \in Part : Owed(part) \/ Shown(part)

\* Workers that were replaced are done.
OldWorkersDone == \A w \in Worker \ {worker} : workers[w].phase \in {"closed", "gone"}
\* The window is told of the end of the worker in use, no other.
EndIsOfCurrent ==
    (\E i \in DOMAIN inbox : inbox[i].is = "disconnected") => workers[worker].phase = "closed"
\* One command at a time.
ChannelSynchronous == channel # <<>> => Len(channel) = 1 /\ channel[1].waits
\* The window waits for everything the worker will still do.
InFlight ==
    HasStream(worker) \/ workers[worker].phase = "new" =>
        /\ \A i \in DOMAIN Queue(worker) : \E p \in pending : p.tag = Queue(worker)[i].tag
        /\ Asks(worker) => \E p \in pending : p.tag = workers[worker].request.tag

Mirroring == OldWorkersDone /\ EndIsOfCurrent /\ ChannelSynchronous /\ InFlight /\ Mirrors

Inv == Structure /\ (~stalled /\ ~abandoned => Mirroring)

-----------------------------------------------------------------------------
(* Sending. *)

\* The messages a window sends at once: what it may send, a new chain with the
\* fetch that follows it.
Batch(msgs) ==
    /\ msgs \in Seq(Outgoing)
    /\ \A i \in DOMAIN msgs :
          msgs[i].cmd.op = "edit" /\ msgs[i].cmd.cell = "chain" =>
              i + 1 \in DOMAIN msgs /\ msgs[i + 1].cmd = Plain("get_config")

\* What SendAll does: requests under new tags, entries for them at the end of
\* the queue of the worker in use.
SendEffect(left, msgs) ==
    LET n == Len(msgs)
        q == Queue(worker)
    IN  /\ nextTag' = nextTag + n
        /\ UNCHANGED link
        /\ left \subseteq pending'
        /\ \A p \in pending' \ left : \E i \in 1..n :
              p.tag = nextTag + i - 1 /\ p.kind = msgs[i].kind /\ p.value = msgs[i].value
        /\ \A i \in 1..n : \E p \in pending' :
              p.tag = nextTag + i - 1 /\ p.kind = msgs[i].kind /\ p.value = msgs[i].value
        /\ pending' \in SUBSET Request
        /\ workers' \in [Worker -> WorkerState]
        /\ \A v \in Worker \ {worker} : workers'[v] = workers[v]
        /\ workers'[worker].phase = workers[worker].phase
        /\ workers'[worker].request = workers[worker].request
        /\ workers'[worker].wire = workers[worker].wire
        /\ workers'[worker].linked = workers[worker].linked
        /\ Len(workers'[worker].queue) = Len(q) + n
        /\ \A i \in 1..Len(q) : workers'[worker].queue[i] = q[i]
        /\ \A i \in 1..n : workers'[worker].queue[Len(q) + i]
                              = [tag |-> nextTag + i - 1, cmd |-> msgs[i].cmd]

\* The entries of two sequences joined.
LEMMA Joined ==
    ASSUME NEW S, NEW s \in Seq(S), NEW t \in Seq(S)
    PROVE  /\ s \o t \in Seq(S)
           /\ Len(s \o t) = Len(s) + Len(t)
           /\ \A i \in 1..Len(s) : (s \o t)[i] = s[i]
           /\ \A i \in 1..Len(t) : (s \o t)[Len(s) + i] = t[i]
OBVIOUS

\* The first entry and the others.
LEMMA First ==
    ASSUME NEW S, NEW s \in Seq(S), s # <<>>
    PROVE  /\ Head(s) = s[1] /\ s[1] \in S /\ 1 \in DOMAIN s
           /\ Tail(s) \in Seq(S) /\ Len(Tail(s)) = Len(s) - 1
           /\ \A i \in 1..(Len(s) - 1) : Tail(s)[i] = s[i + 1] /\ i + 1 \in DOMAIN s
OBVIOUS

\* SendAll has that effect.
LEMMA SendingIs ==
    ASSUME NEW left \in SUBSET pending, NEW msgs \in Seq(Outgoing), Types, SendAll(left, msgs)
    PROVE  SendEffect(left, msgs)
<1> DEFINE new == {[tag |-> nextTag + i - 1, kind |-> msgs[i].kind, value |-> msgs[i].value] :
                     i \in DOMAIN msgs}
           added == [i \in DOMAIN msgs |-> [tag |-> nextTag + i - 1, cmd |-> msgs[i].cmd]]
           q == Queue(worker)
           n == Len(msgs)
           W == workers[worker]
<1>1. /\ DOMAIN msgs = 1..n /\ n \in Nat /\ nextTag \in Nat
      /\ \A i \in DOMAIN msgs : msgs[i] \in Outgoing /\ nextTag + i - 1 \in Nat
      BY DEF Types
<1>2. \A i \in DOMAIN msgs :
         /\ msgs[i].kind \in Kind /\ msgs[i].value \in Value \cup {Absent}
         /\ msgs[i].kind \in {"SetParam", "SetEnabled"} => msgs[i].value \in Value
         /\ msgs[i].cmd \in Command
      BY <1>1 DEF Outgoing, Fits
<1>3. \A i \in DOMAIN msgs : [tag |-> nextTag + i - 1, cmd |-> msgs[i].cmd] \in Entry
      BY <1>1, <1>2 DEF Entry
<1>4. added \in Seq(Entry) /\ Len(added) = n
      BY <1>1, <1>3
<1>5. W \in WorkerState /\ q \in Seq(Entry)
      BY DEF Types, WorkerState, Queue
<1>6. /\ q \o added \in Seq(Entry)
      /\ Len(q \o added) = Len(q) + n
      /\ \A i \in 1..Len(q) : (q \o added)[i] = q[i]
      /\ \A i \in 1..n : (q \o added)[Len(q) + i] = added[i]
  <2>1. q \in Seq(Entry) /\ added \in Seq(Entry) /\ Len(added) = n
      BY <1>4, <1>5
  <2> HIDE DEF added, q, n
  <2> QED BY <2>1, <1>1
<1>7. \A p \in new : p \in Request
      BY <1>1, <1>2 DEF Request
<1>8. pending' = left \cup new /\ nextTag' = nextTag + n /\ UNCHANGED link
      BY DEF SendAll
<1>9. workers' = [workers EXCEPT ![worker] = [W EXCEPT !.queue = q \o added]]
      BY DEF SendAll, Queue, Types
<1>10. [W EXCEPT !.queue = q \o added] \in WorkerState
      BY <1>5, <1>6 DEF WorkerState
<1>11. workers'[worker] = [W EXCEPT !.queue = q \o added] /\ workers' \in [Worker -> WorkerState]
         /\ \A v \in Worker \ {worker} : workers'[v] = workers[v]
      BY <1>9, <1>10 DEF Types
<1>12. /\ workers'[worker].phase = W.phase /\ workers'[worker].request = W.request
       /\ workers'[worker].wire = W.wire /\ workers'[worker].linked = W.linked
       /\ workers'[worker].queue = q \o added
      BY <1>5, <1>11 DEF WorkerState
<1>13. \A i \in 1..n : added[i] = [tag |-> nextTag + i - 1, cmd |-> msgs[i].cmd]
      BY <1>1
<1>14. pending' \in SUBSET Request
      BY <1>7, <1>8 DEF Types
<1>15. \A i \in 1..n : \E p \in pending' :
              p.tag = nextTag + i - 1 /\ p.kind = msgs[i].kind /\ p.value = msgs[i].value
  <2> TAKE i \in 1..n
  <2>1. [tag |-> nextTag + i - 1, kind |-> msgs[i].kind, value |-> msgs[i].value] \in new
      BY <1>1
  <2>2. [tag |-> nextTag + i - 1, kind |-> msgs[i].kind, value |-> msgs[i].value] \in pending'
      BY <2>1, <1>8
  <2> QED BY <2>2
<1>16. \A p \in pending' \ left : \E i \in 1..n :
              p.tag = nextTag + i - 1 /\ p.kind = msgs[i].kind /\ p.value = msgs[i].value
  <2> SUFFICES ASSUME NEW p \in new
               PROVE  \E i \in DOMAIN msgs :
                         p.tag = nextTag + i - 1 /\ p.kind = msgs[i].kind /\ p.value = msgs[i].value
      BY <1>1, <1>8
  <2> QED OBVIOUS
<1> HIDE DEF added, new
<1> QED BY <1>6, <1>8, <1>11, <1>12, <1>13, <1>14, <1>15, <1>16 DEF SendEffect, Queue

\* What the window sends are batches.
LEMMA Batches ==
    /\ \A v \in Value : Batch(<<SetParam(v)>>) /\ Batch(<<SetEnabled(v)>>)
                          /\ Batch(<<SetChain(v), KeepBaseline>>)
    /\ Batch(<<Save>>) /\ Batch(<<GetConfigQuiet>>) /\ Batch(RefetchActive) /\ Batch(<<>>)
    /\ \A m \in Question : Batch(<<m>>)
    /\ \A n \in Name : SwitchTo(n) \in Question
    /\ Reload \in Question
    /\ name \in Name => Revert \in Question
<1> USE DEF Msg, Fits, Kind, Leaving, Fetching
<1>1. /\ \A v \in Value, c \in Cell : Edit(c, v) \in Command
      /\ \A n \in Name : Switch(n) \in Command
      /\ \A op \in Reading \cup {"save_preset", "reload"} : Plain(op) \in Command
      BY DEF Command, Edit, Switch, Plain
<1>2. {"param", "flag", "chain"} = Cell
      BY DEF Cell
<1>3. {"get_config", "current_preset", "save_preset", "reload"} \subseteq Reading \cup {"save_preset", "reload"}
      BY DEF Reading
<1>4. \A v \in Value : SetParam(v) \in Outgoing /\ SetEnabled(v) \in Outgoing /\ SetChain(v) \in Outgoing
      BY <1>1, <1>2 DEF Outgoing, SetParam, SetEnabled, SetChain, Edit
<1>5. KeepBaseline \in Outgoing /\ ResyncBaseline \in Outgoing /\ GetConfigQuiet \in Outgoing
      BY <1>1, <1>3 DEF Outgoing, KeepBaseline, ResyncBaseline, GetConfigQuiet
<1>6. CurrentPreset \in Outgoing /\ Save \in Outgoing /\ Reload \in Outgoing
      BY <1>1, <1>3 DEF Outgoing, CurrentPreset, Save, Reload
<1>7. /\ \A n \in Name : SwitchTo(n) \in Outgoing
      /\ name \in Name => Revert \in Outgoing
      BY <1>1 DEF Outgoing, SwitchTo, Revert, Switch
<1>8. /\ \A n \in Name : SwitchTo(n) \in Question
      /\ Reload \in Question
      /\ name \in Name => Revert \in Question
      BY <1>6, <1>7 DEF Question, SwitchTo, Revert, Reload
<1>9. /\ \A m \in Outgoing : m.cmd.cell # "chain" => Batch(<<m>>)
      /\ \A m, k \in Outgoing : k.cmd = Plain("get_config") => Batch(<<m, k>>)
      BY DEF Batch, Plain
<1>10. \A v \in Value : Batch(<<SetParam(v)>>) /\ Batch(<<SetEnabled(v)>>)
  <2>1. \A v \in Value : SetParam(v).cmd.cell = "param" /\ SetEnabled(v).cmd.cell = "flag"
      BY DEF SetParam, SetEnabled, Edit
  <2> QED BY <1>4, <1>9, <2>1
<1>11. \A v \in Value : Batch(<<SetChain(v), KeepBaseline>>)
  <2>1. KeepBaseline.cmd = Plain("get_config")
      BY DEF KeepBaseline
  <2> QED BY <1>4, <1>5, <1>9, <2>1
<1>12. Batch(<<Save>>) /\ Batch(<<GetConfigQuiet>>) /\ Batch(<<>>)
      BY <1>5, <1>6 DEF Batch, Save, GetConfigQuiet, Plain
<1>13. Batch(RefetchActive)
      BY <1>5, <1>6 DEF Batch, RefetchActive, CurrentPreset, ResyncBaseline, Plain
<1>14. \A m \in Question : Batch(<<m>>)
      BY DEF Batch, Question, Outgoing, Plain
<1> QED BY <1>8, <1>10, <1>11, <1>12, <1>13, <1>14

\* Messages, answers and workers made by the actions are of their types.
LEMMA Made ==
    /\ Disconnected \in Message /\ Retry \in Message /\ Tick \in Message
    /\ [Tick EXCEPT !.stale = TRUE] \in Message
    /\ \A data \in Snapshot : Connected(data) \in Message
    /\ \A t \in Nat, r \in Answer : Reply(t, r) \in Message
    /\ Refused \in Answer
    /\ \A data \in Snapshot \cup Name \cup Config \cup {Absent} : Accepted(data) \in Answer
    /\ Gone \in WorkerState /\ Spawned \in WorkerState
<1>1. <<>> \in Seq(Entry)
      OBVIOUS
<1> QED BY <1>1 DEF Disconnected, Retry, Tick, Connected, Reply, Refused, Accepted, Message, Answer,
                    Gone, Spawned, WorkerState, Phase

\* What a message of each kind carries.
LEMMA Read ==
    ASSUME NEW m \in Message
    PROVE  /\ m.is = "connected" => m.data \in Snapshot
           /\ m.is = "reply" => m.tag \in Nat /\ m.r \in Answer
           /\ m.is = "tick" => m.stale \in BOOLEAN
           /\ m.is \in {"connected", "reply", "disconnected", "retry", "tick"}
BY DEF Message

-----------------------------------------------------------------------------
(* Steps.  The actions of the operator and the timer of a parameter either *)
(* send a batch or leave requests and workers alone.                       *)

Sending == \E msgs : Batch(msgs) /\ SendEffect(pending, msgs)
WindowActs ==
    \/ DebounceFires
    \/ \E v \in Value : Drag(v) \/ Toggle(v) \/ EditChain(v)
    \/ \E n \in Name : PickPreset(n)
    \/ PressRevert \/ PressReload \/ PressSave
    \/ Confirm \/ Dismiss

\* The window sends a batch with all it waits for still in flight.
LEMMA SendsBatch ==
    ASSUME Types, NEW msgs, Batch(msgs), Send(msgs)
    PROVE  Sending
<1>1. SendAll(pending, msgs)
      BY DEF Send
<1>2. SendEffect(pending, msgs)
      BY <1>1, SendingIs DEF Batch
<1> QED BY <1>2 DEF Sending

\* What such an action does to the rest of the state.
LEMMA WindowActing ==
    ASSUME Types, Known, WindowActs
    PROVE  /\ Sending \/ UNCHANGED <<requests, workers>>
           /\ UNCHANGED <<status, mirror, tick, inbox, server, stalled, troubles>>
           /\ debounced' \in Value \cup {Absent} /\ dialog' \in Question \cup {Absent}
           /\ overtaken' \in BOOLEAN /\ events' \in Nat
           /\ name \in Name /\ config \in Config /\ baseline \in Config
<1> USE DEF Types, Event, EditorEvent
<1>1. CASE DebounceFires
  <2>1. debounced \in Value /\ name \in Name /\ config \in Config /\ baseline \in Config
      BY <1>1 DEF DebounceFires, Known
  <2>2. Sending
      BY <1>1, <2>1, Batches, SendsBatch DEF DebounceFires
  <2> QED BY <1>1, <2>1, <2>2 DEF DebounceFires, Switching
<1>2. ASSUME NEW v \in Value, Drag(v) \/ Toggle(v) \/ EditChain(v)
      PROVE  /\ Sending \/ UNCHANGED <<requests, workers>>
             /\ UNCHANGED <<status, mirror, tick, inbox, server, stalled, troubles>>
             /\ debounced' \in Value \cup {Absent} /\ dialog' \in Question \cup {Absent}
             /\ overtaken' \in BOOLEAN /\ events' \in Nat
             /\ name \in Name /\ config \in Config /\ baseline \in Config
  <2>1. name \in Name /\ config \in Config /\ baseline \in Config
      BY <1>2 DEF Drag, Toggle, EditChain, Known
  <2>2. CASE Drag(v)
      BY <2>1, <2>2 DEF Drag
  <2>3. CASE Toggle(v)
    <3>1. Sending
      BY <2>3, Batches, SendsBatch DEF Toggle
    <3> QED BY <2>1, <2>3, <3>1 DEF Toggle, Switching
  <2>4. CASE EditChain(v)
    <3>1. Sending
      BY <2>4, Batches, SendsBatch DEF EditChain
    <3> QED BY <2>1, <2>4, <3>1 DEF EditChain, Switching
  <2> QED BY <1>2, <2>2, <2>3, <2>4
<1>3. ASSUME NEW m \in Question, Leave(m)
      PROVE  Sending /\ debounced' = Absent
      BY <1>3, Batches, SendsBatch DEF Leave
<1>4. ASSUME NEW n \in Name, PickPreset(n)
      PROVE  /\ Sending \/ UNCHANGED <<requests, workers>>
             /\ UNCHANGED <<status, mirror, tick, inbox, server, stalled, troubles>>
             /\ debounced' \in Value \cup {Absent} /\ dialog' \in Question \cup {Absent}
             /\ overtaken' \in BOOLEAN /\ events' \in Nat
             /\ name \in Name /\ config \in Config /\ baseline \in Config
  <2>1. SwitchTo(n) \in Question
      BY Batches
  <2> QED BY <1>3, <1>4, <2>1 DEF PickPreset, AskIfDirty, Ask, Known
<1>5. CASE PressRevert
  <2>1. name \in Name /\ config \in Config /\ baseline \in Config /\ Revert \in Question
      BY <1>5, Batches DEF PressRevert, Known
  <2> QED BY <1>5, <2>1 DEF PressRevert, Ask
<1>6. CASE PressReload
  <2>1. Reload \in Question
      BY Batches
  <2> QED BY <1>3, <1>6, <2>1 DEF PressReload, AskIfDirty, Ask, Known
<1>7. CASE PressSave
  <2>1. Sending
      BY <1>7, Batches, SendsBatch DEF PressSave
  <2> QED BY <1>7, <2>1 DEF PressSave, Known
<1>8. CASE Confirm
  <2>1. name \in Name /\ config \in Config /\ baseline \in Config /\ dialog \in Question
      BY <1>8 DEF Confirm, Known
  <2>2. Revert \in Question
      BY <2>1, Batches
  <2> QED BY <1>3, <1>8, <2>1, <2>2 DEF Confirm
<1>9. CASE Dismiss
      BY <1>9 DEF Dismiss, Known
<1> QED BY <1>1, <1>2, <1>4, <1>5, <1>6, <1>7, <1>8, <1>9 DEF WindowActs

\* A worker record with one or more fields replaced.
LEMMA WorkersTyped ==
    ASSUME Types, NEW w \in Worker, NEW rec \in WorkerState,
           workers' = [workers EXCEPT ![w] = rec]
    PROVE  /\ workers' \in [Worker -> WorkerState]
           /\ workers'[w] = rec
           /\ \A v \in Worker \ {w} : workers'[v] = workers[v]
BY DEF Types

\* The worker a reconnect picks is unused.
LEMMA UnusedWorker ==
    ASSUME Unused # {}
    PROVE  LET w == CHOOSE v \in Unused : TRUE
           IN  w \in Worker /\ w \notin Range(conns) /\ workers[w] = Gone
BY DEF Unused

\* What a replacement of the worker does.
LEMMA Reconnecting ==
    ASSUME Types, inbox # <<>>, Reconnect
    PROVE  /\ worker' \in Worker /\ worker' \notin Range(conns) /\ workers[worker'] = Gone
           /\ workers' \in [Worker -> WorkerState] /\ workers'[worker'] = Spawned
           /\ \A v \in Worker \ {worker'} : workers'[v] = workers[v]
           /\ pending' = {} /\ status' = "connecting" /\ tick' = FALSE
           /\ abandoned' = (abandoned \/ ~Reported)
           /\ NewGeneration
           /\ UNCHANGED <<mirror, nextTag, debounced, overtaken>>
<1>1. worker' \in Worker /\ worker' \notin Range(conns) /\ workers[worker'] = Gone
      BY UnusedWorker DEF Reconnect
<1>2. workers' = [workers EXCEPT ![worker'] = Spawned]
      BY DEF Reconnect
<1>3. /\ workers' \in [Worker -> WorkerState] /\ workers'[worker'] = Spawned
      /\ \A v \in Worker \ {worker'} : workers'[v] = workers[v]
      BY <1>1, <1>2, Made DEF Types
<1> QED BY <1>1, <1>3 DEF Reconnect

\* A new generation leaves all messages but the ticks as they are.
LEMMA Renewing ==
    ASSUME Types, inbox # <<>>, NewGeneration
    PROVE  /\ inbox' \in Seq(Message)
           /\ Len(inbox') = Len(inbox) - 1
           /\ \A i \in 1..(Len(inbox) - 1) :
                 \/ inbox'[i] = inbox[i + 1]
                 \/ inbox[i + 1] = Tick /\ inbox'[i] = [Tick EXCEPT !.stale = TRUE]
<1> DEFINE t == Tail(inbox)
           New(m) == IF m = Tick THEN [Tick EXCEPT !.stale = TRUE] ELSE m
<1>1. /\ t \in Seq(Message) /\ Len(t) = Len(inbox) - 1 /\ DOMAIN t = 1..(Len(inbox) - 1)
      /\ \A i \in DOMAIN t : t[i] = inbox[i + 1] /\ t[i] \in Message
      BY DEF Types
<1>2. inbox' = [i \in DOMAIN t |-> New(t[i])]
      BY DEF NewGeneration
<1>3. \A m \in Message : New(m) \in Message
      BY Made
<1> HIDE DEF t, New
<1>4. inbox' = [i \in 1..(Len(inbox) - 1) |-> New(t[i])]
      BY <1>1, <1>2
<1>5. Len(inbox) - 1 \in Nat
      BY DEF Types
<1>6. inbox' \in Seq(Message) /\ Len(inbox') = Len(inbox) - 1
      BY <1>1, <1>3, <1>4, <1>5
<1>7. \A i \in 1..(Len(inbox) - 1) : inbox'[i] = New(inbox[i + 1])
      BY <1>1, <1>4
<1> QED BY <1>6, <1>7 DEF New

\* The first message and the others.
LEMMA InboxHead ==
    ASSUME Types, inbox # <<>>
    PROVE  /\ Head(inbox) \in Message /\ Head(inbox) = inbox[1] /\ 1 \in DOMAIN inbox
           /\ Tail(inbox) \in Seq(Message) /\ Len(Tail(inbox)) = Len(inbox) - 1
           /\ \A i \in 1..(Len(inbox) - 1) : Tail(inbox)[i] = inbox[i + 1] /\ i + 1 \in DOMAIN inbox
BY DEF Types

-----------------------------------------------------------------------------
(* The steps of the workers and of the listener, field by field. *)

Fields(w, phase, queue, request, wire, linked) ==
    /\ workers' \in [Worker -> WorkerState]
    /\ workers'[w].phase = phase /\ workers'[w].queue = queue
    /\ workers'[w].request = request /\ workers'[w].wire = wire
    /\ workers'[w].linked = linked
    /\ \A v \in Worker \ {w} : workers'[v] = workers[v]

\* A new record for one worker, field by field.
LEMMA FieldsOf ==
    ASSUME Types, NEW w \in Worker, NEW rec \in WorkerState, workers' = [workers EXCEPT ![w] = rec]
    PROVE  Fields(w, rec.phase, rec.queue, rec.request, rec.wire, rec.linked)
BY WorkersTyped DEF Fields

\* The record of one worker.
LEMMA WorkerTyped ==
    ASSUME Types, NEW w \in Worker
    PROVE  /\ workers[w] \in WorkerState
           /\ workers[w].phase \in Phase /\ Queue(w) \in Seq(Entry)
           /\ workers[w].request \in Entry \cup {Absent}
           /\ workers[w].wire \in Command \cup {Absent} /\ workers[w].linked \in BOOLEAN
BY DEF Types, WorkerState, Queue

\* A worker connects, or finds nobody there.
LEMMA Connecting ==
    ASSUME Types, NEW w \in Worker, WorkerConnects(w)
    PROVE  \/ /\ alive /\ conns' = Append(conns, w) /\ UNCHANGED inbox
              /\ Fields(w, "handshake", Queue(w), workers[w].request, Plain("handshake"), TRUE)
           \/ /\ ~alive /\ inbox' = Append(inbox, Disconnected) /\ UNCHANGED conns
              /\ Fields(w, "closed", Queue(w), workers[w].request, workers[w].wire, workers[w].linked)
<1> DEFINE R == workers[w]
<1>1. Plain("handshake") \in Command /\ {"handshake", "closed"} \subseteq Phase /\ TRUE \in BOOLEAN
      BY DEF Plain, Command, Reading, Phase
<1>2. CASE /\ alive /\ conns' = Append(conns, w) /\ UNCHANGED inbox
           /\ workers' = [workers EXCEPT ![w] =
                [R EXCEPT !.phase = "handshake", !.linked = TRUE, !.wire = Plain("handshake")]]
  <2> DEFINE rec == [R EXCEPT !.phase = "handshake", !.linked = TRUE, !.wire = Plain("handshake")]
  <2>1. /\ rec \in WorkerState /\ rec.phase = "handshake" /\ rec.queue = Queue(w)
        /\ rec.request = R.request /\ rec.wire = Plain("handshake") /\ rec.linked = TRUE
      BY <1>1, WorkerTyped DEF WorkerState, Queue
  <2>2. workers' = [workers EXCEPT ![w] = rec]
      BY <1>2
  <2> HIDE DEF rec
  <2>3. Fields(w, rec.phase, rec.queue, rec.request, rec.wire, rec.linked)
      BY <2>1, <2>2, FieldsOf
  <2> QED BY <1>2, <2>1, <2>3
<1>3. CASE /\ ~alive /\ inbox' = Append(inbox, Disconnected) /\ UNCHANGED conns
           /\ workers' = [workers EXCEPT ![w] = [R EXCEPT !.phase = "closed"]]
  <2> DEFINE rec == [R EXCEPT !.phase = "closed"]
  <2>1. /\ rec \in WorkerState /\ rec.phase = "closed" /\ rec.queue = Queue(w)
        /\ rec.request = R.request /\ rec.wire = R.wire /\ rec.linked = R.linked
      BY <1>1, WorkerTyped DEF WorkerState, Queue
  <2>2. workers' = [workers EXCEPT ![w] = rec]
      BY <1>3
  <2> HIDE DEF rec
  <2>3. Fields(w, rec.phase, rec.queue, rec.request, rec.wire, rec.linked)
      BY <2>1, <2>2, FieldsOf
  <2> QED BY <1>3, <2>1, <2>3
<1> QED BY <1>2, <1>3 DEF WorkerConnects, Types

\* A worker begins a round trip with the first entry of its queue.
LEMMA Asking ==
    ASSUME Types, NEW w \in Worker, WorkerSends(w)
    PROVE  /\ Queue(w) # <<>> /\ Head(Queue(w)) \in Entry
           /\ Fields(w, "await", Tail(Queue(w)), Head(Queue(w)),
                     IF workers[w].linked THEN Head(Queue(w)).cmd ELSE Absent, workers[w].linked)
<1> DEFINE R == workers[w]
<1>1. /\ Queue(w) # <<>> /\ Head(Queue(w)) \in Entry /\ Tail(Queue(w)) \in Seq(Entry)
      /\ "await" \in Phase
      BY WorkerTyped DEF WorkerSends, Queue, Phase
<1>2. (IF R.linked THEN Head(Queue(w)).cmd ELSE Absent) \in Command \cup {Absent}
      BY <1>1 DEF Entry
<1> DEFINE rec == [R EXCEPT !.phase = "await", !.queue = Tail(Queue(w)), !.request = Head(Queue(w)),
                              !.wire = IF R.linked THEN Head(Queue(w)).cmd ELSE Absent]
<1>3. /\ rec \in WorkerState /\ rec.phase = "await" /\ rec.queue = Tail(Queue(w))
      /\ rec.request = Head(Queue(w)) /\ rec.wire = (IF R.linked THEN Head(Queue(w)).cmd ELSE Absent) /\ rec.linked = R.linked
    BY <1>1, <1>2, WorkerTyped DEF WorkerState, Queue
<1>4. workers' = [workers EXCEPT ![w] = rec]
    BY Zenon DEF WorkerSends, Queue
<1> HIDE DEF rec
<1>5. Fields(w, rec.phase, rec.queue, rec.request, rec.wire, rec.linked)
    BY <1>3, <1>4, FieldsOf
<1> QED BY <1>1, <1>3, <1>5

\* A worker gives up, refusing the request it was waiting for, and says it is done.
LEMMA GivingUp ==
    ASSUME Types, Phases, NEW w \in Worker, GivesUp(w)
    PROVE  /\ InRoundTrip(w)
           /\ Fields(w, "closed", Queue(w), Absent, workers[w].wire, workers[w].linked)
           /\ \/ /\ workers[w].phase = "await" /\ workers[w].request \in Entry
                 /\ inbox' = inbox \o <<Reply(workers[w].request.tag, Refused), Disconnected>>
              \/ /\ workers[w].phase = "handshake"
                 /\ inbox' = Append(inbox, Disconnected)
           /\ overtaken' \in BOOLEAN
<1> DEFINE R == workers[w]
<1>1. "closed" \in Phase
      BY DEF Phase
<1> DEFINE rec == [R EXCEPT !.phase = "closed", !.request = Absent]
<1>3. /\ rec \in WorkerState /\ rec.phase = "closed" /\ rec.queue = Queue(w)
      /\ rec.request = Absent /\ rec.wire = R.wire /\ rec.linked = R.linked
    BY <1>1, WorkerTyped DEF WorkerState, Queue
<1>4. workers' = [workers EXCEPT ![w] = rec]
    BY <1>1 DEF GivesUp, Types
<1> HIDE DEF rec
<1>5. Fields(w, rec.phase, rec.queue, rec.request, rec.wire, rec.linked)
    BY <1>3, <1>4, FieldsOf
<1>6. InRoundTrip(w) /\ (R.phase = "await" => R.request \in Entry)
      BY WorkerTyped DEF GivesUp, Phases, Asks
<1>7. overtaken' \in BOOLEAN
      BY DEF GivesUp, Types
<1>8. \/ R.phase = "await" /\ inbox' = inbox \o <<Reply(R.request.tag, Refused), Disconnected>>
      \/ R.phase = "handshake" /\ inbox' = Append(inbox, Disconnected)
      BY <1>6 DEF GivesUp, InRoundTrip
<1> QED BY <1>3, <1>5, <1>6, <1>7, <1>8

\* A worker without a stream refuses the first entry of its queue.
LEMMA Refusing ==
    ASSUME Types, NEW w \in Worker, WorkerRefuses(w)
    PROVE  /\ Queue(w) # <<>> /\ Head(Queue(w)) \in Entry
           /\ Fields(w, "closed", Tail(Queue(w)), workers[w].request, workers[w].wire, workers[w].linked)
           /\ inbox' = Append(inbox, Reply(Head(Queue(w)).tag, Refused))
<1> DEFINE R == workers[w]
<1>1. /\ Queue(w) # <<>> /\ Head(Queue(w)) \in Entry /\ Tail(Queue(w)) \in Seq(Entry)
      /\ R.phase = "closed"
      BY WorkerTyped DEF WorkerRefuses, Queue
<1> DEFINE rec == [R EXCEPT !.queue = Tail(Queue(w))]
<1>3. /\ rec \in WorkerState /\ rec.phase = "closed" /\ rec.queue = Tail(Queue(w))
      /\ rec.request = R.request /\ rec.wire = R.wire /\ rec.linked = R.linked
    BY <1>1, WorkerTyped DEF WorkerState, Queue
<1>4. workers' = [workers EXCEPT ![w] = rec]
    BY <1>1 DEF WorkerRefuses, Queue, Types
<1> HIDE DEF rec
<1>5. Fields(w, rec.phase, rec.queue, rec.request, rec.wire, rec.linked)
    BY <1>3, <1>4, FieldsOf
<1>6. inbox' = Append(inbox, Reply(Head(Queue(w)).tag, Refused))
      BY DEF WorkerRefuses, Queue
<1> QED BY <1>1, <1>3, <1>5, <1>6

\* A worker that was replaced ends.
LEMMA Ending ==
    ASSUME Types, NEW w \in Worker, WorkerEnds(w)
    PROVE  Fields(w, "gone", <<>>, Absent, workers[w].wire, FALSE)
<1> DEFINE R == workers[w]
<1>1. "gone" \in Phase /\ <<>> \in Seq(Entry) /\ FALSE \in BOOLEAN
      BY DEF Phase
<1> DEFINE rec == [Gone EXCEPT !.wire = R.wire]
<1>3. /\ rec \in WorkerState /\ rec.phase = "gone" /\ rec.queue = <<>>
      /\ rec.request = Absent /\ rec.wire = R.wire /\ rec.linked = FALSE
    BY <1>1, WorkerTyped DEF WorkerState, Queue, Gone
<1>4. workers' = [workers EXCEPT ![w] = rec]
    BY <1>1 DEF WorkerEnds, Types
<1> HIDE DEF rec
<1>5. Fields(w, rec.phase, rec.queue, rec.request, rec.wire, rec.linked)
    BY <1>3, <1>4, FieldsOf
<1> QED BY <1>3, <1>5

\* A line leaves the wire, read or torn.
LEMMA Taking ==
    ASSUME Types, NEW w \in Worker, workers' = [workers EXCEPT ![w].wire = Absent]
    PROVE  Fields(w, workers[w].phase, Queue(w), workers[w].request, Absent, workers[w].linked)
<1> DEFINE R == workers[w]
<1> DEFINE rec == [R EXCEPT !.wire = Absent]
<1>3. /\ rec \in WorkerState /\ rec.phase = R.phase /\ rec.queue = Queue(w)
      /\ rec.request = R.request /\ rec.wire = Absent /\ rec.linked = R.linked
    BY WorkerTyped DEF WorkerState, Queue
<1>4. workers' = [workers EXCEPT ![w] = rec]
    BY DEF Types
<1> HIDE DEF rec
<1>5. Fields(w, rec.phase, rec.queue, rec.request, rec.wire, rec.linked)
    BY <1>3, <1>4, FieldsOf
<1> QED BY <1>3, <1>5

\* The listener hands its answer to the worker it serves, or to nobody.
LEMMA Replying ==
    ASSUME Types, Phases, Listener, ListenerReplies
    PROVE  LET w == call.worker
               r == call.answer
               R == workers[w]
           IN  /\ call # Absent /\ w \in Worker /\ r # Absent /\ r \in Answer /\ call' = Absent
               /\ conns # <<>> /\ w = Head(conns)
               /\ \/ /\ R.phase = "await" /\ R.request \in Entry
                     /\ Fields(w, "idle", Queue(w), Absent, R.wire, R.linked)
                     /\ inbox' = Append(inbox, Reply(R.request.tag, r))
                     /\ UNCHANGED conns
                  \/ /\ R.phase = "handshake" /\ r.ok /\ r.data \in Snapshot
                     /\ Fields(w, "idle", Queue(w), R.request, R.wire, R.linked)
                     /\ inbox' = Append(inbox, Connected(r.data))
                     /\ UNCHANGED conns
                  \/ /\ R.phase = "handshake" /\ ~r.ok
                     /\ Fields(w, "closed", Queue(w), R.request, R.wire, R.linked)
                     /\ inbox' = Append(inbox, Disconnected)
                     /\ UNCHANGED conns
                  \/ /\ ~InRoundTrip(w)
                     /\ conns' = Tail(conns)
                     /\ UNCHANGED <<workers, inbox>>
<1> DEFINE w == call.worker
           r == call.answer
           R == workers[w]
<1>1. /\ call # Absent /\ w \in Worker /\ r # Absent /\ r \in Answer /\ call' = Absent
      /\ conns # <<>> /\ w = Head(conns)
      BY DEF Types, Listener, ListenerReplies, Call
<1>2. {"idle", "closed"} \subseteq Phase
      BY DEF Phase
<1>3. CASE /\ R.phase = "await"
           /\ workers' = [workers EXCEPT ![w] = [@ EXCEPT !.phase = "idle", !.request = Absent]]
           /\ inbox' = Append(inbox, Reply(R.request.tag, r))
           /\ UNCHANGED conns
  <2>0. R.request \in Entry
      BY <1>1, <1>3, WorkerTyped DEF Phases, Asks
  <2> DEFINE rec == [R EXCEPT !.phase = "idle", !.request = Absent]
  <2>1. /\ rec \in WorkerState /\ rec.phase = "idle" /\ rec.queue = Queue(w)
        /\ rec.request = Absent /\ rec.wire = R.wire /\ rec.linked = R.linked
      BY <1>1, <1>2, WorkerTyped DEF WorkerState, Queue
  <2>2. workers' = [workers EXCEPT ![w] = rec]
      BY <1>3 DEF Types
  <2> HIDE DEF rec
  <2>3. Fields(w, rec.phase, rec.queue, rec.request, rec.wire, rec.linked)
      BY <1>1, <2>1, <2>2, FieldsOf
  <2> QED BY <1>1, <1>3, <2>0, <2>1, <2>3
<1>4. CASE /\ R.phase = "handshake"
           /\ workers' = [workers EXCEPT ![w].phase = IF r.ok THEN "idle" ELSE "closed"]
           /\ inbox' = Append(inbox, IF r.ok THEN Connected(r.data) ELSE Disconnected)
           /\ UNCHANGED conns
  <2>1. CASE r.ok
    <3>0. r.data \in Snapshot
        BY <1>1, <1>4, <2>1 DEF Listener, InRoundTrip, Sent, Plain
    <3> DEFINE rec == [R EXCEPT !.phase = "idle"]
    <3>1. /\ rec \in WorkerState /\ rec.phase = "idle" /\ rec.queue = Queue(w)
          /\ rec.request = R.request /\ rec.wire = R.wire /\ rec.linked = R.linked
        BY <1>1, <1>2, WorkerTyped DEF WorkerState, Queue
    <3>2. workers' = [workers EXCEPT ![w] = rec]
        BY <1>4, <2>1 DEF Types
    <3> HIDE DEF rec
    <3>3. Fields(w, rec.phase, rec.queue, rec.request, rec.wire, rec.linked)
        BY <1>1, <3>1, <3>2, FieldsOf
    <3> QED BY <1>1, <1>4, <2>1, <3>0, <3>1, <3>3
  <2>2. CASE ~r.ok
    <3> DEFINE rec == [R EXCEPT !.phase = "closed"]
    <3>1. /\ rec \in WorkerState /\ rec.phase = "closed" /\ rec.queue = Queue(w)
          /\ rec.request = R.request /\ rec.wire = R.wire /\ rec.linked = R.linked
        BY <1>1, <1>2, WorkerTyped DEF WorkerState, Queue
    <3>2. workers' = [workers EXCEPT ![w] = rec]
        BY <1>4, <2>2 DEF Types
    <3> HIDE DEF rec
    <3>3. Fields(w, rec.phase, rec.queue, rec.request, rec.wire, rec.linked)
        BY <1>1, <3>1, <3>2, FieldsOf
    <3> QED BY <1>1, <1>4, <2>2, <3>1, <3>3
  <2> QED BY <2>1, <2>2
<1>5. CASE /\ ~InRoundTrip(w)
           /\ conns' = Tail(conns)
           /\ UNCHANGED <<workers, inbox>>
      BY <1>1, <1>5
<1> QED BY <1>3, <1>4, <1>5 DEF ListenerReplies

\* What a command does to the daemon, and the answer to it.
Answering(cmd, r) ==
    \/ /\ cmd.op \in Reading
       /\ r.ok
       /\ cmd.op = "current_preset" => r.data = active
       /\ cmd.op = "get_config" => r.data = mem
       /\ cmd.op = "handshake" => r.data = [name |-> active, config |-> mem]
       /\ UNCHANGED <<active, mem, saved>>
    \/ cmd.op \notin Reading /\ ~r.ok /\ UNCHANGED <<active, mem, saved>>
    \/ /\ cmd.op = "edit" /\ r.ok
       /\ mem' = [mem EXCEPT ![cmd.cell] = cmd.value]
       /\ UNCHANGED <<active, saved>>
    \/ cmd.op \in {"set_preset", "reload"} /\ r.ok /\ mem' = saved[active'] /\ UNCHANGED saved
    \/ /\ cmd.op = "save_preset" /\ r.ok
       /\ saved' = [saved EXCEPT ![active] = mem]
       /\ UNCHANGED <<active, mem>>

\* The daemon serves the first command of the channel.
LEMMA Serving ==
    ASSUME Types, DaemonServes
    PROVE  /\ channel # <<>> /\ channel[1].cmd \in Command
           /\ active' \in Name /\ mem' \in Config /\ saved' \in [Name -> Config]
           /\ \E r \in Answer :
                 /\ Answering(channel[1].cmd, r)
                 /\ call' = IF channel[1].waits THEN [call EXCEPT !.answer = r] ELSE call
           /\ channel' = Tail(channel)
           /\ UNCHANGED <<window, conns, alive, workers, overtaken, stalled, events, troubles>>
<1> DEFINE cmd == channel[1].cmd
           New(r) == IF channel[1].waits THEN [call EXCEPT !.answer = r] ELSE call
<1>1. channel # <<>> /\ cmd \in Command /\ Head(channel) = channel[1]
  <2>1. channel # <<>> /\ channel \in Seq([cmd : Command, waits : BOOLEAN])
      BY DEF Types, DaemonServes
  <2>2. channel[1] \in [cmd : Command, waits : BOOLEAN] /\ Head(channel) = channel[1]
      BY <2>1, First
  <2> QED BY <2>1, <2>2
<1>2. Serve(cmd) /\ channel' = Tail(channel)
      /\ UNCHANGED <<window, conns, alive, workers, overtaken, stalled, events, troubles>>
      BY <1>1 DEF DaemonServes, DaemonStep
<1>3. \A r : Answered(r) => call' = New(r)
      BY <1>1 DEF Answered
<1> HIDE DEF New, cmd
<1>4. CASE cmd.op \in Reading /\ UNCHANGED <<active, mem, saved>>
           /\ Answered(Accepted(CASE cmd.op = "current_preset" -> active
                                  [] cmd.op = "get_config" -> mem
                                  [] OTHER -> [name |-> active, config |-> mem]))
  <2> DEFINE d == CASE cmd.op = "current_preset" -> active
                    [] cmd.op = "get_config" -> mem
                    [] OTHER -> [name |-> active, config |-> mem]
  <2>1. /\ cmd.op = "current_preset" => d = active
        /\ cmd.op = "get_config" => d = mem
        /\ cmd.op = "handshake" => d = [name |-> active, config |-> mem]
        /\ d \in {active, mem, [name |-> active, config |-> mem]}
      OBVIOUS
  <2>2. d \in Snapshot \cup Name \cup Config \cup {Absent}
      BY <2>1 DEF Types, Snapshot
  <2> HIDE DEF d
  <2>3. Accepted(d) \in Answer /\ Accepted(d).ok /\ Accepted(d).data = d
      BY <2>2, Made DEF Accepted
  <2>4. call' = New(Accepted(d))
      BY <1>3, <1>4 DEF d
  <2>5. Answering(cmd, Accepted(d))
      BY <1>4, <2>1, <2>3 DEF Answering
  <2> QED BY <1>1, <1>2, <1>4, <2>3, <2>4, <2>5 DEF Types, New, cmd
<1>5. CASE cmd.op \notin Reading /\ Answered(Refused) /\ UNCHANGED <<active, mem, saved>>
  <2>1. Refused \in Answer /\ ~Refused.ok
      BY Made DEF Refused
  <2>2. Answering(cmd, Refused)
      BY <1>5, <2>1 DEF Answering
  <2> QED BY <1>1, <1>2, <1>3, <1>5, <2>1, <2>2 DEF Types, New, cmd
<1>6. Accepted(Absent) \in Answer /\ Accepted(Absent).ok
      BY Made DEF Accepted
<1>7. CASE cmd.op = "edit" /\ mem' = [mem EXCEPT ![cmd.cell] = cmd.value]
           /\ Answered(Accepted(Absent)) /\ UNCHANGED <<active, saved>>
  <2>1. cmd.cell \in Cell /\ cmd.value \in Value
      BY <1>1, <1>7 DEF Command, Reading
  <2>2. mem' \in Config
      BY <1>7, <2>1 DEF Types, Config
  <2>3. Answering(cmd, Accepted(Absent))
      BY <1>6, <1>7 DEF Answering
  <2> QED BY <1>1, <1>2, <1>3, <1>6, <1>7, <2>2, <2>3 DEF Types, New, cmd
<1>8. CASE cmd.op = "set_preset" /\ active' = cmd.name /\ mem' = saved[cmd.name]
           /\ Answered(Accepted(Absent)) /\ UNCHANGED saved
  <2>1. cmd.name \in Name
      BY <1>1, <1>8 DEF Command, Reading
  <2>2. Answering(cmd, Accepted(Absent))
      BY <1>6, <1>8 DEF Answering
  <2> QED BY <1>1, <1>2, <1>3, <1>6, <1>8, <2>1, <2>2 DEF Types, New, cmd
<1>9. CASE cmd.op = "reload" /\ mem' = saved[active]
           /\ Answered(Accepted(Absent)) /\ UNCHANGED <<active, saved>>
  <2>1. Answering(cmd, Accepted(Absent))
      BY <1>6, <1>9 DEF Answering
  <2> QED BY <1>1, <1>2, <1>3, <1>6, <1>9, <2>1 DEF Types, New, cmd
<1>10. CASE cmd.op = "save_preset" /\ saved' = [saved EXCEPT ![active] = mem]
           /\ Answered(Accepted(Absent)) /\ UNCHANGED <<active, mem>>
  <2>1. Answering(cmd, Accepted(Absent))
      BY <1>6, <1>10 DEF Answering
  <2> QED BY <1>1, <1>2, <1>3, <1>6, <1>10, <2>1 DEF Types, New, cmd
<1> QED BY <1>2, <1>4, <1>5, <1>7, <1>8, <1>9, <1>10 DEF Serve

\* A crash takes the streams and what was on them.
LEMMA Crashing ==
    ASSUME Types, Crash
    PROVE  /\ workers' \in [Worker -> WorkerState]
           /\ \A w \in Worker :
                 /\ workers'[w].phase = workers[w].phase /\ workers'[w].queue = Queue(w)
                 /\ workers'[w].request = workers[w].request
                 /\ workers'[w].wire = Absent /\ ~workers'[w].linked
<1>1. \A w \in Worker : [workers[w] EXCEPT !.linked = FALSE, !.wire = Absent] \in WorkerState
      BY DEF Types, WorkerState
<1>2. workers' = [w \in Worker |-> [workers[w] EXCEPT !.linked = FALSE, !.wire = Absent]]
      BY DEF Crash
<1>3. workers' \in [Worker -> WorkerState]
      BY <1>1, <1>2
<1>4. \A w \in Worker : workers'[w] = [workers[w] EXCEPT !.linked = FALSE, !.wire = Absent]
      BY <1>2
<1>5. ASSUME NEW w \in Worker
      PROVE  /\ workers'[w].phase = workers[w].phase /\ workers'[w].queue = Queue(w)
             /\ workers'[w].request = workers[w].request
             /\ workers'[w].wire = Absent /\ ~workers'[w].linked
  <2> DEFINE W == workers[w]
  <2>1. W \in WorkerState /\ workers'[w] = [W EXCEPT !.linked = FALSE, !.wire = Absent]
      BY <1>4 DEF Types
  <2> HIDE DEF W
  <2>2. /\ [W EXCEPT !.linked = FALSE, !.wire = Absent].phase = W.phase
        /\ [W EXCEPT !.linked = FALSE, !.wire = Absent].queue = W.queue
        /\ [W EXCEPT !.linked = FALSE, !.wire = Absent].request = W.request
        /\ [W EXCEPT !.linked = FALSE, !.wire = Absent].wire = Absent
        /\ ~[W EXCEPT !.linked = FALSE, !.wire = Absent].linked
      BY <2>1 DEF WorkerState
  <2> QED BY <2>1, <2>2 DEF Queue, W
<1> QED BY <1>3, <1>5

\* An answer nobody waits for is dropped; one that answers p changes the mirror
\* and may send the follow-up of p.
LEMMA Hearing ==
    ASSUME Types, Known, AnswersFit, OnReply
    PROVE  LET m == inbox[1]
               left == {q \in pending : q.tag # m.tag}
           IN  /\ inbox # <<>> /\ m \in Message /\ m.is = "reply" /\ inbox' = Tail(inbox)
               /\ UNCHANGED <<status, lost, tick, overtaken, dialog, server, stalled, events, troubles>>
               /\ \/ /\ \A q \in pending : q.tag # m.tag
                     /\ UNCHANGED <<name, config, baseline, requests, debounced, workers>>
                  \/ \E p \in pending :
                        /\ p.tag = m.tag
                        /\ config' = Mirrored(p, m.r) /\ config' \in Config
                        /\ baseline' = Baselined(p, m.r) /\ baseline' \in Config
                        /\ name' = (IF m.r.ok /\ p.kind = "CurrentPreset" THEN m.r.data ELSE name)
                        /\ name' \in Name
                        /\ name \in Name /\ config \in Config
                        /\ debounced' \in Value \cup {Absent}
                        /\ Batch(FollowUp(p, m.r)) /\ SendEffect(left, FollowUp(p, m.r))
<1> DEFINE m == inbox[1]
           left == {q \in pending : q.tag # m.tag}
<1>1. /\ inbox # <<>> /\ m \in Message /\ Head(inbox) = m /\ m.is = "reply" /\ inbox' = Tail(inbox)
      /\ UNCHANGED <<status, lost, tick, overtaken, dialog, server, stalled, events, troubles>>
      BY InboxHead DEF OnReply, Receive
<1>2. m.tag \in Nat /\ m.r \in Answer /\ 1 \in DOMAIN inbox
      BY <1>1, Read, InboxHead
<1>3. PICK mine \in {{p \in pending : p.tag = m.tag}} :
         \/ /\ mine = {}
            /\ UNCHANGED <<name, config, baseline, requests, debounced, workers>>
         \/ \E p \in mine :
              /\ config' = Mirrored(p, m.r)
              /\ baseline' = Baselined(p, m.r)
              /\ name' = IF m.r.ok /\ p.kind = "CurrentPreset" THEN m.r.data ELSE name
              /\ debounced' = IF Rebuilds(p, m.r) THEN Absent ELSE debounced
              /\ SendAll(pending \ mine, FollowUp(p, m.r))
      BY <1>1 DEF OnReply
<1>4. mine = {p \in pending : p.tag = m.tag} /\ pending \ mine = left
      BY <1>3
<1>5. CASE mine = {} /\ UNCHANGED <<name, config, baseline, requests, debounced, workers>>
      BY <1>1, <1>4, <1>5
<1>6. ASSUME NEW p \in mine,
             config' = Mirrored(p, m.r), baseline' = Baselined(p, m.r),
             name' = IF m.r.ok /\ p.kind = "CurrentPreset" THEN m.r.data ELSE name,
             debounced' = IF Rebuilds(p, m.r) THEN Absent ELSE debounced,
             SendAll(left, FollowUp(p, m.r))
      PROVE  /\ p \in pending /\ p.tag = m.tag /\ config' \in Config /\ baseline' \in Config
             /\ name' \in Name /\ name \in Name /\ config \in Config
             /\ debounced' \in Value \cup {Absent}
             /\ Batch(FollowUp(p, m.r)) /\ SendEffect(left, FollowUp(p, m.r))
  <2>1. p \in pending /\ p.tag = m.tag /\ p \in Request
      BY <1>4, <1>6 DEF Types
  <2>2. name \in Name /\ config \in Config /\ baseline \in Config
      BY <2>1 DEF Known
  <2>3. m.r.ok => /\ p.kind \in Fetching => m.r.data \in Config
                  /\ p.kind = "CurrentPreset" => m.r.data \in Name
      BY <1>1, <1>2, <2>1 DEF AnswersFit, Answers
  <2>4. p.kind \in {"SetParam", "SetEnabled"} => p.value \in Value
      BY <2>1 DEF Request
  <2>5. config' \in Config
    <3>1. \A c \in Cell, v \in Value : [config EXCEPT ![c] = v] \in Config
        BY <2>2 DEF Config
    <3>2. "param" \in Cell /\ "flag" \in Cell
        BY DEF Cell
    <3>3. CASE ~m.r.ok
        BY <1>6, <2>2, <3>3 DEF Mirrored
    <3>4. CASE m.r.ok /\ p.kind = "SetParam"
        BY <1>6, <2>4, <3>1, <3>2, <3>4 DEF Mirrored, Fetching
    <3>5. CASE m.r.ok /\ p.kind = "SetEnabled"
        BY <1>6, <2>4, <3>1, <3>2, <3>5 DEF Mirrored, Fetching
    <3>6. CASE m.r.ok /\ p.kind \in Fetching
        BY <1>6, <2>3, <3>6 DEF Mirrored, Fetching
    <3>7. CASE m.r.ok /\ p.kind \notin {"SetParam", "SetEnabled"} \cup Fetching
        BY <1>6, <2>2, <3>7 DEF Mirrored
    <3> QED BY <3>3, <3>4, <3>5, <3>6, <3>7
  <2>6. baseline' \in Config
      BY <1>6, <2>2, <2>3 DEF Baselined, Fetching
  <2>7. name' \in Name
      BY <1>6, <2>2, <2>3
  <2>8. debounced' \in Value \cup {Absent}
      BY <1>6 DEF Types
  <2>9. FollowUp(p, m.r) \in {RefetchActive, <<GetConfigQuiet>>, <<>>}
      BY DEF FollowUp
  <2>10. Batch(FollowUp(p, m.r))
      BY <2>9, Batches
  <2>11. left \in SUBSET pending
      OBVIOUS
  <2>12. SendEffect(left, FollowUp(p, m.r))
      BY <1>6, <2>10, <2>11, SendingIs DEF Batch
  <2> QED BY <2>1, <2>2, <2>5, <2>6, <2>7, <2>8, <2>10, <2>12
<1>7. ASSUME NEW p \in mine,
             config' = Mirrored(p, m.r), baseline' = Baselined(p, m.r),
             name' = IF m.r.ok /\ p.kind = "CurrentPreset" THEN m.r.data ELSE name,
             debounced' = IF Rebuilds(p, m.r) THEN Absent ELSE debounced,
             SendAll(pending \ mine, FollowUp(p, m.r))
      PROVE  \E q \in pending :
                        /\ q.tag = m.tag
                        /\ config' = Mirrored(q, m.r) /\ config' \in Config
                        /\ baseline' = Baselined(q, m.r) /\ baseline' \in Config
                        /\ name' = (IF m.r.ok /\ q.kind = "CurrentPreset" THEN m.r.data ELSE name)
                        /\ name' \in Name
                        /\ name \in Name /\ config \in Config
                        /\ debounced' \in Value \cup {Absent}
                        /\ Batch(FollowUp(q, m.r)) /\ SendEffect(left, FollowUp(q, m.r))
  <2>1. SendAll(left, FollowUp(p, m.r))
      BY <1>4, <1>7
  <2> HIDE DEF left, m
  <2> QED BY <1>6, <1>7, <2>1
<1> QED BY <1>1, <1>3, <1>5, <1>7

-----------------------------------------------------------------------------
(* Types and Known are kept. *)

LEMMA TruthValues == TRUE \in BOOLEAN /\ FALSE \in BOOLEAN
OBVIOUS

\* The first state is typed.
LEMMA TypesInitially == Init => Types /\ Known
<1> SUFFICES ASSUME Init PROVE Types /\ Known
    OBVIOUS
<1>1. worker \in Worker
      BY WorkerAssumption DEF Init
<1>2. workers \in [Worker -> WorkerState]
      BY <1>1, Made DEF Init
<1>3. saved \in [Name -> Config] /\ active \in Name /\ mem \in Config
      BY NameAssumption, FilesAssumption DEF Init
<1>4. <<>> \in Seq(Message) /\ <<>> \in Seq(Worker) /\ <<>> \in Seq([cmd : Command, waits : BOOLEAN])
      /\ {} \in SUBSET Request /\ 0 \in Nat
      OBVIOUS
<1>5. Types
      BY <1>1, <1>2, <1>3, <1>4, TruthValues DEF Init, Types
<1>6. Known
      BY DEF Init, Known, IsConnected
<1> QED BY <1>5, <1>6

\* Every step keeps the types, and the window keeps a preset to show.
LEMMA TypesKept ==
    ASSUME Types, Known, AnswersFit, Phases, Listener, [Next]_vars
    PROVE  Types' /\ Known'
<1> USE DEF IsConnected
<1>1. CASE WindowActs
  <2>1. /\ Sending \/ UNCHANGED <<requests, workers>>
        /\ UNCHANGED <<status, mirror, tick, inbox, server, stalled, troubles>>
        /\ debounced' \in Value \cup {Absent} /\ dialog' \in Question \cup {Absent}
        /\ overtaken' \in BOOLEAN /\ events' \in Nat
        /\ name \in Name /\ config \in Config /\ baseline \in Config
      BY <1>1, WindowActing
  <2>2. /\ pending' \in SUBSET Request /\ nextTag' \in Nat /\ UNCHANGED link
        /\ workers' \in [Worker -> WorkerState]
    <3>1. CASE UNCHANGED <<requests, workers>>
        BY <3>1 DEF requests, Types
    <3>2. CASE Sending
      <4>1. PICK msgs : Batch(msgs) /\ SendEffect(pending, msgs)
          BY <3>2 DEF Sending
      <4>2. Len(msgs) \in Nat
          BY <4>1 DEF Batch
      <4> QED BY <4>1, <4>2 DEF SendEffect, Types
    <3> QED BY <2>1, <3>1, <3>2
  <2> QED BY <2>1, <2>2 DEF Types, Known, mirror, link, server
<1>2. CASE TickFires
  <2>1. inbox' \in Seq(Message)
      BY <1>2, Made DEF TickFires, Types
  <2>2. tick' \in BOOLEAN
      BY <1>2, TruthValues DEF TickFires
  <2>3. UNCHANGED <<status, name, config, baseline, lost, pending, nextTag, worker, abandoned>>
        /\ UNCHANGED <<debounced, dialog, workers, server, overtaken, stalled, events, troubles>>
      BY <1>2 DEF TickFires, mirror, requests, link
  <2>4. Types'
      BY <2>1, <2>2, <2>3 DEF Types, server
  <2>5. Known'
      BY <2>3 DEF Known
  <2> QED BY <2>4, <2>5
<1>3. CASE PressRetry
  <2>1. inbox' \in Seq(Message)
      BY <1>3, Made DEF PressRetry, Types
  <2> QED BY <1>3, <2>1 DEF PressRetry, Event, Types, Known, mirror, requests, link, server
<1>4. CASE OnConnected
  <2>1. inbox # <<>> /\ Head(inbox) \in Message /\ Head(inbox).is = "connected"
      BY <1>4, InboxHead DEF OnConnected, Receive
  <2>2. Head(inbox).data \in Snapshot
      BY <2>1, Read
  <2>3. inbox' \in Seq(Message)
      BY <1>4, <2>1, Renewing DEF OnConnected
  <2>4. name' \in Name /\ config' \in Config
      BY <1>4, <2>2 DEF OnConnected, Snapshot
  <2>5. baseline' \in Config
    <3>1. lost # Absent => lost.baseline \in Config
        BY DEF Types, LostSession
    <3> QED BY <1>4, <2>2, <3>1 DEF OnConnected, Snapshot, Types
  <2> QED BY <1>4, <2>3, <2>4, <2>5
          DEF OnConnected, Receive, Types, Known, requests, link, server
<1>5. CASE OnDisconnected
  <2>1. inbox # <<>>
      BY <1>5 DEF OnDisconnected, Receive
  <2>2. inbox' \in Seq(Message)
      BY <1>5, <2>1, Renewing DEF OnDisconnected
  <2>3. lost' \in LostSession \cup {Absent}
      BY <1>5 DEF OnDisconnected, Types, Known, LostSession
  <2> QED BY <1>5, <2>2, <2>3 DEF OnDisconnected, Receive, Types, Known, link, server
<1>6. CASE OnReply
  <2> DEFINE m == inbox[1]
             left == {q \in pending : q.tag # m.tag}
  <2>1. /\ inbox' = Tail(inbox) /\ inbox # <<>>
        /\ UNCHANGED <<status, lost, tick, overtaken, dialog, server, stalled, events, troubles>>
      BY <1>6, Hearing
  <2>2. inbox' \in Seq(Message)
      BY <2>1, InboxHead
  <2>3. CASE UNCHANGED <<name, config, baseline, requests, debounced, workers>>
      BY <2>1, <2>2, <2>3 DEF Types, Known, requests, link, server
  <2>4. ASSUME NEW msgs, Batch(msgs), SendEffect(left, msgs),
               config' \in Config, baseline' \in Config, name' \in Name,
               debounced' \in Value \cup {Absent}
        PROVE  Types' /\ Known'
    <3>1. Len(msgs) \in Nat
        BY <2>4 DEF Batch
    <3>2. /\ pending' \in SUBSET Request /\ nextTag' \in Nat /\ UNCHANGED link
          /\ workers' \in [Worker -> WorkerState]
        BY <2>4, <3>1 DEF SendEffect, Types
    <3> QED BY <2>1, <2>2, <2>4, <3>2 DEF Types, Known, link, server
  <2> HIDE DEF m, left
  <2> QED BY <1>6, <2>3, <2>4, Hearing DEF m, left
<1>7. ASSUME inbox # <<>>, Reconnect,
             UNCHANGED <<dialog, server, stalled, events, troubles>>
      PROVE  Types' /\ Known'
  <2>1. /\ worker' \in Worker
        /\ workers' \in [Worker -> WorkerState]
        /\ pending' = {} /\ status' = "connecting" /\ tick' = FALSE
        /\ abandoned' = (abandoned \/ ~Reported)
        /\ NewGeneration
        /\ UNCHANGED <<mirror, nextTag, debounced, overtaken>>
      BY <1>7, Reconnecting
  <2>2. inbox' \in Seq(Message)
      BY <1>7, <2>1, Renewing
  <2>3. tick' \in BOOLEAN /\ status' \in {"connecting", "connected", "disconnected"}
      BY <2>1, TruthValues
  <2>4. abandoned' \in BOOLEAN
      BY <2>1, TruthValues DEF Types
  <2>5. pending' \in SUBSET Request
      BY <2>1
  <2>6. Types'
      BY <1>7, <2>1, <2>2, <2>3, <2>4, <2>5 DEF Types, mirror, server
  <2>7. Known'
      BY <1>7, <2>1 DEF Known, mirror
  <2> QED BY <2>6, <2>7
<1>8. CASE OnRetry
      BY <1>7, <1>8 DEF OnRetry, Receive
<1>9. CASE OnTick
  <2>1. CASE Reconnect
      BY <1>7, <1>9, <2>1 DEF OnTick, Receive
  <2>2. CASE /\ inbox' = Tail(inbox)
             /\ UNCHANGED <<status, mirror, requests, tick, debounced, workers, overtaken>>
    <3>1. inbox' \in Seq(Message)
        BY <1>9, <2>2, InboxHead DEF OnTick, Receive
    <3> QED BY <1>9, <2>2, <3>1
            DEF OnTick, Receive, Types, Known, mirror, requests, link, server
  <2> QED BY <1>9, <2>1, <2>2 DEF OnTick
\* The steps that leave the window alone but for its inbox.
<1>10. ASSUME WorkerStep, inbox' \in Seq(Message), workers' \in [Worker -> WorkerState],
              conns' \in Seq(Worker), UNCHANGED <<call, channel>>,
              overtaken' \in BOOLEAN, troubles' \in Nat
       PROVE  Types' /\ Known'
      BY <1>10 DEF WorkerStep, Types, Known, mirror, requests, link
<1>11. ASSUME NEW w \in Worker, WorkerConnects(w)
       PROVE  Types' /\ Known'
  <2>1. workers' \in [Worker -> WorkerState] /\ inbox' \in Seq(Message) /\ conns' \in Seq(Worker)
    <3>1. Append(conns, w) \in Seq(Worker) /\ conns \in Seq(Worker)
        BY DEF Types
    <3>2. Append(inbox, Disconnected) \in Seq(Message) /\ inbox \in Seq(Message)
        BY Made DEF Types
    <3> QED BY <1>11, <3>1, <3>2, Connecting DEF Fields
  <2> QED BY <1>10, <1>11, <2>1 DEF WorkerConnects, Types
<1>12. ASSUME NEW w \in Worker, WorkerSends(w)
       PROVE  Types' /\ Known'
  <2>1. workers' \in [Worker -> WorkerState]
      BY <1>12, Asking DEF Fields
  <2> QED BY <1>10, <1>12, <2>1 DEF WorkerSends, Types
<1>13. ASSUME NEW w \in Worker, GivesUp(w), troubles' \in Nat
       PROVE  Types' /\ Known'
  <2>1. workers' \in [Worker -> WorkerState] /\ overtaken' \in BOOLEAN
      BY <1>13, GivingUp DEF Fields
  <2>2. workers[w].request \in Entry => Reply(workers[w].request.tag, Refused) \in Message
      BY Made DEF Entry
  <2>3. inbox' \in Seq(Message)
    <3>1. CASE workers[w].request \in Entry
               /\ inbox' = inbox \o <<Reply(workers[w].request.tag, Refused), Disconnected>>
      <4>1. <<Reply(workers[w].request.tag, Refused), Disconnected>> \in Seq(Message)
          BY <2>2, <3>1, Made
      <4> HIDE DEF Reply, Refused, Disconnected
      <4> QED BY <3>1, <4>1, Joined DEF Types
    <3>2. CASE inbox' = Append(inbox, Disconnected)
        BY <3>2, Made DEF Types
    <3> QED BY <1>13, <3>1, <3>2, GivingUp
  <2> QED BY <1>10, <1>13, <2>1, <2>3 DEF GivesUp, Types
<1>14. ASSUME NEW w \in Worker, WorkerFails(w) \/ WorkerTimesOut(w)
       PROVE  Types' /\ Known'
  <2>1. GivesUp(w) /\ troubles' \in Nat
      BY <1>14 DEF WorkerFails, WorkerTimesOut, Trouble, Types
  <2> QED BY <1>13, <2>1
<1>15. ASSUME NEW w \in Worker, WorkerRefuses(w)
       PROVE  Types' /\ Known'
  <2>1. workers' \in [Worker -> WorkerState] /\ Head(Queue(w)).tag \in Nat
        /\ inbox' = Append(inbox, Reply(Head(Queue(w)).tag, Refused))
      BY <1>15, Refusing DEF Fields, Entry
  <2>2. inbox' \in Seq(Message)
      BY <2>1, Made DEF Types
  <2> QED BY <1>10, <1>15, <2>1, <2>2 DEF WorkerRefuses, Types
<1>16. ASSUME NEW w \in Worker, WorkerEnds(w)
       PROVE  Types' /\ Known'
  <2>1. workers' \in [Worker -> WorkerState]
      BY <1>16, Ending DEF Fields
  <2> QED BY <1>10, <1>16, <2>1 DEF WorkerEnds, Types
<1>17. ASSUME ListenerStep, inbox' \in Seq(Message), workers' \in [Worker -> WorkerState],
              conns' \in Seq(Worker), call' \in Call \cup {Absent},
              channel' \in Seq([cmd : Command, waits : BOOLEAN]),
              overtaken' \in BOOLEAN, stalled' \in BOOLEAN, troubles' \in Nat
       PROVE  Types' /\ Known'
      BY <1>17 DEF ListenerStep, Types, Known, mirror, requests, link
<1>18. Listening => Served \in Worker /\ Tail(conns) \in Seq(Worker)
      BY First DEF Listening, Types, Served
<1>19. CASE ListenerReads
  <2>1. Served \in Worker /\ workers[Served].wire \in Command
      BY <1>18, <1>19, WorkerTyped DEF ListenerReads
  <2>2. workers' \in [Worker -> WorkerState]
      BY <1>19, <2>1, Taking DEF ListenerReads, Fields
  <2>3. [worker |-> Served, answer |-> Absent] \in Call
      BY <2>1 DEF Call
  <2>4. channel' \in Seq([cmd : Command, waits : BOOLEAN])
    <3>1. [cmd |-> workers[Served].wire, waits |-> TRUE] \in [cmd : Command, waits : BOOLEAN]
        BY <2>1
    <3> QED BY <1>19, <3>1 DEF ListenerReads, Types
  <2> QED BY <1>17, <1>19, <2>2, <2>3, <2>4 DEF ListenerReads, Types
<1>20. CASE ListenerTears
  <2>1. workers' \in [Worker -> WorkerState]
      BY <1>18, <1>20, Taking DEF ListenerTears, Fields
  <2> QED BY <1>17, <1>20, <2>1 DEF ListenerTears, Trouble, Types
<1>21. CASE ListenerEnds
      BY <1>17, <1>18, <1>21 DEF ListenerEnds, Types
<1>22. CASE ListenerStalls
  <2>1. call' \in Call
      BY <1>22, Made DEF ListenerStalls, Types, Call
  <2>2. channel' \in Seq([cmd : Command, waits : BOOLEAN])
    <3> DEFINE E == [cmd : Command, waits : BOOLEAN]
               Off(e) == [e EXCEPT !.waits = FALSE]
    <3>1. \A e \in E : Off(e) \in E
        OBVIOUS
    <3>2. channel \in Seq(E) /\ channel' = [i \in DOMAIN channel |-> Off(channel[i])]
        BY <1>22 DEF ListenerStalls, Types
    <3> HIDE DEF E, Off
    <3>3. channel' \in Seq(E)
        BY <3>1, <3>2
    <3> QED BY <3>3 DEF E
  <2>3. stalled' \in BOOLEAN /\ overtaken' \in BOOLEAN /\ troubles' \in Nat
      BY <1>22, TruthValues DEF ListenerStalls, Trouble, Types
  <2>4. /\ UNCHANGED <<status, name, config, baseline, lost, pending, nextTag, worker, abandoned, tick>>
        /\ UNCHANGED <<debounced, dialog, inbox, workers, conns, alive, active, mem, saved, events>>
      BY <1>22 DEF ListenerStalls, ListenerStep, mirror, requests, link
  <2>5. Types'
      BY <2>1, <2>2, <2>3, <2>4 DEF Types
  <2>6. Known'
      BY <2>4 DEF Known
  <2> QED BY <2>5, <2>6
<1>23. CASE ListenerReplies
  <2>1. call' = Absent /\ conns # <<>>
      BY <1>23, Replying
  <2>2. workers' \in [Worker -> WorkerState]
    <3>1. UNCHANGED workers \/ workers' \in [Worker -> WorkerState]
        BY <1>23, Replying DEF Fields
    <3> QED BY <3>1 DEF Types
  <2>3. conns' \in Seq(Worker)
      BY <1>23, <2>1, Replying, First DEF Types
  <2>4. inbox' \in Seq(Message)
    <3>1. \A m \in Message : Append(inbox, m) \in Seq(Message)
        BY DEF Types
    <3> QED BY <1>23, <3>1, Replying, Made DEF Types, Entry
  <2> QED BY <1>17, <1>23, <2>1, <2>2, <2>3, <2>4 DEF ListenerReplies, Types
<1>24. CASE DaemonServes
  <2>1. PICK r \in Answer : call' = IF channel[1].waits THEN [call EXCEPT !.answer = r] ELSE call
      BY <1>24, Serving
  <2>2. /\ channel # <<>> /\ channel' = Tail(channel)
        /\ active' \in Name /\ mem' \in Config /\ saved' \in [Name -> Config]
        /\ UNCHANGED <<window, conns, alive, workers, overtaken, stalled, events, troubles>>
      BY <1>24, Serving
  <2>3. channel' \in Seq([cmd : Command, waits : BOOLEAN])
      BY <2>2, First DEF Types
  <2>4. call' \in Call \cup {Absent}
    <3>1. channel[1].waits => call # Absent
        BY <2>2, First DEF Listener, Types
    <3> QED BY <2>1, <3>1 DEF Types, Call
  <2> QED BY <2>2, <2>3, <2>4 DEF Types, Known, window, mirror, requests, link
<1>25. CASE Crash
  <2>1. workers' \in [Worker -> WorkerState]
      BY <1>25, Crashing
  <2>2. <<>> \in Seq(Worker) /\ <<>> \in Seq([cmd : Command, waits : BOOLEAN])
      OBVIOUS
  <2>3. /\ alive' = FALSE /\ conns' = <<>> /\ call' = Absent /\ channel' = <<>>
        /\ troubles' = troubles + 1
        /\ UNCHANGED <<window, overtaken, stalled, events, active, mem, saved>>
      BY <1>25 DEF Crash, DaemonStep, Trouble
  <2>7. alive' \in BOOLEAN
      BY <2>3, TruthValues, Zenon
  <2>4. troubles' \in Nat /\ conns' \in Seq(Worker) /\ call' \in Call \cup {Absent}
        /\ channel' \in Seq([cmd : Command, waits : BOOLEAN])
      BY <2>2, <2>3 DEF Types
  <2>5. Known'
      BY <2>3 DEF Known, window, mirror, requests
  <2>6. Types'
      BY <2>1, <2>3, <2>4, <2>7 DEF Types, window, mirror, requests, link
  <2> QED BY <2>5, <2>6
<1>26. CASE Restart
      BY <1>26, NameAssumption DEF Restart, DaemonStep, Types, Known, window, mirror, requests, link
<1>27. CASE UNCHANGED vars
      BY <1>27 DEF vars, window, mirror, requests, link, server, Types, Known
<1> QED BY <1>1, <1>2, <1>3, <1>4, <1>5, <1>6, <1>8, <1>9, <1>11, <1>12, <1>14, <1>15, <1>16,
           <1>19, <1>20, <1>21, <1>22, <1>23, <1>24, <1>25, <1>26, <1>27
        DEF Next, WindowStep, Operator, WindowActs, Server, WorkerRuns
-----------------------------------------------------------------------------
(* Structure is kept.  A step passes on what is there, or sends, or moves  *)
(* one tag: from a queue to the request, from there or the queue to the    *)
(* inbox.                                                                  *)

\* The answers in the inbox move up by d places.
Shifted(d) ==
    \A i \in DOMAIN inbox' :
        inbox'[i].is = "reply" => i + d \in DOMAIN inbox /\ inbox[i + d] = inbox'[i]

Passing ==
    /\ pending' \subseteq pending /\ UNCHANGED nextTag
    /\ \E d \in {0, 1} : Shifted(d)
    /\ \A w \in Worker :
          \/ workers'[w].queue = Queue(w) /\ workers'[w].request \in {workers[w].request, Absent}
          \/ workers'[w].queue = <<>> /\ workers'[w].request = Absent

\* A step that only forgets keeps the tags apart and the answers fitting.
LEMMA PassingKeeps ==
    ASSUME Types, Tags, Fitting, ChainsFetched, Passing, inbox' \in Seq(Message)
    PROVE  Tags' /\ Fitting' /\ ChainsFetched'
<1>1. PICK d \in {0, 1} : Shifted(d)
      BY DEF Passing
<1>2. \A i \in DOMAIN inbox' : Answers(i)' =>
         i + d \in DOMAIN inbox /\ Answers(i + d) /\ inbox'[i] = inbox[i + d] /\ i \in Nat
      BY <1>1 DEF Shifted, Answers
<1>3. \A w \in Worker : \A i \in DOMAIN Queue(w)' : i \in DOMAIN Queue(w) /\ Queue(w)'[i] = Queue(w)[i]
      BY DEF Passing, Queue
<1>4. \A w \in Worker : Asks(w)' => Asks(w) /\ workers'[w].request = workers[w].request
      BY DEF Passing, Asks
<1>5. pending' \subseteq pending /\ nextTag' = nextTag
      BY DEF Passing
<1>6. Tags'
  <2>1. TagsBelow'
      BY <1>2, <1>3, <1>4, <1>5 DEF Tags, TagsBelow
  <2>2. PendingOnce'
      BY <1>5 DEF Tags, PendingOnce
  <2>3. AnswersOnce'
      BY <1>2 DEF Tags, AnswersOnce
  <2>4. QueuesOnce'
      BY <1>3 DEF Tags, QueuesOnce
  <2>5. RequestsOnce'
      BY <1>4 DEF Tags, RequestsOnce
  <2>6. QueuedUnanswered'
      BY <1>2, <1>3 DEF Tags, QueuedUnanswered
  <2>7. RequestUnanswered'
      BY <1>2, <1>4 DEF Tags, RequestUnanswered
  <2>8. RequestUnqueued'
      BY <1>3, <1>4 DEF Tags, RequestUnqueued
  <2> QED BY <2>1, <2>2, <2>3, <2>4, <2>5, <2>6, <2>7, <2>8 DEF Tags
<1>7. Fitting'
  <2>1. QueuesFit'
      BY <1>3, <1>5 DEF Fitting, QueuesFit
  <2>2. RequestsFit'
      BY <1>4, <1>5 DEF Fitting, RequestsFit
  <2>3. AnswersFit'
      BY <1>2, <1>5 DEF Fitting, AnswersFit
  <2> QED BY <2>1, <2>2, <2>3 DEF Fitting
<1>8. ChainsFetched'
  <2>1. \A w \in Worker : Queue(w)' # Queue(w) => Queue(w)' = <<>> /\ ~Asks(w)'
      BY DEF Passing, Queue, Asks
  <2>2. ASSUME NEW w \in Worker, Queue(w)' = Queue(w), NEW i \in DOMAIN Queue(w)',
               Queue(w)'[i].cmd.op = "edit", Queue(w)'[i].cmd.cell = "chain"
        PROVE  i + 1 \in DOMAIN Queue(w)' /\ Queue(w)'[i + 1].cmd = Plain("get_config")
      BY <2>2 DEF ChainsFetched
  <2>3. ASSUME NEW w \in Worker, Queue(w)' = Queue(w), Asks(w)',
               workers'[w].request.cmd.op = "edit", workers'[w].request.cmd.cell = "chain"
        PROVE  1 \in DOMAIN Queue(w)' /\ Queue(w)'[1].cmd = Plain("get_config")
      BY <1>4, <2>3 DEF ChainsFetched
  <2>4. \A w \in Worker : Queue(w)' = <<>> => DOMAIN Queue(w)' = {}
      OBVIOUS
  <2> QED BY <2>1, <2>2, <2>3, <2>4 DEF ChainsFetched, Queue, Asks
<1> QED BY <1>6, <1>7, <1>8

\* Sending what follows, after the answers in the inbox moved up by d places.
LEMMA SendingKeeps ==
    ASSUME Types, Tags, Fitting, ChainsFetched, inbox' \in Seq(Message),
           NEW left \in SUBSET pending, NEW msgs, Batch(msgs), SendEffect(left, msgs),
           NEW d \in {0, 1}, Shifted(d)
    PROVE  Tags' /\ Fitting' /\ ChainsFetched'
<1> DEFINE n == Len(msgs)
           q == Queue(worker)
           l == Len(q)
           Old(t) == t \in Nat /\ t < nextTag
           New(k) == nextTag + k - 1
           At(k) == l + k
           NewQ(w) == workers'[w].queue
<1>1. /\ n \in Nat /\ nextTag \in Nat /\ l \in Nat /\ worker \in Worker
      /\ q \in Seq(Entry) /\ DOMAIN q = 1..l /\ nextTag' = nextTag + n /\ DOMAIN msgs = 1..n
      BY WorkerTyped DEF Types, Batch, SendEffect, link
<1>2. /\ \A k \in 1..n : ~Old(New(k)) /\ New(k) < nextTag'
      /\ \A k, m \in 1..n : New(k) = New(m) => k = m
      /\ \A t : Old(t) => t < nextTag'
      BY <1>1
<1>3. \A i \in DOMAIN inbox' : Answers(i)' =>
         i + d \in DOMAIN inbox /\ Answers(i + d) /\ inbox'[i] = inbox[i + d] /\ i \in Nat
      BY DEF Shifted, Answers
<1>4. \A w \in Worker \ {worker} : Queue(w)' = Queue(w)
      BY DEF SendEffect, Queue
<1>5. /\ DOMAIN NewQ(worker) = 1..(l + n)
      /\ \A i \in DOMAIN q : i \in DOMAIN NewQ(worker) /\ NewQ(worker)[i] = q[i]
      /\ \A k \in 1..n : NewQ(worker)[At(k)].tag = New(k) /\ NewQ(worker)[At(k)].cmd = msgs[k].cmd
  <2>1. workers'[worker].queue \in Seq(Entry) /\ Len(workers'[worker].queue) = l + n
      BY <1>1 DEF SendEffect, WorkerState
  <2>2. DOMAIN NewQ(worker) = 1..(l + n)
      BY <1>1, <2>1
  <2>3. \A i \in 1..l : i \in 1..(l + n)
      BY <1>1
  <2>4. \A i \in 1..l : NewQ(worker)[i] = q[i]
      BY DEF SendEffect, Queue
  <2>5. \A k \in 1..n : NewQ(worker)[At(k)] = [tag |-> New(k), cmd |-> msgs[k].cmd]
      BY DEF SendEffect, Queue
  <2>6. \A k \in 1..n : NewQ(worker)[At(k)].tag = New(k) /\ NewQ(worker)[At(k)].cmd = msgs[k].cmd
    <3> TAKE k \in 1..n
    <3>1. NewQ(worker)[At(k)] = [tag |-> New(k), cmd |-> msgs[k].cmd]
        BY <2>5
    <3> HIDE DEF n, l, q, NewQ, New, At
    <3> QED BY <3>1
  <2> HIDE DEF n, l, q, NewQ, New, At
  <2> QED BY <1>1, <2>2, <2>3, <2>4, <2>6
<1>6. \A i \in 1..(l + n) : i \in 1..l \/ \E k \in 1..n : i = At(k)
  <2>1. \A i \in 1..(l + n) : i \in 1..l \/ (i - l \in 1..n /\ i = At(i - l))
      BY <1>1
  <2> QED BY <2>1
<1>7. /\ \A k \in 1..n : k + 1 \in 1..n => At(k) + 1 = At(k + 1) /\ At(k + 1) \in 1..(l + n)
      /\ \A k, m \in 1..n : k = m => At(k) = At(m)
      BY <1>1
<1>8. \A w \in Worker : (Asks(w)' <=> Asks(w)) /\ workers'[w].request = workers[w].request
      BY DEF SendEffect, Asks
<1>9. \A p \in pending' : p \in left \/ \E k \in 1..n :
         p.tag = New(k) /\ p.kind = msgs[k].kind /\ p.value = msgs[k].value
      BY DEF SendEffect
<1>10. pending' \in SUBSET Request
      BY DEF SendEffect
<1>11. \A k \in 1..n : Fits(msgs[k].kind, msgs[k].value, msgs[k].cmd)
      BY <1>1 DEF Batch, Outgoing
<1>12. \A k \in 1..n : msgs[k].cmd.op = "edit" /\ msgs[k].cmd.cell = "chain" =>
         k + 1 \in 1..n /\ msgs[k + 1].cmd = Plain("get_config")
      BY <1>1 DEF Batch
\* What was there before has old tags.
<1>13. \A p \in left : p \in pending /\ Old(p.tag)
      BY DEF Types, Tags, TagsBelow, Request
<1>14. \A w \in Worker : \A i \in DOMAIN Queue(w) : Old(Queue(w)[i].tag)
  <2>1. \A w \in Worker : \A i \in DOMAIN Queue(w) : Queue(w)[i] \in Entry
      BY WorkerTyped
  <2> QED BY <2>1 DEF Entry, Tags, TagsBelow
<1>15. \A i \in DOMAIN inbox : Answers(i) => Old(inbox[i].tag)
  <2>1. \A i \in DOMAIN inbox : inbox[i] \in Message
      BY DEF Types
  <2> QED BY <2>1, Read DEF Answers, Tags, TagsBelow
<1>16. \A w \in Worker : Asks(w) => Old(workers[w].request.tag)
      BY WorkerTyped DEF Asks, Entry, Tags, TagsBelow
<1>21. \A w \in Worker : Queue(w)' = NewQ(w)
      BY DEF Queue
<1> HIDE DEF n, q, l, Old, New, At, NewQ
\* An entry of a queue is an old one, or a new one of the worker in use.
<1>17. \A w \in Worker : \A i \in DOMAIN Queue(w)' :
         \/ i \in DOMAIN Queue(w) /\ Queue(w)'[i] = Queue(w)[i] /\ Old(Queue(w)'[i].tag)
         \/ /\ w = worker
            /\ \E k \in 1..n : i = At(k) /\ Queue(w)'[i].tag = New(k) /\ Queue(w)'[i].cmd = msgs[k].cmd
  <2> SUFFICES ASSUME NEW w \in Worker, NEW i \in DOMAIN Queue(w)'
               PROVE  \/ i \in DOMAIN Queue(w) /\ Queue(w)'[i] = Queue(w)[i]
                      \/ w = worker /\ \E k \in 1..n : i = At(k) /\ Queue(w)'[i].tag = New(k)
                                                        /\ Queue(w)'[i].cmd = msgs[k].cmd
      BY <1>14
  <2>1. CASE w # worker
      BY <1>4, <2>1
  <2>2. CASE w = worker /\ i \in 1..l
      BY <1>1, <1>5, <1>21, <2>2 DEF q
  <2>3. CASE w = worker /\ i \notin 1..l
    <3>1. Queue(w)' = NewQ(worker) /\ i \in 1..(l + n)
        BY <1>5, <1>21, <2>3
    <3>2. PICK k \in 1..n : i = At(k)
        BY <1>6, <2>3, <3>1
    <3>3. NewQ(worker)[i].tag = New(k) /\ NewQ(worker)[i].cmd = msgs[k].cmd
        BY <1>5, <3>2
    <3> QED BY <2>3, <3>1, <3>2, <3>3
  <2> QED BY <2>1, <2>2, <2>3
<1>18. Tags'
  <2>1. TagsBelow'
    <3>1. \A p \in pending' : p.tag < nextTag'
        BY <1>2, <1>9, <1>13
    <3>2. \A i \in DOMAIN inbox' : Answers(i)' => inbox'[i].tag < nextTag'
        BY <1>2, <1>3, <1>15
    <3>3. \A w \in Worker : \A i \in DOMAIN Queue(w)' : Queue(w)'[i].tag < nextTag'
        BY <1>2, <1>17
    <3>4. \A w \in Worker : Asks(w)' => workers'[w].request.tag < nextTag'
        BY <1>2, <1>8, <1>16
    <3> QED BY <3>1, <3>2, <3>3, <3>4 DEF TagsBelow
  <2>2. PendingOnce'
    <3> SUFFICES ASSUME NEW p1 \in pending', NEW p2 \in pending', p1.tag = p2.tag
                 PROVE  p1 = p2
        BY DEF PendingOnce
    <3>1. CASE p1 \in left /\ p2 \in left
        BY <1>13, <3>1 DEF Tags, PendingOnce
    <3>2. ASSUME NEW i \in 1..n, NEW j \in 1..n,
                 p1.tag = New(i), p1.kind = msgs[i].kind, p1.value = msgs[i].value,
                 p2.tag = New(j), p2.kind = msgs[j].kind, p2.value = msgs[j].value
          PROVE  p1 = p2
      <4>1. i = j
          BY <1>2, <3>2
      <4> QED BY <1>10, <3>2, <4>1 DEF Request
    <3> QED BY <1>2, <1>9, <1>13, <3>1, <3>2
  <2>3. AnswersOnce'
      BY <1>3 DEF Tags, AnswersOnce
  <2>4. QueuesOnce'
    <3> SUFFICES ASSUME NEW v \in Worker, NEW w \in Worker,
                        NEW i \in DOMAIN Queue(v)', NEW j \in DOMAIN Queue(w)',
                        Queue(v)'[i].tag = Queue(w)'[j].tag
                 PROVE  v = w /\ i = j
        BY DEF QueuesOnce
    <3>1. CASE i \in DOMAIN Queue(v) /\ Queue(v)'[i] = Queue(v)[i] /\ j \in DOMAIN Queue(w)
               /\ Queue(w)'[j] = Queue(w)[j]
        BY <3>1 DEF Tags, QueuesOnce
    <3>2. \A k, m \in 1..n : New(k) = New(m) => At(k) = At(m)
        BY <1>2, <1>7
    <3> QED BY <1>2, <1>17, <3>1, <3>2
  <2>5. RequestsOnce'
      BY <1>8 DEF Tags, RequestsOnce
  <2>6. QueuedUnanswered'
      BY <1>2, <1>3, <1>15, <1>17 DEF Tags, QueuedUnanswered
  <2>7. RequestUnanswered'
      BY <1>3, <1>8 DEF Tags, RequestUnanswered
  <2>8. RequestUnqueued'
      BY <1>2, <1>8, <1>16, <1>17 DEF Tags, RequestUnqueued
  <2> QED BY <2>1, <2>2, <2>3, <2>4, <2>5, <2>6, <2>7, <2>8 DEF Tags
<1>19. Fitting'
  <2>1. QueuesFit'
    <3> SUFFICES ASSUME NEW w \in Worker, NEW i \in DOMAIN Queue(w)', NEW p \in pending',
                        p.tag = Queue(w)'[i].tag
                 PROVE  Fits(p.kind, p.value, Queue(w)'[i].cmd)
        BY DEF QueuesFit
    <3>1. CASE i \in DOMAIN Queue(w) /\ Queue(w)'[i] = Queue(w)[i] /\ Old(Queue(w)'[i].tag)
      <4>1. p \in pending
          BY <1>2, <1>9, <1>13, <3>1
      <4> QED BY <3>1, <4>1 DEF Fitting, QueuesFit
    <3>2. ASSUME NEW k \in 1..n, Queue(w)'[i].tag = New(k), Queue(w)'[i].cmd = msgs[k].cmd
          PROVE  Fits(p.kind, p.value, Queue(w)'[i].cmd)
      <4>1. p \notin left
          BY <1>2, <1>13, <3>2
      <4>2. PICK m \in 1..n : p.tag = New(m) /\ p.kind = msgs[m].kind /\ p.value = msgs[m].value
          BY <1>9, <4>1
      <4>3. k = m
          BY <1>2, <3>2, <4>2
      <4> QED BY <1>11, <3>2, <4>2, <4>3
    <3> QED BY <1>17, <3>1, <3>2
  <2>2. RequestsFit'
      BY <1>2, <1>8, <1>9, <1>13, <1>16 DEF Fitting, RequestsFit
  <2>3. AnswersFit'
      BY <1>2, <1>3, <1>9, <1>13, <1>15 DEF Fitting, AnswersFit
  <2> QED BY <2>1, <2>2, <2>3 DEF Fitting
<1>20. ChainsFetched'
  <2>1. ASSUME NEW w \in Worker, NEW i \in DOMAIN Queue(w)',
               Queue(w)'[i].cmd.op = "edit", Queue(w)'[i].cmd.cell = "chain"
        PROVE  i + 1 \in DOMAIN Queue(w)' /\ Queue(w)'[i + 1].cmd = Plain("get_config")
    <3>1. CASE i \in DOMAIN Queue(w) /\ Queue(w)'[i] = Queue(w)[i]
      <4>1. i + 1 \in DOMAIN Queue(w) /\ Queue(w)[i + 1].cmd = Plain("get_config")
          BY <2>1, <3>1 DEF ChainsFetched
      <4>2. CASE w # worker
          BY <1>4, <4>1, <4>2
      <4>3. CASE w = worker
          BY <1>5, <1>21, <4>1, <4>3 DEF q
      <4> QED BY <4>2, <4>3
    <3>2. ASSUME w = worker, NEW k \in 1..n, i = At(k), Queue(w)'[i].cmd = msgs[k].cmd
          PROVE  i + 1 \in DOMAIN Queue(w)' /\ Queue(w)'[i + 1].cmd = Plain("get_config")
      <4>1. k + 1 \in 1..n /\ msgs[k + 1].cmd = Plain("get_config")
          BY <1>12, <2>1, <3>2
      <4>2. i + 1 = At(k + 1) /\ At(k + 1) \in DOMAIN NewQ(worker)
          BY <1>5, <1>7, <3>2, <4>1
      <4> QED BY <1>5, <1>21, <3>2, <4>1, <4>2
    <3> QED BY <1>17, <3>1, <3>2
  <2>2. ASSUME NEW w \in Worker, Asks(w)',
               workers'[w].request.cmd.op = "edit", workers'[w].request.cmd.cell = "chain"
        PROVE  1 \in DOMAIN Queue(w)' /\ Queue(w)'[1].cmd = Plain("get_config")
    <3>1. 1 \in DOMAIN Queue(w) /\ Queue(w)[1].cmd = Plain("get_config")
        BY <1>8, <2>2 DEF ChainsFetched
    <3>2. CASE w # worker
        BY <1>4, <3>1, <3>2
    <3>3. CASE w = worker
        BY <1>5, <1>21, <3>1, <3>3 DEF q
    <3> QED BY <3>2, <3>3
  <2> QED BY <2>1, <2>2 DEF ChainsFetched
<1> QED BY <1>18, <1>19, <1>20

\* The first entry leaves the queue of w.
LEMMA Popping ==
    ASSUME Types, NEW w \in Worker, Queue(w) # <<>>, Queue(w)' = Tail(Queue(w)),
           \A v \in Worker \ {w} : workers'[v] = workers[v]
    PROVE  /\ 1 \in DOMAIN Queue(w) /\ Head(Queue(w)) = Queue(w)[1]
           /\ \A i \in DOMAIN Queue(w)' :
                 i + 1 \in DOMAIN Queue(w) /\ Queue(w)'[i] = Queue(w)[i + 1] /\ i + 1 # 1 /\ i \in Nat
           /\ \A i \in DOMAIN Queue(w) : i # 1 => i - 1 \in DOMAIN Queue(w)' /\ i = (i - 1) + 1
           /\ \A v \in Worker \ {w} : Queue(v)' = Queue(v)
<1>1. Queue(w) \in Seq(Entry)
      BY WorkerTyped
<1>2. \A v \in Worker \ {w} : Queue(v)' = Queue(v)
      BY DEF Queue
<1> QED BY <1>1, <1>2

\* A worker that has no request takes the first entry of its queue for it.
LEMMA AskingKeeps ==
    ASSUME Types, Tags, Fitting, ChainsFetched, NEW w \in Worker, ~Asks(w), Queue(w) # <<>>,
           Queue(w)' = Tail(Queue(w)), workers'[w].request = Head(Queue(w)),
           \A v \in Worker \ {w} : workers'[v] = workers[v],
           UNCHANGED <<inbox, pending, nextTag>>
    PROVE  Tags' /\ Fitting' /\ ChainsFetched'
<1> DEFINE e == Queue(w)[1]
<1>1. /\ 1 \in DOMAIN Queue(w) /\ e \in Entry /\ workers'[w].request = e /\ Asks(w)'
      /\ \A i \in DOMAIN Queue(w)' :
            i + 1 \in DOMAIN Queue(w) /\ Queue(w)'[i] = Queue(w)[i + 1] /\ i + 1 # 1 /\ i \in Nat
      /\ \A i \in DOMAIN Queue(w) : i # 1 => i - 1 \in DOMAIN Queue(w)' /\ i = (i - 1) + 1
      /\ \A v \in Worker \ {w} : Queue(v)' = Queue(v)
  <2>1. e \in Entry /\ Absent \notin Entry
      BY WorkerTyped, First, AbsentAssumption
  <2>2. /\ 1 \in DOMAIN Queue(w) /\ Head(Queue(w)) = e
        /\ \A i \in DOMAIN Queue(w)' :
              i + 1 \in DOMAIN Queue(w) /\ Queue(w)'[i] = Queue(w)[i + 1] /\ i + 1 # 1 /\ i \in Nat
        /\ \A i \in DOMAIN Queue(w) : i # 1 => i - 1 \in DOMAIN Queue(w)' /\ i = (i - 1) + 1
        /\ \A v \in Worker \ {w} : Queue(v)' = Queue(v)
      BY Popping
  <2>3. workers'[w].request = e /\ Asks(w)'
      BY <2>1, <2>2 DEF Asks
  <2> QED BY <2>1, <2>2, <2>3
<1>2. \A v \in Worker : \A i \in DOMAIN Queue(v)' : \E j \in DOMAIN Queue(v) :
         Queue(v)'[i] = Queue(v)[j] /\ (v = w => j = i + 1 /\ j # 1 /\ i \in Nat) /\ (v # w => j = i)
      BY <1>1
<1>3. \A v \in Worker \ {w} : (Asks(v)' <=> Asks(v)) /\ workers'[v].request = workers[v].request
      BY DEF Asks
<1>4. \A k : Answers(k)' <=> Answers(k)
      BY DEF Answers
<1>5. \A v \in Worker : \A i \in DOMAIN Queue(v)' : Queue(v)'[i].tag # e.tag
      BY <1>1, <1>2 DEF Tags, QueuesOnce
<1>6. Tags'
  <2>1. TagsBelow'
      BY <1>1, <1>2, <1>3, <1>4 DEF Tags, TagsBelow
  <2>2. PendingOnce'
      BY DEF Tags, PendingOnce
  <2>3. AnswersOnce'
      BY <1>4 DEF Tags, AnswersOnce
  <2>4. QueuesOnce'
    <3> SUFFICES ASSUME NEW u \in Worker, NEW v \in Worker,
                        NEW i \in DOMAIN Queue(u)', NEW j \in DOMAIN Queue(v)',
                        Queue(u)'[i].tag = Queue(v)'[j].tag
                 PROVE  u = v /\ i = j
        BY DEF QueuesOnce
    <3>1. PICK k \in DOMAIN Queue(u) : Queue(u)'[i] = Queue(u)[k] /\ (u = w => k = i + 1 /\ i \in Nat)
                                         /\ (u # w => k = i)
        BY <1>2
    <3>2. PICK m \in DOMAIN Queue(v) : Queue(v)'[j] = Queue(v)[m] /\ (v = w => m = j + 1 /\ j \in Nat)
                                         /\ (v # w => m = j)
        BY <1>2
    <3>3. u = v /\ k = m
        BY <3>1, <3>2 DEF Tags, QueuesOnce
    <3> QED BY <3>1, <3>2, <3>3
  <2>5. RequestsOnce'
    <3>1. \A v \in Worker \ {w} : Asks(v) => workers[v].request.tag # e.tag
        BY <1>1 DEF Tags, RequestUnqueued
    <3> QED BY <1>1, <1>3, <3>1 DEF Tags, RequestsOnce
  <2>6. QueuedUnanswered'
      BY <1>2, <1>4 DEF Tags, QueuedUnanswered
  <2>7. RequestUnanswered'
      BY <1>1, <1>3, <1>4 DEF Tags, RequestUnanswered, QueuedUnanswered
  <2>8. RequestUnqueued'
      BY <1>1, <1>2, <1>3, <1>5 DEF Tags, RequestUnqueued
  <2> QED BY <2>1, <2>2, <2>3, <2>4, <2>5, <2>6, <2>7, <2>8 DEF Tags
<1>7. Fitting'
  <2>1. QueuesFit'
      BY <1>2 DEF Fitting, QueuesFit
  <2>2. RequestsFit'
    <3>1. \A p \in pending : p.tag = e.tag => Fits(p.kind, p.value, e.cmd)
        BY <1>1 DEF Fitting, QueuesFit
    <3>2. ASSUME NEW v \in Worker, Asks(v)', NEW p \in pending', p.tag = workers'[v].request.tag
          PROVE  Fits(p.kind, p.value, workers'[v].request.cmd)
      <4>1. CASE v = w
          BY <1>1, <3>1, <3>2, <4>1
      <4>2. CASE v # w
          BY <1>3, <3>2, <4>2 DEF Fitting, RequestsFit
      <4> QED BY <4>1, <4>2
    <3> QED BY <3>2 DEF RequestsFit
  <2>3. AnswersFit'
      BY <1>4 DEF Fitting, AnswersFit
  <2> QED BY <2>1, <2>2, <2>3 DEF Fitting
<1>8. ChainsFetched'
  <2>1. ASSUME NEW v \in Worker, NEW i \in DOMAIN Queue(v)',
               Queue(v)'[i].cmd.op = "edit", Queue(v)'[i].cmd.cell = "chain"
        PROVE  i + 1 \in DOMAIN Queue(v)' /\ Queue(v)'[i + 1].cmd = Plain("get_config")
    <3>1. CASE v # w
        BY <1>1, <2>1, <3>1 DEF ChainsFetched
    <3>2. CASE v = w
      <4>1. i + 1 \in DOMAIN Queue(w) /\ Queue(w)'[i] = Queue(w)[i + 1] /\ i \in Nat
          BY <1>1, <2>1, <3>2
      <4>2. (i + 1) + 1 \in DOMAIN Queue(w) /\ Queue(w)[(i + 1) + 1].cmd = Plain("get_config")
          BY <2>1, <3>2, <4>1 DEF ChainsFetched
      <4>3. (i + 1) + 1 # 1 /\ ((i + 1) + 1) - 1 = i + 1
          BY <4>1
      <4>4. i + 1 \in DOMAIN Queue(w)'
          BY <1>1, <4>2, <4>3
      <4> QED BY <1>1, <3>2, <4>2, <4>4
    <3> QED BY <3>1, <3>2
  <2>2. ASSUME NEW v \in Worker, Asks(v)',
               workers'[v].request.cmd.op = "edit", workers'[v].request.cmd.cell = "chain"
        PROVE  1 \in DOMAIN Queue(v)' /\ Queue(v)'[1].cmd = Plain("get_config")
    <3>1. CASE v # w
        BY <1>1, <1>3, <2>2, <3>1 DEF ChainsFetched
    <3>2. CASE v = w
      <4>1. 1 + 1 \in DOMAIN Queue(w) /\ Queue(w)[1 + 1].cmd = Plain("get_config")
          BY <1>1, <2>2, <3>2 DEF ChainsFetched
      <4>2. 1 + 1 # 1 /\ (1 + 1) - 1 = 1
          OBVIOUS
      <4>3. 1 \in DOMAIN Queue(w)'
          BY <1>1, <4>1, <4>2
      <4> QED BY <1>1, <3>2, <4>1, <4>3
    <3> QED BY <3>1, <3>2
  <2> QED BY <2>1, <2>2 DEF ChainsFetched
<1> QED BY <1>6, <1>7, <1>8

\* The tag t is no longer a worker's; it is that of a new answer r at the end
\* of the inbox, which has what was asked for if it is an acceptance.
AnswerAppended(t, r) ==
    /\ \A i \in DOMAIN inbox' : inbox'[i].is = "reply" =>
          \/ i \in DOMAIN inbox /\ inbox'[i] = inbox[i]
          \/ i = Len(inbox) + 1 /\ inbox'[i] = Reply(t, r)
    /\ r.ok => \A p \in pending : p.tag = t =>
          /\ p.kind \in Fetching => r.data \in Config
          /\ p.kind = "CurrentPreset" => r.data \in Name
\* So does an answer to one entry or request, which is then gone.
LEMMA AnsweringKeeps ==
    ASSUME Types, Tags, Fitting, NEW t, NEW r, AnswerAppended(t, r), t < nextTag,
           \A k \in DOMAIN inbox : Answers(k) => inbox[k].tag # t,
           \A v \in Worker : Asks(v)' =>
               Asks(v) /\ workers'[v].request = workers[v].request /\ workers[v].request.tag # t,
           NEW w \in Worker, NEW d \in {0, 1},
           \A v \in Worker : \A i \in DOMAIN Queue(v)' :
               LET j == IF v = w THEN i + d ELSE i
               IN  j \in DOMAIN Queue(v) /\ Queue(v)'[i] = Queue(v)[j] /\ Queue(v)[j].tag # t /\ i \in Nat,
           UNCHANGED <<pending, nextTag>>
    PROVE  Tags' /\ Fitting'
<1>1. \A i \in DOMAIN inbox' : Answers(i)' =>
         \/ i \in DOMAIN inbox /\ Answers(i) /\ inbox'[i] = inbox[i] /\ inbox'[i].tag # t
         \/ i = Len(inbox) + 1 /\ inbox'[i].tag = t /\ inbox'[i].r = r
      BY DEF AnswerAppended, Answers, Reply
<1>2. \A v \in Worker : \A i \in DOMAIN Queue(v)' : \E j \in DOMAIN Queue(v) :
         /\ Queue(v)'[i] = Queue(v)[j] /\ Queue(v)'[i].tag # t
         /\ i \in Nat /\ j = IF v = w THEN i + d ELSE i
      OBVIOUS
<1>3. Tags'
  <2>1. TagsBelow'
      BY <1>1, <1>2 DEF Tags, TagsBelow
  <2>2. PendingOnce'
      BY DEF Tags, PendingOnce
  <2>3. AnswersOnce'
      BY <1>1 DEF Tags, AnswersOnce
  <2>4. QueuesOnce'
    <3> SUFFICES ASSUME NEW u \in Worker, NEW v \in Worker,
                        NEW i \in DOMAIN Queue(u)', NEW j \in DOMAIN Queue(v)',
                        Queue(u)'[i].tag = Queue(v)'[j].tag
                 PROVE  u = v /\ i = j
        BY DEF QueuesOnce
    <3>1. PICK k \in DOMAIN Queue(u) :
             Queue(u)'[i] = Queue(u)[k] /\ i \in Nat /\ k = IF u = w THEN i + d ELSE i
        BY <1>2
    <3>2. PICK m \in DOMAIN Queue(v) :
             Queue(v)'[j] = Queue(v)[m] /\ j \in Nat /\ m = IF v = w THEN j + d ELSE j
        BY <1>2
    <3>3. u = v /\ k = m
        BY <3>1, <3>2 DEF Tags, QueuesOnce
    <3> QED BY <3>1, <3>2, <3>3
  <2>5. RequestsOnce'
      BY DEF Tags, RequestsOnce
  <2>6. QueuedUnanswered'
      BY <1>1, <1>2 DEF Tags, QueuedUnanswered
  <2>7. RequestUnanswered'
      BY <1>1 DEF Tags, RequestUnanswered
  <2>8. RequestUnqueued'
      BY <1>2 DEF Tags, RequestUnqueued
  <2> QED BY <2>1, <2>2, <2>3, <2>4, <2>5, <2>6, <2>7, <2>8 DEF Tags
<1>4. Fitting'
  <2>1. QueuesFit'
      BY <1>2 DEF Fitting, QueuesFit
  <2>2. RequestsFit'
      BY DEF Fitting, RequestsFit
  <2>3. AnswersFit'
      BY <1>1 DEF Fitting, AnswersFit, AnswerAppended
  <2> QED BY <2>1, <2>2, <2>3 DEF Fitting
<1> QED BY <1>3, <1>4

\* How the answers in the inbox move.
LEMMA Shifting ==
    ASSUME Types
    PROVE  /\ inbox' = inbox => Shifted(0)
           /\ inbox # <<>> /\ inbox' = Tail(inbox) => Shifted(1)
           /\ inbox # <<>> /\ NewGeneration => Shifted(1)
           /\ \A m \in Message : m.is # "reply" /\ inbox' = Append(inbox, m) => Shifted(0)
<1>1. inbox' = inbox => Shifted(0)
      BY DEF Types, Shifted
<1>2. inbox # <<>> /\ inbox' = Tail(inbox) => Shifted(1)
      BY InboxHead DEF Shifted
<1>3. inbox # <<>> /\ NewGeneration => Shifted(1)
  <2> SUFFICES ASSUME inbox # <<>>, NewGeneration, NEW i \in DOMAIN inbox', inbox'[i].is = "reply"
               PROVE  i + 1 \in DOMAIN inbox /\ inbox[i + 1] = inbox'[i]
      BY DEF Shifted
  <2>1. i \in 1..(Len(inbox) - 1)
      BY Renewing
  <2>2. [Tick EXCEPT !.stale = TRUE].is = "tick"
      BY DEF Tick
  <2>3. inbox'[i] = inbox[i + 1]
      BY <2>1, <2>2, Renewing
  <2> QED BY <2>1, <2>3, InboxHead
<1>4. ASSUME NEW m \in Message, m.is # "reply", inbox' = Append(inbox, m)
      PROVE  Shifted(0)
  <2>1. /\ inbox \in Seq(Message) /\ DOMAIN inbox' = 1..(Len(inbox) + 1)
        /\ \A i \in 1..Len(inbox) : inbox'[i] = inbox[i]
        /\ inbox'[Len(inbox) + 1] = m
      BY <1>4 DEF Types
  <2> QED BY <1>4, <2>1 DEF Shifted
<1> QED BY <1>1, <1>2, <1>3, <1>4

\* A new answer at the end of the inbox, alone or with the end of the worker.
LEMMA Appending ==
    ASSUME Types, NEW t \in Nat, NEW r \in Answer,
           inbox' \in {Append(inbox, Reply(t, r)), inbox \o <<Reply(t, r), Disconnected>>},
           r.ok => \A p \in pending : p.tag = t =>
               /\ p.kind \in Fetching => r.data \in Config
               /\ p.kind = "CurrentPreset" => r.data \in Name
    PROVE  AnswerAppended(t, r)
<1>1. Reply(t, r) \in Message /\ Disconnected \in Message /\ Disconnected.is # "reply"
      BY Made DEF Disconnected
<1> HIDE DEF Reply, Disconnected
<1>2. \A i \in DOMAIN inbox' : inbox'[i].is = "reply" =>
          \/ i \in DOMAIN inbox /\ inbox'[i] = inbox[i]
          \/ i = Len(inbox) + 1 /\ inbox'[i] = Reply(t, r)
  <2>1. inbox \in Seq(Message)
      BY DEF Types
  <2>2. CASE inbox' = Append(inbox, Reply(t, r))
      BY <1>1, <2>1, <2>2
  <2>3. CASE inbox' = inbox \o <<Reply(t, r), Disconnected>>
    <3> DEFINE s == <<Reply(t, r), Disconnected>>
    <3>1. s \in Seq(Message) /\ Len(s) = 2 /\ s[1] = Reply(t, r) /\ s[2] = Disconnected
        BY <1>1
    <3> HIDE DEF s
    <3>2. /\ DOMAIN inbox' = 1..(Len(inbox) + 2)
          /\ \A i \in 1..Len(inbox) : inbox'[i] = inbox[i]
          /\ inbox'[Len(inbox) + 1] = Reply(t, r) /\ inbox'[Len(inbox) + 2] = Disconnected
        BY <2>1, <2>3, <3>1 DEF s
    <3>3. \A i \in 1..(Len(inbox) + 2) : i \in 1..Len(inbox) \/ i = Len(inbox) + 1 \/ i = Len(inbox) + 2
        BY <2>1
    <3> QED BY <1>1, <2>1, <3>2, <3>3
  <2> QED BY <2>2, <2>3
<1> QED BY <1>2 DEF AnswerAppended

\* At first no tag is given.
LEMMA TagsInitially == Init => Tags /\ Fitting /\ ChainsFetched
<1> SUFFICES ASSUME Init PROVE Tags /\ Fitting /\ ChainsFetched
    OBVIOUS
<1>1. \A w \in Worker : Queue(w) = <<>> /\ ~Asks(w)
      BY DEF Init, Gone, Spawned, Queue, Asks
<1>2. pending = {} /\ DOMAIN inbox = {} /\ \A w \in Worker : DOMAIN Queue(w) = {}
      BY <1>1 DEF Init
<1>3. Tags
      BY <1>1, <1>2 DEF Tags, TagsBelow, PendingOnce, AnswersOnce, QueuesOnce, RequestsOnce,
                        QueuedUnanswered, RequestUnanswered, RequestUnqueued
<1>4. Fitting
      BY <1>1, <1>2 DEF Fitting, QueuesFit, RequestsFit, AnswersFit
<1>5. ChainsFetched
      BY <1>1, <1>2 DEF ChainsFetched
<1> QED BY <1>3, <1>4, <1>5

\* A worker keeps its queue, and its request or none.
LEMMA KeepingQueues ==
    ASSUME NEW w \in Worker, NEW phase, NEW request, NEW wire, NEW linked,
           Fields(w, phase, Queue(w), request, wire, linked),
           request \in {workers[w].request, Absent},
           pending' \subseteq pending, UNCHANGED nextTag, NEW d \in {0, 1}, Shifted(d)
    PROVE  Passing
BY DEF Fields, Passing, Queue

\* Every step keeps the tags apart, the answers fitting and the chains fetched.
LEMMA TagsKept ==
    ASSUME Structure, [Next]_vars
    PROVE  Tags' /\ Fitting' /\ ChainsFetched'
<1>1. /\ Types /\ Known /\ Tags /\ Fitting /\ ChainsFetched /\ Phases /\ Listener /\ AnswersFit
      /\ inbox' \in Seq(Message)
  <2>1. Types /\ Known /\ Tags /\ Fitting /\ ChainsFetched /\ Phases /\ Listener /\ AnswersFit
      BY DEF Structure, Fitting
  <2> QED BY <2>1, TypesKept DEF Types
<1>2. ASSUME Passing
      PROVE  Tags' /\ Fitting' /\ ChainsFetched'
      BY <1>1, <1>2, PassingKeeps
<1>3. ASSUME pending' \subseteq pending, UNCHANGED <<nextTag, workers>>, NEW d \in {0, 1}, Shifted(d)
      PROVE  Tags' /\ Fitting' /\ ChainsFetched'
      BY <1>2, <1>3 DEF Passing, Queue
<1>4. CASE WindowActs
  <2>1. (Sending \/ UNCHANGED <<requests, workers>>) /\ inbox' = inbox
      BY <1>1, <1>4, WindowActing
  <2>2. Shifted(0)
      BY <1>1, <2>1, Shifting
  <2>3. CASE Sending
    <3>1. PICK msgs : Batch(msgs) /\ SendEffect(pending, msgs)
        BY <2>3 DEF Sending
    <3> QED BY <1>1, <2>2, <3>1, SendingKeeps
  <2>4. CASE UNCHANGED <<requests, workers>>
      BY <1>3, <2>2, <2>4 DEF requests
  <2> QED BY <2>1, <2>3, <2>4
<1>5. CASE TickFires \/ PressRetry
  <2>1. Tick \in Message /\ Tick.is # "reply" /\ Retry \in Message /\ Retry.is # "reply"
      BY Made DEF Tick, Retry
  <2>2. Shifted(0)
      BY <1>1, <1>5, <2>1, Shifting DEF TickFires, PressRetry
  <2> QED BY <1>3, <1>5, <2>2 DEF TickFires, PressRetry, requests
<1>6. CASE OnConnected \/ OnDisconnected
  <2>1. Shifted(1)
      BY <1>1, <1>6, Shifting DEF OnConnected, OnDisconnected, Receive
  <2> QED BY <1>3, <1>6, <2>1 DEF OnConnected, OnDisconnected, requests
<1>7. CASE OnReply
  <2> DEFINE m == inbox[1]
             left == {q \in pending : q.tag # m.tag}
  <2>1. Shifted(1)
      BY <1>1, <1>7, Hearing, Shifting
  <2>2. CASE UNCHANGED <<name, config, baseline, requests, debounced, workers>>
      BY <1>3, <2>1, <2>2 DEF requests
  <2>3. ASSUME NEW msgs, Batch(msgs), SendEffect(left, msgs)
        PROVE  Tags' /\ Fitting' /\ ChainsFetched'
    <3>1. left \in SUBSET pending
        OBVIOUS
    <3> HIDE DEF left
    <3> QED BY <1>1, <2>1, <2>3, <3>1, SendingKeeps
  <2> HIDE DEF m, left
  <2> QED BY <1>1, <1>7, <2>2, <2>3, Hearing DEF m, left
<1>8. ASSUME inbox # <<>>, Reconnect
      PROVE  Tags' /\ Fitting' /\ ChainsFetched'
  <2>1. Shifted(1)
      BY <1>1, <1>8, Reconnecting, Shifting
  <2>2. Spawned.queue = <<>> /\ Spawned.request = Absent
      BY DEF Spawned, Gone
  <2>3. \A w \in Worker : workers'[w] = workers[w] \/ workers'[w] = Spawned
      BY <1>1, <1>8, Reconnecting
  <2>4. \A w \in Worker :
          \/ workers'[w].queue = Queue(w) /\ workers'[w].request \in {workers[w].request, Absent}
          \/ workers'[w].queue = <<>> /\ workers'[w].request = Absent
      BY <2>2, <2>3 DEF Queue
  <2>5. pending' \subseteq pending /\ UNCHANGED nextTag
      BY <1>1, <1>8, Reconnecting
  <2> QED BY <1>2, <2>1, <2>4, <2>5 DEF Passing
<1>9. CASE OnRetry \/ OnTick
  <2>1. inbox # <<>>
      BY <1>9 DEF OnRetry, OnTick, Receive
  <2>2. CASE inbox' = Tail(inbox) /\ UNCHANGED <<requests, workers>>
    <3>1. Shifted(1)
        BY <1>1, <2>1, <2>2, Shifting
    <3> QED BY <1>3, <2>2, <3>1 DEF requests
  <2> QED BY <1>8, <1>9, <2>1, <2>2 DEF OnRetry, OnTick
<1>10. Disconnected \in Message /\ Disconnected.is # "reply"
       /\ \A x \in Snapshot : Connected(x) \in Message /\ Connected(x).is # "reply"
      BY Made DEF Disconnected, Connected
<1>11. ASSUME NEW w \in Worker, WorkerConnects(w)
       PROVE  Tags' /\ Fitting' /\ ChainsFetched'
  <2>1. Shifted(0)
      BY <1>1, <1>10, <1>11, Connecting, Shifting
  <2>2. pending' \subseteq pending /\ UNCHANGED nextTag
      BY <1>11 DEF WorkerConnects, WorkerStep, requests
  <2> QED BY <1>1, <1>2, <1>11, <2>1, <2>2, Connecting, KeepingQueues
<1>12. ASSUME NEW w \in Worker, WorkerSends(w)
       PROVE  Tags' /\ Fitting' /\ ChainsFetched'
  <2>1. /\ Queue(w) # <<>> /\ workers'[w].queue = Tail(Queue(w)) /\ workers'[w].request = Head(Queue(w))
        /\ \A v \in Worker \ {w} : workers'[v] = workers[v]
      BY <1>1, <1>12, Asking DEF Fields
  <2>2. ~Asks(w) /\ Queue(w)' = Tail(Queue(w)) /\ UNCHANGED <<inbox, pending, nextTag>>
      BY <1>1, <1>12, <2>1 DEF WorkerSends, WorkerStep, requests, Phases, Queue
  <2> QED BY <1>1, <2>1, <2>2, AskingKeeps
\* The request of w is answered, with what was asked for or a refusal.
<1>13. ASSUME NEW w \in Worker, NEW phase, NEW wire, NEW linked, NEW r \in Answer,
              workers[w].phase = "await", workers[w].request \in Entry,
              Fields(w, phase, Queue(w), Absent, wire, linked),
              inbox' \in {Append(inbox, Reply(workers[w].request.tag, r)),
                          inbox \o <<Reply(workers[w].request.tag, r), Disconnected>>},
              r.ok => LET cmd == workers[w].request.cmd
                      IN  /\ cmd.op = "get_config" => r.data \in Config
                          /\ cmd.op = "current_preset" => r.data \in Name,
              UNCHANGED <<pending, nextTag>>
       PROVE  Tags' /\ Fitting' /\ ChainsFetched'
  <2> DEFINE t == workers[w].request.tag
  <2>1. Asks(w) /\ t \in Nat /\ t < nextTag
      BY <1>1, <1>13 DEF Phases, Entry, Tags, TagsBelow
  <2>2. r.ok => \A p \in pending : p.tag = t =>
            /\ p.kind \in Fetching => r.data \in Config
            /\ p.kind = "CurrentPreset" => r.data \in Name
      BY <1>1, <1>13, <2>1 DEF Fitting, RequestsFit, Fits, Plain
  <2>3. AnswerAppended(t, r)
      BY <1>1, <1>13, <2>1, <2>2, Appending
  <2>4. \A k \in DOMAIN inbox : Answers(k) => inbox[k].tag # t
      BY <1>1, <2>1 DEF Tags, RequestUnanswered
  <2>5. \A v \in Worker : Asks(v)' =>
               Asks(v) /\ workers'[v].request = workers[v].request /\ workers[v].request.tag # t
      BY <1>1, <1>13, <2>1 DEF Fields, Asks, Tags, RequestsOnce
  <2>6. \A v \in Worker : Queue(v)' = Queue(v)
      BY <1>13 DEF Fields, Queue
  <2>7. \A v \in Worker : Queue(v) \in Seq(Entry)
      BY <1>1, WorkerTyped
  <2>8. \A v \in Worker : \A i \in DOMAIN Queue(v)' :
               LET j == IF v = w THEN i + 0 ELSE i
               IN  j \in DOMAIN Queue(v) /\ Queue(v)'[i] = Queue(v)[j] /\ Queue(v)[j].tag # t /\ i \in Nat
      BY <1>1, <2>1, <2>6, <2>7 DEF Tags, RequestUnqueued
  <2>9. Tags' /\ Fitting'
    <3> HIDE DEF t
    <3> QED BY <1>1, <1>13, <2>1, <2>3, <2>4, <2>5, <2>8, AnsweringKeeps
  <2>10. ChainsFetched'
    <3>1. ASSUME NEW v \in Worker, NEW i \in DOMAIN Queue(v)',
               Queue(v)'[i].cmd.op = "edit", Queue(v)'[i].cmd.cell = "chain"
          PROVE  i + 1 \in DOMAIN Queue(v)' /\ Queue(v)'[i + 1].cmd = Plain("get_config")
        BY <1>1, <2>6, <3>1 DEF ChainsFetched
    <3>2. ASSUME NEW v \in Worker, Asks(v)',
               workers'[v].request.cmd.op = "edit", workers'[v].request.cmd.cell = "chain"
          PROVE  1 \in DOMAIN Queue(v)' /\ Queue(v)'[1].cmd = Plain("get_config")
        BY <1>1, <2>5, <2>6, <3>2 DEF ChainsFetched
    <3> QED BY <3>1, <3>2 DEF ChainsFetched
  <2> QED BY <2>9, <2>10
<1>14. ASSUME NEW w \in Worker, WorkerFails(w) \/ WorkerTimesOut(w)
       PROVE  Tags' /\ Fitting' /\ ChainsFetched'
  <2>1. GivesUp(w)
      BY <1>14 DEF WorkerFails, WorkerTimesOut
  <2>2. UNCHANGED <<pending, nextTag>>
      BY <2>1 DEF GivesUp, WorkerStep, requests
  <2>3. CASE workers[w].phase = "handshake" /\ inbox' = Append(inbox, Disconnected)
    <3>1. Shifted(0)
        BY <1>1, <1>10, <2>3, Shifting
    <3> QED BY <1>1, <1>2, <2>1, <2>2, <3>1, GivingUp, KeepingQueues
  <2>4. Refused \in Answer /\ ~Refused.ok
      BY Made DEF Refused
  <2> QED BY <1>1, <1>13, <2>1, <2>2, <2>3, <2>4, GivingUp
<1>15. ASSUME NEW w \in Worker, WorkerRefuses(w)
       PROVE  Tags' /\ Fitting' /\ ChainsFetched'
  <2> DEFINE t == Head(Queue(w)).tag
  <2>1. /\ Queue(w) # <<>> /\ t \in Nat /\ Queue(w)' = Tail(Queue(w))
        /\ inbox' = Append(inbox, Reply(t, Refused))
        /\ workers'[w].request = workers[w].request
        /\ \A v \in Worker \ {w} : workers'[v] = workers[v]
      BY <1>1, <1>15, Refusing DEF Fields, Entry, Queue
  <2>2. UNCHANGED <<pending, nextTag>> /\ ~Asks(w)
      BY <1>1, <1>15 DEF WorkerRefuses, WorkerStep, requests, Phases
  <2>3. Refused \in Answer /\ ~Refused.ok
      BY Made DEF Refused
  <2>4. AnswerAppended(t, Refused)
      BY <1>1, <2>1, <2>3, Appending
  <2>5. /\ 1 \in DOMAIN Queue(w) /\ t = Queue(w)[1].tag
        /\ \A i \in DOMAIN Queue(w)' :
             i + 1 \in DOMAIN Queue(w) /\ Queue(w)'[i] = Queue(w)[i + 1] /\ i + 1 # 1 /\ i \in Nat
        /\ \A i \in DOMAIN Queue(w) : i # 1 => i - 1 \in DOMAIN Queue(w)' /\ i = (i - 1) + 1
        /\ \A v \in Worker \ {w} : Queue(v)' = Queue(v)
      BY <1>1, <2>1, Popping
  <2>6. t < nextTag /\ \A k \in DOMAIN inbox : Answers(k) => inbox[k].tag # t
      BY <1>1, <2>5 DEF Tags, TagsBelow, QueuedUnanswered
  <2>7. \A v \in Worker : Asks(v)' =>
               Asks(v) /\ workers'[v].request = workers[v].request /\ workers[v].request.tag # t
      BY <1>1, <2>1, <2>2, <2>5 DEF Asks, Tags, RequestUnqueued
  <2>8. \A v \in Worker : \A i \in DOMAIN Queue(v)' :
               LET j == IF v = w THEN i + 1 ELSE i
               IN  j \in DOMAIN Queue(v) /\ Queue(v)'[i] = Queue(v)[j] /\ Queue(v)[j].tag # t /\ i \in Nat
    <3>1. \A v \in Worker : Queue(v) \in Seq(Entry)
        BY <1>1, WorkerTyped
    <3> HIDE DEF t
    <3> QED BY <1>1, <2>5, <3>1 DEF Tags, QueuesOnce
  <2>9. Tags' /\ Fitting'
    <3> HIDE DEF t
    <3> QED BY <1>1, <2>2, <2>3, <2>4, <2>6, <2>7, <2>8, AnsweringKeeps
  <2>10. ChainsFetched'
    <3>1. ASSUME NEW v \in Worker, NEW i \in DOMAIN Queue(v)',
                 Queue(v)'[i].cmd.op = "edit", Queue(v)'[i].cmd.cell = "chain"
          PROVE  i + 1 \in DOMAIN Queue(v)' /\ Queue(v)'[i + 1].cmd = Plain("get_config")
      <4>1. CASE v # w
          BY <1>1, <2>5, <3>1, <4>1 DEF ChainsFetched
      <4>2. CASE v = w
        <5>1. i + 1 \in DOMAIN Queue(w) /\ Queue(w)'[i] = Queue(w)[i + 1] /\ i \in Nat
            BY <2>5, <3>1, <4>2
        <5>2. (i + 1) + 1 \in DOMAIN Queue(w) /\ Queue(w)[(i + 1) + 1].cmd = Plain("get_config")
            BY <1>1, <3>1, <4>2, <5>1 DEF ChainsFetched
        <5>3. (i + 1) + 1 # 1 /\ ((i + 1) + 1) - 1 = i + 1
            BY <5>1
        <5>4. i + 1 \in DOMAIN Queue(w)'
            BY <2>5, <5>2, <5>3
        <5> QED BY <2>5, <4>2, <5>2, <5>4
      <4> QED BY <4>1, <4>2
    <3>2. ASSUME NEW v \in Worker, Asks(v)',
                 workers'[v].request.cmd.op = "edit", workers'[v].request.cmd.cell = "chain"
          PROVE  1 \in DOMAIN Queue(v)' /\ Queue(v)'[1].cmd = Plain("get_config")
        BY <1>1, <2>2, <2>5, <2>7, <3>2 DEF ChainsFetched
    <3> QED BY <3>1, <3>2 DEF ChainsFetched
  <2> QED BY <2>9, <2>10
<1>16. ASSUME NEW w \in Worker, WorkerEnds(w)
       PROVE  Tags' /\ Fitting' /\ ChainsFetched'
  <2>1. Shifted(0) /\ pending' \subseteq pending /\ UNCHANGED nextTag
      BY <1>1, <1>16, Shifting DEF WorkerEnds, WorkerStep, requests
  <2>2. Passing
      BY <1>1, <1>16, <2>1, Ending DEF Fields, Passing, Queue
  <2> QED BY <1>2, <2>2
<1>17. CASE ListenerReads \/ ListenerTears
  <2>1. Shifted(0) /\ pending' \subseteq pending /\ UNCHANGED nextTag
      BY <1>1, <1>17, Shifting DEF ListenerReads, ListenerTears, ListenerStep, requests
  <2>2. Served \in Worker /\ workers' = [workers EXCEPT ![Served].wire = Absent]
      BY <1>1, <1>17, First DEF ListenerReads, ListenerTears, Listening, Served, Types
  <2>3. Fields(Served, workers[Served].phase, Queue(Served), workers[Served].request, Absent,
               workers[Served].linked)
      BY <1>1, <2>2, Taking
  <2> HIDE DEF Served
  <2> QED BY <1>2, <2>1, <2>2, <2>3, KeepingQueues
<1>18. CASE ListenerEnds \/ ListenerStalls
  <2>1. Shifted(0) /\ pending' \subseteq pending /\ UNCHANGED <<nextTag, workers>>
      BY <1>1, <1>18, Shifting DEF ListenerEnds, ListenerStalls, ListenerStep, requests
  <2> QED BY <1>3, <2>1
<1>19. CASE ListenerReplies
  <2> DEFINE w == call.worker
             r == call.answer
             R == workers[w]
  <2>1. /\ call # Absent /\ w \in Worker /\ r # Absent /\ r \in Answer
        /\ UNCHANGED <<pending, nextTag>>
      BY <1>1, <1>19, Replying DEF ListenerReplies, ListenerStep, requests
  <2>2. CASE /\ R.phase = "await" /\ R.request \in Entry
             /\ Fields(w, "idle", Queue(w), Absent, R.wire, R.linked)
             /\ inbox' = Append(inbox, Reply(R.request.tag, r))
    <3>1. r.ok => LET cmd == R.request.cmd
                  IN  /\ cmd.op = "get_config" => r.data \in Config
                      /\ cmd.op = "current_preset" => r.data \in Name
        BY <1>1, <2>1, <2>2 DEF Listener, InRoundTrip, Sent
    <3> HIDE DEF w, r
    <3> QED BY <1>13, <2>1, <2>2, <3>1
  <2>3. CASE \E m \in Message : \E phase : /\ m.is # "reply" /\ inbox' = Append(inbox, m)
                                          /\ Fields(w, phase, Queue(w), R.request, R.wire, R.linked)
    <3>1. PICK m \in Message : \E phase : /\ m.is # "reply" /\ inbox' = Append(inbox, m)
                                             /\ Fields(w, phase, Queue(w), R.request, R.wire, R.linked)
        BY <2>3
    <3>2. Shifted(0)
        BY <1>1, <3>1, Shifting
    <3> HIDE DEF w
    <3> QED BY <1>2, <2>1, <3>1, <3>2, KeepingQueues
  <2>4. CASE UNCHANGED <<workers, inbox>>
    <3>1. Shifted(0)
        BY <1>1, <2>4, Shifting
    <3> QED BY <1>3, <2>1, <2>4, <3>1
  <2> HIDE DEF w, r, R
  <2>5. CASE /\ R.phase = "handshake" /\ r.ok /\ r.data \in Snapshot
             /\ Fields(w, "idle", Queue(w), R.request, R.wire, R.linked)
             /\ inbox' = Append(inbox, Connected(r.data))
      BY <1>10, <2>3, <2>5
  <2>6. CASE /\ R.phase = "handshake" /\ ~r.ok
             /\ Fields(w, "closed", Queue(w), R.request, R.wire, R.linked)
             /\ inbox' = Append(inbox, Disconnected)
      BY <1>10, <2>3, <2>6
  <2> QED BY <1>1, <1>19, <2>2, <2>4, <2>5, <2>6, Replying DEF w, r, R
<1>20. CASE DaemonServes \/ Restart
  <2>1. inbox' = inbox /\ UNCHANGED <<pending, nextTag, workers>>
      BY <1>20 DEF DaemonServes, Restart, DaemonStep, window, requests
  <2>2. Shifted(0)
      BY <1>1, <2>1, Shifting
  <2> QED BY <1>3, <2>1, <2>2
<1>21. CASE Crash
  <2>1. inbox' = inbox /\ UNCHANGED <<pending, nextTag>>
      BY <1>21 DEF Crash, DaemonStep, window, requests
  <2>2. Shifted(0)
      BY <1>1, <2>1, Shifting
  <2>3. Passing
      BY <1>1, <1>21, <2>1, <2>2, Crashing DEF Passing
  <2> QED BY <1>2, <2>3
<1>22. CASE UNCHANGED vars
  <2>1. inbox' = inbox /\ UNCHANGED <<pending, nextTag, workers>>
      BY <1>22 DEF vars, window, requests
  <2>2. Shifted(0)
      BY <1>1, <2>1, Shifting
  <2> QED BY <1>3, <2>1, <2>2
<1> QED BY <1>4, <1>5, <1>6, <1>7, <1>9, <1>11, <1>12, <1>14, <1>15, <1>16, <1>17, <1>18, <1>19,
           <1>20, <1>21, <1>22
        DEF Next, WindowStep, Operator, WindowActs, Server, WorkerRuns

-----------------------------------------------------------------------------
(* Phases and Listener are kept. *)

\* What Phases says of one worker.
PhaseOf(w) ==
    /\ Asks(w) <=> workers[w].phase = "await"
    /\ workers[w].phase \in {"new", "idle"} => workers[w].wire = Absent /\ ~CallOf(w)
    /\ InRoundTrip(w) /\ workers[w].wire # Absent => workers[w].wire = Sent(w) /\ ~CallOf(w)
    /\ workers[w].linked => alive

\* Nothing happens but in queues and inbox.
Steady ==
    /\ UNCHANGED <<call, alive, channel, conns>>
    /\ \A w \in Worker : /\ workers'[w].phase = workers[w].phase
                         /\ workers'[w].request = workers[w].request
                         /\ workers'[w].wire = workers[w].wire
                         /\ workers'[w].linked = workers[w].linked

\* What the window does to queues and inbox is nothing to the listener.
LEMMA SteadyKeeps ==
    ASSUME Types, Phases, Listener, Steady
    PROVE  Phases' /\ Listener'
<1>1. \A w \in Worker : /\ Asks(w)' <=> Asks(w)
                        /\ InRoundTrip(w)' <=> InRoundTrip(w)
                        /\ Sent(w)' = Sent(w)
                        /\ CallOf(w)' <=> CallOf(w)
      BY DEF Steady, Asks, InRoundTrip, Sent, CallOf
<1>2. Phases'
      BY <1>1 DEF Steady, Phases
<1>3. Listener'
  <2>1. CASE call = Absent
      BY <2>1 DEF Steady, Listener
  <2>2. CASE call # Absent
    <3> DEFINE w == call.worker
    <3>1. w \in Worker
        BY <2>2 DEF Types, Call
    <3>2. workers'[w].phase = workers[w].phase /\ workers'[w].request = workers[w].request
          /\ UNCHANGED <<call, channel, conns>>
        BY <3>1 DEF Steady
    <3> QED BY <2>2, <3>2 DEF Listener, InRoundTrip, Sent
  <2> QED BY <2>1, <2>2
<1> QED BY <1>2, <1>3

\* A step of one worker, with the listener waiting for the same as before.
LEMMA OneWorker ==
    ASSUME Types, Phases, Listener, NEW w \in Worker,
           NEW phase, NEW queue, NEW request, NEW wire, NEW linked,
           Fields(w, phase, queue, request, wire, linked),
           UNCHANGED <<call, alive, channel>>, conns # <<>> => conns' # <<>> /\ Head(conns') = Head(conns),
           \* It is not the one that is served, or it gives up.
           ~CallOf(w) \/ phase \notin {"handshake", "await"},
           (request # Absent) <=> phase = "await",
           phase \in {"new", "idle"} => wire = Absent /\ ~CallOf(w),
           phase \in {"handshake", "await"} /\ wire # Absent =>
               wire = (IF phase = "handshake" THEN Plain("handshake") ELSE request.cmd) /\ ~CallOf(w),
           linked => alive
    PROVE  Phases' /\ Listener'
<1>1. \A v \in Worker \ {w} : PhaseOf(v)'
      BY DEF Fields, Phases, PhaseOf, Asks, InRoundTrip, Sent, CallOf
<1>2. PhaseOf(w)'
      BY DEF Fields, PhaseOf, Asks, InRoundTrip, Sent, CallOf
<1>3. Phases'
      BY <1>1, <1>2 DEF Phases, PhaseOf
<1>4. Listener'
  <2>1. CASE call = Absent
      BY <2>1 DEF Listener
  <2>2. CASE call # Absent
    <3>1. call.worker \in Worker
        BY <2>2 DEF Types, Call
    <3>2. CASE call.worker = w
      <4>1. CallOf(w)
          BY <2>2, <3>2 DEF CallOf
      <4>2. ~(workers'[call.worker].phase \in {"handshake", "await"})
          BY <3>2, <4>1 DEF Fields
      <4>3. call' = call /\ channel' = channel
          OBVIOUS
      <4> QED BY <2>2, <4>2, <4>3 DEF Listener, InRoundTrip
    <3>3. CASE call.worker # w
      <4>1. workers'[call.worker] = workers[call.worker]
          BY <3>1, <3>3 DEF Fields
      <4> QED BY <2>2, <4>1 DEF Listener, InRoundTrip, Sent
    <3> QED BY <3>2, <3>3
  <2> QED BY <2>1, <2>2
<1> QED BY <1>3, <1>4

\* The entries of a sequence are of its set.
LEMMA Elements ==
    ASSUME NEW S, NEW s \in Seq(S)
    PROVE  \A i \in DOMAIN s : s[i] \in S
OBVIOUS

\* What is appended is the last element, the others stay.
LEMMA Appended ==
    ASSUME NEW S, NEW s \in Seq(S), NEW e \in S
    PROVE  /\ Append(s, e) \in Seq(S) /\ Len(Append(s, e)) = Len(s) + 1
           /\ DOMAIN Append(s, e) = 1..(Len(s) + 1)
           /\ \A i \in DOMAIN s : i \in DOMAIN Append(s, e) /\ Append(s, e)[i] = s[i]
           /\ \A i \in DOMAIN Append(s, e) : i \in DOMAIN s \/ i = Len(s) + 1
           /\ Append(s, e)[Len(s) + 1] = e
OBVIOUS

\* At first the listener waits for nothing.
LEMMA PhasesInitially == Init => Phases /\ Listener
<1> SUFFICES ASSUME Init PROVE Phases /\ Listener
    OBVIOUS
<1>1. \A w \in Worker : workers[w] \in {Gone, Spawned}
      BY DEF Init
<1>2. Phases
      BY <1>1 DEF Init, Phases, Asks, InRoundTrip, CallOf, Gone, Spawned
<1>3. Listener
      BY DEF Init, Listener
<1> QED BY <1>2, <1>3

\* Every step keeps the phases and what the listener waits for.
LEMMA PhasesKept ==
    ASSUME Types, Known, AnswersFit, Phases, Listener, [Next]_vars
    PROVE  Phases' /\ Listener'
<1>1. ASSUME UNCHANGED <<server, workers>>
      PROVE  Phases' /\ Listener'
      BY <1>1, SteadyKeeps DEF Steady, server
<1>2. CASE WindowActs
  <2>1. UNCHANGED server /\ (Sending \/ UNCHANGED workers)
      BY <1>2, WindowActing
  <2>2. ASSUME NEW msgs, SendEffect(pending, msgs)
        PROVE  Steady
      BY <2>1, <2>2 DEF SendEffect, Steady, server
  <2> QED BY <1>1, <2>1, <2>2, SteadyKeeps DEF Sending
<1>3. CASE TickFires \/ PressRetry \/ OnConnected \/ OnDisconnected
      BY <1>1, <1>3 DEF TickFires, PressRetry, Event, OnConnected, OnDisconnected, Receive
<1>4. CASE OnReply
  <2> DEFINE left == {q \in pending : q.tag # inbox[1].tag}
  <2>1. UNCHANGED server /\ (UNCHANGED workers \/ \E msgs : SendEffect(left, msgs))
      BY <1>4, Hearing
  <2>2. ASSUME NEW msgs, SendEffect(left, msgs)
        PROVE  Steady
      BY <2>1, <2>2 DEF SendEffect, Steady, server
  <2> HIDE DEF left
  <2> QED BY <1>1, <2>1, <2>2, SteadyKeeps
<1>5. ASSUME inbox # <<>>, Reconnect, UNCHANGED server
      PROVE  Phases' /\ Listener'
  <2>1. /\ worker' \in Worker /\ worker' \notin Range(conns) /\ workers' \in [Worker -> WorkerState]
        /\ workers'[worker'] = Spawned /\ \A v \in Worker \ {worker'} : workers'[v] = workers[v]
      BY <1>5, Reconnecting
  <2>2. Fields(worker', "new", <<>>, Absent, Absent, FALSE)
      BY <2>1 DEF Fields, Spawned, Gone
  <2>3. ~CallOf(worker')
    <3>1. conns # <<>> => Head(conns) \in Range(conns)
        BY DEF Types, Range
    <3> QED BY <2>1, <3>1 DEF CallOf, Listener
  <2> QED BY <1>5, <2>1, <2>2, <2>3, OneWorker DEF server
<1>6. CASE OnRetry \/ OnTick
  <2>1. inbox # <<>> /\ UNCHANGED server
      BY <1>6 DEF OnRetry, OnTick, Receive
  <2> QED BY <1>1, <1>5, <1>6, <2>1 DEF OnRetry, OnTick
<1>7. ASSUME NEW w \in Worker, WorkerConnects(w)
      PROVE  Phases' /\ Listener'
  <2>1. /\ workers[w].phase = "new" /\ ~CallOf(w) /\ workers[w].wire = Absent
        /\ workers[w].request = Absent /\ (workers[w].linked => alive)
        /\ UNCHANGED <<call, alive, channel>>
      BY <1>7 DEF WorkerConnects, WorkerStep, Phases, Asks
  <2>2. conns # <<>> => Append(conns, w) # <<>> /\ Head(Append(conns, w)) = Head(conns)
      BY DEF Types
  <2>3. CASE /\ alive /\ conns' = Append(conns, w)
             /\ Fields(w, "handshake", Queue(w), workers[w].request, Plain("handshake"), TRUE)
      BY <2>1, <2>2, <2>3, OneWorker
  <2>4. CASE /\ ~alive /\ conns' = conns
             /\ Fields(w, "closed", Queue(w), workers[w].request, workers[w].wire, workers[w].linked)
      BY <2>1, <2>4, OneWorker
  <2> QED BY <1>7, <2>3, <2>4, Connecting
<1>8. ASSUME NEW w \in Worker, WorkerSends(w)
      PROVE  Phases' /\ Listener'
  <2>1. /\ workers[w].phase = "idle" /\ ~CallOf(w) /\ (workers[w].linked => alive)
        /\ UNCHANGED <<call, alive, channel, conns>>
      BY <1>8 DEF WorkerSends, WorkerStep, Phases
  <2>2. Head(Queue(w)) # Absent
      BY <1>8, Asking, AbsentAssumption
  <2>3. Fields(w, "await", Tail(Queue(w)), Head(Queue(w)),
               IF workers[w].linked THEN Head(Queue(w)).cmd ELSE Absent, workers[w].linked)
      BY <1>8, Asking
  <2> DEFINE wire == IF workers[w].linked THEN Head(Queue(w)).cmd ELSE Absent
  <2>4. wire # Absent => wire = Head(Queue(w)).cmd
      OBVIOUS
  <2> HIDE DEF wire
  <2> QED BY <2>1, <2>2, <2>3, <2>4, OneWorker DEF wire
<1>9. ASSUME NEW w \in Worker, WorkerFails(w) \/ WorkerTimesOut(w)
      PROVE  Phases' /\ Listener'
  <2>1. GivesUp(w)
      BY <1>9 DEF WorkerFails, WorkerTimesOut
  <2>2. Fields(w, "closed", Queue(w), Absent, workers[w].wire, workers[w].linked)
      BY <2>1, GivingUp
  <2>3. UNCHANGED <<call, alive, channel, conns>> /\ (workers[w].linked => alive)
      BY <2>1 DEF GivesUp, WorkerStep, Phases
  <2> QED BY <2>2, <2>3, OneWorker
<1>10. ASSUME NEW w \in Worker, WorkerRefuses(w)
       PROVE  Phases' /\ Listener'
  <2>1. /\ workers[w].phase = "closed" /\ workers[w].request = Absent /\ (workers[w].linked => alive)
        /\ UNCHANGED <<call, alive, channel, conns>>
      BY <1>10 DEF WorkerRefuses, WorkerStep, Phases, Asks
  <2> QED BY <1>10, <2>1, Refusing, OneWorker
<1>11. ASSUME NEW w \in Worker, WorkerEnds(w)
       PROVE  Phases' /\ Listener'
  <2>1. UNCHANGED <<call, alive, channel, conns>>
      BY <1>11 DEF WorkerEnds, WorkerStep
  <2> QED BY <1>11, <2>1, Ending, OneWorker
\* The steps of the listener.
<1>12. ASSUME call = Absent, conns # <<>>
       PROVE  /\ Served \in Worker
              /\ \A i \in DOMAIN channel : ~channel[i].waits
      BY <1>12, First DEF Types, Listener, Served
<1>13. CASE ListenerReads
  <2>0. call = Absent /\ conns # <<>>
      BY <1>13 DEF ListenerReads, Listening
  <2> PICK w \in Worker : w = Served
      BY <1>12, <2>0
  <2> DEFINE R == workers[w]
  <2>1. /\ call = Absent /\ conns # <<>> /\ R.wire # Absent /\ alive' = alive
        /\ call' = [worker |-> w, answer |-> Absent] /\ conns' = conns
        /\ channel' = Append(channel, [cmd |-> R.wire, waits |-> TRUE])
      BY <1>13 DEF ListenerReads, Listening, ListenerStep
  <2>2. R.wire \in Command /\ \A i \in DOMAIN channel : ~channel[i].waits
      BY <1>12, <2>1, WorkerTyped
  <2>3. Fields(w, R.phase, Queue(w), R.request, Absent, R.linked)
      BY <1>13, <2>2, Taking DEF ListenerReads
  <2>4. R.phase \notin {"new", "idle"} /\ (InRoundTrip(w) => R.wire = Sent(w))
        /\ \A v \in Worker : ~CallOf(v)
      BY <2>1, <2>2 DEF Phases, CallOf
  <2>5. call' # Absent /\ call'.worker = w /\ call'.answer = Absent
    <3>1. call' \in Call
        BY <2>1, <2>2 DEF Call
    <3> QED BY <2>1, <3>1, AbsentAssumption
  <2>6. \A v \in Worker \ {w} : PhaseOf(v)'
      BY <2>1, <2>3, <2>5 DEF Fields, Phases, PhaseOf, Asks, InRoundTrip, Sent, CallOf
  <2>7. PhaseOf(w)'
      BY <2>1, <2>2, <2>3, <2>4 DEF Fields, Phases, PhaseOf, Asks, InRoundTrip, Sent, CallOf
  <2>8. \A i \in DOMAIN channel' : channel'[i].waits => i = Len(channel') /\ channel'[i].cmd = R.wire
    <3>1. channel \in Seq([cmd : Command, waits : BOOLEAN])
        BY DEF Types
    <3> DEFINE e == [cmd |-> R.wire, waits |-> TRUE]
    <3>2. e \in [cmd : Command, waits : BOOLEAN] /\ e.cmd = R.wire
        BY <2>2
    <3>3. channel' = Append(channel, e)
        BY <2>1
    <3> HIDE DEF e
    <3>4. /\ Len(channel') = Len(channel) + 1
          /\ \A i \in DOMAIN channel' : \/ i \in DOMAIN channel /\ channel'[i] = channel[i]
                                        \/ i = Len(channel) + 1 /\ channel'[i] = e
        BY <3>1, <3>2, <3>3, Appended
    <3> QED BY <2>2, <3>2, <3>4
  <2>9. InRoundTrip(w)' => R.wire = Sent(w)'
      BY <2>2, <2>3, <2>4 DEF Fields, InRoundTrip, Sent
  <2>10. Listener'
      BY <2>1, <2>5, <2>8, <2>9 DEF Listener, Served, InRoundTrip, Sent
  <2> QED BY <2>6, <2>7, <2>10 DEF Phases, PhaseOf
<1>14. CASE ListenerTears
  <2>1. /\ call = Absent /\ conns # <<>> /\ UNCHANGED <<call, alive, channel, conns>>
        /\ workers' = [workers EXCEPT ![Served].wire = Absent]
      BY <1>14 DEF ListenerTears, Listening, ListenerStep
  <2>2. Served \in Worker /\ ~CallOf(Served) /\ PhaseOf(Served)
      BY <1>12, <2>1 DEF CallOf, Phases, PhaseOf
  <2>3. Fields(Served, workers[Served].phase, Queue(Served), workers[Served].request, Absent,
               workers[Served].linked)
      BY <2>1, <2>2, Taking
  <2> HIDE DEF Served
  <2> QED BY <2>1, <2>2, <2>3, OneWorker DEF PhaseOf, Asks
<1>15. CASE ListenerEnds
  <2>1. call = Absent /\ UNCHANGED <<call, alive, channel, workers>>
      BY <1>15 DEF ListenerEnds, Listening, ListenerStep
  <2>2. Phases'
      BY <2>1 DEF Phases, Asks, InRoundTrip, Sent, CallOf
  <2> QED BY <2>1, <2>2 DEF Listener
<1>16. CASE ListenerStalls
  <2>1. /\ call # Absent /\ call' = [call EXCEPT !.answer = Refused]
        /\ channel' = [i \in DOMAIN channel |-> [channel[i] EXCEPT !.waits = FALSE]]
        /\ UNCHANGED <<alive, conns, workers>>
      BY <1>16 DEF ListenerStalls, ListenerStep
  <2>2. /\ call' # Absent /\ call'.worker = call.worker /\ call'.answer = Refused
    <3>1. call \in Call /\ Refused \in Answer
        BY <2>1, Made DEF Types
    <3>2. call' \in Call
        BY <2>1, <3>1 DEF Call
    <3> QED BY <2>1, <3>1, <3>2, AbsentAssumption DEF Call
  <2>3. \A i \in DOMAIN channel' : ~channel'[i].waits
    <3>1. \A i \in DOMAIN channel : channel[i] \in [cmd : Command, waits : BOOLEAN]
        BY Elements DEF Types
    <3> QED BY <2>1, <3>1
  <2>4. Phases'
      BY <2>1, <2>2 DEF Phases, Asks, InRoundTrip, Sent, CallOf
  <2>5. ~Refused.ok
      BY DEF Refused
  <2> QED BY <2>1, <2>2, <2>3, <2>4, <2>5 DEF Listener
<1>17. CASE ListenerReplies
  <2> PICK w \in Worker : w = call.worker
      BY <1>17, Replying
  <2> DEFINE R == workers[w]
  <2>1. /\ call # Absent /\ call.answer # Absent /\ w \in Worker /\ call' = Absent
        /\ UNCHANGED <<alive, channel>> /\ CallOf(w) /\ PhaseOf(w)
    <3>1. call # Absent /\ call.answer # Absent /\ w \in Worker /\ call' = Absent
          /\ UNCHANGED <<alive, channel>>
        BY <1>17, Replying DEF ListenerReplies, ListenerStep
    <3> QED BY <3>1 DEF CallOf, Phases, PhaseOf
  <2>2. \A i \in DOMAIN channel : ~channel[i].waits
      BY <2>1 DEF Listener
  <2>3. Listener'
      BY <2>1, <2>2 DEF Listener
  <2>4. R.phase = "await" => R.request # Absent
      BY <2>1 DEF PhaseOf, Asks
  <2>5. InRoundTrip(w) => R.wire = Absent
      BY <2>1 DEF PhaseOf
  <2>6. ASSUME NEW phase \in {"idle", "closed"}, NEW request, request = Absent, InRoundTrip(w),
               Fields(w, phase, Queue(w), request, R.wire, R.linked)
        PROVE  Phases'
    <3>1. \A v \in Worker \ {w} : PhaseOf(v)'
        BY <2>1, <2>6 DEF Fields, Phases, PhaseOf, Asks, InRoundTrip, Sent, CallOf
    <3>2. PhaseOf(w)'
        BY <2>1, <2>5, <2>6 DEF Fields, PhaseOf, Asks, InRoundTrip, Sent, CallOf
    <3> QED BY <3>1, <3>2 DEF Phases, PhaseOf
  <2>7. CASE R.phase = "await" /\ Fields(w, "idle", Queue(w), Absent, R.wire, R.linked)
      BY <2>3, <2>6, <2>7 DEF InRoundTrip
  <2>8. CASE R.phase = "handshake" /\ (\/ Fields(w, "idle", Queue(w), R.request, R.wire, R.linked)
                                       \/ Fields(w, "closed", Queue(w), R.request, R.wire, R.linked))
    <3>1. R.request = Absent
        BY <2>1, <2>8 DEF PhaseOf, Asks
    <3> QED BY <2>3, <2>6, <2>8, <3>1 DEF InRoundTrip
  <2>9. CASE UNCHANGED workers
      BY <2>1, <2>3, <2>9 DEF Phases, Asks, InRoundTrip, Sent, CallOf
  <2> QED BY <1>17, <2>3, <2>7, <2>8, <2>9, Replying
<1>18. CASE DaemonServes
  <2>1. PICK r \in Answer : /\ Answering(channel[1].cmd, r)
                            /\ call' = IF channel[1].waits THEN [call EXCEPT !.answer = r] ELSE call
      BY <1>18, Serving
  <2>2. /\ channel # <<>> /\ channel' = Tail(channel)
        /\ UNCHANGED <<conns, alive, workers>>
      BY <1>18, Serving
  <2>3. /\ 1 \in DOMAIN channel /\ Len(channel) \in Nat
        /\ Len(channel') = Len(channel) - 1
        /\ \A i \in DOMAIN channel' : channel'[i] = channel[i + 1] /\ i + 1 \in DOMAIN channel
      BY <2>2, First DEF Types
  <2>4. CASE ~channel[1].waits
    <3>1. call' = call
        BY <2>1, <2>4
    <3>2. Phases'
        BY <2>2, <3>1 DEF Phases, Asks, InRoundTrip, Sent, CallOf
    <3>3. \A i \in DOMAIN channel' : i + 1 = Len(channel) => i = Len(channel')
        BY <2>2, <2>3 DEF Types
    <3> QED BY <2>2, <2>3, <3>1, <3>2, <3>3 DEF Listener, InRoundTrip, Sent
  <2>5. CASE channel[1].waits
    <3>1. /\ 1 = Len(channel) /\ call # Absent /\ call.answer = Absent
          /\ InRoundTrip(call.worker) => channel[1].cmd = Sent(call.worker)
        BY <2>3, <2>5 DEF Listener
    <3>2. DOMAIN channel' = {}
        BY <2>2, <2>3, <3>1, First DEF Types
    <3>3. /\ call' # Absent /\ call'.worker = call.worker /\ call'.answer = r
      <4>1. call \in Call
          BY <3>1 DEF Types
      <4>2. call' \in Call
          BY <2>1, <2>5, <4>1 DEF Call
      <4> QED BY <2>1, <2>5, <4>1, <4>2, AbsentAssumption DEF Call
    <3>4. Phases'
        BY <2>2, <3>1, <3>3 DEF Phases, Asks, InRoundTrip, Sent, CallOf
    <3>5. r.ok => LET cmd == channel[1].cmd
                  IN  /\ cmd.op = "get_config" => r.data \in Config
                      /\ cmd.op = "current_preset" => r.data \in Name
                      /\ cmd.op = "handshake" => r.data \in Snapshot
      <4>1. active \in Name /\ mem \in Config /\ [name |-> active, config |-> mem] \in Snapshot
          BY DEF Types, Snapshot
      <4> QED BY <2>1, <4>1 DEF Answering, Reading
    <3>6. InRoundTrip(call.worker)' <=> InRoundTrip(call.worker)
        BY <2>2, <3>3 DEF InRoundTrip
    <3> QED BY <2>2, <3>1, <3>2, <3>3, <3>4, <3>5 DEF Listener, InRoundTrip, Sent
  <2> QED BY <2>4, <2>5
<1>19. CASE Crash
  <2>1. call' = Absent /\ channel' = <<>> /\ conns' = <<>>
      BY <1>19 DEF Crash
  <2>2. Phases'
      BY <1>19, <2>1, Crashing DEF Phases, Asks, InRoundTrip, Sent, CallOf
  <2>3. DOMAIN channel' = {}
      BY <2>1
  <2> QED BY <2>1, <2>2, <2>3 DEF Listener
<1>20. CASE Restart
  <2>1. alive' /\ UNCHANGED <<conns, call, channel, workers>>
      BY <1>20 DEF Restart
  <2>2. Phases'
      BY <2>1 DEF Phases, Asks, InRoundTrip, Sent, CallOf
  <2> QED BY <2>1, <2>2 DEF Listener, InRoundTrip, Sent
<1>21. CASE UNCHANGED vars
      BY <1>1, <1>21 DEF vars
<1> QED BY <1>2, <1>3, <1>4, <1>6, <1>7, <1>8, <1>9, <1>10, <1>11, <1>13, <1>14, <1>15, <1>16, <1>17,
           <1>18, <1>19, <1>20, <1>21
        DEF Next, WindowStep, Operator, WindowActs, Server, WorkerRuns

-----------------------------------------------------------------------------

\* Structure is an invariant.
THEOREM StructureHolds == Spec => []Structure
<1>1. Init => Structure
      BY TypesInitially, TagsInitially, PhasesInitially DEF Structure
<1>2. Structure /\ [Next]_vars => Structure'
  <2> SUFFICES ASSUME Structure, [Next]_vars PROVE Structure'
      OBVIOUS
  <2>1. Types /\ Known /\ AnswersFit /\ Phases /\ Listener
      BY DEF Structure, Fitting
  <2>2. Types' /\ Known' /\ Phases' /\ Listener'
      BY <2>1, TypesKept, PhasesKept
  <2>3. Tags' /\ Fitting' /\ ChainsFetched'
      BY TagsKept
  <2> QED BY <2>2, <2>3 DEF Structure
<1> QED BY <1>1, <1>2, PTL DEF Spec

-----------------------------------------------------------------------------
(* Mirroring is kept.  Messages that mean the same to a part.              *)

Plays(P, m, Q, n, part, x) ==
    /\ Touches(P, m, part) <=> Touches(Q, n, part)
    /\ Gives(P, m, part, x) <=> Gives(Q, n, part, x)
    /\ Owes(P, m, part) <=> Owes(Q, n, part)

\* A message means what it did as long as the requests under its tag are there.
LEMMA PlaysSame ==
    ASSUME NEW P, NEW Q, NEW m, NEW part, NEW x,
           m.is = "reply" => /\ \A p \in P : p.tag = m.tag => p \in Q
                             /\ \A p \in Q : p.tag = m.tag => p \in P
    PROVE  Plays(P, m, Q, m, part, x)
<1>1. CASE m.is # "reply"
      BY <1>1 DEF Plays, Touches, Gives, Owes
<1>2. CASE m.is = "reply"
  <2>1. Touches(P, m, part) <=> Touches(Q, m, part)
      BY <1>2 DEF Touches
  <2>2. Gives(P, m, part, x) <=> Gives(Q, m, part, x)
      BY <1>2 DEF Gives
  <2>3. Owes(P, m, part) <=> Owes(Q, m, part)
      BY <1>2 DEF Owes
  <2> QED BY <2>1, <2>2, <2>3 DEF Plays
<1> QED BY <1>1, <1>2

\* A message that is neither a snapshot nor an acceptance means nothing.
LEMMA Inert ==
    ASSUME NEW P, NEW m, NEW part, NEW x, m.is # "connected", m.is = "reply" => ~m.r.ok
    PROVE  ~Touches(P, m, part) /\ ~Gives(P, m, part, x) /\ ~Owes(P, m, part)
BY DEF Touches, Gives, Owes

\* Two messages that are neither snapshots nor answers mean the same.
LEMMA InertPlays ==
    ASSUME NEW P, NEW Q, NEW m, NEW n, NEW part, NEW x,
           m.is # "connected", n.is # "connected", m.is # "reply", n.is # "reply"
    PROVE  Plays(P, m, Q, n, part, x)
BY DEF Plays, Touches, Gives, Owes

\* The inbox moves up by d places, and what comes behind touches nothing; if
\* the first message is read, the window does with it what it says.
LEMMA InboxMoves ==
    ASSUME inbox \in Seq(Message), inbox' \in Seq(Message), Mirrors,
           UNCHANGED <<worker, call, conns, active, mem>>,
           workers'[worker].phase = workers[worker].phase,
           workers'[worker].request = workers[worker].request,
           workers'[worker].linked = workers[worker].linked,
           \A i \in DOMAIN Queue(worker) :
               i \in DOMAIN workers'[worker].queue /\ workers'[worker].queue[i] = Queue(worker)[i],
           NEW part \in Part, NEW d \in {0, 1},
           Tracking /\ Late => Plays(pending, LateMessage, pending', LateMessage, part, Truth(part)),
           \A i \in DOMAIN inbox : i > d =>
               /\ i - d \in DOMAIN inbox'
               /\ Plays(pending, inbox[i], pending', inbox'[i - d], part, Truth(part)),
           \A j \in DOMAIN inbox' : j + d \in DOMAIN inbox \/ ~Touches(pending', inbox'[j], part),
           d = 0 => Mirror(part)' = Mirror(part),
           d = 1 => /\ inbox # <<>>
                    /\ Owes(pending, inbox[1], part) =>
                         \E i \in DOMAIN workers'[worker].queue :
                             Renews(workers'[worker].queue[i].cmd, part)
                    /\ ~Touches(pending, inbox[1], part) => Mirror(part)' = Mirror(part)
                    /\ Gives(pending, inbox[1], part, Truth(part)) => Mirror(part)' = Truth(part),
           Tracking'
    PROVE  /\ conns' # <<>> /\ worker' = Head(conns')
           /\ Owed(part)' \/ Shown(part)'
<1>1. /\ Tracking
      /\ Late' <=> Late
      /\ LateMessage' = LateMessage
      /\ Asks(worker)' <=> Asks(worker)
      /\ Truth(part)' = Truth(part)
      BY DEF Tracking, Late, CallOf, LateMessage, Asks, Truth
<1>2. conns # <<>> /\ worker = Head(conns) /\ (Owed(part) \/ Shown(part))
      BY <1>1 DEF Mirrors
<1>3. Owed(part)' <=>
         \/ \E i \in DOMAIN workers'[worker].queue : Renews(workers'[worker].queue[i].cmd, part)
         \/ Asks(worker) /\ ~Late /\ Renews(workers[worker].request.cmd, part)
         \/ Asks(worker) /\ Late /\ Owes(pending', LateMessage, part)
         \/ \E i \in DOMAIN inbox' : Owes(pending', inbox'[i], part)
      BY <1>1 DEF Owed, Queue, Owes, Renews
<1>4. Shown(part)' <=>
         \/ Late /\ Gives(pending', LateMessage, part, Truth(part))
         \/ /\ Late => ~Touches(pending', LateMessage, part)
            /\ Shows(pending', inbox', Mirror(part)', part, Truth(part))
      BY <1>1 DEF Shown, Gives, Touches, Shows
<1>5. CASE Owed(part)
  <2>1. CASE \E i \in DOMAIN Queue(worker) : Renews(Queue(worker)[i].cmd, part)
      BY <1>2, <1>3, <2>1
  <2>2. CASE Asks(worker) /\ ~Late /\ Renews(workers[worker].request.cmd, part)
      BY <1>2, <1>3, <2>2
  <2>3. CASE Asks(worker) /\ Late /\ Owes(pending, LateMessage, part)
      BY <1>1, <1>2, <1>3, <2>3 DEF Plays
  <2>4. ASSUME NEW i \in DOMAIN inbox, Owes(pending, inbox[i], part)
        PROVE  Owed(part)'
    <3>1. CASE i > d
        BY <1>3, <2>4, <3>1 DEF Plays
    <3>2. CASE ~(i > d)
      <4>1. i = 1 /\ d = 1
          BY <3>2
      <4> QED BY <1>3, <2>4, <4>1
    <3> QED BY <3>1, <3>2
  <2> QED BY <1>2, <1>5, <2>1, <2>2, <2>3, <2>4 DEF Owed
<1>6. CASE Shown(part)
  <2>1. CASE Late /\ Gives(pending, LateMessage, part, Truth(part))
      BY <1>1, <1>2, <1>4, <2>1 DEF Plays
  <2>2. CASE /\ Late => ~Touches(pending, LateMessage, part)
             /\ Shows(pending, inbox, Mirror(part), part, Truth(part))
    <3>1. Late => ~Touches(pending', LateMessage, part)
        BY <1>1, <2>2 DEF Plays
    <3> DEFINE x == Truth(part)
               T(j) == Touches(pending', inbox'[j], part)
               now == Mirror(part)'
    <3>2. \A j \in DOMAIN inbox' : ~T(j) \/ /\ j + d \in DOMAIN inbox /\ j + d > d
                                            /\ Touches(pending, inbox[j + d], part)
      <4> SUFFICES ASSUME NEW j \in DOMAIN inbox', j + d \in DOMAIN inbox
                   PROVE  ~T(j) \/ (j + d > d /\ Touches(pending, inbox[j + d], part))
          OBVIOUS
      <4>1. j + d > d /\ (j + d) - d = j
          OBVIOUS
      <4>2. Plays(pending, inbox[j + d], pending', inbox'[(j + d) - d], part, Truth(part))
          BY <4>1
      <4> QED BY <4>1, <4>2 DEF Plays
    <3>3. CASE (\A i \in DOMAIN inbox : ~Touches(pending, inbox[i], part)) /\ Mirror(part) = x
      <4>1. \A j \in DOMAIN inbox' : ~T(j)
          BY <3>2, <3>3
      <4>2. now = x
        <5>1. d = 1 => 1 \in DOMAIN inbox
            OBVIOUS
        <5> QED BY <3>3, <5>1
      <4> HIDE DEF T, now, x
      <4>3. Shows(pending', inbox', now, part, x)
          BY <4>1, <4>2 DEF Shows, T
      <4> QED BY <1>2, <1>4, <3>1, <4>3 DEF now, x
    <3>4. ASSUME NEW i \in DOMAIN inbox, Gives(pending, inbox[i], part, x),
                 \A j \in DOMAIN inbox : j > i => ~Touches(pending, inbox[j], part)
          PROVE  Shows(pending', inbox', now, part, x)
      <4>1. CASE i > d
        <5>1. i - d \in DOMAIN inbox' /\ Gives(pending', inbox'[i - d], part, x)
            BY <3>4, <4>1 DEF Plays
        <5>2. \A j \in DOMAIN inbox' : j > i - d => ~T(j)
          <6>1. \A j \in DOMAIN inbox' : j > i - d => j + d > i
              OBVIOUS
          <6> QED BY <3>2, <3>4, <6>1
        <5> HIDE DEF now, x
        <5> QED BY <5>1, <5>2 DEF Shows
      <4>2. CASE ~(i > d)
        <5>1. i = 1 /\ d = 1
            BY <4>2
        <5>2. now = x
            BY <3>4, <5>1
        <5>3. \A j \in DOMAIN inbox' : ~T(j)
            BY <3>2, <3>4, <5>1
        <5> HIDE DEF now, x, T
        <5> QED BY <5>2, <5>3 DEF Shows, T
      <4> QED BY <4>1, <4>2
    <3> QED BY <1>2, <1>4, <2>2, <3>1, <3>3, <3>4 DEF Shows
  <2> QED BY <1>6, <2>1, <2>2 DEF Shown
<1> QED BY <1>2, <1>5, <1>6

\* New requests have new tags: what is under way means what it did.
LEMMA SendingPlays ==
    ASSUME Types, NEW left \in SUBSET pending, NEW msgs \in Seq(Outgoing), SendEffect(left, msgs),
           NEW m \in Message, NEW part, NEW x,
           m.is = "reply" => m.tag < nextTag /\ \A p \in pending : p.tag = m.tag => p \in left
    PROVE  Plays(pending, m, pending', m, part, x)
<1>1. ASSUME m.is = "reply", NEW p \in pending, p.tag = m.tag
      PROVE  p \in pending'
      BY <1>1 DEF SendEffect
<1>2. ASSUME m.is = "reply", NEW p \in pending', p.tag = m.tag
      PROVE  p \in pending
  <2>1. CASE p \in left
      BY <2>1
  <2>2. ASSUME NEW i \in 1..Len(msgs), p.tag = nextTag + i - 1
        PROVE  FALSE
    <3>1. m.tag \in Nat /\ m.tag < nextTag /\ nextTag \in Nat
        BY <1>2, Read DEF Types
    <3>2. i \in Nat \ {0}
        OBVIOUS
    <3>3. nextTag + i - 1 >= nextTag
        BY <3>1, <3>2
    <3>4. m.tag = nextTag + i - 1
        BY <1>2, <2>2
    <3> QED BY <3>1, <3>3, <3>4
  <2> QED BY <2>1, <2>2 DEF SendEffect
<1> QED BY <1>1, <1>2, PlaysSame

\* The answer the listener has for a worker in step is the snapshot or the
\* answer to its request.
LEMMA LateIs ==
    ASSUME Structure, Tracking, Late
    PROVE  /\ LateMessage \in Message
           /\ \/ workers[worker].phase = "handshake" /\ LateMessage = Connected(call.answer.data)
              \/ /\ workers[worker].phase = "await" /\ Asks(worker)
                 /\ LateMessage = Reply(workers[worker].request.tag, call.answer)
                 /\ LateMessage.tag < nextTag
                 /\ \A k \in DOMAIN inbox : Answers(k) => inbox[k].tag # LateMessage.tag
<1>1. /\ Types /\ worker \in Worker /\ CallOf(worker) /\ call.answer # Absent /\ call.answer \in Answer
      /\ call # Absent /\ call.worker = worker
      BY DEF Structure, Types, Late, CallOf, Call
<1>2. workers[worker].phase \in {"handshake", "await"}
      BY <1>1 DEF Structure, Phases, Tracking
<1>3. CASE workers[worker].phase = "handshake"
  <2>1. call.answer.data \in Snapshot
      BY <1>1, <1>3 DEF Structure, Listener, Tracking, InRoundTrip, Sent, Plain
  <2> QED BY <1>3, <2>1, Made DEF LateMessage
<1>4. CASE workers[worker].phase = "await"
  <2> DEFINE t == workers[worker].request.tag
  <2>1. Asks(worker) /\ t \in Nat /\ t < nextTag
    <3>1. Asks(worker) /\ workers[worker].request \in Entry
        BY <1>1, <1>4, WorkerTyped DEF Structure, Phases, Asks
    <3> QED BY <1>1, <3>1 DEF Entry, Structure, Tags, TagsBelow
  <2>2. LateMessage = Reply(t, call.answer)
      BY <1>4 DEF LateMessage
  <2>3. LateMessage \in Message /\ LateMessage.tag = t
      BY <1>1, <2>1, <2>2, Made DEF Reply
  <2>4. \A k \in DOMAIN inbox : Answers(k) => inbox[k].tag # t
      BY <1>1, <2>1 DEF Structure, Tags, RequestUnanswered
  <2> QED BY <1>4, <2>1, <2>2, <2>3, <2>4
<1> QED BY <1>2, <1>3, <1>4

\* The worker in use keeps all but its queue, which only grows.
WorkerStays ==
    /\ UNCHANGED <<worker, call, conns, active, mem>>
    /\ workers'[worker].phase = workers[worker].phase
    /\ workers'[worker].request = workers[worker].request
    /\ workers'[worker].linked = workers[worker].linked
    /\ \A i \in DOMAIN Queue(worker) :
          i \in DOMAIN workers'[worker].queue /\ workers'[worker].queue[i] = Queue(worker)[i]

\* The window reads nothing; a message that means nothing may come in.
LEMMA NothingRead ==
    ASSUME Structure, Mirrors, WorkerStays, UNCHANGED <<name, config>>,
           \/ inbox' = inbox
           \/ \E n \in Message : /\ n.is # "connected" /\ (n.is = "reply" => ~n.r.ok)
                                 /\ inbox' = Append(inbox, n),
           \A m \in Message, part \in Part : (m.is = "reply" => m.tag < nextTag) =>
               Plays(pending, m, pending', m, part, Truth(part))
    PROVE  Mirrors'
<1> SUFFICES ASSUME Tracking', NEW part \in Part
             PROVE  /\ conns' # <<>> /\ worker' = Head(conns')
                    /\ Owed(part)' \/ Shown(part)'
    BY DEF Mirrors, Part
<1>1. inbox \in Seq(Message) /\ inbox' \in Seq(Message)
  <2>1. inbox \in Seq(Message)
      BY DEF Structure, Types
  <2> QED BY <2>1, Appended
<1>2. \A i \in DOMAIN inbox : inbox[i] \in Message /\ (inbox[i].is = "reply" => inbox[i].tag < nextTag)
      BY <1>1 DEF Structure, Tags, TagsBelow, Answers
<1>3. \A i \in DOMAIN inbox : i \in DOMAIN inbox' /\ inbox'[i] = inbox[i]
      BY <1>1
<1>4. \A j \in DOMAIN inbox' : j \in DOMAIN inbox \/ ~Touches(pending', inbox'[j], part)
  <2>1. CASE inbox' = inbox
      BY <2>1
  <2>2. ASSUME NEW n \in Message, n.is # "connected", n.is = "reply" => ~n.r.ok, inbox' = Append(inbox, n)
        PROVE  \A j \in DOMAIN inbox' : j \in DOMAIN inbox \/ ~Touches(pending', inbox'[j], part)
    <3>1. ~Touches(pending', n, part)
        BY <2>2, Inert
    <3>2. \A j \in DOMAIN inbox' : j \in DOMAIN inbox \/ inbox'[j] = n
        BY <1>1, <2>2, Appended
    <3> QED BY <3>1, <3>2
  <2> QED BY <2>1, <2>2
<1>5. \A i \in DOMAIN inbox : i > 0 =>
         i - 0 \in DOMAIN inbox' /\ Plays(pending, inbox[i], pending', inbox'[i - 0], part, Truth(part))
  <2>1. \A i \in DOMAIN inbox : i - 0 = i
      BY <1>1
  <2> QED BY <1>2, <1>3, <2>1
<1>6. \A j \in DOMAIN inbox' : j + 0 \in DOMAIN inbox \/ ~Touches(pending', inbox'[j], part)
  <2>1. \A j \in DOMAIN inbox' : j + 0 = j
      BY <1>1
  <2> QED BY <1>4, <2>1
<1>7. Tracking /\ Late => Plays(pending, LateMessage, pending', LateMessage, part, Truth(part))
  <2> SUFFICES ASSUME Tracking, Late
               PROVE  Plays(pending, LateMessage, pending', LateMessage, part, Truth(part))
      OBVIOUS
  <2>1. LateMessage \in Message /\ (LateMessage.is = "reply" => LateMessage.tag < nextTag)
      BY LateIs DEF Connected
  <2> HIDE DEF LateMessage
  <2> QED BY <2>1
<1>8. Mirror(part)' = Mirror(part)
      BY DEF Mirror
<1> QED BY <1>1, <1>5, <1>6, <1>7, <1>8, InboxMoves DEF WorkerStays

\* The window reads the first message and does with each part what it says.
LEMMA FirstRead ==
    ASSUME Structure, inbox' \in Seq(Message), Mirrors, WorkerStays,
           inbox # <<>>, inbox' = Tail(inbox) \/ NewGeneration,
           \A m \in Message, part \in Part :
               (m.is = "reply" => m.tag < nextTag /\ (inbox[1].is = "reply" => m.tag # inbox[1].tag)) =>
                   Plays(pending, m, pending', m, part, Truth(part)),
           \A part \in Part :
               /\ Owes(pending, inbox[1], part) =>
                    \E i \in DOMAIN workers'[worker].queue : Renews(workers'[worker].queue[i].cmd, part)
               /\ ~Touches(pending, inbox[1], part) => Mirror(part)' = Mirror(part)
               /\ Gives(pending, inbox[1], part, Truth(part)) => Mirror(part)' = Truth(part)
    PROVE  Mirrors'
<1> SUFFICES ASSUME Tracking', NEW part \in Part
             PROVE  /\ conns' # <<>> /\ worker' = Head(conns')
                    /\ Owed(part)' \/ Shown(part)'
    BY DEF Mirrors, Part
<1>1. Types /\ inbox \in Seq(Message) /\ Len(inbox) \in Nat
      BY DEF Structure, Types
<1>2. \A i \in DOMAIN inbox : i # 1 =>
         /\ inbox[i] \in Message
         /\ inbox[i].is = "reply" =>
              inbox[i].tag < nextTag /\ (inbox[1].is = "reply" => inbox[i].tag # inbox[1].tag)
  <2>1. 1 \in DOMAIN inbox /\ \A i \in DOMAIN inbox : inbox[i] \in Message
      BY <1>1, Elements, InboxHead
  <2>2. TagsBelow /\ AnswersOnce
      BY DEF Structure, Tags
  <2>3. \A i \in DOMAIN inbox : inbox[i].is = "reply" => inbox[i].tag < nextTag
      BY <2>2 DEF TagsBelow, Answers
  <2>4. \A i \in DOMAIN inbox : i # 1 =>
           (inbox[i].is = "reply" /\ inbox[1].is = "reply" => inbox[i].tag # inbox[1].tag)
      BY <2>1, <2>2 DEF AnswersOnce, Answers
  <2> QED BY <2>1, <2>3, <2>4
<1>3. /\ Len(inbox') = Len(inbox) - 1
      /\ \A i \in 1..(Len(inbox) - 1) :
           \/ inbox'[i] = inbox[i + 1]
           \/ inbox[i + 1] = Tick /\ inbox'[i] = [Tick EXCEPT !.stale = TRUE]
  <2>1. CASE NewGeneration
      BY <1>1, <2>1, Renewing
  <2>2. CASE inbox' = Tail(inbox)
    <3>1. /\ Len(Tail(inbox)) = Len(inbox) - 1
          /\ \A i \in 1..(Len(inbox) - 1) : Tail(inbox)[i] = inbox[i + 1]
        BY <1>1, InboxHead
    <3> QED BY <2>2, <3>1
  <2> QED BY <2>1, <2>2
<1>4. \A i \in DOMAIN inbox : i > 1 =>
         i - 1 \in DOMAIN inbox' /\ Plays(pending, inbox[i], pending', inbox'[i - 1], part, Truth(part))
  <2> SUFFICES ASSUME NEW i \in DOMAIN inbox, i > 1
               PROVE  /\ i - 1 \in DOMAIN inbox'
                      /\ Plays(pending, inbox[i], pending', inbox'[i - 1], part, Truth(part))
      OBVIOUS
  <2>1. i - 1 \in DOMAIN inbox' /\ (i - 1) + 1 = i /\ i - 1 \in 1..(Len(inbox) - 1) /\ i # 1
      BY <1>1, <1>3
  <2>2. Plays(pending, inbox[i], pending', inbox[i], part, Truth(part))
      BY <1>2, <2>1
  <2>3. CASE inbox'[i - 1] = inbox[i]
      BY <2>1, <2>2, <2>3
  <2>4. CASE inbox[i] = Tick /\ inbox'[i - 1] = [Tick EXCEPT !.stale = TRUE]
    <3>1. inbox[i].is = "tick" /\ inbox'[i - 1].is = "tick"
        BY <2>4 DEF Tick
    <3> QED BY <2>1, <3>1, InertPlays
  <2> QED BY <1>3, <2>1, <2>3, <2>4
<1>5. \A j \in DOMAIN inbox' : j + 1 \in DOMAIN inbox
      BY <1>1, <1>3
<1>6. Tracking /\ Late => Plays(pending, LateMessage, pending', LateMessage, part, Truth(part))
  <2> SUFFICES ASSUME Tracking, Late
               PROVE  Plays(pending, LateMessage, pending', LateMessage, part, Truth(part))
      OBVIOUS
  <2>1. 1 \in DOMAIN inbox
      BY <1>1
  <2>2. /\ LateMessage \in Message
        /\ LateMessage.is = "reply" =>
             LateMessage.tag < nextTag /\ (inbox[1].is = "reply" => LateMessage.tag # inbox[1].tag)
      BY <2>1, LateIs DEF Connected, Answers
  <2> HIDE DEF LateMessage
  <2> QED BY <2>2
<1> QED BY <1>1, <1>4, <1>5, <1>6, InboxMoves DEF WorkerStays

\* What the window does to the mirror with the answer to p.
LEMMA MirrorAfter ==
    ASSUME NEW p \in Request, NEW r, NEW part \in Part, config \in Config,
           config' = Mirrored(p, r),
           name' = IF r.ok /\ p.kind = "CurrentPreset" THEN r.data ELSE name
    PROVE  /\ ~(r.ok /\ part \in Sets(p.kind)) => Mirror(part)' = Mirror(part)
           /\ r.ok /\ part \in Sets(p.kind) => Mirror(part)' = SetTo(p, r, part)
<1> DEFINE k == p.kind
<1>1. k \in Kind
      BY DEF Request
<1>2. \A c \in Cell : \A v : /\ [config EXCEPT ![c] = v][c] = v
                             /\ \A e \in Cell \ {c} : [config EXCEPT ![c] = v][e] = config[e]
      BY DEF Config
<1>3. "param" \in Cell /\ "flag" \in Cell /\ "name" \notin Cell /\ Part = Cell \cup {"name"}
      BY DEF Cell, Part
<1>4. CASE ~r.ok
      BY <1>4 DEF Mirrored, Mirror
<1>5. CASE r.ok /\ k = "SetParam"
  <2>1. config' = [config EXCEPT !["param"] = p.value] /\ name' = name
      BY <1>5 DEF Mirrored, Fetching
  <2>2. Sets(k) = {"param"} /\ SetTo(p, r, part) = p.value
      BY <1>5 DEF Sets, SetTo, Fetching
  <2> QED BY <1>2, <1>3, <1>5, <2>1, <2>2 DEF Mirror
<1>6. CASE r.ok /\ k = "SetEnabled"
  <2>1. config' = [config EXCEPT !["flag"] = p.value] /\ name' = name
      BY <1>6 DEF Mirrored, Fetching
  <2>2. Sets(k) = {"flag"} /\ SetTo(p, r, part) = p.value
      BY <1>6 DEF Sets, SetTo, Fetching
  <2> QED BY <1>2, <1>3, <1>6, <2>1, <2>2 DEF Mirror
<1>7. CASE r.ok /\ k \in Fetching
  <2>1. config' = r.data /\ name' = name
      BY <1>7 DEF Mirrored, Fetching
  <2>2. Sets(k) = Cell /\ SetTo(p, r, part) = r.data[part]
      BY <1>7 DEF Sets, SetTo, Fetching
  <2> QED BY <1>3, <1>7, <2>1, <2>2 DEF Mirror
<1>8. CASE r.ok /\ k = "CurrentPreset"
  <2>1. config' = config /\ name' = r.data
      BY <1>8 DEF Mirrored, Fetching
  <2>2. Sets(k) = {"name"} /\ SetTo(p, r, part) = r.data
      BY <1>8 DEF Sets, SetTo, Fetching
  <2> QED BY <1>3, <1>8, <2>1, <2>2 DEF Mirror
<1>9. CASE r.ok /\ k \notin {"SetParam", "SetEnabled", "CurrentPreset"} \cup Fetching
  <2>1. config' = config /\ name' = name
      BY <1>9 DEF Mirrored
  <2>2. Sets(k) = {}
      BY <1>9 DEF Sets
  <2> QED BY <2>1, <2>2 DEF Mirror
<1> QED BY <1>4, <1>5, <1>6, <1>7, <1>8, <1>9

\* What the window fetches again after an answer that owes a part.
LEMMA FollowsUp ==
    ASSUME NEW p \in Request, NEW r, NEW part \in Part, r.ok,
           p.kind \in Leaving \/ (part # "name" /\ p.kind = "SetEnabled")
    PROVE  \E i \in 1..Len(FollowUp(p, r)) : Renews(FollowUp(p, r)[i].cmd, part)
<1>1. CASE p.kind \in Leaving
  <2>1. FollowUp(p, r) = <<CurrentPreset, ResyncBaseline>>
      BY <1>1 DEF FollowUp, Leaving, RefetchActive
  <2>2. Renews(CurrentPreset.cmd, "name") /\ (part # "name" => Renews(ResyncBaseline.cmd, part))
      BY DEF Renews, CurrentPreset, ResyncBaseline, Msg, Plain
  <2> HIDE DEF CurrentPreset, ResyncBaseline
  <2> QED BY <2>1, <2>2
<1>2. CASE p.kind = "SetEnabled" /\ part # "name"
  <2>1. FollowUp(p, r) = <<GetConfigQuiet>>
      BY <1>2 DEF FollowUp
  <2>2. Renews(GetConfigQuiet.cmd, part)
      BY <1>2 DEF Renews, GetConfigQuiet, Msg, Plain
  <2> HIDE DEF GetConfigQuiet
  <2> QED BY <2>1, <2>2
<1> QED BY <1>1, <1>2

\* Sending is nothing to the worker in use but more entries in its queue.
LEMMA SendingStays ==
    ASSUME Types, NEW left, NEW msgs \in Seq(Outgoing), SendEffect(left, msgs), UNCHANGED server
    PROVE  /\ WorkerStays
           /\ \A i \in 1..Len(msgs) : \E j \in DOMAIN workers'[worker].queue :
                 workers'[worker].queue[j].cmd = msgs[i].cmd
<1> DEFINE q == Queue(worker)
           z == workers'[worker].queue
<1>1. /\ worker \in Worker /\ q \in Seq(Entry) /\ z \in Seq(Entry)
      /\ Len(q) \in Nat /\ Len(msgs) \in Nat /\ Len(z) = Len(q) + Len(msgs)
      BY WorkerTyped DEF Types, SendEffect, WorkerState
<1>2. \A i \in DOMAIN q : i \in DOMAIN z /\ z[i] = q[i]
  <2>1. \A i \in 1..Len(q) : z[i] = q[i]
      BY DEF SendEffect
  <2> HIDE DEF q, z
  <2> QED BY <1>1, <2>1
<1>3. \A i \in 1..Len(msgs) : Len(q) + i \in DOMAIN z /\ z[Len(q) + i].cmd = msgs[i].cmd
  <2>1. \A i \in 1..Len(msgs) : z[Len(q) + i] = [tag |-> nextTag + i - 1, cmd |-> msgs[i].cmd]
      BY DEF SendEffect
  <2> HIDE DEF q, z
  <2>2. \A i \in 1..Len(msgs) : Len(q) + i \in DOMAIN z
      BY <1>1
  <2>3. ASSUME NEW i \in 1..Len(msgs)
        PROVE  z[Len(q) + i].cmd = msgs[i].cmd
    <3>1. z[Len(q) + i] = [tag |-> nextTag + i - 1, cmd |-> msgs[i].cmd]
        BY <2>1
    <3> QED BY <3>1
  <2> QED BY <2>2, <2>3
<1>4. /\ UNCHANGED <<worker, call, conns, active, mem>>
      /\ workers'[worker].phase = workers[worker].phase
      /\ workers'[worker].request = workers[worker].request
      /\ workers'[worker].linked = workers[worker].linked
      BY DEF SendEffect, link, server
<1> QED BY <1>2, <1>3, <1>4 DEF WorkerStays

\* The window reads an answer, and fetches again what it owes.
LEMMA RepliesMirror ==
    ASSUME Structure, inbox' \in Seq(Message), Mirrors, OnReply
    PROVE  Mirrors'
<1> DEFINE m == inbox[1]
           left == {q \in pending : q.tag # m.tag}
<1>1. Types /\ Known /\ AnswersFit /\ Tags
      BY DEF Structure, Fitting
<1>2. inbox # <<>> /\ m \in Message /\ m.is = "reply" /\ inbox' = Tail(inbox) /\ UNCHANGED server
      BY <1>1, Hearing
<1>3. CASE /\ \A q \in pending : q.tag # m.tag
           /\ UNCHANGED <<name, config, baseline, requests, debounced, workers>>
  <2>1. \A part \in Part : ~Touches(pending, m, part) /\ ~Owes(pending, m, part)
                             /\ ~Gives(pending, m, part, Truth(part)) /\ Mirror(part)' = Mirror(part)
      BY <1>2, <1>3 DEF Touches, Owes, Gives, Mirror
  <2>2. WorkerStays
      BY <1>2, <1>3 DEF WorkerStays, server, requests, link, Queue
  <2>3. \A n \in Message, part \in Part : Plays(pending, n, pending', n, part, Truth(part))
      BY <1>3, PlaysSame DEF requests
  <2> QED BY <1>2, <2>1, <2>2, <2>3, FirstRead
<1>4. ASSUME NEW p \in pending, p.tag = m.tag, config' = Mirrored(p, m.r), config \in Config,
             name' = (IF m.r.ok /\ p.kind = "CurrentPreset" THEN m.r.data ELSE name),
             Batch(FollowUp(p, m.r)), SendEffect(left, FollowUp(p, m.r))
      PROVE  Mirrors'
  <2> DEFINE msgs == FollowUp(p, m.r)
  <2>1. msgs \in Seq(Outgoing) /\ p \in Request /\ left \in SUBSET pending
      BY <1>1, <1>4 DEF Batch, Types
  <2>2. \A q \in pending : q.tag = m.tag => q = p
      BY <1>1, <1>4 DEF Tags, PendingOnce
  <2>3. WorkerStays /\ \A i \in 1..Len(msgs) : \E j \in DOMAIN workers'[worker].queue :
                           workers'[worker].queue[j].cmd = msgs[i].cmd
      BY <1>1, <1>2, <1>4, <2>1, SendingStays
  <2>4. ASSUME NEW n \in Message, NEW part \in Part, n.is = "reply" => n.tag < nextTag /\ n.tag # m.tag
        PROVE  Plays(pending, n, pending', n, part, Truth(part))
    <3>1. n.is = "reply" => n.tag < nextTag /\ \A q \in pending : q.tag = n.tag => q \in left
        BY <2>4
    <3> HIDE DEF left, msgs
    <3> QED BY <1>1, <1>4, <2>1, <3>1, SendingPlays DEF msgs
  <2>5. ASSUME NEW part \in Part
        PROVE  /\ Owes(pending, m, part) =>
                    \E i \in DOMAIN workers'[worker].queue : Renews(workers'[worker].queue[i].cmd, part)
               /\ ~Touches(pending, m, part) => Mirror(part)' = Mirror(part)
               /\ Gives(pending, m, part, Truth(part)) => Mirror(part)' = Truth(part)
    <3>1. Owes(pending, m, part) =>
             m.r.ok /\ (p.kind \in Leaving \/ (part # "name" /\ p.kind = "SetEnabled"))
        BY <2>2 DEF Owes
    <3>2. Owes(pending, m, part) => \E i \in 1..Len(msgs) : Renews(msgs[i].cmd, part)
        BY <2>1, <3>1, FollowsUp
    <3>3. /\ ~(m.r.ok /\ part \in Sets(p.kind)) => Mirror(part)' = Mirror(part)
          /\ m.r.ok /\ part \in Sets(p.kind) => Mirror(part)' = SetTo(p, m.r, part)
        BY <1>4, <2>1, MirrorAfter
    <3>4. Touches(pending, m, part) <=> m.r.ok /\ part \in Sets(p.kind)
        BY <1>2, <1>4, <2>2 DEF Touches
    <3>5. Gives(pending, m, part, Truth(part)) =>
             m.r.ok /\ part \in Sets(p.kind) /\ Truth(part) = SetTo(p, m.r, part)
        BY <1>2, <2>2 DEF Gives
    <3>6. Owes(pending, m, part) =>
             \E i \in DOMAIN workers'[worker].queue : Renews(workers'[worker].queue[i].cmd, part)
        BY <2>3, <3>2
    <3> QED BY <3>3, <3>4, <3>5, <3>6
  <2> HIDE DEF msgs, left
  <2> QED BY <1>2, <2>3, <2>4, <2>5, FirstRead
<1> HIDE DEF left
<1> QED BY <1>1, <1>3, <1>4, Hearing DEF left

\* The answer the listener has becomes the last message of the inbox.
LEMMA LateArrives ==
    ASSUME Structure, Mirrors, Tracking, Late,
           UNCHANGED <<pending, name, config, active, mem, worker, conns>>, call' = Absent,
           workers'[worker].queue = Queue(worker), workers'[worker].request = Absent,
           inbox' = Append(inbox, LateMessage)
    PROVE  Mirrors'
<1> SUFFICES ASSUME NEW part \in Part
             PROVE  /\ conns' # <<>> /\ worker' = Head(conns')
                    /\ Owed(part)' \/ Shown(part)'
    BY DEF Mirrors, Part
<1>1. conns # <<>> /\ worker = Head(conns) /\ (Owed(part) \/ Shown(part))
      BY DEF Mirrors
<1> DEFINE x == Truth(part)
           m == LateMessage
           n == Len(inbox) + 1
<1>2. /\ inbox \in Seq(Message) /\ m \in Message
      BY LateIs DEF Structure, Types
<1>3. /\ n \in DOMAIN inbox' /\ inbox'[n] = m
      /\ \A i \in DOMAIN inbox : i \in DOMAIN inbox' /\ inbox'[i] = inbox[i] /\ i < n
      /\ \A i \in DOMAIN inbox' : i \in DOMAIN inbox \/ i = n
      /\ \A i \in DOMAIN inbox' : ~(i > n)
      BY <1>2
<1>4. Truth(part)' = x /\ Mirror(part)' = Mirror(part) /\ ~Late' /\ ~Asks(worker)'
      BY DEF Truth, Mirror, Late, CallOf, Asks
<1>5. \A i \in DOMAIN inbox' : Owes(pending, inbox'[i], part) => Owed(part)'
      BY DEF Owed, Owes
<1>6. Shows(pending, inbox', Mirror(part), part, x) => Shown(part)'
      BY <1>4 DEF Shown, Shows, Gives, Touches
<1>7. CASE Owed(part)
  <2>1. CASE \E i \in DOMAIN Queue(worker) : Renews(Queue(worker)[i].cmd, part)
      BY <1>1, <2>1 DEF Owed, Queue, Renews
  <2>2. CASE Owes(pending, m, part)
      BY <1>1, <1>3, <1>5, <2>2
  <2>3. ASSUME NEW i \in DOMAIN inbox, Owes(pending, inbox[i], part)
        PROVE  Owed(part)'
      BY <1>3, <1>5, <2>3
  <2> QED BY <1>1, <1>7, <2>1, <2>2, <2>3 DEF Owed
<1> HIDE DEF x, m, n
<1>8. CASE Shown(part)
  <2>1. CASE Gives(pending, m, part, x)
      BY <1>1, <1>3, <1>6, <2>1 DEF Shows
  <2>2. CASE ~Touches(pending, m, part) /\ Shows(pending, inbox, Mirror(part), part, x)
    <3>1. CASE (\A i \in DOMAIN inbox : ~Touches(pending, inbox[i], part)) /\ Mirror(part) = x
      <4>1. \A i \in DOMAIN inbox' : ~Touches(pending, inbox'[i], part)
          BY <1>3, <2>2, <3>1
      <4> QED BY <1>1, <1>6, <3>1, <4>1 DEF Shows
    <3>2. ASSUME NEW i \in DOMAIN inbox, Gives(pending, inbox[i], part, x),
                 \A j \in DOMAIN inbox : j > i => ~Touches(pending, inbox[j], part)
          PROVE  Shown(part)'
      <4>1. i \in DOMAIN inbox' /\ Gives(pending, inbox'[i], part, x)
          BY <1>3, <3>2
      <4>2. \A j \in DOMAIN inbox' : j > i => ~Touches(pending, inbox'[j], part)
          BY <1>3, <2>2, <3>2
      <4> QED BY <1>6, <4>1, <4>2 DEF Shows
    <3> QED BY <1>1, <2>2, <3>1, <3>2 DEF Shows
  <2> QED BY <1>8, <2>1, <2>2 DEF Shown, m, x
<1> QED BY <1>1, <1>7, <1>8

\* The listener hands its answer over.
LEMMA ListenerMirrors ==
    ASSUME Structure, OldWorkersDone, Mirrors, ListenerReplies
    PROVE  Mirrors'
<1> SUFFICES ASSUME Tracking' PROVE Mirrors'
    BY DEF Mirrors
<1>1. Types /\ Phases /\ Listener
      BY DEF Structure
<1>2. UNCHANGED <<pending, name, config, active, mem, worker>>
      BY DEF ListenerReplies, ListenerStep, mirror, requests, link
<1>3. PICK w \in Worker : w = call.worker
      BY <1>1, Replying
<1>4. /\ call # Absent /\ call.answer # Absent /\ call' = Absent /\ conns # <<>> /\ w = Head(conns)
      BY <1>1, <1>3, Replying
<1>5. InRoundTrip(w) => w = worker
      BY DEF OldWorkersDone, InRoundTrip
<1>6. w = worker => Late
      BY <1>3, <1>4 DEF Late, CallOf
<1>7. CASE /\ workers[w].phase = "await"
           /\ Fields(w, "idle", Queue(w), Absent, workers[w].wire, workers[w].linked)
           /\ inbox' = Append(inbox, Reply(workers[w].request.tag, call.answer))
           /\ UNCHANGED conns
  <2>1. w = worker /\ LateMessage = Reply(workers[w].request.tag, call.answer)
      BY <1>5, <1>7 DEF InRoundTrip, LateMessage
  <2>2. Tracking
      BY <1>2, <1>7, <2>1 DEF Fields, Tracking
  <2> QED BY <1>2, <1>4, <1>6, <1>7, <2>1, <2>2, LateArrives DEF Fields
<1>8. CASE /\ workers[w].phase = "handshake" /\ call.answer.ok
           /\ Fields(w, "idle", Queue(w), workers[w].request, workers[w].wire, workers[w].linked)
           /\ inbox' = Append(inbox, Connected(call.answer.data))
           /\ UNCHANGED conns
  <2>1. w = worker /\ LateMessage = Connected(call.answer.data) /\ workers[w].request = Absent
      BY <1>1, <1>5, <1>8 DEF InRoundTrip, LateMessage, Phases, Asks
  <2>2. Tracking
      BY <1>2, <1>6, <1>8, <2>1 DEF Fields, Tracking
  <2> QED BY <1>2, <1>4, <1>6, <1>8, <2>1, <2>2, LateArrives DEF Fields
<1>9. CASE /\ workers[w].phase = "handshake"
           /\ Fields(w, "closed", Queue(w), workers[w].request, workers[w].wire, workers[w].linked)
  <2>1. w = worker
      BY <1>5, <1>9 DEF InRoundTrip
  <2> QED BY <1>2, <1>9, <2>1 DEF Fields, Tracking
<1>10. CASE ~InRoundTrip(w) /\ UNCHANGED workers
  <2>1. workers[worker].linked /\ workers[worker].phase \in {"idle", "await"}
      BY <1>2, <1>4, <1>10 DEF Tracking, Late, CallOf
  <2>2. w = worker
      BY <1>3, <1>4, <2>1 DEF Mirrors, Tracking
  <2>3. workers[w].phase = "idle" /\ CallOf(w)
      BY <1>3, <1>4, <1>10, <2>1, <2>2 DEF InRoundTrip, CallOf
  <2> QED BY <1>1, <2>3 DEF Phases
<1> QED BY <1>1, <1>3, <1>7, <1>8, <1>9, <1>10, Replying

\* The request under which an answer will be heard, and what it tells.
LEMMA KindOfCommand ==
    ASSUME NEW p \in Request, NEW cmd \in Command, Fits(p.kind, p.value, cmd)
    PROVE  /\ cmd.op = "edit" =>
                \/ cmd.cell = "param" /\ p.kind = "SetParam" /\ p.value = cmd.value
                \/ cmd.cell = "flag" /\ p.kind = "SetEnabled" /\ p.value = cmd.value
                \/ cmd.cell = "chain" /\ p.kind = "Other"
           /\ cmd.op = "get_config" => p.kind \in Fetching
           /\ cmd.op = "current_preset" => p.kind = "CurrentPreset"
           /\ cmd.op \in {"set_preset", "reload"} => p.kind \in Leaving
           /\ cmd.op = "save_preset" => p.kind = "Save"
           /\ cmd.op # "handshake"
<1>1. p.kind \in Kind
      BY DEF Request
<1> QED BY <1>1 DEF Fits, Kind, Leaving, Fetching, Edit, Plain

\* The parts each kind of request sets.
LEMMA SetsOfKind ==
    /\ Sets("SetParam") = {"param"} /\ Sets("SetEnabled") = {"flag"}
    /\ \A k \in Fetching : Sets(k) = Cell
    /\ Sets("CurrentPreset") = {"name"}
    /\ \A k \in Leaving \cup {"Other", "Save"} : Sets(k) = {}
BY DEF Sets, Fetching, Leaving

\* The daemon serves a command: its answer gives the part that changed, or owes it.
LEMMA DaemonMirrors ==
    ASSUME Structure, OldWorkersDone, ChannelSynchronous, InFlight, Mirrors, DaemonServes
    PROVE  Mirrors'
<1> SUFFICES ASSUME Tracking', NEW part \in Part
             PROVE  /\ conns' # <<>> /\ worker' = Head(conns')
                    /\ Owed(part)' \/ Shown(part)'
    BY DEF Mirrors, Part
<1> DEFINE cmd == channel[1].cmd
           W == workers[worker]
<1>1. Types /\ Phases /\ Listener /\ Tags /\ Fitting /\ ChainsFetched
      BY DEF Structure
<1>2. PICK r \in Answer : /\ Answering(cmd, r)
                          /\ call' = IF channel[1].waits THEN [call EXCEPT !.answer = r] ELSE call
      BY <1>1, Serving
<1>3. /\ channel # <<>> /\ cmd \in Command
      /\ UNCHANGED <<window, conns, alive, workers>>
      BY <1>1, Serving
<1>4. UNCHANGED <<pending, name, config, inbox, worker, conns, workers>>
      BY <1>3 DEF window, mirror, requests, link
\* One command is in the channel, and the listener waits for its answer.
<1>5. /\ call # Absent /\ call.answer = Absent /\ ~Late
      /\ InRoundTrip(call.worker) => cmd = Sent(call.worker)
      /\ call' # Absent /\ call'.worker = call.worker /\ call'.answer = r
  <2>1. channel[1].waits /\ 1 \in DOMAIN channel
      BY <1>1, <1>3 DEF ChannelSynchronous, Types
  <2>2. /\ call # Absent /\ call.answer = Absent
        /\ InRoundTrip(call.worker) => cmd = Sent(call.worker)
      BY <1>1, <2>1 DEF Listener
  <2>3. call \in Call
      BY <1>1, <2>2 DEF Types
  <2>4. call' \in Call
      BY <1>2, <2>1, <2>3 DEF Call
  <2>5. call' # Absent /\ call'.worker = call.worker /\ call'.answer = r
      BY <1>2, <2>1, <2>3, <2>4, AbsentAssumption DEF Call
  <2> QED BY <2>2, <2>5 DEF Late
\* The answer is for the worker in use.
<1>6. call.worker = worker /\ conns # <<>> /\ worker = Head(conns)
  <2>1. call.worker = Head(conns) /\ conns # <<>>
      BY <1>1, <1>5 DEF Listener
  <2>2. CASE Tracking
      BY <2>1, <2>2 DEF Mirrors
  <2>3. CASE ~Tracking
      BY <1>4, <1>5, <2>1, <2>3 DEF Tracking, Late, CallOf
  <2> QED BY <2>1, <2>2, <2>3
<1>7. worker \in Worker /\ CallOf(worker) /\ W.phase \in {"handshake", "await"} /\ W.linked
      BY <1>1, <1>4, <1>5, <1>6 DEF Types, CallOf, Phases, Tracking
<1>8. cmd = Sent(worker)
      BY <1>5, <1>6, <1>7 DEF InRoundTrip
<1>9. r # Absent
      BY AbsentAssumption
<1>10. Late' /\ (Asks(worker)' <=> Asks(worker))
      BY <1>4, <1>5, <1>6, <1>9 DEF Late, CallOf, Asks
<1> HIDE DEF cmd, W
<1>11. CASE W.phase = "handshake"
  <2>1. cmd.op = "handshake"
      BY <1>8, <1>11 DEF Sent, Plain, W
  <2>2. r.ok /\ r.data = [name |-> active, config |-> mem] /\ UNCHANGED <<active, mem>>
      BY <1>2, <2>1 DEF Answering, Reading
  <2>3. LateMessage' = Connected([name |-> active, config |-> mem])
      BY <1>4, <1>5, <1>11, <2>2 DEF LateMessage, W
  <2>4. LateMessage'.is = "connected" /\ LateMessage'.data.name = active
        /\ LateMessage'.data.config = mem
      BY <2>3 DEF Connected
  <2>5. Gives(pending, LateMessage, part, Truth(part))'
      BY <2>2, <2>4 DEF Gives, Truth
  <2> QED BY <1>4, <1>6, <1>10, <2>5 DEF Shown
<1>12. CASE W.phase = "await"
  <2> DEFINE t == W.request.tag
             m == Reply(t, r)
  <2>1. Asks(worker) /\ cmd = W.request.cmd /\ Tracking
      BY <1>1, <1>7, <1>8, <1>12 DEF Phases, Sent, Tracking, W
  <2>2. PICK p \in pending : p.tag = t
      BY <1>7, <1>12, <2>1 DEF InFlight, HasStream, W
  <2>3. p \in Request /\ \A q \in pending : q.tag = t => q = p
      BY <1>1, <2>2 DEF Types, Tags, PendingOnce
  <2>4. Fits(p.kind, p.value, cmd)
      BY <1>1, <1>7, <2>1, <2>2 DEF Fitting, RequestsFit, W
  <2>5. LateMessage' = m
      BY <1>4, <1>5, <1>12 DEF LateMessage, W
  <2>6. m.is = "reply" /\ m.r = r /\ m.tag = t
      BY DEF Reply
  <2>7. /\ Touches(pending, m, part) <=> r.ok /\ part \in Sets(p.kind)
        /\ r.ok /\ part \in Sets(p.kind) => Gives(pending, m, part, SetTo(p, r, part))
        /\ Owes(pending, m, part) <=>
             r.ok /\ (p.kind \in Leaving \/ (part # "name" /\ p.kind = "SetEnabled"))
      BY <2>2, <2>3, <2>6 DEF Touches, Gives, Owes
  <2> HIDE DEF m, t
  <2>8. r.ok /\ part \in Sets(p.kind) /\ Truth(part)' = SetTo(p, r, part) => Shown(part)'
    <3>1. Gives(pending, m, part, SetTo(p, r, part)) /\ Truth(part)' = SetTo(p, r, part)
            => Gives(pending, LateMessage, part, Truth(part))'
        BY <1>4, <2>5 DEF Gives
    <3> QED BY <1>10, <2>7, <3>1 DEF Shown
  <2>9. Owes(pending, m, part) => Owed(part)'
    <3>1. Owes(pending, m, part) => Owes(pending, LateMessage, part)'
        BY <1>4, <2>5 DEF Owes
    <3> QED BY <1>10, <2>1, <3>1 DEF Owed
\* What was owed or shown before and is left alone by the command and its answer.
  <2>10. ASSUME ~(r.ok /\ part \in Sets(p.kind)), Truth(part)' = Truth(part), ~Renews(cmd, part)
         PROVE  Owed(part)' \/ Shown(part)'
    <3>1. Owed(part) \/ Shown(part)
        BY <2>1 DEF Mirrors
    <3>2. Owed(part) => \/ \E i \in DOMAIN Queue(worker) : Renews(Queue(worker)[i].cmd, part)
                        \/ \E i \in DOMAIN inbox : Owes(pending, inbox[i], part)
        BY <1>5, <2>1, <2>10 DEF Owed, W
    <3>3. (\E i \in DOMAIN Queue(worker) : Renews(Queue(worker)[i].cmd, part)) => Owed(part)'
        BY <1>4 DEF Owed, Queue, Renews
    <3>4. (\E i \in DOMAIN inbox : Owes(pending, inbox[i], part)) => Owed(part)'
        BY <1>4 DEF Owed, Owes
    <3>5. Shown(part) => Shows(pending, inbox, Mirror(part), part, Truth(part))
        BY <1>5 DEF Shown
    <3>6. Shows(pending, inbox, Mirror(part), part, Truth(part))
            => Shows(pending, inbox, Mirror(part), part, Truth(part))'
      <4>1. Mirror(part)' = Mirror(part)
          BY <1>4 DEF Mirror
      <4> QED BY <1>4, <2>10, <4>1 DEF Shows, Gives, Touches
    <3>7. ~Touches(pending, LateMessage, part)'
      <4>1. ~Touches(pending, m, part)
          BY <2>7, <2>10
      <4> QED BY <1>4, <2>5, <4>1 DEF Touches
    <3> QED BY <3>1, <3>2, <3>3, <3>4, <3>5, <3>6, <3>7 DEF Shown
  <2>11. Owed(part)' \/ Shown(part)'
    <3>0. "param" \in Cell /\ "flag" \in Cell /\ "chain" \in Cell /\ "name" \notin Cell
          /\ Part = Cell \cup {"name"} /\ Cell = {"param", "flag", "chain"}
        BY DEF Cell, Part
    <3>1. CASE ~r.ok
      <4>1. UNCHANGED <<active, mem>> /\ cmd.op \notin Reading
          BY <1>2, <3>1 DEF Answering
      <4>2. ~Renews(cmd, part)
          BY <4>1 DEF Renews, Reading
      <4> QED BY <2>10, <3>1, <4>1, <4>2 DEF Truth
    <3>2. CASE r.ok /\ cmd.op = "get_config"
      <4>1. UNCHANGED <<active, mem>> /\ r.data = mem
          BY <1>2, <3>2 DEF Answering, Reading
      <4>2. p.kind \in Fetching /\ Sets(p.kind) = Cell
          BY <1>3, <2>3, <2>4, <3>2, KindOfCommand, SetsOfKind
      <4>3. CASE part \in Cell
        <5>1. SetTo(p, r, part) = mem[part]
            BY <4>1, <4>2 DEF SetTo, Fetching
        <5>2. Truth(part)' = mem[part]
            BY <3>0, <4>1, <4>3 DEF Truth
        <5> QED BY <2>8, <3>2, <4>2, <4>3, <5>1, <5>2
      <4>4. CASE part = "name"
        <5>1. ~Renews(cmd, part)
            BY <3>2, <4>4 DEF Renews
        <5> QED BY <2>10, <3>0, <4>1, <4>2, <4>4, <5>1 DEF Truth
      <4> QED BY <3>0, <4>3, <4>4
    <3>3. CASE r.ok /\ cmd.op = "current_preset"
      <4>1. UNCHANGED <<active, mem>> /\ r.data = active
          BY <1>2, <3>3 DEF Answering, Reading
      <4>2. p.kind = "CurrentPreset" /\ Sets(p.kind) = {"name"}
          BY <1>3, <2>3, <2>4, <3>3, KindOfCommand, SetsOfKind
      <4>3. CASE part = "name"
        <5>1. SetTo(p, r, part) = active
            BY <4>1, <4>2 DEF SetTo, Fetching
        <5>2. Truth(part)' = active
            BY <4>1, <4>3 DEF Truth
        <5> QED BY <2>8, <3>3, <4>2, <4>3, <5>1, <5>2
      <4>4. CASE part # "name"
        <5>1. ~Renews(cmd, part)
            BY <3>3, <4>4 DEF Renews
        <5> QED BY <2>10, <4>1, <4>2, <4>4, <5>1 DEF Truth
      <4> QED BY <4>3, <4>4
    <3>4. CASE r.ok /\ cmd.op = "edit"
      <4>1. mem' = [mem EXCEPT ![cmd.cell] = cmd.value] /\ active' = active
          BY <1>2, <3>4 DEF Answering, Reading
      <4>2. /\ cmd.cell \in Cell
            /\ \/ cmd.cell = "param" /\ p.kind = "SetParam" /\ p.value = cmd.value
               \/ cmd.cell = "flag" /\ p.kind = "SetEnabled" /\ p.value = cmd.value
               \/ cmd.cell = "chain" /\ p.kind = "Other"
          BY <1>3, <2>3, <2>4, <3>0, <3>4, KindOfCommand
      <4>3. /\ part # cmd.cell => Truth(part)' = Truth(part)
            /\ part = cmd.cell => Truth(part)' = cmd.value
        <5>1. mem \in Config
            BY <1>1 DEF Types
        <5> QED BY <3>0, <4>1, <4>2, <5>1 DEF Truth, Config
      <4>4. ~Renews(cmd, part)
          BY <3>4 DEF Renews
      <4>5. CASE part # cmd.cell
        <5>1. part \notin Sets(p.kind)
            BY <4>2, <4>5, SetsOfKind
        <5> QED BY <2>10, <4>3, <4>4, <4>5, <5>1
      <4>6. CASE part = cmd.cell /\ cmd.cell # "chain"
        <5>1. part \in Sets(p.kind)
            BY <4>2, <4>6, SetsOfKind
        <5>2. SetTo(p, r, part) = cmd.value
            BY <4>2, <4>6 DEF SetTo, Fetching
        <5> QED BY <2>8, <3>4, <4>3, <4>6, <5>1, <5>2
      <4>7. CASE part = cmd.cell /\ cmd.cell = "chain"
        <5>1. 1 \in DOMAIN Queue(worker) /\ Queue(worker)[1].cmd = Plain("get_config")
            BY <1>1, <1>7, <2>1, <3>4, <4>7 DEF ChainsFetched, W
        <5>2. Renews(Queue(worker)[1].cmd, part)
            BY <3>0, <4>7, <5>1 DEF Renews, Plain
        <5> QED BY <1>4, <5>1, <5>2 DEF Owed, Queue, Renews
      <4> QED BY <4>5, <4>6, <4>7
    <3>5. CASE r.ok /\ cmd.op \in {"set_preset", "reload"}
      <4>1. p.kind \in Leaving
          BY <1>3, <2>3, <2>4, <3>5, KindOfCommand
      <4> QED BY <2>7, <2>9, <3>5, <4>1
    <3>6. CASE r.ok /\ cmd.op = "save_preset"
      <4>1. UNCHANGED <<active, mem>>
          BY <1>2, <3>6 DEF Answering, Reading
      <4>2. p.kind = "Save" /\ Sets(p.kind) = {}
          BY <1>3, <2>3, <2>4, <3>6, KindOfCommand, SetsOfKind
      <4>3. ~Renews(cmd, part)
          BY <3>6 DEF Renews
      <4> QED BY <2>10, <4>1, <4>2, <4>3 DEF Truth
    <3>7. cmd.op \in {"edit", "set_preset", "handshake", "current_preset", "get_config", "save_preset", "reload"}
        BY <1>3 DEF Command, Reading
    <3>8. cmd.op # "handshake"
        BY <1>3, <2>3, <2>4, KindOfCommand
    <3> QED BY <3>1, <3>2, <3>3, <3>4, <3>5, <3>6, <3>7, <3>8
  <2> QED BY <1>4, <1>6, <2>11
<1> QED BY <1>7, <1>11, <1>12 DEF W

\* Nothing changes for the window and its worker, and no answer is in the listener's hands.
LEMMA NotLate ==
    ASSUME Mirrors, ~Late, ~Late',
           UNCHANGED <<pending, inbox, name, config, active, mem, worker, conns>>,
           workers'[worker].phase = workers[worker].phase,
           workers'[worker].request = workers[worker].request,
           workers'[worker].linked = workers[worker].linked,
           workers'[worker].queue = workers[worker].queue
    PROVE  Mirrors'
<1> SUFFICES ASSUME Tracking', NEW part \in Part
             PROVE  /\ conns' # <<>> /\ worker' = Head(conns')
                    /\ Owed(part)' \/ Shown(part)'
    BY DEF Mirrors, Part
<1>1. Tracking
      BY DEF Tracking
<1>2. conns # <<>> /\ worker = Head(conns) /\ (Owed(part) \/ Shown(part))
      BY <1>1 DEF Mirrors
<1>3. Mirror(part)' = Mirror(part) /\ Truth(part)' = Truth(part)
      BY DEF Mirror, Truth
<1>4. Shown(part) => Shown(part)'
      BY <1>3 DEF Shown, Shows, Gives, Touches
<1>5. (Asks(worker)' <=> Asks(worker)) /\ Queue(worker)' = Queue(worker)
      BY DEF Asks, Queue
<1>6. Owed(part) => Owed(part)'
      BY <1>5 DEF Owed, Owes, Renews
<1> QED BY <1>2, <1>4, <1>6

\* The worker in use begins a round trip.
LEMMA AskingMirrors ==
    ASSUME Structure, OldWorkersDone, Mirrors, NEW w \in Worker, WorkerSends(w)
    PROVE  Mirrors'
<1> SUFFICES ASSUME Tracking', NEW part \in Part
             PROVE  /\ conns' # <<>> /\ worker' = Head(conns')
                    /\ Owed(part)' \/ Shown(part)'
    BY DEF Mirrors, Part
<1>1. Types /\ Phases
      BY DEF Structure
<1>2. /\ workers[w].phase = "idle" /\ w = worker
      /\ UNCHANGED <<pending, inbox, name, config, active, mem, worker, call, conns>>
      BY DEF WorkerSends, WorkerStep, mirror, requests, link, OldWorkersDone
<1>3. /\ Queue(w) # <<>> /\ Queue(w)' = Tail(Queue(w)) /\ workers'[w].request = Head(Queue(w))
      /\ workers'[w].linked = workers[w].linked /\ Head(Queue(w)) \in Entry
      /\ \A v \in Worker \ {w} : workers'[v] = workers[v]
      BY <1>1, Asking DEF Fields, Queue
<1>4. /\ 1 \in DOMAIN Queue(w) /\ Head(Queue(w)) = Queue(w)[1]
      /\ \A i \in DOMAIN Queue(w)' : i + 1 \in DOMAIN Queue(w) /\ Queue(w)'[i] = Queue(w)[i + 1]
      /\ \A i \in DOMAIN Queue(w) : i # 1 => i - 1 \in DOMAIN Queue(w)' /\ i = (i - 1) + 1
      BY <1>1, <1>3, Popping
<1>5. ~Asks(w) /\ ~Late /\ ~Late' /\ Asks(w)'
      BY <1>1, <1>2, <1>3, AbsentAssumption DEF Phases, Asks, Late, CallOf
<1>6. Tracking /\ conns # <<>> /\ worker = Head(conns) /\ (Owed(part) \/ Shown(part))
      BY <1>2, <1>3 DEF Tracking, Mirrors
<1>7. Mirror(part)' = Mirror(part) /\ Truth(part)' = Truth(part)
      BY <1>2 DEF Mirror, Truth
<1>8. Shown(part) => Shown(part)'
      BY <1>2, <1>5, <1>7 DEF Shown, Shows, Gives, Touches
<1>9. ASSUME NEW i \in DOMAIN Queue(w), Renews(Queue(w)[i].cmd, part)
      PROVE  Owed(part)'
  <2>1. CASE i = 1
    <3>1. Renews(workers'[w].request.cmd, part)
        BY <1>3, <1>4, <1>9, <2>1
    <3> QED BY <1>2, <1>5, <3>1 DEF Owed, Renews
  <2>2. CASE i # 1
    <3>1. i - 1 \in DOMAIN Queue(w)' /\ Queue(w)'[i - 1] = Queue(w)[i]
        BY <1>4, <2>2
    <3>2. \E k \in DOMAIN Queue(w)' : Renews(Queue(w)'[k].cmd, part)
        BY <1>9, <3>1
    <3> QED BY <1>2, <3>2 DEF Owed, Renews
  <2> QED BY <2>1, <2>2
<1>10. ASSUME NEW i \in DOMAIN inbox, Owes(pending, inbox[i], part)
       PROVE  Owed(part)'
      BY <1>2, <1>10 DEF Owed, Owes
<1> QED BY <1>2, <1>5, <1>6, <1>8, <1>9, <1>10 DEF Owed

\* The window adopts the snapshot of the worker in use.
LEMMA SnapshotMirrors ==
    ASSUME Structure, inbox' \in Seq(Message), Mirrors, OnConnected
    PROVE  Mirrors'
<1>1. Types
      BY DEF Structure
<1>2. /\ inbox # <<>> /\ inbox[1].is = "connected" /\ NewGeneration
      /\ name' = inbox[1].data.name /\ config' = inbox[1].data.config
      /\ UNCHANGED <<requests, workers, server>>
      BY <1>1, InboxHead DEF OnConnected, Receive
<1>3. WorkerStays
      BY <1>2 DEF WorkerStays, server, requests, link, Queue
<1>4. \A n \in Message, part \in Part : Plays(pending, n, pending', n, part, Truth(part))
      BY <1>2, PlaysSame DEF requests
<1>5. \A part \in Part : /\ ~Owes(pending, inbox[1], part)
                         /\ Touches(pending, inbox[1], part)
      BY <1>2 DEF Owes, Touches
<1>6. \A part \in Part : Gives(pending, inbox[1], part, Truth(part)) => Mirror(part)' = Truth(part)
      BY <1>2 DEF Gives, Mirror
<1> QED BY <1>2, <1>3, <1>4, <1>5, <1>6, FirstRead

\* A step the window has no part in and the worker in use neither.
LEMMA OthersMirror ==
    ASSUME Structure, Mirrors, UNCHANGED <<pending, name, config, worker, call, conns, active, mem>>,
           workers'[worker] = workers[worker],
           \/ inbox' = inbox
           \/ \E n \in Message : /\ n.is # "connected" /\ (n.is = "reply" => ~n.r.ok)
                                 /\ inbox' = Append(inbox, n)
    PROVE  Mirrors'
<1>1. WorkerStays
      BY DEF WorkerStays, Queue
<1>2. \A m \in Message, part \in Part : Plays(pending, m, pending', m, part, Truth(part))
      BY PlaysSame
<1> QED BY <1>1, <1>2, NothingRead

\* The window sends, and does not look at the inbox.
LEMMA ActingMirrors ==
    ASSUME Structure, Mirrors, WindowActs
    PROVE  Mirrors'
<1>1. Types /\ Known
      BY DEF Structure
<1>2. /\ Sending \/ UNCHANGED <<requests, workers>>
      /\ UNCHANGED <<mirror, inbox, server>>
      BY <1>1, WindowActing
<1>3. CASE UNCHANGED <<requests, workers>>
      BY <1>2, <1>3, OthersMirror DEF requests, link, mirror, server
<1>4. ASSUME NEW msgs, Batch(msgs), SendEffect(pending, msgs)
      PROVE  Mirrors'
  <2>1. msgs \in Seq(Outgoing)
      BY <1>4 DEF Batch
  <2>2. WorkerStays
      BY <1>1, <1>2, <1>4, <2>1, SendingStays
  <2>3. \A m \in Message, part \in Part : (m.is = "reply" => m.tag < nextTag) =>
             Plays(pending, m, pending', m, part, Truth(part))
      BY <1>1, <1>4, <2>1, SendingPlays
  <2> QED BY <1>2, <2>2, <2>3, NothingRead DEF mirror
<1> QED BY <1>2, <1>3, <1>4 DEF Sending

\* A worker that was replaced has no stream and no command of its own under way.
LEMMA InUse ==
    ASSUME OldWorkersDone, NEW w \in Worker, workers[w].phase \notin {"closed", "gone"}
    PROVE  w = worker
BY DEF OldWorkersDone

\* Every step keeps each part of the mirror owed or shown.
LEMMA MirrorsKept ==
    ASSUME Structure, Structure', Mirroring, ~stalled', [Next]_vars
    PROVE  Mirrors'
<1> SUFFICES ASSUME Tracking' PROVE Mirrors'
    BY DEF Mirrors
<1>1. /\ Types /\ Phases /\ Listener /\ inbox' \in Seq(Message)
      /\ OldWorkersDone /\ EndIsOfCurrent /\ ChannelSynchronous /\ InFlight /\ Mirrors
      BY DEF Structure, Types, Mirroring
<1>2. CASE WindowActs
      BY <1>1, <1>2, ActingMirrors
<1>3. CASE TickFires \/ PressRetry
  <2>1. Tick \in Message /\ Tick.is = "tick" /\ Retry \in Message /\ Retry.is = "retry"
      BY Made DEF Tick, Retry
  <2>2. \E n \in Message : /\ n.is # "connected" /\ (n.is = "reply" => ~n.r.ok)
                           /\ inbox' = Append(inbox, n)
      BY <1>3, <2>1 DEF TickFires, PressRetry
  <2> QED BY <1>1, <1>3, <2>2, OthersMirror
          DEF TickFires, PressRetry, Event, mirror, requests, link, server
<1>4. CASE OnConnected
      BY <1>1, <1>4, SnapshotMirrors
<1>5. CASE OnDisconnected
  <2>1. \E i \in DOMAIN inbox : inbox[i].is = "disconnected"
      BY <1>1, <1>5, InboxHead DEF OnDisconnected, Receive
  <2>2. workers[worker].phase = "closed" /\ UNCHANGED <<worker, workers>>
      BY <1>1, <1>5, <2>1 DEF EndIsOfCurrent, OnDisconnected, link
  <2> QED BY <2>2 DEF Tracking
<1>6. CASE OnReply
      BY <1>1, <1>6, RepliesMirror
<1>7. ASSUME inbox # <<>>, Reconnect
      PROVE  Mirrors'
  <2>1. workers'[worker'] = Spawned
      BY <1>1, <1>7, Reconnecting
  <2>2. ~Spawned.linked
      BY DEF Spawned, Gone
  <2> QED BY <2>1, <2>2 DEF Tracking
<1>8. CASE OnRetry
      BY <1>7, <1>8 DEF OnRetry, Receive
<1>9. CASE OnTick
  <2>1. inbox # <<>> /\ inbox[1].is = "tick" /\ UNCHANGED server
      BY <1>1, <1>9, InboxHead DEF OnTick, Receive
  <2>2. CASE inbox' = Tail(inbox) /\ UNCHANGED <<mirror, requests, workers>>
    <3>1. WorkerStays
        BY <2>1, <2>2 DEF WorkerStays, server, requests, link, Queue
    <3>2. \A n \in Message, part \in Part : Plays(pending, n, pending', n, part, Truth(part))
        BY <2>2, PlaysSame DEF requests
    <3>3. \A part \in Part : /\ ~Owes(pending, inbox[1], part)
                             /\ ~Gives(pending, inbox[1], part, Truth(part))
                             /\ Mirror(part)' = Mirror(part)
        BY <2>1, <2>2 DEF Owes, Gives, Mirror, mirror
    <3> QED BY <1>1, <2>1, <2>2, <3>1, <3>2, <3>3, FirstRead
  <2> QED BY <1>7, <1>9, <2>1, <2>2 DEF OnTick
\* The steps of workers.
<1>10. ASSUME NEW w \in Worker, WorkerRuns(w) \/ WorkerTimesOut(w)
       PROVE  UNCHANGED <<pending, name, config, worker, call, active, mem>>
       BY <1>10 DEF WorkerRuns, WorkerTimesOut, WorkerConnects, WorkerSends, WorkerFails, GivesUp,
                    WorkerRefuses, WorkerEnds, WorkerStep, mirror, requests, link
<1>11. ASSUME NEW w \in Worker, WorkerConnects(w)
       PROVE  Mirrors'
  <2>1. workers[w].phase = "new" /\ w = worker /\ ~CallOf(w)
      BY <1>1, <1>11, InUse DEF WorkerConnects, Phases
  <2>2. workers'[w].phase \in {"handshake", "closed"}
      BY <1>1, <1>11, Connecting DEF Fields
  <2>3. UNCHANGED <<worker, call>>
      BY <1>10, <1>11 DEF WorkerRuns
  <2> QED BY <2>1, <2>2, <2>3 DEF Tracking, Late, CallOf
<1>12. ASSUME NEW w \in Worker, WorkerSends(w)
       PROVE  Mirrors'
       BY <1>1, <1>12, AskingMirrors
<1>13. ASSUME NEW w \in Worker, WorkerFails(w) \/ WorkerTimesOut(w)
       PROVE  Mirrors'
  <2>1. GivesUp(w)
      BY <1>13 DEF WorkerFails, WorkerTimesOut
  <2>2. w = worker /\ workers'[w].phase = "closed"
      BY <1>1, <2>1, GivingUp, InUse DEF InRoundTrip, Fields
  <2>3. UNCHANGED worker
      BY <1>10, <1>13 DEF WorkerRuns
  <2> QED BY <2>2, <2>3 DEF Tracking
<1>14. ASSUME NEW w \in Worker, WorkerRefuses(w)
       PROVE  Mirrors'
  <2>1. /\ UNCHANGED <<pending, name, config, worker, call, active, mem>>
        /\ UNCHANGED conns
      BY <1>10, <1>14 DEF WorkerRuns, WorkerRefuses
  <2>2. /\ workers'[w].phase = "closed" /\ (w # worker => workers'[worker] = workers[worker])
        /\ Head(Queue(w)) \in Entry /\ inbox' = Append(inbox, Reply(Head(Queue(w)).tag, Refused))
      BY <1>1, <1>14, Refusing DEF Fields, Types
  <2>3. CASE w = worker
      BY <2>1, <2>2, <2>3 DEF Tracking
  <2>4. CASE w # worker
    <3> DEFINE n == Reply(Head(Queue(w)).tag, Refused)
    <3>1. n \in Message
        BY <2>2, Made DEF Entry
    <3>2. n.is = "reply" /\ ~n.r.ok
        BY DEF Reply, Refused
    <3>3. inbox' = Append(inbox, n)
        BY <2>2
    <3> HIDE DEF n
    <3> QED BY <1>1, <2>1, <2>2, <2>4, <3>1, <3>2, <3>3, OthersMirror
  <2> QED BY <2>3, <2>4
<1>15. ASSUME NEW w \in Worker, WorkerEnds(w)
       PROVE  Mirrors'
  <2>1. /\ UNCHANGED <<pending, name, config, worker, call, active, mem>>
        /\ UNCHANGED <<inbox, conns>> /\ w # worker
      BY <1>10, <1>15 DEF WorkerRuns, WorkerEnds
  <2>2. workers'[worker] = workers[worker]
      BY <1>1, <1>15, <2>1, Ending DEF Fields, Types
  <2> QED BY <1>1, <2>1, <2>2, OthersMirror
\* The steps of the listener.
<1>16. CASE ListenerReads \/ ListenerTears
  <2>1. /\ call = Absent /\ conns # <<>> /\ UNCHANGED conns
        /\ UNCHANGED <<pending, inbox, name, config, active, mem, worker>>
        /\ workers' = [workers EXCEPT ![Served].wire = Absent]
      BY <1>16 DEF ListenerReads, ListenerTears, Listening, ListenerStep, mirror, requests, link
  <2>2. PICK w \in Worker : w = Served
      BY <1>1, <2>1, First DEF Types, Served
  <2>3. Fields(w, workers[w].phase, Queue(w), workers[w].request, Absent, workers[w].linked)
      BY <1>1, <2>1, <2>2, Taking
  <2>4. worker \in Worker /\ workers'[worker].phase = workers[worker].phase
        /\ workers'[worker].request = workers[worker].request
        /\ workers'[worker].linked = workers[worker].linked
        /\ workers'[worker].queue = workers[worker].queue
      BY <1>1, <2>3 DEF Fields, Types, Queue
  <2>5. ~Late
      BY <2>1 DEF Late, CallOf
  <2>6. ~Late'
    <3>1. CASE ListenerReads
      <4>1. call' = [worker |-> w, answer |-> Absent]
          BY <2>2, <3>1 DEF ListenerReads
      <4> QED BY <4>1 DEF Late, CallOf
    <3>2. CASE ListenerTears
        BY <2>1, <3>2 DEF ListenerTears, Late, CallOf
    <3> QED BY <1>16, <3>1, <3>2
  <2> QED BY <1>1, <2>1, <2>4, <2>5, <2>6, NotLate
<1>17. CASE ListenerEnds
  <2>1. /\ call = Absent /\ call' = Absent /\ UNCHANGED <<worker, workers>>
        /\ workers[Head(conns)].phase \notin {"handshake", "idle", "await"}
      BY <1>17 DEF ListenerEnds, Listening, ListenerStep, requests, link, Served, HasStream
  <2>2. Tracking /\ workers[worker].phase \in {"idle", "await"}
      BY <2>1 DEF Tracking, Late, CallOf
  <2> QED BY <1>1, <2>1, <2>2 DEF Mirrors
<1>18. CASE ListenerReplies
      BY <1>1, <1>18, ListenerMirrors
<1>19. CASE DaemonServes
      BY <1>1, <1>19, DaemonMirrors
<1>20. CASE ListenerStalls
      BY <1>20 DEF ListenerStalls
<1>21. CASE Crash
  <2>1. worker' = worker /\ worker \in Worker
      BY <1>1, <1>21 DEF Crash, DaemonStep, window, requests, link, Types
  <2> QED BY <1>1, <1>21, <2>1, Crashing DEF Tracking
<1>22. CASE Restart
  <2>1. ~alive /\ UNCHANGED <<worker, workers>> /\ worker \in Worker
      BY <1>1, <1>22 DEF Restart, DaemonStep, window, requests, link, Types
  <2> QED BY <1>1, <2>1 DEF Tracking, Phases
<1>23. CASE UNCHANGED vars
      BY <1>1, <1>23, OthersMirror DEF vars, window, mirror, requests, link, server
<1> QED BY <1>2, <1>3, <1>4, <1>5, <1>6, <1>8, <1>9, <1>11, <1>12, <1>13, <1>14, <1>15, <1>16, <1>17,
           <1>18, <1>19, <1>20, <1>21, <1>22, <1>23
        DEF Next, WindowStep, Operator, WindowActs, Server, WorkerRuns

-----------------------------------------------------------------------------
(* The other parts of Mirroring. *)

\* The inbox gets no report of an end that it did not have.
NoNewEnd ==
    \A i \in DOMAIN inbox' : inbox'[i].is = "disconnected" =>
        \E j \in DOMAIN inbox : inbox[j].is = "disconnected"

\* Reading a message, or a new one that is not such a report, brings none.
LEMMA NoEnd ==
    ASSUME Types
    PROVE  /\ inbox' = inbox => NoNewEnd
           /\ inbox # <<>> /\ inbox' = Tail(inbox) => NoNewEnd
           /\ inbox # <<>> /\ NewGeneration => NoNewEnd
           /\ \A m \in Message : m.is # "disconnected" /\ inbox' = Append(inbox, m) => NoNewEnd
<1>1. inbox' = inbox => NoNewEnd
      BY DEF NoNewEnd
<1>2. ASSUME inbox # <<>>, inbox' = Tail(inbox)
      PROVE  NoNewEnd
  <2>1. Len(inbox) \in Nat /\ DOMAIN inbox' = 1..(Len(inbox) - 1)
      BY <1>2, InboxHead DEF Types
  <2>2. \A i \in DOMAIN inbox' : inbox'[i] = inbox[i + 1] /\ i + 1 \in DOMAIN inbox
      BY <1>2, <2>1, InboxHead
  <2> QED BY <2>2 DEF NoNewEnd
<1>3. ASSUME inbox # <<>>, NewGeneration
      PROVE  NoNewEnd
  <2>1. /\ Len(inbox) \in Nat /\ DOMAIN inbox = 1..Len(inbox) /\ DOMAIN inbox' = 1..(Len(inbox) - 1)
        /\ \A i \in 1..(Len(inbox) - 1) :
             \/ inbox'[i] = inbox[i + 1]
             \/ inbox[i + 1] = Tick /\ inbox'[i] = [Tick EXCEPT !.stale = TRUE]
    <3>1. inbox \in Seq(Message) /\ inbox' \in Seq(Message) /\ Len(inbox') = Len(inbox) - 1
        BY <1>3, Renewing DEF Types
    <3>2. \A i \in 1..(Len(inbox) - 1) :
             \/ inbox'[i] = inbox[i + 1]
             \/ inbox[i + 1] = Tick /\ inbox'[i] = [Tick EXCEPT !.stale = TRUE]
        BY <1>3, Renewing
    <3>3. Len(inbox) \in Nat /\ DOMAIN inbox = 1..Len(inbox) /\ DOMAIN inbox' = 1..(Len(inbox) - 1)
        BY <3>1
    <3> QED BY <3>2, <3>3
  <2>2. [Tick EXCEPT !.stale = TRUE].is = "tick"
      BY DEF Tick
  <2>3. \A i \in DOMAIN inbox' : i + 1 \in DOMAIN inbox
      BY <2>1
  <2> QED BY <2>1, <2>2, <2>3 DEF NoNewEnd
<1>4. ASSUME NEW m \in Message, m.is # "disconnected", inbox' = Append(inbox, m)
      PROVE  NoNewEnd
  <2>1. inbox \in Seq(Message)
      BY DEF Types
  <2>2. \A i \in DOMAIN inbox' : \/ i \in DOMAIN inbox /\ inbox'[i] = inbox[i]
                                 \/ inbox'[i] = m
      BY <1>4, <2>1, Appended
  <2> QED BY <1>4, <2>2 DEF NoNewEnd
<1> QED BY <1>1, <1>2, <1>3, <1>4

\* The window's messages about an end are one message.
LEMMA EndMessage ==
    ASSUME NEW m \in Message, m.is = "disconnected"
    PROVE  m = Disconnected
<1>1. m \in [is : {"disconnected", "retry"}]
      BY DEF Message
<1> QED BY <1>1 DEF Disconnected

\* A step in which the window keeps its worker: no other comes to life, the end
\* of this one is final, and is what a new report of an end is about.
Keeps ==
    /\ UNCHANGED worker
    /\ \A v \in Worker \ {worker} : workers'[v].phase \in {workers[v].phase, "gone"}
    /\ workers[worker].phase = "closed" => workers'[worker].phase = "closed"
    /\ NoNewEnd \/ workers'[worker].phase = "closed"

\* Every step is of this kind, but a reconnect.
LEMMA KeepsOrReconnects ==
    ASSUME Structure, OldWorkersDone, [Next]_vars
    PROVE  Keeps \/ (inbox # <<>> /\ Reconnect)
<1>1. Types /\ Known /\ AnswersFit /\ Phases /\ Listener /\ worker \in Worker
      BY DEF Structure, Fitting, Types
<1>2. ASSUME UNCHANGED <<worker, workers>>, NoNewEnd
      PROVE  Keeps
      BY <1>2 DEF Keeps
<1>3. ASSUME NEW left, NEW msgs, SendEffect(left, msgs), NoNewEnd
      PROVE  Keeps
      BY <1>1, <1>3 DEF SendEffect, Keeps, link
<1>4. CASE WindowActs
  <2>1. (Sending \/ UNCHANGED <<requests, workers>>) /\ NoNewEnd
      BY <1>1, <1>4, WindowActing, NoEnd
  <2> QED BY <1>2, <1>3, <2>1 DEF Sending, requests, link
<1>5. CASE TickFires \/ PressRetry
  <2>1. Tick \in Message /\ Tick.is # "disconnected" /\ Retry \in Message /\ Retry.is # "disconnected"
      BY Made DEF Tick, Retry
  <2>2. NoNewEnd
      BY <1>1, <1>5, <2>1, NoEnd DEF TickFires, PressRetry
  <2> QED BY <1>2, <1>5, <2>2 DEF TickFires, PressRetry, requests, link
<1>6. CASE OnConnected \/ OnDisconnected
  <2>1. NoNewEnd
      BY <1>1, <1>6, NoEnd DEF OnConnected, OnDisconnected, Receive
  <2> QED BY <1>2, <1>6, <2>1 DEF OnConnected, OnDisconnected, requests, link
<1>7. CASE OnReply
  <2> DEFINE left == {q \in pending : q.tag # inbox[1].tag}
  <2>1. NoNewEnd
      BY <1>1, <1>7, Hearing, NoEnd
  <2>2. UNCHANGED <<requests, workers>> \/ \E msgs : SendEffect(left, msgs)
      BY <1>1, <1>7, Hearing
  <2> HIDE DEF left
  <2> QED BY <1>2, <1>3, <2>1, <2>2 DEF requests, link
<1>8. CASE OnRetry \/ OnTick
  <2>1. inbox # <<>>
      BY <1>8 DEF OnRetry, OnTick, Receive
  <2>2. CASE inbox' = Tail(inbox) /\ UNCHANGED <<requests, workers>>
    <3>1. NoNewEnd
        BY <1>1, <2>1, <2>2, NoEnd
    <3> QED BY <1>2, <2>2, <3>1 DEF requests, link
  <2> QED BY <1>8, <2>1, <2>2 DEF OnRetry, OnTick
\* The steps of workers.
<1>9. ASSUME NEW w \in Worker, WorkerRuns(w) \/ WorkerTimesOut(w)
      PROVE  UNCHANGED worker
      BY <1>9 DEF WorkerRuns, WorkerTimesOut, WorkerConnects, WorkerSends, WorkerFails, GivesUp,
                  WorkerRefuses, WorkerEnds, WorkerStep, requests, link
<1>10. ASSUME NEW w \in Worker, w = worker, NEW phase, NEW queue, NEW request, NEW wire, NEW linked,
              Fields(w, phase, queue, request, wire, linked), UNCHANGED worker,
              workers[w].phase # "closed", NoNewEnd \/ phase = "closed"
       PROVE  Keeps
       BY <1>1, <1>10 DEF Fields, Keeps
<1>11. ASSUME NEW w \in Worker, WorkerConnects(w)
       PROVE  Keeps
  <2>1. workers[w].phase = "new" /\ w = worker /\ UNCHANGED worker
      BY <1>9, <1>11, InUse DEF WorkerConnects, WorkerRuns
  <2>2. inbox' = inbox => NoNewEnd
      BY <1>1, NoEnd
  <2> QED BY <1>1, <1>10, <1>11, <2>1, <2>2, Connecting
<1>12. ASSUME NEW w \in Worker, WorkerSends(w)
       PROVE  Keeps
  <2>1. workers[w].phase = "idle" /\ w = worker /\ UNCHANGED worker /\ inbox' = inbox
      BY <1>9, <1>12, InUse DEF WorkerSends, WorkerRuns
  <2>2. NoNewEnd
      BY <1>1, <2>1, NoEnd
  <2> QED BY <1>1, <1>10, <1>12, <2>1, <2>2, Asking
<1>13. ASSUME NEW w \in Worker, WorkerFails(w) \/ WorkerTimesOut(w)
       PROVE  Keeps
  <2>1. GivesUp(w) /\ UNCHANGED worker
      BY <1>9, <1>13 DEF WorkerFails, WorkerTimesOut, WorkerRuns
  <2>2. w = worker /\ workers[w].phase # "closed"
      BY <2>1, InUse DEF GivesUp, InRoundTrip
  <2>3. Fields(w, "closed", Queue(w), Absent, workers[w].wire, workers[w].linked)
      BY <1>1, <2>1, GivingUp
  <2> QED BY <1>10, <2>1, <2>2, <2>3
<1>14. ASSUME NEW w \in Worker, WorkerRefuses(w)
       PROVE  Keeps
  <2>1. workers[w].phase = "closed" /\ UNCHANGED worker
      BY <1>9, <1>14 DEF WorkerRefuses, WorkerRuns
  <2>2. /\ Head(Queue(w)) \in Entry /\ inbox' = Append(inbox, Reply(Head(Queue(w)).tag, Refused))
        /\ Fields(w, "closed", Tail(Queue(w)), workers[w].request, workers[w].wire, workers[w].linked)
      BY <1>1, <1>14, Refusing
  <2> DEFINE n == Reply(Head(Queue(w)).tag, Refused)
  <2>3. n \in Message /\ n.is # "disconnected" /\ inbox' = Append(inbox, n)
      BY <2>2, Made DEF Entry, Reply
  <2> HIDE DEF n
  <2>4. NoNewEnd
      BY <1>1, <2>3, NoEnd
  <2> QED BY <1>1, <2>1, <2>2, <2>4 DEF Fields, Keeps
<1>15. ASSUME NEW w \in Worker, WorkerEnds(w)
       PROVE  Keeps
  <2>1. w # worker /\ UNCHANGED worker /\ inbox' = inbox
      BY <1>9, <1>15 DEF WorkerEnds, WorkerRuns
  <2>2. Fields(w, "gone", <<>>, Absent, workers[w].wire, FALSE) /\ NoNewEnd
      BY <1>1, <1>15, <2>1, Ending, NoEnd
  <2> QED BY <1>1, <2>1, <2>2 DEF Fields, Keeps
\* The steps of the listener and of the daemon.
<1>16. CASE ListenerReads \/ ListenerTears
  <2>1. /\ inbox' = inbox /\ UNCHANGED worker
        /\ conns # <<>> /\ workers' = [workers EXCEPT ![Served].wire = Absent]
      BY <1>16 DEF ListenerReads, ListenerTears, Listening, ListenerStep, requests, link
  <2>2. PICK w \in Worker : w = Served
      BY <1>1, <2>1, First DEF Types, Served
  <2>3. Fields(w, workers[w].phase, Queue(w), workers[w].request, Absent, workers[w].linked)
      BY <1>1, <2>1, <2>2, Taking
  <2>4. NoNewEnd
      BY <1>1, <2>1, NoEnd
  <2> QED BY <1>1, <2>1, <2>3, <2>4 DEF Fields, Keeps
<1>17. CASE ListenerReplies
  <2> PICK w \in Worker : w = call.worker
      BY <1>1, <1>17, Replying
  <2> DEFINE R == workers[w]
             r == call.answer
  <2>1. UNCHANGED worker /\ r \in Answer
      BY <1>1, <1>17, Replying DEF ListenerReplies, ListenerStep, requests, link
  <2>2. InRoundTrip(w) => w = worker /\ R.phase # "closed"
      BY InUse DEF InRoundTrip
  <2>3. CASE UNCHANGED <<workers, inbox>>
      BY <1>1, <1>2, <2>1, <2>3, NoEnd
  <2>4. ASSUME NEW m \in Message, m.is # "disconnected", inbox' = Append(inbox, m), InRoundTrip(w),
               NEW phase, NEW request, Fields(w, phase, Queue(w), request, R.wire, R.linked)
        PROVE  Keeps
    <3>1. NoNewEnd
        BY <1>1, <2>4, NoEnd
    <3> QED BY <1>10, <2>1, <2>2, <2>4, <3>1
  <2>5. CASE /\ R.phase = "await" /\ R.request \in Entry
             /\ Fields(w, "idle", Queue(w), Absent, R.wire, R.linked)
             /\ inbox' = Append(inbox, Reply(R.request.tag, r))
    <3> DEFINE n == Reply(R.request.tag, r)
    <3>1. n \in Message /\ n.is # "disconnected" /\ inbox' = Append(inbox, n)
        BY <2>1, <2>5, Made DEF Entry, Reply
    <3> HIDE DEF n
    <3> QED BY <2>4, <2>5, <3>1 DEF InRoundTrip
  <2>6. CASE /\ R.phase = "handshake" /\ r.data \in Snapshot
             /\ Fields(w, "idle", Queue(w), R.request, R.wire, R.linked)
             /\ inbox' = Append(inbox, Connected(r.data))
    <3> DEFINE n == Connected(r.data)
    <3>1. n \in Message /\ n.is # "disconnected" /\ inbox' = Append(inbox, n)
        BY <2>6, Made DEF Connected
    <3> HIDE DEF n
    <3> QED BY <2>4, <2>6, <3>1 DEF InRoundTrip
  <2>7. CASE R.phase = "handshake" /\ Fields(w, "closed", Queue(w), R.request, R.wire, R.linked)
      BY <1>10, <2>1, <2>2, <2>7 DEF InRoundTrip
  <2> QED BY <1>1, <1>17, <2>3, <2>5, <2>6, <2>7, Replying
<1>18. CASE ListenerEnds \/ ListenerStalls
  <2>1. inbox' = inbox /\ UNCHANGED <<worker, workers>>
      BY <1>18 DEF ListenerEnds, ListenerStalls, ListenerStep, requests, link
  <2> QED BY <1>1, <1>2, <2>1, NoEnd
<1>19. CASE DaemonServes \/ Restart
  <2>1. inbox' = inbox /\ UNCHANGED <<worker, workers>>
      BY <1>19 DEF DaemonServes, Restart, DaemonStep, window, requests, link
  <2> QED BY <1>1, <1>2, <2>1, NoEnd
<1>20. CASE Crash
  <2>1. inbox' = inbox /\ UNCHANGED worker
      BY <1>20 DEF Crash, DaemonStep, window, requests, link
  <2>2. NoNewEnd
      BY <1>1, <2>1, NoEnd
  <2> QED BY <1>1, <1>20, <2>1, <2>2, Crashing DEF Keeps
<1>21. CASE UNCHANGED vars
  <2>1. inbox' = inbox /\ UNCHANGED <<worker, workers>>
      BY <1>21 DEF vars, window, requests, link
  <2> QED BY <1>1, <1>2, <2>1, NoEnd
<1> QED BY <1>4, <1>5, <1>6, <1>7, <1>8, <1>11, <1>12, <1>13, <1>14, <1>15, <1>16, <1>17,
           <1>18, <1>19, <1>20, <1>21
        DEF Next, WindowStep, Operator, WindowActs, Server, WorkerRuns

\* Replaced workers stay done, and the end reported stays that of the worker in use.
LEMMA EndsKept ==
    ASSUME Structure, OldWorkersDone, EndIsOfCurrent, ~abandoned', [Next]_vars
    PROVE  OldWorkersDone' /\ EndIsOfCurrent'
<1>1. Types /\ inbox \in Seq(Message) /\ worker \in Worker
      BY DEF Structure, Types
<1>2. CASE Keeps
      BY <1>2 DEF Keeps, OldWorkersDone, EndIsOfCurrent, NoNewEnd
<1>3. CASE inbox # <<>> /\ Reconnect
  <2>1. /\ workers[worker].phase = "closed" /\ Disconnected \notin Range(inbox)
        /\ \A v \in Worker \ {worker'} : workers'[v] = workers[v]
        /\ NewGeneration
      BY <1>1, <1>3, Reconnecting DEF Reported
  <2>2. OldWorkersDone'
      BY <2>1 DEF OldWorkersDone
  <2>3. \A i \in DOMAIN inbox : inbox[i].is # "disconnected"
    <3>1. \A i \in DOMAIN inbox : inbox[i] \in Message /\ inbox[i] # Disconnected
        BY <1>1, <2>1, Elements DEF Range
    <3> QED BY <3>1, EndMessage
  <2>4. NoNewEnd
      BY <1>1, <1>3, <2>1, NoEnd
  <2>5. EndIsOfCurrent'
      BY <2>3, <2>4 DEF NoNewEnd, EndIsOfCurrent
  <2> QED BY <2>2, <2>5
<1> QED BY <1>2, <1>3, KeepsOrReconnects

\* The listener hands over one command at a time and waits for its answer.
LEMMA ChannelKept ==
    ASSUME Structure, ChannelSynchronous, ~stalled', [Next]_vars
    PROVE  ChannelSynchronous'
<1>1. Types /\ Known /\ AnswersFit /\ Listener
      BY DEF Structure, Fitting
<1>2. CASE UNCHANGED channel
      BY <1>2 DEF ChannelSynchronous
<1>3. CASE WindowActs
      BY <1>1, <1>2, <1>3, WindowActing DEF server
<1>4. CASE TickFires \/ PressRetry \/ OnConnected \/ OnDisconnected \/ OnReply \/ OnRetry \/ OnTick
      BY <1>2, <1>4 DEF TickFires, PressRetry, Event, OnConnected, OnDisconnected, OnReply, OnRetry,
                        OnTick, Receive, server
<1>5. ASSUME NEW w \in Worker, WorkerRuns(w) \/ WorkerTimesOut(w)
      PROVE  UNCHANGED channel
      BY <1>5 DEF WorkerRuns, WorkerTimesOut, WorkerConnects, WorkerSends, WorkerFails, GivesUp,
                  WorkerRefuses, WorkerEnds
<1>6. CASE ListenerReads
  <2>1. call = Absent
      BY <1>6 DEF ListenerReads, Listening
  <2>2. channel = <<>>
    <3>1. channel # <<>> => 1 \in DOMAIN channel
        BY <1>1 DEF Types
    <3> QED BY <1>1, <2>1, <3>1 DEF ChannelSynchronous, Listener
  <2>3. channel' = <<[cmd |-> workers[Served].wire, waits |-> TRUE]>>
      BY <1>6, <2>2 DEF ListenerReads
  <2> DEFINE e == [cmd |-> workers[Served].wire, waits |-> TRUE]
  <2>4. e.waits /\ channel' = <<e>>
      BY <2>3
  <2> HIDE DEF e
  <2>5. Len(channel') = 1 /\ channel'[1] = e
      BY <2>4
  <2> QED BY <2>4, <2>5 DEF ChannelSynchronous
<1>7. CASE DaemonServes
  <2>1. channel # <<>> /\ channel' = Tail(channel) /\ Len(channel) = 1
        /\ channel \in Seq([cmd : Command, waits : BOOLEAN])
      BY <1>1, <1>7 DEF ChannelSynchronous, DaemonServes, Types
  <2>2. channel' = <<>>
      BY <2>1
  <2> QED BY <2>2 DEF ChannelSynchronous
<1>8. CASE ListenerTears \/ ListenerEnds \/ ListenerReplies
      BY <1>2, <1>8 DEF ListenerTears, ListenerEnds, ListenerReplies
<1>9. CASE ListenerStalls
      BY <1>9 DEF ListenerStalls
<1>10. CASE Crash
      BY <1>10 DEF Crash, ChannelSynchronous
<1>11. CASE Restart \/ UNCHANGED vars
      BY <1>2, <1>11 DEF Restart, vars, server
<1> QED BY <1>2, <1>3, <1>4, <1>5, <1>6, <1>7, <1>8, <1>9, <1>10, <1>11
        DEF Next, WindowStep, Operator, WindowActs, Server, WorkerRuns

\* The worker in use gets no new work, and the window forgets none of its requests.
Shrinks ==
    /\ UNCHANGED <<worker, pending>>
    /\ HasStream(worker)' \/ workers'[worker].phase = "new" =>
         /\ HasStream(worker) \/ workers[worker].phase = "new"
         /\ \A i \in DOMAIN workers'[worker].queue : \E j \in DOMAIN Queue(worker) :
               workers'[worker].queue[i] = Queue(worker)[j]
         /\ workers'[worker].request # Absent =>
               \/ workers'[worker].request = workers[worker].request
               \/ \E j \in DOMAIN Queue(worker) : workers'[worker].request = Queue(worker)[j]

\* Such a step leaves every request of the worker expected.
LEMMA ShrinksKeeps ==
    ASSUME InFlight, Shrinks
    PROVE  InFlight'
<1> SUFFICES ASSUME HasStream(worker)' \/ workers'[worker].phase = "new"
             PROVE  InFlight'
    BY DEF Shrinks, InFlight
<1> DEFINE q == Queue(worker)
           z == workers'[worker].queue
           a == workers[worker].request
           b == workers'[worker].request
<1>1. /\ \A i \in DOMAIN q : \E p \in pending : p.tag = q[i].tag
      /\ a # Absent => \E p \in pending : p.tag = a.tag
      BY DEF Shrinks, InFlight, Asks
<1>2. /\ \A i \in DOMAIN z : \E j \in DOMAIN q : z[i] = q[j]
      /\ b # Absent => b = a \/ \E j \in DOMAIN q : b = q[j]
      BY DEF Shrinks
<1>3. UNCHANGED <<worker, pending>>
      BY DEF Shrinks
<1>4. Queue(worker)' = z /\ (Asks(worker)' <=> b # Absent)
      BY <1>3 DEF Queue, Asks
<1> HIDE DEF q, z, a
<1>5. \A i \in DOMAIN z : \E p \in pending : p.tag = z[i].tag
      BY <1>1, <1>2
<1>6. b # Absent => \E p \in pending : p.tag = b.tag
      BY <1>1, <1>2
<1> QED BY <1>3, <1>4, <1>5, <1>6 DEF InFlight

\* What is sent is expected, and nothing that is still to be done is dropped.
LEMMA InFlightSending ==
    ASSUME Types, InFlight, NEW left, NEW msgs, SendEffect(left, msgs),
           \A p \in pending : /\ \A i \in DOMAIN Queue(worker) : p.tag = Queue(worker)[i].tag => p \in left
                              /\ Asks(worker) /\ p.tag = workers[worker].request.tag => p \in left
    PROVE  InFlight'
<1> DEFINE q == Queue(worker)
           z == workers'[worker].queue
<1>1. UNCHANGED worker /\ worker \in Worker
      BY DEF SendEffect, link, Types
<1>2. /\ workers'[worker].phase = workers[worker].phase
      /\ workers'[worker].request = workers[worker].request
      BY DEF SendEffect
<1> SUFFICES ASSUME HasStream(worker) \/ workers[worker].phase = "new"
             PROVE  InFlight'
    BY <1>1, <1>2 DEF InFlight, HasStream
<1>3. /\ \A i \in DOMAIN q : \E p \in pending' : p.tag = q[i].tag
      /\ Asks(worker) => \E p \in pending' : p.tag = workers[worker].request.tag
      BY DEF InFlight, SendEffect
<1>4. q \in Seq(Entry) /\ z \in Seq(Entry) /\ Len(z) = Len(q) + Len(msgs)
      /\ \A i \in 1..Len(q) : z[i] = q[i]
      BY <1>1, WorkerTyped DEF SendEffect, WorkerState
<1>5. ASSUME NEW i \in DOMAIN z
      PROVE  \E p \in pending' : p.tag = z[i].tag
  <2>1. CASE i \in DOMAIN q
    <3>1. z[i] = q[i]
      <4> HIDE DEF q, z
      <4> QED BY <1>4, <2>1
    <3> HIDE DEF q, z
    <3> QED BY <1>3, <2>1, <3>1
  <2>2. ASSUME NEW k \in 1..Len(msgs), i = Len(q) + k
        PROVE  \E p \in pending' : p.tag = z[i].tag
    <3>1. z[i] = [tag |-> nextTag + k - 1, cmd |-> msgs[k].cmd]
        BY <2>2 DEF SendEffect
    <3>2. \E p \in pending' : p.tag = nextTag + k - 1
        BY <2>2 DEF SendEffect
    <3> QED BY <3>1, <3>2
  <2>3. i \in DOMAIN q \/ \E k \in 1..Len(msgs) : i = Len(q) + k
    <3>1. Len(z) \in Nat /\ Len(q) \in Nat /\ DOMAIN z = 1..Len(z) /\ DOMAIN q = 1..Len(q)
      <4> HIDE DEF q, z
      <4> QED BY <1>4
    <3> DEFINE a == Len(q)
               n == Len(msgs)
    <3>2. i \in 1..(a + n) /\ a \in Nat /\ a + n \in Nat
        BY <1>4, <1>5, <3>1
    <3>3. i \notin 1..a => i > a
      <4> HIDE DEF a, n
      <4> QED BY <3>2
    <3>4. i > a => i - a \in 1..n /\ i = a + (i - a)
      <4>1. n \in Int
          BY <3>2, <1>4 DEF SendEffect
      <4> HIDE DEF a, n
      <4> QED BY <3>2, <4>1
    <3> QED BY <3>1, <3>3, <3>4
  <2> QED BY <2>1, <2>2, <2>3
<1>6. Queue(worker)' = z /\ (Asks(worker)' <=> Asks(worker))
      BY <1>1, <1>2 DEF Queue, Asks
<1>7. Asks(worker) => \E p \in pending' : p.tag = workers'[worker].request.tag
      BY <1>2, <1>3
<1> HIDE DEF z
<1> QED BY <1>1, <1>5, <1>6, <1>7 DEF InFlight

\* Every step leaves every request of the worker in use expected.
LEMMA InFlightKept ==
    ASSUME Structure, OldWorkersDone, EndIsOfCurrent, InFlight, [Next]_vars
    PROVE  InFlight'
<1>1. /\ Types /\ Known /\ AnswersFit /\ Phases /\ Listener /\ Tags
      /\ worker \in Worker /\ inbox \in Seq(Message)
      BY DEF Structure, Fitting, Types
<1>2. ASSUME UNCHANGED <<worker, pending>>, workers'[worker] = workers[worker]
      PROVE  InFlight'
      BY <1>2, ShrinksKeeps DEF Shrinks, HasStream, Queue
<1>3. CASE WindowActs
  <2>1. CASE Sending
      BY <1>1, <2>1, InFlightSending DEF Sending
  <2> QED BY <1>1, <1>2, <1>3, <2>1, WindowActing DEF requests, link
<1>4. CASE TickFires \/ PressRetry \/ OnConnected
      BY <1>2, <1>4 DEF TickFires, PressRetry, Event, OnConnected, requests, link
<1>5. CASE OnDisconnected
  <2>1. \E i \in DOMAIN inbox : inbox[i].is = "disconnected"
      BY <1>1, <1>5, InboxHead DEF OnDisconnected, Receive
  <2>2. workers[worker].phase = "closed" /\ UNCHANGED <<worker, workers>>
      BY <1>5, <2>1 DEF EndIsOfCurrent, OnDisconnected, link
  <2> QED BY <2>2 DEF InFlight, HasStream
<1>6. CASE OnReply
  <2> DEFINE m == inbox[1]
             left == {q \in pending : q.tag # m.tag}
  <2>1. Answers(1) /\ 1 \in DOMAIN inbox
      BY <1>1, <1>6, Hearing, InboxHead DEF Answers
  <2>2. \A p \in pending :
           /\ \A i \in DOMAIN Queue(worker) : p.tag = Queue(worker)[i].tag => p \in left
           /\ Asks(worker) /\ p.tag = workers[worker].request.tag => p \in left
      BY <1>1, <2>1 DEF Tags, QueuedUnanswered, RequestUnanswered
  <2>3. UNCHANGED <<requests, workers>> \/ \E msgs : SendEffect(left, msgs)
      BY <1>1, <1>6, Hearing
  <2> HIDE DEF left
  <2> QED BY <1>1, <1>2, <2>2, <2>3, InFlightSending DEF requests, link
<1>7. ASSUME inbox # <<>>, Reconnect
      PROVE  InFlight'
  <2>1. workers'[worker'] = Spawned
      BY <1>1, <1>7, Reconnecting
  <2>2. workers'[worker'].queue = <<>> /\ workers'[worker'].request = Absent
      BY <2>1 DEF Spawned, Gone
  <2> QED BY <2>2 DEF InFlight, Queue, Asks
<1>8. CASE OnRetry \/ OnTick
  <2>1. inbox # <<>>
      BY <1>8 DEF OnRetry, OnTick, Receive
  <2> QED BY <1>2, <1>7, <1>8, <2>1 DEF OnRetry, OnTick, requests, link
\* The steps of workers.
<1>9. ASSUME NEW w \in Worker, WorkerRuns(w) \/ WorkerTimesOut(w)
      PROVE  UNCHANGED <<worker, pending>>
      BY <1>9 DEF WorkerRuns, WorkerTimesOut, WorkerConnects, WorkerSends, WorkerFails, GivesUp,
                  WorkerRefuses, WorkerEnds, WorkerStep, requests, link
\* One worker moves; if it is the one in use its queue shrinks, or it is done.
<1>10. ASSUME NEW w \in Worker, NEW phase, NEW queue, NEW request, NEW wire, NEW linked,
              Fields(w, phase, queue, request, wire, linked), UNCHANGED <<worker, pending>>,
              w = worker =>
                \/ phase \in {"closed", "gone"}
                \/ /\ HasStream(w) \/ workers[w].phase = "new"
                   /\ \A i \in DOMAIN queue : \E j \in DOMAIN Queue(w) : queue[i] = Queue(w)[j]
                   /\ request # Absent =>
                        request = workers[w].request \/ \E j \in DOMAIN Queue(w) : request = Queue(w)[j]
       PROVE  InFlight'
  <2>1. CASE w # worker
      BY <1>1, <1>2, <1>10, <2>1 DEF Fields
  <2>2. CASE w = worker /\ phase \in {"closed", "gone"}
      BY <1>10, <2>2 DEF Fields, InFlight, HasStream
  <2>3. CASE w = worker /\ phase \notin {"closed", "gone"}
    <3>1. Shrinks
        BY <1>10, <2>3 DEF Fields, Shrinks
    <3> QED BY <3>1, ShrinksKeeps
  <2> QED BY <2>1, <2>2, <2>3
<1>11. ASSUME NEW w \in Worker, WorkerConnects(w)
       PROVE  InFlight'
  <2>1. workers[w].phase = "new" /\ UNCHANGED <<worker, pending>>
      BY <1>9, <1>11 DEF WorkerConnects, WorkerRuns
  <2> QED BY <1>1, <1>10, <1>11, <2>1, Connecting
<1>12. ASSUME NEW w \in Worker, WorkerSends(w)
       PROVE  InFlight'
  <2>1. HasStream(w) /\ UNCHANGED <<worker, pending>>
      BY <1>9, <1>12 DEF WorkerSends, WorkerRuns, HasStream
  <2>2. /\ Queue(w) # <<>>
        /\ Fields(w, "await", Tail(Queue(w)), Head(Queue(w)),
                  IF workers[w].linked THEN Head(Queue(w)).cmd ELSE Absent, workers[w].linked)
      BY <1>1, <1>12, Asking
  <2>3. Queue(w)' = Tail(Queue(w)) /\ \A v \in Worker \ {w} : workers'[v] = workers[v]
      BY <2>2 DEF Fields, Queue
  <2>4. /\ 1 \in DOMAIN Queue(w) /\ Head(Queue(w)) = Queue(w)[1]
        /\ \A i \in DOMAIN Tail(Queue(w)) : i + 1 \in DOMAIN Queue(w) /\ Tail(Queue(w))[i] = Queue(w)[i + 1]
      BY <1>1, <2>2, <2>3, Popping
  <2> QED BY <1>10, <2>1, <2>2, <2>4
<1>13. ASSUME NEW w \in Worker, WorkerFails(w) \/ WorkerTimesOut(w)
       PROVE  InFlight'
  <2>1. GivesUp(w) /\ UNCHANGED <<worker, pending>>
      BY <1>9, <1>13 DEF WorkerFails, WorkerTimesOut, WorkerRuns
  <2>2. Fields(w, "closed", Queue(w), Absent, workers[w].wire, workers[w].linked)
      BY <1>1, <2>1, GivingUp
  <2> QED BY <1>10, <2>1, <2>2
<1>14. ASSUME NEW w \in Worker, WorkerRefuses(w)
       PROVE  InFlight'
  <2>1. UNCHANGED <<worker, pending>>
      BY <1>9, <1>14 DEF WorkerRuns
  <2> QED BY <1>1, <1>10, <1>14, <2>1, Refusing
<1>15. ASSUME NEW w \in Worker, WorkerEnds(w)
       PROVE  InFlight'
  <2>1. UNCHANGED <<worker, pending>>
      BY <1>9, <1>15 DEF WorkerRuns
  <2> QED BY <1>1, <1>10, <1>15, <2>1, Ending
\* The steps of the listener and of the daemon.
<1>16. ASSUME NEW w \in Worker, NEW phase, NEW request, NEW wire, NEW linked,
              Fields(w, phase, Queue(w), request, wire, linked),
              request \in {workers[w].request, Absent}, phase = workers[w].phase \/ InRoundTrip(w),
              UNCHANGED <<worker, pending>>
       PROVE  InFlight'
  <2>1. CASE HasStream(w) \/ workers[w].phase \in {"new", "closed", "gone"}
      BY <1>10, <1>16, <2>1 DEF InRoundTrip, HasStream
  <2>2. workers[w].phase \in Phase
      BY <1>1, WorkerTyped
  <2> QED BY <2>1, <2>2 DEF Phase, HasStream
<1>17. CASE ListenerReads \/ ListenerTears
  <2>1. /\ UNCHANGED <<worker, pending>>
        /\ conns # <<>> /\ workers' = [workers EXCEPT ![Served].wire = Absent]
      BY <1>17 DEF ListenerReads, ListenerTears, Listening, ListenerStep, requests, link
  <2>2. PICK w \in Worker : w = Served
      BY <1>1, <2>1, First DEF Types, Served
  <2>3. Fields(w, workers[w].phase, Queue(w), workers[w].request, Absent, workers[w].linked)
      BY <1>1, <2>1, <2>2, Taking
  <2> QED BY <1>16, <2>1, <2>3
<1>18. CASE ListenerReplies
  <2> PICK w \in Worker : w = call.worker
      BY <1>1, <1>18, Replying
  <2> DEFINE R == workers[w]
  <2>1. UNCHANGED <<worker, pending>>
      BY <1>18 DEF ListenerReplies, ListenerStep, requests, link
  <2>2. \/ \E phase, request : /\ InRoundTrip(w) /\ request \in {R.request, Absent}
                               /\ Fields(w, phase, Queue(w), request, R.wire, R.linked)
        \/ UNCHANGED workers
    <3> HIDE DEF R
    <3> QED BY <1>1, <1>18, Replying DEF InRoundTrip, R
  <2> QED BY <1>2, <1>16, <2>1, <2>2
<1>19. CASE ListenerEnds \/ ListenerStalls
      BY <1>2, <1>19 DEF ListenerEnds, ListenerStalls, ListenerStep, requests, link
<1>20. CASE DaemonServes \/ Restart \/ UNCHANGED vars
      BY <1>2, <1>20 DEF DaemonServes, Restart, DaemonStep, vars, window, requests, link
<1>21. CASE Crash
  <2>1. UNCHANGED <<worker, pending>>
      BY <1>21 DEF Crash, DaemonStep, window, requests, link
  <2>2. /\ workers'[worker].phase = workers[worker].phase /\ workers'[worker].queue = Queue(worker)
        /\ workers'[worker].request = workers[worker].request
      BY <1>1, <1>21, Crashing
  <2>3. Shrinks
      BY <2>1, <2>2 DEF Shrinks, HasStream
  <2> QED BY <2>3, ShrinksKeeps
<1> QED BY <1>3, <1>4, <1>5, <1>6, <1>8, <1>11, <1>12, <1>13, <1>14, <1>15, <1>17, <1>18,
           <1>19, <1>20, <1>21
        DEF Next, WindowStep, Operator, WindowActs, Server, WorkerRuns

-----------------------------------------------------------------------------
(* The invariant and what follows from it. *)

\* What was given up on stays given up on.
LEMMA ForGood ==
    ASSUME Structure, [Next]_vars
    PROVE  (stalled => stalled') /\ (abandoned => abandoned')
<1>1. Types /\ Known /\ AnswersFit /\ inbox \in Seq(Message)
      BY DEF Structure, Fitting, Types
<1>2. CASE WindowActs
  <2>1. (Sending \/ UNCHANGED requests) /\ UNCHANGED stalled
      BY <1>1, <1>2, WindowActing
  <2>2. \A msgs : SendEffect(pending, msgs) => UNCHANGED abandoned
      BY DEF SendEffect, link
  <2> QED BY <2>1, <2>2 DEF Sending, requests, link
<1>3. CASE OnReply
  <2> DEFINE left == {q \in pending : q.tag # inbox[1].tag}
  <2>1. UNCHANGED stalled /\ (UNCHANGED requests \/ \E msgs : SendEffect(left, msgs))
      BY <1>1, <1>3, Hearing
  <2>2. \A msgs : SendEffect(left, msgs) => UNCHANGED abandoned
      BY DEF SendEffect, link
  <2> HIDE DEF left
  <2> QED BY <2>1, <2>2 DEF requests, link
<1>4. CASE TickFires \/ PressRetry \/ OnConnected \/ OnDisconnected
  <2>1. UNCHANGED <<stalled, abandoned>>
      BY <1>4 DEF TickFires, PressRetry, Event, OnConnected, OnDisconnected, Receive, requests, link
  <2> QED BY <2>1
<1>5. CASE OnRetry \/ OnTick
  <2>1. UNCHANGED stalled
      BY <1>5 DEF OnRetry, OnTick, Receive
  <2>2. Reconnect => (abandoned => abandoned')
      BY DEF Reconnect
  <2> QED BY <1>5, <2>1, <2>2 DEF OnRetry, OnTick, requests, link
<1>6. ASSUME NEW w \in Worker, WorkerRuns(w) \/ WorkerTimesOut(w)
      PROVE  UNCHANGED <<stalled, abandoned>>
      BY <1>6 DEF WorkerRuns, WorkerTimesOut, WorkerConnects, WorkerSends, WorkerFails, GivesUp,
                  WorkerRefuses, WorkerEnds, WorkerStep, requests, link
<1>7. CASE ListenerReads \/ ListenerTears \/ ListenerEnds \/ ListenerStalls \/ ListenerReplies
      BY <1>7 DEF ListenerReads, ListenerTears, ListenerEnds, ListenerStalls, ListenerReplies,
                  ListenerStep, requests, link
<1>8. CASE DaemonServes \/ Crash \/ Restart \/ UNCHANGED vars
  <2>1. UNCHANGED <<stalled, abandoned>>
      BY <1>8 DEF DaemonServes, Crash, Restart, DaemonStep, vars, window, requests, link
  <2> QED BY <2>1
<1> QED BY <1>2, <1>3, <1>4, <1>5, <1>6, <1>7, <1>8
        DEF Next, WindowStep, Operator, WindowActs, Server, WorkerRuns

\* At first there is no stream.
LEMMA MirroringInitially == Init => Mirroring
<1> SUFFICES ASSUME Init PROVE Mirroring
    OBVIOUS
<1>1. worker \in Worker
      BY WorkerAssumption DEF Init
<1>2. /\ workers = [w \in Worker |-> IF w = worker THEN Spawned ELSE Gone]
      /\ inbox = <<>> /\ channel = <<>>
      BY DEF Init
<1>3. workers[worker] = Spawned /\ \A w \in Worker \ {worker} : workers[w] = Gone
      BY <1>1, <1>2
<1>4. OldWorkersDone
      BY <1>3 DEF OldWorkersDone, Gone
<1>5. EndIsOfCurrent /\ ChannelSynchronous
      BY <1>2 DEF EndIsOfCurrent, ChannelSynchronous
<1>6. InFlight /\ ~Tracking
      BY <1>3 DEF InFlight, Tracking, Queue, Asks, Spawned, Gone
<1> QED BY <1>4, <1>5, <1>6 DEF Mirroring, Mirrors

\* Inv is an invariant: Structure always, Mirroring as long as nothing was given up on.
THEOREM InvHolds == Spec => []Inv
<1>1. Init => Structure
      BY TypesInitially, TagsInitially, PhasesInitially DEF Structure
<1>2. Init => Inv
      BY <1>1, MirroringInitially DEF Inv
<1>3. Inv /\ Structure' /\ [Next]_vars => Inv'
  <2> SUFFICES ASSUME Inv, Structure', [Next]_vars, ~stalled', ~abandoned'
               PROVE  Mirroring'
      BY DEF Inv
  <2>1. Structure /\ Mirroring
      BY ForGood DEF Inv
  <2>2. OldWorkersDone /\ EndIsOfCurrent /\ ChannelSynchronous /\ InFlight
      BY <2>1 DEF Mirroring
  <2>3. OldWorkersDone' /\ EndIsOfCurrent'
      BY <2>1, <2>2, EndsKept
  <2>4. ChannelSynchronous'
      BY <2>1, <2>2, ChannelKept
  <2>5. InFlight'
      BY <2>1, <2>2, InFlightKept
  <2>6. Mirrors'
      BY <2>1, MirrorsKept
  <2> QED BY <2>3, <2>4, <2>5, <2>6 DEF Mirroring
<1> QED BY <1>2, <1>3, StructureHolds, PTL DEF Spec

\* Once everything is answered, nothing is on its way that could still be owed:
\* every part of the mirror is shown, and shown as it is.
LEMMA SettledMirror ==
    ASSUME Inv, Settled, ~stalled, ~abandoned
    PROVE  name = active /\ config = mem
<1>1. Types /\ Known /\ Mirrors
      BY DEF Inv, Structure, Mirroring
<1>2. /\ pending = {} /\ inbox = <<>> /\ call = Absent /\ IsConnected
      /\ workers[worker] = [Gone EXCEPT !.phase = "idle", !.linked = TRUE]
      BY DEF Settled, Quiet
<1>3. /\ workers[worker].phase = "idle" /\ workers[worker].linked
      /\ workers[worker].queue = <<>> /\ workers[worker].request = Absent
      BY <1>2 DEF Gone
<1>4. Tracking /\ ~Late
      BY <1>2, <1>3 DEF Tracking, Late, CallOf
<1>5. \A part \in Part : ~Owed(part)
      BY <1>2, <1>3, <1>4 DEF Owed, Queue, Asks
<1>6. \A part \in Part : Mirror(part) = Truth(part)
  <2>1. \A part \in Part : Shown(part)
      BY <1>1, <1>4, <1>5 DEF Mirrors
  <2> QED BY <1>2, <1>4, <2>1 DEF Shown, Shows
<1>7. "name" \in Part /\ "name" \notin Cell /\ Cell \subseteq Part
      BY DEF Part, Cell
<1>8. name = active
      BY <1>6, <1>7 DEF Mirror, Truth
<1>9. \A c \in Cell : config[c] = mem[c]
  <2> SUFFICES ASSUME NEW c \in Cell PROVE config[c] = mem[c]
      OBVIOUS
  <2>1. c # "name" /\ Mirror(c) = Truth(c)
      BY <1>6, <1>7
  <2> QED BY <2>1 DEF Mirror, Truth
<1>10. config \in [Cell -> Value] /\ mem \in [Cell -> Value]
      BY <1>1, <1>2 DEF Types, Known, Config
<1>11. config = mem
      BY <1>9, <1>10
<1> QED BY <1>8, <1>11

\* Every variable of the window, the workers, the listener and the daemon keeps
\* its type, and the window has a preset to show whenever it sends anything.
THEOREM TypeCorrect == Spec => [](Types /\ Known)
<1>1. Structure => Types /\ Known
      BY DEF Structure
<1> QED BY <1>1, StructureHolds, PTL

\* The answer to a request is taken for nothing else, and has what the request
\* was for: tags are given once, whatever workers are replaced, requests are
\* forgotten and answers come late (send_kind and on_reply of AppModel).
THEOREM AnswersMeetTheirRequests == Spec => [](Tags /\ Fitting)
<1>1. Structure => Tags /\ Fitting
      BY DEF Structure
<1> QED BY <1>1, StructureHolds, PTL

\* Once everything is answered the window shows what the daemon renders.
THEOREM MirrorsAreTrue == Spec => []MirrorIsTrue
<1>1. Inv => MirrorIsTrue
      BY SettledMirror DEF MirrorIsTrue
<1> QED BY <1>1, InvHolds, PTL
-----------------------------------------------------------------------------
(* Marking.  The order of requests.                                        *)

\* The requests of the worker in use that have no answer yet, in the order they
\* are made: the one it waits for (0) and its queue.
Open == DOMAIN Queue(worker) \cup {i \in {0} : Asks(worker)}
At(i) == IF i = 0 THEN workers[worker].request ELSE Queue(worker)[i]
AtWork == HasStream(worker) \/ workers[worker].phase = "new"

IsFor(tag, kinds) == \E p \in pending : p.tag = tag /\ p.kind \in kinds
Resync(i) == IsFor(At(i).tag, {"ResyncBaseline"})
Change(i) == At(i).cmd.op \in {"edit", "save_preset"}
Accepts(m) == m.is = "reply" /\ m.r.ok

\* Tags grow along the way: answers, request, queue.
InTurn ==
    /\ \A i, j \in Open : i < j => At(i).tag < At(j).tag
    /\ \A k \in DOMAIN inbox, i \in Open : Accepts(inbox[k]) => inbox[k].tag < At(i).tag
\* No change is asked for after a switch, revert or reload without an answer.
ChangesAreEarlier ==
    \A p \in pending, i \in Open : p.kind \in Leaving /\ Change(i) => At(i).tag < p.tag
\* No change is made before the baseline is fetched.
ChangesAreLater ==
    \A i, j \in Open : Change(i) /\ Resync(j) => j < i
\* The name is fetched right before the baseline.
Refetching ==
    /\ \A i \in Open : At(i).cmd.op = "current_preset" => i + 1 \in Open /\ Resync(i + 1)
    /\ \A i \in Open : i - 1 \in Open /\ Resync(i) => At(i - 1).cmd.op = "current_preset"
Order == AtWork => InTurn /\ ChangesAreEarlier /\ ChangesAreLater /\ Refetching

\* What the requests are.
LEMMA OpenIs ==
    ASSUME Types
    PROVE  /\ Open \subseteq Nat /\ \A i \in Open : At(i) \in Entry
           /\ \A i \in Open : i # 0 => i \in DOMAIN Queue(worker) /\ At(i) = Queue(worker)[i]
           /\ 0 \in Open <=> Asks(worker)
           /\ At(0) = workers[worker].request
           /\ \A i \in DOMAIN Queue(worker) : i \in Open /\ i # 0 /\ At(i) = Queue(worker)[i]
           /\ \A i \in Open, j \in Nat : j # 0 /\ j < i => j \in Open
<1>1. worker \in Worker
      BY DEF Types
<1>2. /\ Queue(worker) \in Seq(Entry) /\ workers[worker].request \in Entry \cup {Absent}
      /\ DOMAIN Queue(worker) = 1..Len(Queue(worker)) /\ Len(Queue(worker)) \in Nat
      BY <1>1, WorkerTyped
<1>3. \A i \in DOMAIN Queue(worker) : Queue(worker)[i] \in Entry /\ i \in Nat /\ i # 0
      BY <1>2
<1> QED BY <1>2, <1>3 DEF Open, At, Asks

\* They are numbered after the step as before it.
LEMMA OpenNext ==
    ASSUME Types'
    PROVE  Open' \subseteq Nat
<1>1. (workers[worker].queue \in Seq(Entry))'
      BY DEF Types, WorkerState
<1>2. DOMAIN Queue(worker)' \subseteq Nat
      BY <1>1 DEF Queue
<1> QED BY <1>2 DEF Open

\* The requests move up by d places, or the first is answered.
LEMMA OrderMoves ==
    ASSUME Types, Types', Order, AtWork' => AtWork, NEW d \in {0, 1},
           AtWork' => \A i \in Open' :
               i + d \in Open /\ At(i)' = At(i + d) /\ (i + d + 1 \in Open => i + 1 \in Open'),
           AtWork' => UNCHANGED pending,
           AtWork' => \A k \in DOMAIN inbox' : Accepts(inbox'[k]) =>
               \/ \E j \in DOMAIN inbox : inbox'[k] = inbox[j]
               \/ \A i \in Open' : inbox'[k].tag < At(i)'.tag
    PROVE  Order'
<1> SUFFICES ASSUME AtWork' PROVE (InTurn /\ ChangesAreEarlier /\ ChangesAreLater /\ Refetching)'
    BY DEF Order
<1>1. InTurn /\ ChangesAreEarlier /\ ChangesAreLater /\ Refetching
      BY DEF Order
<1>2. Open \subseteq Nat /\ Open' \subseteq Nat
      BY OpenIs, OpenNext
<1>3. \A i \in Open' : (Resync(i)' <=> Resync(i + d)) /\ (Change(i)' <=> Change(i + d))
      BY DEF Resync, Change, IsFor
<1>4. InTurn'
  <2>1. \A i, j \in Open' : i < j => At(i)'.tag < At(j)'.tag
      BY <1>1, <1>2 DEF InTurn
  <2>2. \A k \in DOMAIN inbox', i \in Open' : Accepts(inbox'[k]) => inbox'[k].tag < At(i)'.tag
      BY <1>1 DEF InTurn
  <2> QED BY <2>1, <2>2 DEF InTurn, Accepts
<1>5. ChangesAreEarlier'
      BY <1>1, <1>3 DEF ChangesAreEarlier
<1>6. ChangesAreLater'
      BY <1>1, <1>2, <1>3 DEF ChangesAreLater
<1>7. Refetching'
  <2>1. \A i \in Open' : At(i)'.cmd.op = "current_preset" => i + 1 \in Open' /\ Resync(i + 1)'
    <3> SUFFICES ASSUME NEW i \in Open', At(i)'.cmd.op = "current_preset"
                 PROVE  i + 1 \in Open' /\ Resync(i + 1)'
        OBVIOUS
    <3>1. i + d \in Open /\ i + d + 1 \in Open /\ Resync(i + d + 1)
        BY <1>1 DEF Refetching
    <3>2. i + 1 \in Open' /\ i + 1 + d = i + d + 1
        BY <1>2, <3>1
    <3> QED BY <1>3, <3>1, <3>2
  <2>2. \A i \in Open' : i - 1 \in Open' /\ Resync(i)' => At(i - 1)'.cmd.op = "current_preset"
    <3> SUFFICES ASSUME NEW i \in Open', i - 1 \in Open', Resync(i)'
                 PROVE  At(i - 1)'.cmd.op = "current_preset"
        OBVIOUS
    <3>1. i + d \in Open /\ (i - 1) + d \in Open /\ (i - 1) + d = (i + d) - 1 /\ Resync(i + d)
        BY <1>2, <1>3
    <3>2. At((i + d) - 1).cmd.op = "current_preset"
        BY <1>1, <3>1 DEF Refetching
    <3> QED BY <3>1, <3>2
  <2> QED BY <2>1, <2>2 DEF Refetching
<1> QED BY <1>4, <1>5, <1>6, <1>7

\* The requests after a batch is sent: those from before and those of the batch.
LineGrown(n, msgs) ==
    /\ n \in Nat
    /\ \A i \in Open : /\ i \in Open' /\ At(i)' = At(i) /\ At(i).tag < nextTag /\ i <= n
                       /\ (Resync(i)' <=> Resync(i)) /\ (Change(i)' <=> Change(i))
    /\ \A k \in DOMAIN msgs : n + k \in Open'
    /\ \A i \in Open' :
          \/ i \in Open
          \/ \E k \in DOMAIN msgs :
                /\ i = n + k /\ i \notin Open
                /\ At(i)' = [tag |-> nextTag + k - 1, cmd |-> msgs[k].cmd]
                /\ Resync(i)' <=> msgs[k].kind = "ResyncBaseline"
\* So they are after SendAll.
LEMMA LineGrows ==
    ASSUME Structure, NEW left \in SUBSET pending, NEW msgs \in Seq(Outgoing),
           SendEffect(left, msgs),
           \A i \in Open, p \in pending : p.tag = At(i).tag => p \in left,
           NEW n, n = Len(Queue(worker))
    PROVE  LineGrown(n, msgs)
<1> DEFINE N(k) == [tag |-> nextTag + k - 1, cmd |-> msgs[k].cmd]
<1>1. /\ Types /\ TagsBelow /\ worker \in Worker /\ nextTag \in Nat /\ worker' = worker
      /\ DOMAIN msgs = 1..Len(msgs) /\ Len(msgs) \in Nat
      BY DEF Structure, Tags, Types, SendEffect, link
<1>2. /\ Queue(worker) \in Seq(Entry) /\ n \in Nat /\ DOMAIN Queue(worker) = 1..n
      BY <1>1, WorkerTyped
<1>3. /\ Queue(worker)' \in Seq(Entry) /\ Len(Queue(worker)') = n + Len(msgs)
      /\ DOMAIN Queue(worker)' = 1..(n + Len(msgs))
      /\ \A i \in 1..n : Queue(worker)'[i] = Queue(worker)[i]
      /\ \A k \in DOMAIN msgs : Queue(worker)'[n + k] = N(k)
      /\ workers'[worker].request = workers[worker].request
  <2> DEFINE q == workers'[worker].queue
  <2>1. workers'[worker] \in WorkerState
      BY <1>1 DEF SendEffect
  <2>2. q \in Seq(Entry)
      BY <2>1 DEF WorkerState
  <2>3. /\ Len(q) = n + Len(msgs)
        /\ \A i \in 1..n : q[i] = Queue(worker)[i]
        /\ \A k \in DOMAIN msgs : q[n + k] = N(k)
        /\ workers'[worker].request = workers[worker].request
      BY <1>1 DEF SendEffect
  <2>4. Queue(worker)' = q
      BY <1>1 DEF Queue
  <2>5. DOMAIN q = 1..(n + Len(msgs))
      BY <2>2, <2>3
  <2> QED BY <2>2, <2>3, <2>4, <2>5
<1>4. \A i \in Open : At(i).tag < nextTag /\ At(i).tag \in Nat
  <2>1. \A i \in DOMAIN Queue(worker) : Queue(worker)[i].tag < nextTag
      BY <1>1 DEF TagsBelow
  <2>2. Asks(worker) => workers[worker].request.tag < nextTag
      BY <1>1 DEF TagsBelow
  <2>3. \A i \in Open : At(i) \in Entry /\ (i # 0 => i \in DOMAIN Queue(worker) /\ At(i) = Queue(worker)[i])
      BY <1>1, OpenIs
  <2>4. At(0) = workers[worker].request /\ (0 \in Open <=> Asks(worker))
      BY <1>1, OpenIs
  <2> QED BY <2>1, <2>2, <2>3, <2>4 DEF Entry
<1>5. /\ \A i \in Open : i \in Open' /\ At(i)' = At(i) /\ i <= n
      /\ \A k \in DOMAIN msgs : n + k \in Open' /\ n + k \notin Open /\ At(n + k)' = N(k)
      /\ \A i \in Open' : i \in Open \/ \E k \in DOMAIN msgs : i = n + k
  <2>1. Open = (1..n) \cup {i \in {0} : Asks(worker)}
      BY <1>2 DEF Open
  <2>2. Open' = (1..(n + Len(msgs))) \cup {i \in {0} : Asks(worker)}
      BY <1>1, <1>3 DEF Open, Asks
  <2>3. \A i : At(i)' = IF i = 0 THEN workers[worker].request ELSE Queue(worker)'[i]
      BY <1>1, <1>3 DEF At
  <2>4. \A i : At(i) = IF i = 0 THEN workers[worker].request ELSE Queue(worker)[i]
      BY DEF At
  <2>5. \A i \in Open : i \in Open' /\ i <= n /\ i \in Nat
      BY <1>1, <1>2, <2>1, <2>2
  <2>6. \A i \in Open : At(i)' = At(i)
      BY <1>3, <2>1, <2>3, <2>4
  <2>7. \A k \in DOMAIN msgs : n + k \in Open' /\ n + k \notin Open /\ n + k # 0
      BY <1>1, <1>2, <2>1, <2>2
  <2>8. \A k \in DOMAIN msgs : At(n + k)' = N(k)
    <3> TAKE k \in DOMAIN msgs
    <3>1. n + k # 0
        BY <2>7
    <3>2. At(n + k)' = Queue(worker)'[n + k]
        BY <2>3, <3>1
    <3> HIDE DEF N
    <3> QED BY <1>3, <3>2
  <2>9. \A i \in Open' : i \in Open \/ \E k \in DOMAIN msgs : i = n + k
    <3> SUFFICES ASSUME NEW i \in Open', i \notin Open PROVE \E k \in DOMAIN msgs : i = n + k
        OBVIOUS
    <3>1. i \in Nat /\ i > n /\ i <= n + Len(msgs)
        BY <1>1, <1>2, <2>1, <2>2
    <3>2. i - n \in DOMAIN msgs /\ i = n + (i - n)
        BY <1>1, <1>2, <3>1
    <3> QED BY <3>2
  <2> HIDE DEF N
  <2> QED BY <2>5, <2>6, <2>7, <2>8, <2>9
<1>6. /\ left \subseteq pending'
      /\ \A p \in pending' \ left : \E k \in DOMAIN msgs : p.tag = nextTag + k - 1 /\ p.kind = msgs[k].kind
      /\ \A k \in DOMAIN msgs : \E p \in pending' : p.tag = nextTag + k - 1 /\ p.kind = msgs[k].kind
      BY <1>1 DEF SendEffect
<1>7. \A p \in left : p.tag < nextTag /\ p.tag \in Nat
      BY <1>1 DEF TagsBelow, Types, Request
<1>8. \A i \in Open : (Resync(i)' <=> Resync(i)) /\ (Change(i)' <=> Change(i))
  <2> TAKE i \in Open
  <2>1. \A p \in pending' : p.tag = At(i).tag => p \in left
      BY <1>1, <1>4, <1>6
  <2>2. \A p \in pending : p.tag = At(i).tag => p \in pending'
      BY <1>6
  <2>3. At(i)' = At(i)
      BY <1>5
  <2> QED BY <2>1, <2>2, <2>3 DEF Resync, Change, IsFor
<1>9. \A k \in DOMAIN msgs : Resync(n + k)' <=> msgs[k].kind = "ResyncBaseline"
  <2> TAKE k \in DOMAIN msgs
  <2>1. At(n + k)' = N(k)
      BY <1>5
  <2>0. At(n + k)'.tag = nextTag + k - 1
      BY <2>1
  <2>2. \A p \in pending' : p.tag = nextTag + k - 1 => p.kind = msgs[k].kind
      BY <1>1, <1>6, <1>7
  <2> QED BY <1>6, <2>0, <2>2 DEF Resync, IsFor
<1>10. \A i \in Open' : i \notin Open => \E k \in DOMAIN msgs :
                /\ i = n + k /\ i \notin Open /\ At(i)' = N(k)
                /\ Resync(i)' <=> msgs[k].kind = "ResyncBaseline"
  <2> TAKE i \in Open'
  <2> HAVE i \notin Open
  <2>1. PICK k \in DOMAIN msgs : i = n + k
      BY <1>5
  <2> HIDE DEF N
  <2> QED BY <1>5, <1>9, <2>1
<1> QED BY <1>2, <1>4, <1>5, <1>8, <1>10 DEF LineGrown

\* A batch keeps the order: a change goes alone, with nothing left to leave,
\* and a name is fetched with its baseline when no change is open.
Orderly(left, msgs) ==
    /\ \A k \in DOMAIN msgs : msgs[k].cmd.op \in {"edit", "save_preset"} =>
          /\ \A p \in left : p.kind \notin Leaving
          /\ \A j \in DOMAIN msgs : msgs[j].kind \notin Leaving
    /\ \A k \in DOMAIN msgs : msgs[k].cmd.op = "current_preset" =>
          k + 1 \in DOMAIN msgs /\ msgs[k + 1].kind = "ResyncBaseline"
    /\ \A k \in DOMAIN msgs : msgs[k].kind = "ResyncBaseline" =>
          /\ k - 1 \in DOMAIN msgs /\ msgs[k - 1].cmd.op = "current_preset"
          /\ \A j \in DOMAIN msgs : msgs[j].cmd.op \notin {"edit", "save_preset"}
          /\ \A i \in Open : ~Change(i)

\* A batch like that leaves the requests in order.
LEMMA OrderSends ==
    ASSUME Structure, Order, NEW left \in SUBSET pending, NEW msgs \in Seq(Outgoing),
           SendEffect(left, msgs), Orderly(left, msgs),
           \A i \in Open, p \in pending : p.tag = At(i).tag => p \in left,
           AtWork' => AtWork,
           \A k \in DOMAIN inbox' : Accepts(inbox'[k]) => \E j \in DOMAIN inbox : inbox'[k] = inbox[j]
    PROVE  Order'
<1> SUFFICES ASSUME AtWork' PROVE (InTurn /\ ChangesAreEarlier /\ ChangesAreLater /\ Refetching)'
    BY DEF Order
<1> PICK n : n = Len(Queue(worker))
    OBVIOUS
<1> DEFINE N(k) == [tag |-> nextTag + k - 1, cmd |-> msgs[k].cmd]
           Old(i) == i \in Open /\ At(i)' = At(i) /\ At(i).tag < nextTag /\ i <= n
                     /\ (Resync(i)' <=> Resync(i)) /\ (Change(i)' <=> Change(i))
           New(i, k) == i = n + k /\ i \notin Open /\ At(i)' = N(k)
                        /\ (Resync(i)' <=> msgs[k].kind = "ResyncBaseline")
<1>1. /\ InTurn /\ ChangesAreEarlier /\ ChangesAreLater /\ Refetching
      /\ Types /\ TagsBelow /\ nextTag \in Nat /\ DOMAIN msgs \subseteq Nat /\ Open \subseteq Nat
      /\ \A k \in DOMAIN msgs : k > 0
      BY OpenIs DEF Order, Structure, Tags, Types
<1>2. /\ n \in Nat
      /\ \A i \in Open : i \in Open' /\ Old(i)
      /\ \A k \in DOMAIN msgs : n + k \in Open'
      /\ \A i \in Open' : Old(i) \/ \E k \in DOMAIN msgs : New(i, k)
  <2>1. LineGrown(n, msgs)
      BY LineGrows
  <2> QED BY <2>1 DEF LineGrown
<1>0. n \in Nat
      BY <1>2
<1>3. \A i \in Open : At(i).tag \in Nat
      BY <1>1, OpenIs DEF Entry
<1>4. \A k \in DOMAIN msgs : N(k).tag = nextTag + k - 1 /\ N(k).tag >= nextTag /\ N(k).cmd = msgs[k].cmd
      BY <1>1
<1> HIDE DEF N
<1>5. InTurn'
  <2>1. \A i, j \in Open' : i < j => At(i)'.tag < At(j)'.tag
    <3> SUFFICES ASSUME NEW i \in Open', NEW j \in Open', i < j PROVE At(i)'.tag < At(j)'.tag
        OBVIOUS
    <3>1. CASE Old(i) /\ Old(j)
        BY <1>1, <3>1 DEF InTurn
    <3>2. ASSUME Old(i), NEW k \in DOMAIN msgs, New(j, k) PROVE At(i)'.tag < At(j)'.tag
        BY <1>1, <1>3, <1>4, <3>2
    <3>3. ASSUME Old(j), NEW k \in DOMAIN msgs, New(i, k) PROVE FALSE
      <4>1. j <= n /\ j \in Nat /\ i = n + k /\ k \in Nat /\ k > 0
          BY <1>1, <3>3
      <4> QED BY <1>0, <4>1
    <3>4. ASSUME NEW k \in DOMAIN msgs, New(i, k), NEW h \in DOMAIN msgs, New(j, h)
          PROVE  At(i)'.tag < At(j)'.tag
      <4>1. k < h
          BY <1>1, <1>2, <3>4
      <4> QED BY <1>1, <1>4, <3>4, <4>1
    <3> HIDE DEF Old, New
    <3> QED BY <1>2, <3>1, <3>2, <3>3, <3>4
  <2>2. \A k \in DOMAIN inbox', i \in Open' : Accepts(inbox'[k]) => inbox'[k].tag < At(i)'.tag
    <3> SUFFICES ASSUME NEW k \in DOMAIN inbox', NEW i \in Open', Accepts(inbox'[k])
                 PROVE  inbox'[k].tag < At(i)'.tag
        OBVIOUS
    <3>1. PICK j \in DOMAIN inbox : inbox'[k] = inbox[j]
        OBVIOUS
    <3>2. Accepts(inbox[j]) /\ inbox[j].tag \in Nat /\ inbox[j].tag < nextTag
        BY <1>1, <3>1, Elements, Read DEF Accepts, TagsBelow, Answers, Types
    <3>3. CASE Old(i)
        BY <1>1, <3>1, <3>2, <3>3 DEF InTurn
    <3>4. ASSUME NEW h \in DOMAIN msgs, New(i, h) PROVE inbox'[k].tag < At(i)'.tag
        BY <1>1, <1>4, <3>1, <3>2, <3>4
    <3> HIDE DEF Old, New
    <3> QED BY <1>2, <3>3, <3>4
  <2> QED BY <2>1, <2>2 DEF InTurn, Accepts
<1>6. \A p \in pending' : p \in left \/ \E k \in DOMAIN msgs : p.tag = nextTag + k - 1 /\ p.kind = msgs[k].kind
      BY DEF SendEffect
<1>7. ChangesAreEarlier'
  <2> SUFFICES ASSUME NEW p \in pending', NEW i \in Open', p.kind \in Leaving, Change(i)'
               PROVE  At(i)'.tag < p.tag
      BY DEF ChangesAreEarlier
  <2>1. CASE Old(i) /\ p \in left
      BY <1>1, <2>1 DEF ChangesAreEarlier
  <2>2. ASSUME Old(i), NEW k \in DOMAIN msgs, p.tag = nextTag + k - 1 PROVE At(i)'.tag < p.tag
      BY <1>1, <1>3, <2>2
  <2>3. ASSUME NEW k \in DOMAIN msgs, New(i, k) PROVE FALSE
    <3>1. msgs[k].cmd.op \in {"edit", "save_preset"}
        BY <1>4, <2>3 DEF Change
    <3> QED BY <1>6, <3>1 DEF Orderly
  <2> HIDE DEF Old, New
  <2> QED BY <1>2, <1>6, <2>1, <2>2, <2>3
<1>8. ChangesAreLater'
  <2> SUFFICES ASSUME NEW i \in Open', NEW j \in Open', Change(i)', Resync(j)'
               PROVE  j < i
      BY DEF ChangesAreLater
  <2>1. CASE Old(i) /\ Old(j)
      BY <1>1, <2>1 DEF ChangesAreLater
  <2>2. ASSUME Old(j), NEW k \in DOMAIN msgs, New(i, k) PROVE j < i
    <3>1. j <= n /\ j \in Nat /\ i = n + k /\ k \in Nat /\ k > 0
        BY <1>1, <2>2
    <3> QED BY <1>0, <3>1
  <2>3. ASSUME NEW h \in DOMAIN msgs, New(j, h) PROVE FALSE
    <3>1. msgs[h].kind = "ResyncBaseline"
        BY <2>3
    <3>2. CASE Old(i)
        BY <3>1, <3>2 DEF Orderly
    <3>3. ASSUME NEW k \in DOMAIN msgs, New(i, k) PROVE FALSE
      <4>1. msgs[k].cmd.op \in {"edit", "save_preset"}
          BY <1>4, <3>3 DEF Change
      <4> QED BY <3>1, <4>1 DEF Orderly
    <3> HIDE DEF Old, New
    <3> QED BY <1>2, <3>2, <3>3
  <2> HIDE DEF Old, New
  <2> QED BY <1>2, <2>1, <2>2, <2>3
<1>9. Refetching'
  <2>1. \A i \in Open' : At(i)'.cmd.op = "current_preset" => i + 1 \in Open' /\ Resync(i + 1)'
    <3> SUFFICES ASSUME NEW i \in Open', At(i)'.cmd.op = "current_preset"
                 PROVE  i + 1 \in Open' /\ Resync(i + 1)'
        OBVIOUS
    <3>1. CASE Old(i)
      <4>1. i + 1 \in Open /\ Resync(i + 1)
          BY <1>1, <3>1 DEF Refetching
      <4> QED BY <1>2, <4>1
    <3>2. ASSUME NEW k \in DOMAIN msgs, New(i, k) PROVE i + 1 \in Open' /\ Resync(i + 1)'
      <4>1. k + 1 \in DOMAIN msgs /\ msgs[k + 1].kind = "ResyncBaseline"
          BY <1>4, <3>2 DEF Orderly
      <4>2. i + 1 = n + (k + 1)
          BY <1>1, <1>2, <3>2
      <4> QED BY <1>2, <4>1, <4>2
    <3> HIDE DEF Old, New
    <3> QED BY <1>2, <3>1, <3>2
  <2>2. \A i \in Open' : i - 1 \in Open' /\ Resync(i)' => At(i - 1)'.cmd.op = "current_preset"
    <3> SUFFICES ASSUME NEW i \in Open', i - 1 \in Open', Resync(i)'
                 PROVE  At(i - 1)'.cmd.op = "current_preset"
        OBVIOUS
    <3>1. CASE Old(i)
      <4>1. i - 1 \in Open
        <5>1. ASSUME NEW k \in DOMAIN msgs, New(i - 1, k) PROVE FALSE
          <6>1. i <= n /\ i \in Nat /\ i - 1 = n + k /\ k \in Nat /\ k > 0
              BY <1>1, <3>1, <5>1
          <6> QED BY <1>0, <6>1
        <5> QED BY <1>2, <5>1
      <4>2. At(i - 1)' = At(i - 1)
          BY <1>2, <4>1
      <4> QED BY <1>1, <3>1, <4>1, <4>2 DEF Refetching
    <3>2. ASSUME NEW k \in DOMAIN msgs, New(i, k) PROVE At(i - 1)'.cmd.op = "current_preset"
      <4>1. k - 1 \in DOMAIN msgs /\ msgs[k - 1].cmd.op = "current_preset"
          BY <3>2 DEF Orderly
      <4>2. i - 1 = n + (k - 1)
          BY <1>1, <1>2, <3>2
      <4>3. At(n + (k - 1))' = N(k - 1)
          BY <1>2, <4>1
      <4> QED BY <1>4, <4>1, <4>2, <4>3
    <3> HIDE DEF Old, New
    <3> QED BY <1>2, <3>1, <3>2
  <2> QED BY <2>1, <2>2 DEF Refetching
<1> QED BY <1>5, <1>7, <1>8, <1>9

\* One message that is no fetch keeps the order, and so does a new chain.
LEMMA OneOrderly ==
    ASSUME NEW m \in Outgoing, m.kind \notin {"CurrentPreset", "ResyncBaseline"},
           m.cmd.op \in {"edit", "save_preset"} => ~Switching
    PROVE  /\ <<m>> \in Seq(Outgoing) /\ Orderly(pending, <<m>>)
           /\ \A k \in DOMAIN <<m>> : <<m>>[k].kind # "ResyncBaseline"
<1>1. Fits(m.kind, m.value, m.cmd) /\ m.kind \in Kind
      BY DEF Outgoing
<1>2. m.cmd.op # "current_preset"
      BY <1>1 DEF Fits, Kind, Leaving, Fetching, Edit, Plain
<1>3. m.cmd.op \in {"edit", "save_preset"} => m.kind \notin Leaving
      BY <1>1 DEF Fits, Leaving, Plain
<1>4. DOMAIN <<m>> = {1} /\ <<m>>[1] = m
      OBVIOUS
<1>5. ~Switching => \A p \in pending : p.kind \notin Leaving
      BY DEF Switching, Leaving
<1> QED BY <1>2, <1>3, <1>4, <1>5 DEF Orderly

\* What the operator sends keeps the order, unless a change overtakes a switch.
LEMMA ActingOrderly ==
    ASSUME Types, Known, WindowActs, ~overtaken'
    PROVE  \/ UNCHANGED <<requests, workers>>
           \/ \E msgs \in Seq(Outgoing) :
                 /\ SendEffect(pending, msgs) /\ Orderly(pending, msgs)
                 /\ \A k \in DOMAIN msgs : msgs[k].kind # "ResyncBaseline"
<1> DEFINE Fine == \E msgs \in Seq(Outgoing) :
                 /\ SendEffect(pending, msgs) /\ Orderly(pending, msgs)
                 /\ \A k \in DOMAIN msgs : msgs[k].kind # "ResyncBaseline"
<1> SUFFICES Fine \/ UNCHANGED <<requests, workers>>
    OBVIOUS
<1> USE DEF Msg
<1>1. ASSUME NEW msgs \in Seq(Outgoing), Send(msgs), Orderly(pending, msgs),
             \A k \in DOMAIN msgs : msgs[k].kind # "ResyncBaseline"
      PROVE  Fine
      BY <1>1, SendingIs DEF Send
<1>2. ASSUME NEW m \in Outgoing, Send(<<m>>), m.kind \notin {"CurrentPreset", "ResyncBaseline"},
             m.cmd.op \in {"edit", "save_preset"} => ~Switching
      PROVE  Fine
  <2> HIDE DEF Fine
  <2> QED BY <1>1, <1>2, OneOrderly
<1>3. ASSUME NEW m \in Question, Send(<<m>>)
      PROVE  Fine
  <2>1. /\ m \in Outgoing /\ m.kind \in Leaving /\ Fits(m.kind, m.value, m.cmd)
      BY <1>3 DEF Question, Outgoing
  <2>2. m.cmd.op \notin {"edit", "save_preset"} /\ m.kind \notin {"CurrentPreset", "ResyncBaseline"}
      BY <2>1 DEF Fits, Leaving, Plain
  <2> HIDE DEF Fine
  <2> QED BY <1>2, <1>3, <2>1, <2>2
<1>4. \A v \in Value : /\ SetParam(v) \in Outgoing /\ SetEnabled(v) \in Outgoing
                       /\ SetChain(v) \in Outgoing /\ KeepBaseline \in Outgoing
  <2> TAKE v \in Value
  <2>1. Batch(<<SetParam(v)>>) /\ Batch(<<SetEnabled(v)>>) /\ Batch(<<SetChain(v), KeepBaseline>>)
      BY Batches
  <2>2. <<SetParam(v)>> \in Seq(Outgoing) /\ <<SetEnabled(v)>> \in Seq(Outgoing)
        /\ <<SetChain(v), KeepBaseline>> \in Seq(Outgoing)
      BY <2>1 DEF Batch
  <2>3. \A a : <<a>> \in Seq(Outgoing) => a \in Outgoing
      OBVIOUS
  <2>4. \A a, b : <<a, b>> \in Seq(Outgoing) => a \in Outgoing /\ b \in Outgoing
      OBVIOUS
  <2> QED BY <2>2, <2>3, <2>4
<1>5. Batch(<<Save>>) /\ Save \in Outgoing
  <2>1. <<Save>> \in Seq(Outgoing)
      BY Batches DEF Batch
  <2>2. \A a : <<a>> \in Seq(Outgoing) => a \in Outgoing
      OBVIOUS
  <2> QED BY <2>1, <2>2, Batches
<1> HIDE DEF Fine
<1>6. CASE DebounceFires
  <2>1. debounced \in Value /\ Send(<<SetParam(debounced)>>) /\ ~Switching
      BY <1>6 DEF DebounceFires, Types
  <2>2. SetParam(debounced).kind = "SetParam"
      BY DEF SetParam
  <2> QED BY <1>2, <1>4, <2>1, <2>2
<1>7. ASSUME NEW v \in Value, Drag(v) \/ Toggle(v) \/ EditChain(v)
      PROVE  Fine \/ UNCHANGED <<requests, workers>>
  <2>1. CASE Toggle(v)
    <3>1. Send(<<SetEnabled(v)>>) /\ ~Switching
        BY <2>1 DEF Toggle
    <3>2. SetEnabled(v).kind = "SetEnabled"
        BY DEF SetEnabled
    <3> QED BY <1>2, <1>4, <3>1, <3>2
  <2>2. CASE EditChain(v)
    <3> DEFINE s == <<SetChain(v), KeepBaseline>>
    <3>1. Send(s) /\ ~Switching
        BY <2>2 DEF EditChain
    <3>2. s \in Seq(Outgoing) /\ DOMAIN s = {1, 2} /\ s[1] = SetChain(v) /\ s[2] = KeepBaseline
        BY <1>4
    <3>3. /\ SetChain(v).kind = "Other" /\ SetChain(v).cmd.op = "edit"
          /\ KeepBaseline.kind = "KeepBaseline" /\ KeepBaseline.cmd.op = "get_config"
        BY DEF SetChain, KeepBaseline, Edit, Plain
    <3>4. \A p \in pending : p.kind \notin Leaving
        BY <3>1 DEF Switching, Leaving
    <3> HIDE DEF s
    <3>5. Orderly(pending, s) /\ \A k \in DOMAIN s : s[k].kind # "ResyncBaseline"
        BY <3>2, <3>3, <3>4 DEF Orderly, Leaving
    <3> QED BY <1>1, <3>1, <3>2, <3>5
  <2> QED BY <1>7, <2>1, <2>2 DEF Drag
<1>8. ASSUME NEW m \in Question, Leave(m) PROVE Fine
      BY <1>3, <1>8 DEF Leave
<1>9. ASSUME NEW n \in Name, PickPreset(n)
      PROVE  Fine \/ UNCHANGED <<requests, workers>>
  <2>1. SwitchTo(n) \in Question
      BY Batches
  <2> QED BY <1>8, <1>9, <2>1 DEF PickPreset, AskIfDirty, Ask
<1>10. CASE PressRevert
      BY <1>10 DEF PressRevert, Ask
<1>11. CASE PressReload
  <2>1. Reload \in Question
      BY Batches
  <2> QED BY <1>8, <1>11, <2>1 DEF PressReload, AskIfDirty, Ask
<1>12. CASE PressSave
  <2>1. Send(<<Save>>) /\ ~Switching
      BY <1>12 DEF PressSave
  <2>2. Save.kind = "Save"
      BY DEF Save
  <2> QED BY <1>2, <1>5, <2>1, <2>2
<1>13. CASE Confirm
  <2>1. name \in Name /\ dialog \in Question
      BY <1>13 DEF Confirm, Known, Types
  <2>2. Revert \in Question
      BY <2>1, Batches
  <2> QED BY <1>8, <1>13, <2>1, <2>2 DEF Confirm
<1>14. CASE Dismiss
      BY <1>14 DEF Dismiss
<1> QED BY <1>6, <1>7, <1>9, <1>10, <1>11, <1>12, <1>13, <1>14 DEF WindowActs

\* What the window sends after an answer: nothing has a change in it.
LEMMA FollowUpOrderly ==
    ASSUME NEW left, NEW p \in Request, NEW r
    PROVE  /\ FollowUp(p, r) \in Seq(Outgoing)
           /\ (r.ok /\ p.kind \in Leaving => \A i \in Open : ~Change(i)) => Orderly(left, FollowUp(p, r))
           /\ r.ok /\ p.kind \in Leaving <=>
                \E k \in DOMAIN FollowUp(p, r) : FollowUp(p, r)[k].kind = "ResyncBaseline"
           /\ 1 \in DOMAIN FollowUp(p, r) => FollowUp(p, r)[1].kind # "ResyncBaseline"
<1> USE DEF Msg
<1>1. CASE r.ok /\ p.kind \in Leaving
  <2>1. FollowUp(p, r) = <<CurrentPreset, ResyncBaseline>>
      BY <1>1 DEF FollowUp, RefetchActive, Leaving
  <2>2. /\ CurrentPreset.kind = "CurrentPreset" /\ CurrentPreset.cmd.op = "current_preset"
        /\ ResyncBaseline.kind = "ResyncBaseline" /\ ResyncBaseline.cmd.op = "get_config"
      BY DEF CurrentPreset, ResyncBaseline, Plain
  <2>3. <<CurrentPreset, ResyncBaseline>> \in Seq(Outgoing)
      BY Batches DEF Batch, RefetchActive
  <2> DEFINE s == <<CurrentPreset, ResyncBaseline>>
  <2>4. DOMAIN s = {1, 2} /\ s[1] = CurrentPreset /\ s[2] = ResyncBaseline
      OBVIOUS
  <2> HIDE DEF s
  <2>5. /\ \A k \in DOMAIN s : s[k].cmd.op \notin {"edit", "save_preset"}
        /\ \A k \in DOMAIN s : s[k].cmd.op = "current_preset" =>
             k + 1 \in DOMAIN s /\ s[k + 1].kind = "ResyncBaseline"
        /\ \A k \in DOMAIN s : s[k].kind = "ResyncBaseline" =>
             k - 1 \in DOMAIN s /\ s[k - 1].cmd.op = "current_preset"
        /\ s[1].kind # "ResyncBaseline"
        /\ \E k \in DOMAIN s : s[k].kind = "ResyncBaseline"
      BY <2>2, <2>4
  <2>6. (\A i \in Open : ~Change(i)) => Orderly(left, s)
      BY <2>5 DEF Orderly
  <2> QED BY <1>1, <2>1, <2>3, <2>5, <2>6 DEF s
<1>2. CASE r.ok /\ p.kind = "SetEnabled"
  <2>1. FollowUp(p, r) = <<GetConfigQuiet>>
      BY <1>2 DEF FollowUp
  <2>2. GetConfigQuiet.kind = "GetConfigQuiet" /\ GetConfigQuiet.cmd.op = "get_config"
      BY DEF GetConfigQuiet, Plain
  <2>3. <<GetConfigQuiet>> \in Seq(Outgoing) /\ DOMAIN <<GetConfigQuiet>> = {1}
        /\ <<GetConfigQuiet>>[1] = GetConfigQuiet
      BY Batches DEF Batch
  <2> QED BY <1>2, <2>1, <2>2, <2>3 DEF Orderly, Leaving
<1>3. CASE ~r.ok \/ p.kind \notin Leaving \cup {"SetEnabled"}
  <2>1. FollowUp(p, r) = <<>>
      BY <1>3 DEF FollowUp, Leaving
  <2>2. <<>> \in Seq(Outgoing) /\ DOMAIN <<>> = {}
      OBVIOUS
  <2> QED BY <1>3, <2>1, <2>2 DEF Orderly
<1> QED BY <1>1, <1>2, <1>3

\* What the window hears nothing of: answers that refuse, and its own messages.
Idle(m) == m.is \in {"retry", "tick"} \/ (m.is = "reply" /\ ~m.r.ok)

\* A step that is nothing to the window, the daemon's state and the worker in use.
Aside ==
    /\ UNCHANGED <<status, mirror, pending, nextTag, worker, alive, active, mem, saved>>
    /\ workers'[worker].phase = workers[worker].phase
    /\ workers'[worker].queue = Queue(worker)
    /\ workers'[worker].request = workers[worker].request
    /\ workers'[worker].linked = workers[worker].linked
    /\ UNCHANGED call \/ (~Late /\ ~Late') \/ workers[worker].phase \in {"closed", "gone"}
    /\ inbox' = inbox \/ \E m \in Message : Idle(m) /\ inbox' = Append(inbox, m)
\* A tick of an old generation, or of a window that is not disconnected.
Discarding ==
    /\ inbox # <<>> /\ Head(inbox).is = "tick" /\ inbox' = Tail(inbox)
    /\ UNCHANGED <<status, mirror, requests, workers, server, overtaken>>

\* The other steps: those of the window, of the worker in use and of the daemon.
Apart ==
    \/ WindowActs \/ OnConnected \/ OnDisconnected \/ OnReply \/ Discarding
    \/ inbox # <<>> /\ Reconnect /\ UNCHANGED server
    \/ WorkerConnects(worker) \/ WorkerSends(worker)
    \/ WorkerFails(worker) \/ WorkerTimesOut(worker) \/ WorkerRefuses(worker)
    \/ ListenerReplies /\ CallOf(worker) /\ InRoundTrip(worker)
    \/ DaemonServes \/ Crash \/ Restart

\* Every step is of one kind or the other.
LEMMA StepsAre ==
    ASSUME Structure, Structure', OldWorkersDone, OldWorkersDone', ~stalled', [Next]_vars
    PROVE  Aside \/ Apart
<1>1. /\ Types /\ Phases /\ Listener /\ Known /\ worker \in Worker /\ inbox \in Seq(Message)
      BY DEF Structure, Types
<1>2. Tick \in Message /\ Idle(Tick) /\ Retry \in Message /\ Idle(Retry)
  <2>1. Idle(Tick) /\ Idle(Retry)
      BY DEF Idle, Tick, Retry
  <2> QED BY <2>1, Made
<1>3. CASE TickFires \/ PressRetry
  <2>1. \E m \in Message : Idle(m) /\ inbox' = Append(inbox, m)
      BY <1>2, <1>3 DEF TickFires, PressRetry
  <2>2. UNCHANGED <<status, mirror, pending, nextTag, worker, alive, active, mem, saved, workers, call>>
      BY <1>3 DEF TickFires, PressRetry, Event, requests, link, server
  <2> QED BY <2>1, <2>2 DEF Aside, Queue
<1>4. CASE OnRetry \/ OnTick
  <2>1. inbox # <<>>
      BY <1>4 DEF OnRetry, OnTick, Receive
  <2> QED BY <1>4, <2>1 DEF OnRetry, OnTick, Receive, Discarding, Apart
\* The steps of workers.
<1>5. ASSUME NEW w \in Worker, WorkerRuns(w) \/ WorkerTimesOut(w)
      PROVE  UNCHANGED <<status, mirror, pending, nextTag, worker, alive, active, mem, saved, call>>
      BY <1>5 DEF WorkerRuns, WorkerTimesOut, WorkerConnects, WorkerSends, WorkerFails, GivesUp,
                  WorkerRefuses, WorkerEnds, WorkerStep, requests, link
<1>6. ASSUME NEW w \in Worker, w # worker, WorkerRuns(w) \/ WorkerTimesOut(w)
      PROVE  Aside
  <2>1. workers[w].phase \in {"closed", "gone"}
      BY <1>6 DEF OldWorkersDone
  <2>2. ~WorkerConnects(w) /\ ~WorkerSends(w) /\ ~WorkerFails(w) /\ ~WorkerTimesOut(w)
      BY <2>1 DEF WorkerConnects, WorkerSends, WorkerFails, WorkerTimesOut, GivesUp, InRoundTrip
  <2>3. CASE WorkerRefuses(w)
    <3>1. /\ Head(Queue(w)).tag \in Nat
          /\ Fields(w, "closed", Tail(Queue(w)), workers[w].request, workers[w].wire, workers[w].linked)
          /\ inbox' = Append(inbox, Reply(Head(Queue(w)).tag, Refused))
        BY <1>1, <2>3, Refusing DEF Entry
    <3>2. /\ Reply(Head(Queue(w)).tag, Refused) \in Message
          /\ Idle(Reply(Head(Queue(w)).tag, Refused))
        BY <3>1, Made DEF Idle, Reply, Refused
    <3> QED BY <1>1, <1>5, <1>6, <3>1, <3>2 DEF Fields, Aside, Queue
  <2>4. CASE WorkerEnds(w)
    <3>1. Fields(w, "gone", <<>>, Absent, workers[w].wire, FALSE) /\ UNCHANGED inbox
        BY <1>1, <2>4, Ending DEF WorkerEnds
    <3> QED BY <1>1, <1>5, <1>6, <3>1 DEF Fields, Aside, Queue
  <2> QED BY <1>6, <2>2, <2>3, <2>4 DEF WorkerRuns
<1>7. ASSUME NEW w \in Worker, WorkerRuns(w) \/ WorkerTimesOut(w)
      PROVE  Aside \/ Apart
  <2>1. w # worker \/ ~WorkerEnds(w)
      BY DEF WorkerEnds
  <2> QED BY <1>6, <1>7, <2>1 DEF WorkerRuns, Apart
\* The steps of the listener.
<1>8. ASSUME ListenerStep \/ UNCHANGED vars
      PROVE  UNCHANGED <<status, mirror, pending, nextTag, worker, alive, active, mem, saved>>
      BY <1>8 DEF ListenerStep, vars, window, requests, link, server
<1>9. CASE ListenerReads \/ ListenerTears
  <2>1. conns # <<>> /\ call = Absent /\ workers' = [workers EXCEPT ![Served].wire = Absent]
        /\ UNCHANGED inbox /\ ListenerStep /\ (UNCHANGED call \/ call'.answer = Absent)
      BY <1>9 DEF ListenerReads, ListenerTears, Listening
  <2>2. PICK w \in Worker : w = Served
      BY <1>1, <2>1, First DEF Types, Served
  <2>3. Fields(w, workers[w].phase, Queue(w), workers[w].request, Absent, workers[w].linked)
      BY <1>1, <2>1, <2>2, Taking
  <2>4. ~Late /\ ~Late'
      BY <2>1 DEF Late, CallOf
  <2> QED BY <1>1, <1>8, <2>1, <2>3, <2>4 DEF Fields, Aside, Queue
<1>10. CASE ListenerReplies
  <2> DEFINE w == call.worker
  <2>1. w \in Worker /\ (InRoundTrip(w) \/ UNCHANGED <<workers, inbox>>) /\ CallOf(w) /\ call' = Absent
      BY <1>1, <1>10, Replying DEF InRoundTrip, CallOf
  <2>2. CASE InRoundTrip(w)
    <3>1. w = worker
        BY <2>1, <2>2 DEF OldWorkersDone, InRoundTrip
    <3> QED BY <1>10, <2>1, <2>2, <3>1 DEF Apart
  <2>3. CASE UNCHANGED <<workers, inbox>> /\ ~InRoundTrip(w)
    <3>1. ListenerStep
        BY <1>10 DEF ListenerReplies
    <3>2. ~Late'
        BY <2>1 DEF Late, CallOf
    <3>3. ~Late \/ w = worker
        BY DEF Late, CallOf
    <3>4. workers[w].phase \in {"closed", "gone"}
      <4>1. workers[w].phase \in Phase /\ workers[w].phase \notin {"new", "idle"}
          BY <1>1, <2>1, WorkerTyped DEF Phases
      <4> QED BY <2>3, <4>1 DEF Phase, InRoundTrip
    <3> QED BY <1>8, <2>3, <3>1, <3>2, <3>3, <3>4 DEF Aside, Queue
  <2> QED BY <2>1, <2>2, <2>3
<1>11. CASE ListenerEnds \/ UNCHANGED vars
  <2>1. UNCHANGED <<workers, inbox, call>> /\ (ListenerStep \/ UNCHANGED vars)
      BY <1>11 DEF ListenerEnds, vars, window, server
  <2> QED BY <1>8, <2>1 DEF Aside, Queue
<1>12. ~ListenerStalls
      BY DEF ListenerStalls
<1>13. \/ WindowActs \/ OnConnected \/ OnDisconnected \/ OnReply \/ TickFires \/ PressRetry
       \/ OnRetry \/ OnTick \/ DaemonServes \/ Crash \/ Restart
       \/ \E w \in Worker : WorkerRuns(w) \/ WorkerTimesOut(w)
       \/ ListenerReads \/ ListenerTears \/ ListenerReplies \/ ListenerEnds \/ UNCHANGED vars
      BY <1>12 DEF Next, WindowStep, Operator, WindowActs, Server
<1> QED BY <1>3, <1>4, <1>7, <1>9, <1>10, <1>11, <1>13 DEF Apart

\* No new acceptance comes to the inbox.
NoAcceptance ==
    \A k \in DOMAIN inbox' : Accepts(inbox'[k]) => \E j \in DOMAIN inbox : inbox'[k] = inbox[j]

\* It comes with an acceptance only.
LEMMA NoneAccepted ==
    ASSUME Types
    PROVE  /\ inbox' = inbox => NoAcceptance
           /\ inbox # <<>> /\ inbox' = Tail(inbox) => NoAcceptance
           /\ inbox # <<>> /\ NewGeneration => NoAcceptance
           /\ \A m \in Message : ~Accepts(m) /\ inbox' = Append(inbox, m) => NoAcceptance
<1>1. inbox \in Seq(Message)
      BY DEF Types
<1>2. inbox' = inbox => NoAcceptance
      BY DEF NoAcceptance
<1>3. inbox # <<>> /\ inbox' = Tail(inbox) => NoAcceptance
  <2> SUFFICES ASSUME inbox # <<>>, inbox' = Tail(inbox) PROVE NoAcceptance
      OBVIOUS
  <2>1. \A i \in 1..(Len(inbox) - 1) : Tail(inbox)[i] = inbox[i + 1] /\ i + 1 \in DOMAIN inbox
      BY InboxHead
  <2>2. DOMAIN inbox' = 1..(Len(inbox) - 1)
      BY <1>1
  <2> QED BY <2>1, <2>2 DEF NoAcceptance
<1>4. inbox # <<>> /\ NewGeneration => NoAcceptance
  <2> SUFFICES ASSUME inbox # <<>>, NewGeneration PROVE NoAcceptance
      OBVIOUS
  <2>1. /\ inbox' \in Seq(Message) /\ Len(inbox') = Len(inbox) - 1
        /\ \A i \in 1..(Len(inbox) - 1) :
              inbox'[i] = inbox[i + 1] \/ inbox'[i] = [Tick EXCEPT !.stale = TRUE]
      BY Renewing
  <2>2. /\ DOMAIN inbox' = 1..(Len(inbox) - 1)
        /\ \A i \in 1..(Len(inbox) - 1) : i + 1 \in DOMAIN inbox
      BY <1>1, <2>1
  <2>3. ~Accepts([Tick EXCEPT !.stale = TRUE])
      BY DEF Accepts, Tick
  <2> QED BY <2>1, <2>2, <2>3 DEF NoAcceptance
<1>5. \A m \in Message : ~Accepts(m) /\ inbox' = Append(inbox, m) => NoAcceptance
  <2> SUFFICES ASSUME NEW m \in Message, ~Accepts(m), inbox' = Append(inbox, m) PROVE NoAcceptance
      OBVIOUS
  <2>1. /\ DOMAIN inbox' = 1..(Len(inbox) + 1) /\ inbox'[Len(inbox) + 1] = m
        /\ \A i \in DOMAIN inbox : inbox'[i] = inbox[i]
        /\ \A i \in DOMAIN inbox' : i \in DOMAIN inbox \/ i = Len(inbox) + 1
      BY <1>1, Appended
  <2> QED BY <2>1 DEF NoAcceptance
<1> QED BY <1>2, <1>3, <1>4, <1>5

\* The requests of the worker in use stay.
LEMMA OrderStays ==
    ASSUME Types, Types', Order, AtWork' => AtWork, UNCHANGED <<worker, pending>>,
           AtWork' => /\ workers'[worker].queue = Queue(worker)
                      /\ workers'[worker].request = workers[worker].request
                      /\ NoAcceptance
    PROVE  Order'
<1>1. ASSUME AtWork'
      PROVE  Open' = Open /\ \A i \in Open' : At(i)' = At(i)
      BY <1>1 DEF Open, At, Asks, Queue
<1>2. Open \subseteq Nat
      BY OpenIs
<1>3. AtWork' => \A i \in Open' : i + 0 \in Open /\ At(i)' = At(i + 0) /\ (i + 0 + 1 \in Open => i + 1 \in Open')
      BY <1>1, <1>2
<1> QED BY <1>3, OrderMoves DEF NoAcceptance

\* After the acceptance of a switch, revert or reload no change is open.
LEMMA NoChangeOpen ==
    ASSUME Types, Order, AtWork, NEW k \in DOMAIN inbox, Accepts(inbox[k]),
           NEW p \in pending, p.tag = inbox[k].tag, p.kind \in Leaving
    PROVE  \A i \in Open : ~Change(i)
<1> SUFFICES ASSUME NEW i \in Open, Change(i) PROVE FALSE
    OBVIOUS
<1>1. At(i).tag < p.tag /\ p.tag < At(i).tag
      BY DEF Order, ChangesAreEarlier, InTurn
<1>2. At(i).tag \in Nat /\ p.tag \in Nat
      BY OpenIs DEF Entry, Types, Request
<1> QED BY <1>1, <1>2

\* The open requests have no answer yet.
LEMMA OpenUnanswered ==
    ASSUME Structure
    PROVE  \A i \in Open, k \in DOMAIN inbox : Answers(k) => inbox[k].tag # At(i).tag
<1>1. QueuedUnanswered /\ RequestUnanswered /\ worker \in Worker /\ Types
      BY DEF Structure, Tags, Types
<1> SUFFICES ASSUME NEW i \in Open, NEW k \in DOMAIN inbox, Answers(k) PROVE inbox[k].tag # At(i).tag
    OBVIOUS
<1>2. CASE i = 0
  <2>1. Asks(worker) /\ At(i) = workers[worker].request
      BY <1>1, <1>2, OpenIs
  <2> QED BY <1>1, <2>1 DEF RequestUnanswered
<1>3. CASE i # 0
  <2>1. i \in DOMAIN Queue(worker) /\ At(i) = Queue(worker)[i]
      BY <1>1, <1>3, OpenIs
  <2> QED BY <1>1, <2>1 DEF QueuedUnanswered
<1> QED BY <1>2, <1>3

\* The worker in use begins a round trip: its requests move up.
LEMMA LineMoves ==
    ASSUME Types, Phases, WorkerSends(worker)
    PROVE  /\ UNCHANGED <<status, mirror, worker, pending, nextTag, inbox, call, alive, active, mem, saved>>
           /\ workers[worker].phase = "idle" /\ workers'[worker].phase = "await" /\ ~CallOf(worker)
           /\ workers'[worker].linked = workers[worker].linked
           /\ ~Asks(worker) /\ Asks(worker)'
           /\ \A i \in Open' : i + 1 \in Open /\ At(i)' = At(i + 1) /\ (i + 1 + 1 \in Open => i + 1 \in Open')
           /\ \A i \in Open : i - 1 \in Open'
<1> DEFINE q == Queue(worker)
<1>0. worker \in Worker
      BY DEF Types
<1>1. /\ UNCHANGED <<status, mirror, worker, pending, nextTag, inbox, call, alive, active, mem, saved>>
      /\ workers[worker].phase = "idle" /\ q # <<>> /\ ~CallOf(worker)
      BY <1>0 DEF WorkerSends, WorkerStep, requests, link, Phases, Queue
<1>2. /\ Head(q) \in Entry
      /\ Fields(worker, "await", Tail(q), Head(q),
                IF workers[worker].linked THEN Head(q).cmd ELSE Absent, workers[worker].linked)
      BY <1>0, Asking
<1>3. /\ Queue(worker)' = Tail(q) /\ \A v \in Worker \ {worker} : workers'[v] = workers[v]
      /\ workers'[worker].phase = "await" /\ workers'[worker].linked = workers[worker].linked
      BY <1>1, <1>2 DEF Fields, Queue
<1>4. /\ 1 \in DOMAIN q /\ Head(q) = q[1]
      /\ \A i \in DOMAIN Queue(worker)' : i + 1 \in DOMAIN q /\ Queue(worker)'[i] = q[i + 1] /\ i + 1 # 1 /\ i \in Nat
      /\ \A i \in DOMAIN q : i # 1 => i - 1 \in DOMAIN Queue(worker)' /\ i = (i - 1) + 1
      BY <1>0, <1>1, <1>3, Popping
<1>5. ~Asks(worker) /\ Asks(worker)' /\ workers'[worker'].request = q[1]
      BY <1>0, <1>1, <1>2, <1>4, AbsentAssumption DEF Phases, Fields, Asks
<1>6. DOMAIN q \subseteq Nat /\ 0 \notin DOMAIN q
      BY <1>0, WorkerTyped
<1>7. ASSUME NEW i \in Open'
      PROVE  i + 1 \in Open /\ At(i)' = At(i + 1) /\ (i + 1 + 1 \in Open => i + 1 \in Open')
  <2>1. CASE i = 0
    <3>1. i + 1 \in Open /\ At(i + 1) = q[1] /\ At(i)' = q[1]
        BY <1>4, <1>5, <2>1 DEF Open, At
    <3>2. i + 1 + 1 \in Open => i + 1 \in DOMAIN Queue(worker)'
        BY <1>4, <2>1 DEF Open
    <3> QED BY <3>1, <3>2 DEF Open
  <2>2. CASE i \in DOMAIN Queue(worker)' /\ i # 0
    <3>1. i + 1 \in DOMAIN q /\ Queue(worker)'[i] = q[i + 1] /\ i \in Nat
        BY <1>4, <2>2
    <3>2. i + 1 \in Open /\ At(i + 1) = q[i + 1] /\ At(i)' = q[i + 1]
        BY <2>2, <3>1 DEF Open, At
    <3>3. i + 1 + 1 \in Open => i + 1 \in DOMAIN Queue(worker)'
      <4>1. i + 1 + 1 # 0 /\ i + 1 + 1 # 1 /\ (i + 1 + 1) - 1 = i + 1
          BY <3>1
      <4> QED BY <1>4, <4>1 DEF Open
    <3> QED BY <3>2, <3>3 DEF Open
  <2> QED BY <1>7, <2>1, <2>2 DEF Open
<1>8. ASSUME NEW i \in Open PROVE i - 1 \in Open'
  <2>1. i \in DOMAIN q
      BY <1>5 DEF Open
  <2>2. CASE i = 1
      BY <1>5, <2>2 DEF Open
  <2> QED BY <1>4, <2>1, <2>2 DEF Open
<1> HIDE DEF q
<1> QED BY <1>1, <1>3, <1>5, <1>7, <1>8

\* Every step keeps the order.
LEMMA OrderKept ==
    ASSUME Structure, Structure', EndIsOfCurrent, Order, ~overtaken', Aside \/ Apart
    PROVE  Order'
<1>1. /\ Types /\ Types' /\ Phases /\ Listener /\ Known /\ AnswersFit
      /\ worker \in Worker /\ inbox \in Seq(Message)
      BY DEF Structure, Types, Fitting
<1>2. CASE Aside
  <2>1. \A m \in Message : Idle(m) => ~Accepts(m)
      BY DEF Idle, Accepts
  <2>2. NoAcceptance
      BY <1>1, <1>2, <2>1, NoneAccepted DEF Aside
  <2> QED BY <1>1, <1>2, <2>2, OrderStays DEF Aside, AtWork, HasStream
<1>3. CASE WindowActs
  <2>1. UNCHANGED inbox /\ NoAcceptance
      BY <1>1, <1>3, WindowActing, NoneAccepted
  <2>2. CASE UNCHANGED <<requests, workers>>
      BY <1>1, <2>1, <2>2, OrderStays DEF requests, link, AtWork, HasStream, Queue
  <2>3. ASSUME NEW msgs \in Seq(Outgoing), SendEffect(pending, msgs), Orderly(pending, msgs)
        PROVE  Order'
    <3>1. AtWork' => AtWork
        BY <2>3 DEF SendEffect, link, AtWork, HasStream
    <3> QED BY <2>1, <2>3, <3>1, OrderSends DEF NoAcceptance
  <2> QED BY <1>1, <1>3, <2>2, <2>3, ActingOrderly
<1>4. CASE OnConnected \/ Discarding
  <2>1. inbox # <<>> /\ (inbox' = Tail(inbox) \/ NewGeneration) /\ UNCHANGED <<requests, workers>>
      BY <1>4 DEF OnConnected, Discarding, Receive
  <2>2. NoAcceptance
      BY <1>1, <2>1, NoneAccepted
  <2> QED BY <1>1, <2>1, <2>2, OrderStays DEF requests, link, AtWork, HasStream, Queue
<1>5. CASE OnDisconnected
  <2>1. workers[worker].phase = "closed"
      BY <1>1, <1>5, InboxHead DEF EndIsOfCurrent, OnDisconnected, Receive
  <2>2. ~AtWork'
      BY <1>5, <2>1 DEF OnDisconnected, link, AtWork, HasStream
  <2> QED BY <2>2 DEF Order
<1>6. CASE OnReply
  <2> DEFINE m == inbox[1]
             left == {q \in pending : q.tag # m.tag}
  <2>1. /\ inbox # <<>> /\ m \in Message /\ m.is = "reply" /\ inbox' = Tail(inbox)
        /\ 1 \in DOMAIN inbox /\ Answers(1)
      BY <1>1, <1>6, Hearing, InboxHead DEF Answers
  <2>2. NoAcceptance
      BY <1>1, <2>1, NoneAccepted
  <2>3. CASE UNCHANGED <<requests, workers>>
      BY <1>1, <2>2, <2>3, OrderStays DEF requests, link, AtWork, HasStream, Queue
  <2>4. ASSUME NEW p \in pending, p.tag = m.tag, SendEffect(left, FollowUp(p, m.r))
        PROVE  Order'
    <3>1. SUFFICES ASSUME AtWork' PROVE Order'
        BY DEF Order
    <3>2. AtWork /\ left \in SUBSET pending /\ p \in Request
        BY <1>1, <2>4, <3>1 DEF SendEffect, link, AtWork, HasStream, Types
    <3>3. m.r.ok /\ p.kind \in Leaving => \A i \in Open : ~Change(i)
        BY <1>1, <2>1, <2>4, <3>2, NoChangeOpen DEF Accepts
    <3>4. FollowUp(p, m.r) \in Seq(Outgoing) /\ Orderly(left, FollowUp(p, m.r))
        BY <3>2, <3>3, FollowUpOrderly
    <3>5. \A i \in Open, q \in pending : q.tag = At(i).tag => q \in left
        BY <2>1, OpenUnanswered
    <3> HIDE DEF left, m
    <3> QED BY <2>2, <2>4, <3>2, <3>4, <3>5, OrderSends DEF NoAcceptance
  <2> QED BY <1>1, <1>6, <2>3, <2>4, Hearing
<1>7. CASE inbox # <<>> /\ Reconnect
  <2>1. workers'[worker'] = Spawned
      BY <1>1, <1>7, Reconnecting
  <2>2. Open' = {}
      BY <2>1 DEF Open, Queue, Asks, Spawned, Gone
  <2> QED BY <2>2 DEF Order, InTurn, ChangesAreEarlier, ChangesAreLater, Refetching
<1>8. ASSUME NEW phase, NEW queue, NEW request, NEW wire, NEW linked,
             Fields(worker, phase, queue, request, wire, linked), UNCHANGED worker,
             phase \in {"closed", "gone"}
      PROVE  Order'
      BY <1>8 DEF Fields, Order, AtWork, HasStream
<1>9. ASSUME WorkerStep
      PROVE  UNCHANGED <<worker, pending>>
      BY <1>9 DEF WorkerStep, requests, link
<1>10. CASE WorkerConnects(worker)
  <2>1. UNCHANGED <<worker, pending>> /\ workers[worker].phase = "new"
      BY <1>9, <1>10 DEF WorkerConnects
  <2>2. CASE /\ Fields(worker, "handshake", Queue(worker), workers[worker].request, Plain("handshake"), TRUE)
             /\ UNCHANGED inbox
      BY <1>1, <2>1, <2>2, NoneAccepted, OrderStays DEF Fields, AtWork
  <2> QED BY <1>1, <1>8, <1>10, <2>1, <2>2, Connecting
<1>11. CASE WorkerSends(worker)
  <2>1. /\ UNCHANGED <<worker, pending, inbox>> /\ AtWork
        /\ \A i \in Open' : i + 1 \in Open /\ At(i)' = At(i + 1) /\ (i + 1 + 1 \in Open => i + 1 \in Open')
      BY <1>1, <1>11, LineMoves DEF AtWork, HasStream
  <2> QED BY <1>1, <2>1, OrderMoves
<1>12. CASE WorkerFails(worker) \/ WorkerTimesOut(worker)
  <2>1. GivesUp(worker) /\ UNCHANGED worker
      BY <1>9, <1>12 DEF WorkerFails, WorkerTimesOut, GivesUp
  <2> QED BY <1>1, <1>8, <2>1, GivingUp
<1>13. CASE WorkerRefuses(worker)
  <2>1. UNCHANGED worker
      BY <1>9, <1>13 DEF WorkerRefuses
  <2> QED BY <1>1, <1>8, <1>13, <2>1, Refusing
<1>14. CASE ListenerReplies /\ CallOf(worker) /\ InRoundTrip(worker)
  <2> DEFINE R == workers[worker]
             t == R.request.tag
  <2>1. UNCHANGED <<worker, pending>> /\ call.worker = worker
      BY <1>14 DEF ListenerReplies, ListenerStep, requests, link, CallOf
  <2>2. \/ /\ R.phase = "await" /\ R.request \in Entry /\ call.answer \in Answer
           /\ Fields(worker, "idle", Queue(worker), Absent, R.wire, R.linked)
           /\ inbox' = Append(inbox, Reply(R.request.tag, call.answer))
        \/ /\ R.phase = "handshake" /\ call.answer.ok /\ call.answer.data \in Snapshot
           /\ Fields(worker, "idle", Queue(worker), R.request, R.wire, R.linked)
           /\ inbox' = Append(inbox, Connected(call.answer.data))
        \/ /\ R.phase = "handshake" /\ ~call.answer.ok
           /\ Fields(worker, "closed", Queue(worker), R.request, R.wire, R.linked)
           /\ inbox' = Append(inbox, Disconnected)
    <3> HIDE DEF R
    <3> QED BY <1>1, <1>14, <2>1, Replying DEF R
  <2>3. CASE R.phase = "handshake" /\ ~call.answer.ok
      BY <1>8, <2>1, <2>2, <2>3
  <2>4. CASE R.phase = "handshake" /\ call.answer.ok
    <3>1. Connected(call.answer.data) \in Message /\ ~Accepts(Connected(call.answer.data))
        BY <2>2, <2>4, Made DEF Accepts, Connected
    <3>2. NoAcceptance
        BY <1>1, <2>2, <2>4, <3>1, NoneAccepted
    <3>3. workers'[worker].queue = Queue(worker) /\ workers'[worker].request = R.request
        BY <2>2, <2>4 DEF Fields
    <3>4. AtWork
        BY <2>4 DEF AtWork, HasStream
    <3> HIDE DEF R
    <3> QED BY <1>1, <2>1, <3>2, <3>3, <3>4, OrderStays DEF R
  <2>5. CASE R.phase = "await"
    <3>1. /\ R.request \in Entry /\ workers'[worker].queue = Queue(worker) /\ workers'[worker].request = Absent
          /\ inbox' = Append(inbox, Reply(t, call.answer)) /\ Reply(t, call.answer) \in Message
          /\ Reply(t, call.answer).tag = t /\ t \in Nat /\ Asks(worker)
        BY <2>2, <2>5, Made, AbsentAssumption DEF Fields, Reply, Entry, Asks
    <3>2. AtWork
        BY <2>5 DEF AtWork, HasStream
    <3>3. InTurn /\ Open \subseteq Nat
        BY <1>1, <3>2, OpenIs DEF Order
    <3>4. 0 \in Open /\ At(0).tag = t
        BY <3>1 DEF Open, At
    <3>5. \A i \in Open' : i \in Open /\ i # 0 /\ At(i)' = At(i) /\ (i + 1 \in Open => i + 1 \in Open')
      <4>1. DOMAIN Queue(worker) \subseteq Nat /\ 0 \notin DOMAIN Queue(worker)
          BY <1>1, WorkerTyped
      <4>2. Queue(worker)' = Queue(worker) /\ ~Asks(worker)'
          BY <2>1, <3>1 DEF Queue, Asks
      <4>3. Open' = DOMAIN Queue(worker)
          BY <4>2 DEF Open
      <4>4. \A i \in Open' : i + 1 \in Open => i + 1 \in Open'
          BY <4>1, <4>3 DEF Open
      <4> QED BY <4>1, <4>2, <4>3, <4>4 DEF Open, At
    <3>6. \A i \in Open' : t < At(i)'.tag
      <4> TAKE i \in Open'
      <4>1. i \in Open /\ i \in Nat /\ i # 0 /\ At(i)' = At(i)
          BY <3>3, <3>5
      <4>2. 0 < i
          BY <4>1
      <4>3. At(0).tag < At(i).tag
          BY <3>3, <3>4, <4>1, <4>2 DEF InTurn
      <4> QED BY <3>4, <4>1, <4>3
    <3>7. \A k \in DOMAIN inbox' : inbox'[k].tag = t \/ \E j \in DOMAIN inbox : inbox'[k] = inbox[j]
      <4>1. /\ inbox'[Len(inbox) + 1] = Reply(t, call.answer)
            /\ \A i \in DOMAIN inbox : inbox'[i] = inbox[i]
            /\ \A i \in DOMAIN inbox' : i \in DOMAIN inbox \/ i = Len(inbox) + 1
          BY <1>1, <3>1, Appended
      <4> QED BY <3>1, <4>1
    <3>8. \A k \in DOMAIN inbox' : Accepts(inbox'[k]) =>
               \/ \E j \in DOMAIN inbox : inbox'[k] = inbox[j]
               \/ \A i \in Open' : inbox'[k].tag < At(i)'.tag
        BY <3>6, <3>7
    <3>9. \A i \in Open' : i + 0 \in Open /\ At(i)' = At(i + 0) /\ (i + 0 + 1 \in Open => i + 1 \in Open')
      <4> TAKE i \in Open'
      <4>1. i \in Nat /\ i \in Open /\ At(i)' = At(i) /\ (i + 1 \in Open => i + 1 \in Open')
          BY <3>3, <3>5
      <4>2. i + 0 = i
          BY <4>1
      <4> QED BY <4>1, <4>2
    <3> QED BY <1>1, <2>1, <3>2, <3>8, <3>9, OrderMoves
  <2> QED BY <2>2, <2>3, <2>4, <2>5
<1>15. CASE DaemonServes \/ Restart
  <2>1. UNCHANGED <<worker, pending, workers, inbox>>
      BY <1>15 DEF DaemonServes, Restart, DaemonStep, window, requests, link
  <2> QED BY <1>1, <2>1, NoneAccepted, OrderStays DEF AtWork, HasStream, Queue
<1>16. CASE Crash
  <2>1. UNCHANGED <<worker, pending, inbox>>
      BY <1>16 DEF Crash, DaemonStep, window, requests, link
  <2>2. /\ workers'[worker].phase = workers[worker].phase /\ workers'[worker].queue = Queue(worker)
        /\ workers'[worker].request = workers[worker].request
      BY <1>1, <1>16, Crashing
  <2> QED BY <1>1, <2>1, <2>2, NoneAccepted, OrderStays DEF AtWork, HasStream
<1> QED BY <1>2, <1>3, <1>4, <1>5, <1>6, <1>7, <1>10, <1>11, <1>12, <1>13, <1>14, <1>15, <1>16 DEF Apart


-----------------------------------------------------------------------------
(* Until the first snapshot everything the window waits for is queued, and *)
(* nothing of it resynchronises the baseline.                              *)

Fresh ==
    workers[worker].phase \in {"new", "handshake"} =>
        \A p \in pending : /\ p.kind # "ResyncBaseline"
                           /\ \E i \in DOMAIN Queue(worker) : Queue(worker)[i].tag = p.tag

\* Every step leaves it that way.
LEMMA FreshKept ==
    ASSUME Structure, EndIsOfCurrent, Fresh, ~overtaken', Aside \/ Apart
    PROVE  Fresh'
<1>1. /\ Types /\ Phases /\ Listener /\ Known /\ AnswersFit /\ QueuedUnanswered
      /\ worker \in Worker /\ inbox \in Seq(Message)
      BY DEF Structure, Types, Fitting, Tags
<1>2. ASSUME UNCHANGED <<worker, pending>>, workers'[worker].queue = Queue(worker),
             workers'[worker].phase \in {"new", "handshake"} => workers[worker].phase \in {"new", "handshake"}
      PROVE  Fresh'
      BY <1>2 DEF Fresh, Queue
<1>3. ASSUME UNCHANGED worker, workers'[worker].phase \in {"idle", "await", "closed", "gone"}
      PROVE  Fresh'
      BY <1>3 DEF Fresh
<1>4. CASE Aside
      BY <1>2, <1>4 DEF Aside
<1>5. CASE WindowActs
  <2>1. CASE UNCHANGED <<requests, workers>>
      BY <1>2, <2>1 DEF requests, link, Queue
  <2>2. ASSUME NEW msgs \in Seq(Outgoing), SendEffect(pending, msgs),
               \A k \in DOMAIN msgs : msgs[k].kind # "ResyncBaseline",
               workers'[worker].phase \in {"new", "handshake"},
               NEW p \in pending'
        PROVE  /\ p.kind # "ResyncBaseline"
               /\ \E i \in DOMAIN workers'[worker].queue : workers'[worker].queue[i].tag = p.tag
    <3> DEFINE q == Queue(worker)
               z == workers'[worker].queue
               n == Len(msgs)
               e(i) == [tag |-> nextTag + i - 1, cmd |-> msgs[i].cmd]
    <3> SUFFICES p.kind # "ResyncBaseline" /\ \E i \in DOMAIN z : z[i].tag = p.tag
        OBVIOUS
    <3>1. /\ q \in Seq(Entry) /\ Len(q) \in Nat /\ n \in Nat /\ DOMAIN q = 1..Len(q) /\ DOMAIN msgs = 1..n
        BY <1>1, WorkerTyped
    <3>2. /\ Len(z) = Len(q) + n /\ \A i \in 1..Len(q) : z[i] = q[i]
          /\ \A i \in 1..n : z[Len(q) + i] = e(i)
          /\ workers' \in [Worker -> WorkerState]
          /\ workers'[worker].phase = workers[worker].phase
        BY <2>2 DEF SendEffect
    <3>3. z \in Seq(Entry)
        BY <1>1, <3>2 DEF WorkerState
    <3>4. DOMAIN z = 1..(Len(q) + n)
        BY <3>2, <3>3
    <3>5. CASE p \in pending
      <4>1. p.kind # "ResyncBaseline" /\ \E i \in DOMAIN q : q[i].tag = p.tag
          BY <2>2, <3>2, <3>5 DEF Fresh
      <4>2. PICK i \in DOMAIN q : q[i].tag = p.tag
          BY <4>1
      <4>3. i \in DOMAIN z /\ z[i] = q[i]
          BY <3>1, <3>2, <3>4
      <4> HIDE DEF q, z
      <4> QED BY <4>1, <4>2, <4>3
    <3>6. CASE p \notin pending
      <4>1. PICK i \in 1..n : p.tag = nextTag + i - 1 /\ p.kind = msgs[i].kind
          BY <2>2, <3>6 DEF SendEffect
      <4>2. Len(q) + i \in DOMAIN z
        <5>1. i \in 1..n /\ Len(q) \in Nat /\ n \in Nat
            BY <3>1
        <5> HIDE DEF q, n
        <5> QED BY <3>4, <5>1
      <4>3. z[Len(q) + i].tag = p.tag
        <5>1. z[Len(q) + i] = e(i) /\ e(i).tag = nextTag + i - 1
            BY <3>2
        <5> HIDE DEF q, z, e
        <5> QED BY <4>1, <5>1
      <4>4. p.kind # "ResyncBaseline"
          BY <2>2, <3>1, <4>1
      <4> HIDE DEF q, z
      <4> QED BY <4>2, <4>3, <4>4
    <3> QED BY <3>5, <3>6
  <2>3. ASSUME NEW msgs \in Seq(Outgoing), SendEffect(pending, msgs),
               \A k \in DOMAIN msgs : msgs[k].kind # "ResyncBaseline"
        PROVE  Fresh'
    <3>1. UNCHANGED worker
        BY <2>3 DEF SendEffect, link
    <3> QED BY <2>2, <2>3, <3>1 DEF Fresh, Queue
  <2> QED BY <1>1, <1>5, <2>1, <2>3, ActingOrderly
<1>6. CASE OnConnected \/ Discarding
      BY <1>2, <1>6 DEF OnConnected, Discarding, requests, link, Queue
<1>7. CASE OnDisconnected
  <2>1. \E i \in DOMAIN inbox : inbox[i].is = "disconnected"
      BY <1>1, <1>7, InboxHead DEF OnDisconnected, Receive
  <2>2. workers[worker].phase = "closed" /\ UNCHANGED <<worker, workers>>
      BY <1>7, <2>1 DEF EndIsOfCurrent, OnDisconnected, link
  <2> QED BY <1>3, <2>2
<1>8. CASE OnReply
  <2> DEFINE m == inbox[1]
             left == {q \in pending : q.tag # m.tag}
  <2>1. m.is = "reply" /\ 1 \in DOMAIN inbox
      BY <1>1, <1>8, Hearing, InboxHead
  <2>2. CASE UNCHANGED <<requests, workers>>
      BY <1>2, <2>2 DEF requests, link, Queue
  <2>3. ASSUME NEW p \in pending, p.tag = m.tag, SendEffect(left, FollowUp(p, m.r))
        PROVE  Fresh'
    <3>1. UNCHANGED worker /\ workers'[worker].phase = workers[worker].phase
        BY <2>3 DEF SendEffect, link
    <3>2. \A i \in DOMAIN Queue(worker) : Queue(worker)[i].tag # p.tag
        BY <1>1, <2>1, <2>3 DEF QueuedUnanswered, Answers
    <3>3. workers[worker].phase \notin {"new", "handshake"}
        BY <3>2 DEF Fresh
    <3> QED BY <3>1, <3>3 DEF Fresh
  <2> HIDE DEF left, m
  <2> QED BY <1>1, <1>8, <2>2, <2>3, Hearing DEF m, left
<1>9. CASE inbox # <<>> /\ Reconnect
  <2>1. pending' = {}
      BY <1>9 DEF Reconnect
  <2> QED BY <2>1 DEF Fresh
<1>10. ASSUME WorkerStep
       PROVE  UNCHANGED <<worker, pending>>
      BY <1>10 DEF WorkerStep, requests, link
<1>11. CASE WorkerConnects(worker)
  <2>1. UNCHANGED <<worker, pending>> /\ workers[worker].phase = "new"
      BY <1>10, <1>11 DEF WorkerConnects
  <2>2. workers'[worker].queue = Queue(worker)
      BY <1>1, <1>11, Connecting DEF Fields
  <2> QED BY <1>2, <2>1, <2>2
<1>12. CASE WorkerSends(worker) \/ WorkerFails(worker) \/ WorkerTimesOut(worker) \/ WorkerRefuses(worker)
  <2>1. UNCHANGED worker
      BY <1>10, <1>12 DEF WorkerSends, WorkerFails, WorkerTimesOut, GivesUp, WorkerRefuses
  <2>2. workers'[worker].phase \in {"await", "closed"}
      BY <1>1, <1>12, Asking, GivingUp, Refusing DEF WorkerFails, WorkerTimesOut, Fields
  <2> QED BY <1>3, <2>1, <2>2
<1>13. CASE ListenerReplies /\ CallOf(worker) /\ InRoundTrip(worker)
  <2> DEFINE R == workers[worker]
  <2>1. UNCHANGED worker /\ call.worker = worker
      BY <1>13 DEF ListenerReplies, ListenerStep, requests, link, CallOf
  <2>2. \E phase \in {"idle", "closed"} : \E request : Fields(worker, phase, Queue(worker), request, R.wire, R.linked)
    <3> HIDE DEF R
    <3> QED BY <1>1, <1>13, <2>1, Replying DEF R
  <2>3. workers'[worker].phase \in {"idle", "closed"}
      BY <2>2 DEF Fields
  <2> QED BY <1>3, <2>1, <2>3
<1>14. CASE DaemonServes \/ Restart
      BY <1>2, <1>14 DEF DaemonServes, Restart, DaemonStep, window, requests, link, Queue
<1>15. CASE Crash
  <2>1. UNCHANGED <<worker, pending>>
      BY <1>15 DEF Crash, DaemonStep, window, requests, link
  <2>2. workers'[worker].phase = workers[worker].phase /\ workers'[worker].queue = Queue(worker)
      BY <1>1, <1>15, Crashing
  <2> QED BY <1>2, <2>1, <2>2
<1> QED BY <1>4, <1>5, <1>6, <1>7, <1>8, <1>9, <1>11, <1>12, <1>13, <1>14, <1>15 DEF Apart

-----------------------------------------------------------------------------
(* A command under way is that of a worker that waits for it on its         *)
(* connection, or changes neither the preset's settings nor the file.       *)

Changing(cmd) == cmd.op \in {"edit", "save_preset"}
Orphan(w) ==
    /\ InRoundTrip(w) /\ (workers[w].wire # Absent \/ CallOf(w)) => workers[w].linked
    /\ ~InRoundTrip(w) /\ workers[w].wire # Absent => ~Changing(workers[w].wire)
    /\ ~InRoundTrip(w) /\ CallOf(w) /\ channel # <<>> => ~Changing(channel[1].cmd)
Harmless == \A w \in Worker : Orphan(w)

\* Nothing about the worker changes but that its command may be gone.
LEMMA OrphanStays ==
    ASSUME NEW w, Orphan(w), workers'[w].phase = workers[w].phase,
           workers'[w].wire \in {workers[w].wire, Absent}, workers'[w].linked = workers[w].linked,
           CallOf(w)' => CallOf(w), channel' \in {channel, <<>>}
    PROVE  Orphan(w)'
BY DEF Orphan, InRoundTrip

\* Every step leaves it that way.
LEMMA HarmlessKept ==
    ASSUME Structure, ChannelSynchronous, Harmless, ~overtaken', ~stalled', [Next]_vars
    PROVE  Harmless'
<1> SUFFICES ASSUME NEW w \in Worker PROVE Orphan(w)'
    BY DEF Harmless
<1>1. /\ Types /\ Phases /\ Listener /\ Known /\ AnswersFit /\ Orphan(w)
      BY DEF Structure, Fitting, Harmless
<1>2. channel # <<>> => /\ Len(channel) = 1 /\ channel[1].waits /\ call # Absent /\ call.answer = Absent
                        /\ InRoundTrip(call.worker) => channel[1].cmd = Sent(call.worker)
  <2>1. channel # <<>> => 1 \in DOMAIN channel
      BY <1>1 DEF Types
  <2> QED BY <1>1, <2>1 DEF ChannelSynchronous, Listener
<1>3. ASSUME workers'[w] = workers[w], CallOf(w)' => CallOf(w), channel' \in {channel, <<>>}
      PROVE  Orphan(w)'
      BY <1>1, <1>3, OrphanStays
<1>4. ASSUME UNCHANGED <<call, channel>>
      PROVE  /\ CallOf(w)' <=> CallOf(w)
             /\ channel' \in {channel, <<>>}
             /\ workers'[w] = workers[w] => Orphan(w)'
      BY <1>3, <1>4 DEF CallOf
\* The steps of the window.
<1>5. ASSUME NEW msgs, NEW left, SendEffect(left, msgs), UNCHANGED <<call, channel>>
      PROVE  Orphan(w)'
  <2>1. /\ workers'[w].phase = workers[w].phase /\ workers'[w].wire = workers[w].wire
        /\ workers'[w].linked = workers[w].linked
      BY <1>5 DEF SendEffect
  <2> QED BY <1>1, <1>4, <1>5, <2>1, OrphanStays
<1>6. CASE WindowActs
  <2>1. (Sending \/ UNCHANGED workers) /\ UNCHANGED <<call, channel>>
      BY <1>1, <1>6, WindowActing DEF server
  <2> QED BY <1>4, <1>5, <2>1 DEF Sending
<1>7. CASE OnReply
  <2> DEFINE left == {q \in pending : q.tag # inbox[1].tag}
  <2>1. UNCHANGED <<call, channel>> /\ (UNCHANGED workers \/ \E msgs : SendEffect(left, msgs))
      BY <1>1, <1>7, Hearing DEF server
  <2> HIDE DEF left
  <2> QED BY <1>4, <1>5, <2>1
<1>8. ASSUME inbox # <<>>, Reconnect, UNCHANGED <<call, channel>>
      PROVE  Orphan(w)'
  <2>1. /\ workers[worker'] = Gone /\ workers'[worker'] = Spawned
        /\ \A v \in Worker \ {worker'} : workers'[v] = workers[v]
      BY <1>1, <1>8, Reconnecting
  <2>2. CASE w = worker'
    <3>1. /\ ~InRoundTrip(w) /\ ~InRoundTrip(w)' /\ workers'[w].wire = Absent
        BY <2>1, <2>2 DEF Gone, Spawned, InRoundTrip
    <3> QED BY <1>1, <1>4, <1>8, <3>1 DEF Orphan
  <2> QED BY <1>4, <1>8, <2>1, <2>2
<1>9. CASE TickFires \/ PressRetry \/ OnConnected \/ OnDisconnected \/ OnRetry \/ OnTick
  <2>1. UNCHANGED <<call, channel>>
      BY <1>9 DEF TickFires, PressRetry, Event, OnConnected, OnDisconnected, OnRetry, OnTick, Receive, server
  <2>2. UNCHANGED workers \/ (inbox # <<>> /\ Reconnect)
      BY <1>9 DEF TickFires, PressRetry, OnConnected, OnDisconnected, OnRetry, OnTick, Receive
  <2> QED BY <1>4, <1>8, <2>1, <2>2
\* The steps of workers.
<1>10. ASSUME NEW v \in Worker, WorkerRuns(v) \/ WorkerTimesOut(v)
       PROVE  UNCHANGED <<call, channel>>
      BY <1>10 DEF WorkerRuns, WorkerTimesOut, WorkerConnects, WorkerSends, WorkerFails, GivesUp,
                   WorkerRefuses, WorkerEnds
<1>11. ASSUME NEW v \in Worker, v # w, UNCHANGED <<call, channel>>,
              NEW phase, NEW queue, NEW request, NEW wire, NEW linked,
              Fields(v, phase, queue, request, wire, linked)
       PROVE  Orphan(w)'
      BY <1>4, <1>11 DEF Fields
<1>12. ASSUME NEW v \in Worker, WorkerConnects(v)
       PROVE  Orphan(w)'
  <2>1. CASE v # w
      BY <1>1, <1>10, <1>11, <1>12, <2>1, Connecting DEF WorkerRuns
  <2>2. CASE v = w
    <3>1. workers[w].phase = "new" /\ workers[w].wire = Absent /\ ~CallOf(w)
        BY <1>1, <1>12, <2>2 DEF WorkerConnects, Phases
    <3>2. \/ workers'[w].phase = "handshake" /\ workers'[w].linked
          \/ workers'[w].phase = "closed" /\ workers'[w].wire = workers[w].wire
        BY <1>1, <1>12, <2>2, Connecting DEF Fields
    <3>3. ~CallOf(w)'
        BY <1>4, <1>10, <1>12, <2>2, <3>1 DEF WorkerRuns
    <3> QED BY <3>1, <3>2, <3>3 DEF Orphan, InRoundTrip
  <2> QED BY <2>1, <2>2
<1>13. ASSUME NEW v \in Worker, WorkerSends(v)
       PROVE  Orphan(w)'
  <2>1. CASE v # w
      BY <1>1, <1>10, <1>11, <1>13, <2>1, Asking DEF WorkerRuns
  <2>2. CASE v = w
    <3>1. workers[w].phase = "idle" /\ ~CallOf(w)
        BY <1>1, <1>13, <2>2 DEF WorkerSends, Phases
    <3>2. workers'[w].phase = "await" /\ (workers'[w].linked \/ workers'[w].wire = Absent)
        BY <1>1, <1>13, <2>2, Asking DEF Fields
    <3>3. ~CallOf(w)'
        BY <1>4, <1>10, <1>13, <2>2, <3>1 DEF WorkerRuns
    <3> QED BY <3>1, <3>2, <3>3 DEF Orphan, InRoundTrip
  <2> QED BY <2>1, <2>2
<1>14. ASSUME NEW v \in Worker, WorkerFails(v) \/ WorkerTimesOut(v)
       PROVE  Orphan(w)'
  <2>0. GivesUp(v) /\ UNCHANGED <<call, channel>>
      BY <1>10, <1>14 DEF WorkerFails, WorkerTimesOut, WorkerRuns
  <2>1. /\ InRoundTrip(v)
        /\ Fields(v, "closed", Queue(v), Absent, workers[v].wire, workers[v].linked)
      BY <1>1, <2>0, GivingUp
  <2>2. CASE v # w
      BY <1>11, <2>0, <2>1, <2>2
  <2>3. CASE v = w
    <3>1. ~Changing(Sent(w))
        BY <2>0, <2>3 DEF GivesUp, Sent, Changing, InRoundTrip, Plain
    <3>2. ~InRoundTrip(w)' /\ workers'[w].wire = workers[w].wire
        BY <2>1, <2>3 DEF Fields, InRoundTrip
    <3>3. workers[w].wire # Absent => workers[w].wire = Sent(w)
        BY <1>1, <2>1, <2>3 DEF Phases
    <3>4. CallOf(w) /\ channel # <<>> => channel[1].cmd = Sent(w)
        BY <1>2, <2>1, <2>3 DEF CallOf
    <3> QED BY <1>4, <2>0, <3>1, <3>2, <3>3, <3>4 DEF Orphan
  <2> QED BY <2>2, <2>3
<1>15. ASSUME NEW v \in Worker, WorkerRefuses(v) \/ WorkerEnds(v)
       PROVE  Orphan(w)'
  <2>1. UNCHANGED <<call, channel>> /\ ~InRoundTrip(v)
      BY <1>10, <1>15 DEF WorkerRuns, WorkerRefuses, WorkerEnds, InRoundTrip
  <2>2. \E phase \in {"closed", "gone"} : \E queue, request, linked :
           Fields(v, phase, queue, request, workers[v].wire, linked)
      BY <1>1, <1>15, Refusing, Ending
  <2>3. CASE v # w
      BY <1>11, <2>1, <2>2, <2>3
  <2>4. CASE v = w
    <3>1. ~InRoundTrip(w)' /\ workers'[w].wire = workers[w].wire
        BY <2>2, <2>4 DEF Fields, InRoundTrip
    <3> QED BY <1>1, <1>4, <2>1, <2>4, <3>1 DEF Orphan
  <2> QED BY <2>3, <2>4
\* The steps of the listener.
<1>16. CASE ListenerReads \/ ListenerTears
  <2>1. conns # <<>> /\ call = Absent /\ workers' = [workers EXCEPT ![Served].wire = Absent]
        /\ channel = <<>> /\ workers[Served].wire # Absent
      BY <1>2, <1>16 DEF ListenerReads, ListenerTears, Listening
  <2>2. PICK v \in Worker : v = Served
      BY <1>1, <2>1, First DEF Types, Served
  <2>3. Fields(v, workers[v].phase, Queue(v), workers[v].request, Absent, workers[v].linked)
      BY <1>1, <2>1, <2>2, Taking
  <2>4. /\ workers'[w].phase = workers[w].phase /\ workers'[w].wire \in {workers[w].wire, Absent}
        /\ workers'[w].linked = workers[w].linked
      BY <2>3 DEF Fields
  <2>5. CASE ~CallOf(w)'
      BY <1>1, <2>4, <2>5 DEF Orphan, InRoundTrip
  <2>6. CASE CallOf(w)'
    <3>1. ListenerReads
        BY <1>16, <2>1, <2>6 DEF ListenerTears, CallOf
    <3>2. w = v /\ channel' = Append(channel, [cmd |-> workers[w].wire, waits |-> TRUE])
        BY <2>2, <2>6, <3>1 DEF ListenerReads, CallOf
    <3>3. channel'[1].cmd = workers[w].wire
        BY <2>1, <3>2
    <3>4. InRoundTrip(w)' <=> InRoundTrip(w)
        BY <2>4 DEF InRoundTrip
    <3>5. workers[w].wire # Absent /\ workers'[w].wire = Absent
        BY <2>1, <2>2, <2>3, <3>2 DEF Fields
    <3> QED BY <1>1, <2>4, <3>3, <3>4, <3>5 DEF Orphan
  <2> QED BY <2>5, <2>6
<1>17. CASE ListenerReplies
  <2> DEFINE v == call.worker
             R == workers[v]
  <2>1. v \in Worker /\ call' = Absent /\ UNCHANGED channel /\ call # Absent /\ call.answer # Absent
      BY <1>1, <1>17, Replying DEF ListenerReplies
  <2>2. channel = <<>> /\ ~CallOf(w)' /\ channel' = <<>>
      BY <1>2, <2>1 DEF CallOf
  <2>3. \/ UNCHANGED workers
        \/ /\ InRoundTrip(v)
           /\ \E phase \in {"idle", "closed"} : \E request : Fields(v, phase, Queue(v), request, R.wire, R.linked)
    <3> HIDE DEF v, R
    <3> QED BY <1>1, <1>17, Replying DEF InRoundTrip, v, R
  <2>4. CASE UNCHANGED workers
      BY <1>3, <2>2, <2>4
  <2>5. CASE /\ InRoundTrip(v)
             /\ \E phase \in {"idle", "closed"} : \E request : Fields(v, phase, Queue(v), request, R.wire, R.linked)
    <3>1. CASE v # w
      <4>1. workers'[w] = workers[w]
          BY <2>5, <3>1 DEF Fields
      <4> QED BY <1>3, <2>2, <4>1
    <3>2. CASE v = w
      <4>1. workers[w].wire = Absent
          BY <1>1, <2>1, <2>5, <3>2 DEF Phases, CallOf
      <4>2. workers'[w].wire = workers[w].wire /\ ~InRoundTrip(w)'
          BY <2>5, <3>2 DEF Fields, InRoundTrip
      <4> QED BY <2>2, <4>1, <4>2 DEF Orphan
    <3> QED BY <3>1, <3>2
  <2> QED BY <2>3, <2>4, <2>5
<1>18. CASE ListenerEnds \/ Restart \/ UNCHANGED vars
  <2>1. UNCHANGED <<call, channel, workers>>
      BY <1>18 DEF ListenerEnds, Restart, vars, server
  <2> QED BY <1>4, <2>1
<1>19. CASE DaemonServes
  <2>1. channel # <<>> /\ channel' = Tail(channel) /\ UNCHANGED workers
      BY <1>19 DEF DaemonServes
  <2>2. channel' = <<>>
      BY <1>1, <1>2, <2>1 DEF Types
  <2>3. CallOf(w)' => CallOf(w)
    <3>1. call # Absent /\ \E r : call' = [call EXCEPT !.answer = r] \/ call' = call
        BY <1>1, <1>2, <1>19, Serving
    <3>2. call \in Call
        BY <1>1, <3>1 DEF Types
    <3> QED BY <3>1, <3>2 DEF CallOf, Call
  <2> QED BY <1>3, <2>1, <2>2, <2>3
<1>20. CASE Crash
  <2>1. call' = Absent /\ channel' = <<>>
      BY <1>20 DEF Crash
  <2>2. workers'[w].wire = Absent
      BY <1>1, <1>20, Crashing
  <2> QED BY <2>1, <2>2 DEF Orphan, CallOf
<1>21. ~ListenerStalls
      BY DEF ListenerStalls
<1> QED BY <1>6, <1>7, <1>9, <1>12, <1>13, <1>14, <1>15, <1>16, <1>17, <1>18, <1>19, <1>20, <1>21
        DEF Next, WindowStep, Operator, WindowActs, Server, WorkerRuns

-----------------------------------------------------------------------------
(* What the window shows and remembers, and what a message makes of it.     *)

Now == [link |-> IF IsConnected THEN "up" ELSE "down", name |-> name, config |-> config,
        baseline |-> baseline, lost |-> lost]

\* The session of a window that shows v: the one on the screen, or the one lost.
SessionOf(v) ==
    IF v.link = "up" THEN [name |-> v.name, config |-> v.config, baseline |-> v.baseline]
    ELSE v.lost
Survives(s, data) ==
    s # Absent /\ s.config # s.baseline /\ s.name = data.name /\ s.config = data.config
Greeted(v, data) ==
    [link |-> "up", name |-> data.name, config |-> data.config,
     baseline |-> IF Survives(v.lost, data) THEN v.lost.baseline ELSE data.config,
     lost |-> Absent]
Ended(v) ==
    [link |-> "down", name |-> v.name, config |-> v.config, baseline |-> v.baseline,
     lost |-> SessionOf(v)]
ToldConfig(v, p, r) ==
    CASE p.kind = "SetParam" -> [v.config EXCEPT !["param"] = p.value]
      [] p.kind = "SetEnabled" -> [v.config EXCEPT !["flag"] = p.value]
      [] p.kind \in Fetching -> r.data
      [] OTHER -> v.config
ToldBaseline(v, p, r) ==
    CASE p.kind = "ResyncBaseline" -> r.data
      [] p.kind = "Save" -> v.config
      [] OTHER -> v.baseline
Told(v, p, r) ==
    IF r.ok
    THEN [link |-> v.link, name |-> IF p.kind = "CurrentPreset" THEN r.data ELSE v.name,
          config |-> ToldConfig(v, p, r), baseline |-> ToldBaseline(v, p, r), lost |-> v.lost]
    ELSE v

\* With the requests in P in flight, m makes w of v.
Hears(P, v, m, w) ==
    /\ m.is = "connected" => w = Greeted(v, m.data)
    /\ m.is = "disconnected" => w = Ended(v)
    /\ m.is \in {"retry", "tick"} => w = v
    /\ m.is = "reply" => \/ (\A p \in P : p.tag # m.tag) /\ w = v
                         \/ \E p \in P : p.tag = m.tag /\ w = Told(v, p, m.r)

\* The messages of s lead from now to l.  When the worker is closed, one of them
\* is its end, or the end was read before; nothing after the end is heard.
Reads(s, now, P, l, v) ==
    /\ v[0] = now /\ v[Len(s)] = l
    /\ \A i \in 1..Len(s) : Hears(P, v[i - 1], s[i], v[i])
EndsAt(s, l, v, i) ==
    /\ v[i] = l
    /\ \A j \in 1..Len(s) : (s[j].is = "disconnected" <=> j = i) /\ (j > i => Idle(s[j]))
Leads(s, now, P, phase, l) ==
    \E v : Reads(s, now, P, l, v) /\ (phase = "closed" => \E i \in 0..Len(s) : EndsAt(s, l, v, i))

\* A refusal and the window's own messages change nothing, whatever is in flight.
LEMMA IdleHears ==
    ASSUME NEW m, Idle(m), NEW P, NEW v, NEW w
    PROVE  /\ Hears(P, v, m, v)
           /\ Hears(P, v, m, w) => w = v
<1>1. Hears(P, v, m, w) => w = v
      BY DEF Idle, Hears, Told
<1>2. Hears(P, v, m, v)
  <2>1. CASE m.is \in {"retry", "tick"}
      BY <2>1 DEF Hears
  <2>2. CASE m.is = "reply" /\ ~m.r.ok
      BY <2>2 DEF Hears, Told
  <2> QED BY <2>1, <2>2 DEF Idle
<1> QED BY <1>1, <1>2

\* Every message makes something of what the window shows.
LEMMA Heard ==
    ASSUME NEW m \in Message, NEW P, NEW v
    PROVE  \E w : Hears(P, v, m, w)
<1>1. m.is \in {"connected", "reply", "disconnected", "retry", "tick"}
      BY Read
<1>2. CASE m.is = "connected"
      BY <1>2 DEF Hears
<1>3. CASE m.is = "disconnected"
      BY <1>3 DEF Hears
<1>4. CASE m.is \in {"retry", "tick"}
      BY <1>4 DEF Hears
<1>5. CASE m.is = "reply"
  <2>1. CASE \A p \in P : p.tag # m.tag
      BY <1>5, <2>1 DEF Hears
  <2>2. ASSUME NEW p \in P, p.tag = m.tag
        PROVE  Hears(P, v, m, Told(v, p, m.r))
      BY <1>5, <2>2 DEF Hears
  <2> QED BY <2>1, <2>2
<1> QED BY <1>1, <1>2, <1>3, <1>4, <1>5

\* One more message.
LEMMA LeadsAppend ==
    ASSUME NEW s \in Seq(Message), NEW m \in Message, NEW now, NEW P, NEW l, NEW u,
           NEW phase, NEW after, Leads(s, now, P, phase, l), Hears(P, l, m, u),
           \/ after # "closed"
           \/ m.is = "disconnected" /\ \A i \in DOMAIN s : s[i].is # "disconnected"
           \/ phase = "closed" /\ Idle(m)
    PROVE  Leads(Append(s, m), now, P, after, u)
<1> DEFINE t == Append(s, m)
           n == Len(s) + 1
<1>1. /\ Len(s) \in Nat /\ DOMAIN s = 1..Len(s) /\ Len(t) = n /\ t[n] = m
      /\ \A i \in 1..Len(s) : t[i] = s[i]
      OBVIOUS
<1>2. PICK v : Reads(s, now, P, l, v) /\ (phase = "closed" => \E i \in 0..Len(s) : EndsAt(s, l, v, i))
      BY DEF Leads
<1> DEFINE z == [i \in 0..n |-> IF i = n THEN u ELSE v[i]]
<1>3. z[n] = u /\ \A i \in 0..Len(s) : z[i] = v[i]
      BY <1>1
<1> HIDE DEF t, z
<1>4. Reads(t, now, P, u, z)
  <2>1. v[0] = now /\ v[Len(s)] = l /\ \A i \in 1..Len(s) : Hears(P, v[i - 1], s[i], v[i])
      BY <1>2 DEF Reads
  <2>2. z[0] = now /\ z[n - 1] = l /\ z[Len(t)] = u
      BY <1>1, <1>3, <2>1
  <2>3. ASSUME NEW i \in 1..Len(t) PROVE Hears(P, z[i - 1], t[i], z[i])
    <3>1. CASE i = n
        BY <1>1, <1>3, <2>2, <3>1
    <3>2. CASE i \in 1..Len(s)
      <4>1. i - 1 \in 0..Len(s) /\ i \in 0..Len(s)
          BY <1>1, <3>2
      <4> QED BY <1>1, <1>3, <2>1, <3>2, <4>1
    <3> QED BY <1>1, <3>1, <3>2
  <2> QED BY <2>2, <2>3 DEF Reads
<1>5. ASSUME after = "closed" PROVE \E i \in 0..Len(t) : EndsAt(t, u, z, i)
  <2>1. CASE m.is = "disconnected" /\ \A i \in DOMAIN s : s[i].is # "disconnected"
    <3>1. n \in 0..Len(t) /\ z[n] = u
        BY <1>1, <1>3
    <3>2. \A j \in 1..Len(t) : (t[j].is = "disconnected" <=> j = n) /\ ~(j > n)
        BY <1>1, <2>1
    <3> QED BY <3>1, <3>2 DEF EndsAt
  <2>2. CASE phase = "closed" /\ Idle(m)
    <3>1. PICK i \in 0..Len(s) : EndsAt(s, l, v, i)
        BY <1>2, <2>2
    <3>2. u = l /\ m.is # "disconnected"
        BY <2>2, IdleHears DEF Idle
    <3>3. i \in 0..Len(t) /\ z[i] = u /\ i # n
        BY <1>1, <1>3, <3>1, <3>2 DEF EndsAt
    <3>4. \A j \in 1..Len(t) : (t[j].is = "disconnected" <=> j = i) /\ (j > i => Idle(t[j]))
        BY <1>1, <2>2, <3>1, <3>2, <3>3 DEF EndsAt
    <3> QED BY <3>3, <3>4 DEF EndsAt
  <2> QED BY <1>5, <2>1, <2>2
<1> QED BY <1>4, <1>5 DEF Leads, t

\* Two messages mean the same with P and with Q in flight.
Same(P, m, Q, n) ==
    /\ \A v, w : Hears(P, v, m, w) => Hears(Q, v, n, w)
    /\ m.is = "disconnected" <=> n.is = "disconnected"
    /\ Idle(m) => Idle(n)

\* The first message is read.
LEMMA LeadsOn ==
    ASSUME NEW s \in Seq(Message), NEW t \in Seq(Message), s # <<>>, Len(t) = Len(s) - 1,
           NEW now, NEW P, NEW Q, NEW phase, NEW l, Leads(s, now, P, phase, l),
           \A j \in 1..Len(t) : Same(P, s[j + 1], Q, t[j])
    PROVE  \E u : Hears(P, now, s[1], u) /\ Leads(t, u, Q, phase, l)
<1>1. Len(s) \in Nat /\ Len(t) \in Nat /\ 1 \in 1..Len(s)
      OBVIOUS
<1>2. PICK v : Reads(s, now, P, l, v) /\ (phase = "closed" => \E i \in 0..Len(s) : EndsAt(s, l, v, i))
      BY DEF Leads
<1>3. v[0] = now /\ v[Len(s)] = l /\ \A i \in 1..Len(s) : Hears(P, v[i - 1], s[i], v[i])
      BY <1>2 DEF Reads
<1>4. Hears(P, now, s[1], v[1])
  <2>1. Hears(P, v[1 - 1], s[1], v[1])
      BY <1>1, <1>3
  <2> QED BY <1>3, <2>1
<1> DEFINE z == [i \in 0..Len(t) |-> v[i + 1]]
<1>5. \A i \in 0..Len(t) : z[i] = v[i + 1]
      OBVIOUS
<1> HIDE DEF z
<1>6. Reads(t, v[1], Q, l, z)
  <2>1. 0 \in 0..Len(t) /\ Len(t) \in 0..Len(t) /\ 0 + 1 = 1 /\ Len(t) + 1 = Len(s)
      BY <1>1
  <2>2. z[0] = v[1] /\ z[Len(t)] = l
      BY <1>3, <1>5, <2>1
  <2>3. ASSUME NEW i \in 1..Len(t) PROVE Hears(Q, z[i - 1], t[i], z[i])
    <3>1. i + 1 \in 1..Len(s) /\ (i + 1) - 1 = i /\ i - 1 \in 0..Len(t) /\ i \in 0..Len(t) /\ (i - 1) + 1 = i
        BY <1>1
    <3>2. z[i - 1] = v[i] /\ z[i] = v[i + 1]
        BY <1>5, <3>1
    <3>3. Hears(P, v[i], s[i + 1], v[i + 1])
      <4>1. Hears(P, v[(i + 1) - 1], s[i + 1], v[i + 1])
          BY <1>3, <3>1
      <4> QED BY <3>1, <4>1
    <3> QED BY <3>2, <3>3 DEF Same
  <2> QED BY <2>2, <2>3 DEF Reads
<1>7. ASSUME phase = "closed" PROVE \E i \in 0..Len(t) : EndsAt(t, l, z, i)
  <2>1. PICK i \in 0..Len(s) : EndsAt(s, l, v, i)
      BY <1>2, <1>7
  <2>2. v[i] = l /\ \A j \in 1..Len(s) : (s[j].is = "disconnected" <=> j = i) /\ (j > i => Idle(s[j]))
      BY <2>1 DEF EndsAt
  <2>3. \A j \in 1..Len(t) : /\ j + 1 \in 1..Len(s)
                             /\ t[j].is = "disconnected" <=> s[j + 1].is = "disconnected"
                             /\ Idle(s[j + 1]) => Idle(t[j])
    <3>1. \A j \in 1..Len(t) : j + 1 \in 1..Len(s)
        BY <1>1
    <3> QED BY <3>1 DEF Same
  <2>4. CASE i = 0
    <3>1. Idle(s[1])
        BY <1>1, <2>2, <2>4
    <3>2. v[1] = now /\ now = l
        BY <1>3, <1>4, <2>2, <2>4, <3>1, IdleHears
    <3>3. z[0] = l
        BY <1>6, <3>2 DEF Reads
    <3>4. \A j \in 1..Len(t) : (t[j].is = "disconnected" <=> j = 0) /\ (j > 0 => Idle(t[j]))
      <4> TAKE j \in 1..Len(t)
      <4>1. j + 1 # 0 /\ j + 1 > 0 /\ j # 0
          OBVIOUS
      <4> QED BY <2>2, <2>3, <2>4, <4>1
    <3> QED BY <1>1, <3>3, <3>4 DEF EndsAt
  <2>5. CASE i # 0
    <3>1. i - 1 \in 0..Len(t) /\ (i - 1) + 1 = i
        BY <1>1, <2>5
    <3>2. z[i - 1] = l
        BY <1>5, <2>2, <3>1
    <3>3. \A j \in 1..Len(t) : (t[j].is = "disconnected" <=> j = i - 1) /\ (j > i - 1 => Idle(t[j]))
      <4> TAKE j \in 1..Len(t)
      <4>1. (j + 1 = i <=> j = i - 1) /\ (j > i - 1 => j + 1 > i)
          OBVIOUS
      <4> QED BY <2>2, <2>3, <4>1
    <3> QED BY <3>1, <3>2, <3>3 DEF EndsAt
  <2> QED BY <2>4, <2>5
<1> QED BY <1>4, <1>6, <1>7 DEF Leads

\* Nothing is read, the requests in flight are others.
LEMMA LeadsStays ==
    ASSUME NEW s \in Seq(Message), NEW now, NEW P, NEW Q, NEW phase, NEW after, NEW l,
           Leads(s, now, P, phase, l), (after = "closed" => phase = "closed"),
           \A i \in 1..Len(s) : Same(P, s[i], Q, s[i])
    PROVE  Leads(s, now, Q, after, l)
<1>1. PICK v : Reads(s, now, P, l, v) /\ (phase = "closed" => \E i \in 0..Len(s) : EndsAt(s, l, v, i))
      BY DEF Leads
<1>2. Reads(s, now, Q, l, v)
      BY <1>1 DEF Reads, Same
<1> QED BY <1>1, <1>2 DEF Leads

\* When the worker is closed, only idle messages follow the end.
LEMMA LeadsOver ==
    ASSUME NEW s \in Seq(Message), NEW now, NEW P, NEW l, Leads(s, now, P, "closed", l)
    PROVE  /\ (\A i \in DOMAIN s : s[i].is # "disconnected") => l = now /\ \A i \in 1..Len(s) : Idle(s[i])
           /\ s # <<>> /\ s[1].is = "disconnected" => \A i \in 2..Len(s) : Idle(s[i])
<1>0. Len(s) \in Nat /\ DOMAIN s = 1..Len(s)
      OBVIOUS
<1>1. PICK v : Reads(s, now, P, l, v) /\ \E i \in 0..Len(s) : EndsAt(s, l, v, i)
      BY DEF Leads
<1>2. PICK i \in 0..Len(s) : EndsAt(s, l, v, i)
      BY <1>1
<1>3. v[0] = now /\ v[i] = l
      /\ \A j \in 1..Len(s) : (s[j].is = "disconnected" <=> j = i) /\ (j > i => Idle(s[j]))
      BY <1>1, <1>2 DEF Reads, EndsAt
<1>4. ASSUME \A j \in DOMAIN s : s[j].is # "disconnected"
      PROVE  l = now /\ \A j \in 1..Len(s) : Idle(s[j])
  <2>1. i = 0
      BY <1>0, <1>3, <1>4
  <2> QED BY <1>3, <2>1
<1>5. ASSUME s # <<>>, s[1].is = "disconnected" PROVE \A j \in 2..Len(s) : Idle(s[j])
  <2>1. i = 1
      BY <1>0, <1>3, <1>5
  <2> QED BY <1>3, <2>1
<1> QED BY <1>4, <1>5

\* Idle messages lead nowhere.
LEMMA LeadsNowhere ==
    ASSUME NEW s \in Seq(Message), NEW now, NEW P, NEW phase, phase # "closed",
           \A i \in 1..Len(s) : Idle(s[i])
    PROVE  Leads(s, now, P, phase, now)
<1> DEFINE v == [i \in 0..Len(s) |-> now]
<1>1. Len(s) \in Nat /\ \A i \in 0..Len(s) : v[i] = now
      OBVIOUS
<1> HIDE DEF v
<1>2. \A i \in 1..Len(s) : v[i - 1] = now /\ v[i] = now
      BY <1>1
<1>3. Reads(s, now, P, now, v)
      BY <1>1, <1>2, IdleHears DEF Reads
<1> QED BY <1>3 DEF Leads

-----------------------------------------------------------------------------
(* Marked: how what the window will show when its messages are read agrees  *)
(* with the daemon and the file.                                            *)

\* The first of the requests that are not answered may leave the window with a
\* baseline that is not the file: an edit, a save or a fetch.
Risky(i) == At(i).cmd.op \in {"edit", "save_preset", "get_config"}
Void ==
    /\ workers[worker].phase \in {"idle", "await"}
    /\ \E i \in Open : Risky(i) /\ \A j \in Open : i <= j

\* The request the daemon is to serve next.
Foremost == IF Asks(worker) /\ ~Late THEN 0 ELSE 1
NextResync == \E i \in Open : i = Foremost /\ Resync(i)
NextFetch == \E i \in Open : i = Foremost /\ At(i).cmd.op = "get_config"

\* A switch, revert or reload that the daemon has accepted is followed by a
\* fetch of the baseline, sent or yet to be sent.
Left(m) == Accepts(m) /\ IsFor(m.tag, Leaving)
HasLeft == \E k \in DOMAIN inbox : Left(inbox[k])
Resyncing ==
    \/ HasLeft
    \/ Late /\ Left(LateMessage)
    \/ \E i \in Open : i >= Foremost /\ Resync(i)

Viewed(l) ==
    /\ l.link \in {"up", "down"}
    /\ l.link = "up" => l.name \in Name /\ l.config \in Config /\ l.baseline \in Config
    /\ l.lost \in LostSession \cup {Absent}
\* The session compares with the file, and nothing unsaved is the daemon's alone.
Kept(l) ==
    LET s == SessionOf(l)
    IN  /\ s # Absent => s.baseline = saved[s.name]
        /\ alive => mem = saved[active] \/ (s # Absent /\ s.name = active /\ s.config = mem)
\* What the window will show with the answer the listener has.
Ahead(l, u) == IF Late THEN Hears(pending, l, LateMessage, u) ELSE u = l
Sound(u) ==
    /\ NextResync \/ u.baseline = saved[u.name]
    /\ NextResync \/ ~Resyncing => u.name = active
    /\ Resyncing => mem = saved[active]
    /\ Resyncing \/ NextFetch \/ u.config = mem
Marked(l) ==
    /\ Viewed(l)
    /\ l.link = "up" <=> workers[worker].phase \in {"idle", "await"}
    /\ Void \/ Kept(l)
    /\ Tracking => \E u : Ahead(l, u) /\ Sound(u)
EndIs(l) == Leads(inbox, Now, pending, workers[worker].phase, l)
MarkedEnd == \E l : EndIs(l) /\ Marked(l)

\* What marks an end goes on marking it.
LEMMA MarkedStays ==
    ASSUME NEW l, Marked(l), UNCHANGED <<worker, active, mem, saved>>, alive' => alive,
           workers'[worker].phase = workers[worker].phase,
           Void => Void', Tracking' => Tracking,
           Tracking' => /\ \A u : Ahead(l, u) => Ahead(l, u)'
                        /\ (NextResync' <=> NextResync) /\ (NextFetch => NextFetch')
                        /\ (Resyncing' <=> Resyncing)
    PROVE  Marked(l)'
<1>1. Viewed(l)' /\ (l.link = "up" <=> workers[worker].phase \in {"idle", "await"})'
      BY DEF Marked, Viewed
<1>2. (Void \/ Kept(l))'
      BY DEF Marked, Kept
<1>3. ASSUME Tracking' PROVE \E u : Ahead(l, u)' /\ Sound(u)'
  <2>1. PICK u : Ahead(l, u) /\ Sound(u)
      BY <1>3 DEF Marked
  <2>2. Sound(u)'
      BY <1>3, <2>1 DEF Sound
  <2> QED BY <1>3, <2>1, <2>2
<1> QED BY <1>1, <1>2, <1>3 DEF Marked

\* The requests of the worker in use are the same.
LEMMA LineSame ==
    ASSUME UNCHANGED <<worker, pending>>, workers'[worker].queue = Queue(worker),
           workers'[worker].request = workers[worker].request
    PROVE  /\ Open' = Open /\ (Asks(worker)' <=> Asks(worker))
           /\ \A i : At(i)' = At(i) /\ (Resync(i)' <=> Resync(i)) /\ (Risky(i)' <=> Risky(i))
           /\ workers'[worker].phase = workers[worker].phase => (Void' <=> Void)
<1>1. Open' = Open /\ (Asks(worker)' <=> Asks(worker)) /\ \A i : At(i)' = At(i)
      BY DEF Open, At, Asks, Queue
<1>2. \A i : (Resync(i)' <=> Resync(i)) /\ (Risky(i)' <=> Risky(i))
      BY <1>1 DEF Resync, Risky, IsFor
<1>3. workers'[worker].phase = workers[worker].phase => (Void' <=> Void)
      BY <1>1, <1>2 DEF Void
<1> QED BY <1>1, <1>2, <1>3

\* The acceptances in the inbox are the same, and mean the same.
LEMMA LeftsSame ==
    ASSUME NoAcceptance,
           \A j \in DOMAIN inbox : Left(inbox[j]) => \E k \in DOMAIN inbox' : inbox'[k] = inbox[j],
           \A j \in DOMAIN inbox : Accepts(inbox[j]) =>
               (IsFor(inbox[j].tag, Leaving)
                  <=> \E p \in pending' : p.tag = inbox[j].tag /\ p.kind \in Leaving)
    PROVE  HasLeft' <=> HasLeft
<1>1. ASSUME NEW k \in DOMAIN inbox', Accepts(inbox'[k]),
             NEW p \in pending', p.tag = inbox'[k].tag, p.kind \in Leaving
      PROVE  HasLeft
  <2>1. PICK j \in DOMAIN inbox : inbox'[k] = inbox[j]
      BY <1>1 DEF NoAcceptance
  <2> QED BY <1>1, <2>1 DEF HasLeft, Left
<1>2. ASSUME NEW j \in DOMAIN inbox, Left(inbox[j])
      PROVE  \E k \in DOMAIN inbox' : /\ Accepts(inbox'[k])
                                      /\ \E p \in pending' : p.tag = inbox'[k].tag /\ p.kind \in Leaving
      BY <1>2 DEF Left
<1>3. HasLeft' <=> \E k \in DOMAIN inbox' : /\ Accepts(inbox'[k])
                                            /\ \E p \in pending' : p.tag = inbox'[k].tag /\ p.kind \in Leaving
      BY DEF HasLeft, Left, Accepts, IsFor
<1> QED BY <1>1, <1>2, <1>3 DEF HasLeft

\* A message that accepts nothing adds no acceptance.
LEMMA LeftsAppended ==
    ASSUME Types, UNCHANGED pending,
           inbox' = inbox \/ \E m \in Message : ~Accepts(m) /\ inbox' = Append(inbox, m)
    PROVE  HasLeft' <=> HasLeft
<1>1. NoAcceptance
      BY NoneAccepted
<1>2. \A j \in DOMAIN inbox : \E k \in DOMAIN inbox' : inbox'[k] = inbox[j]
  <2>1. CASE inbox' = inbox
      BY <2>1
  <2>2. ASSUME NEW m \in Message, inbox' = Append(inbox, m)
        PROVE  \A j \in DOMAIN inbox : j \in DOMAIN inbox' /\ inbox'[j] = inbox[j]
      BY <2>2, Appended DEF Types
  <2> QED BY <2>1, <2>2
<1> QED BY <1>1, <1>2, LeftsSame DEF IsFor

\* The same requests, acceptances and answer.
LEMMA MarkedSame ==
    ASSUME NEW l, Marked(l), UNCHANGED <<pending, worker, active, mem, saved>>, alive' => alive,
           workers'[worker].phase = workers[worker].phase, workers'[worker].queue = Queue(worker),
           workers'[worker].request = workers[worker].request,
           workers'[worker].linked => workers[worker].linked,
           HasLeft' <=> HasLeft, Tracking' => UNCHANGED call \/ (~Late /\ ~Late')
    PROVE  Marked(l)'
<1>1. /\ Open' = Open /\ (Asks(worker)' <=> Asks(worker)) /\ (Void' <=> Void)
      /\ \A i : At(i)' = At(i) /\ (Resync(i)' <=> Resync(i))
      BY LineSame
<1>2. CASE ~Tracking'
      BY <1>1, <1>2, MarkedStays
<1>3. CASE Tracking'
  <2>1. (Late' <=> Late) /\ (Late => LateMessage' = LateMessage /\ UNCHANGED call)
      BY <1>3 DEF Late, CallOf, LateMessage
  <2>2. Tracking
      BY <1>3, <2>1 DEF Tracking
  <2>3. Foremost' = Foremost
      BY <1>1, <2>1 DEF Foremost
  <2>4. (NextResync' <=> NextResync) /\ (NextFetch' <=> NextFetch)
      BY <1>1, <2>3 DEF NextResync, NextFetch
  <2>5. (Late /\ Left(LateMessage))' <=> (Late /\ Left(LateMessage))
      BY <2>1 DEF Left, Accepts, IsFor
  <2>6. Resyncing' <=> Resyncing
      BY <1>1, <2>3, <2>5 DEF Resyncing
  <2>7. \A u : Ahead(l, u) => Ahead(l, u)'
      BY <2>1 DEF Ahead
  <2> QED BY <1>1, <2>2, <2>4, <2>6, <2>7, MarkedStays
<1> QED BY <1>2, <1>3

\* So it is after a step that is nothing to the window and the worker in use.
LEMMA AsideMarks ==
    ASSUME Structure, MarkedEnd, Aside
    PROVE  MarkedEnd'
<1>1. Types /\ inbox \in Seq(Message)
      BY DEF Structure, Types
<1>2. PICK l : EndIs(l) /\ Marked(l)
      BY DEF MarkedEnd
<1>3. /\ UNCHANGED <<status, mirror, pending, worker, alive, active, mem, saved>>
      /\ workers'[worker].phase = workers[worker].phase /\ workers'[worker].queue = Queue(worker)
      /\ workers'[worker].request = workers[worker].request
      /\ workers'[worker].linked = workers[worker].linked
      BY DEF Aside
<1>4. EndIs(l)'
  <2>1. Now' = Now
      BY <1>3 DEF Now, IsConnected, mirror
  <2>2. CASE inbox' = inbox
      BY <1>2, <1>3, <2>1, <2>2 DEF EndIs
  <2>3. ASSUME NEW m \in Message, Idle(m), inbox' = Append(inbox, m)
        PROVE  EndIs(l)'
    <3>1. Leads(inbox, Now, pending, workers[worker].phase, l)
        BY <1>2 DEF EndIs
    <3>2. Leads(Append(inbox, m), Now, pending, workers[worker].phase, l)
        BY <1>1, <2>3, <3>1, IdleHears, LeadsAppend
    <3> QED BY <1>3, <2>1, <2>3, <3>2 DEF EndIs
  <2> QED BY <2>2, <2>3 DEF Aside
<1>5. HasLeft' <=> HasLeft
  <2>1. \A m \in Message : Idle(m) => ~Accepts(m)
      BY DEF Idle, Accepts
  <2> QED BY <1>1, <1>3, <2>1, LeftsAppended DEF Aside
<1>6. Tracking' => UNCHANGED call \/ (~Late /\ ~Late')
      BY <1>3 DEF Aside, Tracking
<1> QED BY <1>2, <1>3, <1>4, <1>5, <1>6, MarkedSame DEF MarkedEnd

\* The requests in flight under a tag from before are the same after a batch is sent.
LEMMA TagsFromBefore ==
    ASSUME Types, NEW left \in SUBSET pending, NEW msgs \in Seq(Outgoing), SendEffect(left, msgs),
           NEW t \in Nat, t < nextTag, \A p \in pending : p.tag = t => p \in left
    PROVE  /\ \A p \in pending' : p.tag = t => p \in pending
           /\ \A p \in pending : p.tag = t => p \in pending'
<1>1. \A p \in pending : p.tag = t => p \in pending'
      BY DEF SendEffect
<1>2. ASSUME NEW p \in pending', p.tag = t PROVE p \in pending
  <2>1. CASE p \in left
      BY <2>1
  <2>2. CASE p \notin left
    <3>1. PICK i \in 1..Len(msgs) : p.tag = nextTag + i - 1
        BY <2>2 DEF SendEffect
    <3>2. nextTag \in Nat /\ i \in Nat /\ i > 0
        BY DEF Types
    <3> QED BY <1>2, <3>1, <3>2
  <2> QED BY <2>1, <2>2
<1> QED BY <1>1, <1>2

\* So a message under such a tag means the same.
LEMMA SendingHears ==
    ASSUME Types, NEW left \in SUBSET pending, NEW msgs \in Seq(Outgoing), SendEffect(left, msgs),
           NEW m \in Message,
           m.is = "reply" => m.tag < nextTag /\ \A p \in pending : p.tag = m.tag => p \in left
    PROVE  /\ Same(pending, m, pending', m)
           /\ m.is = "reply" => (IsFor(m.tag, Leaving)
                                   <=> \E p \in pending' : p.tag = m.tag /\ p.kind \in Leaving)
<1>1. m.is = "reply" => /\ \A p \in pending' : p.tag = m.tag => p \in pending
                        /\ \A p \in pending : p.tag = m.tag => p \in pending'
      BY Read, TagsFromBefore
<1>2. ASSUME NEW v, NEW w, Hears(pending, v, m, w) PROVE Hears(pending', v, m, w)
  <2>1. CASE m.is # "reply"
      BY <1>2, <2>1 DEF Hears
  <2>2. CASE m.is = "reply"
      BY <1>1, <1>2, <2>2 DEF Hears
  <2> QED BY <2>1, <2>2
<1>3. m.is = "reply" => (IsFor(m.tag, Leaving)
                           <=> \E p \in pending' : p.tag = m.tag /\ p.kind \in Leaving)
      BY <1>1 DEF IsFor
<1> QED BY <1>2, <1>3 DEF Same

\* What is sent changes nothing of what is marked.
LEMMA SendingMarks ==
    ASSUME Structure, NEW l, Marked(l),
           NEW left \in SUBSET pending, NEW msgs \in Seq(Outgoing), SendEffect(left, msgs),
           \A i \in Open, p \in pending : p.tag = At(i).tag => p \in left,
           UNCHANGED <<alive, active, mem, saved, call>>,
           1 \in DOMAIN msgs => msgs[1].kind # "ResyncBaseline",
           \/ (HasLeft' <=> HasLeft) /\ \A k \in DOMAIN msgs : msgs[k].kind # "ResyncBaseline"
           \/ HasLeft /\ \E k \in DOMAIN msgs : msgs[k].kind = "ResyncBaseline"
    PROVE  Marked(l)'
<1> PICK n : n = Len(Queue(worker))
    OBVIOUS
<1> DEFINE Old(i) == i \in Open /\ At(i)' = At(i) /\ i <= n /\ (Resync(i)' <=> Resync(i))
           New(i, k) == i = n + k /\ (Resync(i)' <=> msgs[k].kind = "ResyncBaseline")
<1>1. /\ Types /\ DOMAIN msgs \subseteq Nat /\ Open \subseteq Nat /\ \A k \in DOMAIN msgs : k > 0
      /\ UNCHANGED worker /\ workers'[worker].phase = workers[worker].phase
      /\ workers'[worker].request = workers[worker].request
      /\ workers'[worker].linked = workers[worker].linked
      BY OpenIs DEF Structure, SendEffect, link
<1>2. /\ n \in Nat
      /\ \A i \in Open : i \in Open' /\ Old(i)
      /\ \A k \in DOMAIN msgs : n + k \in Open'
      /\ \A i \in Open' : Old(i) \/ \E k \in DOMAIN msgs : New(i, k)
  <2>1. LineGrown(n, msgs)
      BY LineGrows
  <2> QED BY <2>1 DEF LineGrown
<1>3. /\ (Late' <=> Late) /\ LateMessage' = LateMessage /\ (Asks(worker)' <=> Asks(worker))
      /\ (Tracking' <=> Tracking) /\ Foremost' = Foremost /\ Foremost \in {0, 1}
  <2>1. (Late' <=> Late) /\ LateMessage' = LateMessage /\ (Asks(worker)' <=> Asks(worker))
      BY <1>1 DEF Late, CallOf, LateMessage, Asks
  <2> QED BY <1>1, <2>1 DEF Tracking, Foremost
<1>4. Void => Void'
  <2> SUFFICES ASSUME Void PROVE Void'
      OBVIOUS
  <2>1. PICK i \in Open : Risky(i) /\ \A j \in Open : i <= j
      BY DEF Void
  <2>2. i \in Open' /\ Risky(i)'
      BY <1>2, <2>1 DEF Risky
  <2>3. ASSUME NEW j \in Open' PROVE i <= j
    <3>1. CASE Old(j)
        BY <2>1, <3>1
    <3>2. ASSUME NEW k \in DOMAIN msgs, New(j, k) PROVE i <= j
      <4>1. i <= n /\ j = n + k /\ k \in Nat /\ i \in Nat /\ n \in Nat
          BY <1>1, <1>2, <3>2
      <4> QED BY <4>1
    <3> HIDE DEF Old, New
    <3> QED BY <1>2, <3>1, <3>2
  <2> QED BY <1>1, <2>2, <2>3 DEF Void
<1>5. NextFetch => NextFetch'
  <2> SUFFICES ASSUME NextFetch PROVE NextFetch'
      OBVIOUS
  <2>1. PICK i \in Open : i = Foremost /\ At(i).cmd.op = "get_config"
      BY DEF NextFetch
  <2> QED BY <1>2, <1>3, <2>1 DEF NextFetch
\* The first request of a batch is no fetch of the baseline.
<1>6. ASSUME NEW i \in Open', Resync(i)' PROVE (Resync(i) /\ i \in Open) \/ (i > 1 /\ \E k \in DOMAIN msgs : msgs[k].kind = "ResyncBaseline")
  <2>1. CASE Old(i)
      BY <1>6, <2>1
  <2>2. ASSUME NEW k \in DOMAIN msgs, New(i, k) PROVE i > 1 /\ msgs[k].kind = "ResyncBaseline"
    <3>1. k # 1 /\ k \in Nat /\ k > 0 /\ i = n + k /\ n \in Nat
        BY <1>1, <1>2, <1>6, <2>2
    <3> QED BY <1>6, <2>2, <3>1
  <2> HIDE DEF Old, New
  <2> QED BY <1>2, <2>1, <2>2
<1>7. NextResync' <=> NextResync
  <2>1. NextResync' => NextResync
      BY <1>3, <1>6 DEF NextResync
  <2>2. ASSUME NEW i \in Open, i = Foremost, Resync(i) PROVE i \in Open' /\ i = Foremost' /\ Resync(i)'
      BY <1>2, <1>3, <2>2
  <2> QED BY <2>1, <2>2 DEF NextResync
<1>8. ASSUME Tracking, Late PROVE /\ \A u : Hears(pending, l, LateMessage, u) => Hears(pending', l, LateMessage, u)
                                  /\ Accepts(LateMessage) =>
                                       (IsFor(LateMessage.tag, Leaving)
                                          <=> \E p \in pending' : p.tag = LateMessage.tag /\ p.kind \in Leaving)
  <2>1. LateMessage \in Message /\ (LateMessage.is = "reply" =>
            LateMessage.tag < nextTag /\ LateMessage.tag = At(0).tag /\ 0 \in Open)
      BY <1>1, <1>8, LateIs, OpenIs DEF Connected, Reply
  <2> QED BY <1>1, <2>1, SendingHears DEF Same, Accepts
<1>9. ASSUME Tracking PROVE Resyncing' <=> Resyncing
  <2>1. (Late /\ Left(LateMessage))' <=> (Late /\ Left(LateMessage))
    <3>1. Left(LateMessage)' <=> /\ Accepts(LateMessage)
                                 /\ \E p \in pending' : p.tag = LateMessage.tag /\ p.kind \in Leaving
        BY <1>3 DEF Left, Accepts, IsFor
    <3> QED BY <1>3, <1>8, <1>9, <3>1 DEF Left
  <2>2. ASSUME NEW i \in Open, i >= Foremost, Resync(i) PROVE i \in Open' /\ i >= Foremost' /\ Resync(i)'
      BY <1>2, <1>3, <2>2
  <2>3. CASE (HasLeft' <=> HasLeft) /\ \A k \in DOMAIN msgs : msgs[k].kind # "ResyncBaseline"
    <3>1. ASSUME NEW i \in Open', i >= Foremost', Resync(i)' PROVE i \in Open /\ i >= Foremost /\ Resync(i)
        BY <1>3, <1>6, <2>3, <3>1
    <3> QED BY <2>1, <2>2, <2>3, <3>1 DEF Resyncing
  <2>4. CASE HasLeft /\ \E k \in DOMAIN msgs : msgs[k].kind = "ResyncBaseline"
    <3>1. PICK k \in DOMAIN msgs : msgs[k].kind = "ResyncBaseline"
        BY <2>4
    <3>2. PICK i \in Open' : i = n + k
        BY <1>2, <3>1
    <3>3. i >= Foremost'
      <4>1. k \in Nat /\ k > 0 /\ n \in Nat
          BY <1>1, <1>2
      <4> QED BY <1>3, <3>2, <4>1
    <3>4. Resync(i)'
      <4>1. i \notin Open
        <5>1. k \in Nat /\ k > 0 /\ n \in Nat /\ ~(n + k <= n)
            BY <1>1, <1>2
        <5> QED BY <1>2, <3>2, <5>1
      <4>2. PICK h \in DOMAIN msgs : New(i, h)
          BY <1>2, <4>1
      <4>3. h = k
          BY <1>1, <1>2, <3>2, <4>2
      <4> QED BY <3>1, <4>2, <4>3
    <3>5. Resyncing' /\ Resyncing
        BY <2>4, <3>3, <3>4 DEF Resyncing
    <3> QED BY <3>5
  <2> QED BY <2>3, <2>4
<1>10. ASSUME Tracking, NEW u, Ahead(l, u) PROVE Ahead(l, u)'
      BY <1>3, <1>8, <1>10 DEF Ahead
<1> HIDE DEF Old, New
<1> QED BY <1>1, <1>3, <1>4, <1>5, <1>7, <1>9, <1>10, MarkedStays

\* The operator's requests mark nothing anew.
LEMMA ActingMarks ==
    ASSUME Structure, MarkedEnd, WindowActs, ~overtaken'
    PROVE  MarkedEnd'
<1>1. /\ Types /\ Known /\ TagsBelow /\ inbox \in Seq(Message)
      BY DEF Structure, Types, Tags
<1>2. PICK l : EndIs(l) /\ Marked(l)
      BY DEF MarkedEnd
<1>3. UNCHANGED <<status, mirror, inbox, server>>
      BY <1>1, WindowActing
<1>4. Now' = Now /\ NoAcceptance /\ UNCHANGED <<alive, active, mem, saved, call>>
      BY <1>1, <1>3, NoneAccepted DEF Now, IsConnected, mirror, server
<1>5. Leads(inbox, Now, pending, workers[worker].phase, l)
      BY <1>2 DEF EndIs
<1>6. CASE UNCHANGED <<requests, workers>>
  <2>1. UNCHANGED <<pending, worker, workers>>
      BY <1>6 DEF requests, link
  <2>2. EndIs(l)'
      BY <1>3, <1>4, <1>5, <2>1 DEF EndIs
  <2>3. HasLeft' <=> HasLeft
      BY <1>1, <1>3, <2>1, LeftsAppended
  <2>4. Marked(l)'
      BY <1>2, <1>4, <2>1, <2>3, MarkedSame DEF Queue
  <2> QED BY <2>2, <2>4 DEF MarkedEnd
<1>7. ASSUME NEW msgs \in Seq(Outgoing), SendEffect(pending, msgs),
             \A k \in DOMAIN msgs : msgs[k].kind # "ResyncBaseline"
      PROVE  MarkedEnd'
  <2>1. \A i \in DOMAIN inbox :
           /\ Same(pending, inbox[i], pending', inbox[i])
           /\ Accepts(inbox[i]) => (IsFor(inbox[i].tag, Leaving)
                 <=> \E p \in pending' : p.tag = inbox[i].tag /\ p.kind \in Leaving)
    <3> TAKE i \in DOMAIN inbox
    <3>1. inbox[i] \in Message /\ (inbox[i].is = "reply" => inbox[i].tag < nextTag)
        BY <1>1, Elements DEF TagsBelow, Answers
    <3> QED BY <1>1, <1>7, <3>1, SendingHears DEF Accepts
  <2>2. DOMAIN inbox = 1..Len(inbox)
      BY <1>1
  <2>3. UNCHANGED worker /\ workers'[worker].phase = workers[worker].phase
      BY <1>7 DEF SendEffect, link
  <2>4. Leads(inbox, Now, pending', workers[worker].phase, l)
      BY <1>1, <1>5, <2>1, <2>2, LeadsStays
  <2>5. EndIs(l)'
      BY <1>3, <1>4, <2>3, <2>4 DEF EndIs
  <2>6. HasLeft' <=> HasLeft
      BY <1>3, <1>4, <2>1, LeftsSame
  <2>7. 1 \in DOMAIN msgs => msgs[1].kind # "ResyncBaseline"
      BY <1>7
  <2>8. Marked(l)'
      BY <1>2, <1>4, <1>7, <2>6, <2>7, SendingMarks
  <2> QED BY <2>5, <2>8 DEF MarkedEnd
<1> QED BY <1>1, <1>6, <1>7, ActingOrderly

\* An answer that is read makes of the window what it was to make.
LEMMA ReplyMarks ==
    ASSUME Structure, MarkedEnd, OnReply
    PROVE  MarkedEnd'
<1> DEFINE m == inbox[1]
           left == {q \in pending : q.tag # m.tag}
<1>1. /\ Types /\ Known /\ Tags /\ AnswersFit /\ inbox \in Seq(Message) /\ nextTag \in Nat
      BY DEF Structure, Types, Fitting
<1>2. /\ inbox # <<>> /\ m \in Message /\ m.is = "reply" /\ inbox' = Tail(inbox)
      /\ UNCHANGED <<status, lost, server>> /\ 1 \in DOMAIN inbox /\ Answers(1)
      /\ m.tag \in Nat /\ m.tag < nextTag
  <2>1. /\ inbox # <<>> /\ m \in Message /\ m.is = "reply" /\ inbox' = Tail(inbox)
        /\ UNCHANGED <<status, lost, server>>
      BY <1>1, Hearing
  <2>2. 1 \in DOMAIN inbox /\ Answers(1) /\ m.tag \in Nat
      BY <1>1, <2>1, InboxHead, Read DEF Answers
  <2>3. m.tag < nextTag
      BY <1>1, <2>2 DEF Tags, TagsBelow
  <2> QED BY <2>1, <2>2, <2>3
<1>3. UNCHANGED <<alive, active, mem, saved, call>> /\ NoAcceptance
      BY <1>1, <1>2, NoneAccepted DEF server
<1>4. PICK l : EndIs(l) /\ Marked(l)
      BY DEF MarkedEnd
<1>5. Leads(inbox, Now, pending, workers[worker].phase, l)
      BY <1>4 DEF EndIs
<1>6. /\ Tail(inbox) \in Seq(Message) /\ Len(Tail(inbox)) = Len(inbox) - 1
      /\ DOMAIN Tail(inbox) = 1..Len(Tail(inbox)) /\ DOMAIN inbox = 1..Len(inbox) /\ Len(inbox) \in Nat
      /\ \A j \in 1..Len(Tail(inbox)) :
            Tail(inbox)[j] = inbox[j + 1] /\ j + 1 \in DOMAIN inbox /\ j + 1 # 1
      /\ \A j \in DOMAIN inbox : j # 1 => \E k \in DOMAIN inbox' : inbox'[k] = inbox[j]
  <2>1. /\ Tail(inbox) \in Seq(Message) /\ Len(Tail(inbox)) = Len(inbox) - 1
        /\ DOMAIN Tail(inbox) = 1..Len(Tail(inbox)) /\ DOMAIN inbox = 1..Len(inbox) /\ Len(inbox) \in Nat
        /\ \A j \in 1..Len(Tail(inbox)) :
              Tail(inbox)[j] = inbox[j + 1] /\ j + 1 \in DOMAIN inbox /\ j + 1 # 1
      BY <1>1, <1>2, InboxHead
  <2>2. ASSUME NEW j \in DOMAIN inbox, j # 1 PROVE \E k \in DOMAIN inbox' : inbox'[k] = inbox[j]
    <3>1. j - 1 \in 1..Len(Tail(inbox)) /\ (j - 1) + 1 = j
        BY <2>1, <2>2
    <3>2. j - 1 \in DOMAIN inbox' /\ inbox'[j - 1] = inbox[j]
        BY <1>2, <2>1, <3>1
    <3> QED BY <3>2
  <2> QED BY <2>1, <2>2
<1>7. CASE (\A q \in pending : q.tag # m.tag) /\ UNCHANGED <<name, config, baseline, requests, workers>>
  <2>1. UNCHANGED <<pending, worker, workers>> /\ Now' = Now
      BY <1>2, <1>7 DEF requests, link, Now, IsConnected
  <2>2. \A j \in 1..Len(Tail(inbox)) : Same(pending, inbox[j + 1], pending, Tail(inbox)[j])
      BY <1>6 DEF Same
  <2>3. PICK u : Hears(pending, Now, m, u) /\ Leads(Tail(inbox), u, pending, workers[worker].phase, l)
      BY <1>1, <1>2, <1>5, <1>6, <2>2, LeadsOn
  <2>4. u = Now
      BY <1>2, <1>7, <2>3 DEF Hears
  <2>5. EndIs(l)'
      BY <1>2, <2>1, <2>3, <2>4 DEF EndIs
  <2>6. \A j \in DOMAIN inbox : Left(inbox[j]) => j # 1
      BY <1>7 DEF Left, IsFor
  <2>7. HasLeft' <=> HasLeft
      BY <1>3, <1>6, <2>1, <2>6, LeftsSame DEF IsFor
  <2>8. Marked(l)'
      BY <1>3, <1>4, <2>1, <2>7, MarkedSame DEF Queue
  <2> QED BY <2>5, <2>8 DEF MarkedEnd
<1>8. ASSUME NEW p \in pending, p.tag = m.tag,
             config' = Mirrored(p, m.r), baseline' = Baselined(p, m.r),
             name' = (IF m.r.ok /\ p.kind = "CurrentPreset" THEN m.r.data ELSE name),
             SendEffect(left, FollowUp(p, m.r))
      PROVE  MarkedEnd'
  <2> DEFINE f == FollowUp(p, m.r)
  <2>1. \A q \in pending : q.tag = m.tag => q = p
      BY <1>1, <1>8 DEF Tags, PendingOnce
  <2>2. Now' = Told(Now, p, m.r)
      BY <1>2, <1>8 DEF Now, Told, ToldConfig, ToldBaseline, Mirrored, Baselined, IsConnected, Fetching
  <2>3. /\ f \in Seq(Outgoing) /\ (1 \in DOMAIN f => f[1].kind # "ResyncBaseline")
        /\ m.r.ok /\ p.kind \in Leaving <=> \E k \in DOMAIN f : f[k].kind = "ResyncBaseline"
    <3>1. p \in Request
        BY <1>1 DEF Types
    <3> HIDE DEF m
    <3> QED BY <3>1, FollowUpOrderly
  <2>4. UNCHANGED worker /\ workers'[worker].phase = workers[worker].phase /\ left \in SUBSET pending
      BY <1>8 DEF SendEffect, link
  <2> HIDE DEF f
  <2>5. SendEffect(left, f)
      BY <1>8 DEF f
  <2>6. \A j \in DOMAIN inbox : j # 1 =>
           /\ Same(pending, inbox[j], pending', inbox[j])
           /\ Accepts(inbox[j]) => (IsFor(inbox[j].tag, Leaving)
                 <=> \E q \in pending' : q.tag = inbox[j].tag /\ q.kind \in Leaving)
    <3> SUFFICES ASSUME NEW j \in DOMAIN inbox, j # 1
                 PROVE  /\ Same(pending, inbox[j], pending', inbox[j])
                        /\ Accepts(inbox[j]) => (IsFor(inbox[j].tag, Leaving)
                              <=> \E q \in pending' : q.tag = inbox[j].tag /\ q.kind \in Leaving)
        OBVIOUS
    <3>1. inbox[j] \in Message /\ (inbox[j].is = "reply" => inbox[j].tag < nextTag /\ inbox[j].tag # m.tag)
        BY <1>1, <1>2, Elements DEF Tags, TagsBelow, AnswersOnce, Answers
    <3>2. inbox[j].is = "reply" => \A q \in pending : q.tag = inbox[j].tag => q \in left
        BY <3>1
    <3> HIDE DEF left, m
    <3> QED BY <1>1, <2>3, <2>4, <2>5, <3>1, <3>2, SendingHears DEF Accepts
  <2>7. \A j \in 1..Len(Tail(inbox)) : Same(pending, inbox[j + 1], pending', Tail(inbox)[j])
      BY <1>6, <2>6
  <2>8. PICK u : Hears(pending, Now, m, u) /\ Leads(Tail(inbox), u, pending', workers[worker].phase, l)
      BY <1>1, <1>2, <1>5, <1>6, <2>7, LeadsOn
  <2>9. u = Told(Now, p, m.r)
      BY <1>2, <1>8, <2>1, <2>8 DEF Hears
  <2>10. EndIs(l)'
      BY <1>2, <2>2, <2>4, <2>8, <2>9 DEF EndIs
  <2>11. \/ (HasLeft' <=> HasLeft) /\ \A k \in DOMAIN f : f[k].kind # "ResyncBaseline"
         \/ HasLeft /\ \E k \in DOMAIN f : f[k].kind = "ResyncBaseline"
    <3>1. CASE m.r.ok /\ p.kind \in Leaving
        BY <1>2, <1>8, <2>3, <3>1 DEF HasLeft, Left, Accepts, IsFor
    <3>2. CASE ~(m.r.ok /\ p.kind \in Leaving)
      <4>1. ~Left(m)
          BY <2>1, <3>2 DEF Left, Accepts, IsFor
      <4>2. \A q \in pending' : q.tag # m.tag
        <5>1. ASSUME NEW q \in pending', q \notin left PROVE q.tag # m.tag
          <6>1. PICK i \in 1..Len(f) : q.tag = nextTag + i - 1
              BY <2>5, <5>1 DEF SendEffect
          <6>2. i \in Nat /\ i > 0
              BY <2>3
          <6> QED BY <1>1, <1>2, <6>1, <6>2
        <5> QED BY <5>1
      <4>3. \A j \in DOMAIN inbox : Accepts(inbox[j]) => (IsFor(inbox[j].tag, Leaving)
                 <=> \E q \in pending' : q.tag = inbox[j].tag /\ q.kind \in Leaving)
        <5> TAKE j \in DOMAIN inbox
        <5>1. CASE j = 1
            BY <4>1, <4>2, <5>1 DEF Left
        <5> QED BY <2>6, <5>1
      <4>4. \A j \in DOMAIN inbox : Left(inbox[j]) => \E k \in DOMAIN inbox' : inbox'[k] = inbox[j]
          BY <1>6, <4>1
      <4>5. HasLeft' <=> HasLeft
          BY <1>3, <4>3, <4>4, LeftsSame
      <4> QED BY <2>3, <3>2, <4>5
    <3> QED BY <3>1, <3>2
  <2>12. \A i \in Open, q \in pending : q.tag = At(i).tag => q \in left
      BY <1>2, OpenUnanswered
  <2> HIDE DEF left, m
  <2>13. Marked(l)'
      BY <1>3, <1>4, <2>3, <2>4, <2>5, <2>11, <2>12, SendingMarks
  <2> QED BY <2>10, <2>13 DEF MarkedEnd
<1> QED BY <1>1, <1>7, <1>8, Hearing

\* Idle messages mean the same.
LEMMA IdleSame ==
    ASSUME NEW m, NEW n, Idle(m), Idle(n), NEW P, NEW Q
    PROVE  Same(P, m, Q, n)
<1>1. \A v, w : Hears(P, v, m, w) => Hears(Q, v, n, w)
      BY IdleHears
<1>2. m.is # "disconnected" /\ n.is # "disconnected"
      BY DEF Idle
<1> QED BY <1>1, <1>2 DEF Same

\* The rest of the messages, when the first is read.
LEMMA RestIs ==
    ASSUME Types, inbox # <<>>, inbox' = Tail(inbox) \/ NewGeneration
    PROVE  /\ inbox' \in Seq(Message) /\ Len(inbox') = Len(inbox) - 1 /\ DOMAIN inbox = 1..Len(inbox)
           /\ \A j \in 1..Len(inbox') : j + 1 \in DOMAIN inbox /\ j + 1 # 1
           /\ \A j \in 1..Len(inbox') : inbox'[j] = inbox[j + 1] \/ (Idle(inbox'[j]) /\ Idle(inbox[j + 1]))
           /\ NoAcceptance
           /\ \A j \in DOMAIN inbox : j # 1 /\ Left(inbox[j]) => \E k \in DOMAIN inbox' : inbox'[k] = inbox[j]
<1>1. inbox \in Seq(Message) /\ Len(inbox) \in Nat /\ DOMAIN inbox = 1..Len(inbox)
      BY DEF Types
<1>2. /\ inbox' \in Seq(Message) /\ Len(inbox') = Len(inbox) - 1
      /\ \A j \in 1..(Len(inbox) - 1) :
            inbox'[j] = inbox[j + 1] \/ (Idle(inbox'[j]) /\ Idle(inbox[j + 1]))
  <2>1. CASE inbox' = Tail(inbox)
      BY <2>1, InboxHead
  <2>2. CASE NewGeneration
    <3>1. Idle(Tick) /\ Idle([Tick EXCEPT !.stale = TRUE])
        BY DEF Idle, Tick
    <3> QED BY <2>2, <3>1, Renewing
  <2> QED BY <2>1, <2>2
<1>3. \A j \in 1..Len(inbox') : j + 1 \in DOMAIN inbox /\ j + 1 # 1
      BY <1>1, <1>2
<1>4. NoAcceptance
      BY NoneAccepted
<1>5. ASSUME NEW j \in DOMAIN inbox, j # 1, Left(inbox[j])
      PROVE  \E k \in DOMAIN inbox' : inbox'[k] = inbox[j]
  <2>1. j - 1 \in 1..(Len(inbox) - 1) /\ (j - 1) + 1 = j /\ DOMAIN inbox' = 1..(Len(inbox) - 1)
      BY <1>1, <1>2, <1>5
  <2>2. ~Idle(inbox[j])
      BY <1>5 DEF Left, Accepts, Idle
  <2>3. inbox'[j - 1] = inbox[j]
      BY <1>2, <2>1, <2>2
  <2> QED BY <2>1, <2>3
<1> QED BY <1>1, <1>2, <1>3, <1>4, <1>5

\* A snapshot that is read greets the window; a tick it has no use for is dropped.
LEMMA GreetingMarks ==
    ASSUME Structure, MarkedEnd, OnConnected \/ Discarding
    PROVE  MarkedEnd'
<1>1. Types /\ inbox \in Seq(Message)
      BY DEF Structure, Types
<1>2. PICK l : EndIs(l) /\ Marked(l)
      BY DEF MarkedEnd
<1>3. /\ inbox # <<>> /\ (inbox' = Tail(inbox) \/ NewGeneration) /\ UNCHANGED <<requests, workers, server>>
      /\ 1 \in DOMAIN inbox /\ inbox[1] = Head(inbox) /\ inbox[1].is \in {"connected", "tick"}
  <2>1. /\ inbox # <<>> /\ (inbox' = Tail(inbox) \/ NewGeneration) /\ UNCHANGED <<requests, workers, server>>
        /\ Head(inbox).is \in {"connected", "tick"}
      BY DEF OnConnected, Discarding, Receive
  <2> QED BY <1>1, <2>1, InboxHead
<1>4. UNCHANGED <<pending, worker, workers, alive, active, mem, saved, call>>
      BY <1>3 DEF requests, link, server
<1>5. Leads(inbox, Now, pending, workers[worker].phase, l)
      BY <1>2 DEF EndIs
<1>6. \A j \in 1..Len(inbox') : Same(pending, inbox[j + 1], pending, inbox'[j])
  <2> TAKE j \in 1..Len(inbox')
  <2>1. CASE inbox'[j] = inbox[j + 1]
      BY <2>1 DEF Same
  <2> QED BY <1>1, <1>3, <2>1, RestIs, IdleSame
<1>7. PICK u : Hears(pending, Now, inbox[1], u) /\ Leads(inbox', u, pending, workers[worker].phase, l)
      BY <1>1, <1>3, <1>5, <1>6, RestIs, LeadsOn
<1>8. Now' = u
  <2>1. CASE OnConnected
    <3>1. inbox[1].is = "connected"
        BY <1>3, <2>1 DEF OnConnected, Receive
    <3>2. u = Greeted(Now, inbox[1].data)
        BY <1>7, <3>1 DEF Hears
    <3> QED BY <1>3, <2>1, <3>2 DEF OnConnected, Now, Greeted, Survives, IsConnected
  <2>2. CASE Discarding
    <3>1. inbox[1].is = "tick"
        BY <1>3, <2>2 DEF Discarding
    <3> QED BY <1>7, <2>2, <3>1 DEF Hears, Discarding, Now, IsConnected, mirror
  <2> QED BY <2>1, <2>2
<1>9. EndIs(l)'
      BY <1>4, <1>7, <1>8 DEF EndIs
<1>10. HasLeft' <=> HasLeft
  <2>1. ~Left(inbox[1])
      BY <1>3 DEF Left, Accepts
  <2> QED BY <1>1, <1>3, <1>4, <2>1, RestIs, LeftsSame DEF IsFor
<1>11. Marked(l)'
      BY <1>2, <1>4, <1>10, MarkedSame DEF Queue
<1> QED BY <1>9, <1>11 DEF MarkedEnd

\* The end of the link that is read leaves the window with the session it had.
LEMMA PartingMarks ==
    ASSUME Structure, EndIsOfCurrent, MarkedEnd, OnDisconnected
    PROVE  MarkedEnd'
<1>1. Types /\ inbox \in Seq(Message)
      BY DEF Structure, Types
<1>2. PICK l : EndIs(l) /\ Marked(l)
      BY DEF MarkedEnd
<1>3. /\ inbox # <<>> /\ NewGeneration /\ UNCHANGED <<worker, workers, alive, active, mem, saved>>
      /\ pending' = {} /\ 1 \in DOMAIN inbox /\ inbox[1] \in Message /\ inbox[1].is = "disconnected"
  <2>1. /\ inbox # <<>> /\ NewGeneration /\ UNCHANGED <<worker, workers, alive, active, mem, saved>>
        /\ pending' = {} /\ Head(inbox).is = "disconnected"
      BY DEF OnDisconnected, Receive, link, server
  <2> QED BY <1>1, <2>1, InboxHead
<1>4. workers[worker].phase = "closed"
      BY <1>3 DEF EndIsOfCurrent
<1>5. Leads(inbox, Now, pending, "closed", l)
      BY <1>2, <1>4 DEF EndIs
<1>6. \A j \in 1..Len(inbox') : Same(pending, inbox[j + 1], pending', inbox'[j])
  <2>1. \A j \in 2..Len(inbox) : Idle(inbox[j])
      BY <1>1, <1>3, <1>5, LeadsOver
  <2>2. ASSUME NEW j \in 1..Len(inbox') PROVE Idle(inbox[j + 1]) /\ Idle(inbox'[j])
    <3>1. j + 1 \in 2..Len(inbox)
        BY <1>1, <1>3, RestIs
    <3> QED BY <1>1, <1>3, <2>1, <3>1, RestIs
  <2> QED BY <2>2, IdleSame
<1>7. PICK u : Hears(pending, Now, inbox[1], u) /\ Leads(inbox', u, pending', "closed", l)
      BY <1>1, <1>3, <1>5, <1>6, RestIs, LeadsOn
<1>8. Now' = u
  <2>1. u = Ended(Now)
      BY <1>3, <1>7 DEF Hears
  <2> QED BY <2>1 DEF OnDisconnected, Now, Ended, SessionOf, IsConnected
<1>9. EndIs(l)'
      BY <1>3, <1>4, <1>7, <1>8 DEF EndIs
<1>10. ~Void /\ ~Tracking'
      BY <1>3, <1>4 DEF Void, Tracking
<1>11. Marked(l)'
      BY <1>2, <1>3, <1>10, MarkedStays
<1> QED BY <1>9, <1>11 DEF MarkedEnd

\* A new worker begins where the old one ended.
LEMMA ReconnectMarks ==
    ASSUME Structure, MarkedEnd, inbox # <<>>, Reconnect, UNCHANGED server, ~abandoned'
    PROVE  MarkedEnd'
<1>1. Types /\ inbox \in Seq(Message) /\ worker \in Worker
      BY DEF Structure, Types
<1>2. PICK l : EndIs(l) /\ Marked(l)
      BY DEF MarkedEnd
<1>3. /\ NewGeneration /\ status' = "connecting" /\ pending' = {} /\ Reported
      /\ workers'[worker'] = Spawned /\ UNCHANGED mirror
      BY <1>1, Reconnecting
<1>4. workers[worker].phase = "closed" /\ \A i \in DOMAIN inbox : inbox[i].is # "disconnected"
  <2>1. \A i \in DOMAIN inbox : inbox[i] # Disconnected /\ inbox[i] \in Message
      BY <1>1, <1>3, Elements DEF Reported, Range
  <2> QED BY <1>3, <2>1 DEF Reported, Message, Disconnected
<1>5. Leads(inbox, Now, pending, "closed", l)
      BY <1>2, <1>4 DEF EndIs
<1>6. l = Now /\ \A i \in 1..Len(inbox) : Idle(inbox[i])
      BY <1>1, <1>4, <1>5, LeadsOver
<1>7. l.link # "up"
      BY <1>2, <1>4 DEF Marked
<1>8. Now' = l
  <2>1. ~IsConnected
      BY <1>6, <1>7 DEF Now
  <2> QED BY <1>3, <1>6, <2>1 DEF Now, IsConnected, mirror
<1>9. \A j \in 1..Len(inbox') : Idle(inbox'[j])
  <2> TAKE j \in 1..Len(inbox')
  <2>1. j + 1 \in DOMAIN inbox /\ (inbox'[j] = inbox[j + 1] \/ Idle(inbox'[j])) /\ DOMAIN inbox = 1..Len(inbox)
      BY <1>1, <1>3, RestIs
  <2> QED BY <1>6, <2>1
<1>10. workers'[worker'].phase = "new" /\ workers'[worker'].phase # "closed"
      BY <1>3 DEF Spawned, Gone
<1>11. inbox' \in Seq(Message)
      BY <1>1, <1>3, RestIs
<1>12. Leads(inbox', l, pending', workers'[worker'].phase, l)
      BY <1>9, <1>10, <1>11, LeadsNowhere
<1>13. EndIs(l)'
      BY <1>8, <1>12 DEF EndIs
<1>14. ~Void /\ ~Tracking'
      BY <1>4, <1>10 DEF Void, Tracking
<1>15. Kept(l)'
  <2>1. Kept(l)
      BY <1>2, <1>14 DEF Marked
  <2> QED BY <2>1 DEF Kept, server
<1>16. Viewed(l)
      BY <1>2 DEF Marked
<1>17. Marked(l)'
      BY <1>7, <1>10, <1>14, <1>15, <1>16 DEF Marked, Viewed
<1> QED BY <1>13, <1>17 DEF MarkedEnd

\* The link ends: what the window will show is without it, with the session kept.
LEMMA EndedMarks ==
    ASSUME NEW l, Viewed(l), Kept(l), UNCHANGED <<worker, active, mem, saved>>, alive' => alive,
           workers'[worker].phase = "closed", NEW e, e = Ended(l)
    PROVE  Marked(e)'
<1>1. e.link = "down" /\ e.lost = SessionOf(l) /\ SessionOf(e) = SessionOf(l)
      BY DEF Ended, SessionOf
<1>2. e.lost \in LostSession \cup {Absent}
      BY <1>1 DEF Viewed, SessionOf, LostSession
<1>3. Viewed(e)'
      BY <1>1, <1>2 DEF Viewed
<1>4. Kept(e)'
      BY <1>1 DEF Kept
<1>5. ~Tracking' /\ workers'[worker'].phase = "closed"
      BY DEF Tracking
<1> QED BY <1>1, <1>3, <1>4, <1>5 DEF Marked

\* The end of the link is told the window.
LEMMA EndingLeads ==
    ASSUME Types, EndIsOfCurrent, NEW l, NEW s \in Seq(Message), NEW phase, phase # "closed",
           Leads(s, Now, pending, phase, l), \A i \in DOMAIN s : s[i].is # "disconnected",
           UNCHANGED <<status, mirror, pending, worker>>, workers'[worker].phase = "closed",
           inbox' = Append(s, Disconnected), NEW e, e = Ended(l)
    PROVE  EndIs(e)'
<1>1. Disconnected \in Message /\ Disconnected.is = "disconnected"
      BY Made DEF Disconnected
<1>2. Hears(pending, l, Disconnected, e)
      BY <1>1 DEF Hears
<1>3. Leads(Append(s, Disconnected), Now, pending, "closed", e)
      BY <1>1, <1>2, LeadsAppend
<1>4. Now' = Now
      BY DEF Now, IsConnected, mirror
<1> QED BY <1>3, <1>4 DEF EndIs

\* The worker connects, or is told that there is no daemon.
LEMMA ConnectingMarks ==
    ASSUME Structure, EndIsOfCurrent, MarkedEnd, WorkerConnects(worker)
    PROVE  MarkedEnd'
<1>1. Types /\ Phases /\ inbox \in Seq(Message) /\ worker \in Worker
      BY DEF Structure, Types
<1>2. PICK l : EndIs(l) /\ Marked(l)
      BY DEF MarkedEnd
<1>3. /\ UNCHANGED <<status, mirror, pending, worker, alive, active, mem, saved, call>>
      /\ workers[worker].phase = "new" /\ ~CallOf(worker)
      BY <1>1 DEF WorkerConnects, WorkerStep, requests, link, Phases
<1>4. Leads(inbox, Now, pending, workers[worker].phase, l) /\ Now' = Now
      BY <1>2, <1>3 DEF EndIs, Now, IsConnected, mirror
<1>5. ~Void /\ Viewed(l) /\ Kept(l) /\ l.link # "up"
      BY <1>2, <1>3 DEF Void, Marked
<1>6. CASE workers'[worker].phase = "handshake" /\ UNCHANGED inbox
  <2>1. \A i \in 1..Len(inbox) : Same(pending, inbox[i], pending, inbox[i])
      BY DEF Same
  <2>2. Leads(inbox, Now, pending, "handshake", l)
      BY <1>1, <1>4, <2>1, LeadsStays
  <2>3. EndIs(l)'
      BY <1>3, <1>4, <1>6, <2>2 DEF EndIs
  <2>4. ~Tracking'
      BY <1>3, <1>6 DEF Tracking, Late, CallOf
  <2>5. Viewed(l)' /\ Kept(l)'
      BY <1>3, <1>5 DEF Viewed, Kept
  <2>6. Marked(l)'
      BY <1>3, <1>5, <1>6, <2>4, <2>5 DEF Marked
  <2> QED BY <2>3, <2>6 DEF MarkedEnd
<1>7. CASE workers'[worker].phase = "closed" /\ inbox' = Append(inbox, Disconnected)
  <2>1. PICK e : e = Ended(l)
      OBVIOUS
  <2>2. \A i \in DOMAIN inbox : inbox[i].is # "disconnected"
      BY <1>3 DEF EndIsOfCurrent
  <2>3. EndIs(e)'
      BY <1>1, <1>3, <1>4, <1>7, <2>1, <2>2, EndingLeads
  <2>4. Marked(e)'
      BY <1>3, <1>5, <1>7, <2>1, EndedMarks
  <2> QED BY <2>3, <2>4 DEF MarkedEnd
<1> QED BY <1>1, <1>6, <1>7, Connecting DEF Fields

\* The worker begins a round trip: its requests move up.
LEMMA AskingMarks ==
    ASSUME Structure, MarkedEnd, WorkerSends(worker)
    PROVE  MarkedEnd'
<1>1. Types /\ Phases /\ inbox \in Seq(Message) /\ worker \in Worker
      BY DEF Structure, Types
<1>2. PICK l : EndIs(l) /\ Marked(l)
      BY DEF MarkedEnd
<1>3. /\ UNCHANGED <<status, mirror, worker, pending, inbox, call, alive, active, mem, saved>>
      /\ workers[worker].phase = "idle" /\ workers'[worker].phase = "await" /\ ~CallOf(worker)
      /\ workers'[worker].linked = workers[worker].linked
      /\ ~Asks(worker) /\ Asks(worker)'
      BY <1>1, LineMoves
<1>4. /\ \A i \in Open' : i + 1 \in Open /\ At(i)' = At(i + 1)
      /\ \A i \in Open : i - 1 \in Open'
      /\ Open \subseteq Nat /\ Open' \subseteq Int
  <2>1. /\ \A i \in Open' : i + 1 \in Open /\ At(i)' = At(i + 1)
        /\ \A i \in Open : i - 1 \in Open'
      BY <1>1, LineMoves
  <2>2. workers'[worker].queue \in Seq(Entry)
      BY <1>1, Asking DEF Fields, WorkerState
  <2>3. Queue(worker)' \in Seq(Entry)
      BY <1>3, <2>2 DEF Queue
  <2>4. Open' \subseteq Int
      BY <2>3 DEF Open
  <2> QED BY <1>1, <2>1, <2>4, OpenIs
<1>5. EndIs(l)'
  <2>1. Leads(inbox, Now, pending, "idle", l) /\ Now' = Now
      BY <1>2, <1>3 DEF EndIs, Now, IsConnected, mirror
  <2>2. \A i \in 1..Len(inbox) : Same(pending, inbox[i], pending, inbox[i])
      BY DEF Same
  <2>3. Leads(inbox, Now, pending, "await", l)
      BY <1>1, <2>1, <2>2, LeadsStays
  <2> QED BY <1>3, <2>1, <2>3 DEF EndIs
<1>6. ~Late /\ ~Late' /\ Foremost = 1 /\ Foremost' = 0
      BY <1>3 DEF Late, CallOf, Foremost
<1>7. \A i \in Open' : (Resync(i)' <=> Resync(i + 1)) /\ (Risky(i)' <=> Risky(i + 1))
                       /\ At(i)'.cmd = At(i + 1).cmd
      BY <1>3, <1>4 DEF Resync, Risky, IsFor
<1>8. \A i \in Open : i - 1 \in Open' /\ (i - 1) + 1 = i
      BY <1>4
<1>9. Void => Void'
  <2> SUFFICES ASSUME Void PROVE Void'
      OBVIOUS
  <2>1. PICK i \in Open : Risky(i) /\ \A j \in Open : i <= j
      BY DEF Void
  <2>2. i - 1 \in Open' /\ Risky(i - 1)'
      BY <1>7, <1>8, <2>1
  <2>3. \A j \in Open' : i - 1 <= j
    <3> TAKE j \in Open'
    <3>1. i <= j + 1
        BY <1>4, <2>1
    <3> QED BY <1>4, <3>1
  <2> QED BY <1>3, <2>2, <2>3 DEF Void
<1>10. (NextResync' <=> NextResync) /\ (NextFetch => NextFetch')
  <2>1. (0 \in Open' <=> 1 \in Open) /\ (0 \in Open' => (Resync(0)' <=> Resync(1)) /\ At(0)'.cmd = At(1).cmd)
    <3>1. 0 \in Open' => 0 + 1 \in Open /\ (Resync(0)' <=> Resync(0 + 1)) /\ At(0)'.cmd = At(0 + 1).cmd
        BY <1>4, <1>7
    <3>2. 1 \in Open => 1 - 1 \in Open'
        BY <1>4
    <3> QED BY <3>1, <3>2
  <2>2. NextResync <=> 1 \in Open /\ Resync(1)
      BY <1>6 DEF NextResync
  <2>3. NextResync' <=> 0 \in Open' /\ Resync(0)'
      BY <1>6 DEF NextResync
  <2>4. NextFetch => 1 \in Open /\ At(1).cmd.op = "get_config"
      BY <1>6 DEF NextFetch
  <2>5. 0 \in Open' /\ At(0)'.cmd.op = "get_config" => NextFetch'
      BY <1>6 DEF NextFetch
  <2> QED BY <2>1, <2>2, <2>3, <2>4, <2>5
<1>11. Resyncing' <=> Resyncing
  <2>1. HasLeft' <=> HasLeft
      BY <1>3 DEF HasLeft, Left, Accepts, IsFor
  <2>2. ASSUME NEW i \in Open', i >= 0, Resync(i)' PROVE i + 1 \in Open /\ i + 1 >= 1 /\ Resync(i + 1)
      BY <1>4, <1>7, <2>2
  <2>3. ASSUME NEW i \in Open, i >= 1, Resync(i) PROVE i - 1 \in Open' /\ i - 1 >= 0 /\ Resync(i - 1)'
      BY <1>4, <1>7, <1>8, <2>3
  <2>4. Resyncing <=> HasLeft \/ \E i \in Open : i >= 1 /\ Resync(i)
      BY <1>6 DEF Resyncing
  <2>5. Resyncing' <=> HasLeft' \/ \E i \in Open' : i >= 0 /\ Resync(i)'
      BY <1>6 DEF Resyncing
  <2> QED BY <2>1, <2>2, <2>3, <2>4, <2>5
<1>12. Marked(l)'
  <2>1. Viewed(l)' /\ (l.link = "up" <=> workers'[worker'].phase \in {"idle", "await"})
      BY <1>2, <1>3 DEF Marked, Viewed
  <2>2. (Void \/ Kept(l))'
      BY <1>2, <1>3, <1>9 DEF Marked, Kept
  <2>3. ASSUME Tracking' PROVE \E u : Ahead(l, u)' /\ Sound(u)'
    <3>1. Tracking
        BY <1>3, <2>3 DEF Tracking
    <3>2. PICK u : Ahead(l, u) /\ Sound(u)
        BY <1>2, <3>1 DEF Marked
    <3>3. Ahead(l, u)'
        BY <1>6, <3>2 DEF Ahead
    <3>4. Sound(u)'
        BY <1>3, <1>10, <1>11, <3>2 DEF Sound
    <3> QED BY <3>3, <3>4
  <2> QED BY <2>1, <2>2, <2>3 DEF Marked
<1> QED BY <1>5, <1>12 DEF MarkedEnd

\* The worker gives up on a request that risks nothing.
LEMMA GivingUpMarks ==
    ASSUME Structure, EndIsOfCurrent, MarkedEnd, WorkerFails(worker) \/ WorkerTimesOut(worker), ~overtaken'
    PROVE  MarkedEnd'
<1>1. /\ Types /\ Phases /\ inbox \in Seq(Message) /\ worker \in Worker
      /\ GivesUp(worker) /\ InRoundTrip(worker)
      BY DEF Structure, Types, WorkerFails, WorkerTimesOut, GivesUp
<1>2. PICK l : EndIs(l) /\ Marked(l)
      BY DEF MarkedEnd
<1>3. UNCHANGED <<status, mirror, pending, worker, alive, active, mem, saved>>
      BY <1>1 DEF GivesUp, WorkerStep, requests, link
<1>4. /\ workers'[worker].phase = "closed" /\ workers[worker].phase # "closed"
      /\ Leads(inbox, Now, pending, workers[worker].phase, l)
      /\ \A i \in DOMAIN inbox : inbox[i].is # "disconnected"
  <2>1. workers'[worker].phase = "closed" /\ workers[worker].phase # "closed"
      BY <1>1, GivingUp DEF Fields, InRoundTrip
  <2> QED BY <1>2, <2>1 DEF EndIs, EndIsOfCurrent
<1>5. ~Void
  <2>1. CASE workers[worker].phase = "handshake"
      BY <2>1 DEF Void
  <2>2. CASE workers[worker].phase = "await"
    <3>1. 0 \in Open /\ At(0) = workers[worker].request /\ Open \subseteq Nat
        BY <1>1, <2>2, OpenIs DEF Phases
    <3>2. ~Risky(0)
        BY <1>1, <2>2, <3>1 DEF GivesUp, Risky
    <3>3. \A i \in Open : (\A j \in Open : i <= j) => i = 0
        BY <3>1
    <3> QED BY <3>2, <3>3 DEF Void
  <2> QED BY <1>1, <2>1, <2>2 DEF InRoundTrip
<1>6. Viewed(l) /\ Kept(l)
      BY <1>2, <1>5 DEF Marked
<1>7. PICK e : e = Ended(l)
      OBVIOUS
<1>8. Marked(e)'
      BY <1>3, <1>4, <1>6, <1>7, EndedMarks
<1>9. EndIs(e)'
  <2>1. CASE inbox' = Append(inbox, Disconnected)
      BY <1>1, <1>3, <1>4, <1>7, <2>1, EndingLeads
  <2>2. CASE /\ workers[worker].phase = "await" /\ workers[worker].request \in Entry
             /\ inbox' = inbox \o <<Reply(workers[worker].request.tag, Refused), Disconnected>>
    <3> DEFINE m == Reply(workers[worker].request.tag, Refused)
               s == Append(inbox, m)
    <3>1. m \in Message /\ Idle(m) /\ m.is # "disconnected"
        BY <2>2, Made DEF Entry, Idle, Reply, Refused
    <3> HIDE DEF m
    <3>2. s \in Seq(Message) /\ inbox' = Append(s, Disconnected) /\ \A i \in DOMAIN s : s[i].is # "disconnected"
      <4>1. inbox' = inbox \o <<m, Disconnected>>
          BY <2>2 DEF m
      <4>2. inbox \o <<m, Disconnected>> = Append(s, Disconnected)
          BY <1>1, <3>1, Made
      <4>3. /\ s \in Seq(Message) /\ s[Len(inbox) + 1] = m
            /\ \A i \in DOMAIN inbox : s[i] = inbox[i]
            /\ \A i \in DOMAIN s : i \in DOMAIN inbox \/ i = Len(inbox) + 1
          BY <1>1, <3>1, Appended
      <4> HIDE DEF s
      <4> QED BY <1>4, <3>1, <4>1, <4>2, <4>3
    <3>3. Leads(s, Now, pending, workers[worker].phase, l)
        BY <1>1, <1>4, <3>1, IdleHears, LeadsAppend
    <3> HIDE DEF s
    <3> QED BY <1>1, <1>3, <1>4, <1>7, <3>2, <3>3, EndingLeads
  <2> QED BY <1>1, <2>1, <2>2, GivingUp
<1> QED BY <1>8, <1>9 DEF MarkedEnd

\* A worker without a stream refuses.
LEMMA RefusingMarks ==
    ASSUME Structure, MarkedEnd, WorkerRefuses(worker)
    PROVE  MarkedEnd'
<1>1. /\ Types /\ inbox \in Seq(Message) /\ worker \in Worker
      BY DEF Structure, Types
<1>2. PICK l : EndIs(l) /\ Marked(l)
      BY DEF MarkedEnd
<1>3. /\ UNCHANGED <<status, mirror, pending, worker, alive, active, mem, saved>>
      /\ workers[worker].phase = "closed"
      BY DEF WorkerRefuses, WorkerStep, requests, link
<1>4. workers'[worker].phase = "closed"
      BY <1>1, Refusing DEF Fields
<1>5. PICK m \in Message : Idle(m) /\ inbox' = Append(inbox, m)
  <2>1. /\ Head(Queue(worker)).tag \in Nat
        /\ inbox' = Append(inbox, Reply(Head(Queue(worker)).tag, Refused))
      BY <1>1, Refusing DEF Entry
  <2>2. /\ Reply(Head(Queue(worker)).tag, Refused) \in Message
        /\ Idle(Reply(Head(Queue(worker)).tag, Refused))
      BY <2>1, Made DEF Idle, Reply, Refused
  <2> QED BY <2>1, <2>2
<1>6. EndIs(l)'
  <2>1. Leads(inbox, Now, pending, "closed", l) /\ Now' = Now
      BY <1>2, <1>3 DEF EndIs, Now, IsConnected, mirror
  <2>2. Leads(Append(inbox, m), Now, pending, "closed", l)
      BY <1>1, <1>5, <2>1, IdleHears, LeadsAppend
  <2> QED BY <1>3, <1>4, <1>5, <2>1, <2>2 DEF EndIs
<1>7. ~Void /\ ~Tracking'
      BY <1>3, <1>4 DEF Void, Tracking
<1>8. Marked(l)'
      BY <1>2, <1>3, <1>4, <1>7, MarkedStays
<1> QED BY <1>6, <1>8 DEF MarkedEnd

\* A request is for what the window wants with its answer.
LEMMA OpenFits ==
    ASSUME Structure
    PROVE  /\ \A i \in Open, p \in pending : p.tag = At(i).tag => Fits(p.kind, p.value, At(i).cmd)
           /\ \A i \in Open : Resync(i) => At(i).cmd = Plain("get_config")
<1>1. Types /\ QueuesFit /\ RequestsFit /\ worker \in Worker
      BY DEF Structure, Fitting, Types
<1>2. ASSUME NEW i \in Open, NEW p \in pending, p.tag = At(i).tag
      PROVE  Fits(p.kind, p.value, At(i).cmd)
  <2>1. CASE i = 0
    <3>1. Asks(worker) /\ At(i) = workers[worker].request
        BY <1>1, <2>1, OpenIs
    <3> QED BY <1>1, <1>2, <3>1 DEF RequestsFit
  <2>2. CASE i # 0
    <3>1. i \in DOMAIN Queue(worker) /\ At(i) = Queue(worker)[i]
        BY <1>1, <2>2, OpenIs
    <3> QED BY <1>1, <1>2, <3>1 DEF QueuesFit
  <2> QED BY <2>1, <2>2
<1>3. ASSUME NEW i \in Open, Resync(i) PROVE At(i).cmd = Plain("get_config")
      BY <1>2, <1>3 DEF Resync, IsFor, Fits, Fetching
<1> QED BY <1>2, <1>3

\* What an answer or a snapshot makes of the window is a window again.
LEMMA ToldViewed ==
    ASSUME NEW v, Viewed(v), v.link = "up", NEW p \in Request, NEW r,
           r.ok => /\ p.kind \in Fetching => r.data \in Config
                   /\ p.kind = "CurrentPreset" => r.data \in Name
    PROVE  Viewed(Told(v, p, r)) /\ Told(v, p, r).link = "up"
<1>1. v.name \in Name /\ v.config \in Config /\ v.baseline \in Config
      BY DEF Viewed
<1>2. CASE ~r.ok
      BY <1>2 DEF Told
<1>3. CASE r.ok
  <2> DEFINE u == Told(v, p, r)
  <2>1. /\ u.link = v.link /\ u.lost = v.lost
        /\ u.name = IF p.kind = "CurrentPreset" THEN r.data ELSE v.name
        /\ u.config = ToldConfig(v, p, r) /\ u.baseline = ToldBaseline(v, p, r)
      BY <1>3 DEF Told
  <2>2. ToldConfig(v, p, r) \in Config
    <3>1. p.kind \in {"SetParam", "SetEnabled"} => p.value \in Value
        BY DEF Request
    <3>2. \A c, x \in Value : [v.config EXCEPT !["param"] = x] \in Config /\ [v.config EXCEPT !["flag"] = x] \in Config
        BY <1>1 DEF Config
    <3> QED BY <1>1, <1>3, <3>1, <3>2 DEF ToldConfig
  <2>3. ToldBaseline(v, p, r) \in Config
      BY <1>1, <1>3 DEF ToldBaseline, Fetching
  <2> HIDE DEF u
  <2>4. Viewed(u)
      BY <1>1, <1>3, <2>1, <2>2, <2>3 DEF Viewed
  <2> QED BY <2>1, <2>4 DEF u
<1> QED BY <1>2, <1>3

\* So is what the snapshot makes of it.
LEMMA GreetedViewed ==
    ASSUME NEW v, Viewed(v), NEW data \in Snapshot
    PROVE  Viewed(Greeted(v, data)) /\ Greeted(v, data).link = "up"
<1> DEFINE u == Greeted(v, data)
<1>1. data.name \in Name /\ data.config \in Config /\ v.lost \in LostSession \cup {Absent}
      BY DEF Snapshot, Viewed
<1>2. /\ u.link = "up" /\ u.name = data.name /\ u.config = data.config /\ u.lost = Absent
      /\ u.baseline = IF Survives(v.lost, data) THEN v.lost.baseline ELSE data.config
      BY DEF Greeted
<1>3. u.baseline \in Config
      BY <1>1, <1>2 DEF Survives, LostSession
<1> HIDE DEF u
<1>4. Viewed(u)
      BY <1>1, <1>2, <1>3 DEF Viewed
<1> QED BY <1>2, <1>4 DEF u

\* What the window will show with the answer the listener has.
LEMMA AheadViewed ==
    ASSUME Structure, Tracking, Late, InRoundTrip(worker), NEW l, Viewed(l), NEW u, Ahead(l, u),
           l.link = "up" <=> workers[worker].phase \in {"idle", "await"}
    PROVE  Viewed(u) /\ u.link = "up"
<1>1. /\ Types /\ Listener /\ CallOf(worker) /\ call.answer # Absent /\ RequestsFit /\ worker \in Worker
      /\ Hears(pending, l, LateMessage, u)
      BY DEF Structure, Late, Fitting, Ahead, Types
<1>2. CASE workers[worker].phase = "handshake"
  <2>1. call.answer.ok /\ call.answer.data \in Snapshot
      BY <1>1, <1>2 DEF Tracking, Listener, CallOf, Sent, Plain
  <2>2. LateMessage = Connected(call.answer.data)
      BY <1>2 DEF LateMessage
  <2>3. u = Greeted(l, call.answer.data)
      BY <1>1, <2>2 DEF Hears, Connected
  <2> QED BY <2>1, <2>3, GreetedViewed
<1>3. CASE workers[worker].phase = "await"
  <2>1. LateMessage = Reply(workers[worker].request.tag, call.answer) /\ Asks(worker)
      BY <1>3, LateIs
  <2>2. \/ u = l
        \/ \E p \in pending : p.tag = workers[worker].request.tag /\ u = Told(l, p, call.answer)
      BY <1>1, <2>1 DEF Hears, Reply
  <2>3. ASSUME NEW p \in pending, p.tag = workers[worker].request.tag, u = Told(l, p, call.answer)
        PROVE  Viewed(u) /\ u.link = "up"
    <3>1. Fits(p.kind, p.value, workers[worker].request.cmd) /\ p \in Request
        BY <1>1, <2>1, <2>3 DEF RequestsFit, Types
    <3>2. call.answer.ok =>
             /\ p.kind \in Fetching => call.answer.data \in Config
             /\ p.kind = "CurrentPreset" => call.answer.data \in Name
        BY <1>1, <1>3, <3>1 DEF Listener, CallOf, Sent, Fits, Plain, InRoundTrip
    <3> QED BY <1>3, <2>3, <3>1, <3>2, ToldViewed
  <2> QED BY <1>3, <2>2, <2>3
<1> QED BY <1>2, <1>3 DEF InRoundTrip

\* The answer becomes a message.
LEMMA ArrivingMarks ==
    ASSUME Structure, MarkedEnd, Late, Tracking, InRoundTrip(worker),
           UNCHANGED <<status, mirror, pending, worker, alive, active, mem, saved>>, call' = Absent,
           workers'[worker].phase = "idle", workers'[worker].queue = Queue(worker),
           workers'[worker].request = Absent, workers'[worker].linked = workers[worker].linked,
           inbox' = Append(inbox, LateMessage)
    PROVE  MarkedEnd'
<1>1. Types /\ Phases /\ inbox \in Seq(Message) /\ worker \in Worker /\ LateMessage \in Message
      BY LateIs DEF Structure, Types
<1>2. PICK l : EndIs(l) /\ Marked(l)
      BY DEF MarkedEnd
<1>3. PICK u : Ahead(l, u) /\ Sound(u)
      BY <1>2 DEF Marked
<1>4. Hears(pending, l, LateMessage, u)
      BY <1>3 DEF Ahead
<1>5. Viewed(u) /\ u.link = "up"
      BY <1>2, <1>3, AheadViewed DEF Marked
<1>6. EndIs(u)'
  <2>1. Leads(inbox, Now, pending, workers[worker].phase, l) /\ Now' = Now
      BY <1>2 DEF EndIs, Now, IsConnected, mirror
  <2>2. Leads(Append(inbox, LateMessage), Now, pending, "idle", u)
      BY <1>1, <1>4, <2>1, LeadsAppend
  <2> QED BY <2>1, <2>2 DEF EndIs
\* The requests but the one that is answered are the same.
<1>7. /\ Foremost = 1 /\ Foremost' = 1 /\ ~Late'
      /\ Open \subseteq Nat /\ Open' = {i \in Open : i # 0}
      /\ \A i \in Open' : At(i)' = At(i) /\ (Resync(i)' <=> Resync(i)) /\ (Risky(i)' <=> Risky(i))
  <2>1. Queue(worker) \in Seq(Entry) /\ Queue(worker)' = Queue(worker) /\ ~Asks(worker)'
      BY <1>1, WorkerTyped DEF Queue, Asks
  <2>2. 0 \notin DOMAIN Queue(worker)
      BY <2>1
  <2>3. Open' = DOMAIN Queue(worker) /\ Open' = {i \in Open : i # 0}
      BY <2>1, <2>2 DEF Open
  <2>4. \A i \in Open' : At(i)' = At(i)
      BY <2>1, <2>2, <2>3 DEF At
  <2>5. \A i \in Open' : (Resync(i)' <=> Resync(i)) /\ (Risky(i)' <=> Risky(i))
      BY <2>4 DEF Resync, Risky, IsFor
  <2>6. Foremost = 1 /\ Foremost' = 1 /\ ~Late'
      BY <2>1 DEF Foremost, Late, CallOf
  <2> QED BY <1>1, <2>3, <2>4, <2>5, <2>6, OpenIs
<1>8. (NextResync' <=> NextResync) /\ (NextFetch' <=> NextFetch)
  <2>1. 1 \in Open' <=> 1 \in Open
      BY <1>7
  <2> QED BY <1>7, <2>1 DEF NextResync, NextFetch
<1>9. Resyncing' <=> Resyncing
  <2>1. /\ inbox'[Len(inbox) + 1] = LateMessage /\ Len(inbox) + 1 \in DOMAIN inbox'
        /\ \A i \in DOMAIN inbox : i \in DOMAIN inbox' /\ inbox'[i] = inbox[i]
        /\ \A i \in DOMAIN inbox' : i \in DOMAIN inbox \/ i = Len(inbox) + 1
    <3> PICK m \in Message : m = LateMessage
        BY <1>1
    <3> QED BY <1>1, Appended
  <2>2. HasLeft' <=> \E k \in DOMAIN inbox' : Left(inbox'[k])
      BY DEF HasLeft, Left, Accepts, IsFor
  <2>3. HasLeft' <=> HasLeft \/ Left(LateMessage)
      BY <2>1, <2>2 DEF HasLeft
  <2>4. \A i \in Open' : i >= 1 /\ Resync(i)' => i \in Open /\ i >= 1 /\ Resync(i)
      BY <1>7
  <2>5. \A i \in Open : i >= 1 /\ Resync(i) => i \in Open' /\ i >= 1 /\ Resync(i)'
      BY <1>7
  <2>6. Resyncing <=> HasLeft \/ Left(LateMessage) \/ \E i \in Open : i >= 1 /\ Resync(i)
      BY <1>7 DEF Resyncing
  <2>7. Resyncing' <=> HasLeft' \/ \E i \in Open' : i >= 1 /\ Resync(i)'
      BY <1>7 DEF Resyncing
  <2> QED BY <2>3, <2>4, <2>5, <2>6, <2>7
\* The next request is a fetch, or the window agrees with the daemon.
<1>10. NextResync => NextFetch
  <2>1. \A i \in Open : Resync(i) => At(i).cmd.op = "get_config"
      BY OpenFits DEF Plain
  <2> QED BY <2>1 DEF NextResync, NextFetch
<1>11. NextFetch => Void'
  <2> SUFFICES ASSUME NextFetch PROVE Void'
      OBVIOUS
  <2>1. 1 \in Open /\ Risky(1)
      BY <1>7 DEF NextFetch, Risky
  <2>2. 1 \in Open' /\ Risky(1)' /\ \A j \in Open' : 1 <= j
      BY <1>7, <2>1
  <2> QED BY <2>2 DEF Void
<1>12. ASSUME ~NextFetch PROVE Kept(u)
  <2>1. SessionOf(u).baseline = u.baseline /\ SessionOf(u).name = u.name /\ SessionOf(u).config = u.config
      BY <1>5 DEF SessionOf
  <2>2. SessionOf(u) # Absent
    <3>1. SessionOf(u) \in LostSession
        BY <1>5 DEF SessionOf, Viewed, LostSession
    <3> QED BY <3>1, AbsentAssumption
  <2>3. u.baseline = saved[u.name]
      BY <1>3, <1>10, <1>12 DEF Sound
  <2>4. mem = saved[active] \/ (u.name = active /\ u.config = mem)
      BY <1>3, <1>10, <1>12 DEF Sound
  <2> QED BY <2>1, <2>2, <2>3, <2>4 DEF Kept
<1>13. (Void \/ Kept(u))'
  <2>1. Kept(u) => Kept(u)'
      BY DEF Kept
  <2> QED BY <1>11, <1>12, <2>1
<1>14. Sound(u)'
      BY <1>3, <1>8, <1>9 DEF Sound
<1>15. Ahead(u, u)'
      BY <1>7 DEF Ahead
<1>16. Viewed(u)'
      BY <1>5 DEF Viewed
<1>17. Marked(u)'
      BY <1>5, <1>13, <1>14, <1>15, <1>16 DEF Marked
<1> QED BY <1>6, <1>17 DEF MarkedEnd

\* The listener answers the worker in use.
LEMMA ListenerMarks ==
    ASSUME Structure, EndIsOfCurrent, Harmless, MarkedEnd,
           ListenerReplies, CallOf(worker), InRoundTrip(worker)
    PROVE  MarkedEnd'
<1> DEFINE R == workers[worker]
<1>1. /\ Types /\ Phases /\ Listener /\ inbox \in Seq(Message) /\ worker \in Worker
      /\ Late /\ R.linked
      BY DEF Structure, Types, Harmless, Orphan, Late, ListenerReplies
<1>2. /\ UNCHANGED <<status, mirror, pending, worker, alive, active, mem, saved>> /\ call.worker = worker
      /\ call' = Absent
      BY DEF ListenerReplies, ListenerStep, requests, link, CallOf
<1>3. \/ /\ R.phase = "await"
         /\ Fields(worker, "idle", Queue(worker), Absent, R.wire, R.linked)
         /\ inbox' = Append(inbox, Reply(R.request.tag, call.answer))
      \/ /\ R.phase = "handshake" /\ call.answer.ok
         /\ Fields(worker, "idle", Queue(worker), R.request, R.wire, R.linked)
         /\ inbox' = Append(inbox, Connected(call.answer.data))
      \/ /\ R.phase = "handshake" /\ ~call.answer.ok
         /\ Fields(worker, "closed", Queue(worker), R.request, R.wire, R.linked)
         /\ inbox' = Append(inbox, Disconnected)
  <2> HIDE DEF R
  <2> QED BY <1>1, <1>2, Replying DEF R
<1>4. CASE R.phase = "await"
  <2>1. LateMessage = Reply(R.request.tag, call.answer) /\ Tracking
      BY <1>1, <1>4 DEF LateMessage, Tracking
  <2> QED BY <1>1, <1>2, <1>3, <1>4, <2>1, ArrivingMarks DEF Fields
<1>5. CASE R.phase = "handshake" /\ call.answer.ok
  <2>1. LateMessage = Connected(call.answer.data) /\ Tracking
      BY <1>1, <1>5 DEF LateMessage, Tracking
  <2>2. R.request = Absent
      BY <1>1, <1>5 DEF Phases, Asks
  <2> QED BY <1>1, <1>2, <1>3, <1>5, <2>1, <2>2, ArrivingMarks DEF Fields
<1>6. CASE R.phase = "handshake" /\ ~call.answer.ok
  <2>1. PICK l : EndIs(l) /\ Marked(l)
      BY DEF MarkedEnd
  <2>2. PICK e : e = Ended(l)
      OBVIOUS
  <2>3. /\ workers'[worker].phase = "closed" /\ inbox' = Append(inbox, Disconnected)
        /\ Leads(inbox, Now, pending, R.phase, l) /\ R.phase # "closed"
        /\ \A i \in DOMAIN inbox : inbox[i].is # "disconnected"
      BY <1>3, <1>6, <2>1 DEF Fields, EndIs, EndIsOfCurrent
  <2>4. Viewed(l) /\ Kept(l)
      BY <1>6, <2>1 DEF Marked, Void
  <2>5. Marked(e)'
      BY <1>2, <2>2, <2>3, <2>4, EndedMarks
  <2> HIDE DEF R
  <2>6. EndIs(e)'
      BY <1>1, <1>2, <2>2, <2>3, EndingLeads
  <2> QED BY <2>5, <2>6 DEF MarkedEnd
<1> QED BY <1>3, <1>4, <1>5, <1>6

\* The daemon serves the one command, the listener has the answer.
LEMMA ServingAnswers ==
    ASSUME Structure, ChannelSynchronous, DaemonServes
    PROVE  \E cmd \in Command, r \in Answer :
              /\ cmd = channel[1].cmd /\ channel # <<>>
              /\ Answering(cmd, r)
              /\ UNCHANGED <<status, mirror, pending, worker, inbox, alive, workers>> /\ alive
              /\ call # Absent /\ call.answer = Absent /\ ~Late
              /\ InRoundTrip(call.worker) => cmd = Sent(call.worker)
              /\ call' # Absent /\ call'.worker = call.worker /\ call'.answer = r /\ r # Absent
<1>1. Types /\ Listener
      BY DEF Structure
<1>2. PICK r \in Answer : /\ Answering(channel[1].cmd, r)
                          /\ call' = IF channel[1].waits THEN [call EXCEPT !.answer = r] ELSE call
      BY <1>1, Serving
<1>3. /\ channel # <<>> /\ channel[1].cmd \in Command
      /\ UNCHANGED <<status, mirror, pending, worker, inbox, alive, workers>> /\ alive
      BY <1>1, Serving DEF window, requests, link, DaemonServes
<1>4. channel[1].waits /\ 1 \in DOMAIN channel
      BY <1>1, <1>3 DEF ChannelSynchronous, Types
<1>5. /\ call # Absent /\ call.answer = Absent
      /\ InRoundTrip(call.worker) => channel[1].cmd = Sent(call.worker)
      BY <1>1, <1>4 DEF Listener
<1>6. call \in Call
      BY <1>1, <1>5 DEF Types
<1>7. call' \in Call
      BY <1>2, <1>4, <1>6 DEF Call
<1>8. call' # Absent /\ call'.worker = call.worker /\ call'.answer = r /\ r # Absent
      BY <1>2, <1>4, <1>6, <1>7, AbsentAssumption DEF Call
<1> QED BY <1>2, <1>3, <1>5, <1>8 DEF Late

\* A command that is not the worker's own changes nothing that is kept.
LEMMA ElsewhereMarks ==
    ASSUME Structure, OldWorkersDone, ChannelSynchronous, Mirrors, Harmless, MarkedEnd, DaemonServes,
           ~(call.worker = worker /\ InRoundTrip(worker))
    PROVE  MarkedEnd'
<1>1. /\ Types /\ Phases /\ Listener /\ worker \in Worker
      BY DEF Structure, Types
<1>2. PICK cmd \in Command, r \in Answer :
              /\ cmd = channel[1].cmd /\ channel # <<>>
              /\ Answering(cmd, r)
              /\ UNCHANGED <<status, mirror, pending, worker, inbox, alive, workers>> /\ alive
              /\ call # Absent /\ call.answer = Absent /\ ~Late
              /\ call' # Absent /\ call'.worker = call.worker
      BY ServingAnswers
<1>3. PICK l : EndIs(l) /\ Marked(l)
      BY DEF MarkedEnd
<1>4. call.worker \in Worker /\ ~InRoundTrip(call.worker)
  <2>1. call.worker \in Worker
      BY <1>1, <1>2 DEF Types, Call
  <2>2. call.worker # worker => workers[call.worker].phase \in {"closed", "gone"}
      BY <2>1 DEF OldWorkersDone
  <2> QED BY <2>1, <2>2 DEF InRoundTrip
<1>5. cmd.op \notin {"edit", "save_preset"}
      BY <1>2, <1>4 DEF Harmless, Orphan, CallOf, Changing
<1>6. UNCHANGED saved /\ (UNCHANGED <<active, mem>> \/ mem' = saved'[active'])
      BY <1>2, <1>5 DEF Answering
<1>7. ~Tracking /\ ~Tracking'
  <2>1. call.worker = Head(conns)
      BY <1>1, <1>2 DEF Listener
  <2>2. ~Tracking
    <3>1. SUFFICES ASSUME Tracking PROVE FALSE
        OBVIOUS
    <3>2. workers[worker].phase \in {"idle", "await"} /\ call.worker = worker
        BY <1>2, <2>1, <3>1 DEF Tracking, Mirrors
    <3>3. workers[worker].phase # "idle"
        BY <1>1, <1>2, <3>2 DEF Phases, CallOf
    <3> QED BY <1>4, <3>2, <3>3 DEF InRoundTrip
  <2>3. workers[worker].phase = "handshake" => ~Late'
      BY <1>2, <1>4 DEF Late, CallOf, InRoundTrip
  <2> QED BY <1>2, <2>2, <2>3 DEF Tracking
<1>8. EndIs(l)'
      BY <1>2, <1>3 DEF EndIs, Now, IsConnected, mirror
<1>9. Void' <=> Void
      BY <1>2, LineSame DEF Queue
<1>10. Kept(l) => Kept(l)'
      BY <1>2, <1>6 DEF Kept
<1>11. Marked(l)'
      BY <1>2, <1>3, <1>7, <1>9, <1>10 DEF Marked, Viewed
<1> QED BY <1>8, <1>11 DEF MarkedEnd

\* The snapshot: what was lost survives only if it is what the daemon has.
LEMMA SnapshotMarks ==
    ASSUME Structure, ChannelSynchronous, Harmless, Fresh, MarkedEnd, DaemonServes,
           call.worker = worker, workers[worker].phase = "handshake"
    PROVE  MarkedEnd'
<1>1. /\ Types /\ Phases /\ worker \in Worker /\ QueuedUnanswered
      BY DEF Structure, Types, Tags
<1>2. PICK cmd \in Command, r \in Answer :
              /\ Answering(cmd, r)
              /\ UNCHANGED <<status, mirror, pending, worker, inbox, alive, workers>> /\ alive
              /\ call # Absent /\ call.answer = Absent /\ ~Late
              /\ InRoundTrip(call.worker) => cmd = Sent(call.worker)
              /\ call' # Absent /\ call'.worker = call.worker /\ call'.answer = r /\ r # Absent
      BY ServingAnswers
<1>3. PICK l : EndIs(l) /\ Marked(l)
      BY DEF MarkedEnd
<1>4. PICK data : data = [name |-> active, config |-> mem]
      OBVIOUS
<1>5. r.ok /\ r.data = data /\ UNCHANGED <<active, mem, saved>>
  <2>1. cmd.op = "handshake"
      BY <1>2 DEF InRoundTrip, Sent, Plain
  <2> QED BY <1>2, <1>4, <2>1 DEF Answering, Reading
<1>6. PICK u : u = Greeted(l, data)
      OBVIOUS
<1>7. EndIs(l)'
      BY <1>2, <1>3 DEF EndIs, Now, IsConnected, mirror
<1>8. Late' /\ LateMessage' = Connected(data)
      BY <1>2, <1>5 DEF Late, CallOf, LateMessage
<1>9. Ahead(l, u)'
      BY <1>6, <1>8 DEF Ahead, Hears, Connected
\* Nothing of the old link is under way.
<1>10. ~Resyncing'
  <2>1. \A p \in pending : p.kind # "ResyncBaseline" /\ \E i \in DOMAIN Queue(worker) : Queue(worker)[i].tag = p.tag
      BY DEF Fresh
  <2>2. \A k \in DOMAIN inbox : inbox[k].is = "reply" => \A p \in pending : p.tag # inbox[k].tag
      BY <1>1, <2>1 DEF QueuedUnanswered, Answers
  <2>3. ~HasLeft'
      BY <1>2, <2>2 DEF HasLeft, Left, Accepts, IsFor
  <2>4. ~Left(LateMessage)'
      BY <1>8 DEF Left, Accepts, Connected
  <2>5. \A i \in Open' : ~Resync(i)'
      BY <1>2, <2>1 DEF Resync, IsFor
  <2> QED BY <2>3, <2>4, <2>5 DEF Resyncing
<1>11. l.link # "up" /\ Kept(l)
      BY <1>3 DEF Marked, Void
<1>12. u.name = active /\ u.config = mem /\ u.baseline = saved[active]
  <2>1. u.name = active /\ u.config = mem
      BY <1>4, <1>6 DEF Greeted
  <2>2. /\ l.lost # Absent => l.lost.baseline = saved[l.lost.name]
        /\ mem = saved[active] \/ (l.lost # Absent /\ l.lost.name = active /\ l.lost.config = mem)
      BY <1>2, <1>11 DEF Kept, SessionOf
  <2>3. CASE Survives(l.lost, data)
      BY <1>4, <1>6, <2>1, <2>2, <2>3 DEF Survives, Greeted
  <2>4. CASE ~Survives(l.lost, data)
    <3>1. u.baseline = mem
        BY <1>4, <1>6, <2>4 DEF Greeted
    <3>2. mem = saved[active] \/ (l.lost # Absent /\ l.lost.config = l.lost.baseline /\ l.lost.name = active /\ l.lost.config = mem)
        BY <1>4, <2>2, <2>4 DEF Survives
    <3> QED BY <2>1, <2>2, <3>1, <3>2
  <2> QED BY <2>1, <2>3, <2>4
<1>13. Sound(u)'
      BY <1>5, <1>10, <1>12 DEF Sound
<1>14. Kept(l)'
      BY <1>2, <1>5, <1>11 DEF Kept
<1>15. Marked(l)'
      BY <1>2, <1>3, <1>9, <1>13, <1>14 DEF Marked, Viewed
<1> QED BY <1>7, <1>15 DEF MarkedEnd

\* A daemon that dies has nothing the window could still compare with.
LEMMA CrashMarks ==
    ASSUME Structure, MarkedEnd, Crash
    PROVE  MarkedEnd'
<1>1. Types /\ worker \in Worker
      BY DEF Structure, Types
<1>2. PICK l : EndIs(l) /\ Marked(l)
      BY DEF MarkedEnd
<1>3. /\ UNCHANGED <<status, mirror, pending, worker, inbox, active, mem, saved>> /\ alive' = FALSE
      BY DEF Crash, DaemonStep, window, requests, link
<1>4. /\ workers'[worker].phase = workers[worker].phase /\ workers'[worker].queue = Queue(worker)
      /\ workers'[worker].request = workers[worker].request /\ ~workers'[worker].linked
      BY <1>1, Crashing
<1>5. EndIs(l)'
      BY <1>2, <1>3, <1>4 DEF EndIs, Now, IsConnected, mirror
<1>6. ~Tracking' /\ (Void => Void')
      BY <1>3, <1>4, LineSame DEF Tracking
<1>7. Marked(l)'
      BY <1>2, <1>3, <1>4, <1>6, MarkedStays
<1> QED BY <1>5, <1>7 DEF MarkedEnd

\* A daemon that starts again renders what is in the file.
LEMMA RestartMarks ==
    ASSUME Structure, MarkedEnd, Restart
    PROVE  MarkedEnd'
<1>1. Types /\ Phases /\ worker \in Worker
      BY DEF Structure, Types
<1>2. PICK l : EndIs(l) /\ Marked(l)
      BY DEF MarkedEnd
<1>3. /\ UNCHANGED <<status, mirror, pending, worker, inbox, workers, saved>> /\ ~alive
      /\ mem' = saved'[active']
      BY DEF Restart, DaemonStep, window, requests, link
<1>4. EndIs(l)'
      BY <1>2, <1>3 DEF EndIs, Now, IsConnected, mirror
<1>5. ~Tracking'
      BY <1>1, <1>3 DEF Tracking, Phases
<1>6. Void' <=> Void
      BY <1>3, LineSame DEF Queue
<1>7. Kept(l) => Kept(l)'
      BY <1>3 DEF Kept
<1>8. Marked(l)'
      BY <1>2, <1>3, <1>5, <1>6, <1>7 DEF Marked, Viewed
<1> QED BY <1>4, <1>8 DEF MarkedEnd

\* The daemon answers a request of the worker in use: what the window will show
\* with the answer agrees with the daemon as the answer leaves it.
LEMMA AnswerSounds ==
    ASSUME Structure, Order, AtWork, Asks(worker), 0 \in Open, ~Late, Foremost = 0, Foremost' = 1,
           UNCHANGED <<pending, inbox, worker, workers>>,
           NEW cmd \in Command, cmd = At(0).cmd, NEW r \in Answer, Answering(cmd, r),
           NEW p \in pending, p.tag = At(0).tag, Late', LateMessage' = Reply(At(0).tag, r),
           NEW l, Viewed(l), l.link = "up", Sound(l), NEW u, u = Told(l, p, r)
    PROVE  Sound(u)'
<1>1. /\ Types /\ PendingOnce /\ ChainsFetched /\ worker \in Worker /\ p \in Request
      /\ Fits(p.kind, p.value, cmd)
      BY OpenFits DEF Structure, Tags, Types
<1>2. /\ l.config \in Config /\ l.name \in Name
      BY DEF Viewed
<1>3. /\ Open' = Open /\ Open \subseteq Nat
      /\ \A i : At(i)' = At(i) /\ (Resync(i)' <=> Resync(i))
      BY <1>1, LineSame, OpenIs DEF Queue
<1>4. Resync(0) <=> p.kind = "ResyncBaseline"
      BY <1>1 DEF Resync, IsFor, PendingOnce
<1>5. (NextResync <=> Resync(0)) /\ (NextFetch <=> cmd.op = "get_config")
      BY DEF NextResync, NextFetch
<1>6. (NextResync' <=> cmd.op = "current_preset") /\ (NextResync' <=> (1 \in Open /\ Resync(1)))
  <2>1. NextResync' <=> 1 \in Open /\ Resync(1)
      BY <1>3 DEF NextResync
  <2>2. cmd.op = "current_preset" => 0 + 1 \in Open /\ Resync(0 + 1)
      BY DEF Order, Refetching
  <2>3. 1 \in Open /\ Resync(1) => At(1 - 1).cmd.op = "current_preset"
    <3>1. 1 - 1 = 0
        OBVIOUS
    <3> QED BY <3>1 DEF Order, Refetching
  <2> QED BY <2>1, <2>2, <2>3
<1>7. NextFetch' <=> 1 \in Open /\ At(1).cmd.op = "get_config"
      BY <1>3 DEF NextFetch
<1>8. /\ Resyncing <=> HasLeft \/ \E i \in Open : Resync(i)
      /\ Resyncing' <=> \/ HasLeft \/ (r.ok /\ p.kind \in Leaving)
                        \/ \E i \in Open : i >= 1 /\ Resync(i)
  <2>1. Resyncing <=> HasLeft \/ \E i \in Open : i >= 0 /\ Resync(i)
      BY DEF Resyncing
  <2>2. HasLeft' <=> HasLeft
      BY DEF HasLeft, Left, Accepts, IsFor
  <2>3. Left(LateMessage)' <=> r.ok /\ p.kind \in Leaving
      BY <1>1 DEF Left, Accepts, IsFor, PendingOnce, Reply
  <2>4. Resyncing' <=> HasLeft' \/ Left(LateMessage)' \/ \E i \in Open : i >= 1 /\ Resync(i)
      BY <1>3 DEF Resyncing
  <2> QED BY <1>3, <2>1, <2>2, <2>3, <2>4
<1>9. ~Resync(0) => (Resyncing <=> HasLeft \/ \E i \in Open : i >= 1 /\ Resync(i))
  <2>1. ASSUME NEW i \in Open, Resync(i), ~Resync(0) PROVE i >= 1
      BY <1>3, <2>1
  <2> QED BY <1>8, <2>1
<1>10. Change(0) => ~Resyncing
  <2> SUFFICES ASSUME Change(0), Resyncing PROVE FALSE
      OBVIOUS
  <2>1. CASE HasLeft
      BY <1>1, <2>1, NoChangeOpen DEF HasLeft, Left, IsFor
  <2>2. ASSUME NEW j \in Open, Resync(j) PROVE FALSE
    <3>1. j < 0
        BY <2>2 DEF Order, ChangesAreLater
    <3> QED BY <1>3, <3>1
  <2> QED BY <1>8, <2>1, <2>2
<1>11. /\ Resync(0) \/ l.baseline = saved[l.name]
       /\ Resync(0) \/ ~Resyncing => l.name = active
       /\ Resyncing => mem = saved[active]
       /\ Resyncing \/ cmd.op = "get_config" \/ l.config = mem
      BY <1>5 DEF Sound
<1>12. /\ ~r.ok => u = l
       /\ r.ok => /\ u.name = IF p.kind = "CurrentPreset" THEN r.data ELSE l.name
                  /\ u.config = ToldConfig(l, p, r) /\ u.baseline = ToldBaseline(l, p, r)
      BY DEF Told
<1>13. p.kind = "ResyncBaseline" => cmd.op = "get_config"
      BY <1>1 DEF Fits, Fetching, Plain
<1>14. /\ cmd.op = "edit" =>
            \/ cmd.cell = "param" /\ p.kind = "SetParam" /\ p.value = cmd.value
            \/ cmd.cell = "flag" /\ p.kind = "SetEnabled" /\ p.value = cmd.value
            \/ cmd.cell = "chain" /\ p.kind = "Other"
       /\ cmd.op = "get_config" => p.kind \in Fetching
       /\ cmd.op = "current_preset" => p.kind = "CurrentPreset"
       /\ cmd.op \in {"set_preset", "reload"} => p.kind \in Leaving
       /\ cmd.op = "save_preset" => p.kind = "Save"
       /\ cmd.op # "handshake"
      BY <1>1, KindOfCommand
\* What Sound(u) is after the step.
<1>15. SUFFICES /\ cmd.op # "current_preset" => u.baseline = saved'[u.name]
                /\ cmd.op = "current_preset" \/ ~Resyncing' => u.name = active'
                /\ Resyncing' => mem' = saved'[active']
                /\ Resyncing' \/ NextFetch' \/ u.config = mem'
      BY <1>6 DEF Sound
<1>16. CASE ~r.ok
  <2>1. cmd.op \notin Reading /\ UNCHANGED <<active, mem, saved>>
      BY <1>16 DEF Answering
  <2>2. cmd.op \notin {"get_config", "current_preset"}
      BY <2>1 DEF Reading
  <2>3. ~Resync(0)
      BY <1>4, <1>13, <2>2
  <2>4. Resyncing' <=> Resyncing
      BY <1>8, <1>9, <1>16, <2>3
  <2> QED BY <1>11, <1>12, <1>16, <2>1, <2>2, <2>3, <2>4
<1>17. CASE cmd.op = "get_config"
  <2>1. r.ok /\ r.data = mem /\ UNCHANGED <<active, mem, saved>>
      BY <1>17 DEF Answering, Reading
  <2>2. u.name = l.name /\ u.config = mem
      BY <1>12, <1>14, <1>17, <2>1 DEF ToldConfig, Fetching
  <2>3. u.baseline = IF Resync(0) THEN mem ELSE l.baseline
      BY <1>4, <1>12, <1>14, <1>17, <2>1 DEF ToldBaseline, Fetching
  <2>4. p.kind \notin Leaving
      BY <1>14, <1>17 DEF Leaving, Fetching
  <2>5. CASE Resync(0)
    <3>1. Resyncing
        BY <1>8, <2>5
    <3> QED BY <1>11, <1>17, <2>1, <2>2, <2>3, <2>5, <3>1
  <2>6. CASE ~Resync(0)
    <3>1. Resyncing' <=> Resyncing
        BY <1>8, <1>9, <2>4, <2>6
    <3> QED BY <1>11, <1>17, <2>1, <2>2, <2>3, <2>6, <3>1
  <2> QED BY <2>5, <2>6
<1>18. CASE cmd.op = "current_preset"
  <2>1. r.ok /\ r.data = active /\ UNCHANGED <<active, mem, saved>>
      BY <1>18 DEF Answering, Reading
  <2>2. 1 \in Open /\ Resync(1)
      BY <1>6, <1>18
  <2>3. Resyncing /\ Resyncing'
      BY <1>8, <2>2
  <2> QED BY <1>11, <1>12, <1>14, <1>18, <2>1, <2>3
<1>19. CASE cmd.op \in {"edit", "save_preset"} /\ r.ok
  <2>1. ~Resyncing /\ ~Resync(0)
      BY <1>8, <1>10, <1>19 DEF Change
  <2>2. l.name = active /\ l.baseline = saved[active] /\ l.config = mem
      BY <1>11, <1>19, <2>1
  <2>3. ~Resyncing'
    <3>1. p.kind \notin Leaving
        BY <1>14, <1>19 DEF Leaving
    <3> QED BY <1>8, <1>9, <2>1, <3>1
  <2>4. u.name = active
      BY <1>12, <1>14, <1>19, <2>2
  <2>5. CASE cmd.op = "edit"
    <3>1. mem' = [mem EXCEPT ![cmd.cell] = cmd.value] /\ UNCHANGED <<active, saved>>
        BY <1>19, <2>5 DEF Answering, Reading
    <3>2. u.baseline = l.baseline
        BY <1>12, <1>14, <1>19, <2>5 DEF ToldBaseline
    <3>3. NextFetch' \/ u.config = mem'
      <4>1. CASE cmd.cell = "chain"
        <5>1. 1 \in DOMAIN Queue(worker) /\ Queue(worker)[1].cmd = Plain("get_config")
          <6>1. workers[worker].request.cmd = cmd
              BY DEF At
          <6> QED BY <1>1, <2>5, <4>1, <6>1 DEF ChainsFetched
        <5>2. 1 \in Open /\ At(1) = Queue(worker)[1]
            BY <5>1 DEF Open, At
        <5> QED BY <1>7, <5>1, <5>2 DEF Plain
      <4>2. CASE cmd.cell = "param"
        <5>1. p.kind = "SetParam" /\ p.value = cmd.value
            BY <1>14, <2>5, <4>2
        <5>2. ToldConfig(l, p, r) = [l.config EXCEPT !["param"] = p.value]
            BY <5>1 DEF ToldConfig, Fetching
        <5>3. u.config = ToldConfig(l, p, r)
            BY <1>12, <1>19
        <5> QED BY <2>2, <3>1, <4>2, <5>1, <5>2, <5>3
      <4>3. CASE cmd.cell = "flag"
        <5>1. p.kind = "SetEnabled" /\ p.value = cmd.value
            BY <1>14, <2>5, <4>3
        <5>2. ToldConfig(l, p, r) = [l.config EXCEPT !["flag"] = p.value]
            BY <5>1 DEF ToldConfig, Fetching
        <5>3. u.config = ToldConfig(l, p, r)
            BY <1>12, <1>19
        <5> QED BY <2>2, <3>1, <4>3, <5>1, <5>2, <5>3
      <4> QED BY <1>14, <2>5, <4>1, <4>2, <4>3
    <3> QED BY <2>2, <2>3, <2>4, <2>5, <3>1, <3>2, <3>3
  <2>6. CASE cmd.op = "save_preset"
    <3>1. saved' = [saved EXCEPT ![active] = mem] /\ UNCHANGED <<active, mem>>
        BY <1>19, <2>6 DEF Answering, Reading
    <3>2. saved'[active] = mem
        BY <1>1, <3>1 DEF Types
    <3>3. u.baseline = l.config /\ u.config = l.config
        BY <1>12, <1>14, <1>19, <2>6 DEF ToldBaseline, ToldConfig, Fetching
    <3> QED BY <2>2, <2>3, <2>4, <2>6, <3>1, <3>2, <3>3
  <2> QED BY <1>19, <2>5, <2>6
<1>20. CASE cmd.op \in {"set_preset", "reload"} /\ r.ok
  <2>1. mem' = saved[active'] /\ UNCHANGED saved
      BY <1>20 DEF Answering, Reading
  <2>2. p.kind \in Leaving /\ Resyncing'
      BY <1>8, <1>14, <1>20
  <2>3. u.name = l.name /\ u.baseline = l.baseline
      BY <1>12, <1>20, <2>2 DEF ToldBaseline, Leaving
  <2>4. ~Resync(0)
      BY <1>4, <1>13, <1>20
  <2> QED BY <1>11, <1>20, <2>1, <2>2, <2>3, <2>4
<1>21. ~r.ok \/ cmd.op \in {"edit", "set_preset", "reload", "save_preset", "current_preset", "get_config"}
      BY <1>14 DEF Answering, Reading
<1> QED BY <1>16, <1>17, <1>18, <1>19, <1>20, <1>21

\* So what is marked is marked when the daemon has answered.
LEMMA AnswerMarks ==
    ASSUME Structure, ChannelSynchronous, InFlight, Order, Harmless, MarkedEnd, DaemonServes,
           call.worker = worker, workers[worker].phase = "await"
    PROVE  MarkedEnd'
<1>1. /\ Types /\ Phases /\ Listener /\ worker \in Worker
      BY DEF Structure, Types
<1>2. PICK cmd \in Command, r \in Answer :
              /\ Answering(cmd, r)
              /\ UNCHANGED <<status, mirror, pending, worker, inbox, alive, workers>> /\ alive
              /\ call # Absent /\ call.answer = Absent /\ ~Late
              /\ InRoundTrip(call.worker) => cmd = Sent(call.worker)
              /\ call' # Absent /\ call'.worker = call.worker /\ call'.answer = r /\ r # Absent
      BY ServingAnswers
<1>3. PICK l : EndIs(l) /\ Marked(l)
      BY DEF MarkedEnd
<1>4. /\ Asks(worker) /\ 0 \in Open /\ At(0) = workers[worker].request /\ cmd = At(0).cmd
      /\ workers[worker].linked /\ Tracking /\ AtWork
  <2>1. Asks(worker) /\ InRoundTrip(worker) /\ CallOf(worker)
      BY <1>1, <1>2 DEF Phases, InRoundTrip, CallOf
  <2>2. 0 \in Open /\ At(0) = workers[worker].request
      BY <1>1, <2>1, OpenIs
  <2>3. workers[worker].linked
      BY <1>1, <2>1 DEF Harmless, Orphan
  <2> QED BY <1>2, <2>1, <2>2, <2>3 DEF Sent, Tracking, AtWork, HasStream
<1>5. PICK p \in pending : p.tag = At(0).tag
      BY <1>4 DEF InFlight, HasStream
<1>6. p \in Request /\ Fits(p.kind, p.value, cmd)
      BY <1>1, <1>4, <1>5, OpenFits DEF Types
<1>7. Late' /\ LateMessage' = Reply(At(0).tag, r)
      BY <1>2, <1>4 DEF Late, CallOf, LateMessage
<1>8. Foremost = 0 /\ Foremost' = 1
      BY <1>2, <1>4, <1>7 DEF Foremost, Asks
<1>9. Viewed(l) /\ l.link = "up" /\ Sound(l)
      BY <1>2, <1>3, <1>4 DEF Marked, Ahead
<1>10. PICK u : u = Told(l, p, r)
      OBVIOUS
<1>11. Sound(u)'
      BY <1>2, <1>4, <1>5, <1>7, <1>8, <1>9, <1>10, AnswerSounds
<1>12. Ahead(l, u)'
      BY <1>2, <1>5, <1>7, <1>10 DEF Ahead, Hears, Reply
<1>13. EndIs(l)'
      BY <1>2, <1>3 DEF EndIs, Now, IsConnected, mirror
<1>14. Void' <=> Void
      BY <1>2, LineSame DEF Queue
<1>15. CASE Void
      BY <1>2, <1>3, <1>9, <1>11, <1>12, <1>13, <1>14, <1>15 DEF Marked, Viewed, MarkedEnd
<1>16. CASE ~Void
  <2>1. ~Risky(0)
      BY <1>1, <1>4, <1>16, OpenIs DEF Void
  <2>2. cmd.op \notin {"edit", "save_preset", "get_config"} /\ Kept(l)
      BY <1>3, <1>4, <1>16, <2>1 DEF Risky, Marked
  <2>3. UNCHANGED saved /\ (UNCHANGED <<active, mem>> \/ mem' = saved'[active'])
      BY <1>2, <2>2 DEF Answering
  <2>4. Kept(l)'
      BY <1>2, <2>2, <2>3 DEF Kept
  <2> QED BY <1>2, <1>3, <1>9, <1>11, <1>12, <1>13, <2>4 DEF Marked, Viewed, MarkedEnd
<1> QED BY <1>15, <1>16

\* Whatever happens, the end of the messages stays marked.
LEMMA MarksKept ==
    ASSUME Structure, Mirroring, Order, Fresh, Harmless, MarkedEnd, ~overtaken', ~abandoned',
           Aside \/ Apart
    PROVE  MarkedEnd'
<1>1. OldWorkersDone /\ EndIsOfCurrent /\ ChannelSynchronous /\ InFlight /\ Mirrors
      BY DEF Mirroring
<1>2. CASE Aside
      BY <1>2, AsideMarks
<1>3. CASE WindowActs \/ OnReply
      BY <1>3, ActingMarks, ReplyMarks
<1>4. CASE OnConnected \/ OnDisconnected \/ Discarding
      BY <1>1, <1>4, GreetingMarks, PartingMarks
<1>5. CASE inbox # <<>> /\ Reconnect /\ UNCHANGED server
      BY <1>5, ReconnectMarks
<1>6. CASE WorkerConnects(worker) \/ WorkerSends(worker) \/ WorkerRefuses(worker)
      BY <1>1, <1>6, ConnectingMarks, AskingMarks, RefusingMarks
<1>7. CASE WorkerFails(worker) \/ WorkerTimesOut(worker)
      BY <1>1, <1>7, GivingUpMarks
<1>8. CASE ListenerReplies /\ CallOf(worker) /\ InRoundTrip(worker)
      BY <1>1, <1>8, ListenerMarks
<1>9. CASE DaemonServes
  <2>1. CASE call.worker = worker /\ workers[worker].phase = "handshake"
      BY <1>1, <1>9, <2>1, SnapshotMarks
  <2>2. CASE call.worker = worker /\ workers[worker].phase = "await"
      BY <1>1, <1>9, <2>2, AnswerMarks
  <2>3. CASE ~(call.worker = worker /\ InRoundTrip(worker))
      BY <1>1, <1>9, <2>3, ElsewhereMarks
  <2> QED BY <2>1, <2>2, <2>3 DEF InRoundTrip
<1>10. CASE Crash \/ Restart
      BY <1>10, CrashMarks, RestartMarks
<1> QED BY <1>2, <1>3, <1>4, <1>5, <1>6, <1>7, <1>8, <1>9, <1>10 DEF Apart

-----------------------------------------------------------------------------
(* The marker. *)

Marking == Order /\ Fresh /\ Harmless /\ MarkedEnd
MarkInv == (overtaken \/ ~stalled) /\ (~overtaken /\ ~abandoned => Marking)

\* What blurs the baseline is not forgotten, and a command given up on blurs it.
LEMMA BlurredForGood ==
    ASSUME Structure, [Next]_vars
    PROVE  (overtaken => overtaken') /\ (stalled' => stalled \/ overtaken')
<1>1. Types /\ Known /\ AnswersFit /\ inbox \in Seq(Message)
      BY DEF Structure, Types, Fitting
<1>2. CASE WindowActs
  <2>1. UNCHANGED overtaken \/ overtaken' = (overtaken \/ Switching)
      BY <1>2 DEF WindowActs, DebounceFires, Drag, Toggle, EditChain, PickPreset, PressRevert,
                  PressReload, PressSave, Confirm, Dismiss
  <2>2. UNCHANGED stalled
      BY <1>1, <1>2, WindowActing
  <2>3. overtaken => overtaken'
    <3>1. UNCHANGED overtaken => (overtaken => overtaken')
        OBVIOUS
    <3>2. overtaken' = (overtaken \/ Switching) => (overtaken => overtaken')
        OBVIOUS
    <3> QED BY <2>1, <3>1, <3>2
  <2> QED BY <2>2, <2>3
<1>3. CASE TickFires \/ PressRetry
      BY <1>3 DEF TickFires, PressRetry, Event
<1>4. CASE OnConnected \/ OnDisconnected \/ OnReply
      BY <1>4 DEF OnConnected, OnDisconnected, OnReply, Receive
<1>5. CASE OnRetry \/ OnTick
      BY <1>5 DEF OnRetry, OnTick, Receive, Reconnect
<1>6. ASSUME NEW w \in Worker, WorkerRuns(w) \/ WorkerTimesOut(w)
      PROVE  UNCHANGED stalled /\ (overtaken => overtaken')
      BY <1>6 DEF WorkerRuns, WorkerTimesOut, WorkerConnects, WorkerSends, WorkerFails, GivesUp,
                  WorkerRefuses, WorkerEnds, WorkerStep
<1>7. CASE ListenerReads \/ ListenerTears \/ ListenerEnds \/ ListenerStalls \/ ListenerReplies
      BY <1>7 DEF ListenerReads, ListenerTears, ListenerEnds, ListenerStalls, ListenerReplies
<1>8. CASE DaemonServes \/ Crash \/ Restart \/ UNCHANGED vars
  <2>1. UNCHANGED <<overtaken, stalled>>
      BY <1>8 DEF DaemonServes, Crash, Restart, DaemonStep, vars
  <2> QED BY <2>1
<1> QED BY <1>2, <1>3, <1>4, <1>5, <1>6, <1>7, <1>8
        DEF Next, WindowStep, Operator, WindowActs, Server, WorkerRuns

\* At first the window shows nothing and the daemon renders what is in the file.
LEMMA MarkingInitially == Init => MarkInv
<1> SUFFICES ASSUME Init PROVE Marking /\ ~stalled
    BY DEF MarkInv
<1>1. worker \in Worker
      BY WorkerAssumption DEF Init
<1>2. /\ workers = [w \in Worker |-> IF w = worker THEN Spawned ELSE Gone]
      /\ status = "connecting" /\ lost = Absent /\ pending = {} /\ inbox = <<>> /\ call = Absent
      /\ channel = <<>> /\ active = Startup /\ mem = saved[Startup] /\ ~stalled
      BY DEF Init
<1>3. workers[worker] = Spawned /\ \A w \in Worker \ {worker} : workers[w] = Gone
      BY <1>1, <1>2
<1>4. workers[worker].phase = "new" /\ Queue(worker) = <<>> /\ ~Asks(worker)
      BY <1>3 DEF Spawned, Gone, Queue, Asks
<1>5. Open = {}
      BY <1>4 DEF Open
<1>6. Order
      BY <1>5 DEF Order, InTurn, ChangesAreEarlier, ChangesAreLater, Refetching, IsFor, Resync
<1>7. Fresh
      BY <1>2 DEF Fresh
<1>8. Harmless
  <2>1. \A w \in Worker : ~InRoundTrip(w) /\ workers[w].wire = Absent
      BY <1>3 DEF Spawned, Gone, InRoundTrip
  <2> QED BY <1>2, <2>1 DEF Harmless, Orphan, CallOf
<1>9. MarkedEnd
  <2>1. PICK l : l = Now
      OBVIOUS
  <2>2. l.link = "down" /\ l.lost = Absent /\ SessionOf(l) = Absent
      BY <1>2, <2>1 DEF Now, IsConnected, SessionOf
  <2>3. EndIs(l)
    <3>1. inbox \in Seq(Message) /\ \A i \in 1..Len(inbox) : Idle(inbox[i])
        BY <1>2
    <3> QED BY <1>4, <2>1, <3>1, LeadsNowhere DEF EndIs
  <2>4. Viewed(l) /\ Kept(l)
      BY <1>2, <2>2 DEF Viewed, Kept
  <2>5. ~Tracking
      BY <1>4 DEF Tracking
  <2>6. Marked(l)
      BY <1>4, <2>2, <2>4, <2>5 DEF Marked
  <2> QED BY <2>3, <2>6 DEF MarkedEnd
<1> QED BY <1>2, <1>6, <1>7, <1>8, <1>9 DEF Marking

\* Every step keeps it.
LEMMA MarkingKept ==
    ASSUME Inv, Inv', MarkInv, [Next]_vars
    PROVE  MarkInv'
<1>1. Structure /\ Structure' /\ (overtaken => overtaken') /\ (stalled' => stalled \/ overtaken')
      /\ (abandoned => abandoned')
      BY BlurredForGood, ForGood DEF Inv
<1>2. overtaken' \/ ~stalled'
      BY <1>1 DEF MarkInv
<1>3. ASSUME ~overtaken', ~abandoned' PROVE Marking'
  <2>1. ~overtaken /\ ~stalled /\ ~abandoned /\ ~stalled'
      BY <1>1, <1>2, <1>3 DEF MarkInv
  <2>2. Mirroring /\ Mirroring' /\ Order /\ Fresh /\ Harmless /\ MarkedEnd
      BY <1>3, <2>1 DEF Inv, MarkInv, Marking
  <2>3. OldWorkersDone /\ OldWorkersDone' /\ EndIsOfCurrent /\ ChannelSynchronous
      BY <2>2 DEF Mirroring
  <2>4. Aside \/ Apart
      BY <1>1, <2>1, <2>3, StepsAre
  <2>5. Order'
      BY <1>1, <1>3, <2>2, <2>3, <2>4, OrderKept
  <2>6. Fresh'
      BY <1>1, <1>3, <2>2, <2>3, <2>4, FreshKept
  <2>7. Harmless'
      BY <1>1, <1>3, <2>1, <2>2, <2>3, HarmlessKept
  <2>8. MarkedEnd'
      BY <1>1, <1>3, <2>2, <2>4, MarksKept
  <2> QED BY <2>5, <2>6, <2>7, <2>8 DEF Marking
<1> QED BY <1>2, <1>3 DEF MarkInv

\* With everything answered the window shows what it will show, and no fetch of
\* the baseline is under way.
LEMMA SettledMarker ==
    ASSUME Inv, MarkInv, Settled, ~overtaken, ~abandoned
    PROVE  baseline = saved[active]
<1>1. MarkedEnd
      BY DEF MarkInv, Marking
<1>2. /\ inbox = <<>> /\ call = Absent /\ IsConnected
      /\ workers[worker] = [Gone EXCEPT !.phase = "idle", !.linked = TRUE]
      BY DEF Settled, Quiet
<1>3. workers[worker].phase = "idle" /\ workers[worker].linked /\ Queue(worker) = <<>> /\ ~Asks(worker)
      BY <1>2 DEF Gone, Queue, Asks
<1>4. PICK l : EndIs(l) /\ Marked(l)
      BY <1>1 DEF MarkedEnd
<1>5. l = Now
  <2>1. PICK v : Reads(inbox, Now, pending, l, v)
      BY <1>4 DEF EndIs, Leads
  <2>2. Len(inbox) = 0
      BY <1>2
  <2> QED BY <2>1, <2>2 DEF Reads
<1>6. Tracking /\ ~Late /\ Open = {}
      BY <1>2, <1>3 DEF Tracking, Late, CallOf, Open
<1>7. ~NextResync /\ ~Resyncing
      BY <1>2, <1>6 DEF NextResync, Resyncing, HasLeft
<1>8. Sound(l)
      BY <1>4, <1>6 DEF Marked, Ahead
<1>9. l.baseline = saved[l.name] /\ l.name = active
      BY <1>7, <1>8 DEF Sound
<1> QED BY <1>5, <1>9 DEF Now

\* The unsaved-changes marker compares with what is in the file, whatever is
\* refused, lost, reconnected or restarted, unless a change was sent before the
\* answer to a switch, revert or reload, the link dropped with a change or a
\* fetch in flight, a worker was replaced early or a command took too long
\* (apply_reply, apply_handshake and the lost session of AppState).
THEOREM MarkersAreExact == Spec => []MarkerIsExact
<1>1. Init => MarkInv
      BY MarkingInitially
<1>2. Inv /\ Inv' /\ MarkInv /\ [Next]_vars => MarkInv'
      BY MarkingKept
<1>3. Inv /\ MarkInv => MarkerIsExact
      BY SettledMarker DEF MarkerIsExact
<1> QED BY <1>1, <1>2, <1>3, InvHolds, PTL DEF Spec
=============================================================================
