------------------------------- MODULE Editor -------------------------------
(***************************************************************************)
(* The window, its IPC worker, the daemon's control listener, the command  *)
(* channel and the daemon behind it.                                       *)
(*                                                                         *)
(* The window keeps a mirror of the active preset (config) and a baseline; *)
(* the unsaved-changes marker and the Save button follow from comparing    *)
(* the two.  Requests go to a worker thread, which makes one round trip at *)
(* a time; answers come back through the window's message queue (inbox).   *)
(* The listener serves one connection at a time, so the other clients of   *)
(* the socket wait while the window is connected.                          *)
(*                                                                         *)
(* A configuration has three cells, one for each way an edit travels: a    *)
(* parameter is debounced and mirrored when it is accepted, a flag is      *)
(* mirrored and then fetched again, a chain is only fetched again.  The    *)
(* daemon is the one of Session seen from the socket: it may refuse any    *)
(* command that changes something, and a refusal changes nothing.          *)
(*                                                                         *)
(* Left out: the widgets, the list of presets and "save as", the preview.  *)
(* The handshake's six requests are one: they follow each other on one     *)
(* connection and nothing else is served in between.                       *)
(***************************************************************************)
EXTENDS Naturals, Sequences, Functions

CONSTANTS
    Name,         \* names of presets
    Startup,      \* the one the daemon starts with
    Value,        \* values of a cell
    Files,        \* what the configuration file may hold
    Worker,       \* identities of IPC workers
    Absent,       \* nothing there
    ChannelDepth, \* CONTROL_CHANNEL_DEPTH
    MaxEvents,    \* what the operator does in the window
    MaxTroubles   \* crashes, torn lines and timeouts of either side

Cell == {"param", "flag", "chain"}
Config == [Cell -> Value]

ASSUME NameAssumption == Startup \in Name
ASSUME FilesAssumption == Files \subseteq [Name -> Config]
ASSUME WorkerAssumption == Worker # {}
ASSUME BoundAssumption ==
    /\ ChannelDepth \in Nat \ {0}
    /\ MaxEvents \in Nat /\ MaxTroubles \in Nat

VARIABLES
    \* The window (AppModel, AppState).
    status,    \* "connecting", "connected", "disconnected"
    name,      \* active_preset
    config,    \* active_config
    baseline,  \* baseline_config
    lost,      \* lost_session
    pending,   \* requests in flight, by tag
    nextTag,   \* tag of the next request
    worker,    \* the worker in use
    tick,      \* a reconnect of the current generation is scheduled
    debounced, \* a parameter value waiting for its timer
    dialog,    \* a confirmation on the screen
    inbox,     \* messages to the window
    \* Worker threads, one record each.
    workers,
    \* The listener and the daemon.
    conns,     \* connections in the order they are served
    call,      \* the request the listener waits for
    channel,   \* commands queued for the daemon
    alive,     \* the daemon runs
    active,    \* its active preset
    mem,       \* that preset with unsaved edits
    saved,     \* the file
    \* History and bounds.
    overtaken, \* something happened that may blur the baseline, see below
    stalled,   \* a command was given up on and carried out later
    abandoned, \* a worker was replaced before the window had its end reported
    events, troubles

mirror == <<name, config, baseline, lost>>
link == <<worker, abandoned>>
requests == <<pending, nextTag, link>>
window == <<status, mirror, requests, tick, debounced, dialog, inbox>>
server == <<conns, call, channel, alive, active, mem, saved>>
vars == <<window, workers, server, overtaken, stalled, events, troubles>>

-----------------------------------------------------------------------------
(* Commands, answers and messages. *)

Edit(c, v) == [op |-> "edit", cell |-> c, value |-> v]
Switch(n) == [op |-> "set_preset", name |-> n]
Plain(op) == [op |-> op]
Reading == {"handshake", "current_preset", "get_config"}
Command ==
    [op : {"edit"}, cell : Cell, value : Value] \cup [op : {"set_preset"}, name : Name]
        \cup [op : Reading \cup {"save_preset", "reload"}]

Accepted(data) == [ok |-> TRUE, data |-> data]
Refused == [ok |-> FALSE, data |-> Absent]
Snapshot == [name : Name, config : Config]
Answer == [ok : BOOLEAN, data : Snapshot \cup Name \cup Config \cup {Absent}]
LostSession == [name : Name, config : Config, baseline : Config]

\* What a worker has to do, and what the listener waits for.
Entry == [tag : Nat, cmd : Command]
Call == [worker : Worker, answer : Answer \cup {Absent}]
ASSUME AbsentAssumption == Absent \notin Entry \cup Answer \cup Call \cup LostSession

Connected(data) == [is |-> "connected", data |-> data]
Reply(tag, r) == [is |-> "reply", tag |-> tag, r |-> r]
Disconnected == [is |-> "disconnected"]
Retry == [is |-> "retry"]
Tick == [is |-> "tick", stale |-> FALSE]

Gone == [phase |-> "gone", queue |-> <<>>, request |-> Absent, wire |-> Absent,
         linked |-> FALSE]
Spawned == [Gone EXCEPT !.phase = "new"]
HasStream(w) == workers[w].phase \in {"handshake", "idle", "await"}
InRoundTrip(w) == workers[w].phase \in {"handshake", "await"}

Trouble ==
    /\ troubles < MaxTroubles
    /\ troubles' = troubles + 1

Init ==
    /\ status = "connecting"
    /\ name = Absent /\ config = Absent /\ baseline = Absent /\ lost = Absent
    /\ pending = {} /\ nextTag = 0
    /\ worker = CHOOSE w \in Worker : TRUE
    /\ tick = FALSE
    /\ debounced = Absent
    /\ dialog = Absent
    /\ inbox = <<>>
    /\ workers = [w \in Worker |-> IF w = worker THEN Spawned ELSE Gone]
    /\ conns = <<>>
    /\ call = Absent
    /\ channel = <<>>
    /\ alive = TRUE
    /\ saved \in Files
    /\ active = Startup
    /\ mem = saved[Startup]
    /\ overtaken = FALSE
    /\ stalled = FALSE
    /\ abandoned = FALSE
    /\ events = 0 /\ troubles = 0

-----------------------------------------------------------------------------
(* The window: sending. *)

\* send_kind for each of msgs, with the requests in `left` still in flight.
SendAll(left, msgs) ==
    /\ nextTag' = nextTag + Len(msgs)
    /\ pending' = left \union
         {[tag |-> nextTag + i - 1, kind |-> msgs[i].kind, value |-> msgs[i].value] :
            i \in DOMAIN msgs}
    /\ workers' = [workers EXCEPT ![worker].queue = @ \o
         [i \in DOMAIN msgs |-> [tag |-> nextTag + i - 1, cmd |-> msgs[i].cmd]]]
    /\ UNCHANGED link
Send(msgs) == SendAll(pending, msgs)

Msg(kind, value, cmd) == [kind |-> kind, value |-> value, cmd |-> cmd]
SetParam(v) == Msg("SetParam", v, Edit("param", v))
SetEnabled(v) == Msg("SetEnabled", v, Edit("flag", v))
SetChain(v) == Msg("Other", Absent, Edit("chain", v))
KeepBaseline == Msg("KeepBaseline", Absent, Plain("get_config"))
ResyncBaseline == Msg("ResyncBaseline", Absent, Plain("get_config"))
GetConfigQuiet == Msg("GetConfigQuiet", Absent, Plain("get_config"))
CurrentPreset == Msg("CurrentPreset", Absent, Plain("current_preset"))
Save == Msg("Save", Absent, Plain("save_preset"))
\* switch_preset, revert and reload
SwitchTo(n) == Msg("SetPreset", Absent, Switch(n))
Revert == Msg("Revert", Absent, Switch(name))
Reload == Msg("Reload", Absent, Plain("reload"))
\* refetch_active
RefetchActive == <<CurrentPreset, ResyncBaseline>>

Dirty == config # baseline
IsConnected == status = "connected"

\* A switch, revert or reload whose answer is not in yet.
Switching == \E p \in pending : p.kind \in {"SetPreset", "Revert", "Reload"}

-----------------------------------------------------------------------------
(* The window: the operator. *)

Event ==
    /\ events < MaxEvents
    /\ dialog = Absent
    /\ events' = events + 1
    /\ UNCHANGED <<status, mirror, tick, server, stalled, troubles>>
EditorEvent == IsConnected /\ Event

\* A drag; a change committed at once is a drag whose timer is up at once.
Drag(v) ==
    /\ EditorEvent
    /\ debounced' = v
    /\ UNCHANGED <<requests, workers, dialog, inbox, overtaken>>

\* send_set_param
DebounceFires ==
    /\ debounced # Absent
    /\ debounced' = Absent
    /\ Send(<<SetParam(debounced)>>)
    /\ overtaken' = (overtaken \/ Switching)
    /\ UNCHANGED <<status, mirror, tick, dialog, inbox, server, stalled, events, troubles>>

Toggle(v) ==
    /\ EditorEvent
    /\ Send(<<SetEnabled(v)>>)
    /\ overtaken' = (overtaken \/ Switching)
    /\ UNCHANGED <<debounced, dialog, inbox>>

\* Fault: what the daemon answers, unsaved edits included, becomes the baseline.
EditChainResyncs(v) ==
    /\ EditorEvent
    /\ v # config["chain"]
    /\ debounced' = Absent
    /\ Send(<<SetChain(v), ResyncBaseline>>)
    /\ overtaken' = (overtaken \/ Switching)
    /\ UNCHANGED <<dialog, inbox>>

\* edit_chain
EditChain(v) ==
    /\ EditorEvent
    /\ v # config["chain"]
    /\ debounced' = Absent
    /\ Send(<<SetChain(v), KeepBaseline>>)
    /\ overtaken' = (overtaken \/ Switching)
    /\ UNCHANGED <<dialog, inbox>>

\* switch_preset, revert, reload
Leave(msg) ==
    /\ debounced' = Absent
    /\ Send(<<msg>>)
Ask(msg) ==
    /\ dialog' = msg
    /\ UNCHANGED <<debounced, requests, workers>>
AskIfDirty(msg) ==
    \/ Dirty /\ Ask(msg)
    \/ ~Dirty /\ Leave(msg) /\ UNCHANGED dialog

\* on_preset_picked
PickPreset(n) ==
    /\ EditorEvent
    /\ n # name
    /\ AskIfDirty(SwitchTo(n))
    /\ UNCHANGED <<inbox, overtaken>>

\* on_action: the actions Enablement leaves usable
PressRevert ==
    /\ EditorEvent
    /\ Dirty
    /\ Ask(Revert)
    /\ UNCHANGED <<inbox, overtaken>>
PressReload ==
    /\ EditorEvent
    /\ AskIfDirty(Reload)
    /\ UNCHANGED <<inbox, overtaken>>
PressSave ==
    /\ EditorEvent
    /\ Dirty
    /\ Send(<<Save>>)
    /\ overtaken' = (overtaken \/ Switching)
    /\ UNCHANGED <<debounced, dialog, inbox>>

\* A dialog stays up whatever becomes of the connection; a revert goes to the
\* preset that is active when it is confirmed.
Confirm ==
    /\ dialog # Absent
    /\ dialog' = Absent
    /\ Leave(IF dialog.kind = "Revert" THEN Revert ELSE dialog)
    /\ UNCHANGED <<status, mirror, tick, inbox, server, overtaken, stalled, events, troubles>>
Dismiss ==
    /\ dialog # Absent
    /\ dialog' = Absent
    /\ UNCHANGED <<status, mirror, requests, tick, debounced, inbox, workers, server,
                   overtaken, stalled, events, troubles>>

PressRetry ==
    /\ status = "disconnected"
    /\ Event
    /\ inbox' = Append(inbox, Retry)
    /\ UNCHANGED <<requests, workers, debounced, dialog, overtaken>>

TickFires ==
    /\ tick
    /\ tick' = FALSE
    /\ inbox' = Append(inbox, Tick)
    /\ UNCHANGED <<status, mirror, requests, debounced, dialog, workers, server,
                   overtaken, stalled, events, troubles>>

-----------------------------------------------------------------------------
(* The window: messages. *)

Receive(is) ==
    /\ inbox # <<>>
    /\ Head(inbox).is = is
    /\ UNCHANGED <<dialog, server, stalled, events, troubles>>

\* A new generation: the ticks that are queued are of an old one.
NewGeneration ==
    inbox' = [i \in DOMAIN Tail(inbox) |->
        IF Tail(inbox)[i] = Tick THEN [Tick EXCEPT !.stale = TRUE] ELSE Tail(inbox)[i]]

\* on_ipc, Connected: apply_handshake against the session that was lost.
OnConnected ==
    /\ Receive("connected")
    /\ LET data == Head(inbox).data
           survived == /\ lost # Absent
                       /\ lost.config # lost.baseline
                       /\ lost.name = data.name
                       /\ lost.config = data.config
       IN  /\ baseline' = IF survived THEN lost.baseline ELSE data.config
           /\ config' = data.config
           /\ name' = data.name
    /\ lost' = Absent
    /\ status' = "connected"
    /\ NewGeneration /\ tick' = FALSE
    /\ debounced' = Absent
    /\ UNCHANGED <<requests, workers, overtaken>>

\* Fault: the generation is taken after the timer is set up, so it is void.
DisconnectedForGood ==
    /\ Receive("disconnected")
    /\ lost' = IF IsConnected
               THEN [name |-> name, config |-> config, baseline |-> baseline] ELSE lost
    /\ status' = "disconnected"
    /\ pending' = {}
    /\ debounced' = Absent
    /\ NewGeneration /\ tick' = FALSE
    /\ UNCHANGED <<name, config, baseline, nextTag, link, workers, overtaken>>

\* on_ipc, Disconnected
OnDisconnected ==
    /\ Receive("disconnected")
    /\ lost' = IF IsConnected
               THEN [name |-> name, config |-> config, baseline |-> baseline] ELSE lost
    /\ status' = "disconnected"
    /\ pending' = {}
    /\ debounced' = Absent
    /\ NewGeneration /\ tick' = TRUE
    /\ UNCHANGED <<name, config, baseline, nextTag, link, workers, overtaken>>

\* The worker in use is done, and the window knows.
Reported == workers[worker].phase = "closed" /\ Disconnected \notin Range(inbox)
Unused == {w \in Worker \ Range(conns) : workers[w] = Gone}
\* Fault: clear() begins to count from the start, so a late answer of the old
\* worker takes the place of the answer to a new request.
ReconnectReusesTags ==
    /\ Unused # {}
    /\ worker' = CHOOSE w \in Unused : TRUE
    /\ workers' = [workers EXCEPT ![worker'] = Spawned]
    /\ pending' = {}
    /\ nextTag' = 0
    /\ status' = "connecting"
    /\ NewGeneration /\ tick' = FALSE
    /\ abandoned' = (abandoned \/ ~Reported)
    /\ UNCHANGED <<mirror, debounced, overtaken>>

\* reconnect
Reconnect ==
    /\ Unused # {}
    /\ worker' = CHOOSE w \in Unused : TRUE
    /\ workers' = [workers EXCEPT ![worker'] = Spawned]
    /\ pending' = {}
    /\ status' = "connecting"
    /\ NewGeneration /\ tick' = FALSE
    /\ abandoned' = (abandoned \/ ~Reported)
    /\ UNCHANGED <<mirror, nextTag, debounced, overtaken>>

OnRetry ==
    /\ Receive("retry")
    /\ Reconnect

OnTick ==
    /\ Receive("tick")
    /\ \/ ~Head(inbox).stale /\ status = "disconnected" /\ Reconnect
       \/ /\ Head(inbox).stale \/ status # "disconnected"
          /\ inbox' = Tail(inbox)
          /\ UNCHANGED <<status, mirror, requests, tick, debounced, workers, overtaken>>

Fetching == {"KeepBaseline", "ResyncBaseline", "GetConfigQuiet"}

\* apply_reply.  A refused write leaves the mirror alone.
Mirrored(p, r) ==
    CASE ~r.ok -> config
      [] r.ok /\ p.kind = "SetParam" -> [config EXCEPT !["param"] = p.value]
      [] r.ok /\ p.kind = "SetEnabled" -> [config EXCEPT !["flag"] = p.value]
      [] r.ok /\ p.kind \in Fetching -> r.data
      [] OTHER -> config
Baselined(p, r) ==
    CASE r.ok /\ p.kind = "ResyncBaseline" -> r.data
      [] r.ok /\ p.kind = "Save" -> config
      [] OTHER -> baseline
\* Rebuilding the page cancels the timers of the old one.
Rebuilds(p, r) ==
    /\ r.ok
    /\ \/ p.kind \in {"KeepBaseline", "ResyncBaseline"}
       \/ p.kind = "GetConfigQuiet" /\ r.data["chain"] # config["chain"]
FollowUp(p, r) ==
    CASE r.ok /\ p.kind \in {"SetPreset", "Revert", "Reload"} -> RefetchActive
      [] r.ok /\ p.kind = "SetEnabled" -> <<GetConfigQuiet>>
      [] OTHER -> <<>>

OnReply ==
    /\ Receive("reply")
    /\ inbox' = Tail(inbox)
    /\ UNCHANGED <<status, lost, tick, overtaken>>
    /\ LET r == Head(inbox).r
           mine == {p \in pending : p.tag = Head(inbox).tag}
       IN  \/ /\ mine = {}
              /\ UNCHANGED <<name, config, baseline, requests, debounced, workers>>
           \/ \E p \in mine :
                /\ config' = Mirrored(p, r)
                /\ baseline' = Baselined(p, r)
                /\ name' = IF r.ok /\ p.kind = "CurrentPreset" THEN r.data ELSE name
                /\ debounced' = IF Rebuilds(p, r) THEN Absent ELSE debounced
                /\ SendAll(pending \ mine, FollowUp(p, r))

-----------------------------------------------------------------------------
(* The IPC workers. *)

WorkerStep == UNCHANGED <<status, mirror, requests, tick, debounced, dialog,
                          alive, active, mem, saved, events, stalled>>

\* connect
WorkerConnects(w) ==
    /\ workers[w].phase = "new"
    /\ WorkerStep
    /\ \/ /\ alive
          /\ workers' = [workers EXCEPT ![w] =
               [@ EXCEPT !.phase = "handshake", !.linked = TRUE, !.wire = Plain("handshake")]]
          /\ conns' = Append(conns, w)
          /\ UNCHANGED inbox
       \/ /\ ~alive
          /\ workers' = [workers EXCEPT ![w].phase = "closed"]
          /\ inbox' = Append(inbox, Disconnected)
          /\ UNCHANGED conns
    /\ UNCHANGED <<call, channel, overtaken, troubles>>

\* update: begin a round trip
WorkerSends(w) ==
    /\ workers[w].phase = "idle"
    /\ workers[w].queue # <<>>
    /\ WorkerStep
    /\ workers' = [workers EXCEPT ![w] =
         [@ EXCEPT !.phase = "await", !.queue = Tail(workers[w].queue),
                   !.request = Head(workers[w].queue),
                   !.wire = IF workers[w].linked THEN Head(workers[w].queue).cmd ELSE Absent]]
    /\ UNCHANGED <<conns, call, channel, inbox, overtaken, troubles>>

\* No answer, or the end of the connection: the stream is dropped.
GivesUp(w) ==
    /\ InRoundTrip(w)
    /\ WorkerStep
    /\ workers' = [workers EXCEPT ![w] =
         [@ EXCEPT !.phase = "closed", !.request = Absent]]
    /\ IF workers[w].phase = "await"
       THEN /\ inbox' = inbox \o <<Reply(workers[w].request.tag, Refused), Disconnected>>
            /\ overtaken' = (overtaken \/
                 workers[w].request.cmd.op \in {"edit", "save_preset", "get_config"})
       ELSE /\ inbox' = Append(inbox, Disconnected)
            /\ UNCHANGED overtaken
    /\ UNCHANGED <<conns, call, channel>>

\* The request is on its way or being answered.
UnderWay(w) ==
    /\ workers[w].linked
    /\ workers[w].wire = Absent => call # Absent /\ call.worker = w
WorkerFails(w) == GivesUp(w) /\ ~UnderWay(w) /\ UNCHANGED troubles
\* 5 s pass, the daemon still works on it or the listener on somebody else.
WorkerTimesOut(w) ==
    /\ Trouble
    /\ GivesUp(w)
    /\ UnderWay(w)

\* update without a stream: "not connected"
WorkerRefuses(w) ==
    /\ workers[w].phase = "closed"
    /\ workers[w].queue # <<>>
    /\ WorkerStep
    /\ workers' = [workers EXCEPT ![w].queue = Tail(@)]
    /\ inbox' = Append(inbox, Reply(Head(workers[w].queue).tag, Refused))
    /\ UNCHANGED <<conns, call, channel, overtaken, troubles>>

\* The window holds another worker: this one ends when it is not in a round
\* trip, with or without serving what is left of its queue.
WorkerEnds(w) ==
    /\ w # worker
    /\ workers[w].phase \in {"new", "idle", "closed"}
    /\ WorkerStep
    /\ workers' = [workers EXCEPT ![w] = [Gone EXCEPT !.wire = workers[w].wire]]
    /\ UNCHANGED <<inbox, conns, call, channel, overtaken, troubles>>

-----------------------------------------------------------------------------
(* The control listener: accept_loop, handle_connection, ChannelHandler. *)

ListenerStep == UNCHANGED <<status, mirror, requests, tick, debounced, dialog,
                            alive, active, mem, saved, events>>
Listening == alive /\ conns # <<>> /\ call = Absent
Served == Head(conns)

\* A command line is read and handed to the daemon; the reader does not care
\* whether the client is still there.
ListenerReads ==
    /\ Listening
    /\ workers[Served].wire # Absent
    /\ Len(channel) < ChannelDepth
    /\ ListenerStep
    /\ channel' = Append(channel, [cmd |-> workers[Served].wire, waits |-> TRUE])
    /\ call' = [worker |-> Served, answer |-> Absent]
    /\ workers' = [workers EXCEPT ![Served].wire = Absent]
    /\ UNCHANGED <<conns, inbox, overtaken, stalled, troubles>>

\* A line whose end comes more than 500 ms after its beginning is dropped: the
\* read buffer is cleared on every pass of the loop.
ListenerTears ==
    /\ Listening
    /\ workers[Served].wire # Absent
    /\ Trouble
    /\ ListenerStep
    /\ workers' = [workers EXCEPT ![Served].wire = Absent]
    /\ UNCHANGED <<conns, call, channel, inbox, overtaken, stalled>>

\* End of file: the next connection is accepted.
ListenerEnds ==
    /\ Listening
    /\ ~HasStream(Served) /\ workers[Served].wire = Absent
    /\ ListenerStep
    /\ conns' = Tail(conns)
    /\ UNCHANGED <<call, channel, workers, inbox, overtaken, stalled, troubles>>

\* The daemon did not answer within WORKER_RESPONSE_TIMEOUT.  The command stays
\* in the channel.
ListenerStalls ==
    /\ call # Absent /\ call.answer = Absent
    /\ Trouble
    /\ stalled' = TRUE
    /\ ListenerStep
    /\ call' = [call EXCEPT !.answer = Refused]
    /\ channel' = [i \in DOMAIN channel |-> [channel[i] EXCEPT !.waits = FALSE]]
    /\ overtaken' = TRUE
    /\ UNCHANGED <<conns, workers, inbox>>

\* The answer reaches the worker waiting for it; a client that is gone makes
\* the write fail and the connection end.
ListenerReplies ==
    /\ call # Absent /\ call.answer # Absent
    /\ ListenerStep
    /\ call' = Absent
    /\ LET w == call.worker
           r == call.answer
       IN  \/ /\ workers[w].phase = "await"
              /\ workers' = [workers EXCEPT ![w] =
                   [@ EXCEPT !.phase = "idle", !.request = Absent]]
              /\ inbox' = Append(inbox, Reply(workers[w].request.tag, r))
              /\ UNCHANGED conns
           \/ /\ workers[w].phase = "handshake"
              /\ workers' = [workers EXCEPT ![w].phase = IF r.ok THEN "idle" ELSE "closed"]
              /\ inbox' = Append(inbox, IF r.ok THEN Connected(r.data) ELSE Disconnected)
              /\ UNCHANGED conns
           \/ /\ ~InRoundTrip(w)
              /\ conns' = Tail(conns)
              /\ UNCHANGED <<workers, inbox>>
    /\ UNCHANGED <<channel, overtaken, stalled, troubles>>

-----------------------------------------------------------------------------
(* The daemon. *)

DaemonStep == UNCHANGED <<window, overtaken, stalled, events>>

Answered(r) ==
    call' = IF Head(channel).waits THEN [call EXCEPT !.answer = r] ELSE call

\* drain_control_commands and wait_serving_control, one command at a time.
Serve(cmd) ==
    \/ /\ cmd.op \in Reading
       /\ Answered(Accepted(CASE cmd.op = "current_preset" -> active
                              [] cmd.op = "get_config" -> mem
                              [] OTHER -> [name |-> active, config |-> mem]))
       /\ UNCHANGED <<active, mem, saved>>
    \/ /\ cmd.op \notin Reading
       /\ Answered(Refused)
       /\ UNCHANGED <<active, mem, saved>>
    \/ /\ cmd.op = "edit"
       /\ mem' = [mem EXCEPT ![cmd.cell] = cmd.value]
       /\ Answered(Accepted(Absent))
       /\ UNCHANGED <<active, saved>>
    \/ /\ cmd.op = "set_preset"
       /\ active' = cmd.name
       /\ mem' = saved[cmd.name]
       /\ Answered(Accepted(Absent))
       /\ UNCHANGED saved
    \/ /\ cmd.op = "reload"
       /\ mem' = saved[active]
       /\ Answered(Accepted(Absent))
       /\ UNCHANGED <<active, saved>>
    \/ /\ cmd.op = "save_preset"
       /\ saved' = [saved EXCEPT ![active] = mem]
       /\ Answered(Accepted(Absent))
       /\ UNCHANGED <<active, mem>>

DaemonServes ==
    /\ alive
    /\ channel # <<>>
    /\ DaemonStep
    /\ channel' = Tail(channel)
    /\ Serve(Head(channel).cmd)
    /\ UNCHANGED <<conns, alive, workers, troubles>>

\* Every connection and everything unsaved goes with the process.
Crash ==
    /\ alive
    /\ Trouble
    /\ DaemonStep
    /\ alive' = FALSE
    /\ conns' = <<>> /\ call' = Absent /\ channel' = <<>>
    /\ workers' = [w \in Worker |-> [workers[w] EXCEPT !.linked = FALSE, !.wire = Absent]]
    /\ UNCHANGED <<active, mem, saved>>

Restart ==
    /\ ~alive
    /\ DaemonStep
    /\ alive' = TRUE
    /\ active' = Startup
    /\ mem' = saved[Startup]
    /\ UNCHANGED <<conns, call, channel, saved, workers, troubles>>

-----------------------------------------------------------------------------

WindowStep ==
    \/ DebounceFires \/ TickFires
    \/ OnConnected \/ OnDisconnected \/ OnReply \/ OnRetry \/ OnTick
Operator ==
    \/ \E v \in Value : Drag(v) \/ Toggle(v) \/ EditChain(v)
    \/ \E n \in Name : PickPreset(n)
    \/ PressRevert \/ PressReload \/ PressSave \/ PressRetry
    \/ Confirm \/ Dismiss
WorkerRuns(w) ==
    \/ WorkerConnects(w) \/ WorkerSends(w) \/ WorkerFails(w) \/ WorkerRefuses(w)
    \/ WorkerEnds(w)
Server == ListenerReads \/ ListenerEnds \/ ListenerReplies \/ DaemonServes

Next ==
    \/ WindowStep \/ Operator \/ Server
    \/ \E w \in Worker : WorkerRuns(w) \/ WorkerTimesOut(w)
    \/ ListenerTears \/ ListenerStalls
    \/ Crash \/ Restart

Spec == Init /\ [][Next]_vars

\* Threads are scheduled and timers run out.  Nobody is obliged to click, to
\* restart the daemon, or to be slow.
FairSpec ==
    /\ Spec
    /\ WF_vars(WindowStep)
    /\ \A w \in Worker : WF_vars(WorkerRuns(w))
    /\ WF_vars(Server)

-----------------------------------------------------------------------------

\* Connected and nothing under way anywhere.
Quiet == IsConnected /\ pending = {} /\ inbox = <<>>
Settled ==
    /\ Quiet
    /\ conns = <<worker>> /\ call = Absent /\ channel = <<>>
    /\ workers[worker] = [Gone EXCEPT !.phase = "idle", !.linked = TRUE]

\* Once everything is answered the window shows the preset the daemon renders,
\* whatever was refused, lost, reconnected or restarted on the way, as long as
\* (1) no command takes the daemon more than 5 s, for such a command is reported
\* as refused and carried out later, and (2) no worker is replaced before the
\* window has its end reported, for what it says later is taken for the word of
\* its successor.
MirrorIsTrue == Settled /\ ~stalled /\ ~abandoned => name = active /\ config = mem

\* What ConnectionStatus::Connected promises ("the cached ... active preset name
\* [is] now authoritative"), replaced workers or not.  Does not hold: when the
\* handshake of a replaced worker fails, the requests of its successor are
\* forgotten, but they are carried out and answered.
NameIsAuthoritative == Settled /\ ~stalled => name = active

\* The unsaved-changes marker compares with what is in the file, unless (1) an
\* edit or a save was sent while a switch, revert or reload was unanswered,
\* (2) the link dropped with an edit, a save or a fetch in flight, (3) a worker
\* was replaced before the window had its end reported, or (4) a command took
\* more than 5 s.
MarkerIsExact == Settled /\ ~overtaken /\ ~abandoned => baseline = saved[active]

\* The same without exceptions, as the comment on baseline_config has it (last
\* snapshot known to match what the daemon has persisted).  Does not hold.
BaselineIsPersisted == Settled => baseline = saved[active]

\* A window whose daemon stays up, or comes back up, ends up connected with
\* every request answered: attempts neither stop nor lock each other out.
SettlesDown == <>[]alive => <>[]Quiet
=============================================================================
