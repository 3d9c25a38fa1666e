---------------------------- MODULE ControlPlane ----------------------------
(***************************************************************************)
(* The control socket: a listener thread that serves one client at a time  *)
(* (control/socket.rs), the bounded channel it hands commands over to the  *)
(* worker by, with a reply channel in every envelope, and the plane that   *)
(* joins the thread when the process ends (runtime.rs).  What a command    *)
(* does is module Session.                                                 *)
(***************************************************************************)
EXTENDS Integers, Sequences

CONSTANTS
    Limit,     \* MAX_COMMAND_LENGTH
    Depth,     \* CONTROL_CHANNEL_DEPTH
    MaxBytes,  \* bound: bytes the clients write
    MaxClients \* bound: connections

VARIABLES
    client,    \* the connection: its state, the line being written, bytes and clients so far
    bytes,     \* written and not read
    listener,  \* what the thread does, its buffer, its line and the answer to write
    channel,   \* the lines whose commands wait for the worker
    plane,     \* "up", "joining" (in Drop) or "dropped"
    executed,  \* the lines whose commands the worker has carried out
    past,      \* lines of this connection that say something and have been read to the end
    torn,      \* lines a read timeout has cut
    abandoned, \* lines whose answer was given up
    told       \* the answers this connection got, with the lines they were for

vars == <<client, bytes, listener, channel, plane, executed, past, torn, abandoned, told>>

\* Answers: the number of the line whose command came to it, or an error.
TimedOut == 0
Invalid == -1
TooLarge == -2

Init ==
    /\ client = [state |-> "off", line |-> 1, size |-> 0, typed |-> 0, clients |-> 0]
    /\ bytes = <<>>
    /\ listener = [does |-> "accept", got |-> <<>>, line |-> 0, answer |-> Invalid]
    /\ channel = <<>>
    /\ plane = "up"
    /\ executed = <<>>
    /\ past = {} /\ torn = {} /\ abandoned = {}
    /\ told = <<>>

(***************************************************************************)
(* The client writes lines, may close its writing side, may stop reading,  *)
(* may go away.                                                            *)
(***************************************************************************)
threads == <<listener, channel, plane, executed, past, torn, abandoned, told>>

Connect ==
    /\ client.state = "off" /\ client.clients < MaxClients
    /\ client' = [client EXCEPT !.state = "on", !.clients = @ + 1]
    /\ UNCHANGED <<bytes, threads>>

\* Silent: the newline ends a line that is empty, is white space only or is not UTF-8.
Type(end, silent) ==
    /\ client.state = "on" /\ client.typed < MaxBytes
    /\ silent => end
    /\ end /\ client.size = 0 => silent
    /\ bytes' = Append(bytes, [line |-> client.line, end |-> end, silent |-> silent])
    /\ client' = [client EXCEPT !.typed = @ + 1, !.size = IF end THEN 0 ELSE @ + 1,
                                !.line = IF end THEN @ + 1 ELSE @]
    /\ UNCHANGED threads

Turns(from, to) ==
    /\ client.state \in from
    /\ client' = [client EXCEPT !.state = to, !.size = 0, !.line = IF client.size = 0 THEN @ ELSE @ + 1]
    /\ UNCHANGED <<bytes, threads>>

(***************************************************************************)
(* handle_connection and read_capped_line.  A byte is read at a time: a    *)
(* line is too long, whole or cut whatever the size of the chunks.         *)
(***************************************************************************)
\* The stream is dropped, with what was left in it.
Closes ==
    /\ listener' = [listener EXCEPT !.does = "accept", !.got = <<>>]
    /\ client' = [client EXCEPT !.state = "off", !.size = 0, !.line = IF client.size = 0 THEN @ ELSE @ + 1]
    /\ bytes' = <<>> /\ past' = {} /\ told' = <<>>

Answers(answer) == listener' = [listener EXCEPT !.does = "write", !.answer = answer]

Accept ==
    /\ listener.does = "accept"
    /\ IF plane # "up" THEN listener' = [listener EXCEPT !.does = "ended"]
       ELSE /\ client.state # "off"
            /\ listener' = [listener EXCEPT !.does = "head"]
    /\ UNCHANGED <<client, bytes, channel, plane, executed, past, torn, abandoned, told>>

\* The head of the loop clears the buffer.
ReadOn ==
    /\ listener.does = "head"
    /\ IF plane = "up"
       THEN /\ listener' = [listener EXCEPT !.does = "read", !.got = <<>>]
            /\ UNCHANGED <<client, bytes, past, told>>
       ELSE Closes
    /\ UNCHANGED <<channel, plane, executed, torn, abandoned>>

\* What a line is taken for: nothing after from_utf8 and trim, no command, or a command.
Senses == {"nothing", "nonsense", "command"}

\* A line is complete.  One that says nothing is passed over without an answer.
Complete(line, sense) ==
    listener' = [listener EXCEPT
        !.line = line, !.answer = Invalid,
        !.does = IF listener.got = <<>> \/ sense = "nothing" THEN "head"
                 ELSE IF sense = "command" THEN "send" ELSE "write"]

\* What is left of a torn line may be taken for anything.
ReadByte(sense) ==
    /\ listener.does = "read" /\ bytes # <<>>
    /\ LET byte == Head(bytes)
       IN  /\ bytes' = Tail(bytes)
           /\ IF Len(listener.got) = Limit
              THEN listener' = [listener EXCEPT !.does = "write", !.line = byte.line, !.answer = TooLarge]
              ELSE IF byte.end
              THEN /\ byte.line \notin torn => (sense = "nothing" <=> byte.silent)
                   /\ Complete(byte.line, sense)
              ELSE listener' = [listener EXCEPT !.got = Append(@, byte)]
           /\ past' = IF byte.end /\ ~byte.silent THEN past \cup {byte.line} ELSE past
    /\ UNCHANGED <<client, channel, plane, executed, torn, abandoned, told>>

\* 500 ms without a byte: what has been read of the line is lost with the buffer.
ReadTimesOut ==
    /\ listener.does = "read" /\ bytes = <<>> /\ client.state \in {"on", "deaf"}
    /\ torn' = IF listener.got = <<>> THEN torn ELSE torn \cup {listener.got[1].line}
    /\ listener' = [listener EXCEPT !.does = "head"]
    /\ UNCHANGED <<client, bytes, channel, plane, executed, past, abandoned, told>>

\* The end of the stream ends a last line that has no newline.
EndOfStream(sense) ==
    /\ listener.does = "read" /\ bytes = <<>> /\ client.state \in {"half", "gone"}
    /\ IF listener.got = <<>> THEN Closes
       ELSE /\ Complete(listener.got[1].line, sense)
            /\ UNCHANGED <<client, bytes, past, told>>
    /\ UNCHANGED <<channel, plane, executed, torn, abandoned>>

\* The write has no timeout: it waits for a client that does not read.
Write ==
    /\ listener.does = "write" /\ client.state # "deaf"
    /\ IF client.state = "gone" \/ listener.answer = TooLarge THEN Closes
       ELSE /\ told' = Append(told, [line |-> listener.line, about |-> listener.answer])
            /\ listener' = [listener EXCEPT !.does = "head"]
            /\ UNCHANGED <<client, bytes, past>>
    /\ UNCHANGED <<channel, plane, executed, torn, abandoned>>

(***************************************************************************)
(* ChannelHandler::handle and the worker.                                  *)
(***************************************************************************)
Send ==
    /\ listener.does = "send" /\ Len(channel) < Depth
    /\ channel' = Append(channel, listener.line)
    /\ listener' = [listener EXCEPT !.does = "wait"]
    /\ UNCHANGED <<client, bytes, plane, executed, past, torn, abandoned, told>>

WorkerSilent ==
    /\ listener.does = "wait"
    /\ Answers(TimedOut)
    /\ abandoned' = abandoned \cup {listener.line}
    /\ UNCHANGED <<client, bytes, channel, plane, executed, past, torn, told>>

\* Fault: one reply channel for all commands.
ServeOnOneChannel ==
    /\ plane = "up" /\ channel # <<>>
    /\ channel' = Tail(channel)
    /\ executed' = Append(executed, Head(channel))
    /\ IF listener.does = "wait" THEN Answers(Head(channel)) ELSE UNCHANGED listener
    /\ UNCHANGED <<client, bytes, plane, past, torn, abandoned, told>>

\* The answer goes to the envelope it came in; nobody may be there to take it.
Serve ==
    /\ plane = "up" /\ channel # <<>>
    /\ channel' = Tail(channel)
    /\ executed' = Append(executed, Head(channel))
    /\ IF listener.does = "wait" /\ listener.line = Head(channel)
       THEN Answers(Head(channel)) ELSE UNCHANGED listener
    /\ UNCHANGED <<client, bytes, plane, past, torn, abandoned, told>>

\* Dropping the plane: the listener is stopped and joined, and only then the receiver goes.
StartsDrop ==
    /\ plane = "up"
    /\ plane' = "joining"
    /\ UNCHANGED <<client, bytes, listener, channel, executed, past, torn, abandoned, told>>

Joined ==
    /\ plane = "joining" /\ listener.does = "ended"
    /\ plane' = "dropped"
    /\ channel' = <<>>
    /\ UNCHANGED <<client, bytes, listener, executed, past, torn, abandoned, told>>

Next ==
    \/ Connect
    \/ \E end, silent \in BOOLEAN : Type(end, silent)
    \/ Turns({"on"}, "half")
    \/ Turns({"on"}, "deaf")
    \/ Turns({"on", "half", "deaf"}, "gone")
    \/ \E sense \in Senses : ReadByte(sense) \/ EndOfStream(sense)
    \/ Accept \/ ReadOn \/ ReadTimesOut \/ Write \/ Send \/ WorkerSilent
    \/ Serve \/ StartsDrop \/ Joined

Spec == Init /\ [][Next]_vars

(***************************************************************************)
(* What a client may rely on.                                              *)
(***************************************************************************)
Increasing(s) == \A i, j \in 1..Len(s) : i < j => s[i] < s[j]

\* An answer is an error or what the client's own command came to, also after another
\* command has timed out; answers come in the order of the lines, none twice.
AnswersItsOwnLine ==
    /\ Increasing([i \in 1..Len(told) |-> told[i].line])
    /\ \A i \in 1..Len(told) : told[i].about \in {TimedOut, Invalid} \/ told[i].about = told[i].line

\* A line that says something, was not torn and has been read to its newline has been answered,
\* with an error too when it is no command, before the next is read.  A line that is empty,
\* white space only or not UTF-8 has no answer: the listener passes it over.
EveryLineAnswered ==
    listener.does \in {"head", "read"} => past \ torn \subseteq {told[i].line : i \in 1..Len(told)}

\* Commands are carried out at most once and in order, late ones too; what was answered
\* without an error has been carried out.
InOrderAndOnce ==
    /\ Increasing(executed)
    /\ \A i \in 1..Len(told) :
          told[i].about = told[i].line => \E j \in 1..Len(executed) : executed[j] = told[i].line

\* No step of the thread is possible.
Stuck ==
    \/ listener.does = "accept" /\ plane = "up" /\ client.state = "off"
    \/ listener.does = "read" /\ bytes = <<>> /\ client.state = "off"
    \/ listener.does = "write" /\ client.state = "deaf"
    \/ listener.does = "send" /\ Len(channel) >= Depth
    \/ listener.does = "ended"
ListenerMoves == \/ Accept \/ ReadOn \/ ReadTimesOut \/ Write \/ Send \/ WorkerSilent
                 \/ \E sense \in Senses : ReadByte(sense) \/ EndOfStream(sense)
StuckIsDisabled == Stuck <=> ~ENABLED ListenerMoves

\* Dropping the plane can wait for the thread without end in two cases only: every place in
\* the channel is taken by a command nobody waits for any more, or a client does not read.
DropWaitsOnlyThen ==
    plane = "joining" /\ listener.does # "ended" /\ Stuck =>
        \/ /\ listener.does = "send" /\ Len(channel) = Depth
           /\ \A i \in 1..Depth : channel[i] \in abandoned
        \/ listener.does = "write" /\ client.state = "deaf"

ControlPlaneHolds ==
    /\ AnswersItsOwnLine
    /\ EveryLineAnswered
    /\ InOrderAndOnce
    /\ DropWaitsOnlyThen
=============================================================================
