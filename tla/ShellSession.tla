---------------------------- MODULE ShellSession ----------------------------
(***************************************************************************)
(* A session of the remote shell: run_session in the client                *)
(* (sra-client/src/shell.rs) and handle_session in the agent               *)
(* (sra-agent/src/shell.rs), with the connection between them.             *)
(*                                                                         *)
(*   client   main loop: keys and sizes --> |  output thread: screen <--   *)
(*   relay    one frame of either direction at a time, or, on the direct   *)
(*            channel, one of each (Forwarding)                            *)
(*   agent    pump task --> channel --> writer thread --> PTY --> program  *)
(*            reader thread <-- PTY <-- program                            *)
(*                                                                         *)
(* What the operator does is a list of events, and a frame is the number   *)
(* of its event; what the program writes is numbered too.                  *)
(***************************************************************************)
EXTENDS Integers, Sequences, Functions

CONSTANTS
    Events,     \* what the operator does: a sequence of "key" and "resize"
    MaxSaid,    \* bound: what the program writes
    Cap,        \* bound: frames in a socket
    ChanCap,    \* the capacity of the channel to the writer thread (64)
    PtyCap,     \* bound: what the PTY holds in one direction
    Breakable   \* bound: the paths, direct or not, whose connection may break

ASSUME EventsAssumption == Events \in Seq({"key", "resize"})
ASSUME BoundsAssumption ==
    /\ MaxSaid \in Nat
    /\ Cap \in Nat \ {0} /\ ChanCap \in Nat \ {0} /\ PtyCap \in Nat \ {0}

None == 0
Close == -1     \* PtyMsg::Close

VARIABLES
    direct,     \* the connection uses the direct channel
    typed,      \* the events so far
    loop,       \* the client's main loop: "polls", "writes" a frame, or "left"
    output,     \* the client's output thread: "reads" or "done"
    shown,      \* what the screen shows
    up, down,   \* the frames in the sockets of the client, and of the agent
    hold,       \* what the relay carries, in each direction
    link,       \* "open" or "ended"
    reset,      \* the agent's socket has learnt that the other end is gone
    main,       \* handle_session: "starts", "pump", "join", "wait", "over", "failed"
    pump, held, \* tcp_to_pty: "off", "reads", "sends" what it holds, "closes", "done"
    chan,       \* pty_tx to pty_rx
    writer, data,   \* pty_thread: "off", "recv", "writes" its data, "joins", "done"
    reader, frame,  \* reader_thread: "off", "reads", "writes" its frame, "done"
    ptyIn, ptyOut,  \* the two directions of the PTY
    size,       \* the event that gave the PTY its size
    program,    \* "none", "runs", or "exited": the shell and what runs in it
    received, answers, said \* what it read, whether it has yet to answer, what it wrote

clientVars == <<typed, loop, output, shown>>
relayVars == <<up, down, hold, link>>
pumpVars == <<main, pump, held, chan>>
threadVars == <<writer, data, reader, frame, reset>>
ptyVars == <<ptyIn, ptyOut, size, program, received, answers, said>>
session == <<direct, clientVars, relayVars, pumpVars, threadVars, ptyVars>>

SessionInit ==
    /\ direct \in BOOLEAN
    /\ typed = 0 /\ loop = "polls" /\ output = "reads" /\ shown = 0
    /\ up = <<>> /\ down = <<>> /\ hold = [up |-> None, down |-> None] /\ link = "open"
    /\ main = "starts" /\ pump = "off" /\ held = None /\ chan = <<>>
    /\ writer = "off" /\ data = None /\ reader = "off" /\ frame = None /\ reset = FALSE
    /\ ptyIn = <<>> /\ ptyOut = <<>> /\ size = 0 /\ program = "none"
    /\ received = 0 /\ answers = FALSE /\ said = 0

----------------------------------------------------------------------------
(* The client.                                                             *)

\* Something happens at the terminal, and the main loop has a frame to write.
Acts ==
    /\ loop = "polls" /\ typed < Len(Events)
    /\ typed' = typed + 1 /\ loop' = "writes"
    /\ UNCHANGED <<direct, output, shown, relayVars, pumpVars, threadVars, ptyVars>>

(* The loop ends: stdin is closed and the child is killed, whatever it had  *)
(* not sent yet.                                                           *)
Leaves ==
    /\ loop' = "left" /\ output' = "done"
    /\ \E n \in 0..Len(up) : up' = SubSeq(up, 1, n)

WritesFrame ==
    /\ loop = "writes"
    /\ IF link = "ended" THEN Leaves
       ELSE /\ Len(up) < Cap
            /\ up' = Append(up, typed) /\ loop' = "polls" /\ UNCHANGED output
    /\ UNCHANGED <<direct, typed, shown, down, hold, link, pumpVars, threadVars, ptyVars>>

\* Ctrl+], in the main loop.
Escapes ==
    /\ loop = "polls" /\ Leaves
    /\ UNCHANGED <<direct, typed, shown, down, hold, link, pumpVars, threadVars, ptyVars>>

NoticesEnd ==
    /\ loop = "polls" /\ output = "done" /\ Leaves
    /\ UNCHANGED <<direct, typed, shown, down, hold, link, pumpVars, threadVars, ptyVars>>

OutputEnds ==
    /\ output = "reads" /\ link = "ended" /\ hold.down = None
    /\ output' = "done"
    /\ UNCHANGED <<direct, typed, loop, shown, relayVars, pumpVars, threadVars, ptyVars>>

----------------------------------------------------------------------------
(* The relay: select! takes a message of one direction and sends it before  *)
(* it looks for the next; an end or an error of either ends both.           *)

carries(d) == hold[d] # None

\* Mutant of free: the direct channel takes turns as well.
free_turns(d) == hold = [up |-> None, down |-> None]

free(d) == ~carries(d) /\ (direct \/ hold = [up |-> None, down |-> None])

TakesUp ==
    /\ link = "open" /\ free("up") /\ up # <<>>
    /\ hold' = [hold EXCEPT !.up = Head(up)] /\ up' = Tail(up)
    /\ UNCHANGED <<direct, clientVars, down, link, pumpVars, threadVars, ptyVars>>

TakesDown ==
    /\ link = "open" /\ free("down") /\ down # <<>>
    /\ hold' = [hold EXCEPT !.down = Head(down)] /\ down' = Tail(down)
    /\ UNCHANGED <<direct, clientVars, up, link, pumpVars, threadVars, ptyVars>>

(* What is under way to the relay is dropped; what is past it may have      *)
(* reached the socket it was sent to, which is read to its end.             *)
Ends ==
    /\ link' = "ended" /\ up' = <<>> /\ down' = <<>>
    /\ hold' \in [up : {hold.up, None}, down : {hold.down, None}]

\* The output thread writes the frame to the screen.
Shows ==
    /\ carries("down")
    /\ IF loop = "left" THEN link = "open" /\ Ends /\ UNCHANGED shown
       ELSE shown' = hold.down /\ hold' = [hold EXCEPT !.down = None] /\ UNCHANGED <<up, down, link>>
    /\ UNCHANGED <<direct, typed, loop, output, pumpVars, threadVars, ptyVars>>

RelayEnds ==
    /\ link = "open"
    /\ \/ loop = "left" /\ up = <<>> /\ free("up")
       \/ reader = "done" /\ down = <<>> /\ free("down")
       \/ reader = "done" /\ pump = "done" /\ carries("up")
    /\ Ends
    /\ UNCHANGED <<direct, clientVars, pumpVars, threadVars, ptyVars>>

\* The network or the gateway fails.
Breaks ==
    /\ link = "open" /\ direct \in Breakable /\ Ends
    /\ UNCHANGED <<direct, clientVars, pumpVars, threadVars, ptyVars>>

----------------------------------------------------------------------------
(* The agent.                                                              *)

\* A client that is gone does not keep the shell from being started.
Starts ==
    /\ main = "starts"
    /\ \/ /\ main' = "failed" /\ Ends
          /\ UNCHANGED <<pump, writer, reader, program>>
       \/ /\ main' = "pump" /\ pump' = "reads" /\ writer' = "recv" /\ reader' = "reads"
          /\ program' = "runs" /\ UNCHANGED relayVars
    /\ UNCHANGED <<direct, clientVars, held, chan, data, frame, reset,
                   ptyIn, ptyOut, size, received, answers, said>>

PumpReads ==
    /\ pump = "reads" /\ carries("up")
    /\ held' = hold.up /\ pump' = "sends" /\ hold' = [hold EXCEPT !.up = None]
    /\ UNCHANGED <<direct, clientVars, up, down, link, main, chan, threadVars, ptyVars>>

\* Mutant of PumpSends: what finds the channel full is dropped.
PumpSends_try ==
    /\ pump = "sends" /\ held' = None /\ pump' = "reads"
    /\ chan' = IF Len(chan) < ChanCap THEN Append(chan, held) ELSE chan
    /\ UNCHANGED <<direct, clientVars, relayVars, main, threadVars, ptyVars>>

PumpSends ==
    /\ pump = "sends" /\ held' = None
    /\ IF writer = "done" THEN pump' = "closes" /\ UNCHANGED chan
       ELSE /\ Len(chan) < ChanCap
            /\ chan' = Append(chan, held) /\ pump' = "reads"
    /\ UNCHANGED <<direct, clientVars, relayVars, main, threadVars, ptyVars>>

PumpEnds ==
    /\ pump = "reads" /\ link = "ended" /\ ~carries("up")
    /\ pump' = "closes"
    /\ UNCHANGED <<direct, clientVars, relayVars, main, held, chan, threadVars, ptyVars>>

\* Mutant of SendsClose: the end of the stream only ends the task.
SendsClose_not == UNCHANGED chan

SendsClose ==
    IF writer = "done" THEN UNCHANGED chan
    ELSE Len(chan) < ChanCap /\ chan' = Append(chan, Close)

PumpCloses ==
    /\ pump = "closes" /\ SendsClose
    /\ pump' = "done"
    /\ UNCHANGED <<direct, clientVars, relayVars, main, held, threadVars, ptyVars>>

MainCloses ==
    /\ main = "pump" /\ pump = "done" /\ SendsClose
    /\ main' = "join"
    /\ UNCHANGED <<direct, clientVars, relayVars, pump, held, threadVars, ptyVars>>

MainJoins ==
    /\ main = "join" /\ writer = "done"
    /\ main' = "wait"
    /\ UNCHANGED <<direct, clientVars, relayVars, pump, held, chan, threadVars, ptyVars>>

MainReaps ==
    /\ main = "wait" /\ program = "exited"
    /\ main' = "over"
    /\ UNCHANGED <<direct, clientVars, relayVars, pump, held, chan, threadVars, ptyVars>>

----------------------------------------------------------------------------
(* The threads.  The writer keeps both ends of the master until it is done.  *)

WriterReceives ==
    /\ writer = "recv" /\ chan # <<>>
    /\ chan' = Tail(chan)
    /\ LET m == Head(chan)
       IN IF m = Close THEN writer' = "joins" /\ UNCHANGED <<data, size>>
          ELSE IF Events[m] = "resize" THEN size' = m /\ UNCHANGED <<writer, data>>
          ELSE writer' = "writes" /\ data' = m /\ UNCHANGED size
    /\ UNCHANGED <<direct, clientVars, relayVars, main, pump, held, reader, frame, reset,
                   ptyIn, ptyOut, program, received, answers, said>>

\* Mutant of WriterWrites: a program that has exited is not noticed.
WriterWrites_waits ==
    /\ writer = "writes" /\ data' = None
    /\ Len(ptyIn) < PtyCap
    /\ ptyIn' = Append(ptyIn, data) /\ writer' = "recv"
    /\ UNCHANGED <<direct, clientVars, relayVars, pumpVars, reader, frame, reset,
                   ptyOut, size, program, received, answers, said>>

WriterWrites ==
    /\ writer = "writes" /\ data' = None
    /\ IF program = "exited" THEN writer' = "joins" /\ UNCHANGED ptyIn
       ELSE /\ Len(ptyIn) < PtyCap
            /\ ptyIn' = Append(ptyIn, data) /\ writer' = "recv"
    /\ UNCHANGED <<direct, clientVars, relayVars, pumpVars, reader, frame, reset,
                   ptyOut, size, program, received, answers, said>>

WriterJoins ==
    /\ writer = "joins" /\ reader = "done"
    /\ writer' = "done"
    /\ UNCHANGED <<direct, clientVars, relayVars, pumpVars, data, reader, frame, reset, ptyVars>>

ReaderReads ==
    /\ reader = "reads" /\ ptyOut # <<>>
    /\ reader' = "writes" /\ frame' = Head(ptyOut) /\ ptyOut' = Tail(ptyOut)
    /\ UNCHANGED <<direct, clientVars, relayVars, pumpVars, writer, data, reset,
                   ptyIn, size, program, received, answers, said>>

\* The first write to a socket whose other end is gone may still succeed.
ReaderWrites ==
    /\ reader = "writes" /\ frame' = None
    /\ IF link = "open"
       THEN /\ Len(down) < Cap
            /\ down' = Append(down, frame) /\ reader' = "reads" /\ UNCHANGED reset
       ELSE /\ reset' = TRUE /\ UNCHANGED down
            /\ reader' \in (IF reset THEN {"done"} ELSE {"reads", "done"})
    /\ UNCHANGED <<direct, clientVars, up, hold, link, pumpVars, writer, data, ptyVars>>

ReaderEnds ==
    /\ reader = "reads" /\ ptyOut = <<>> /\ program = "exited"
    /\ reader' = "done"
    /\ UNCHANGED <<direct, clientVars, relayVars, pumpVars, writer, data, frame, reset, ptyVars>>

----------------------------------------------------------------------------
(* The program: it reads, answers what it reads before it reads on, and     *)
(* writes of its own accord; it exits when it likes, and when the last      *)
(* master of its PTY is closed.                                             *)

Says == Len(ptyOut) < PtyCap /\ said' = said + 1 /\ ptyOut' = Append(ptyOut, said')

ProgramReads ==
    /\ program = "runs" /\ ~answers /\ ptyIn # <<>>
    /\ received' = Head(ptyIn) /\ ptyIn' = Tail(ptyIn) /\ answers' = TRUE
    /\ UNCHANGED <<direct, clientVars, relayVars, pumpVars, threadVars, ptyOut, size, program, said>>

ProgramAnswers ==
    /\ program = "runs" /\ answers /\ Says
    /\ answers' = FALSE
    /\ UNCHANGED <<direct, clientVars, relayVars, pumpVars, threadVars, ptyIn, size, program, received>>

ProgramSpeaks ==
    /\ program = "runs" /\ ~answers /\ said < MaxSaid /\ Says
    /\ UNCHANGED <<direct, clientVars, relayVars, pumpVars, threadVars, ptyIn, size, program, received, answers>>

ProgramExits ==
    /\ program = "runs" /\ ~answers
    /\ program' = "exited"
    /\ UNCHANGED <<direct, clientVars, relayVars, pumpVars, threadVars, ptyIn, ptyOut, size, received, answers, said>>

HangsUp ==
    /\ program = "runs" /\ writer = "done"
    /\ program' = "exited"
    /\ UNCHANGED <<direct, clientVars, relayVars, pumpVars, threadVars, ptyIn, ptyOut, size, received, answers, said>>

(* What happens by itself; nobody has to type, to speak, to leave or to exit, *)
(* and nothing has to break.                                               *)
GoesOn ==
    \/ WritesFrame \/ NoticesEnd \/ OutputEnds
    \/ TakesUp \/ TakesDown \/ Shows \/ RelayEnds
    \/ Starts \/ PumpReads \/ PumpSends \/ PumpEnds \/ PumpCloses
    \/ MainCloses \/ MainJoins \/ MainReaps
    \/ WriterReceives \/ WriterWrites \/ WriterJoins
    \/ ReaderReads \/ ReaderWrites \/ ReaderEnds
    \/ ProgramReads \/ ProgramAnswers \/ HangsUp

SessionNext ==
    \/ Acts \/ WritesFrame \/ Escapes \/ NoticesEnd \/ OutputEnds
    \/ TakesUp \/ TakesDown \/ Shows \/ RelayEnds \/ Breaks
    \/ Starts \/ PumpReads \/ PumpSends \/ PumpEnds \/ PumpCloses
    \/ MainCloses \/ MainJoins \/ MainReaps
    \/ WriterReceives \/ WriterWrites \/ WriterJoins
    \/ ReaderReads \/ ReaderWrites \/ ReaderEnds
    \/ ProgramReads \/ ProgramAnswers \/ ProgramSpeaks \/ ProgramExits \/ HangsUp

SessionSpec == SessionInit /\ [][SessionNext]_session

(* Events and output are bounded, so no step can put off another for ever:  *)
(* it is enough that something happens as long as a task, a thread or the   *)
(* program can go on.                                                      *)
FairSessionSpec == SessionSpec /\ WF_session(GoesOn)

----------------------------------------------------------------------------
(* Properties.                                                             *)

SessionTypeOK ==
    /\ direct \in BOOLEAN /\ typed \in 0..Len(Events)
    /\ loop \in {"polls", "writes", "left"} /\ output \in {"reads", "done"}
    /\ link \in {"open", "ended"} /\ reset \in BOOLEAN
    /\ main \in {"starts", "pump", "join", "wait", "over", "failed"}
    /\ pump \in {"off", "reads", "sends", "closes", "done"}
    /\ writer \in {"off", "recv", "writes", "joins", "done"}
    /\ reader \in {"off", "reads", "writes", "done"}
    /\ program \in {"none", "runs", "exited"} /\ answers \in BOOLEAN
    /\ up \in Seq(1..Len(Events)) /\ Len(up) <= Cap
    /\ down \in Seq(1..said) /\ Len(down) <= Cap
    /\ chan \in Seq({Close} \cup 1..Len(Events)) /\ Len(chan) <= ChanCap
    /\ ptyIn \in Seq(1..typed) /\ Len(ptyIn) <= PtyCap
    /\ ptyOut \in Seq(1..said) /\ Len(ptyOut) <= PtyCap
    /\ \A n \in {held, data, hold.up, size, received} : n \in 0..typed
    /\ \A n \in {frame, hold.down, shown} : n \in 0..said

(* While the connection stands and the program runs, every key that was     *)
(* pressed and every size of the terminal is on its way, in order, or has   *)
(* arrived (run_session, tcp_to_pty, pty_thread).                           *)
one(n) == IF n = None THEN <<>> ELSE <<n>>
onTheWay ==
    ptyIn \o one(data) \o chan \o one(held) \o one(hold.up) \o up
        \o (IF loop = "writes" THEN <<typed>> ELSE <<>>)
NothingTypedIsLost ==
    /\ \A i, j \in DOMAIN onTheWay : i < j /\ onTheWay[j] # Close => onTheWay[i] < onTheWay[j]
    /\ link = "open" /\ loop # "left" /\ program # "exited" =>
          \A n \in 1..typed :
             \/ \E i \in DOMAIN onTheWay : onTheWay[i] = n
             \/ n <= (IF Events[n] = "key" THEN received ELSE size)

(* A session is not over, and its thread not joined, while the program runs *)
(* (the comment `Reap the child process to prevent zombies').                *)
OverMeansReaped == main = "over" => program = "exited" /\ {reader, writer, pump} = {"done"}

(* What holds of a session at every moment: the three above. *)
SessionInv == SessionTypeOK /\ NothingTypedIsLost /\ OverMeansReaped

(* Through the gateway the two directions share one message, and may jam    *)
(* (stream_forward): the relay holds a frame for a pump that waits for the  *)
(* channel, the writer waits for a program that does not read on before it  *)
(* has written, or for the reader, and the reader for the relay.  Only a    *)
(* break of the connection ends that.                                       *)
jammed ==
    /\ link = "open" /\ ~direct /\ carries("up")
    /\ pump = "sends" /\ Len(chan) = ChanCap
    /\ \/ writer = "joins"
       \/ writer = "writes" /\ Len(ptyIn) = PtyCap /\ answers /\ Len(ptyOut) = PtyCap
    /\ reader = "writes" /\ Len(down) = Cap

(* When the program exits, the session ends on both sides, unless it jams:  *)
(* what the threads of either side wait for is there.                       *)
ShellEndsSession == program = "exited" ~> (main = "over" /\ loop = "left") \/ jammed

(* Every key reaches a program that goes on reading, and all that it writes *)
(* the screen, unless one side leaves or the session jams.                  *)
over == loop = "left" \/ link = "ended" \/ program = "exited"
allRead == \A n \in 1..typed : n <= (IF Events[n] = "key" THEN received ELSE size)
allShown == shown = said
BytesArrive ==
    (main = "pump" /\ ~allRead) \/ ~allShown ~> (allRead /\ allShown) \/ over \/ jammed

(* When the client leaves, the agent's side ends too, but in two cases in   *)
(* which the session stays for as long as the program runs: a program that  *)
(* is silent, for whose output the reader thread waits; and one that writes *)
(* to a PTY that nobody reads any more, while the writer thread waits for   *)
(* it to read (handle_session keeps the PTY open until both are done).      *)
silent == writer = "joins" /\ reader = "reads" /\ ptyOut = <<>>
clogged ==
    /\ writer = "writes" /\ Len(ptyIn) = PtyCap
    /\ reader = "done" /\ answers /\ Len(ptyOut) = PtyCap
LeftBehind ==
    loop = "left" ~> main \in {"over", "failed"} \/ jammed
                         \/ [](program = "runs" /\ (silent \/ clogged))

(* The same of each place between the keyboard and the program: it is in    *)
(* order, and before all that comes after it.  Close is none of the events. *)
carried(n) == {n} \ {None}
Ascending(s) == \A i, j \in DOMAIN s : i < j /\ s[j] # Close => s[i] < s[j]
Before(S, T) == \A m \in S, n \in T : m < n
keyboard == IF loop = "writes" THEN {typed} ELSE {}
fromUp == Range(up) \cup keyboard
fromHold == carried(hold.up) \cup fromUp
fromHeld == carried(held) \cup fromHold
fromChan == (Range(chan) \ {Close}) \cup fromHeld
fromData == carried(data) \cup fromChan
way == Range(ptyIn) \cup fromData

InOrder ==
    /\ Ascending(ptyIn) /\ Ascending(chan) /\ Ascending(up)
    /\ Before(Range(ptyIn), fromData)
    /\ Before(carried(data), fromChan)
    /\ Before(Range(chan) \ {Close}, fromHeld)
    /\ Before(carried(held), fromHold)
    /\ Before(carried(hold.up), fromUp)
    /\ Before(Range(up), keyboard)

(* What is on the way is later than what has arrived, and the PTY gets keys. *)
Ahead ==
    /\ way \subseteq 1..typed
    /\ \A n \in way : (IF Events[n] = "key" THEN received ELSE size) < n
    /\ \A n \in Range(ptyIn) \cup carried(data) : Events[n] = "key"

Covered ==
    link = "open" /\ loop # "left" /\ program # "exited" =>
        \A n \in 1..typed : n \in way \/ n <= (IF Events[n] = "key" THEN received ELSE size)

(* A task or a thread holds something only in the phase in which it passes  *)
(* it on; none of them gives up before the connection or the program ended; *)
(* and handle_session waits for them one after the other.                   *)
InPhase ==
    /\ held # None <=> pump = "sends"
    /\ data # None <=> writer = "writes"
    /\ frame # None <=> reader = "writes"
    /\ main = "starts" => pump = "off" /\ writer = "off" /\ reader = "off" /\ program = "none"
    /\ (pump \in {"closes", "done"} \/ writer \in {"joins", "done"} \/ Close \in Range(chan))
          => link = "ended" \/ program = "exited"
    /\ main \in {"join", "wait", "over"} => pump = "done"
    /\ main \in {"wait", "over"} => writer = "done"
    /\ main = "over" => program = "exited"
    /\ writer = "done" => reader = "done"

SessionIInv ==
    /\ SessionTypeOK /\ said \in Nat /\ hold = [up |-> hold.up, down |-> hold.down]
    /\ InOrder /\ Ahead /\ Covered /\ InPhase
=============================================================================
