------------------------------- MODULE MMDVM -------------------------------
(***************************************************************************)
(* mmdvm_modem.go: a modem whose firmware buffers frames and transmits     *)
(* them by itself.  The program brings it up, then modemReceive asks for   *)
(* the room in that buffer now and then and modemSend writes the commands  *)
(* queued in sendCmds as long as it believes there is room.  The serial    *)
(* line keeps order both ways; an answer whose bytes do not come in one go *)
(* is lost.                                                                *)
(***************************************************************************)
EXTENDS Integers, Sequences

CONSTANTS
  Callers,       \* goroutines that transmit
  Frames,        \* frames of an over: link setup, stream frames or packet chunks, end
  Versions,      \* protocols a firmware may speak; the program knows 1 and 2
  ShortStatus,   \* a status of protocol 1 has no byte for the room M17 has
  QueueCap,      \* capacity of sendCmds (100)
  Room,          \* frames the firmware's buffer holds
  VersionTries,  \* readVersion's (6)
  Tries,         \* getEmptyResponse's (30)
  MaxLine        \* requests for a status not yet answered (bound)

ASSUME MMDVMAssumption ==
  /\ Versions \subseteq Nat /\ ShortStatus \in BOOLEAN
  /\ {Frames, QueueCap, Room, VersionTries, Tries, MaxLine} \subseteq Nat \ {0}

VARIABLES
  state,           \* what the program does: a step of the bring-up, "running", "closed", "failed"
  tries,           \* answers it has still patience for
  protocolVersion, \* 0 until known
  configured,      \* the commands of the bring-up the firmware has accepted
  todo,            \* how many frames each caller has still to queue
  sendCmds,        \* the queue
  space,           \* the room the program believes in
  sender,          \* modemSend: "check", "take" or "decrement"
  toModem,         \* commands on their way, and
  fromModem,       \* answers
  buffered,        \* frames in the firmware's buffer
  \* history
  stale,           \* most frames written between the request of a status and its use
  overrun          \* the firmware had to drop a frame

vars == <<state, tries, protocolVersion, configured, todo, sendCmds, space, sender,
          toModem, fromModem, buffered, stale, overrun>>
bringUp == <<tries, protocolVersion, configured>>
sending == <<todo, sendCmds, sender>>
history == <<stale, overrun>>

Steps == {"version", "frequency", "config", "mode"}
\* Commands and answers for a status carry how many frames were written after
\* the command.
Commands == [is : Steps \cup {"status", "frame"}, after : Nat]
Answers ==
  [is : {"status"}, free : Nat, after : Nat] \cup [is : {"version"}, version : Nat]
    \cup [is : {"ack", "nak"}]

Command(c) == [is |-> c, after |-> 0]

Init ==
  /\ state = "version" /\ tries = VersionTries
  /\ protocolVersion = 0 /\ configured = {}
  /\ todo = [g \in Callers |-> 0] /\ sendCmds = <<>>
  /\ space = 0 /\ sender = "check"
  /\ toModem = <<Command("version")>> /\ fromModem = <<>> /\ buffered = 0
  /\ stale = 0 /\ overrun = FALSE
-----------------------------------------------------------------------------
(* Bring-up: NewMMDVMModem.  Each command waits for an answer.             *)

NextStep == [version |-> "frequency", frequency |-> "config", config |-> "mode"]

\* The step s begins: its command is written.  The protocol decides on the
\* configuration, so that an unknown one has none; setMode waits for nothing.
Enter(s) ==
  /\ tries' = Tries
  /\ IF s = "config" /\ protocolVersion' \notin {1, 2}
     THEN state' = "failed" /\ UNCHANGED toModem
     ELSE /\ state' = IF s = "mode" THEN "running" ELSE s
          /\ toModem' = Append(toModem, Command(s))

\* readVersion: unsupported protocols end it; a try without an answer is used up.
ReadVersion ==
  /\ state = "version"
  /\ \/ /\ fromModem # <<>> /\ fromModem' = Tail(fromModem)
        /\ Head(fromModem).is = "version"
        /\ protocolVersion' = Head(fromModem).version
        /\ IF protocolVersion' \in {1, 2}
           THEN Enter("frequency")
           ELSE state' = "failed" /\ UNCHANGED <<tries, toModem>>
     \/ /\ \/ UNCHANGED fromModem
           \/ fromModem # <<>> /\ fromModem' = Tail(fromModem)   \* lost
        /\ UNCHANGED protocolVersion
        /\ IF tries > 1
           THEN tries' = tries - 1 /\ UNCHANGED <<state, toModem>>
           ELSE Enter("frequency")
  /\ UNCHANGED <<configured, sending, space, buffered, history>>

\* Mutant of Accepted: any answer to a command is its acceptance.
Answered(a) == a.is \in {"ack", "nak"}
Accepted(a) == a.is = "ack"

\* setFrequency and writeConfig with getEmptyResponse
AwaitAck ==
  /\ state \in {"frequency", "config"}
  /\ UNCHANGED protocolVersion
  /\ \/ /\ fromModem # <<>> /\ fromModem' = Tail(fromModem)
        /\ CASE Accepted(Head(fromModem)) -> Enter(NextStep[state])
             [] Head(fromModem).is = "nak" -> state' = "failed" /\ UNCHANGED <<tries, toModem>>
             [] OTHER -> /\ tries' = tries - 1 /\ UNCHANGED toModem
                         /\ state' = IF tries > 1 THEN state ELSE "failed"
     \/ /\ \/ UNCHANGED fromModem
           \/ fromModem # <<>> /\ fromModem' = Tail(fromModem)   \* lost
        /\ tries' = tries - 1 /\ UNCHANGED toModem
        /\ \/ tries > 1 /\ UNCHANGED state
           \/ state' = "failed"   \* no try left, half an answer, or the port is gone
  /\ UNCHANGED <<configured, sending, space, buffered, history>>

\* Close: both loops end at their next turn and the port is closed.
Close ==
  /\ state = "running" /\ \A g \in Callers : todo[g] = 0
  /\ state' = "closed"
  /\ UNCHANGED <<bringUp, sending, space, toModem, fromModem, buffered, history>>
-----------------------------------------------------------------------------
(* Transmitting *)

\* A packet, or what TransmitVoiceStream is called with during an over
Transmit(g) ==
  /\ state = "running" /\ todo[g] = 0
  /\ todo' = [todo EXCEPT ![g] = Frames]
  /\ UNCHANGED <<state, bringUp, sendCmds, space, sender, toModem, fromModem, buffered, history>>

\* A frame that finds the queue full is dropped.
enqueue ==
  sendCmds' = IF Len(sendCmds) < QueueCap THEN Append(sendCmds, "frame") ELSE sendCmds

SendToModem(g) ==
  /\ state = "running" /\ todo[g] > 0
  /\ todo' = [todo EXCEPT ![g] = @ - 1]
  /\ enqueue
  /\ UNCHANGED <<state, bringUp, space, sender, toModem, fromModem, buffered, history>>

\* Mutant of HasRoom: the last place is used, too.
HasPlace == space > 0
HasRoom == space > 1

\* modemSend: one turn of its loop is three steps, for others run in between.
Check ==
  /\ state = "running" /\ sender = "check" /\ HasRoom
  /\ sender' = "take"
  /\ UNCHANGED <<state, bringUp, todo, sendCmds, space, toModem, fromModem, buffered, history>>

\* Further frames are behind what is on the line.
Behind(s) == [i \in DOMAIN s |-> IF "after" \in DOMAIN s[i] THEN [s[i] EXCEPT !.after = @ + 1] ELSE s[i]]

\* The write may fail; the room is counted down all the same.
Write ==
  /\ state = "running" /\ sender = "take" /\ sendCmds # <<>>
  /\ sendCmds' = Tail(sendCmds) /\ sender' = "decrement"
  /\ \/ /\ toModem' = Append(Behind(toModem), Command(Head(sendCmds)))
        /\ fromModem' = Behind(fromModem)
     \/ UNCHANGED <<toModem, fromModem>>
  /\ UNCHANGED <<state, bringUp, todo, space, buffered, history>>

Decrement ==
  /\ sender = "decrement"
  /\ space' = space - 1 /\ sender' = "check"
  /\ UNCHANGED <<state, bringUp, todo, sendCmds, toModem, fromModem, buffered, history>>
-----------------------------------------------------------------------------
(* Receiving *)

\* checkStatus, when 250 ms have passed
CheckStatus ==
  /\ state = "running"
  /\ (\A i \in DOMAIN toModem : toModem[i].is # "status") /\ Len(fromModem) < MaxLine
  /\ toModem' = Append(toModem, Command("status"))
  /\ UNCHANGED <<state, bringUp, sending, space, fromModem, buffered, history>>

\* Mutant of setSpace: the room is never counted up.
lowerSpace(free) == space' = IF free < space THEN free ELSE space
setSpace(free) == space' = free

\* What a status is taken to say: none, if it has no byte for M17.
RoomIn(a) == IF protocolVersion = 1 /\ ShortStatus THEN 0 ELSE a.free

\* modemReceive with getResponse and setSpace
Receive ==
  /\ state = "running" /\ fromModem # <<>> /\ fromModem' = Tail(fromModem)
  /\ LET a == Head(fromModem) IN
       IF a.is = "status"
       THEN /\ setSpace(RoomIn(a))
            /\ stale' = IF a.after > stale THEN a.after ELSE stale
       ELSE UNCHANGED <<space, stale>>
  /\ UNCHANGED <<state, bringUp, sending, toModem, buffered, overrun>>

\* getResponse finds the line empty within the answer
Lose ==
  /\ state = "running" /\ fromModem # <<>> /\ fromModem' = Tail(fromModem)
  /\ UNCHANGED <<state, bringUp, sending, space, toModem, buffered, history>>
-----------------------------------------------------------------------------
(* The firmware, as the program relies on it *)

Reply(a) == fromModem' = Append(fromModem, a)

Firmware ==
  /\ toModem # <<>> /\ toModem' = Tail(toModem)
  /\ LET c == Head(toModem) IN
       CASE c.is = "version" ->
              /\ \E v \in Versions : Reply([is |-> "version", version |-> v])
              /\ UNCHANGED <<configured, buffered, overrun>>
         [] c.is \in Steps \ {"version"} ->
              /\ \/ configured' = configured \cup {c.is} /\ Reply([is |-> "ack"])
                 \/ UNCHANGED configured /\ Reply([is |-> "nak"])
              /\ UNCHANGED <<buffered, overrun>>
         [] c.is = "status" ->
              /\ Reply([is |-> "status", free |-> Room - buffered, after |-> c.after])
              /\ UNCHANGED <<configured, buffered, overrun>>
         [] OTHER ->
              /\ IF buffered < Room
                 THEN buffered' = buffered + 1 /\ UNCHANGED overrun
                 ELSE overrun' = TRUE /\ UNCHANGED buffered
              /\ UNCHANGED <<configured, fromModem>>
  /\ UNCHANGED <<state, tries, protocolVersion, sending, space, stale>>

OnAir ==
  /\ buffered > 0 /\ buffered' = buffered - 1
  /\ UNCHANGED <<state, bringUp, sending, space, toModem, fromModem, history>>
-----------------------------------------------------------------------------
Next ==
  \/ ReadVersion \/ AwaitAck \/ Close
  \/ \E g \in Callers : Transmit(g) \/ SendToModem(g)
  \/ Check \/ Write \/ Decrement
  \/ CheckStatus \/ Receive \/ Lose
  \/ Firmware \/ OnAir

Spec == Init /\ [][Next]_vars

\* Goroutines and firmware go on, and not every answer is lost.
FairSpec ==
  /\ Spec
  /\ WF_vars(Check) /\ WF_vars(Write) /\ WF_vars(Decrement)
  /\ WF_vars(CheckStatus) /\ SF_vars(Receive) /\ WF_vars(Firmware) /\ WF_vars(OnAir)
-----------------------------------------------------------------------------
(* Properties *)

TypeOK ==
  /\ state \in Steps \cup {"running", "closed", "failed"}
  /\ tries \in Nat /\ protocolVersion \in Nat /\ configured \subseteq Steps
  /\ todo \in [Callers -> 0..Frames] /\ sendCmds \in Seq({"frame"})
  /\ Len(sendCmds) <= QueueCap
  /\ space \in Int /\ space >= -1 /\ sender \in {"check", "take", "decrement"}
  /\ toModem \in Seq(Commands) /\ fromModem \in Seq(Answers)
  /\ buffered \in 0..Room
  /\ stale \in Nat /\ overrun \in BOOLEAN

\* modemSend overruns the firmware's buffer only if at least two frames went
\* out between the request for a status and the use of its answer: the room a
\* status reports overwrites what modemSend has counted down meanwhile, and the
\* last place is never used.
OverrunNeedsStale == overrun => stale > 1

\* A modem that is in use speaks a known protocol and has taken its frequencies
\* and its configuration, however late answers come and whichever get lost.
RunsConfigured ==
  state = "running" => protocolVersion \in {1, 2} /\ {"frequency", "config"} \subseteq configured

\* Frames go on being written as long as there are some: neither lost answers
\* nor a full buffer stop modemSend for good.  Only a firmware of protocol 1 that
\* reports no room for M17 does (mmdvm_modem.go:296-300).
QueueMoves ==
  \/ []<>(sendCmds = <<>> \/ state = "closed") \/ []<><<Write>>_vars
  \/ ShortStatus /\ <>(protocolVersion = 1)
=============================================================================
