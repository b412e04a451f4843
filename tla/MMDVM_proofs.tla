---------------------------- MODULE MMDVM_proofs ----------------------------
(***************************************************************************)
(* The MMDVM modem, for any number of goroutines, frames and versions, any *)
(* buffer and any patience: what a frame dropped by the firmware takes,    *)
(* and that a modem in use has been configured.                            *)
(***************************************************************************)
EXTENDS MMDVM, SequenceTheorems, TLAPS

\* An answer that NewMMDVMModem takes for one to its command.
Verdict(a) == a.is \in {"ack", "nak"}

\* Frames written no earlier than a command, before another one, and all that
\* the firmware has not taken from the line.
Load(c) == c.after + (IF c.is = "frame" THEN 1 ELSE 0)
First(s) == IF s = <<>> THEN 0 ELSE Load(s[1])
Pending == First(toModem)

\* The room that is left once what is on the line has arrived.
Left == Room - buffered - Pending

Trusted ==
  /\ state \in {"version", "frequency", "config"} => tries > 0
  /\ sender # "check" => space >= 0

\* Commands know how many frames were written after them.
Chained(s) ==
  \A i \in DOMAIN s : s[i].after = IF i = Len(s) THEN 0 ELSE Load(s[i + 1])
LineCounts == Chained(toModem)

Believed ==
  /\ \A i \in DOMAIN fromModem :
       fromModem[i].is = "status" => fromModem[i].free <= Left + fromModem[i].after
  /\ space <= Left + stale + (IF sender = "decrement" THEN 1 ELSE 0)
  /\ stale <= 1 => Left >= 0 /\ (sender = "take" => Left >= 1)
  /\ OverrunNeedsStale

BringUp ==
  /\ state \in {"config", "running"} => protocolVersion \in {1, 2} /\ "frequency" \in configured
  /\ state = "running" => "config" \in configured
  /\ state \in {"version", "frequency", "config"} =>
       /\ \A i \in DOMAIN toModem : toModem[i].is \in {"version", state}
       /\ state # "version" => \A i, j \in DOMAIN toModem :
            toModem[i].is = state /\ toModem[j].is = state => i = j
       /\ \A i \in DOMAIN fromModem : Verdict(fromModem[i]) =>
            /\ state # "version"
            /\ \A j \in DOMAIN toModem : toModem[j].is # state
            /\ \A j \in DOMAIN fromModem : Verdict(fromModem[j]) => i = j
            /\ fromModem[i].is = "ack" => state \in configured

\* The invariant, and its parts; the types alone are inductive, and each of the
\* other two needs no more than them.
Types == TypeOK /\ Trusted
Counts == LineCounts /\ Believed
IInv == Types /\ Counts /\ BringUp

----------------------------------------------------------------------------
(* Sequences, commands and answers *)

\* A sequence without its first element.
LEMMA TailIndex ==
  ASSUME NEW S, NEW s \in Seq(S), s # <<>>
  PROVE  /\ Tail(s) \in Seq(S) /\ Len(s) \in Nat /\ Len(s) > 0 /\ Len(Tail(s)) = Len(s) - 1
         /\ Head(s) = s[1] /\ s[1] \in S
         /\ DOMAIN s = 1 .. Len(s) /\ DOMAIN Tail(s) = 1 .. Len(s) - 1
         /\ \A i \in 1 .. Len(s) - 1 : Tail(s)[i] = s[i + 1]
BY HeadTailProperties

\* A sequence with an element more.
LEMMA AppendIndex ==
  ASSUME NEW S, NEW s \in Seq(S), NEW e \in S
  PROVE  LET t == Append(s, e)
         IN /\ t \in Seq(S) /\ Len(s) \in Nat /\ Len(t) = Len(s) + 1
            /\ DOMAIN s = 1 .. Len(s) /\ DOMAIN t = 1 .. Len(s) + 1
            /\ \A i \in 1 .. Len(s) : t[i] = s[i]
            /\ t[Len(s) + 1] = e
BY AppendProperties

\* The fields of answers.
LEMMA AnswerFields ==
  ASSUME NEW a \in Answers
  PROVE  /\ a.is \in {"status", "version", "ack", "nak"}
         /\ a.is = "status" => a.free \in Nat /\ a.after \in Nat
                               /\ a = [is |-> "status", free |-> a.free, after |-> a.after]
         /\ a.is = "version" => a.version \in Nat
BY DEF Answers

\* A frame is behind everything on the line to the modem,
LEMMA BehindCommands ==
  ASSUME NEW s \in Seq(Commands)
  PROVE  /\ Behind(s) \in Seq(Commands) /\ Len(Behind(s)) = Len(s)
         /\ DOMAIN Behind(s) = DOMAIN s
         /\ \A i \in DOMAIN s : Behind(s)[i].is = s[i].is /\ Behind(s)[i].after = s[i].after + 1
<1>1. \A c \in Commands : /\ "after" \in DOMAIN c
                          /\ [c EXCEPT !.after = @ + 1] \in Commands
                          /\ [c EXCEPT !.after = @ + 1].is = c.is
                          /\ [c EXCEPT !.after = @ + 1].after = c.after + 1
  BY DEF Commands
<1>2. Len(s) \in Nat /\ DOMAIN s = 1 .. Len(s) /\ \A i \in 1 .. Len(s) : s[i] \in Commands
  OBVIOUS
<1>3. /\ DOMAIN Behind(s) = 1 .. Len(s)
      /\ \A i \in 1 .. Len(s) : Behind(s)[i] = [s[i] EXCEPT !.after = @ + 1]
      /\ Behind(s) = [i \in 1 .. Len(s) |-> Behind(s)[i]]
  BY <1>1, <1>2 DEF Behind
<1>4. \A i \in 1 .. Len(s) : Behind(s)[i] \in Commands
  BY <1>1, <1>2, <1>3
<1>5. Behind(s) \in Seq(Commands) /\ Len(Behind(s)) = Len(s)
  <2>. DEFINE b == Behind(s)
  <2>1. b = [i \in 1 .. Len(s) |-> b[i]] /\ \A i \in 1 .. Len(s) : b[i] \in Commands
    BY <1>3, <1>4
  <2>. HIDE DEF b
  <2>2. b \in Seq(Commands) /\ Len(b) = Len(s)
    BY <1>2, <2>1
  <2>. QED  BY <2>2 DEF b
<1>. QED  BY <1>1, <1>2, <1>3, <1>5

\* and behind every status on its way back.
LEMMA BehindAnswers ==
  ASSUME NEW s \in Seq(Answers)
  PROVE  /\ Behind(s) \in Seq(Answers) /\ Len(Behind(s)) = Len(s)
         /\ DOMAIN Behind(s) = DOMAIN s
         /\ \A i \in DOMAIN s :
              /\ Behind(s)[i].is = s[i].is
              /\ s[i].is = "status" => /\ Behind(s)[i].free = s[i].free
                                       /\ Behind(s)[i].after = s[i].after + 1
<1>. DEFINE More(a) == IF "after" \in DOMAIN a THEN [a EXCEPT !.after = @ + 1] ELSE a
<1>1. ASSUME NEW a \in Answers
      PROVE  /\ More(a) \in Answers /\ More(a).is = a.is
             /\ a.is = "status" => More(a).free = a.free /\ More(a).after = a.after + 1
  <2>1. CASE a \in [is : {"status"}, free : Nat, after : Nat]
    <3>1. "after" \in DOMAIN a
      BY <2>1
    <3>2. More(a) = [a EXCEPT !.after = @ + 1]
      BY <3>1
    <3>3. /\ More(a) \in [is : {"status"}, free : Nat, after : Nat] /\ More(a).is = a.is
          /\ More(a).free = a.free /\ More(a).after = a.after + 1
      BY <2>1, <3>2
    <3>. QED  BY <3>3 DEF Answers
  <2>2. CASE a \in [is : {"version"}, version : Nat] \cup [is : {"ack", "nak"}]
    <3>1. "after" \notin DOMAIN a /\ a.is # "status"
      BY <2>2
    <3>2. More(a) = a
      BY <3>1
    <3>. QED  BY <3>1, <3>2
  <2>. QED  BY <2>1, <2>2 DEF Answers
<1>2. Len(s) \in Nat /\ DOMAIN s = 1 .. Len(s) /\ \A i \in 1 .. Len(s) : s[i] \in Answers
  OBVIOUS
<1>3. /\ DOMAIN Behind(s) = 1 .. Len(s)
      /\ \A i \in 1 .. Len(s) : Behind(s)[i] = More(s[i])
      /\ Behind(s) = [i \in 1 .. Len(s) |-> Behind(s)[i]]
  BY <1>2 DEF Behind
<1>. HIDE DEF More
<1>4. \A i \in 1 .. Len(s) : Behind(s)[i] \in Answers
  BY <1>1, <1>2, <1>3
<1>5. Behind(s) \in Seq(Answers) /\ Len(Behind(s)) = Len(s)
  <2>. DEFINE b == Behind(s)
  <2>1. b = [i \in 1 .. Len(s) |-> b[i]] /\ \A i \in 1 .. Len(s) : b[i] \in Answers
    BY <1>3, <1>4
  <2>. HIDE DEF b
  <2>2. b \in Seq(Answers) /\ Len(b) = Len(s)
    BY <1>2, <2>1
  <2>. QED  BY <2>2 DEF b
<1>. QED  BY <1>1, <1>2, <1>3, <1>5

----------------------------------------------------------------------------
(* The type invariant *)

\* Commands are well formed.
LEMMA CommandType ==
  \A c \in Steps \cup {"status", "frame"} :
    Command(c) \in Commands /\ Command(c).is = c /\ Command(c).after = 0
BY DEF Command, Commands

\* A step of the bring-up begins, or there is none for the protocol.
LEMMA Entered ==
  ASSUME TypeOK, NEW s \in {"frequency", "config", "mode"}, Enter(s)
  PROVE  /\ tries' \in Nat /\ tries' > 0
         /\ toModem' \in Seq(Commands)
         /\ \/ /\ s = "config" /\ protocolVersion' \notin {1, 2}
               /\ state' = "failed" /\ toModem' = toModem
            \/ /\ s = "config" => protocolVersion' \in {1, 2}
               /\ state' = IF s = "mode" THEN "running" ELSE s
               /\ toModem' = Append(toModem, Command(s))
<1>1. Command(s) \in Commands
  BY CommandType DEF Steps
<1>2. Append(toModem, Command(s)) \in Seq(Commands)
  BY <1>1, AppendIndex DEF TypeOK
<1>3. Tries \in Nat /\ Tries > 0 /\ tries \in Nat
  BY MMDVMAssumption DEF TypeOK
<1>4. CASE s = "config" /\ protocolVersion' \notin {1, 2}
  BY <1>3, <1>4 DEF Enter, TypeOK
<1>5. CASE ~(s = "config" /\ protocolVersion' \notin {1, 2})
  BY <1>2, <1>3, <1>5 DEF Enter
<1>. QED  BY <1>4, <1>5

\* What the program does with an answer or its absence before the modem is up:
\* it waits on, gives up, or goes to the next step, which answers allow as follows.
LEMMA BringUpStep ==
  ASSUME TypeOK, Trusted, ReadVersion \/ AwaitAck
  PROVE  /\ fromModem' = fromModem \/ (fromModem # <<>> /\ fromModem' = Tail(fromModem))
         /\ \/ state' = state /\ tries' \in Nat /\ tries' > 0 /\ UNCHANGED <<toModem, protocolVersion>>
            \/ state' = "failed" /\ tries' \in Nat /\ protocolVersion' \in Nat /\ UNCHANGED toModem
            \/ /\ state = "version" /\ protocolVersion' \in Nat /\ Enter("frequency")
            \/ /\ state \in {"frequency", "config"} /\ UNCHANGED protocolVersion
               /\ fromModem # <<>> /\ Head(fromModem).is = "ack" /\ fromModem' = Tail(fromModem)
               /\ Enter(NextStep[state])
         /\ UNCHANGED <<configured, sending, space, buffered, history>>
<1>1. fromModem # <<>> => Head(fromModem) \in Answers
  BY TailIndex DEF TypeOK
<1>2. CASE ReadVersion
  <2>1. state = "version" /\ tries \in Nat /\ tries > 0
    BY <1>2 DEF ReadVersion, TypeOK, Trusted
  <2>2. CASE /\ fromModem # <<>> /\ fromModem' = Tail(fromModem)
             /\ Head(fromModem).is = "version"
             /\ protocolVersion' = Head(fromModem).version
             /\ IF protocolVersion' \in {1, 2}
                THEN Enter("frequency")
                ELSE state' = "failed" /\ UNCHANGED <<tries, toModem>>
    <3>1. protocolVersion' \in Nat
      BY <1>1, <2>2, AnswerFields
    <3>. QED  BY <1>2, <2>1, <2>2, <3>1 DEF ReadVersion
  <2>3. CASE /\ fromModem' = fromModem \/ (fromModem # <<>> /\ fromModem' = Tail(fromModem))
             /\ UNCHANGED protocolVersion
             /\ IF tries > 1
                THEN tries' = tries - 1 /\ UNCHANGED <<state, toModem>>
                ELSE Enter("frequency")
    <3>1. protocolVersion' \in Nat
      BY <2>3 DEF TypeOK
    <3>2. tries > 1 => tries - 1 \in Nat /\ tries - 1 > 0
      BY <2>1
    <3>. QED  BY <1>2, <2>1, <2>3, <3>1, <3>2 DEF ReadVersion
  <2>. QED  BY <1>2, <2>2, <2>3 DEF ReadVersion
<1>3. CASE AwaitAck
  <2>1. state \in {"frequency", "config"} /\ tries \in Nat /\ tries > 0
    BY <1>3 DEF AwaitAck, TypeOK, Trusted
  <2>2. tries - 1 \in Nat /\ (tries > 1 => tries - 1 > 0) /\ protocolVersion \in Nat
    BY <2>1 DEF TypeOK
  <2>3. CASE /\ fromModem # <<>> /\ fromModem' = Tail(fromModem)
             /\ CASE Accepted(Head(fromModem)) -> Enter(NextStep[state])
                  [] Head(fromModem).is = "nak" -> state' = "failed" /\ UNCHANGED <<tries, toModem>>
                  [] OTHER -> /\ tries' = tries - 1 /\ UNCHANGED toModem
                              /\ state' = IF tries > 1 THEN state ELSE "failed"
    <3>1. CASE Head(fromModem).is = "ack"
      BY <1>3, <2>1, <2>3, <3>1 DEF AwaitAck, Accepted
    <3>2. CASE Head(fromModem).is = "nak"
      BY <1>3, <2>1, <2>2, <2>3, <3>2 DEF AwaitAck, Accepted
    <3>3. CASE Head(fromModem).is \notin {"ack", "nak"}
      <4>1. /\ tries' = tries - 1 /\ UNCHANGED toModem
            /\ state' = IF tries > 1 THEN state ELSE "failed"
        BY <2>3, <3>3 DEF Accepted
      <4>. QED  BY <1>3, <2>1, <2>2, <2>3, <4>1 DEF AwaitAck
    <3>. QED  BY <3>1, <3>2, <3>3
  <2>4. CASE /\ fromModem' = fromModem \/ (fromModem # <<>> /\ fromModem' = Tail(fromModem))
             /\ tries' = tries - 1 /\ UNCHANGED toModem
             /\ \/ tries > 1 /\ UNCHANGED state
                \/ state' = "failed"
    BY <1>3, <2>1, <2>2, <2>4 DEF AwaitAck
  <2>. QED  BY <1>3, <2>3, <2>4 DEF AwaitAck
<1>. QED  BY <1>2, <1>3

\* What the firmware does with the oldest command, by its kind.
LEMMA FirmwareStep ==
  ASSUME TypeOK, Firmware
  PROVE  LET c == toModem[1]
         IN /\ toModem # <<>> /\ c \in Commands /\ toModem' = Tail(toModem)
            /\ UNCHANGED <<state, tries, protocolVersion, todo, sendCmds, space, sender, stale>>
            /\ \/ /\ c.is = "version" /\ UNCHANGED <<configured, buffered, overrun>>
                  /\ \E v \in Nat : fromModem' = Append(fromModem, [is |-> "version", version |-> v])
               \/ /\ c.is \in Steps \ {"version"} /\ UNCHANGED <<buffered, overrun>>
                  /\ \/ /\ configured' = configured \cup {c.is}
                        /\ fromModem' = Append(fromModem, [is |-> "ack"])
                     \/ /\ UNCHANGED configured
                        /\ fromModem' = Append(fromModem, [is |-> "nak"])
               \/ /\ c.is = "status" /\ UNCHANGED <<configured, buffered, overrun>>
                  /\ fromModem' = Append(fromModem, [is |-> "status", free |-> Room - buffered,
                                                     after |-> c.after])
               \/ /\ c.is = "frame" /\ UNCHANGED <<configured, fromModem>>
                  /\ IF buffered < Room
                     THEN buffered' = buffered + 1 /\ UNCHANGED overrun
                     ELSE overrun' = TRUE /\ UNCHANGED buffered
<1>. DEFINE c == toModem[1]
<1>1. toModem # <<>> /\ c \in Commands /\ Head(toModem) = c /\ toModem' = Tail(toModem)
  BY TailIndex DEF TypeOK, Firmware
<1>2. c.is \in Steps \cup {"status", "frame"}
  BY <1>1 DEF Commands
<1>3. UNCHANGED <<state, tries, protocolVersion, todo, sendCmds, space, sender, stale>>
  BY DEF Firmware, sending
<1>4. CASE c.is = "version"
  <2>1. /\ \E v \in Versions : Reply([is |-> "version", version |-> v])
        /\ UNCHANGED <<configured, buffered, overrun>>
    BY <1>1, <1>4 DEF Firmware
  <2>. QED  BY <1>1, <1>3, <1>4, <2>1, MMDVMAssumption DEF Reply
<1>5. CASE c.is \in Steps \ {"version"}
  <2>1. /\ \/ configured' = configured \cup {c.is} /\ Reply([is |-> "ack"])
           \/ UNCHANGED configured /\ Reply([is |-> "nak"])
        /\ UNCHANGED <<buffered, overrun>>
    <3>1. c.is # "version" /\ c.is # "status"
      BY <1>5 DEF Steps
    <3>. HIDE DEF c
    <3>. QED  BY <1>1, <1>5, <3>1 DEF Firmware
  <2>. QED  BY <1>1, <1>3, <1>5, <2>1 DEF Reply
<1>6. CASE c.is = "status"
  <2>1. /\ Reply([is |-> "status", free |-> Room - buffered, after |-> c.after])
        /\ UNCHANGED <<configured, buffered, overrun>>
    BY <1>1, <1>6 DEF Firmware, Steps
  <2>. QED  BY <1>1, <1>3, <1>6, <2>1 DEF Reply
<1>7. CASE c.is = "frame"
  <2>1. /\ IF buffered < Room
           THEN buffered' = buffered + 1 /\ UNCHANGED overrun
           ELSE overrun' = TRUE /\ UNCHANGED buffered
        /\ UNCHANGED <<configured, fromModem>>
    BY <1>1, <1>7 DEF Firmware, Steps
  <2>. QED  BY <1>1, <1>3, <1>7, <2>1
<1>. QED  BY <1>2, <1>4, <1>5, <1>6, <1>7

\* The answers of the firmware are well formed.
LEMMA AnswerTypes ==
  /\ \A v \in Nat : [is |-> "version", version |-> v] \in Answers
  /\ \A free, after \in Nat : [is |-> "status", free |-> free, after |-> after] \in Answers
  /\ [is |-> "ack"] \in Answers /\ [is |-> "nak"] \in Answers
BY DEF Answers

LEMMA InitTypes == Init => Types
<1>. SUFFICES ASSUME Init PROVE Types
  OBVIOUS
<1>1. Command("version") \in Commands
  BY CommandType DEF Steps
<1>2. toModem \in Seq(Commands) /\ fromModem \in Seq(Answers)
  BY <1>1 DEF Init
<1>3. VersionTries \in Nat /\ VersionTries > 0 /\ Frames \in Nat /\ Room \in Nat /\ QueueCap \in Nat
      /\ QueueCap > 0
  BY MMDVMAssumption
<1>4. sendCmds \in Seq({"frame"}) /\ Len(sendCmds) = 0
  BY DEF Init
<1>5. todo \in [Callers -> 0 .. Frames]
  BY <1>3 DEF Init
<1>6. state \in Steps /\ tries \in Nat /\ configured \subseteq Steps /\ buffered \in 0 .. Room
  BY <1>3 DEF Init, Steps
<1>7. /\ protocolVersion \in Nat /\ space \in Int /\ space >= -1
      /\ sender = "check" /\ stale \in Nat /\ tries > 0
  <2>1. protocolVersion = 0 /\ space = 0 /\ stale = 0 /\ sender = "check" /\ tries = VersionTries
    BY DEF Init
  <2>. QED  BY <1>3, <2>1
<1>9. overrun \in BOOLEAN
  BY DEF Init
<1>8. Len(sendCmds) <= QueueCap
  BY <1>3, <1>4
<1>. QED  BY <1>2, <1>4, <1>5, <1>6, <1>7, <1>8, <1>9 DEF Types, TypeOK, Trusted

LEMMA StepTypes == Types /\ [Next]_vars => Types'
<1>. SUFFICES ASSUME Types, [Next]_vars PROVE Types'
  OBVIOUS
<1>. USE DEF Types
<1>1. CASE UNCHANGED vars
  BY <1>1 DEF vars, TypeOK, Trusted
<1>2. CASE ReadVersion \/ AwaitAck
  <2>1. fromModem' \in Seq(Answers)
    <3>1. fromModem # <<>> => Tail(fromModem) \in Seq(Answers)
      BY TailIndex DEF TypeOK
    <3>. QED  BY <1>2, <3>1, BringUpStep DEF TypeOK
  <2>2. UNCHANGED <<configured, todo, sendCmds, sender, space, buffered, stale, overrun>>
    BY <1>2, BringUpStep DEF sending, history
  <2>3. /\ state' \in Steps \cup {"running", "closed", "failed"} /\ tries' \in Nat
        /\ protocolVersion' \in Nat /\ toModem' \in Seq(Commands)
        /\ state' \in {"version", "frequency", "config"} => tries' > 0
    <3>1. CASE state' = state /\ tries' \in Nat /\ tries' > 0 /\ UNCHANGED <<toModem, protocolVersion>>
      BY <3>1 DEF TypeOK
    <3>2. CASE state' = "failed" /\ tries' \in Nat /\ protocolVersion' \in Nat /\ UNCHANGED toModem
      BY <3>2 DEF TypeOK
    <3>3. CASE state = "version" /\ protocolVersion' \in Nat /\ Enter("frequency")
      BY <3>3, Entered DEF Steps
    <3>4. CASE state \in {"frequency", "config"} /\ UNCHANGED protocolVersion /\ Enter(NextStep[state])
      <4>1. NextStep[state] \in {"config", "mode"}
        BY <3>4 DEF NextStep
      <4>. QED  BY <3>4, <4>1, Entered DEF Steps, TypeOK
    <3>. QED  BY <1>2, <3>1, <3>2, <3>3, <3>4, BringUpStep
  <2>. QED  BY <2>1, <2>2, <2>3 DEF TypeOK, Trusted
<1>3. CASE Close
  BY <1>3 DEF Close, bringUp, sending, history, TypeOK, Trusted
<1>4. ASSUME NEW g \in Callers, Transmit(g)
      PROVE  Types'
  <2>1. Frames \in 0 .. Frames
    BY MMDVMAssumption
  <2>. QED  BY <1>4, <2>1 DEF Transmit, bringUp, history, TypeOK, Trusted
<1>5. ASSUME NEW g \in Callers, SendToModem(g)
      PROVE  Types'
  <2>1. todo' \in [Callers -> 0 .. Frames]
    <3>1. todo[g] - 1 \in 0 .. Frames /\ todo \in [Callers -> 0 .. Frames]
      BY <1>5, MMDVMAssumption DEF SendToModem, TypeOK
    <3>. QED  BY <1>5, <3>1 DEF SendToModem
  <2>2. sendCmds' \in Seq({"frame"}) /\ Len(sendCmds') <= QueueCap
    <3>1. QueueCap \in Nat
      BY MMDVMAssumption
    <3>. QED  BY <1>5, <3>1, AppendIndex DEF SendToModem, enqueue, TypeOK
  <2>. QED  BY <1>5, <2>1, <2>2 DEF SendToModem, bringUp, history, TypeOK, Trusted
<1>6. CASE Check
  BY <1>6 DEF Check, HasRoom, bringUp, history, TypeOK, Trusted
<1>7. CASE Write
  <2>1. Head(sendCmds) = "frame" /\ sendCmds' \in Seq({"frame"}) /\ Len(sendCmds') <= QueueCap
    <3>1. QueueCap \in Nat
      BY MMDVMAssumption
    <3>. QED  BY <1>7, <3>1, TailIndex DEF Write, TypeOK
  <2>2. toModem' \in Seq(Commands) /\ fromModem' \in Seq(Answers)
    <3>1. Command("frame") \in Commands
      BY CommandType
    <3>2. Append(Behind(toModem), Command("frame")) \in Seq(Commands) /\ Behind(fromModem) \in Seq(Answers)
      BY <3>1, BehindCommands, BehindAnswers, AppendIndex DEF TypeOK
    <3>. QED  BY <1>7, <2>1, <3>2 DEF Write, TypeOK
  <2>. QED  BY <1>7, <2>1, <2>2 DEF Write, bringUp, history, TypeOK, Trusted
<1>8. CASE Decrement
  BY <1>8 DEF Decrement, bringUp, history, TypeOK, Trusted
<1>9. CASE CheckStatus
  <2>1. Append(toModem, Command("status")) \in Seq(Commands)
    BY CommandType, AppendIndex DEF TypeOK
  <2>. QED  BY <1>9, <2>1 DEF CheckStatus, bringUp, sending, history, TypeOK, Trusted
<1>10. CASE Receive
  <2>1. fromModem' \in Seq(Answers) /\ Head(fromModem) \in Answers
    BY <1>10, TailIndex DEF Receive, TypeOK
  <2>2. space' \in Int /\ space' >= -1 /\ stale' \in Nat /\ (sender # "check" => space' >= 0)
    BY <1>10, <2>1, AnswerFields DEF Receive, setSpace, RoomIn, TypeOK, Trusted
  <2>. QED  BY <1>10, <2>1, <2>2 DEF Receive, bringUp, sending, TypeOK, Trusted
<1>11. CASE Lose
  <2>1. fromModem' \in Seq(Answers)
    BY <1>11, TailIndex DEF Lose, TypeOK
  <2>. QED  BY <1>11, <2>1 DEF Lose, bringUp, sending, history, TypeOK, Trusted
<1>12. CASE Firmware
  <2>. DEFINE c == toModem[1]
  <2>1. /\ toModem' \in Seq(Commands) /\ c \in Commands
        /\ UNCHANGED <<state, tries, protocolVersion, todo, sendCmds, space, sender, stale>>
    BY <1>12, FirmwareStep, TailIndex DEF TypeOK
  <2>2. fromModem' \in Seq(Answers)
    <3>1. Room - buffered \in Nat /\ c.after \in Nat
      BY <2>1, MMDVMAssumption DEF TypeOK, Commands
    <3>2. \E a \in Answers : fromModem' = fromModem \/ fromModem' = Append(fromModem, a)
      <4>1. CASE c.is = "version"
        BY <1>12, <4>1, FirmwareStep, AnswerTypes
      <4>2. CASE c.is \in Steps \ {"version"}
        BY <1>12, <4>2, FirmwareStep, AnswerTypes DEF Steps
      <4>3. CASE c.is = "status"
        BY <1>12, <3>1, <4>3, FirmwareStep, AnswerTypes DEF Steps
      <4>4. CASE c.is = "frame"
        BY <1>12, <4>4, FirmwareStep, AnswerTypes DEF Steps
      <4>5. c.is \in Steps \cup {"status", "frame"}
        BY <2>1 DEF Commands
      <4>6. \/ c.is = "version" \/ c.is \in Steps \ {"version"}
            \/ c.is = "status" \/ c.is = "frame"
        BY <4>5
      <4>. QED  BY <4>1, <4>2, <4>3, <4>4, <4>6, Zenon
    <3>3. PICK a \in Answers : fromModem' = fromModem \/ fromModem' = Append(fromModem, a)
      BY <3>2
    <3>4. fromModem \in Seq(Answers)
      BY DEF Types, TypeOK
    <3>5. Append(fromModem, a) \in Seq(Answers)
      BY <3>4, AppendProperties
    <3>. QED  BY <3>3, <3>4, <3>5
  <2>3. configured' \subseteq Steps /\ buffered' \in 0 .. Room /\ overrun' \in BOOLEAN
    <3>1. Room \in Nat
      BY MMDVMAssumption
    <3>2. /\ configured' = configured \/ (c.is \in Steps /\ configured' = configured \cup {c.is})
          /\ buffered' = buffered \/ (buffered < Room /\ buffered' = buffered + 1)
          /\ overrun' = overrun \/ overrun' = TRUE
      BY <1>12, FirmwareStep
    <3>3. configured' \subseteq Steps
      BY <3>2 DEF TypeOK
    <3>4. buffered' \in 0 .. Room
      BY <3>1, <3>2 DEF TypeOK
    <3>5. overrun' \in BOOLEAN
      BY <3>2 DEF TypeOK
    <3>. QED  BY <3>3, <3>4, <3>5
  <2>. QED  BY <2>1, <2>2, <2>3 DEF TypeOK, Trusted
<1>13. CASE OnAir
  <2>1. buffered' \in 0 .. Room
    BY <1>13, MMDVMAssumption DEF OnAir, TypeOK
  <2>. QED  BY <1>13, <2>1 DEF OnAir, bringUp, sending, history, TypeOK, Trusted
<1>. QED  BY <1>1, <1>2, <1>3, <1>4, <1>5, <1>6, <1>7, <1>8, <1>9, <1>10, <1>11, <1>12, <1>13
     DEF Next
----------------------------------------------------------------------------
(* Frames on the line, and the room that the program believes in *)

\* A command that is not a frame changes no count,
LEMMA LineAppend ==
  ASSUME NEW s \in Seq(Commands), Chained(s), NEW k \in Steps \cup {"status"}
  PROVE  LET t == Append(s, Command(k)) IN Chained(t) /\ First(t) = First(s)
<1>. DEFINE t == Append(s, Command(k))
<1>1. Command(k) \in Commands /\ Load(Command(k)) = 0 /\ Command(k).after = 0
  BY CommandType DEF Load, Steps
<1>2. /\ t \in Seq(Commands) /\ Len(s) \in Nat /\ Len(t) = Len(s) + 1
      /\ DOMAIN s = 1 .. Len(s) /\ DOMAIN t = 1 .. Len(s) + 1
      /\ \A i \in 1 .. Len(s) : t[i] = s[i]
      /\ t[Len(s) + 1] = Command(k)
  BY <1>1, AppendIndex
<1>. HIDE DEF t
<1>3. Chained(t)
  <2>1. SUFFICES ASSUME NEW i \in 1 .. Len(s) + 1
                 PROVE  t[i].after = IF i = Len(t) THEN 0 ELSE Load(t[i + 1])
    BY <1>2 DEF Chained
  <2>2. CASE i = Len(s) + 1
    BY <1>1, <1>2, <2>2
  <2>3. CASE i \in 1 .. Len(s)
    <3>1. s[i].after = IF i = Len(s) THEN 0 ELSE Load(s[i + 1])
      BY <1>2, <2>3 DEF Chained
    <3>2. CASE i = Len(s)
      BY <1>1, <1>2, <2>3, <3>1, <3>2
    <3>3. CASE i # Len(s)
      <4>1. Len(s) \in Nat /\ Len(t) = Len(s) + 1
        BY <1>2
      <4>2. i + 1 \in 1 .. Len(s) /\ i # Len(t)
        BY <2>3, <3>3, <4>1
      <4>. QED  BY <1>2, <2>3, <3>1, <3>3, <4>2
    <3>. QED  BY <3>2, <3>3
  <2>. QED  BY <1>2, <2>1, <2>2, <2>3
<1>4. First(t) = First(s)
  <2>1. t # <<>> /\ (s = <<>> <=> Len(s) = 0)
    BY <1>2
  <2>2. CASE Len(s) = 0
    BY <1>1, <1>2, <2>1, <2>2 DEF First
  <2>3. CASE Len(s) > 0
    BY <1>2, <2>1, <2>3 DEF First
  <2>. QED  BY <1>2, <2>2, <2>3
<1>. QED  BY <1>3, <1>4 DEF t

\* a frame is one more for every command before it,
LEMMA LineFrame ==
  ASSUME NEW s \in Seq(Commands), Chained(s)
  PROVE  LET t == Append(Behind(s), Command("frame")) IN Chained(t) /\ First(t) = First(s) + 1
<1>. DEFINE b == Behind(s)
            t == Append(b, Command("frame"))
<1>1. Command("frame") \in Commands /\ Load(Command("frame")) = 1 /\ Command("frame").after = 0
  BY CommandType DEF Load
<1>2. /\ b \in Seq(Commands) /\ Len(b) = Len(s) /\ Len(s) \in Nat /\ DOMAIN s = 1 .. Len(s)
      /\ \A i \in 1 .. Len(s) : b[i].is = s[i].is /\ b[i].after = s[i].after + 1
                              /\ s[i].after \in Nat
  <2>1. Len(s) \in Nat /\ DOMAIN s = 1 .. Len(s) /\ \A i \in 1 .. Len(s) : s[i] \in Commands
    OBVIOUS
  <2>2. \A c \in Commands : c.after \in Nat
    BY DEF Commands
  <2>. QED  BY <2>1, <2>2, BehindCommands
<1>. HIDE DEF b
<1>3. /\ Len(t) = Len(s) + 1 /\ DOMAIN t = 1 .. Len(s) + 1
      /\ \A i \in 1 .. Len(s) : t[i] = b[i]
      /\ t[Len(s) + 1] = Command("frame")
  BY <1>1, <1>2, AppendIndex
<1>. HIDE DEF t
<1>4. \A i \in 1 .. Len(s) : Load(b[i]) = Load(s[i]) + 1
  BY <1>2 DEF Load
<1>5. Chained(t)
  <2>1. SUFFICES ASSUME NEW i \in 1 .. Len(s) + 1
                 PROVE  t[i].after = IF i = Len(t) THEN 0 ELSE Load(t[i + 1])
    BY <1>3 DEF Chained
  <2>2. CASE i = Len(s) + 1
    BY <1>1, <1>2, <1>3, <2>2
  <2>3. CASE i = Len(s)
    BY <1>1, <1>2, <1>3, <2>3 DEF Chained
  <2>4. CASE i < Len(s)
    <3>1. i \in 1 .. Len(s) /\ i + 1 \in 1 .. Len(s) /\ i # Len(s)
      BY <1>2, <2>4
    <3>2. s[i].after = Load(s[i + 1])
      BY <1>2, <3>1 DEF Chained
    <3>. QED  BY <1>2, <1>3, <1>4, <2>4, <3>1, <3>2
  <2>. QED  BY <1>2, <2>2, <2>3, <2>4
<1>6. First(t) = First(s) + 1
  <2>1. t # <<>> /\ (s = <<>> <=> Len(s) = 0)
    BY <1>2, <1>3
  <2>2. CASE Len(s) = 0
    BY <1>1, <1>2, <1>3, <2>1, <2>2 DEF First
  <2>3. CASE Len(s) > 0
    BY <1>2, <1>3, <1>4, <2>1, <2>3 DEF First
  <2>. QED  BY <1>2, <2>2, <2>3
<1>. QED  BY <1>5, <1>6 DEF t, b

\* and the firmware takes the oldest command.
LEMMA LineTail ==
  ASSUME NEW s \in Seq(Commands), s # <<>>, Chained(s)
  PROVE  /\ Chained(Tail(s)) /\ First(Tail(s)) = s[1].after
         /\ s[1].after \in Nat /\ First(s) = s[1].after + (IF s[1].is = "frame" THEN 1 ELSE 0)
<1>. DEFINE t == Tail(s)
<1>1. /\ Len(s) \in Nat /\ Len(s) > 0 /\ Len(t) = Len(s) - 1 /\ s[1] \in Commands
      /\ t \in Seq(Commands)
      /\ DOMAIN s = 1 .. Len(s) /\ DOMAIN t = 1 .. Len(s) - 1
      /\ \A i \in 1 .. Len(s) - 1 : t[i] = s[i + 1]
  BY TailIndex
<1>. HIDE DEF t
<1>2. Chained(t)
  BY <1>1 DEF Chained
<1>3. First(t) = s[1].after
  <2>1. t = <<>> <=> Len(s) = 1
    BY <1>1
  <2>. QED  BY <1>1, <2>1 DEF First, Chained
<1>. QED  BY <1>1, <1>2, <1>3 DEF t, First, Load, Commands

\* The line is counted in Nat.
LEMMA PendingType == TypeOK => Pending \in Nat /\ Left \in Int
<1>. SUFFICES ASSUME TypeOK PROVE Pending \in Nat /\ Left \in Int
  OBVIOUS
<1>1. toModem # <<>> => toModem[1] \in Commands
  BY TailIndex DEF TypeOK
<1>2. Pending \in Nat
  BY <1>1 DEF Pending, First, Load, Commands
<1>. QED  BY <1>2, MMDVMAssumption DEF Left, TypeOK

\* What leaves alone the line's count, the sender and the room believed in, and
\* brings no new status, keeps what is believed.
LEMMA SameRoom ==
  ASSUME TypeOK, Believed, Left' = Left, UNCHANGED <<space, sender, history>>,
         \A i \in DOMAIN fromModem' : fromModem'[i].is = "status" =>
           \E j \in DOMAIN fromModem : fromModem'[i] = fromModem[j]
  PROVE  Believed'
<1>1. \A i \in DOMAIN fromModem' :
        fromModem'[i].is = "status" => fromModem'[i].free <= Left' + fromModem'[i].after
  BY DEF Believed
<1>. QED  BY <1>1 DEF Believed, OverrunNeedsStale, history

\* A status is used: what it reports and what was written since its request.
LEMMA Used ==
  ASSUME NEW free \in Nat, NEW after \in Nat, NEW left \in Int, NEW old \in Nat, NEW new,
         free <= left + after, new = IF after > old THEN after ELSE old
  PROVE  new \in Nat /\ old <= new /\ free <= left + new
OBVIOUS

LEMMA InitCounts == Init => Counts
<1>. SUFFICES ASSUME Init PROVE Counts
  OBVIOUS
<1>1. Command("version") \in Commands /\ Load(Command("version")) = 0
      /\ Command("version").after = 0
  BY CommandType DEF Load, Steps
<1>2. toModem = <<Command("version")>> /\ toModem # <<>> /\ Len(toModem) = 1
      /\ DOMAIN toModem = 1 .. 1 /\ toModem[1] = Command("version")
  BY DEF Init
<1>3. LineCounts
  BY <1>1, <1>2 DEF LineCounts, Chained
<1>4. Pending = 0
  BY <1>1, <1>2 DEF Pending, First
<1>5. /\ fromModem = <<>> /\ space = 0 /\ stale = 0 /\ sender = "check" /\ buffered = 0
      /\ overrun = FALSE
  BY DEF Init
<1>6. Left = Room /\ Room \in Nat /\ Room > 0
  BY <1>4, <1>5, MMDVMAssumption DEF Left
<1>7. Believed
  BY <1>5, <1>6 DEF Believed, OverrunNeedsStale
<1>. QED  BY <1>3, <1>7 DEF Counts

LEMMA StepCounts == Types /\ Counts /\ [Next]_vars => Counts'
<1>. SUFFICES ASSUME Types, Counts, [Next]_vars PROVE Counts'
  OBVIOUS
<1>. USE DEF Types, Counts
<1>0. /\ Pending \in Nat /\ Left \in Int /\ Left = Room - buffered - Pending
      /\ Room \in Nat /\ buffered \in 0 .. Room /\ space \in Int /\ stale \in Nat
  BY PendingType, MMDVMAssumption DEF TypeOK, Left
<1>1. Types'
  BY StepTypes
<1>2. TypeOK' /\ Pending' \in Nat /\ Left' = Room - buffered' - Pending'
  <2>1. TypeOK'
    BY <1>1
  <2>2. (TypeOK => Pending \in Nat /\ Left \in Int)'
    BY PendingType, PTL
  <2>3. Left' = Room - buffered' - Pending'
    BY DEF Left
  <2>. QED  BY <2>1, <2>2, <2>3
\* The rest is where the line's commands are appended or nothing happens to them.
<1>3. ASSUME UNCHANGED <<toModem, buffered>>
      PROVE  LineCounts' /\ Left' = Left /\ Pending' = Pending
  BY <1>3 DEF LineCounts, Left, Pending
<1>4. ASSUME NEW k \in Steps \cup {"status"}, toModem' = Append(toModem, Command(k)),
             UNCHANGED buffered
      PROVE  LineCounts' /\ Left' = Left
  <2>1. Chained(toModem') /\ First(toModem') = First(toModem)
    BY <1>4, LineAppend DEF TypeOK, LineCounts
  <2>. QED  BY <1>4, <2>1 DEF LineCounts, Left, Pending
<1>5. ASSUME \/ UNCHANGED fromModem
             \/ fromModem # <<>> /\ fromModem' = Tail(fromModem)
      PROVE  \A i \in DOMAIN fromModem' : \E j \in DOMAIN fromModem : fromModem'[i] = fromModem[j]
  <2>1. CASE UNCHANGED fromModem
    BY <2>1
  <2>2. CASE fromModem # <<>> /\ fromModem' = Tail(fromModem)
    <3>1. /\ Len(fromModem) \in Nat /\ DOMAIN fromModem = 1 .. Len(fromModem)
          /\ DOMAIN fromModem' = 1 .. Len(fromModem) - 1
          /\ \A i \in 1 .. Len(fromModem) - 1 : fromModem'[i] = fromModem[i + 1]
      BY <2>2, TailIndex DEF TypeOK
    <3>2. ASSUME NEW i \in DOMAIN fromModem'
          PROVE  \E j \in DOMAIN fromModem : fromModem'[i] = fromModem[j]
      <4>1. i + 1 \in DOMAIN fromModem /\ fromModem'[i] = fromModem[i + 1]
        BY <3>1
      <4>. QED  BY <4>1
    <3>. QED  BY <3>2
  <2>. QED  BY <1>5, <2>1, <2>2
<1>6. CASE UNCHANGED vars
  <2>1. UNCHANGED <<toModem, buffered, fromModem, space, sender, history>>
    BY <1>6 DEF vars, history
  <2>. QED  BY <1>3, <1>5, <2>1, SameRoom
<1>7. CASE ReadVersion \/ AwaitAck
  <2>1. /\ \/ UNCHANGED fromModem
           \/ fromModem # <<>> /\ fromModem' = Tail(fromModem)
        /\ UNCHANGED <<space, sender, buffered, history>>
    BY <1>7, BringUpStep DEF sending, history
  <2>2. \/ UNCHANGED toModem
        \/ \E k \in Steps \cup {"status"} : toModem' = Append(toModem, Command(k))
    <3>1. CASE Enter("frequency")
      BY <3>1, Entered DEF Steps
    <3>2. CASE state \in {"frequency", "config"} /\ Enter(NextStep[state])
      <4>1. NextStep[state] \in {"config", "mode"}
        BY <3>2 DEF NextStep
      <4>. QED  BY <3>2, <4>1, Entered DEF Steps
    <3>. QED  BY <1>7, <3>1, <3>2, BringUpStep
  <2>3. LineCounts' /\ Left' = Left
    BY <1>3, <1>4, <2>1, <2>2
  <2>. QED  BY <1>5, <2>1, <2>3, SameRoom
<1>8. CASE Close
  <2>1. UNCHANGED <<toModem, buffered, fromModem, space, sender, history>>
    BY <1>8 DEF Close, sending, history
  <2>. QED  BY <1>3, <1>5, <2>1, SameRoom
<1>9. ASSUME NEW g \in Callers, Transmit(g) \/ SendToModem(g)
      PROVE  Counts'
  <2>1. UNCHANGED <<toModem, buffered, fromModem, space, sender, history>>
    BY <1>9 DEF Transmit, SendToModem, history
  <2>. QED  BY <1>3, <1>5, <2>1, SameRoom
<1>10. CASE Check
  <2>1. /\ UNCHANGED <<toModem, buffered, fromModem, space, stale, overrun>>
        /\ sender = "check" /\ sender' = "take" /\ space > 1
    BY <1>10 DEF Check, HasRoom, history
  <2>2. LineCounts' /\ Left' = Left
    BY <1>3, <2>1
  <2>3. space <= Left + stale
    BY <2>1, <1>0 DEF Believed
  <2>4. stale <= 1 => Left >= 1
    BY <1>0, <2>1, <2>3
  <2>. QED  BY <1>0, <2>1, <2>2, <2>3, <2>4 DEF Believed, OverrunNeedsStale
<1>11. CASE Write
  <2>1. sender = "take" /\ sender' = "decrement" /\ UNCHANGED <<buffered, space, stale, overrun>>
        /\ Head(sendCmds) = "frame"
    BY <1>11, TailIndex DEF Write, history, TypeOK
  <2>2. CASE UNCHANGED <<toModem, fromModem>>
    <3>1. LineCounts' /\ Left' = Left
      BY <1>3, <2>1, <2>2
    <3>2. space <= Left + stale
      BY <1>0, <2>1 DEF Believed
    <3>. QED  BY <1>0, <2>1, <2>2, <3>1, <3>2 DEF Believed, OverrunNeedsStale
  <2>3. CASE toModem' = Append(Behind(toModem), Command("frame")) /\ fromModem' = Behind(fromModem)
    <3>1. LineCounts' /\ Pending' = Pending + 1
      BY <2>3, LineFrame DEF TypeOK, LineCounts, Pending
    <3>2. Left' = Left - 1
      BY <1>0, <1>2, <2>1, <3>1
    <3>3. \A i \in DOMAIN fromModem' :
            fromModem'[i].is = "status" => fromModem'[i].free <= Left' + fromModem'[i].after
      <4>1. SUFFICES ASSUME NEW i \in DOMAIN fromModem', fromModem'[i].is = "status"
                     PROVE  fromModem'[i].free <= Left' + fromModem'[i].after
        OBVIOUS
      <4>2. /\ i \in DOMAIN fromModem /\ fromModem[i].is = "status"
            /\ fromModem'[i].free = fromModem[i].free /\ fromModem'[i].after = fromModem[i].after + 1
        BY <2>3, <4>1, BehindAnswers DEF TypeOK
      <4>3. fromModem[i].free \in Nat /\ fromModem[i].after \in Nat
            /\ fromModem[i].free <= Left + fromModem[i].after
        <5>1. fromModem[i] \in Answers
          BY <4>2 DEF TypeOK
        <5>. QED  BY <4>2, <5>1, AnswerFields DEF Believed
      <4>. QED  BY <1>0, <3>2, <4>2, <4>3
    <3>4. space <= Left + stale /\ (stale <= 1 => Left >= 1)
      BY <1>0, <2>1 DEF Believed
    <3>5. space' <= Left' + stale' + 1 /\ (stale' <= 1 => Left' >= 0)
      BY <1>0, <2>1, <3>2, <3>4
    <3>. QED  BY <2>1, <3>1, <3>3, <3>5 DEF Believed, OverrunNeedsStale
  <2>. QED  BY <1>11, <2>1, <2>2, <2>3 DEF Write
<1>12. CASE Decrement
  <2>1. /\ UNCHANGED <<toModem, buffered, fromModem, stale, overrun>>
        /\ sender = "decrement" /\ sender' = "check" /\ space' = space - 1
    BY <1>12 DEF Decrement, history
  <2>2. LineCounts' /\ Left' = Left
    BY <1>3, <2>1
  <2>3. space <= Left + stale + 1
    BY <2>1, <1>0 DEF Believed
  <2>4. space' <= Left' + stale'
    BY <1>0, <2>1, <2>2, <2>3
  <2>. QED  BY <1>0, <2>1, <2>2, <2>4 DEF Believed, OverrunNeedsStale
<1>13. CASE CheckStatus
  <2>1. /\ UNCHANGED <<buffered, fromModem, space, sender, history>>
        /\ toModem' = Append(toModem, Command("status"))
    BY <1>13 DEF CheckStatus, sending, history
  <2>2. LineCounts' /\ Left' = Left
    BY <1>4, <2>1
  <2>. QED  BY <1>5, <2>1, <2>2, SameRoom
<1>14. CASE Receive
  <2>. DEFINE a == Head(fromModem)
  <2>1. /\ UNCHANGED <<toModem, buffered, sender, overrun>>
        /\ fromModem # <<>> /\ fromModem' = Tail(fromModem)
    BY <1>14 DEF Receive, sending
  <2>2. LineCounts' /\ Left' = Left
    BY <1>3, <2>1
  <2>3. \A i \in DOMAIN fromModem' :
          fromModem'[i].is = "status" => fromModem'[i].free <= Left' + fromModem'[i].after
    BY <1>5, <2>1, <2>2 DEF Believed
  <2>4. a \in Answers /\ (a.is = "status" => a.free <= Left + a.after)
    <3>1. Head(fromModem) = fromModem[1] /\ 1 \in DOMAIN fromModem /\ fromModem[1] \in Answers
      BY <2>1, TailIndex DEF TypeOK
    <3>. QED  BY <3>1 DEF Believed
  <2>5. CASE a.is = "status"
    <3>1. space' = RoomIn(a) /\ stale' = (IF a.after > stale THEN a.after ELSE stale)
      BY <1>14, <2>5 DEF Receive, setSpace
    <3>2. a.free \in Nat /\ a.after \in Nat
      BY <2>4, <2>5, AnswerFields
    <3>0. RoomIn(a) \in Nat /\ RoomIn(a) <= a.free
      BY <3>2 DEF RoomIn
    <3>3. stale' \in Nat /\ stale <= stale' /\ space' <= Left + stale'
      <4>. DEFINE new == IF a.after > stale THEN a.after ELSE stale
      <4>1. /\ a.free \in Nat /\ a.after \in Nat /\ Left \in Int /\ stale \in Nat
            /\ a.free <= Left + a.after
        BY <1>0, <2>4, <2>5, <3>2
      <4>. HIDE DEF a
      <4>2. new \in Nat /\ stale <= new /\ a.free <= Left + new
        BY <4>1, Used
      <4>3. space' <= a.free /\ space' \in Nat /\ stale' = new
        BY <3>1, <3>0
      <4>. QED  BY <4>1, <4>2, <4>3
    <3>4. space' <= Left' + stale' + (IF sender' = "decrement" THEN 1 ELSE 0)
      BY <1>0, <2>2, <3>1, <3>2, <3>0, <3>3
    <3>5. stale' <= 1 => Left' >= 0 /\ (sender' = "take" => Left' >= 1)
      BY <1>0, <2>1, <2>2, <3>3 DEF Believed
    <3>6. overrun' => stale' > 1
      BY <1>0, <2>1, <3>3 DEF Believed, OverrunNeedsStale
    <3>. QED  BY <2>2, <2>3, <3>4, <3>5, <3>6 DEF Believed, OverrunNeedsStale
  <2>6. CASE a.is # "status"
    <3>1. UNCHANGED <<space, stale>>
      BY <1>14, <2>6 DEF Receive
    <3>. QED  BY <2>1, <2>2, <2>3, <3>1 DEF Believed, OverrunNeedsStale
  <2>. QED  BY <2>5, <2>6
<1>15. CASE Lose
  <2>1. UNCHANGED <<toModem, buffered, space, sender, history>>
        /\ fromModem # <<>> /\ fromModem' = Tail(fromModem)
    BY <1>15 DEF Lose, sending, history
  <2>. QED  BY <1>3, <1>5, <2>1, SameRoom
<1>16. CASE Firmware
  <2>. DEFINE c == toModem[1]
  <2>1. /\ toModem # <<>> /\ c \in Commands /\ toModem' = Tail(toModem)
        /\ UNCHANGED <<space, sender, stale>>
    BY <1>16, FirmwareStep
  <2>2. /\ LineCounts' /\ Pending' = c.after /\ c.after \in Nat
        /\ Pending = c.after + (IF c.is = "frame" THEN 1 ELSE 0)
    BY <2>1, LineTail DEF TypeOK, LineCounts, Pending
  <2>. HIDE DEF c
  <2>3. ASSUME NEW b \in Answers, fromModem' = Append(fromModem, b),
               b.is = "status" => b.free <= Left + b.after,
               UNCHANGED <<buffered, overrun>>, c.is # "frame"
        PROVE  Counts'
    <3>1. Left' = Left
      BY <1>0, <1>2, <2>2, <2>3
    <3>2. /\ Len(fromModem) \in Nat /\ DOMAIN fromModem = 1 .. Len(fromModem)
          /\ DOMAIN fromModem' = 1 .. Len(fromModem) + 1
          /\ \A i \in 1 .. Len(fromModem) : fromModem'[i] = fromModem[i]
          /\ fromModem'[Len(fromModem) + 1] = b
      BY <2>3, AppendIndex DEF TypeOK
    <3>3. \A i \in DOMAIN fromModem' :
            fromModem'[i].is = "status" => fromModem'[i].free <= Left' + fromModem'[i].after
      <4>1. SUFFICES ASSUME NEW i \in 1 .. Len(fromModem) + 1, fromModem'[i].is = "status"
                     PROVE  fromModem'[i].free <= Left + fromModem'[i].after
        BY <3>1, <3>2
      <4>2. CASE i = Len(fromModem) + 1
        BY <2>3, <3>2, <4>1, <4>2
      <4>3. CASE i \in 1 .. Len(fromModem)
        BY <3>2, <4>1, <4>3 DEF Believed
      <4>. QED  BY <3>2, <4>2, <4>3
    <3>. QED  BY <2>1, <2>2, <2>3, <3>1, <3>3 DEF Believed, OverrunNeedsStale
  <2>4. CASE c.is = "version"
    <3>1. /\ UNCHANGED <<buffered, overrun>>
          /\ \E v \in Nat : fromModem' = Append(fromModem, [is |-> "version", version |-> v])
      BY <1>16, <2>4, FirmwareStep DEF c
    <3>2. PICK v \in Nat : fromModem' = Append(fromModem, [is |-> "version", version |-> v])
      BY <3>1
    <3>. DEFINE b == [is |-> "version", version |-> v]
    <3>3. b \in Answers /\ b.is # "status"
      BY AnswerTypes
    <3>. QED  BY <2>3, <2>4, <3>1, <3>2, <3>3
  <2>5. CASE c.is \in Steps \ {"version"}
    <3>1. /\ UNCHANGED <<buffered, overrun>>
          /\ \E k \in {"ack", "nak"} : fromModem' = Append(fromModem, [is |-> k])
      BY <1>16, <2>5, FirmwareStep DEF c, Steps
    <3>2. PICK k \in {"ack", "nak"} : fromModem' = Append(fromModem, [is |-> k])
      BY <3>1
    <3>. DEFINE b == [is |-> k]
    <3>3. b \in Answers /\ b.is # "status"
      BY AnswerTypes
    <3>. QED  BY <2>3, <2>5, <3>1, <3>2, <3>3 DEF Steps
  <2>6. CASE c.is = "status"
    <3>. DEFINE b == [is |-> "status", free |-> Room - buffered, after |-> c.after]
    <3>1. UNCHANGED <<buffered, overrun>> /\ fromModem' = Append(fromModem, b)
      BY <1>16, <2>6, FirmwareStep DEF c, Steps
    <3>2. b.free = Room - buffered /\ b.after = c.after /\ b.free \in Nat /\ b \in Answers
      BY <1>0, <2>2, AnswerTypes
    <3>3. b.free <= Left + b.after
      BY <1>0, <2>2, <2>6, <3>2
    <3>. QED  BY <2>3, <2>6, <3>1, <3>2, <3>3
  <2>7. CASE c.is = "frame"
    <3>1. /\ UNCHANGED fromModem
          /\ IF buffered < Room
             THEN buffered' = buffered + 1 /\ UNCHANGED overrun
             ELSE overrun' = TRUE /\ UNCHANGED buffered
      BY <1>16, <2>7, FirmwareStep DEF c, Steps
    <3>2. Pending = c.after + 1
      BY <2>2, <2>7
    <3>3. CASE buffered < Room
      <4>1. Left' = Left
        BY <1>0, <1>2, <2>2, <3>1, <3>2, <3>3
      <4>2. overrun' = overrun
        BY <3>1, <3>3
      <4>. QED  BY <1>5, <2>1, <2>2, <3>1, <4>1, <4>2, SameRoom DEF history
    <3>4. CASE ~(buffered < Room)
      <4>1. Left' = Left + 1 /\ Left < 0 /\ overrun' = TRUE
        BY <1>0, <1>2, <2>2, <3>1, <3>2, <3>4
      <4>2. stale > 1
        BY <1>0, <4>1 DEF Believed
      <4>3. \A i \in DOMAIN fromModem' :
              fromModem'[i].is = "status" => fromModem'[i].free <= Left' + fromModem'[i].after
        <5>1. SUFFICES ASSUME NEW i \in DOMAIN fromModem, fromModem[i].is = "status"
                       PROVE  fromModem[i].free <= Left + 1 + fromModem[i].after
          BY <3>1, <4>1
        <5>2. fromModem[i].free \in Nat /\ fromModem[i].after \in Nat
              /\ fromModem[i].free <= Left + fromModem[i].after
          <6>1. fromModem[i] \in Answers
            BY DEF TypeOK
          <6>. QED  BY <5>1, <6>1, AnswerFields DEF Believed
        <5>. QED  BY <1>0, <5>2
      <4>4. space' <= Left' + stale' + (IF sender' = "decrement" THEN 1 ELSE 0)
        BY <1>0, <2>1, <4>1 DEF Believed
      <4>. QED  BY <1>0, <2>1, <2>2, <4>1, <4>2, <4>3, <4>4 DEF Believed, OverrunNeedsStale
    <3>. QED  BY <3>3, <3>4
  <2>. QED  BY <2>1, <2>4, <2>5, <2>6, <2>7 DEF Commands
<1>17. CASE OnAir
  <2>1. /\ UNCHANGED <<toModem, fromModem, space, sender, history>>
        /\ buffered' = buffered - 1
    BY <1>17 DEF OnAir, sending
  <2>2. Pending' = Pending /\ LineCounts'
    BY <2>1 DEF Pending, LineCounts
  <2>3. Left' = Left + 1
    BY <1>0, <1>2, <2>1, <2>2
  <2>4. \A i \in DOMAIN fromModem' :
          fromModem'[i].is = "status" => fromModem'[i].free <= Left' + fromModem'[i].after
    <3>1. SUFFICES ASSUME NEW i \in DOMAIN fromModem, fromModem[i].is = "status"
                   PROVE  fromModem[i].free <= Left + 1 + fromModem[i].after
      BY <2>1, <2>3
    <3>2. fromModem[i].free \in Nat /\ fromModem[i].after \in Nat
          /\ fromModem[i].free <= Left + fromModem[i].after
      <4>1. fromModem[i] \in Answers
        BY DEF TypeOK
      <4>. QED  BY <3>1, <4>1, AnswerFields DEF Believed
    <3>. QED  BY <1>0, <3>2
  <2>5. space' <= Left' + stale' + (IF sender' = "decrement" THEN 1 ELSE 0)
    BY <1>0, <2>1, <2>3 DEF Believed, history
  <2>. QED  BY <1>0, <2>1, <2>2, <2>3, <2>4, <2>5 DEF Believed, OverrunNeedsStale, history
<1>. QED  BY <1>6, <1>7, <1>8, <1>9, <1>10, <1>11, <1>12, <1>13, <1>14, <1>15, <1>16, <1>17
     DEF Next

----------------------------------------------------------------------------
(* The bring-up *)

LEMMA InitBringUp == Init => BringUp
<1>. SUFFICES ASSUME Init PROVE BringUp
  OBVIOUS
<1>1. Command("version").is = "version"
  BY CommandType DEF Steps
<1>2. /\ state = "version" /\ fromModem = <<>> /\ DOMAIN fromModem = {}
      /\ DOMAIN toModem = 1 .. 1 /\ toModem[1] = Command("version")
  BY DEF Init
<1>3. \A i \in DOMAIN toModem : toModem[i].is = "version"
  BY <1>1, <1>2
<1>. QED  BY <1>2, <1>3 DEF BringUp

\* What the answers that are left say: no more than those there were.
LEMMA FewerAnswers ==
  ASSUME TypeOK, BringUp, UNCHANGED <<state, toModem, protocolVersion, configured>>,
         \/ UNCHANGED fromModem
         \/ fromModem # <<>> /\ fromModem' = Tail(fromModem)
  PROVE  BringUp'
<1>1. CASE UNCHANGED fromModem
  BY <1>1 DEF BringUp
<1>2. CASE fromModem # <<>> /\ fromModem' = Tail(fromModem)
  <2>1. /\ Len(fromModem) \in Nat /\ DOMAIN fromModem = 1 .. Len(fromModem)
        /\ DOMAIN fromModem' = 1 .. Len(fromModem) - 1
        /\ \A i \in 1 .. Len(fromModem) - 1 : fromModem'[i] = fromModem[i + 1]
    BY <1>2, TailIndex DEF TypeOK
  <2>2. \A i \in DOMAIN fromModem' : i + 1 \in DOMAIN fromModem /\ fromModem'[i] = fromModem[i + 1]
    BY <2>1
  <2>3. ASSUME state \in {"version", "frequency", "config"},
               NEW i \in DOMAIN fromModem', Verdict(fromModem'[i])
        PROVE  /\ state # "version"
               /\ \A j \in DOMAIN toModem : toModem[j].is # state
               /\ \A j \in DOMAIN fromModem' : Verdict(fromModem'[j]) => i = j
               /\ fromModem'[i].is = "ack" => state \in configured
    <3>1. /\ state # "version"
          /\ \A j \in DOMAIN toModem : toModem[j].is # state
          /\ \A j \in DOMAIN fromModem : Verdict(fromModem[j]) => i + 1 = j
          /\ fromModem[i + 1].is = "ack" => state \in configured
      BY <2>2, <2>3 DEF BringUp
    <3>2. ASSUME NEW j \in DOMAIN fromModem', Verdict(fromModem'[j])
          PROVE  i = j
      <4>1. i + 1 = j + 1
        BY <2>2, <3>1, <3>2
      <4>. QED  BY <2>1, <4>1
    <3>. QED  BY <2>2, <3>1, <3>2
  <2>. QED  BY <2>3 DEF BringUp
<1>. QED  BY <1>1, <1>2

LEMMA StepBringUp == Types /\ BringUp /\ [Next]_vars => BringUp'
<1>. SUFFICES ASSUME Types, BringUp, [Next]_vars PROVE BringUp'
  OBVIOUS
<1>. USE DEF Types
<1>1. ASSUME UNCHANGED <<state, toModem, fromModem, protocolVersion, configured>>
      PROVE  BringUp'
  BY <1>1, FewerAnswers
<1>2. ASSUME state = "running", state' \in {"running", "closed"},
             UNCHANGED <<protocolVersion, configured>>
      PROVE  BringUp'
  BY <1>2 DEF BringUp
<1>3. CASE UNCHANGED vars \/ Decrement \/ OnAir
  BY <1>1, <1>3 DEF vars, Decrement, OnAir, bringUp
<1>4. CASE \/ Close \/ Check \/ Write \/ CheckStatus \/ Receive \/ Lose
           \/ \E g \in Callers : Transmit(g) \/ SendToModem(g)
  BY <1>2, <1>4 DEF Close, Check, Write, CheckStatus, Receive, Lose, Transmit, SendToModem, bringUp
<1>5. CASE ReadVersion \/ AwaitAck
  <2>1. /\ UNCHANGED configured
        /\ \/ UNCHANGED fromModem
           \/ fromModem # <<>> /\ fromModem' = Tail(fromModem)
    BY <1>5, BringUpStep
  <2>2. CASE state' = state /\ UNCHANGED <<toModem, protocolVersion>>
    BY <2>1, <2>2, FewerAnswers
  <2>3. CASE state' = "failed"
    BY <2>3 DEF BringUp
\* The next step begins: nothing on the line answers it or asks for it.
  <2>4. ASSUME NEW s \in {"frequency", "config"}, Enter(s), state' # "failed",
               UNCHANGED configured,
               \A i \in DOMAIN toModem : toModem[i].is = "version",
               \A i \in DOMAIN fromModem' : ~Verdict(fromModem'[i]),
               s = "config" => "frequency" \in configured
        PROVE  BringUp'
    <3>1. /\ s = "config" => protocolVersion' \in {1, 2}
          /\ state' = s /\ toModem' = Append(toModem, Command(s))
      BY <2>4, Entered
    <3>2. Command(s) \in Commands /\ Command(s).is = s
      BY CommandType DEF Steps
    <3>3. /\ Len(toModem) \in Nat /\ DOMAIN toModem = 1 .. Len(toModem)
          /\ DOMAIN toModem' = 1 .. Len(toModem) + 1
          /\ \A i \in 1 .. Len(toModem) : toModem'[i] = toModem[i]
          /\ toModem'[Len(toModem) + 1] = Command(s)
      BY <3>1, <3>2, AppendIndex DEF TypeOK
    <3>4. \A i \in DOMAIN toModem' : IF i = Len(toModem) + 1 THEN toModem'[i].is = s
                                                         ELSE toModem'[i].is = "version"
      <4>1. \A i \in DOMAIN toModem' : i = Len(toModem) + 1 \/ i \in DOMAIN toModem
        BY <3>3
      <4>. QED  BY <2>4, <3>2, <3>3, <4>1
    <3>5. \A i \in DOMAIN toModem' : toModem'[i].is \in {"version", s}
      BY <3>4
    <3>6. \A i, j \in DOMAIN toModem' : toModem'[i].is = s /\ toModem'[j].is = s => i = j
      BY <2>4, <3>4
    <3>. QED  BY <2>4, <3>1, <3>5, <3>6 DEF BringUp
  <2>5. CASE state = "version" /\ Enter("frequency")
    <3>1. state' = "frequency" /\ state' # "failed"
      BY <2>5, Entered
    <3>2. /\ \A i \in DOMAIN toModem : toModem[i].is = "version"
          /\ \A i \in DOMAIN fromModem : ~Verdict(fromModem[i])
      BY <2>5 DEF BringUp
    <3>3. \A i \in DOMAIN fromModem' : ~Verdict(fromModem'[i])
      <4>1. CASE fromModem # <<>> /\ fromModem' = Tail(fromModem)
        <5>1. \A i \in DOMAIN fromModem' : i + 1 \in DOMAIN fromModem /\ fromModem'[i] = fromModem[i + 1]
          BY <4>1, TailIndex DEF TypeOK
        <5>. QED  BY <3>2, <5>1
      <4>. QED  BY <2>1, <3>2, <4>1
    <3>. QED  BY <2>1, <2>4, <2>5, <3>1, <3>2, <3>3
  <2>6. CASE /\ state \in {"frequency", "config"} /\ UNCHANGED protocolVersion
             /\ fromModem # <<>> /\ Head(fromModem).is = "ack" /\ fromModem' = Tail(fromModem)
             /\ Enter(NextStep[state])
    <3>1. /\ Len(fromModem) \in Nat /\ Len(fromModem) > 0 /\ DOMAIN fromModem = 1 .. Len(fromModem)
          /\ DOMAIN fromModem' = 1 .. Len(fromModem) - 1
          /\ \A i \in 1 .. Len(fromModem) - 1 : fromModem'[i] = fromModem[i + 1]
          /\ Head(fromModem) = fromModem[1]
      BY <2>6, TailIndex DEF TypeOK
    <3>2. 1 \in DOMAIN fromModem /\ fromModem[1].is = "ack" /\ Verdict(fromModem[1])
      BY <2>6, <3>1 DEF Verdict
    <3>3. /\ state \in configured
          /\ \A j \in DOMAIN toModem : toModem[j].is # state
          /\ \A j \in DOMAIN fromModem : Verdict(fromModem[j]) => 1 = j
          /\ \A j \in DOMAIN toModem : toModem[j].is \in {"version", state}
      BY <2>6, <3>2 DEF BringUp
    <3>4. \A i \in DOMAIN fromModem' : ~Verdict(fromModem'[i])
      <4>1. \A i \in DOMAIN fromModem' : i + 1 \in DOMAIN fromModem /\ i + 1 # 1
                                        /\ fromModem'[i] = fromModem[i + 1]
        BY <3>1
      <4>. QED  BY <3>3, <4>1
    <3>5. \A i \in DOMAIN toModem : toModem[i].is = "version"
      BY <3>3
    <3>6. CASE state = "frequency"
      <4>1. Enter("config")
        BY <2>6, <3>6 DEF NextStep
      <4>2. CASE state' = "failed"
        BY <2>3, <4>2
      <4>3. CASE state' # "failed"
        BY <2>1, <2>4, <3>3, <3>4, <3>5, <3>6, <4>1, <4>3
      <4>. QED  BY <4>2, <4>3
    <3>7. CASE state = "config"
      <4>1. Enter("mode")
        BY <2>6, <3>7 DEF NextStep
      <4>2. state' = "running"
        BY <4>1, Entered
      <4>3. protocolVersion \in {1, 2} /\ "frequency" \in configured /\ "config" \in configured
        BY <3>3, <3>7 DEF BringUp
      <4>. QED  BY <2>1, <2>6, <4>2, <4>3 DEF BringUp
    <3>. QED  BY <2>6, <3>6, <3>7
  <2>. QED  BY <1>5, <2>2, <2>3, <2>5, <2>6, BringUpStep
<1>6. CASE Firmware
  <2>. DEFINE c == toModem[1]
  <2>1. /\ toModem # <<>> /\ c \in Commands /\ toModem' = Tail(toModem)
        /\ UNCHANGED <<state, protocolVersion>> /\ configured \subseteq configured'
    BY <1>6, FirmwareStep
  <2>2. /\ Len(toModem) \in Nat /\ Len(toModem) > 0 /\ DOMAIN toModem = 1 .. Len(toModem)
        /\ DOMAIN toModem' = 1 .. Len(toModem) - 1
        /\ \A i \in 1 .. Len(toModem) - 1 : toModem'[i] = toModem[i + 1]
    BY <2>1, TailIndex DEF TypeOK
  <2>3. \A i \in DOMAIN toModem' : i + 1 \in DOMAIN toModem /\ i + 1 # 1 /\ toModem'[i] = toModem[i + 1]
    BY <2>2
  <2>4. 1 \in DOMAIN toModem
    BY <2>2
  <2>5. CASE state \notin {"version", "frequency", "config"}
    BY <2>1, <2>5 DEF BringUp
  <2>6. CASE state \in {"version", "frequency", "config"}
    <3>1. /\ \A i \in DOMAIN toModem' : toModem'[i].is \in {"version", state}
          /\ state # "version" => \A i, j \in DOMAIN toModem' :
               toModem'[i].is = state /\ toModem'[j].is = state => i = j
      <4>1. \A i \in DOMAIN toModem' : toModem'[i].is \in {"version", state}
        BY <2>3, <2>6 DEF BringUp
      <4>2. ASSUME state # "version", NEW i \in DOMAIN toModem', NEW j \in DOMAIN toModem',
                   toModem'[i].is = state, toModem'[j].is = state
            PROVE  i = j
        <5>1. i + 1 = j + 1
          BY <2>3, <2>6, <4>2 DEF BringUp
        <5>. QED  BY <2>2, <5>1
      <4>. QED  BY <4>1, <4>2
    <3>2. c.is \in {"version", state}
      BY <2>4, <2>6 DEF BringUp
    <3>3. CASE c.is = "version"
      <4>1. /\ UNCHANGED configured
            /\ \E v \in Nat : fromModem' = Append(fromModem, [is |-> "version", version |-> v])
        BY <1>6, <3>3, FirmwareStep
      <4>2. PICK v \in Nat : fromModem' = Append(fromModem, [is |-> "version", version |-> v])
        BY <4>1
      <4>3. [is |-> "version", version |-> v] \in Answers
        BY AnswerTypes
      <4>4. /\ Len(fromModem) \in Nat /\ DOMAIN fromModem = 1 .. Len(fromModem)
            /\ DOMAIN fromModem' = 1 .. Len(fromModem) + 1
            /\ \A i \in 1 .. Len(fromModem) : fromModem'[i] = fromModem[i]
            /\ fromModem'[Len(fromModem) + 1].is = "version"
        BY <4>2, <4>3, AppendIndex DEF TypeOK
      <4>5. \A i \in DOMAIN fromModem' : Verdict(fromModem'[i]) =>
              i \in DOMAIN fromModem /\ fromModem'[i] = fromModem[i]
        <5>1. \A i \in DOMAIN fromModem' : i = Len(fromModem) + 1 \/ i \in DOMAIN fromModem
          BY <4>4
        <5>2. ~Verdict(fromModem'[Len(fromModem) + 1])
          BY <4>4 DEF Verdict
        <5>. QED  BY <4>4, <5>1, <5>2
      <4>6. ASSUME NEW i \in DOMAIN fromModem', Verdict(fromModem'[i])
            PROVE  /\ state # "version"
                   /\ \A j \in DOMAIN toModem' : toModem'[j].is # state
                   /\ \A j \in DOMAIN fromModem' : Verdict(fromModem'[j]) => i = j
                   /\ fromModem'[i].is = "ack" => state \in configured'
        <5>1. /\ state # "version"
              /\ \A j \in DOMAIN toModem : toModem[j].is # state
              /\ \A j \in DOMAIN fromModem : Verdict(fromModem[j]) => i = j
              /\ fromModem[i].is = "ack" => state \in configured
          BY <2>6, <4>5, <4>6 DEF BringUp
        <5>. QED  BY <2>1, <2>3, <4>5, <4>6, <5>1
      <4>. QED  BY <2>1, <2>6, <3>1, <4>1, <4>6 DEF BringUp
    <3>4. CASE c.is = state /\ state # "version"
      <4>1. \E k \in {"ack", "nak"} :
              /\ fromModem' = Append(fromModem, [is |-> k])
              /\ k = "ack" => state \in configured'
        BY <1>6, <2>6, <3>4, FirmwareStep DEF Steps
      <4>2. PICK k \in {"ack", "nak"} : /\ fromModem' = Append(fromModem, [is |-> k])
                                        /\ k = "ack" => state \in configured'
        BY <4>1
      <4>3. [is |-> k] \in Answers
        BY AnswerTypes
      <4>4. /\ Len(fromModem) \in Nat /\ DOMAIN fromModem = 1 .. Len(fromModem)
            /\ DOMAIN fromModem' = 1 .. Len(fromModem) + 1
            /\ \A i \in 1 .. Len(fromModem) : fromModem'[i] = fromModem[i]
            /\ fromModem'[Len(fromModem) + 1].is = k
        BY <4>2, <4>3, AppendIndex DEF TypeOK
      <4>5. \A i \in DOMAIN fromModem : ~Verdict(fromModem[i])
        BY <2>4, <2>6, <3>4 DEF BringUp
      <4>6. \A i \in DOMAIN fromModem' : Verdict(fromModem'[i]) => i = Len(fromModem) + 1
        <5>1. \A i \in DOMAIN fromModem' : i = Len(fromModem) + 1 \/ i \in DOMAIN fromModem
          BY <4>4
        <5>. QED  BY <4>4, <4>5, <5>1
      <4>7. \A j \in DOMAIN toModem' : toModem'[j].is # state
        BY <2>3, <2>4, <2>6, <3>4 DEF BringUp
      <4>8. ASSUME NEW i \in DOMAIN fromModem', Verdict(fromModem'[i])
            PROVE  /\ \A j \in DOMAIN fromModem' : Verdict(fromModem'[j]) => i = j
                   /\ fromModem'[i].is = "ack" => state \in configured'
        BY <4>2, <4>4, <4>6, <4>8
      <4>. QED  BY <2>1, <2>6, <3>1, <3>4, <4>7, <4>8 DEF BringUp
    <3>. QED  BY <3>2, <3>3, <3>4
  <2>. QED  BY <2>5, <2>6
<1>. QED  BY <1>3, <1>4, <1>5, <1>6 DEF Next

----------------------------------------------------------------------------
(* The theorems *)

LEMMA Invariant == Spec => []IInv
<1>1. Init => IInv
  BY InitTypes, InitCounts, InitBringUp DEF IInv
<1>2. IInv /\ [Next]_vars => IInv'
  <2>1. SUFFICES ASSUME Types, Counts, BringUp, [Next]_vars PROVE Types' /\ Counts' /\ BringUp'
    BY DEF IInv
  <2>. QED  BY <2>1, StepTypes, StepCounts, StepBringUp
<1>. QED  BY <1>1, <1>2, PTL DEF Spec

\* The modem's state stays well formed: sendCmds within its capacity, bufSpace
\* (mmdvm_modem.go, modemSend) never below -1, no try left unaccounted for.
THEOREM TypeCorrect == Spec => []TypeOK
BY Invariant, PTL DEF IInv, Types

\* modemSend overruns the firmware's buffer only after two frames or more went
\* out between the request for a status and the use of its answer in modemReceive,
\* whatever the buffer holds and however late answers are.
THEOREM RoomRespected == Spec => []OverrunNeedsStale
<1>1. IInv => OverrunNeedsStale
  BY DEF IInv, Counts, Believed
<1>. QED  BY <1>1, Invariant, PTL

\* NewMMDVMModem returns a modem that modemSend and modemReceive may use only if
\* its protocol is known and the firmware has taken the frequencies and the
\* configuration: no answer to setFrequency is taken for one to writeConfig.
THEOREM BroughtUp == Spec => []RunsConfigured
<1>1. IInv => RunsConfigured
  BY DEF IInv, BringUp, RunsConfigured
<1>. QED  BY <1>1, Invariant, PTL
=============================================================================
