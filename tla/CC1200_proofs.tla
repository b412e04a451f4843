---------------------------- MODULE CC1200_proofs ----------------------------
(***************************************************************************)
(* Answers and commands of the CC1200 modem, for any number of goroutines  *)
(* and settings, packets of any length and a line that holds any number    *)
(* of commands: as long as no command was begun while another was under    *)
(* way, whoever takes an answer takes its own, or a debug text; and as     *)
(* long as operations keep apart, the modem knows what its radio does.     *)
(***************************************************************************)
EXTENDS CC1200, SequenceTheorems, TLAPS

Written == [to : Goroutines, op : Ops]

\* Whoever waits, or is about to write, has the command for it.
WaitersBusy ==
  \A g \in Goroutines :
    /\ cleared[g] \/ waiting[g] => Busy(g)
    /\ cleared[g] => ~waiting[g] /\ Op(g) \notin DOMAIN Commands

\* The channel holds an answer, not a text.
Replied == cmdSource # Nothing /\ cmdSource.op # "text"

\* Unless commands have crossed, there is one under way at most: written and not
\* answered, or answered and not taken; one that waits waits for it.
OneAtATime ==
  /\ Len(port) <= 1
  /\ port # <<>> => ~Replied
  /\ \A g \in Goroutines : cleared[g] \/ waiting[g] =>
       /\ \A h \in Goroutines : cleared[h] \/ waiting[h] => h = g
       /\ cleared[g] => port = <<>> /\ ~Replied
       /\ waiting[g] /\ port # <<>> => Head(port).to = g /\ Head(port).op = Op(g)
       /\ waiting[g] /\ Replied => cmdSource.to = g /\ cmdSource.op = Op(g)

IInv == TypeOK /\ WaitersBusy /\ (worst # "crossed" => OneAtATime)

\* What has happened is not forgotten.
LEMMA WorseOnly ==
  ASSUME worst \in DOMAIN Severity, NEW to \in DOMAIN Severity, NEW happens \in BOOLEAN,
         Worsen(to, happens)
  PROVE  /\ worst' \in DOMAIN Severity
         /\ worst = "crossed" => worst' = "crossed"
         /\ happens /\ to = "crossed" => worst' = "crossed"
         /\ to # "crossed" /\ worst' = "crossed" => worst = "crossed"
BY DEF Worsen, Severity

\* A step that leaves what is under way alone, and what those who wait wait for.
LEMMA NothingMoves ==
  ASSUME WaitersBusy, worst # "crossed" => OneAtATime, worst' # "crossed" => worst # "crossed",
         UNCHANGED <<port, cmdSource, cleared, waiting>>,
         \A g \in Goroutines : cleared[g] \/ waiting[g] => todo'[g] = todo[g]
  PROVE  WaitersBusy' /\ (worst' # "crossed" => OneAtATime')
BY DEF WaitersBusy, OneAtATime, Replied, Busy, Op

\* The operations goroutines begin with.
LEMMA OperationsType ==
  /\ SetUp \in Seq(Ops)
  /\ StartUp \o [i \in 1..Chunks |-> "chunk"] \o Finish \in Seq(Ops)
  /\ \A b \in BOOLEAN : \A end \in {<<>>, Finish} :
       (IF b THEN <<>> ELSE StartUp) \o <<"frame">> \o end \in Seq(Ops)
  /\ <<"stopTX", "start">> \in Seq(Ops) /\ <<"start">> \in Seq(Ops)
  /\ <<"stopRX", "stopTX">> \in Seq(Ops)
<1>1. StartUp \in Seq(Ops) /\ Finish \in Seq(Ops) /\ <<"frame">> \in Seq(Ops) /\ <<>> \in Seq(Ops)
  BY DEF StartUp, Finish, Ops, Data
<1>2. SetUp \in Seq(Ops) /\ [i \in 1..Chunks |-> "chunk"] \in Seq(Ops)
  BY CC1200Assumption, IsASeq DEF SetUp, Ops, Data
<1>3. <<"stopTX", "start">> \in Seq(Ops) /\ <<"start">> \in Seq(Ops) /\ <<"stopRX", "stopTX">> \in Seq(Ops)
  BY DEF Ops, Data
<1>4. StartUp \o [i \in 1..Chunks |-> "chunk"] \in Seq(Ops)
  BY <1>1, <1>2, ConcatProperties
<1>5. StartUp \o [i \in 1..Chunks |-> "chunk"] \o Finish \in Seq(Ops)
  BY <1>1, <1>4, ConcatProperties
<1>6. ASSUME NEW b \in BOOLEAN, NEW end \in {<<>>, Finish}
      PROVE  (IF b THEN <<>> ELSE StartUp) \o <<"frame">> \o end \in Seq(Ops)
  <2>1. (IF b THEN <<>> ELSE StartUp) \in Seq(Ops) /\ end \in Seq(Ops)
    BY <1>1
  <2>2. (IF b THEN <<>> ELSE StartUp) \o <<"frame">> \in Seq(Ops)
    BY <1>1, <2>1, ConcatProperties
  <2> QED BY <2>1, <2>2, ConcatProperties
<1> QED BY <1>2, <1>3, <1>5, <1>6

LEMMA InitHolds == Init => IInv
<1> SUFFICES ASSUME Init PROVE IInv
  OBVIOUS
<1>1. TypeOK
  <2>1. todo \in [Goroutines -> Seq(Ops)]
    BY OperationsType DEF Init
  <2>2. /\ cleared \in [Goroutines -> BOOLEAN] /\ waiting \in [Goroutines -> BOOLEAN]
        /\ port \in Seq([to : Goroutines, op : Ops])
    BY DEF Init
  <2>3. /\ txState \in {"idle", "active"} /\ armed \in BOOLEAN /\ cmdSource \in Answers \cup {Nothing}
        /\ radio \in {"idle", "rx", "tx"} /\ main \in {"new", "failed", "made", "running", "closed"}
    BY DEF Init
  <2>4. worst \in DOMAIN Severity
    BY DEF Init, Severity
  <2> QED BY <2>1, <2>2, <2>3, <2>4 DEF TypeOK
<1>2. WaitersBusy /\ OneAtATime
  BY DEF Init, WaitersBusy, OneAtATime, Replied
<1> QED BY <1>1, <1>2 DEF IInv

\* A goroutine that has nothing to do begins an operation.
LEMMA Begun ==
  ASSUME IInv, NEW g \in Goroutines, NEW ops \in Seq(Ops), Begin(g, ops),
         armed' \in BOOLEAN, main' \in {"made", "running", "closed"}
  PROVE  IInv'
<1>1. worst' \in DOMAIN Severity /\ (worst' # "crossed" => worst # "crossed")
  BY WorseOnly DEF IInv, TypeOK, Begin, Severity
<1>2. TypeOK'
  BY <1>1 DEF IInv, TypeOK, Begin
<1>3. \A h \in Goroutines : cleared[h] \/ waiting[h] => todo'[h] = todo[h]
  BY DEF IInv, TypeOK, WaitersBusy, Begin
<1>4. WaitersBusy' /\ (worst' # "crossed" => OneAtATime')
  BY <1>1, <1>3, NothingMoves DEF IInv, Begin
<1> QED BY <1>2, <1>4 DEF IInv

LEMMA Operations ==
  ASSUME IInv,
         \/ Start \/ Close \/ TxTimeout
         \/ \E g \in Callers : TransmitPacket(g) \/ TransmitVoiceStream(g)
  PROVE  IInv'
<1>1. CASE Start
  BY <1>1, Begun, OperationsType DEF Start, Goroutines, IInv, TypeOK
<1>2. CASE Close
  BY <1>2, Begun, OperationsType DEF Close, Goroutines, IInv, TypeOK
<1>3. CASE TxTimeout
  <2>1. main' \in {"made", "running", "closed"}
    BY <1>3 DEF TxTimeout, Begin
  <2> QED BY <1>3, <2>1, Begun, OperationsType DEF TxTimeout, Goroutines
<1>4. ASSUME NEW g \in Callers, TransmitPacket(g) PROVE IInv'
  <2>1. main' \in {"made", "running", "closed"}
    BY <1>4 DEF TransmitPacket, Begin
  <2> QED BY <1>4, <2>1, Begun, OperationsType DEF TransmitPacket, Goroutines, IInv, TypeOK
<1>5. ASSUME NEW g \in Callers, TransmitVoiceStream(g) PROVE IInv'
  <2>1. main' \in {"made", "running", "closed"}
    BY <1>5 DEF TransmitVoiceStream, Begin
  <2> DEFINE Ops2(end) == (IF txState = "active" THEN <<>> ELSE StartUp) \o <<"frame">> \o end
  <2>2. PICK end \in {<<>>, Finish} : Begin(g, Ops2(end))
    BY <1>5 DEF TransmitVoiceStream
  <2>3. Ops2(end) \in Seq(Ops)
    BY OperationsType
  <2> HIDE DEF Ops2
  <2> QED BY <1>5, <2>1, <2>2, <2>3, Begun DEF TransmitVoiceStream, Goroutines, IInv, TypeOK
<1> QED BY <1>1, <1>2, <1>3, <1>4, <1>5

LEMMA Proceeded ==
  ASSUME IInv, NEW g \in Goroutines, Proceed(g)
  PROVE  IInv'
<1>1. todo[g] \in Seq(Ops) /\ todo[g] # <<>>
  BY DEF IInv, TypeOK, Proceed, Busy
<1>2. Tail(todo[g]) \in Seq(Ops)
  BY <1>1, HeadTailProperties
<1>3. <<Commands[Op(g)]>> \in Seq(Ops)
  BY DEF Proceed, Commands, Ops, Data
<1>4. <<Commands[Op(g)]>> \o Tail(todo[g]) \in Seq(Ops)
  BY <1>2, <1>3, ConcatProperties
<1>5. todo' \in [Goroutines -> Seq(Ops)]
  BY <1>2, <1>4 DEF IInv, TypeOK, Proceed, Done
<1>6. TypeOK'
  BY <1>5 DEF IInv, TypeOK, Proceed
<1>7. \A h \in Goroutines : cleared[h] \/ waiting[h] => todo'[h] = todo[h]
  BY DEF IInv, TypeOK, WaitersBusy, Proceed, Done
<1>8. WaitersBusy' /\ (worst' # "crossed" => OneAtATime')
  BY <1>7, NothingMoves DEF IInv, Proceed
<1> QED BY <1>6, <1>8 DEF IInv

\* A command is begun while nothing is under way, or it crosses another.
LEMMA Cleared ==
  ASSUME IInv, NEW g \in Goroutines, Clear(g)
  PROVE  IInv'
<1>1. worst' \in DOMAIN Severity /\ (worst' # "crossed" => worst # "crossed" /\ ~UnderWay)
  <2>1. UnderWay \in BOOLEAN
    BY DEF UnderWay
  <2> QED BY <2>1, WorseOnly DEF IInv, TypeOK, Clear, Severity
<1>2. cmdSource' = Nothing /\ todo' = todo /\ waiting' = waiting /\ port' = port
  BY DEF Clear, DropOldAnswer
<1>3. cleared' = [cleared EXCEPT ![g] = TRUE] /\ ~waiting[g] /\ Busy(g) /\ Op(g) \notin DOMAIN Commands
  BY DEF Clear
<1>4. TypeOK'
  BY <1>1, <1>2, <1>3 DEF IInv, TypeOK, Clear
<1>5. WaitersBusy'
  BY <1>2, <1>3 DEF IInv, TypeOK, WaitersBusy, Busy, Op
<1>6. ASSUME worst' # "crossed" PROVE OneAtATime'
  <2>1. port = <<>> /\ \A h \in Goroutines : ~cleared[h] /\ ~waiting[h]
    BY <1>1, <1>6 DEF UnderWay
  <2>2. \A h \in Goroutines : cleared'[h] \/ waiting'[h] => h = g
    BY <1>2, <1>3, <2>1 DEF IInv, TypeOK
  <2>3. \A h \in Goroutines : ~waiting'[h]
    BY <1>2, <2>1
  <2> QED BY <1>2, <2>1, <2>2, <2>3 DEF OneAtATime, Replied
<1> QED BY <1>4, <1>5, <1>6 DEF IInv

\* The command is written.
LEMMA Sent ==
  ASSUME IInv, NEW g \in Goroutines, Send(g)
  PROVE  IInv'
<1> DEFINE c == [to |-> g, op |-> Op(g)]
<1>1. Busy(g) /\ Op(g) \notin DOMAIN Commands
  BY DEF IInv, WaitersBusy, Send
<1>2. c \in Written
  BY <1>1, HeadTailProperties DEF IInv, TypeOK, Busy, Op, Written
<1>3. port' = Append(port, c) /\ port' \in Seq(Written)
  BY <1>2, AppendProperties DEF IInv, TypeOK, Send, Written
<1>4. TypeOK'
  BY <1>3 DEF IInv, TypeOK, Send, Written
<1>5. WaitersBusy'
  BY <1>1 DEF IInv, TypeOK, WaitersBusy, Send, Busy, Op
<1>6. ASSUME worst' # "crossed" PROVE OneAtATime'
  <2>1. OneAtATime /\ cleared[g]
    BY <1>6 DEF IInv, Send
  <2>2. port = <<>> /\ ~Replied /\ \A h \in Goroutines : cleared[h] \/ waiting[h] => h = g
    BY <2>1 DEF OneAtATime
  <2>3. Len(port') = 1 /\ Head(port') = c
    BY <2>2, <1>3
  <2>4. \A h \in Goroutines : (cleared'[h] \/ waiting'[h] => h = g) /\ ~cleared'[h]
    BY <2>2 DEF IInv, TypeOK, Send
  <2>5. ~Replied' /\ todo' = todo
    BY <2>2 DEF Send, Replied
  <2> QED BY <2>3, <2>4, <2>5 DEF OneAtATime, Op
<1> QED BY <1>4, <1>5, <1>6 DEF IInv

\* A command ends, with an answer or without.
LEMMA Ended ==
  ASSUME IInv, NEW g \in Goroutines, NEW result \in {"ok", "full", "error", "none"},
         waiting[g], Finished(g, result), cmdSource' = Nothing, port' = port,
         worst' \in DOMAIN Severity, worst' # "crossed" => worst # "crossed", radio' = radio,
         cleared' = cleared
  PROVE  IInv'
<1>1. todo[g] \in Seq(Ops) /\ todo[g] # <<>>
  BY DEF IInv, TypeOK, WaitersBusy, Busy
<1>2. Tail(todo[g]) \in Seq(Ops) /\ <<>> \in Seq(Ops)
  BY <1>1, HeadTailProperties
<1>3. /\ todo' \in [Goroutines -> Seq(Ops)]
      /\ \A h \in Goroutines \ {g} : todo'[h] = todo[h]
  BY <1>2 DEF IInv, TypeOK, Finished, Done
<1>4. armed' \in BOOLEAN /\ txState' \in {"idle", "active"}
  BY DEF IInv, TypeOK, Finished, SetTimer
<1>5. /\ waiting' \in [Goroutines -> BOOLEAN] /\ ~waiting'[g]
      /\ \A h \in Goroutines \ {g} : waiting'[h] = waiting[h]
  BY DEF IInv, TypeOK, Finished
<1>6. TypeOK'
  BY <1>3, <1>4, <1>5 DEF IInv, TypeOK, Finished
<1>7. WaitersBusy'
  BY <1>3, <1>5 DEF IInv, TypeOK, WaitersBusy, Busy, Op
<1>8. ASSUME worst' # "crossed" PROVE OneAtATime'
  <2>1. OneAtATime /\ ~cleared[g] /\ \A h \in Goroutines : cleared[h] \/ waiting[h] => h = g
    BY <1>8 DEF IInv, OneAtATime, WaitersBusy
  <2>2. \A h \in Goroutines : ~cleared'[h] /\ ~waiting'[h]
    BY <1>5, <2>1
  <2> QED BY <2>1, <2>2 DEF OneAtATime, Replied
<1> QED BY <1>6, <1>7, <1>8 DEF IInv

LEMMA Answered ==
  ASSUME IInv, NEW g \in Goroutines, Receive(g) \/ TimeOut(g)
  PROVE  IInv'
<1>1. CASE Receive(g)
  <2>1. cmdSource.result \in {"ok", "full", "error"}
    BY <1>1 DEF IInv, TypeOK, Receive, Answers, Text
  <2> QED BY <1>1, <2>1, Ended DEF IInv, TypeOK, Receive
<1>2. CASE TimeOut(g)
  <2>1. worst' \in DOMAIN Severity /\ (worst' # "crossed" => worst # "crossed")
    BY <1>2, WorseOnly DEF IInv, TypeOK, TimeOut, Severity
  <2> QED BY <1>2, <2>1, Ended DEF TimeOut
<1> QED BY <1>1, <1>2

\* The firmware answers the oldest command.
LEMMA FirmwareAnswers ==
  ASSUME IInv, Answer
  PROVE  IInv'
<1> DEFINE c == Head(port)
<1>1. port \in Seq(Written) /\ port # <<>> /\ port' = Tail(port)
  BY DEF IInv, TypeOK, Answer, Written
<1>2. c \in Written /\ port' \in Seq(Written)
  BY <1>1, HeadTailProperties
<1>3. PICK result \in {"ok", "full", "error"} :
        /\ radio' = IF result = "ok" THEN After(c.op) ELSE radio
        /\ Worsen("disturbed", result = "error")
        /\ cmdSource' = IF cmdSource = Nothing
                        THEN [to |-> c.to, op |-> c.op, result |-> result]
                        ELSE cmdSource
  BY DEF Answer
<1>4. worst' \in DOMAIN Severity /\ (worst' # "crossed" => worst # "crossed")
  BY <1>3, WorseOnly DEF IInv, TypeOK, Severity
<1>5. cmdSource' \in Answers \cup {Nothing}
  BY <1>2, <1>3 DEF IInv, TypeOK, Answers, Written
<1>6. radio' \in {"idle", "rx", "tx"}
  BY <1>3 DEF IInv, TypeOK, After
<1>7. TypeOK'
  BY <1>2, <1>4, <1>5, <1>6 DEF IInv, TypeOK, Answer, Written
<1>8. WaitersBusy'
  BY DEF IInv, WaitersBusy, Answer, Busy, Op
<1>9. ASSUME worst' # "crossed" PROVE OneAtATime'
  <2>1. OneAtATime /\ ~Replied
    BY <1>1, <1>4, <1>9 DEF IInv, OneAtATime
  <2>2. port' = <<>>
    BY <1>1, <2>1 DEF OneAtATime
  <2>3. Replied' => cmdSource'.to = c.to /\ cmdSource'.op = c.op
    BY <1>3, <2>1 DEF Replied
  <2>4. \A h \in Goroutines : ~cleared[h]
    BY <1>1, <2>1 DEF OneAtATime
  <2> QED BY <1>1, <2>1, <2>2, <2>3, <2>4 DEF OneAtATime, Answer, Op
<1> QED BY <1>7, <1>8, <1>9 DEF IInv

\* A text is put into the channel.
LEMMA TextComes ==
  ASSUME IInv, Texts
  PROVE  IInv'
<1>1. PICK result \in {"ok", "error"} : cmdSource' = Text(result)
  BY DEF Texts
<1>2. worst' \in DOMAIN Severity /\ (worst' # "crossed" => worst # "crossed")
  BY WorseOnly DEF IInv, TypeOK, Texts, Severity
<1>3. cmdSource' \in Answers /\ ~Replied'
  BY <1>1 DEF Answers, Text, Replied
<1>4. TypeOK'
  BY <1>2, <1>3 DEF IInv, TypeOK, Texts
<1>5. WaitersBusy'
  BY DEF IInv, WaitersBusy, Texts, Busy, Op
<1>6. ASSUME worst' # "crossed" PROVE OneAtATime'
  BY <1>2, <1>3, <1>6 DEF IInv, OneAtATime, Texts, Op
<1> QED BY <1>4, <1>5, <1>6 DEF IInv

LEMMA StepHolds == IInv /\ [Next]_vars => IInv'
<1> SUFFICES ASSUME IInv, [Next]_vars PROVE IInv'
  OBVIOUS
<1>1. CASE UNCHANGED vars
  BY <1>1 DEF IInv, TypeOK, WaitersBusy, OneAtATime, Replied, vars, Busy, Op
<1>2. CASE Made
  BY <1>2, NothingMoves DEF IInv, TypeOK, Made
<1> QED BY <1>1, <1>2, Operations, Proceeded, Cleared, Sent, Answered, FirmwareAnswers,
           TextComes DEF Next, Step

\* The state of the modem and of the serial line stays within its types, whatever
\* number of goroutines use it (cc1200_modem.go).
THEOREM CC1200Types == Spec => []TypeOK
<1>1. IInv => TypeOK
  BY DEF IInv
<1> QED BY InitHolds, StepHolds, <1>1, PTL DEF Spec

\* For any goroutines, an answer is taken by whoever sent its command, for that
\* command, unless a command was begun while another was under way: dropping what
\* is old in the channel is enough against commands that were given up and whose
\* answer has come, and against the firmware's texts, although the receiving
\* goroutine goes on between the drop and the write (commandWithResponse and
\* processReceivedData of cc1200_modem.go).
THEOREM AnswersFindTheirCommand == Spec => MixupNeedsCrossing
<1>1. IInv /\ [Next]_vars =>
        [\A g \in Goroutines :
           Receive(g) /\ cmdSource.op # "text" /\ (cmdSource.to # g \/ cmdSource.op # Op(g)) =>
             worst = "crossed"]_vars
  BY DEF IInv, OneAtATime, Replied, Receive
<1> QED BY InitHolds, StepHolds, <1>1, PTL DEF Spec, MixupNeedsCrossing
-----------------------------------------------------------------------------
(* What the modem believes of the radio, as long as operations keep apart. *)

Calm == txState = "idle" /\ radio # "tx" /\ ~armed
Sending == txState = "active" /\ radio = "tx" /\ armed

\* The order operations come in.
MayFollow(a, b) ==
  /\ a \in {"stopRX", "rxOff"} => b = "startTX"
  /\ a \in {"startTX"} \cup Data => b \in Data \cup {"stopTX"}
  /\ a \in {"stopTX", "txOff"} => b = "start"
  /\ a = "set" => b = "set"
  /\ a \notin {"start", "rxOn"}
Chain(s) == \A i \in 1..Len(s) - 1 : MayFollow(s[i], s[i + 1])
InOrder(s) == Chain(s) /\ s[Len(s)] \in {"set", "start", "rxOn"} \cup Data

\* What holds before an operation, and once its command is answered.
Meets(op, answered) ==
  /\ op \in {"set", "rxOff", "start", "rxOn"} => Calm
  /\ op = "stopRX" \/ (op = "startTX" /\ ~answered) => Calm \/ Sending
  /\ op = "startTX" /\ answered => radio = "tx"
  /\ op \in Data => Sending
  /\ op = "stopTX" \/ (op = "txOff" /\ ~answered) => txState = "active" /\ radio = "tx"
  /\ op = "txOff" /\ answered => radio # "tx"
  /\ op = "rxOn" /\ answered => radio = "rx"

Fine(g) ==
  /\ InOrder(todo[g]) /\ Meets(Op(g), waiting[g] /\ port = <<>>)
  /\ Op(g) = "set" => g = Main /\ main = "new"
  /\ waiting[g] => Op(g) \notin DOMAIN Commands

\* What is in the channel is an answer, and no refusal.
Reassures ==
  cmdSource # Nothing =>
    /\ cmdSource.op # "text"
    /\ cmdSource.result = "ok" \/ (cmdSource.result = "full" /\ cmdSource.op \in Data)

Rests == Sending \/ (Calm /\ (main = "running" => radio = "rx"))

\* One goroutine is busy at most, in order, and finds the modem as it expects it;
\* when none is, the modem rests.
Orderly ==
  /\ \A g, h \in Goroutines : Busy(g) /\ Busy(h) => g = h
  /\ port # <<>> => \E g \in Goroutines : waiting[g]
  /\ Reassures
  /\ \A g \in Goroutines : Busy(g) => Fine(g)
  /\ (\A g \in Goroutines : ~Busy(g)) => Rests

Good == worst = "nothing" /\ main \in {"new", "made", "running"}
QInv == IInv /\ (Good => Orderly)

\* Nothing has happened, then nothing happens now.
LEMMA NothingYet ==
  ASSUME worst \in DOMAIN Severity, NEW to \in {"together", "disturbed", "crossed"},
         NEW happens \in BOOLEAN, Worsen(to, happens), worst' = "nothing"
  PROVE  worst = "nothing" /\ ~happens
BY DEF Worsen, Severity

\* Series in order: the rest of one, and two in a row.
LEMMA RestInOrder ==
  ASSUME NEW s \in Seq(Ops), s # <<>>, InOrder(s)
  PROVE  /\ Tail(s) \in Seq(Ops) /\ s[1] \in Ops /\ Head(s) = s[1]
         /\ Tail(s) # <<>> => InOrder(Tail(s)) /\ MayFollow(Head(s), Head(Tail(s)))
         /\ Tail(s) = <<>> => Head(s) \in {"set", "start", "rxOn"} \cup Data
<1>1. /\ Len(s) \in Nat /\ Len(s) > 0 /\ Head(s) = s[1] /\ s[1] \in Ops
      /\ Tail(s) \in Seq(Ops) /\ Len(Tail(s)) = Len(s) - 1
      /\ \A i \in 1..Len(s) - 1 : Tail(s)[i] = s[i + 1]
  BY HeadTailProperties
<1> DEFINE r == Tail(s)
<1> HIDE DEF r
<1>2. /\ r \in Seq(Ops) /\ Len(r) = Len(s) - 1 /\ \A i \in 1..Len(s) - 1 : r[i] = s[i + 1]
  BY <1>1 DEF r
<1>3. ASSUME r # <<>> PROVE InOrder(r) /\ MayFollow(s[1], Head(r))
  <2>1. Len(s) > 1 /\ Head(r) = r[1]
    BY <1>1, <1>2, <1>3
  <2>2. Head(r) = s[2] /\ r[Len(r)] = s[Len(s)]
    BY <1>1, <1>2, <2>1
  <2>3. MayFollow(s[1], s[2])
    <3>1. MayFollow(s[1], s[1 + 1])
      BY <1>1, <2>1 DEF InOrder, Chain
    <3> QED BY <3>1
  <2>4. Chain(r)
    <3>1. SUFFICES ASSUME NEW i \in 1..Len(r) - 1 PROVE MayFollow(r[i], r[i + 1])
      BY DEF Chain
    <3>2. i + 1 \in 1..Len(s) - 1 /\ i \in 1..Len(s) - 1 /\ r[i] = s[i + 1] /\ r[i + 1] = s[i + 1 + 1]
      BY <1>1, <1>2
    <3>3. MayFollow(s[i + 1], s[i + 1 + 1])
      BY <3>2 DEF InOrder, Chain
    <3> QED BY <3>2, <3>3
  <2> QED BY <2>2, <2>3, <2>4 DEF InOrder
<1>4. ASSUME r = <<>> PROVE s[1] \in {"set", "start", "rxOn"} \cup Data
  <2>1. Len(r) = 0
    BY <1>4
  <2>2. Len(r) = Len(s) - 1 /\ Len(s) \in Nat
    BY <1>1, <1>2
  <2>3. Len(s) = 1
    BY <2>1, <2>2
  <2> QED BY <2>3 DEF InOrder
<1> QED BY <1>1, <1>3, <1>4 DEF r

LEMMA TwoInARow ==
  ASSUME NEW s \in Seq(Ops), NEW t \in Seq(Ops), s # <<>>, t # <<>>,
         Chain(s), Chain(t), MayFollow(s[Len(s)], t[1])
  PROVE  LET u == s \o t
         IN u \in Seq(Ops) /\ u # <<>> /\ Chain(u) /\ u[1] = s[1] /\ u[Len(u)] = t[Len(t)]
<1> DEFINE u == s \o t
<1>1. /\ Len(s) \in Nat /\ Len(s) > 0 /\ Len(t) \in Nat /\ Len(t) > 0
      /\ u \in Seq(Ops) /\ Len(u) = Len(s) + Len(t)
      /\ \A i \in 1..Len(s) : u[i] = s[i]
      /\ \A i \in 1..Len(t) : u[Len(s) + i] = t[i]
  BY ConcatProperties
<1> HIDE DEF u
<1>2. Chain(u)
  <2>1. SUFFICES ASSUME NEW i \in 1..Len(u) - 1 PROVE MayFollow(u[i], u[i + 1])
    BY DEF Chain
  <2>2. CASE i < Len(s)
    <3>1. i \in 1..Len(s) - 1 /\ u[i] = s[i] /\ u[i + 1] = s[i + 1]
      BY <1>1, <2>2
    <3> QED BY <3>1 DEF Chain
  <2>3. CASE i = Len(s)
    <3>1. u[i] = s[Len(s)] /\ u[i + 1] = t[1]
      BY <1>1, <2>3
    <3> QED BY <3>1
  <2>4. CASE i > Len(s)
    <3>1. /\ i - Len(s) \in 1..Len(t) - 1 /\ i - Len(s) + 1 \in 1..Len(t)
          /\ i = Len(s) + (i - Len(s)) /\ i + 1 = Len(s) + (i - Len(s) + 1)
      BY <1>1, <2>4
    <3>2. u[i] = t[i - Len(s)]
      <4>1. i - Len(s) \in 1..Len(t)
        BY <1>1, <3>1
      <4>2. u[Len(s) + (i - Len(s))] = t[i - Len(s)]
        BY <1>1, <4>1
      <4> QED BY <3>1, <4>2
    <3>4. u[i + 1] = t[i - Len(s) + 1]
      <4>2. u[Len(s) + (i - Len(s) + 1)] = t[i - Len(s) + 1]
        BY <1>1, <3>1
      <4> QED BY <3>1, <4>2
    <3>3. MayFollow(t[i - Len(s)], t[i - Len(s) + 1])
      BY <3>1 DEF Chain
    <3> QED BY <3>2, <3>3, <3>4
  <2> QED BY <1>1, <2>2, <2>3, <2>4
<1>3. u # <<>> /\ u[1] = s[1] /\ u[Len(u)] = t[Len(t)]
  BY <1>1
<1> QED BY <1>1, <1>2, <1>3 DEF u

\* What operations begin with, and that they are in order.
LEMMA SeriesInOrder ==
  /\ SetUp # <<>> => InOrder(SetUp) /\ Head(SetUp) = "set"
  /\ LET s == StartUp \o [i \in 1..Chunks |-> "chunk"] \o Finish
     IN s # <<>> /\ InOrder(s) /\ Head(s) = "stopRX"
  /\ \A b \in BOOLEAN : \A end \in {<<>>, Finish} :
       LET s == (IF b THEN <<>> ELSE StartUp) \o <<"frame">> \o end
       IN s # <<>> /\ InOrder(s) /\ Head(s) = (IF b THEN "frame" ELSE "stopRX")
  /\ InOrder(<<"stopTX", "start">>) /\ InOrder(<<"start">>)
<1> DEFINE chunks == [i \in 1..Chunks |-> "chunk"]
           frame == <<"frame">>
<1>1. /\ StartUp \in Seq(Ops) /\ StartUp # <<>> /\ Len(StartUp) = 3
      /\ StartUp[1] = "stopRX" /\ StartUp[2] = "startTX" /\ StartUp[3] = "lsf"
      /\ Finish \in Seq(Ops) /\ Finish # <<>> /\ Len(Finish) = 3
      /\ Finish[1] = "eot" /\ Finish[2] = "stopTX" /\ Finish[3] = "start"
      /\ frame \in Seq(Ops) /\ frame # <<>> /\ Len(frame) = 1 /\ frame[1] = "frame"
  BY DEF StartUp, Finish, Ops, Data
<1>2. /\ chunks \in Seq(Ops) /\ Len(chunks) = Chunks /\ chunks # <<>> /\ Chunks \in Nat /\ Chunks > 0
      /\ \A i \in 1..Chunks : chunks[i] = "chunk"
  <2>1. chunks \in Seq(Ops) /\ Len(chunks) = Chunks /\ Chunks \in Nat /\ Chunks > 0
    BY CC1200Assumption, IsASeq DEF Ops, Data
  <2> QED BY <2>1
<1>3. Chain(StartUp) /\ Chain(Finish) /\ Chain(frame)
  BY <1>1 DEF Chain, MayFollow, Data
<1> HIDE DEF chunks, frame
<1>4. Chain(chunks)
  BY <1>2 DEF Chain, MayFollow, Data
<1>5. /\ MayFollow("lsf", "chunk") /\ MayFollow("lsf", "frame")
      /\ MayFollow("chunk", "eot") /\ MayFollow("frame", "eot")
  BY DEF MayFollow, Data
<1>6. LET s == StartUp \o chunks \o Finish
      IN s # <<>> /\ InOrder(s) /\ Head(s) = "stopRX"
  <2> DEFINE u == StartUp \o chunks
             s == u \o Finish
  <2>1. u \in Seq(Ops) /\ u # <<>> /\ Chain(u) /\ u[1] = "stopRX" /\ u[Len(u)] = "chunk"
    <3>1. MayFollow(StartUp[Len(StartUp)], chunks[1])
      BY <1>1, <1>2, <1>5
    <3>2. u \in Seq(Ops) /\ u # <<>> /\ Chain(u) /\ u[1] = StartUp[1] /\ u[Len(u)] = chunks[Len(chunks)]
      BY <1>1, <1>2, <1>3, <1>4, <3>1, TwoInARow
    <3> QED BY <1>1, <1>2, <3>2
  <2> HIDE DEF u
  <2>2. s \in Seq(Ops) /\ s # <<>> /\ Chain(s) /\ s[1] = "stopRX" /\ s[Len(s)] = "start"
    <3>1. MayFollow(u[Len(u)], Finish[1])
      BY <1>1, <1>5, <2>1
    <3>2. s \in Seq(Ops) /\ s # <<>> /\ Chain(s) /\ s[1] = u[1] /\ s[Len(s)] = Finish[Len(Finish)]
      BY <1>1, <1>3, <2>1, <3>1, TwoInARow
    <3> QED BY <1>1, <2>1, <3>2
  <2> HIDE DEF s
  <2>3. s # <<>> /\ InOrder(s) /\ Head(s) = "stopRX"
    BY <2>2 DEF InOrder
  <2> QED BY <2>3 DEF s, u
<1>7. ASSUME NEW b \in BOOLEAN, NEW end \in {<<>>, Finish}
      PROVE  LET s == (IF b THEN <<>> ELSE StartUp) \o frame \o end
             IN s # <<>> /\ InOrder(s) /\ Head(s) = (IF b THEN "frame" ELSE "stopRX")
  <2> DEFINE u == (IF b THEN <<>> ELSE StartUp) \o frame
             s == u \o end
  <2>1. /\ u \in Seq(Ops) /\ u # <<>> /\ Chain(u) /\ u[Len(u)] = "frame"
        /\ u[1] = (IF b THEN "frame" ELSE "stopRX")
    <3>1. CASE b
      <4>1. u = frame
        BY <1>1, <3>1
      <4> QED BY <1>1, <1>3, <3>1, <4>1
    <3>2. CASE ~b
      <4>1. u = StartUp \o frame
        BY <3>2
      <4>2. MayFollow(StartUp[Len(StartUp)], frame[1])
        BY <1>1, <1>5
      <4>3. LET v == StartUp \o frame
            IN v \in Seq(Ops) /\ v # <<>> /\ Chain(v) /\ v[1] = StartUp[1] /\ v[Len(v)] = frame[Len(frame)]
        BY <1>1, <1>3, <4>2, TwoInARow
      <4> QED BY <1>1, <3>2, <4>1, <4>3
    <3> QED BY <3>1, <3>2
  <2> HIDE DEF u
  <2>2. s \in Seq(Ops) /\ s # <<>> /\ Chain(s) /\ s[1] = u[1] /\ s[Len(s)] \in {"frame", "start"}
    <3>1. CASE end = <<>>
      <4>1. s = u
        BY <2>1, <3>1
      <4> QED BY <2>1, <4>1
    <3>2. CASE end = Finish
      <4>1. MayFollow(u[Len(u)], Finish[1])
        BY <1>1, <1>5, <2>1
      <4>2. s = u \o Finish
        BY <3>2
      <4>3. LET v == u \o Finish
            IN v \in Seq(Ops) /\ v # <<>> /\ Chain(v) /\ v[1] = u[1] /\ v[Len(v)] = Finish[Len(Finish)]
        BY <1>1, <1>3, <2>1, <4>1, TwoInARow
      <4> QED BY <1>1, <4>2, <4>3
    <3> QED BY <3>1, <3>2
  <2> HIDE DEF s
  <2>3. s # <<>> /\ InOrder(s) /\ Head(s) = u[1]
    BY <2>2 DEF InOrder, Data
  <2> QED BY <2>1, <2>3 DEF s, u
<1>8. InOrder(<<"stopTX", "start">>) /\ InOrder(<<"start">>)
  BY DEF InOrder, Chain, MayFollow, Data
<1>9. SetUp # <<>> => InOrder(SetUp) /\ Head(SetUp) = "set"
  <2>1. SetUp \in Seq(Ops) /\ Len(SetUp) = Settings /\ Settings \in Nat
        /\ \A i \in 1..Settings : SetUp[i] = "set"
    BY CC1200Assumption, OperationsType DEF SetUp
  <2>2. ASSUME SetUp # <<>> PROVE Settings > 0
    BY <2>1, <2>2
  <2> QED BY <2>1, <2>2 DEF InOrder, Chain, MayFollow, Data
<1> QED BY <1>6, <1>7, <1>8, <1>9 DEF chunks, frame

\* An operation that comes to a command after all.
LEMMA CommandInOrder ==
  ASSUME NEW s \in Seq(Ops), s # <<>>, InOrder(s), Head(s) \in DOMAIN Commands
  PROVE  LET u == <<Commands[Head(s)]>> \o Tail(s)
         IN u # <<>> /\ InOrder(u) /\ Head(u) = Commands[Head(s)]
<1> DEFINE c == Commands[Head(s)]
           one == <<c>>
           r == Tail(s)
           u == one \o r
<1>1. /\ r \in Seq(Ops) /\ Head(s) \in {"stopRX", "stopTX", "start"}
      /\ r # <<>> => InOrder(r) /\ MayFollow(Head(s), Head(r))
      /\ r = <<>> => Head(s) = "start"
  BY RestInOrder DEF Commands, Data
<1>2. /\ Head(s) = "stopRX" => c = "rxOff"
      /\ Head(s) = "stopTX" => c = "txOff"
      /\ Head(s) = "start" => c = "rxOn"
  BY DEF Commands
<1> HIDE DEF c
<1>3. c \in Ops /\ (r # <<>> => MayFollow(c, Head(r))) /\ (r = <<>> => c = "rxOn")
  BY <1>1, <1>2 DEF MayFollow, Ops, Data
<1>4. one \in Seq(Ops) /\ one # <<>> /\ Len(one) = 1 /\ one[1] = c /\ Chain(one)
  BY <1>3 DEF Chain
<1> HIDE DEF one, r
<1>5. CASE r = <<>>
  <2>1. u = one
    BY <1>4, <1>5
  <2>2. Head(one) = one[1]
    BY <1>4
  <2>3. one # <<>> /\ InOrder(one) /\ Head(one) = c
    BY <1>3, <1>4, <1>5, <2>2 DEF InOrder
  <2> HIDE DEF u
  <2>4. u # <<>> /\ InOrder(u) /\ Head(u) = c
    BY <2>1, <2>3
  <2> QED BY <2>4 DEF u, one, r, c
<1>6. CASE r # <<>>
  <2>1. Head(r) = r[1] /\ Chain(r)
    BY <1>1, <1>6 DEF InOrder
  <2>2. MayFollow(one[Len(one)], r[1])
    BY <1>3, <1>4, <1>6, <2>1
  <2>3. u \in Seq(Ops) /\ u # <<>> /\ Chain(u) /\ u[1] = one[1] /\ u[Len(u)] = r[Len(r)]
    BY <1>1, <1>4, <1>6, <2>1, <2>2, TwoInARow
  <2> HIDE DEF u
  <2>4. u # <<>> /\ InOrder(u) /\ Head(u) = c
    BY <1>1, <1>4, <1>6, <2>3 DEF InOrder
  <2> QED BY <2>4 DEF u, one, r, c
<1> QED BY <1>5, <1>6

\* A goroutine begins a series, unless others are at work.
LEMMA BeginsOrderly ==
  ASSUME QInv, Good', NEW g \in Goroutines, NEW ops \in Seq(Ops), ops # <<>>, InOrder(ops),
         Head(ops) \notin {"set"}, Begin(g, ops),
         Rests /\ ~(g = Main /\ txState = "active") => Meets(Head(ops), FALSE)'
  PROVE  Orderly'
<1> DEFINE happens == (g = Main /\ txState = "active") \/ \E h \in Goroutines \ {g} : Busy(h)
<1>1. worst = "nothing" /\ ~happens
  <2>1. worst \in DOMAIN Severity /\ worst' = "nothing" /\ Worsen("together", happens)
    BY DEF QInv, IInv, TypeOK, Good, Begin
  <2>2. happens \in BOOLEAN
    OBVIOUS
  <2> HIDE DEF happens
  <2> QED BY <2>1, <2>2, NothingYet
<1>2. Orderly /\ ~Busy(g)
  BY <1>1 DEF QInv, Good, Begin
<1>3. \A h \in Goroutines : ~Busy(h) /\ ~waiting[h]
  BY <1>1, <1>2 DEF QInv, IInv, WaitersBusy
<1>4. Rests /\ port = <<>>
  BY <1>2, <1>3 DEF Orderly
<1>5. /\ todo'[g] = ops /\ \A h \in Goroutines \ {g} : todo'[h] = todo[h]
      /\ UNCHANGED <<waiting, cmdSource, port>>
  BY DEF QInv, IInv, TypeOK, Begin
<1>6. Busy(g)' /\ \A h \in Goroutines : Busy(h)' => h = g
  BY <1>3, <1>5 DEF Busy
<1>7. Meets(Head(ops), FALSE)'
  BY <1>1, <1>4
<1>8. Fine(g)'
  <2>1. Op(g)' = Head(ops) /\ (waiting[g] /\ port = <<>>)' = FALSE /\ ~waiting'[g]
    BY <1>3, <1>5 DEF Op
  <2>2. Meets(Op(g), waiting[g] /\ port = <<>>)'
    BY <1>7, <2>1
  <2> QED BY <1>5, <2>1, <2>2 DEF Fine
<1> QED BY <1>2, <1>4, <1>5, <1>6, <1>8 DEF Orderly, Reassures

LEMMA OperationsOrderly ==
  ASSUME QInv, Good',
         \/ Start \/ Close \/ TxTimeout
         \/ \E g \in Callers : TransmitPacket(g) \/ TransmitVoiceStream(g)
  PROVE  Orderly'
<1>1. CASE Start
  <2>1. <<"start">> \in Seq(Ops) /\ <<"start">> # <<>> /\ Head(<<"start">>) = "start"
        /\ InOrder(<<"start">>)
    BY SeriesInOrder, OperationsType
  <2>2. Begin(Main, <<"start">>) /\ UNCHANGED <<txState, radio, armed>> /\ Main \in Goroutines
    BY <1>1 DEF Start, Begin, Goroutines
  <2>3. Rests /\ ~(Main = Main /\ txState = "active") => Meets("start", FALSE)'
    BY <2>2 DEF Rests, Meets, Calm, Sending, Data
  <2> QED BY <2>1, <2>2, <2>3, BeginsOrderly
<1>2. CASE Close
  BY <1>2 DEF Close, Good
<1>3. CASE TxTimeout
  <2> DEFINE ops == <<"stopTX", "start">>
  <2>1. ops \in Seq(Ops) /\ ops # <<>> /\ Head(ops) = "stopTX" /\ InOrder(ops)
    BY SeriesInOrder, OperationsType
  <2>2. Begin(Timer, ops) /\ armed /\ UNCHANGED <<txState, radio>> /\ Timer \in Goroutines
    BY <1>3 DEF TxTimeout, Begin, Goroutines
  <2>3. Rests => Meets("stopTX", FALSE)'
    BY <2>2 DEF Rests, Meets, Calm, Sending, Data
  <2> HIDE DEF ops
  <2> QED BY <2>1, <2>2, <2>3, BeginsOrderly
<1>4. ASSUME NEW g \in Callers, TransmitPacket(g) PROVE Orderly'
  <2> DEFINE ops == StartUp \o [i \in 1..Chunks |-> "chunk"] \o Finish
  <2>1. ops \in Seq(Ops) /\ ops # <<>> /\ Head(ops) = "stopRX" /\ InOrder(ops)
    BY SeriesInOrder, OperationsType
  <2>2. Begin(g, ops) /\ UNCHANGED <<txState, radio, armed>> /\ g \in Goroutines
    BY <1>4 DEF TransmitPacket, Begin, Goroutines
  <2>3. Rests => Meets("stopRX", FALSE)'
    BY <2>2 DEF Rests, Meets, Calm, Sending, Data
  <2> HIDE DEF ops
  <2> QED BY <2>1, <2>2, <2>3, BeginsOrderly
<1>5. ASSUME NEW g \in Callers, TransmitVoiceStream(g) PROVE Orderly'
  <2> DEFINE b == (txState = "active")
             ops(end) == (IF b THEN <<>> ELSE StartUp) \o <<"frame">> \o end
  <2>1. PICK end \in {<<>>, Finish} : Begin(g, ops(end))
    BY <1>5 DEF TransmitVoiceStream
  <2>2. ops(end) \in Seq(Ops) /\ ops(end) # <<>> /\ InOrder(ops(end))
        /\ Head(ops(end)) = (IF b THEN "frame" ELSE "stopRX")
    <3>1. b \in BOOLEAN
      OBVIOUS
    <3> HIDE DEF b
    <3> QED BY <3>1, SeriesInOrder, OperationsType
  <2> HIDE DEF ops
  <2>3. PICK s \in Seq(Ops) : s = ops(end)
    BY <2>2
  <2>4. /\ s # <<>> /\ InOrder(s) /\ Begin(g, s) /\ Head(s) = (IF b THEN "frame" ELSE "stopRX")
    BY <2>1, <2>2, <2>3
  <2>5. UNCHANGED <<txState, radio, armed>> /\ g \in Goroutines
    BY <1>5, <2>4 DEF TransmitVoiceStream, Begin, Goroutines
  <2>6. Rests => Meets(Head(s), FALSE)'
    <3>1. CASE b
      <4>1. Head(s) = "frame"
        BY <2>4, <3>1
      <4> QED BY <2>5, <3>1, <4>1 DEF Rests, Meets, Calm, Sending, Data
    <3>2. CASE ~b
      <4>1. Head(s) = "stopRX"
        BY <2>4, <3>2
      <4> QED BY <2>5, <3>2, <4>1 DEF Rests, Meets, Calm, Sending, Data
    <3> QED BY <3>1, <3>2
  <2>7. Head(s) # "set"
    BY <2>4
  <2> QED BY <2>3, <2>4, <2>5, <2>6, <2>7, BeginsOrderly
<1> QED BY <1>1, <1>2, <1>3, <1>4, <1>5

\* One goroutine moves, is fine afterwards or has nothing left to do.
LEMMA Moved ==
  ASSUME QInv, Orderly, NEW g \in Goroutines, Busy(g),
         \A h \in Goroutines \ {g} : todo'[h] = todo[h],
         port' # <<>> => waiting'[g],
         Reassures',
         Busy(g)' => Fine(g)', ~Busy(g)' => Rests'
  PROVE  Orderly'
<1>1. \A h \in Goroutines \ {g} : ~Busy(h)
  BY DEF Orderly
<1>2. \A h \in Goroutines \ {g} : ~Busy(h)'
  BY <1>1 DEF Busy
<1> QED BY <1>2 DEF Orderly

LEMMA OthersRest ==
  ASSUME QInv, Orderly, NEW g \in Goroutines, Busy(g)
  PROVE  /\ \A h \in Goroutines \ {g} : ~Busy(h) /\ ~waiting[h]
         /\ Fine(g) /\ todo[g] \in Seq(Ops) /\ todo[g] # <<>>
         /\ ~waiting[g] => port = <<>>
<1>1. \A h \in Goroutines \ {g} : ~Busy(h) /\ ~waiting[h]
  BY DEF QInv, IInv, WaitersBusy, Orderly
<1>2. Fine(g) /\ todo[g] \in Seq(Ops) /\ todo[g] # <<>>
  BY DEF QInv, IInv, TypeOK, Orderly, Busy
<1>3. ~waiting[g] => port = <<>>
  BY <1>1 DEF Orderly
<1> QED BY <1>1, <1>2, <1>3

LEMMA ProceedOrderly ==
  ASSUME QInv, Good', NEW g \in Goroutines, Proceed(g)
  PROVE  Orderly'
<1> DEFINE s == todo[g]
           c == Commands[Head(s)]
<1>1. Orderly /\ Busy(g) /\ ~waiting[g]
  BY DEF QInv, Good, Proceed
<1>2. /\ Fine(g) /\ s \in Seq(Ops) /\ s # <<>> /\ port = <<>>
  BY <1>1, OthersRest
<1>3. /\ Head(s) \in {"stopRX", "stopTX", "start"} /\ InOrder(s) /\ Meets(Head(s), FALSE)
  BY <1>1, <1>2 DEF Fine, Proceed, Op, Commands
<1>4. /\ todo'[g] = IF NothingToStop(g) THEN Tail(s) ELSE <<c>> \o Tail(s)
      /\ \A h \in Goroutines \ {g} : todo'[h] = todo[h]
  BY DEF QInv, IInv, TypeOK, Proceed, Done, Op
<1>5. /\ UNCHANGED <<waiting, cmdSource, port, radio, main>>
      /\ txState' = IF Head(s) = "start" THEN "idle" ELSE txState
      /\ armed' = (armed /\ ~(Head(s) = "stopTX" /\ NothingToStop(g)))
  BY DEF Proceed, Op
<1>6. Reassures'
  BY <1>1, <1>5 DEF Orderly, Reassures
<1>. PICK n : n = todo'[g]
  OBVIOUS
<1>7. n # <<>> /\ InOrder(n) /\ Head(n) # "set" /\ Meets(Head(n), FALSE)'
  <2>1. CASE NothingToStop(g)
    <3>1. Head(s) = "stopRX" /\ Sending
      BY <1>3, <2>1 DEF NothingToStop, Meets, Calm, Op
    <3>2. Tail(s) # <<>> /\ InOrder(Tail(s)) /\ Head(Tail(s)) = "startTX"
      BY <1>2, <1>3, <3>1, RestInOrder DEF MayFollow, Data
    <3>3. n = Tail(s) /\ Sending'
      BY <1>4, <1>5, <2>1, <3>1 DEF Sending
    <3>4. Meets("startTX", FALSE)'
      BY <3>3 DEF Meets, Data
    <3> QED BY <3>2, <3>3, <3>4
  <2>2. CASE ~NothingToStop(g)
    <3>. PICK k : k = c
      OBVIOUS
    <3>1. /\ <<k>> \o Tail(s) # <<>> /\ InOrder(<<k>> \o Tail(s)) /\ Head(<<k>> \o Tail(s)) = k
      BY <1>2, <1>3, CommandInOrder DEF Commands
    <3>2. n = <<k>> \o Tail(s)
      BY <1>4, <2>2
    <3>3. k \in {"rxOff", "txOff", "rxOn"} /\ Meets(k, FALSE)'
      <4>1. armed' = armed
        BY <1>5, <2>2 DEF QInv, IInv, TypeOK
      <4>2. CASE Head(s) = "stopRX"
        <5>1. Calm /\ k = "rxOff"
          BY <1>3, <2>2, <4>2 DEF Meets, Sending, NothingToStop, Op, Commands
        <5>2. Calm'
          BY <1>5, <4>1, <4>2, <5>1 DEF Calm
        <5> QED BY <5>1, <5>2 DEF Meets, Data
      <4>3. CASE Head(s) = "stopTX"
        <5>1. txState = "active" /\ radio = "tx" /\ k = "txOff"
          BY <1>3, <4>3 DEF Meets, Commands
        <5> QED BY <1>5, <4>3, <5>1 DEF Meets, Data
      <4>4. CASE Head(s) = "start"
        <5>1. Calm /\ k = "rxOn"
          BY <1>3, <4>4 DEF Meets, Commands
        <5>2. Calm'
          BY <1>5, <4>1, <4>4, <5>1 DEF Calm
        <5> QED BY <5>1, <5>2 DEF Meets, Data
      <4> QED BY <1>3, <4>2, <4>3, <4>4
    <3> QED BY <3>1, <3>2, <3>3
  <2> QED BY <2>1, <2>2
<1>8. Busy(g)' /\ Fine(g)'
  <2>1. ~waiting'[g] /\ (waiting[g] /\ port = <<>>)' = FALSE
    BY <1>1, <1>5
  <2> QED BY <1>7, <2>1 DEF Busy, Fine, Op
<1>9. port' = <<>>
  BY <1>2, <1>5
<1> QED BY <1>1, <1>4, <1>6, <1>8, <1>9, Moved

\* Old answers are dropped: none is under way that the command would cross.
LEMMA ClearOrderly ==
  ASSUME QInv, Good', NEW g \in Goroutines, Clear(g)
  PROVE  Orderly'
<1>1. worst = "nothing" /\ ~UnderWay
  <2>1. worst \in DOMAIN Severity /\ worst' = "nothing" /\ Worsen("crossed", UnderWay)
    BY DEF QInv, IInv, TypeOK, Good, Clear
  <2>2. UnderWay \in BOOLEAN
    BY DEF UnderWay
  <2> QED BY <2>1, <2>2, NothingYet
<1>2. Orderly /\ Busy(g)
  BY <1>1 DEF QInv, Good, Clear
<1>3. Fine(g)
  BY <1>2, OthersRest
<1>4. /\ port = <<>> /\ cmdSource' = Nothing
      /\ UNCHANGED <<txState, armed, todo, waiting, port, radio, main>>
  BY <1>1 DEF UnderWay, Clear, DropOldAnswer
<1>5. Busy(g)' /\ Op(g)' = Op(g) /\ todo'[g] = todo[g]
  BY <1>2, <1>4 DEF Busy, Op
<1>6. Meets(Op(g), waiting[g] /\ port = <<>>)'
  BY <1>3, <1>4, <1>5 DEF Fine, Meets, Calm, Sending
<1>7. Fine(g)'
  BY <1>3, <1>4, <1>5, <1>6 DEF Fine
<1> QED BY <1>2, <1>4, <1>5, <1>7, Moved DEF Reassures

\* A command is written: none is under way.
LEMMA SendOrderly ==
  ASSUME QInv, Good', NEW g \in Goroutines, Send(g)
  PROVE  Orderly'
<1>1. Orderly /\ OneAtATime /\ cleared[g]
  BY DEF QInv, IInv, Good, Send
<1>2. /\ Busy(g) /\ ~waiting[g] /\ Op(g) \notin DOMAIN Commands
  BY <1>1 DEF QInv, IInv, WaitersBusy
<1>3. Fine(g)
  BY <1>1, <1>2, OthersRest
<1>4. /\ waiting'[g] /\ port' # <<>>
      /\ UNCHANGED <<txState, armed, todo, cmdSource, radio, main>>
  <2>1. waiting'[g] /\ port \in Seq(Written)
    BY DEF QInv, IInv, TypeOK, Send, Written
  <2>2. [to |-> g, op |-> Op(g)] \in Written
    BY <1>2, HeadTailProperties DEF QInv, IInv, TypeOK, Busy, Op, Written
  <2>3. port' # <<>>
    BY <2>1, <2>2, AppendProperties DEF Send
  <2> QED BY <2>1, <2>3 DEF Send
<1>5. Busy(g)' /\ Op(g)' = Op(g) /\ todo'[g] = todo[g]
  BY <1>2, <1>4 DEF Busy, Op
<1>6. Meets(Op(g), waiting[g] /\ port = <<>>)'
  <2>1. (waiting[g] /\ port = <<>>)' = FALSE /\ (waiting[g] /\ port = <<>>) = FALSE
    BY <1>2, <1>4
  <2>2. Meets(Op(g), FALSE)
    BY <1>3, <2>1 DEF Fine
  <2>3. Meets(Op(g), FALSE)'
    BY <1>4, <1>5, <2>2 DEF Meets, Calm, Sending
  <2> QED BY <2>1, <2>3
<1>7. Fine(g)'
  BY <1>2, <1>3, <1>4, <1>5, <1>6 DEF Fine
<1>8. Reassures'
  BY <1>1, <1>4 DEF Orderly, Reassures
<1> QED BY <1>1, <1>2, <1>4, <1>5, <1>7, <1>8, Moved

\* An answer is taken: the operation is done, or the firmware's buffer is full.
LEMMA ReceiveOrderly ==
  ASSUME QInv, Good', NEW g \in Goroutines, Receive(g)
  PROVE  Orderly'
<1> DEFINE s == todo[g]
           result == cmdSource.result
<1>1. /\ waiting[g] /\ cmdSource # Nothing /\ cmdSource' = Nothing
      /\ Finished(g, result) /\ UNCHANGED <<port, radio, worst>>
  BY DEF Receive
<1>2. main' = main /\ Good
  BY <1>1 DEF Good, Finished
<1>3. Orderly /\ Busy(g) /\ OneAtATime
  BY <1>1, <1>2 DEF QInv, IInv, WaitersBusy, Good
<1>4. /\ Fine(g) /\ s \in Seq(Ops) /\ s # <<>>
      /\ \A h \in Goroutines \ {g} : ~Busy(h) /\ ~waiting[h]
  BY <1>3, OthersRest
<1>5. port = <<>> /\ cmdSource.op = Op(g)
  BY <1>1, <1>3 DEF OneAtATime, Orderly, Reassures, Replied
<1>6. result = "ok" \/ (result = "full" /\ Op(g) \in Data)
  BY <1>1, <1>3, <1>5 DEF Orderly, Reassures
<1>7. /\ InOrder(s) /\ Meets(Op(g), TRUE) /\ Op(g) \notin {"stopRX", "stopTX", "start"}
      /\ Op(g) = "set" => g = Main /\ main = "new"
  <2>1. (waiting[g] /\ port = <<>>) = TRUE
    BY <1>1, <1>5
  <2> QED BY <1>1, <1>4, <2>1 DEF Fine, Commands
<1> HIDE DEF result
<1>8. /\ ~waiting'[g] /\ port' = <<>>
      /\ armed' = (Op(g) # "txOff" /\ (armed \/ (Op(g) = "startTX" /\ result = "ok")
                                              \/ (Op(g) \in Data /\ result # "none")))
      /\ txState' = CASE Op(g) = "startTX" /\ result = "ok" -> "active"
                      [] Op(g) = "txOff" -> "idle"
                      [] OTHER -> txState
      /\ \A h \in Goroutines \ {g} : todo'[h] = todo[h]
  <2>1. ~waiting'[g] /\ port' = <<>>
    BY <1>1, <1>5 DEF QInv, IInv, TypeOK, Finished
  <2>2. \A h \in Goroutines \ {g} : todo'[h] = todo[h]
    BY <1>1 DEF QInv, IInv, TypeOK, Finished, Done
  <2> QED BY <1>1, <2>1, <2>2 DEF Finished, SetTimer
<1>9. (waiting[g] /\ port = <<>>)' = FALSE
  BY <1>8
<1>10. Op(g) \in Data => Sending /\ Sending'
  <2>1. ASSUME Op(g) \in Data PROVE Sending
    BY <1>7, <2>1 DEF Meets
  <2>2. ASSUME Op(g) \in Data PROVE txState' = txState /\ armed'
    BY <1>6, <1>8, <2>2, <2>1 DEF Data, Sending
  <2> QED BY <1>1, <2>1, <2>2 DEF Sending
<1>11. CASE result = "full"
  <2>1. todo' = todo /\ Op(g) \in Data
    BY <1>1, <1>6, <1>11 DEF Finished
  <2>2. Op(g)' = Op(g) /\ Busy(g)' /\ todo'[g] = todo[g]
    BY <1>3, <2>1 DEF Op, Busy
  <2>3. Meets(Op(g), FALSE)'
    BY <1>10, <2>1, <2>2 DEF Meets, Data
  <2>4. Fine(g)'
    BY <1>7, <1>8, <1>9, <2>1, <2>2, <2>3, <1>2 DEF Fine
  <2> QED BY <1>1, <1>3, <1>8, <2>2, <2>4, Moved DEF Reassures
<1>12. CASE result = "ok"
  <2>. PICK r : r = Tail(s)
    OBVIOUS
  <2>1. todo'[g] = r
    BY <1>1, <1>12 DEF QInv, IInv, TypeOK, Finished, Done
  <2>2. /\ Op(g) \in Ops
        /\ r # <<>> => InOrder(r) /\ MayFollow(Op(g), Head(r))
        /\ r = <<>> => Op(g) \in {"set", "start", "rxOn"} \cup Data
    BY <1>4, <1>7, RestInOrder DEF Op
  <2>3. CASE Op(g) = "set"
    <3>1. Calm' /\ main' = "new" /\ g = Main
      BY <1>1, <1>2, <1>7, <1>8, <2>3 DEF Meets, Calm, Data
    <3>2. r # <<>> => Head(r) = "set" /\ Meets("set", FALSE)'
      BY <2>2, <2>3, <3>1 DEF MayFollow, Meets, Data
    <3>3. Busy(g)' => Fine(g)'
      BY <1>8, <1>9, <2>1, <2>2, <3>1, <3>2 DEF Busy, Fine, Op, Commands
    <3>4. Rests'
      BY <3>1 DEF Rests
    <3> QED BY <1>1, <1>3, <1>8, <3>3, <3>4, Moved DEF Reassures
  <2>4. CASE Op(g) = "rxOn"
    <3>1. Calm' /\ radio' = "rx"
      BY <1>1, <1>7, <1>8, <2>4 DEF Meets, Calm, Data
    <3>2. ~Busy(g)' /\ Rests'
      BY <2>1, <2>2, <2>4, <3>1 DEF MayFollow, Busy, Rests
    <3> QED BY <1>1, <1>3, <1>8, <3>2, Moved DEF Reassures
  <2>5. CASE Op(g) \in {"rxOff", "startTX", "txOff"} \cup Data
    <3>1. /\ Op(g) = "rxOff" => Calm'
          /\ Op(g) = "startTX" => Sending'
          /\ Op(g) = "txOff" => Calm'
      <4>1. Op(g) = "rxOff" => Calm'
        BY <1>1, <1>7, <1>8 DEF Meets, Calm, Data
      <4>2. Op(g) = "startTX" => Sending'
        BY <1>1, <1>7, <1>8, <1>12 DEF Meets, Sending
      <4>3. Op(g) = "txOff" => Calm'
        BY <1>1, <1>7, <1>8, <1>12 DEF Meets, Calm
      <4> QED BY <4>1, <4>2, <4>3
    <3>2. Busy(g)' => Fine(g)'
      <4>1. SUFFICES ASSUME r # <<>> PROVE Fine(g)'
        BY <2>1 DEF Busy
      <4>2. Op(g)' = Head(r) /\ InOrder(todo'[g]) /\ MayFollow(Op(g), Head(r))
        BY <2>1, <2>2, <4>1 DEF Op
      <4>3. /\ Op(g) = "rxOff" => Head(r) = "startTX"
            /\ Op(g) \in {"startTX"} \cup Data => Head(r) \in Data \cup {"stopTX"}
            /\ Op(g) = "txOff" => Head(r) = "start"
        BY <4>2 DEF MayFollow
      <4>4. Head(r) # "set" /\ Meets(Head(r), FALSE)'
        <5>1. CASE Op(g) = "rxOff"
          BY <3>1, <4>3, <5>1 DEF Meets, Data
        <5>2. CASE Op(g) \in {"startTX"} \cup Data
          <6>1. Sending'
            BY <1>10, <3>1, <5>2
          <6> QED BY <4>3, <5>2, <6>1 DEF Meets, Data, Sending
        <5>3. CASE Op(g) = "txOff"
          BY <3>1, <4>3, <5>3 DEF Meets, Data
        <5> QED BY <2>5, <5>1, <5>2, <5>3
      <4> QED BY <1>8, <1>9, <4>2, <4>4 DEF Fine
    <3>3. ~Busy(g)' => Rests'
      <4>1. SUFFICES ASSUME r = <<>> PROVE Rests'
        BY <2>1 DEF Busy
      <4>2. Op(g) \in Data
        BY <2>2, <2>5, <4>1
      <4> QED BY <1>10, <4>2 DEF Rests
    <3> QED BY <1>1, <1>3, <1>8, <3>2, <3>3, Moved DEF Reassures
  <2> QED BY <1>7, <2>2, <2>3, <2>4, <2>5 DEF Ops
<1> QED BY <1>6, <1>11, <1>12

\* The firmware does what the one command under way says, and says so.
LEMMA AnswerOrderly ==
  ASSUME QInv, Good', Answer
  PROVE  Orderly'
<1> DEFINE c == Head(port)
<1>1. PICK result \in {"ok", "full", "error"} :
        /\ result = "full" => c.op \in Data
        /\ radio' = IF result = "ok" THEN After(c.op) ELSE radio
        /\ Worsen("disturbed", result = "error")
        /\ cmdSource' = IF cmdSource = Nothing
                        THEN [to |-> c.to, op |-> c.op, result |-> result]
                        ELSE cmdSource
  BY DEF Answer
<1>2. worst = "nothing" /\ result # "error"
  <2>1. worst \in DOMAIN Severity /\ worst' = "nothing" /\ (result = "error") \in BOOLEAN
    BY DEF QInv, IInv, TypeOK, Good
  <2> QED BY <1>1, <2>1, NothingYet
<1>3. /\ Orderly /\ OneAtATime /\ port # <<>> /\ port' = Tail(port)
      /\ UNCHANGED <<txState, armed, todo, waiting, main>>
  BY <1>2 DEF QInv, IInv, Good, Answer
<1>4. PICK g \in Goroutines : waiting[g]
  BY <1>3 DEF Orderly
<1>5. cmdSource = Nothing /\ c.op = Op(g) /\ port' = <<>>
  BY <1>3, <1>4 DEF OneAtATime, Orderly, Reassures, Replied, QInv, IInv, TypeOK
<1>6. Busy(g)
  BY <1>4 DEF QInv, IInv, WaitersBusy
<1>7. Fine(g)
  BY <1>3, <1>6, OthersRest
<1>8. InOrder(todo[g]) /\ Meets(Op(g), FALSE) /\ Op(g) \notin DOMAIN Commands
      /\ (Op(g) = "set" => g = Main /\ main = "new")
  <2>1. (waiting[g] /\ port = <<>>) = FALSE
    BY <1>3
  <2> QED BY <1>4, <1>7, <2>1 DEF Fine
<1>9. Op(g)' = Op(g) /\ Busy(g)' /\ todo'[g] = todo[g] /\ waiting'[g]
  BY <1>3, <1>4, <1>6 DEF Op, Busy
<1>10. Meets(Op(g), TRUE)'
  <2>1. UNCHANGED <<txState, armed>> /\ Op(g) \notin {"stopRX", "stopTX", "start"}
    BY <1>3, <1>8 DEF Commands
  <2>2. CASE result = "full"
    <3>1. Sending' /\ Op(g) \in Data
      BY <1>1, <1>5, <1>8, <2>1, <2>2 DEF Meets, Sending
    <3> QED BY <1>9, <3>1 DEF Meets, Data
  <2>3. CASE result = "ok"
    <3>1. radio' = After(Op(g))
      BY <1>1, <1>5, <2>3
    <3> HIDE DEF c
    <3>2. CASE Op(g) \in {"rxOff", "rxOn"}
      BY <1>8, <1>9, <2>1, <3>1, <3>2 DEF Meets, After, Calm, Data
    <3>3. CASE Op(g) \in {"startTX", "txOff"}
      BY <1>8, <1>9, <2>1, <3>1, <3>3 DEF Meets, After, Data
    <3>4. CASE Op(g) = "set"
      BY <1>8, <1>9, <2>1, <3>1, <3>4 DEF Meets, After, Calm, Data
    <3>5. CASE Op(g) \in Data
      <4>1. Sending'
        BY <1>8, <2>1, <3>1, <3>5 DEF Meets, After, Sending, Data
      <4> QED BY <1>9, <3>5, <4>1 DEF Meets, Data
    <3>6. Op(g) \in Ops
      BY <1>6, HeadTailProperties DEF QInv, IInv, TypeOK, Busy, Op
    <3> QED BY <2>1, <3>2, <3>3, <3>4, <3>5, <3>6 DEF Ops
  <2> QED BY <1>2, <2>2, <2>3
<1>11. Fine(g)'
  <2>1. (waiting[g] /\ port = <<>>)' = TRUE
    BY <1>5, <1>9
  <2> QED BY <1>3, <1>8, <1>9, <1>10, <2>1 DEF Fine
<1>12. Reassures'
  <2>1. Op(g) \in Ops
    BY <1>6, HeadTailProperties DEF QInv, IInv, TypeOK, Busy, Op
  <2>2. Op(g) # "text"
    BY <2>1 DEF Ops, Data
  <2> QED BY <1>1, <1>2, <1>5, <2>2 DEF Reassures
<1> QED BY <1>3, <1>5, <1>6, <1>9, <1>11, <1>12, Moved

LEMMA QuietStep == QInv /\ [Next]_vars => QInv'
<1> SUFFICES ASSUME QInv, [Next]_vars, Good' PROVE Orderly'
  BY StepHolds DEF QInv
<1>1. CASE UNCHANGED vars
  BY <1>1 DEF QInv, Good, vars, Orderly, Reassures, Fine, Busy, Op, Meets, Calm, Sending, Rests, InOrder, Chain
<1>2. CASE Made
  <2>1. /\ main = "new" /\ ~Busy(Main) /\ main' = "made" /\ Orderly
        /\ UNCHANGED <<txState, armed, todo, waiting, cmdSource, port, radio, worst>>
    BY <1>2 DEF Made, QInv, Good
  <2>2. \A g \in Goroutines : /\ Busy(g)' = Busy(g) /\ Op(g)' = Op(g)
                              /\ InOrder(todo[g])' = InOrder(todo[g])
    BY <2>1 DEF Busy, Op
  <2>3. \A g \in Goroutines : Busy(g)' => Fine(g)'
    <3>1. SUFFICES ASSUME NEW g \in Goroutines, Busy(g) PROVE Fine(g)'
      BY <2>2
    <3>2. Fine(g) /\ g # Main
      BY <2>1, <3>1 DEF Orderly
    <3>3. Meets(Op(g), waiting[g] /\ port = <<>>)'
      BY <2>1, <2>2, <3>2 DEF Fine, Meets, Calm, Sending
    <3> QED BY <2>1, <2>2, <3>2, <3>3 DEF Fine
  <2>4. (\A g \in Goroutines : ~Busy(g)') => Rests'
    BY <2>1, <2>2 DEF Orderly, Rests, Calm, Sending
  <2> QED BY <2>1, <2>2, <2>3, <2>4 DEF Orderly, Reassures
<1>3. ASSUME NEW g \in Goroutines, TimeOut(g) PROVE Orderly'
  <2>1. worst \in DOMAIN Severity /\ worst' = "nothing" /\ Worsen("disturbed", TRUE)
    BY <1>3 DEF QInv, IInv, TypeOK, Good, TimeOut
  <2> QED BY <2>1, NothingYet
<1>4. CASE Texts
  <2>1. worst \in DOMAIN Severity /\ worst' = "nothing" /\ Worsen("disturbed", TRUE)
    BY <1>4 DEF QInv, IInv, TypeOK, Good, Texts
  <2> QED BY <2>1, NothingYet
<1> QED BY <1>1, <1>2, <1>3, <1>4, OperationsOrderly, ProceedOrderly, ClearOrderly, SendOrderly,
           ReceiveOrderly, AnswerOrderly DEF Next, Step

LEMMA QuietInit == Init => QInv
<1> SUFFICES ASSUME Init PROVE QInv
  OBVIOUS
<1>1. todo = [g \in Goroutines |-> IF g = Main THEN SetUp ELSE <<>>] /\ Main \in Goroutines
  BY DEF Init, Goroutines
<1>2. Calm /\ main = "new" /\ port = <<>> /\ cmdSource = Nothing /\ \A g \in Goroutines : ~waiting[g]
  BY DEF Init, Calm
<1>3. ASSUME NEW g \in Goroutines, Busy(g) PROVE g = Main /\ Fine(g)
  <2>1. g = Main /\ todo[g] = SetUp /\ SetUp # <<>>
    BY <1>1, <1>3 DEF Busy
  <2>2. Op(g) = "set" /\ InOrder(todo[g])
    BY <2>1, SeriesInOrder DEF Op
  <2> QED BY <1>2, <2>1, <2>2 DEF Fine, Meets, Commands, Data
<1>4. Rests
  BY <1>2 DEF Rests
<1> QED BY InitHolds, <1>2, <1>3, <1>4 DEF QInv, Orderly, Reassures

\* Whenever no operation is under way, and as long as operations of several
\* goroutines have kept apart, every command was answered in time and none refused,
\* the modem and its firmware agree: it transmits, with txTimer running, or it
\* receives without.  For any goroutines, packets of any length, any number of
\* settings (stopRX, startTX, stopTX, Start and the timer's function of
\* cc1200_modem.go).
THEOREM QuietModemAgrees == Spec => []QuietAgrees
<1>1. QInv => QuietAgrees
  BY DEF QInv, Good, Orderly, Rests, Calm, Sending, QuietAgrees
<1> QED BY QuietInit, QuietStep, <1>1, PTL DEF Spec
=============================================================================
