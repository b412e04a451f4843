------------------------------- MODULE CC1200 -------------------------------
(***************************************************************************)
(* cc1200_modem.go: a half-duplex radio behind a serial line.  Every       *)
(* operation is a series of commands, each written to the port and         *)
(* answered by the firmware; processReceivedData puts answers into         *)
(* cmdSource, a channel of one, from which whoever waits takes the next,   *)
(* and so it does with the debug texts the firmware sends unasked.         *)
(* Nothing keeps goroutines from having commands under way at a time.      *)
(***************************************************************************)
EXTENDS Naturals, Sequences

CONSTANTS
  Callers,     \* goroutines that transmit
  Timer,       \* the goroutine that runs txTimer's function
  Main,        \* the goroutine of the program
  Nothing,     \* no answer
  Settings,    \* commands of the constructor: ping, frequencies, power, correction, AFC
  Chunks,      \* 25-byte chunks of a packet
  MaxPort      \* commands the serial line holds (bound)

ASSUME CC1200Assumption ==
  /\ Timer \notin Callers /\ Main \notin Callers \cup {Timer}
  /\ Settings \in Nat /\ Chunks \in Nat \ {0} /\ MaxPort \in Nat \ {0}

VARIABLES
  txState,     \* "idle" or "active"
  armed,       \* txTimer runs
  todo,        \* the operations each goroutine has still to do
  cleared,     \* it has dropped the old answers and is about to write the first's command
  waiting,     \* it has written that command and waits for the answer
  cmdSource,   \* the answer in the channel
  port,        \* commands written and not yet answered
  radio,       \* what the firmware does: "idle", "rx" or "tx"
  main,        \* "new", "failed", "made", "running" or "closed"
  \* history
  worst        \* that has happened: "nothing"; "together": two goroutines were in the middle
               \* of operations, or Start came in an over; "disturbed": a command was given
               \* up or refused, or a text came; "crossed": a command was begun while
               \* another was under way, given up or not

vars == <<txState, armed, todo, cleared, waiting, cmdSource, port, radio, main, worst>>

Goroutines == Callers \cup {Timer, Main}
Data == {"lsf", "chunk", "frame", "eot"}
\* Operations that come to a command after all
Commands == [stopRX |-> "rxOff", stopTX |-> "txOff", start |-> "rxOn"]
Ops == {"set", "stopRX", "rxOff", "startTX", "stopTX", "txOff", "start", "rxOn"} \cup Data
Text(result) == [to |-> Nothing, op |-> "text", result |-> result]
Answers ==
  [to : Goroutines, op : Ops, result : {"ok", "full", "error"}] \cup {Text("ok"), Text("error")}

\* The constructor's commands are Main's first operations.
SetUp == [i \in 1..Settings |-> "set"]

Init ==
  /\ txState = "idle" /\ armed = FALSE
  /\ todo = [g \in Goroutines |-> IF g = Main THEN SetUp ELSE <<>>]
  /\ cleared = [g \in Goroutines |-> FALSE] /\ waiting = [g \in Goroutines |-> FALSE]
  /\ cmdSource = Nothing /\ port = <<>> /\ radio = "idle" /\ main = "new"
  /\ worst = "nothing"

Severity == [nothing |-> 0, together |-> 1, disturbed |-> 2, crossed |-> 3]
Worsen(to, happens) == worst' = IF happens /\ Severity[to] > Severity[worst] THEN to ELSE worst

Busy(g) == todo[g] # <<>>
Op(g) == Head(todo[g])
Done(g) == todo' = [todo EXCEPT ![g] = Tail(@)]
-----------------------------------------------------------------------------
(* Operations: what the exported methods and the timer's function do in turn *)

Begin(g, ops) ==
  /\ ~Busy(g) /\ main \in {"made", "running"}
  /\ todo' = [todo EXCEPT ![g] = ops]
  /\ Worsen("together",
            (g = Main /\ txState = "active") \/ \E h \in Goroutines \ {g} : Busy(h))
  /\ UNCHANGED <<txState, cleared, waiting, cmdSource, port, radio>>

StartUp == <<"stopRX", "startTX", "lsf">>
Finish == <<"eot", "stopTX", "start">>

TransmitPacket(g) ==
  /\ Begin(g, StartUp \o [i \in 1..Chunks |-> "chunk"] \o Finish)
  /\ UNCHANGED <<armed, main>>

\* The first frame is the one that finds the transmitter idle.
TransmitVoiceStream(g) ==
  /\ \E end \in {<<>>, Finish} :
       Begin(g, (IF txState = "active" THEN <<>> ELSE StartUp) \o <<"frame">> \o end)
  /\ UNCHANGED <<armed, main>>

\* txTimer's function; a second run would follow the first at once
TxTimeout ==
  /\ armed
  /\ Begin(Timer, <<"stopTX", "start">>)
  /\ armed' = FALSE
  /\ UNCHANGED main

Made ==
  /\ main = "new" /\ ~Busy(Main)
  /\ main' = "made"
  /\ UNCHANGED <<txState, armed, todo, cleared, waiting, cmdSource, port, radio, worst>>

\* The gateway starts the modem after its client has connected.
Start ==
  /\ main = "made"
  /\ Begin(Main, <<"start">>)
  /\ main' = "running"
  /\ UNCHANGED armed

Close ==
  /\ main = "running"
  /\ Begin(Main, <<"stopRX", "stopTX">>)
  /\ main' = "closed"
  /\ UNCHANGED armed
-----------------------------------------------------------------------------
(* Commands *)

\* txTimer.Reset and Stop at the end of a command; mutants: not at all, no Stop.
LeaveTimer(g, result) == UNCHANGED armed
NeverStopTimer(g, result) ==
  armed' = (armed \/ (Op(g) = "startTX" /\ result = "ok") \/ (Op(g) \in Data /\ result # "none"))
SetTimer(g, result) ==
  armed' = (Op(g) # "txOff"
              /\ (armed \/ (Op(g) = "startTX" /\ result = "ok")
                        \/ (Op(g) \in Data /\ result # "none")))

\* What drops old answers; its mutant does nothing.
KeepOldAnswer == UNCHANGED cmdSource
DropOldAnswer == cmdSource' = Nothing

NothingToStop(g) == <<Op(g), txState>> \in {<<"stopRX", "active">>, <<"stopTX", "idle">>}

\* What operations do without a command: stopRX and stopTX ask txState whether there
\* is anything to stop, and whoever comes between that and the command goes unnoticed.
Proceed(g) ==
  /\ Busy(g) /\ ~waiting[g] /\ Op(g) \in DOMAIN Commands
  /\ IF NothingToStop(g) THEN Done(g)
     ELSE todo' = [todo EXCEPT ![g] = <<Commands[Op(g)]>> \o Tail(@)]
  /\ txState' = IF Op(g) = "start" THEN "idle" ELSE txState
  /\ armed' = (armed /\ ~(Op(g) = "stopTX" /\ NothingToStop(g)))
  /\ UNCHANGED <<cleared, waiting, cmdSource, port, radio, main, worst>>

UnderWay == port # <<>> \/ \E h \in Goroutines : cleared[h] \/ waiting[h]

\* commandWithResponse drops old answers; processReceivedData does not stop for it.
Clear(g) ==
  /\ Busy(g) /\ ~cleared[g] /\ ~waiting[g]
  /\ Op(g) \notin DOMAIN Commands
  /\ DropOldAnswer
  /\ cleared' = [cleared EXCEPT ![g] = TRUE]
  /\ Worsen("crossed", UnderWay)
  /\ UNCHANGED <<txState, armed, todo, waiting, port, radio, main>>

\* Then it writes the command.
Send(g) ==
  /\ cleared[g] /\ Len(port) < MaxPort
  /\ port' = Append(port, [to |-> g, op |-> Op(g)])
  /\ cleared' = [cleared EXCEPT ![g] = FALSE]
  /\ waiting' = [waiting EXCEPT ![g] = TRUE]
  /\ UNCHANGED <<txState, armed, todo, cmdSource, radio, main, worst>>

\* The command of g has come back with an answer, or has timed out ("none").
Finished(g, result) ==
  /\ waiting' = [waiting EXCEPT ![g] = FALSE]
  /\ SetTimer(g, result)
  /\ txState' = CASE Op(g) = "startTX" /\ result = "ok" -> "active"
                  [] Op(g) = "txOff" -> "idle"
                  [] OTHER -> txState
  /\ \/ Op(g) \in Data /\ result = "full" /\ UNCHANGED todo
     \/ Op(g) \in Data \cup {"set"} /\ result \in {"error", "none"}
          /\ todo' = [todo EXCEPT ![g] = <<>>]
     \/ ~(Op(g) \in Data /\ result # "ok") /\ ~(Op(g) = "set" /\ result # "ok") /\ Done(g)
  /\ main' = IF Op(g) = "set" /\ result # "ok" THEN "failed" ELSE main

\* What is in the channel is taken for the answer to the command just sent.
Receive(g) ==
  /\ waiting[g] /\ cmdSource # Nothing
  /\ cmdSource' = Nothing
  /\ Finished(g, cmdSource.result)
  /\ UNCHANGED <<cleared, port, radio, worst>>

TimeOut(g) ==
  /\ waiting[g] /\ cmdSource = Nothing
  /\ Finished(g, "none")
  /\ Worsen("disturbed", TRUE)
  /\ UNCHANGED <<cleared, cmdSource, port, radio>>
-----------------------------------------------------------------------------
(* The firmware, as the modem's code relies on it, and processReceivedData: *)
(* an answer that finds the channel full is dropped.                        *)

After(op) ==
  CASE op = "startTX" -> "tx"
    [] op = "rxOn" -> "rx"
    [] op \in {"txOff", "rxOff"} -> "idle"
    [] OTHER -> radio

\* It may refuse to receive while it transmits, and samples while it does not.
Refuses(op) == (op \in {"rxOn", "rxOff"} /\ radio = "tx") \/ (op \in Data /\ radio # "tx")

Answer ==
  /\ port # <<>>
  /\ LET c == Head(port) IN
       \E result \in {"ok", "full", "error"} :
         /\ result = "full" => c.op \in Data /\ radio = "tx"
         /\ result = "error" => Refuses(c.op) \/ c.op = "set"
         /\ radio' = IF result = "ok" THEN After(c.op) ELSE radio
         /\ Worsen("disturbed", result = "error")
         /\ cmdSource' = IF cmdSource = Nothing
                         THEN [to |-> c.to, op |-> c.op, result |-> result]
                         ELSE cmdSource
  /\ port' = Tail(port)
  /\ UNCHANGED <<txState, armed, todo, cleared, waiting, main>>

\* A debug text, which is read as a refusal unless its first byte, or the command
\* (the ping), is such that it passes for an answer.
Texts ==
  /\ cmdSource = Nothing
  /\ \E result \in {"ok", "error"} : cmdSource' = Text(result)
  /\ Worsen("disturbed", TRUE)
  /\ UNCHANGED <<txState, armed, todo, cleared, waiting, port, radio, main>>
-----------------------------------------------------------------------------
Step(g) == Proceed(g) \/ Clear(g) \/ Send(g) \/ Receive(g)

Next ==
  \/ Made \/ Start \/ Close \/ TxTimeout \/ Answer \/ Texts
  \/ \E g \in Callers : TransmitPacket(g) \/ TransmitVoiceStream(g)
  \/ \E g \in Goroutines : Step(g) \/ TimeOut(g)

Spec == Init /\ [][Next]_vars

Accepted == Answer /\ cmdSource'.result # "full"

\* Goroutines and firmware go on, answers are taken, the buffer empties at last.
FairSpec ==
  /\ Spec
  /\ \A g \in Goroutines : WF_vars(Step(g))
  /\ WF_vars(Answer) /\ SF_vars(Accepted)
  /\ WF_vars(TxTimeout) /\ WF_vars(Made) /\ WF_vars(Start)
-----------------------------------------------------------------------------
(* Properties *)

TypeOK ==
  /\ txState \in {"idle", "active"} /\ armed \in BOOLEAN
  /\ todo \in [Goroutines -> Seq(Ops)]
  /\ cleared \in [Goroutines -> BOOLEAN] /\ waiting \in [Goroutines -> BOOLEAN]
  /\ cmdSource \in Answers \cup {Nothing}
  /\ port \in Seq([to : Goroutines, op : Ops])
  /\ radio \in {"idle", "rx", "tx"}
  /\ main \in {"new", "failed", "made", "running", "closed"}
  /\ worst \in DOMAIN Severity

\* A goroutine takes the answer to another's command, or to an earlier one, only
\* if a command was begun while another was under way: one that was given up does
\* no harm if its answer comes before old answers are dropped for the next
\* (cc1200_modem.go:770-779), nor does a debug text, taken for an answer or not.
MixupNeedsCrossing ==
  [][\A g \in Goroutines :
       Receive(g) /\ cmdSource.op # "text" /\ (cmdSource.to # g \/ cmdSource.op # Op(g)) =>
         worst = "crossed"]_vars

\* Between operations that kept apart, the modem's idea of the radio is right:
\* it transmits with the safety timer running, or it receives.
QuietAgrees ==
  main = "running" /\ (\A g \in Goroutines : ~Busy(g)) /\ worst = "nothing" =>
    \/ txState = "active" /\ radio = "tx" /\ armed
    \/ txState = "idle" /\ radio = "rx" /\ ~armed

\* A radio left transmitting is switched off or fed by a further call, however
\* operations run into each other, as long as no answer comes too late and the
\* firmware takes the commands.
StopsTransmitting ==
  (radio = "tx") ~>
    \/ radio # "tx" \/ worst \in {"disturbed", "crossed"}
    \/ main = "closed" \/ \E g \in Callers : Busy(g)
=============================================================================
