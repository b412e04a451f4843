------------------------------ MODULE Gateway ------------------------------
(***************************************************************************)
(* The gateway's side of an over heard on the radio:                       *)
(* src/cmd/m17-gateway/gateway.go and the echo and the spoken messages of  *)
(* audio.go.  The decoder calls back as RFSession promises (RFDecoder      *)
(* implements it); the gateway keeps one state for everything it does, and *)
(* the goroutines that answer an over set it back to Idle when they end.   *)
(*                                                                         *)
(* A step is one call of the decoder with all its callbacks, or one        *)
(* statement of a goroutine that touches what they share.                  *)
(***************************************************************************)
EXTENDS Naturals, Sequences

CONSTANTS
  LSFs, NoLSF, StreamIDs, FNMod, Packets,  \* see RFSession
  EchoLSFs,    \* those for /ECHO or #ECHO
  InfoLSFs,    \* those for /INFO or #INFO
  PacketLSFs,  \* those whose TYPE says packet mode
  MaxTasks     \* bound: goroutines that answer at a time

ASSUME GatewayAssumption ==
  /\ EchoLSFs \subseteq LSFs
  /\ InfoLSFs \subseteq LSFs \ EchoLSFs
  /\ PacketLSFs \subseteq LSFs
  /\ NoLSF \notin LSFs
  /\ MaxTasks \in Nat \ {0}

VARIABLES
  session, nextFN, out,   \* the decoder's side, see RFSession
  gw,                     \* the Gateway struct and its goroutines
  unended                 \* history: the gateway is in the state of an over whose end it was not told

vars == <<session, nextFN, out, gw, unended>>

RF == INSTANCE RFSession

\* Where the goroutines are: those of echoStreamEnd, and those that play a
\* message, send a packet back or answer it ("reply").
Places == {"check", "play", "clear", "idle", "reply"}

States == {"Idle", "RFStreamRX", "Echo", "LocalCommand"}

\* LSFs of overs that are meant for the reflector.
NetLSFs == LSFs \ (EchoLSFs \cup InfoLSFs \cup PacketLSFs)

Init ==
  /\ RF!Init
  /\ gw = [state      |-> "Idle",
           echoStream |-> {},                        \* stations whose voice is recorded
           tasks      |-> [p \in Places |-> 0],      \* how many goroutines are where
           sent       |-> {}]                        \* stations relayed by the last step
  /\ unended = FALSE

Alive(g) == \E p \in Places : g.tasks[p] > 0
Number(g) == g.tasks["check"] + g.tasks["play"] + g.tasks["clear"] + g.tasks["idle"]
               + g.tasks["reply"]

Go(g, place) == [g EXCEPT !.tasks[place] = @ + 1]

----------------------------------------------------------------------------
(* The callbacks; g is the gateway as they find it *)

\* Mutant of EchoStreamStart: the recording goes on in the old slice.
EchoStreamAppend(g) == g

EchoStreamStart(g) == [g EXCEPT !.echoStream = {}]

ReceivedRFLSF(g, l) ==
  IF g.state # "Idle" \/ l \in PacketLSFs THEN g
  ELSE IF l \in EchoLSFs THEN EchoStreamStart([g EXCEPT !.state = "Echo"])
  ELSE IF l \in InfoLSFs THEN [g EXCEPT !.state = "LocalCommand"]
  ELSE [g EXCEPT !.state = "RFStreamRX"]

\* Mutant of ReceivedRFStreamLICH: an over that is resumed goes to the reflector.
ResumedIsRelayed(g, l) == IF g.state = "Idle" THEN [g EXCEPT !.state = "RFStreamRX"] ELSE g

ReceivedRFStreamLICH(g, l) == IF g.state = "Idle" THEN ReceivedRFLSF(g, l) ELSE g

ReceivedRFStreamFrame(g, l) ==
  IF g.state = "Echo" THEN [g EXCEPT !.echoStream = @ \cup {l}]
  ELSE IF g.state = "RFStreamRX" THEN [g EXCEPT !.sent = @ \cup {l}]
  ELSE g

\* Mutant of ReceivedRFStreamEOT: the end of a command says nothing.
EndOfCommandIgnored(g, l) ==
  IF g.state = "Echo" THEN Go(g, "check")
  ELSE IF g.state = "RFStreamRX" THEN [g EXCEPT !.state = "Idle"]
  ELSE g

ReceivedRFStreamEOT(g, l) ==
  IF g.state = "Echo" THEN Go(g, "check")
  ELSE IF g.state = "LocalCommand" /\ l \in InfoLSFs THEN Go(g, "reply")
  ELSE IF g.state = "RFStreamRX" THEN [g EXCEPT !.state = "Idle"]
  ELSE g

\* Mutant of ReceivedRFPacket: a packet that is relayed takes a state of its own.
PacketHasState(g, l) ==
  IF l \in EchoLSFs THEN Go([g EXCEPT !.state = "Echo"], "reply")
  ELSE IF l \in InfoLSFs THEN Go([g EXCEPT !.state = "LocalCommand"], "reply")
  ELSE [g EXCEPT !.state = "RFPacketRX"]

\* The state is set whatever it was.
ReceivedRFPacket(g, l) ==
  IF l \in EchoLSFs THEN Go([g EXCEPT !.state = "Echo"], "reply")
  ELSE IF l \in InfoLSFs THEN Go([g EXCEPT !.state = "LocalCommand"], "reply")
  ELSE g

Callback(g, c) ==
  CASE c.cb = "LSF"    -> ReceivedRFLSF(g, c.lsf)
    [] c.cb = "LICH"   -> ReceivedRFStreamLICH(g, c.lsf)
    [] c.cb = "Stream" -> ReceivedRFStreamFrame(g, c.lsf)
    [] c.cb = "EOT"    -> ReceivedRFStreamEOT(g, c.lsf)
    [] c.cb = "Packet" -> ReceivedRFPacket(g, c.lsf)

CallbackNo(g, cbs, i) == IF i \in DOMAIN cbs THEN Callback(g, cbs[i]) ELSE g

\* A call of the decoder makes three callbacks at most.
Callbacks(g, cbs) == CallbackNo(CallbackNo(CallbackNo(g, cbs, 1), cbs, 2), cbs, 3)

Nothing == [gw EXCEPT !.sent = {}]

\* The gateway is busy, and the voice over that may be the reason is given up or
\* replaced without its end being reported.
Lost ==
  /\ gw.state # "Idle"
  /\ session \in LSFs \ PacketLSFs
  /\ session' # session
  /\ \A i \in DOMAIN out' : ~(out'[i].cb = "EOT" /\ out'[i].lsf = session)

Note == unended' = (Lost \/ (unended /\ gw.state # "Idle" /\ gw'.state # "Idle"))

Decode(call) ==
  /\ call
  /\ gw' = Callbacks(Nothing, out')
  /\ Number(gw') <= MaxTasks
  /\ Note

----------------------------------------------------------------------------
(* The goroutines *)

Move(from, to, g) ==
  /\ gw.tasks[from] > 0
  /\ gw' = Go([g EXCEPT !.tasks[from] = @ - 1], to)
  /\ UNCHANGED <<session, nextFN, out>>
  /\ Note

\* The function of lastFrameTimer finds the state Echo and runs echoStreamEnd.
NetTimeout ==
  /\ gw.state = "Echo"
  /\ Number(gw) < MaxTasks
  /\ gw' = Go(Nothing, "check")
  /\ UNCHANGED <<session, nextFN, out>>
  /\ Note

\* echoStreamEnd: if g.getState() == Echo
EchoCheck == Move("check", IF gw.state = "Echo" THEN "play" ELSE "clear", Nothing)

\* 250 ms of pause, then the frames recorded by then
EchoPlay == Move("play", "clear", Nothing)

\* g.echoStream = nil
EchoClear == Move("clear", "idle", [Nothing EXCEPT !.echoStream = {}])

\* Mutant of SetIdle: a reply leaves the state alone.
SetIdleAfterEcho(from) ==
  /\ gw.tasks[from] > 0
  /\ gw' = [Nothing EXCEPT !.state = IF from = "idle" THEN "Idle" ELSE @, !.tasks[from] = @ - 1]
  /\ UNCHANGED <<session, nextFN, out>>
  /\ Note

\* defer g.setState(Idle), whatever the state is by then
SetIdle(from) ==
  /\ gw.tasks[from] > 0
  /\ gw' = [Nothing EXCEPT !.state = "Idle", !.tasks[from] = @ - 1]
  /\ UNCHANGED <<session, nextFN, out>>
  /\ Note

EchoDone  == SetIdle("idle")
ReplyDone == SetIdle("reply")

----------------------------------------------------------------------------
Next ==
  \/ Decode(RF!Next)
  \/ NetTimeout
  \/ EchoCheck \/ EchoPlay \/ EchoClear \/ EchoDone \/ ReplyDone

Spec == Init /\ [][Next]_vars

\* Goroutines go on; nobody has to speak, and no over has to end.
Fairness ==
  /\ WF_vars(EchoCheck) /\ WF_vars(EchoPlay) /\ WF_vars(EchoClear)
  /\ WF_vars(EchoDone) /\ WF_vars(ReplyDone)

FairSpec == Spec /\ Fairness

----------------------------------------------------------------------------
(* Properties *)

\* The gateway is in one of the four states it can leave again, out of the
\* seven that gateway.go:312-320 declares.
TypeOK ==
  /\ gw \in [state : States, echoStream : SUBSET LSFs, tasks : [Places -> Nat],
             sent : SUBSET LSFs]
  /\ unended \in BOOLEAN

\* A state other than Idle is somebody's: the over in progress put the gateway
\* there and its end will bring it back, or a goroutine will.  The goroutines
\* set Idle whatever the state is by then (gateway.go:646, audio.go:134, 198).
StateMatchesSession ==
  ~unended =>
    /\ gw.state = "RFStreamRX"   => session \in NetLSFs
    /\ gw.state = "Echo"         => session \in EchoLSFs \ PacketLSFs \/ Alive(gw)
    /\ gw.state = "LocalCommand" => session \in InfoLSFs \ PacketLSFs \/ Alive(gw)

\* While an over is recorded for /ECHO the recording holds nobody else's voice
\* (gateway.go:510, audio.go:189-196), though others may have spoken while an
\* earlier echo or packet was being answered.
RecordingOfOneStation ==
  gw.state = "Echo" /\ ~Alive(gw) /\ ~unended => gw.echoStream \subseteq {session}

\* Voice meant for the gateway itself does not go to the reflector, resumed
\* overs included (gateway.go:526-538).
CommandsStayLocal == [][~unended /\ ~unended' => gw'.sent \subseteq NetLSFs]_vars

\* A gateway that is busy while one of its goroutines answers, or while no over is in
\* progress, comes back to Idle, the state in which it listens (gateway.go:551-560,
\* 646, audio.go:134, 198).  Nothing is said of an over that holds the state, nor of
\* one whose end the decoder did not report.
BackToIdle ==
  gw.state # "Idle" /\ (Alive(gw) \/ (session = NoLSF /\ ~unended)) ~> gw.state = "Idle"
=============================================================================
