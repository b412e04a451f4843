------------------------------ MODULE NetVoice ------------------------------
(***************************************************************************)
(* Voice from the reflector, as the gateway passes it on to the modem:     *)
(* TransmitVoiceStream of src/cmd/m17-gateway/gateway.go, called for every *)
(* datagram by the goroutine of InetClient.handle, and the function of     *)
(* lastFrameTimer, which the runtime calls in a goroutine of its own.  The *)
(* fields they share are not protected: every read and write is a step.    *)
(*                                                                         *)
(* A tick is the second of lastFrameTimer.  A frame's LSF is named by the  *)
(* stream it belongs to.                                                   *)
(*                                                                         *)
(* One handle loop reads the socket: what two of them do to these fields,  *)
(* which a second Connect in the middle of a read can leave running        *)
(* (internet.go:189), is not modelled.                                     *)
(***************************************************************************)
CONSTANTS
  StreamIDs,  \* identifiers of the streams a reflector sends: any uint16
  NoStream,   \* lastStreamID when no stream is open, 0xFFFF
  Timers,     \* timer objects
  Nil,
  Calls       \* bound: goroutines that run timer functions at a time

ASSUME NetVoiceAssumption ==
  /\ Nil \notin Timers \cup StreamIDs
  /\ Calls # {}

VARIABLES
  lastStreamID,
  lastLSF,
  lastFrameTimer,
  timer,    \* the state of each timer object
  handler,  \* where TransmitVoiceStream is, and in which frame
  call,     \* where each timer function is
  up,       \* FALSE once a nil pointer stopped the program
  raced     \* history: a timer's function once ran beside TransmitVoiceStream

shared == <<lastStreamID, lastLSF, lastFrameTimer>>
program == <<lastStreamID, lastLSF, lastFrameTimer, timer, handler, call, up>>
vars == <<lastStreamID, lastLSF, lastFrameTimer, timer, handler, call, up, raced>>

\* The statements of TransmitVoiceStream, named for what they do.
HandlerPlaces ==
  {"idle", "rearm", "reset", "compare", "find old", "stop old", "set ID", "set LSF", "arm",
   "tail", "log end", "clear ID", "clear LSF", "stop", "clear timer"}

\* Those of the timer's function; at "echo" it looks at the gateway's state.
CallPlaces == {"none", "log end", "clear ID", "clear timer", "clear LSF", "echo"}

\* Those at which the timer's function still touches the shared fields.
Touching == {"log end", "clear ID", "clear timer", "clear LSF"}

Idle == [at |-> "idle", sid |-> NoStream, last |-> FALSE]

Init ==
  /\ lastStreamID = NoStream
  /\ lastLSF = Nil
  /\ lastFrameTimer = Nil
  /\ timer = [t \in Timers |-> "off"]
  /\ handler = Idle
  /\ call = [k \in Calls |-> "none"]
  /\ up = TRUE
  /\ raced = FALSE

----------------------------------------------------------------------------
(* TransmitVoiceStream *)

\* The frame went out to the modem; if the modem failed, nothing else happens.
Receive(sid, last) ==
  /\ up /\ handler.at = "idle"
  /\ handler' = [at |-> "rearm", sid |-> sid, last |-> last]
  /\ UNCHANGED <<shared, timer, call, up>>

At(place) == up /\ handler.at = place
Goto(place) == handler' = IF place = "idle" THEN Idle ELSE [handler EXCEPT !.at = place]

\* A method call on the nil timer, or a look into the nil LSF, is a panic.
Panic == up' = FALSE /\ UNCHANGED <<shared, timer, handler, call>>

\* if g.lastFrameTimer != nil
TestTimer(place, then, else) ==
  /\ At(place)
  /\ Goto(IF lastFrameTimer # Nil THEN then ELSE else)
  /\ UNCHANGED <<shared, timer, call, up>>

\* g.lastFrameTimer.Reset or g.lastFrameTimer.Stop
CallTimer(place, state, next) ==
  /\ At(place)
  /\ IF lastFrameTimer = Nil
       THEN Panic
       ELSE /\ timer' = [timer EXCEPT ![lastFrameTimer] = state]
            /\ Goto(next)
            /\ UNCHANGED <<shared, call, up>>

Rearm   == TestTimer("rearm", "reset", "compare")
Reset   == CallTimer("reset", "set", "compare")
FindOld == TestTimer("find old", "stop old", "set ID")
StopOld == CallTimer("stop old", "off", "set ID")

\* Mutant of Stop: the timer runs on after the last frame.
StopLater == CallTimer("stop", "set", "clear timer")

Stop == CallTimer("stop", "off", "clear timer")

\* Is it a new stream?
Compare ==
  /\ At("compare")
  /\ Goto(IF lastStreamID # handler.sid THEN "find old" ELSE "tail")
  /\ UNCHANGED <<shared, timer, call, up>>

SetID ==
  /\ At("set ID")
  /\ lastStreamID' = handler.sid
  /\ Goto("set LSF")
  /\ UNCHANGED <<lastLSF, lastFrameTimer, timer, call, up>>

SetLSF ==
  /\ At("set LSF")
  /\ lastLSF' = handler.sid
  /\ Goto("arm")
  /\ UNCHANGED <<lastStreamID, lastFrameTimer, timer, call, up>>

\* Mutant of Arm: the old timer object is taken again, if there is one.
ArmOld ==
  /\ At("arm")
  /\ IF lastFrameTimer # Nil
       THEN UNCHANGED <<lastFrameTimer, timer>>
       ELSE \E t \in Timers :
              /\ timer[t] = "off"
              /\ timer' = [timer EXCEPT ![t] = "set"]
              /\ lastFrameTimer' = t
  /\ Goto("tail")
  /\ UNCHANGED <<lastStreamID, lastLSF, call, up>>

\* A new timer object: one that is off and that the gateway does not hold.
Arm ==
  /\ At("arm")
  /\ \E t \in Timers \ {lastFrameTimer} :
       /\ timer[t] = "off"
       /\ timer' = [timer EXCEPT ![t] = "set"]
       /\ lastFrameTimer' = t
  /\ Goto("tail")
  /\ UNCHANGED <<lastStreamID, lastLSF, call, up>>

Tail ==
  /\ At("tail")
  /\ Goto(IF handler.last THEN "log end" ELSE "idle")
  /\ UNCHANGED <<shared, timer, call, up>>

LogEnd ==
  /\ At("log end")
  /\ IF lastLSF = Nil
       THEN Panic
       ELSE Goto("clear ID") /\ UNCHANGED <<shared, timer, call, up>>

ClearID ==
  /\ At("clear ID")
  /\ lastStreamID' = NoStream
  /\ Goto("clear LSF")
  /\ UNCHANGED <<lastLSF, lastFrameTimer, timer, call, up>>

ClearLSF ==
  /\ At("clear LSF")
  /\ lastLSF' = Nil
  /\ Goto("stop")
  /\ UNCHANGED <<lastStreamID, lastFrameTimer, timer, call, up>>

ClearTimer ==
  /\ At("clear timer")
  /\ lastFrameTimer' = Nil
  /\ Goto("idle")
  /\ UNCHANGED <<lastStreamID, lastLSF, timer, call, up>>

Handler ==
  \/ Rearm \/ Reset \/ Compare
  \/ FindOld \/ StopOld \/ SetID \/ SetLSF \/ Arm
  \/ Tail \/ LogEnd \/ ClearID \/ ClearLSF \/ Stop \/ ClearTimer

----------------------------------------------------------------------------
(* The timers and their function *)

\* A second passes; what is due goes off before the next one has passed.
Tick ==
  /\ up
  /\ \A t \in Timers : timer[t] # "due"
  /\ timer' = [t \in Timers |-> IF timer[t] = "set" THEN "due" ELSE "off"]
  /\ UNCHANGED <<shared, handler, call, up>>

Fire(t, k) ==
  /\ up /\ timer[t] = "due" /\ call[k] = "none"
  /\ timer' = [timer EXCEPT ![t] = "off"]
  /\ call' = [call EXCEPT ![k] = "log end"]
  /\ UNCHANGED <<shared, handler, up>>

CallAt(k, place) == up /\ call[k] = place
CallGoto(k, place) == call' = [call EXCEPT ![k] = place]

CallLogEnd(k) ==
  /\ CallAt(k, "log end")
  /\ IF lastLSF = Nil
       THEN Panic
       ELSE CallGoto(k, "clear ID") /\ UNCHANGED <<shared, timer, handler, up>>

\* Mutant of CallClearID: the timer's function leaves the stream open.
CallLogsOnly(k) ==
  /\ CallAt(k, "clear ID")
  /\ CallGoto(k, "clear timer")
  /\ UNCHANGED <<shared, timer, handler, up>>

CallClearID(k) ==
  /\ CallAt(k, "clear ID")
  /\ lastStreamID' = NoStream
  /\ CallGoto(k, "clear timer")
  /\ UNCHANGED <<lastLSF, lastFrameTimer, timer, handler, up>>

CallClearTimer(k) ==
  /\ CallAt(k, "clear timer")
  /\ lastFrameTimer' = Nil
  /\ CallGoto(k, "clear LSF")
  /\ UNCHANGED <<lastStreamID, lastLSF, timer, handler, up>>

CallClearLSF(k) ==
  /\ CallAt(k, "clear LSF")
  /\ lastLSF' = Nil
  /\ CallGoto(k, "echo")
  /\ UNCHANGED <<lastStreamID, lastFrameTimer, timer, handler, up>>

\* Module Gateway says what the function does to the gateway's state.
CallReturns(k) ==
  /\ CallAt(k, "echo")
  /\ CallGoto(k, "none")
  /\ UNCHANGED <<shared, timer, handler, up>>

Call(k) ==
  CallLogEnd(k) \/ CallClearID(k) \/ CallClearTimer(k) \/ CallClearLSF(k) \/ CallReturns(k)

----------------------------------------------------------------------------
Step ==
  \/ \E sid \in StreamIDs, last \in BOOLEAN : Receive(sid, last)
  \/ Handler
  \/ Tick
  \/ \E t \in Timers, k \in Calls : Fire(t, k)
  \/ \E k \in Calls : Call(k)

Touched == \E k \in Calls : call[k] \in Touching
Overlap == handler.at # "idle" /\ Touched

Next == Step /\ raced' = (raced \/ Overlap')

Spec == Init /\ [][Next]_vars

\* Goroutines are scheduled and time passes; the reflector has to send nothing.
Fairness ==
  /\ WF_program(Handler)
  /\ WF_program(Tick)
  /\ \A t \in Timers : WF_program(\E k \in Calls : Fire(t, k))
  /\ \A k \in Calls : WF_program(Call(k))

FairSpec == Spec /\ Fairness

----------------------------------------------------------------------------
(* Properties *)

TypeOK ==
  /\ lastStreamID \in StreamIDs \cup {NoStream}
  /\ lastLSF \in StreamIDs \cup {Nil}
  /\ lastFrameTimer \in Timers \cup {Nil}
  /\ timer \in [Timers -> {"off", "set", "due"}]
  /\ handler \in [at : HandlerPlaces, sid : StreamIDs, last : BOOLEAN] \cup {Idle}
  /\ call \in [Calls -> CallPlaces]
  /\ up \in BOOLEAN
  /\ raced \in BOOLEAN

\* The end of a stream is on its way: a timer runs, or its function is at one of
\* `places`, or TransmitVoiceStream is replacing the timer.
EndComes(places) ==
  \/ \E t \in Timers : timer[t] # "off"
  \/ \E k \in Calls : call[k] \in places
  \/ handler.at \in {"set ID", "set LSF", "arm"}

\* A stream that was started has its backstop (gateway.go:449), however the
\* timer's function and TransmitVoiceStream interleave.  One whose identifier is
\* 0xFFFF is known by its LSF only.
BackstopArmed ==
  up => /\ lastStreamID # NoStream => EndComes({"log end", "clear ID"})
        /\ lastLSF # Nil => EndComes(Touching)

\* The nil pointers at gateway.go:438, 443, 452, 464 and 467 are met only after
\* the timer's function has run beside TransmitVoiceStream, as long as the two
\* take turns the fields are set and cleared together; or at 464, in a stream
\* identified by 0xFFFF, which is taken for the one that is open when none is.
PanicNeedsRace == ~up => raced \/ (handler.at = "log end" /\ handler.sid = NoStream)

\* A stream whose last frame never comes is ended by the backstop.
Open == lastStreamID # NoStream \/ lastLSF # Nil
StreamEnds == Open ~> ~Open \/ handler.at # "idle" \/ ~up
=============================================================================
