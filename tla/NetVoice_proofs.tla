--------------------------- MODULE NetVoice_proofs ---------------------------
(***************************************************************************)
(* Theorems about NetVoice, for any streams, any timer objects and any     *)
(* number of timer functions that run at a time.                           *)
(***************************************************************************)
EXTENDS NetVoice, TLAPS

----------------------------------------------------------------------------
(* Types *)

Frame == [at : HandlerPlaces, sid : StreamIDs, last : BOOLEAN]

\* What a frame is while the handler has one.
LEMMA InFrame ==
  ASSUME TypeOK, handler.at # "idle"
  PROVE  handler \in Frame /\ handler.sid \in StreamIDs
<1>1. handler \in Frame
  BY DEF TypeOK, Frame, Idle
<1>2. QED
  BY <1>1 DEF Frame

\* A statement that goes on to another keeps the frame, or forgets it at the end.
LEMMA GotoFrame ==
  ASSUME TypeOK, handler.at # "idle", NEW place \in HandlerPlaces, Goto(place)
  PROVE  /\ handler' \in Frame \cup {Idle}
         /\ handler'.at = place
         /\ place # "idle" => handler'.sid = handler.sid
         /\ handler.sid \in StreamIDs
<1>1. handler \in Frame
  BY InFrame
<1>2. CASE place = "idle"
  BY <1>1, <1>2 DEF Goto, Frame, Idle
<1>3. CASE place # "idle"
  BY <1>1, <1>3 DEF Goto, Frame
<1>4. QED
  BY <1>2, <1>3

\* TypeOK but for the frame and the history.
FieldsOK ==
  /\ lastStreamID \in StreamIDs \cup {NoStream}
  /\ lastLSF \in StreamIDs \cup {Nil}
  /\ lastFrameTimer \in Timers \cup {Nil}
  /\ timer \in [Timers -> {"off", "set", "due"}]
  /\ call \in [Calls -> CallPlaces]
  /\ up \in BOOLEAN

\* A step keeps the fields in their ranges.
LEMMA TypePreserved ==
  ASSUME TypeOK, Next
  PROVE  TypeOK'
<1>. USE NetVoiceAssumption DEF shared
<1>a. FieldsOK /\ handler \in Frame \cup {Idle}
  BY DEF TypeOK, FieldsOK, Frame
<1>b. raced' \in BOOLEAN
  BY DEF Next, Overlap, Touched, TypeOK
<1>c. SUFFICES FieldsOK' /\ handler' \in Frame \cup {Idle}
  BY <1>b DEF TypeOK, FieldsOK, Frame
<1>1. ASSUME NEW sid \in StreamIDs, NEW last \in BOOLEAN, Receive(sid, last)
      PROVE  FieldsOK' /\ handler' \in Frame \cup {Idle}
  BY <1>1, <1>a DEF Receive, FieldsOK, Frame, HandlerPlaces
<1>2. CASE Rearm
  <2>1. Goto("reset") \/ Goto("compare")
    BY <1>2 DEF Rearm, TestTimer, At
  <2>2. handler' \in Frame \cup {Idle}
    BY <1>2, <1>a, <2>1, GotoFrame DEF Rearm, TestTimer, At, HandlerPlaces
  <2>3. FieldsOK'
    BY <1>2, <1>a DEF Rearm, TestTimer, At, FieldsOK
  <2>4. QED
    BY <2>2, <2>3
<1>3. CASE Reset
  <2>1. Goto("compare") \/ handler' = handler
    BY <1>3 DEF Reset, CallTimer, At, Panic
  <2>2. handler' \in Frame \cup {Idle}
    BY <1>3, <1>a, <2>1, GotoFrame DEF Reset, CallTimer, At, Panic, HandlerPlaces
  <2>3. FieldsOK'
    BY <1>3, <1>a DEF Reset, CallTimer, At, Panic, FieldsOK
  <2>4. QED
    BY <2>2, <2>3
<1>4. CASE Compare
  <2>1. Goto("find old") \/ Goto("tail")
    BY <1>4 DEF Compare, At
  <2>2. handler' \in Frame \cup {Idle}
    BY <1>4, <1>a, <2>1, GotoFrame DEF Compare, At, HandlerPlaces
  <2>3. FieldsOK'
    BY <1>4, <1>a DEF Compare, At, FieldsOK
  <2>4. QED
    BY <2>2, <2>3
<1>5. CASE FindOld
  <2>1. Goto("stop old") \/ Goto("set ID")
    BY <1>5 DEF FindOld, TestTimer, At
  <2>2. handler' \in Frame \cup {Idle}
    BY <1>5, <1>a, <2>1, GotoFrame DEF FindOld, TestTimer, At, HandlerPlaces
  <2>3. FieldsOK'
    BY <1>5, <1>a DEF FindOld, TestTimer, At, FieldsOK
  <2>4. QED
    BY <2>2, <2>3
<1>6. CASE StopOld
  <2>1. Goto("set ID") \/ handler' = handler
    BY <1>6 DEF StopOld, CallTimer, At, Panic
  <2>2. handler' \in Frame \cup {Idle}
    BY <1>6, <1>a, <2>1, GotoFrame DEF StopOld, CallTimer, At, Panic, HandlerPlaces
  <2>3. FieldsOK'
    BY <1>6, <1>a DEF StopOld, CallTimer, At, Panic, FieldsOK
  <2>4. QED
    BY <2>2, <2>3
<1>7. CASE SetID
  <2>1. Goto("set LSF")
    BY <1>7 DEF SetID, At
  <2>2. handler' \in Frame \cup {Idle}
    BY <1>7, <1>a, <2>1, GotoFrame DEF SetID, At, HandlerPlaces
  <2>3. handler.sid \in StreamIDs
    BY <1>7, InFrame DEF SetID, At
  <2>4. FieldsOK'
    BY <1>7, <1>a, <2>3 DEF SetID, At, FieldsOK
  <2>5. QED
    BY <2>2, <2>4
<1>8. CASE SetLSF
  <2>1. Goto("arm")
    BY <1>8 DEF SetLSF, At
  <2>2. handler' \in Frame \cup {Idle}
    BY <1>8, <1>a, <2>1, GotoFrame DEF SetLSF, At, HandlerPlaces
  <2>3. handler.sid \in StreamIDs
    BY <1>8, InFrame DEF SetLSF, At
  <2>4. FieldsOK'
    BY <1>8, <1>a, <2>3 DEF SetLSF, At, FieldsOK
  <2>5. QED
    BY <2>2, <2>4
<1>9. CASE Arm
  <2>1. Goto("tail")
    BY <1>9 DEF Arm, At
  <2>2. handler' \in Frame \cup {Idle}
    BY <1>9, <1>a, <2>1, GotoFrame DEF Arm, At, HandlerPlaces
  <2>3. FieldsOK'
    BY <1>9, <1>a DEF Arm, At, FieldsOK
  <2>4. QED
    BY <2>2, <2>3
<1>10. CASE Tail
  <2>1. Goto("log end") \/ Goto("idle")
    BY <1>10 DEF Tail, At
  <2>2. handler' \in Frame \cup {Idle}
    BY <1>10, <1>a, <2>1, GotoFrame DEF Tail, At, HandlerPlaces
  <2>3. FieldsOK'
    BY <1>10, <1>a DEF Tail, At, FieldsOK
  <2>4. QED
    BY <2>2, <2>3
<1>11. CASE LogEnd
  <2>1. Goto("clear ID") \/ handler' = handler
    BY <1>11 DEF LogEnd, At, Panic
  <2>2. handler' \in Frame \cup {Idle}
    BY <1>11, <1>a, <2>1, GotoFrame DEF LogEnd, At, Panic, HandlerPlaces
  <2>3. FieldsOK'
    BY <1>11, <1>a DEF LogEnd, At, Panic, FieldsOK
  <2>4. QED
    BY <2>2, <2>3
<1>12. CASE ClearID
  <2>1. Goto("clear LSF")
    BY <1>12 DEF ClearID, At
  <2>2. handler' \in Frame \cup {Idle}
    BY <1>12, <1>a, <2>1, GotoFrame DEF ClearID, At, HandlerPlaces
  <2>3. FieldsOK'
    BY <1>12, <1>a DEF ClearID, At, FieldsOK
  <2>4. QED
    BY <2>2, <2>3
<1>13. CASE ClearLSF
  <2>1. Goto("stop")
    BY <1>13 DEF ClearLSF, At
  <2>2. handler' \in Frame \cup {Idle}
    BY <1>13, <1>a, <2>1, GotoFrame DEF ClearLSF, At, HandlerPlaces
  <2>3. FieldsOK'
    BY <1>13, <1>a DEF ClearLSF, At, FieldsOK
  <2>4. QED
    BY <2>2, <2>3
<1>14. CASE Stop
  <2>1. Goto("clear timer") \/ handler' = handler
    BY <1>14 DEF Stop, CallTimer, At, Panic
  <2>2. handler' \in Frame \cup {Idle}
    BY <1>14, <1>a, <2>1, GotoFrame DEF Stop, CallTimer, At, Panic, HandlerPlaces
  <2>3. FieldsOK'
    BY <1>14, <1>a DEF Stop, CallTimer, At, Panic, FieldsOK
  <2>4. QED
    BY <2>2, <2>3
<1>15. CASE ClearTimer
  <2>1. Goto("idle")
    BY <1>15 DEF ClearTimer, At
  <2>2. handler' \in Frame \cup {Idle}
    BY <1>15, <1>a, <2>1, GotoFrame DEF ClearTimer, At, HandlerPlaces
  <2>3. FieldsOK'
    BY <1>15, <1>a DEF ClearTimer, At, FieldsOK
  <2>4. QED
    BY <2>2, <2>3
<1>16. CASE Tick
  BY <1>16, <1>a DEF Tick, FieldsOK
<1>17. ASSUME NEW t \in Timers, NEW k \in Calls, Fire(t, k)
      PROVE  FieldsOK' /\ handler' \in Frame \cup {Idle}
  BY <1>17, <1>a DEF Fire, FieldsOK, CallPlaces
<1>18. ASSUME NEW k \in Calls, CallLogEnd(k)
      PROVE  FieldsOK' /\ handler' \in Frame \cup {Idle}
  BY <1>18, <1>a DEF CallLogEnd, CallAt, CallGoto, Panic, FieldsOK, CallPlaces
<1>19. ASSUME NEW k \in Calls, CallClearID(k)
      PROVE  FieldsOK' /\ handler' \in Frame \cup {Idle}
  BY <1>19, <1>a DEF CallClearID, CallAt, CallGoto, FieldsOK, CallPlaces
<1>20. ASSUME NEW k \in Calls, CallClearTimer(k)
      PROVE  FieldsOK' /\ handler' \in Frame \cup {Idle}
  BY <1>20, <1>a DEF CallClearTimer, CallAt, CallGoto, FieldsOK, CallPlaces
<1>21. ASSUME NEW k \in Calls, CallClearLSF(k)
      PROVE  FieldsOK' /\ handler' \in Frame \cup {Idle}
  BY <1>21, <1>a DEF CallClearLSF, CallAt, CallGoto, FieldsOK, CallPlaces
<1>22. ASSUME NEW k \in Calls, CallReturns(k)
      PROVE  FieldsOK' /\ handler' \in Frame \cup {Idle}
  BY <1>22, <1>a DEF CallReturns, CallAt, CallGoto, FieldsOK, CallPlaces
<1>23. QED
  BY <1>1, <1>2, <1>3, <1>4, <1>5, <1>6, <1>7, <1>8, <1>9, <1>10, <1>11, <1>12,
     <1>13, <1>14, <1>15, <1>16, <1>17, <1>18, <1>19, <1>20, <1>21, <1>22
  DEF Next, Step, Handler, Call

----------------------------------------------------------------------------
(* The backstop *)

\* What the last frame has cleared stays clear: only the handler opens a stream.
Closed ==
  /\ handler.at \in {"clear LSF", "stop", "clear timer"} => lastStreamID = NoStream
  /\ handler.at \in {"stop", "clear timer"} => lastLSF = Nil

\* A step does not leave a stream without its backstop.
LEMMA BackstopPreserved ==
  ASSUME TypeOK, Closed, BackstopArmed, Next
  PROVE  Closed' /\ BackstopArmed'
<1>. USE NetVoiceAssumption DEF TypeOK, Closed, BackstopArmed, EndComes, Touching, Idle, shared
<1>1. ASSUME NEW sid \in StreamIDs, NEW last \in BOOLEAN, Receive(sid, last)
      PROVE  Closed' /\ BackstopArmed'
  BY <1>1 DEF Receive
<1>2. CASE Rearm
  BY <1>2 DEF Rearm, TestTimer, At, Goto
<1>3. CASE Reset
  BY <1>3 DEF Reset, CallTimer, At, Panic, Goto
<1>4. CASE Compare
  BY <1>4 DEF Compare, At, Goto
<1>5. CASE FindOld
  BY <1>5 DEF FindOld, TestTimer, At, Goto
<1>6. CASE StopOld
  BY <1>6 DEF StopOld, CallTimer, At, Panic, Goto
<1>7. CASE SetID
  BY <1>7 DEF SetID, At, Goto
<1>8. CASE SetLSF
  BY <1>8 DEF SetLSF, At, Goto
<1>9. CASE Arm
  BY <1>9 DEF Arm, At, Goto
<1>10. CASE Tail
  BY <1>10 DEF Tail, At, Goto
<1>11. CASE LogEnd
  BY <1>11 DEF LogEnd, At, Panic, Goto
<1>12. CASE ClearID
  BY <1>12 DEF ClearID, At, Goto
<1>13. CASE ClearLSF
  BY <1>13 DEF ClearLSF, At, Goto
<1>14. CASE Stop
  BY <1>14 DEF Stop, CallTimer, At, Panic, Goto
<1>15. CASE ClearTimer
  BY <1>15 DEF ClearTimer, At, Goto
<1>16. CASE Tick
  BY <1>16 DEF Tick
<1>17. ASSUME NEW t \in Timers, NEW k \in Calls, Fire(t, k)
      PROVE  Closed' /\ BackstopArmed'
  BY <1>17 DEF Fire
<1>18. ASSUME NEW k \in Calls, CallLogEnd(k)
      PROVE  Closed' /\ BackstopArmed'
  BY <1>18 DEF CallLogEnd, CallAt, CallGoto, Panic
<1>19. ASSUME NEW k \in Calls, CallClearID(k)
      PROVE  Closed' /\ BackstopArmed'
  BY <1>19 DEF CallClearID, CallAt, CallGoto
<1>20. ASSUME NEW k \in Calls, CallClearTimer(k)
      PROVE  Closed' /\ BackstopArmed'
  BY <1>20 DEF CallClearTimer, CallAt, CallGoto
<1>21. ASSUME NEW k \in Calls, CallClearLSF(k)
      PROVE  Closed' /\ BackstopArmed'
  BY <1>21 DEF CallClearLSF, CallAt, CallGoto
<1>22. ASSUME NEW k \in Calls, CallReturns(k)
      PROVE  Closed' /\ BackstopArmed'
  BY <1>22 DEF CallReturns, CallAt, CallGoto
<1>23. QED
  BY <1>1, <1>2, <1>3, <1>4, <1>5, <1>6, <1>7, <1>8, <1>9, <1>10, <1>11, <1>12,
     <1>13, <1>14, <1>15, <1>16, <1>17, <1>18, <1>19, <1>20, <1>21, <1>22
  DEF Next, Step, Handler, Call

----------------------------------------------------------------------------
(* Nil pointers *)

\* The fields of an open stream, and of none.
Whole == lastLSF # Nil /\ lastFrameTimer # Nil
Empty == lastStreamID = NoStream /\ lastLSF = Nil /\ lastFrameTimer = Nil

NoTimer   == \A t \in Timers : timer[t] = "off"
OnlyTimer == \A t \in Timers : timer[t] # "off" => t = lastFrameTimer

\* What the handler finds, at each of its statements, in the fields.
InHandler ==
  /\ OnlyTimer
  /\ handler.at = "idle" /\ ~Touched => Whole \/ Empty
  /\ handler.at \in {"rearm", "compare", "find old"} => Whole \/ Empty
  /\ handler.at \in {"reset", "stop old", "clear ID"} => Whole
  /\ handler.at \in {"tail", "log end"} => Whole \/ (Empty /\ handler.sid = NoStream)
  /\ handler.at \in {"set ID", "set LSF", "arm", "clear timer"} => NoTimer
  /\ handler.at = "arm" => lastLSF # Nil
  /\ handler.at \in {"clear LSF", "stop"} => lastFrameTimer # Nil
  /\ handler.at \in {"clear LSF", "stop", "clear timer"} => lastStreamID = NoStream
  /\ handler.at \in {"stop", "clear timer"} => lastLSF = Nil

\* What the function of a timer finds: it is alone, and no timer runs.
InCall ==
  /\ Touched => handler.at = "idle" /\ NoTimer
  /\ \A k, j \in Calls : call[k] \in Touching /\ call[j] \in Touching => k = j
  /\ \A k \in Calls :
       /\ call[k] \in {"log end", "clear ID"} => Whole
       /\ call[k] \in {"clear timer", "clear LSF"} => lastStreamID = NoStream
       /\ call[k] = "clear LSF" => lastFrameTimer = Nil

\* The end of a stream identified by 0xFFFF that no field knows.
EndsNone == handler.at = "log end" /\ handler.sid = NoStream

\* As long as the two have taken turns the fields are set and cleared together.
Turns == ~raced => (up /\ InHandler /\ InCall) \/ (~up /\ EndsNone)

\* A program that was stopped takes no step.
LEMMA OnlyWhileUp == Next => up
BY DEF Next, Step, Handler, Receive, Rearm, Reset, Compare, FindOld, StopOld, SetID, SetLSF, Arm,
       Tail, LogEnd, ClearID, ClearLSF, Stop, ClearTimer, TestTimer, CallTimer, At,
       Tick, Fire, Call, CallLogEnd, CallClearID, CallClearTimer, CallClearLSF, CallReturns, CallAt

\* A step by the handler or by a timer's function keeps the fields together, unless
\* it makes the two run beside each other.
LEMMA TurnsPreserved ==
  ASSUME TypeOK, Turns, Next
  PROVE  Turns'
<1>. USE NetVoiceAssumption DEF shared
<1>a. FieldsOK
  BY DEF TypeOK, FieldsOK
<1>b. raced' = (raced \/ (handler'.at # "idle" /\ Touched'))
  BY DEF Next, Overlap
<1>c. SUFFICES ASSUME ~raced, ~raced'
               PROVE  Turns'
  BY <1>b DEF Turns
<1>d. /\ up /\ InHandler /\ InCall
      /\ handler'.at # "idle" => ~Touched'
  BY <1>b, <1>c, OnlyWhileUp DEF Turns
<1>1. ASSUME NEW sid \in StreamIDs, NEW last \in BOOLEAN, Receive(sid, last)
      PROVE  Turns'
  <2>1. handler'.at = "rearm"
    BY <1>1 DEF Receive
  <2>2. QED
    BY <1>1, <1>a, <1>d, <2>1
       DEF Receive, Turns, InHandler, InCall, Touched, Touching, Whole, Empty, NoTimer,
         OnlyTimer
<1>2. CASE Rearm
  <2>1. handler.at # "idle" /\ handler.sid \in StreamIDs
    BY <1>2, InFrame DEF Rearm, TestTimer, At
  <2>2. handler'.at = (IF lastFrameTimer # Nil THEN "reset" ELSE "compare")
    BY <1>2, <2>1, GotoFrame DEF Rearm, TestTimer, At, HandlerPlaces
  <2>3. QED
    BY <1>2, <1>a, <1>d, <2>1, <2>2
       DEF Rearm, TestTimer, At, FieldsOK, Turns, InHandler, InCall, Touched, Touching, Whole, Empty, NoTimer,
         OnlyTimer
<1>3. CASE Reset
  <2>1. lastFrameTimer # Nil
    BY <1>3, <1>d DEF Reset, CallTimer, At, Panic, Turns, InHandler, InCall, Touched, Touching, Whole, Empty, NoTimer,
         OnlyTimer
  <2>2. handler'.at = "compare"
    BY <1>3, <2>1, GotoFrame DEF Reset, CallTimer, At, Panic, HandlerPlaces
  <2>3. QED
    BY <1>3, <1>a, <1>d, <2>1, <2>2
       DEF Reset, CallTimer, At, Panic, FieldsOK, Turns, InHandler, InCall, Touched, Touching, Whole, Empty, NoTimer,
         OnlyTimer
<1>4. CASE Compare
  <2>1. handler.at # "idle" /\ handler.sid \in StreamIDs
    BY <1>4, InFrame DEF Compare, At
  <2>2. /\ handler'.at = (IF lastStreamID # handler.sid THEN "find old" ELSE "tail")
        /\ handler'.sid = handler.sid
    BY <1>4, <2>1, GotoFrame DEF Compare, At, HandlerPlaces
  <2>3. QED
    BY <1>4, <1>a, <1>d, <2>1, <2>2
       DEF Compare, At, FieldsOK, Turns, InHandler, InCall, Touched, Touching, Whole, Empty, NoTimer,
         OnlyTimer
<1>5. CASE FindOld
  <2>1. handler.at # "idle" /\ handler.sid \in StreamIDs
    BY <1>5, InFrame DEF FindOld, TestTimer, At
  <2>2. handler'.at = (IF lastFrameTimer # Nil THEN "stop old" ELSE "set ID")
    BY <1>5, <2>1, GotoFrame DEF FindOld, TestTimer, At, HandlerPlaces
  <2>3. QED
    BY <1>5, <1>a, <1>d, <2>1, <2>2
       DEF FindOld, TestTimer, At, FieldsOK, Turns, InHandler, InCall, Touched, Touching, Whole, Empty, NoTimer,
         OnlyTimer
<1>6. CASE StopOld
  <2>1. lastFrameTimer # Nil
    BY <1>6, <1>d DEF StopOld, CallTimer, At, Panic, Turns, InHandler, InCall, Touched, Touching, Whole, Empty, NoTimer,
         OnlyTimer
  <2>2. handler'.at = "set ID"
    BY <1>6, <2>1, GotoFrame DEF StopOld, CallTimer, At, Panic, HandlerPlaces
  <2>3. QED
    BY <1>6, <1>a, <1>d, <2>1, <2>2
       DEF StopOld, CallTimer, At, Panic, FieldsOK, Turns, InHandler, InCall, Touched, Touching, Whole, Empty, NoTimer,
         OnlyTimer
<1>7. CASE SetID
  <2>1. handler.at # "idle" /\ handler.sid \in StreamIDs
    BY <1>7, InFrame DEF SetID, At
  <2>2. handler'.at = "set LSF"
    BY <1>7, <2>1, GotoFrame DEF SetID, At, HandlerPlaces
  <2>3. QED
    BY <1>7, <1>a, <1>d, <2>1, <2>2
       DEF SetID, At, FieldsOK, Turns, InHandler, InCall, Touched, Touching, Whole, Empty, NoTimer,
         OnlyTimer
<1>8. CASE SetLSF
  <2>1. handler.at # "idle" /\ handler.sid \in StreamIDs
    BY <1>8, InFrame DEF SetLSF, At
  <2>2. handler'.at = "arm"
    BY <1>8, <2>1, GotoFrame DEF SetLSF, At, HandlerPlaces
  <2>3. QED
    BY <1>8, <1>a, <1>d, <2>1, <2>2
       DEF SetLSF, At, FieldsOK, Turns, InHandler, InCall, Touched, Touching, Whole, Empty, NoTimer,
         OnlyTimer
<1>9. CASE Arm
  <2>1. handler.at # "idle" /\ handler.sid \in StreamIDs
    BY <1>9, InFrame DEF Arm, At
  <2>2. handler'.at = "tail"
    BY <1>9, <2>1, GotoFrame DEF Arm, At, HandlerPlaces
  <2>3. QED
    BY <1>9, <1>a, <1>d, <2>1, <2>2
       DEF Arm, At, FieldsOK, Turns, InHandler, InCall, Touched, Touching, Whole, Empty, NoTimer,
         OnlyTimer
<1>10. CASE Tail
  <2>1. handler.at # "idle" /\ handler.sid \in StreamIDs
    BY <1>10, InFrame DEF Tail, At
  <2>2. (handler'.at = "log end" /\ handler'.sid = handler.sid) \/ handler'.at = "idle"
    BY <1>10, <2>1, GotoFrame DEF Tail, At, HandlerPlaces
  <2>3. QED
    BY <1>10, <1>a, <1>d, <2>1, <2>2
       DEF Tail, At, FieldsOK, Turns, InHandler, InCall, Touched, Touching, Whole, Empty, NoTimer,
         OnlyTimer
<1>11. CASE LogEnd
  <2>1. CASE lastLSF # Nil
    <3>1. handler'.at = "clear ID"
      BY <1>11, <2>1, GotoFrame DEF LogEnd, At, Panic, HandlerPlaces
    <3>2. QED
      BY <1>11, <1>a, <1>d, <2>1, <3>1
         DEF LogEnd, At, Panic, FieldsOK, Turns, InHandler, InCall, Touched, Touching, Whole, Empty, NoTimer,
           OnlyTimer
  <2>2. CASE lastLSF = Nil
    BY <1>11, <1>d, <2>2 DEF LogEnd, At, Panic, Turns, InHandler, Whole, EndsNone
  <2>3. QED
    BY <2>1, <2>2
<1>12. CASE ClearID
  <2>1. handler.at # "idle" /\ handler.sid \in StreamIDs
    BY <1>12, InFrame DEF ClearID, At
  <2>2. handler'.at = "clear LSF"
    BY <1>12, <2>1, GotoFrame DEF ClearID, At, HandlerPlaces
  <2>3. QED
    BY <1>12, <1>a, <1>d, <2>1, <2>2
       DEF ClearID, At, FieldsOK, Turns, InHandler, InCall, Touched, Touching, Whole, Empty, NoTimer,
         OnlyTimer
<1>13. CASE ClearLSF
  <2>1. handler.at # "idle" /\ handler.sid \in StreamIDs
    BY <1>13, InFrame DEF ClearLSF, At
  <2>2. handler'.at = "stop"
    BY <1>13, <2>1, GotoFrame DEF ClearLSF, At, HandlerPlaces
  <2>3. QED
    BY <1>13, <1>a, <1>d, <2>1, <2>2
       DEF ClearLSF, At, FieldsOK, Turns, InHandler, InCall, Touched, Touching, Whole, Empty, NoTimer,
         OnlyTimer
<1>14. CASE Stop
  <2>1. lastFrameTimer # Nil
    BY <1>14, <1>d DEF Stop, CallTimer, At, Panic, Turns, InHandler, InCall, Touched, Touching, Whole, Empty, NoTimer,
         OnlyTimer
  <2>2. handler'.at = "clear timer"
    BY <1>14, <2>1, GotoFrame DEF Stop, CallTimer, At, Panic, HandlerPlaces
  <2>3. QED
    BY <1>14, <1>a, <1>d, <2>1, <2>2
       DEF Stop, CallTimer, At, Panic, FieldsOK, Turns, InHandler, InCall, Touched, Touching, Whole, Empty, NoTimer,
         OnlyTimer
<1>15. CASE ClearTimer
  <2>1. handler.at # "idle" /\ handler.sid \in StreamIDs
    BY <1>15, InFrame DEF ClearTimer, At
  <2>2. handler'.at = "idle"
    BY <1>15, <2>1, GotoFrame DEF ClearTimer, At, HandlerPlaces
  <2>3. QED
    BY <1>15, <1>a, <1>d, <2>1, <2>2
       DEF ClearTimer, At, FieldsOK, Turns, InHandler, InCall, Touched, Touching, Whole, Empty, NoTimer,
         OnlyTimer
<1>16. CASE Tick
  BY <1>16, <1>a, <1>d
     DEF Tick, FieldsOK, Turns, InHandler, InCall, Touched, Touching, Whole, Empty, NoTimer,
         OnlyTimer
<1>17. ASSUME NEW t \in Timers, NEW k \in Calls, Fire(t, k)
      PROVE  Turns'
  <2>1. call'[k] = "log end" /\ handler' = handler
    BY <1>17, <1>a DEF Fire, FieldsOK
  <2>2. handler.at = "idle"
    BY <1>d, <2>1 DEF Touched, Touching
  <2>3. ~Touched /\ t = lastFrameTimer /\ lastFrameTimer # Nil
    BY <1>17, <1>d DEF Fire, InCall, InHandler, NoTimer, OnlyTimer
  <2>4. Whole
    BY <1>d, <2>2, <2>3 DEF InHandler, Whole, Empty
  <2>5. Whole' /\ NoTimer' /\ up'
    BY <1>17, <1>a, <1>d, <2>3, <2>4 DEF Fire, Whole, InHandler, OnlyTimer, NoTimer, FieldsOK
  <2>6. \A j \in Calls : call'[j] \in Touching => j = k
    BY <1>17, <1>a, <2>3 DEF Fire, Touched, FieldsOK
  <2>7. Touched'
    BY <2>1 DEF Touched, Touching
  <2>8. QED
    BY <2>1, <2>2, <2>5, <2>6, <2>7
       DEF InHandler, InCall, Turns, Whole, Empty, NoTimer, OnlyTimer, Touching
<1>18. ASSUME NEW k \in Calls, CallLogEnd(k)
      PROVE  Turns'
  BY <1>18, <1>a, <1>d, ZenonT(60)
     DEF CallLogEnd, CallAt, CallGoto, Panic, FieldsOK, Turns, InHandler, InCall, Touched, Touching, Whole, Empty, NoTimer,
         OnlyTimer
<1>19. ASSUME NEW k \in Calls, CallClearID(k)
      PROVE  Turns'
  BY <1>19, <1>a, <1>d, ZenonT(60)
     DEF CallClearID, CallAt, CallGoto, FieldsOK, Turns, InHandler, InCall, Touched, Touching, Whole, Empty, NoTimer,
         OnlyTimer
<1>20. ASSUME NEW k \in Calls, CallClearTimer(k)
      PROVE  Turns'
  BY <1>20, <1>a, <1>d
     DEF CallClearTimer, CallAt, CallGoto, FieldsOK, Turns, InHandler, InCall, Touched, Touching, Whole, Empty, NoTimer,
         OnlyTimer
<1>21. ASSUME NEW k \in Calls, CallClearLSF(k)
      PROVE  Turns'
  BY <1>21, <1>a, <1>d
     DEF CallClearLSF, CallAt, CallGoto, FieldsOK, Turns, InHandler, InCall, Touched, Touching, Whole, Empty, NoTimer,
         OnlyTimer
<1>22. ASSUME NEW k \in Calls, CallReturns(k)
      PROVE  Turns'
  BY <1>22, <1>a, <1>d
     DEF CallReturns, CallAt, CallGoto, FieldsOK, Turns, InHandler, InCall, Touched, Touching, Whole, Empty, NoTimer,
         OnlyTimer
<1>23. QED
  BY <1>1, <1>2, <1>3, <1>4, <1>5, <1>6, <1>7, <1>8, <1>9, <1>10, <1>11, <1>12,
     <1>13, <1>14, <1>15, <1>16, <1>17, <1>18, <1>19, <1>20, <1>21, <1>22
  DEF Next, Step, Handler, Call

----------------------------------------------------------------------------
(* Theorems *)

Inductive == TypeOK /\ Closed /\ BackstopArmed /\ Turns

\* The invariant that the theorems below are read off.
THEOREM NetVoiceInductive == Spec => []Inductive
<1>1. Init => Inductive
  <2>1. ASSUME Init
        PROVE  TypeOK /\ ~Touched
    BY <2>1 DEF Init, TypeOK, Idle, CallPlaces, Touched, Touching
  <2>2. ASSUME Init
        PROVE  Closed /\ BackstopArmed
    BY <2>2 DEF Init, Idle, Closed, BackstopArmed, EndComes
  <2>3. ASSUME Init
        PROVE  Turns
    BY <2>3, <2>1 DEF Init, Idle, Turns, InHandler, InCall, Touching, Whole, Empty, NoTimer,
                      OnlyTimer
  <2>4. QED
    BY <2>1, <2>2, <2>3 DEF Inductive
<1>2. Inductive /\ [Next]_vars => Inductive'
  <2>1. ASSUME Inductive, Next
        PROVE  Inductive'
    BY <2>1, TypePreserved, BackstopPreserved, TurnsPreserved DEF Inductive
  <2>2. ASSUME Inductive, UNCHANGED vars
        PROVE  Inductive'
    <3>1. TypeOK'
      BY <2>2 DEF vars, Inductive, TypeOK
    <3>2. Closed' /\ BackstopArmed'
      BY <2>2 DEF vars, Inductive, Closed, BackstopArmed, EndComes
    <3>3. (up /\ InHandler /\ InCall => up' /\ InHandler' /\ InCall') /\ raced' = raced
      BY <2>2 DEF vars, InHandler, InCall, Touched, Whole, Empty, NoTimer, OnlyTimer
    <3>4. (~up /\ EndsNone => ~up' /\ EndsNone')
      BY <2>2 DEF vars, EndsNone
    <3>5. QED
      BY <2>2, <3>1, <3>2, <3>3, <3>4 DEF Inductive, Turns
  <2>3. QED
    BY <2>1, <2>2
<1>3. QED
  BY <1>1, <1>2, PTL DEF Spec

\* Every stream that was started is sure to be ended, by its last frame or by the
\* backstop of gateway.go:449-459, however the two interleave.
THEOREM StreamsBackedUp == Spec => []BackstopArmed
<1>1. Inductive => BackstopArmed
  BY DEF Inductive
<1>2. QED
  BY <1>1, NetVoiceInductive, PTL

\* The nil pointers of gateway.go:438, 443, 452, 464 and 467 need the timer's function
\* and the handler to have overlapped, but for the last frame of a stream identified
\* by 0xFFFF that comes when no stream is open.
THEOREM PanicsNeedRace == Spec => []PanicNeedsRace
<1>1. Inductive => PanicNeedsRace
  BY DEF Inductive, Turns, EndsNone, PanicNeedsRace
<1>2. QED
  BY <1>1, NetVoiceInductive, PTL

\* The fields of the gateway and the places of its goroutines stay within their types.
THEOREM NetVoiceTypes == Spec => []TypeOK
<1>1. Inductive => TypeOK
  BY DEF Inductive
<1>2. QED
  BY <1>1, NetVoiceInductive, PTL
=============================================================================
