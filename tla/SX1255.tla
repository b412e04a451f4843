------------------------------- MODULE SX1255 -------------------------------
(***************************************************************************)
(* The transmit side of sx1255_modem.go.  Any number of goroutines call    *)
(* TransmitPacket and TransmitVoiceStream (the reflector's handler,        *)
(* echoes, spoken replies); they share txState under txMutex, the safety   *)
(* timer, and the control register of the chip, which sx1255SetMode        *)
(* changes by reading it and writing it back.  Main brings the modem up,   *)
(* starts and closes it, and takes no lock for the register.               *)
(***************************************************************************)
EXTENDS Naturals, Sequences, SequencesExt

CONSTANTS
  Callers,     \* goroutines that transmit
  TimerRuns,   \* runs of txTimer's function that may exist at a time (bound)
  Main,        \* the goroutine of the program
  NoOne,       \* txMutex is free
  Chunks       \* 25-byte chunks of a packet

ASSUME SX1255Assumption ==
  /\ Callers \cap TimerRuns = {}
  /\ Main \notin Callers \cup TimerRuns
  /\ NoOne \notin Callers \cup TimerRuns \cup {Main}
  /\ Chunks \in Nat \ {0}

VARIABLES
  txState,     \* "idle", "packet" or "stream"
  lock,        \* who holds txMutex
  armed,       \* txTimer runs
  ctrl,        \* mode bits of register 0x00 that are set
  seen,        \* what each goroutine read from it last, or is about to see there
  pc,          \* where each goroutine is
  kind,        \* of the call of a goroutine: the txState it wants
  todo,        \* the blocks of symbols its call has still to write
  burst,       \* what went on air since the transmitter was last enabled
  \* history
  cut,         \* somebody writes on in a transmission that was stopped under it
  overlap,     \* two calls of one kind are made at a time
  stray        \* why the transmitter is on without having been started, or "no"

vars == <<txState, lock, armed, ctrl, seen, pc, kind, todo, burst,
          cut, overlap, stray>>
history == <<cut, overlap, stray>>

Goroutines == Callers \cup TimerRuns \cup {Main}
Strays == {"no", "failed access", "lost update", "late start"}
Kinds == {"packet", "stream"}
Blocks == {"lsf", "chunk", "frame", "eot"}
Bits == {"ref", "rx", "tx"}       \* "tx": front end and PA driver

BringUp == {"configure", "pll", "reconfigure", "pll again", "failed"}
Starting == {"start read", "start write"}
Closing == {"close rx read", "close rx write", "close tx read", "close tx write", "closed"}
InStart == {"recover", "on write", "on check"}
InStop == {"off read", "off write"}
Places == {"out", "lock", "wait", "woken", "write", "stop"}
            \cup InStart \cup InStop \cup BringUp \cup Starting \cup Closing

Init ==
  /\ txState = "idle" /\ lock = NoOne /\ armed = FALSE
  /\ ctrl = {}
  /\ seen = [g \in Goroutines |-> {}]
  /\ pc = [g \in Goroutines |-> IF g = Main THEN "configure" ELSE "out"]
  /\ kind = [g \in Callers |-> "packet"]
  /\ todo = [g \in Callers |-> <<>>]
  /\ burst = {}
  /\ cut = FALSE /\ overlap = FALSE /\ stray = "no"

Ready == pc[Main] \notin BringUp
\* Close has stopped what was on the air and goes on without the lock
Ending == pc[Main] \in Closing

Goto(g, place) == pc' = [pc EXCEPT ![g] = place]
\* where stopTX returns to
AfterStop(g) == IF g = Main THEN "close rx read" ELSE "out"
-----------------------------------------------------------------------------
(* Bring-up: reset and registers, twice if the receiver's PLL does not lock *)

Configure ==
  /\ pc[Main] \in {"configure", "reconfigure"}
  /\ \/ /\ ctrl' = {"ref", "rx"}
        /\ Goto(Main, IF pc[Main] = "configure" THEN "pll" ELSE "pll again")
     \/ ctrl' \in SUBSET {"ref", "rx"} /\ Goto(Main, "failed")
  /\ UNCHANGED <<txState, lock, armed, seen, kind, todo, burst, history>>

\* sx1255WaitPLLLock, then both sound devices
CheckPLL ==
  /\ pc[Main] \in {"pll", "pll again"}
  /\ \/ Goto(Main, "start read")
     \/ Goto(Main, "failed")
     \/ pc[Main] = "pll" /\ Goto(Main, "reconfigure")
  /\ UNCHANGED <<txState, lock, armed, ctrl, seen, kind, todo, burst, history>>
-----------------------------------------------------------------------------
(* sx1255SetMode *)

ReadMode(g, from, to) ==
  /\ pc[g] = from
  /\ seen' = [seen EXCEPT ![g] = ctrl]
  /\ Goto(g, to)
  /\ UNCHANGED <<txState, lock, armed, ctrl, kind, todo, burst, history>>

\* Mutant of WriteMode: the mode is written without the bits that were read.
WriteAlone(g, set, clear) ==
  /\ ctrl' = set \cup {"ref"}
  /\ stray' = IF "tx" \in ctrl' THEN stray ELSE "no"
  /\ seen' = [seen EXCEPT ![g] = {}]

\* The write takes, or fails; it fails always once Close has closed the bus.
WriteMode(g, set, clear) ==
  /\ \/ /\ pc[Main] # "closed"
        /\ ctrl' = (seen[g] \ clear) \cup set \cup {"ref"}
        /\ stray' = CASE "tx" \notin ctrl' -> "no"
                      [] "tx" \in ctrl -> stray
                      [] OTHER -> "lost update"
     \/ /\ ctrl' = ctrl
        /\ stray' = IF "tx" \in ctrl THEN "failed access" ELSE stray
  /\ seen' = [seen EXCEPT ![g] = {}]

\* Start, and the end of Close: nobody looks at the result
SetMain(from, to, set, clear) ==
  /\ pc[Main] = from
  /\ WriteMode(Main, set, clear)
  /\ Goto(Main, to)
  /\ UNCHANGED <<txState, lock, armed, kind, todo, burst, cut, overlap>>

Start ==
  \/ ReadMode(Main, "start read", "start write")
  \/ SetMain("start write", "out", {"rx"}, {})
-----------------------------------------------------------------------------
(* TransmitPacket and TransmitVoiceStream *)

PacketBlocks == <<"lsf">> \o [i \in 1..Chunks |-> "chunk"] \o <<"eot">>

\* A call of g; a stream's call writes one frame and, after the last, the end.
\* The program ends with Close: calls in progress go on, no new ones come.
Call(g, k, blocks) ==
  /\ pc[g] = "out" /\ Ready /\ pc[Main] # "closed"
  /\ kind' = [kind EXCEPT ![g] = k]
  /\ todo' = [todo EXCEPT ![g] = blocks]
  /\ Goto(g, "lock")
  /\ overlap' = (overlap \/ \E h \in Callers \ {g} : pc[h] # "out" /\ kind[h] = k)
  /\ UNCHANGED <<txState, lock, armed, ctrl, seen, burst, cut, stray>>

TransmitPacket(g) == Call(g, "packet", PacketBlocks)
TransmitVoiceStream(g) ==
  \E blocks \in {<<"frame">>, <<"frame", "eot">>} : Call(g, "stream", blocks)

\* Mutant of StartLock: a transmission of the other kind is joined, too.
StartAnyway(g) ==
  /\ pc[g] = "lock" /\ lock = NoOne
  /\ \/ txState # "idle" /\ Goto(g, "write") /\ UNCHANGED lock
     \/ txState = "idle" /\ Goto(g, "recover") /\ lock' = g
  /\ UNCHANGED <<txState, armed, ctrl, seen, kind, todo, burst, history>>

\* startTX up to the lock and the state it finds
StartLock(g) ==
  /\ pc[g] = "lock" /\ lock = NoOne
  /\ \/ txState = kind[g] /\ Goto(g, "write") /\ UNCHANGED lock
     \/ txState = "idle" /\ Goto(g, "recover") /\ lock' = g
     \/ txState \notin {"idle", kind[g]} /\ Goto(g, "wait") /\ UNCHANGED lock
  /\ UNCHANGED <<txState, armed, ctrl, seen, kind, todo, burst, history>>

\* txCond.Wait returns with the lock, and the state is tested again
Rewait(g) ==
  /\ pc[g] = "woken" /\ lock = NoOne
  /\ \/ txState = "idle" /\ Goto(g, "recover") /\ lock' = g
     \/ txState # "idle" /\ Goto(g, "wait") /\ UNCHANGED lock
  /\ UNCHANGED <<txState, armed, ctrl, seen, kind, todo, burst, history>>

\* startTX fails: TransmitPacket has deferred stopTX, TransmitVoiceStream not
StartFails(g) ==
  /\ lock' = NoOne
  /\ Goto(g, IF kind[g] = "packet" THEN "stop" ELSE "out")

\* recoverALSA, or openALSAPlayback if that fails; then the register is read
Recover(g) ==
  /\ pc[g] = "recover"
  /\ \/ Goto(g, "on write") /\ seen' = [seen EXCEPT ![g] = ctrl] /\ UNCHANGED lock
     \/ StartFails(g) /\ UNCHANGED seen
  /\ UNCHANGED <<txState, armed, ctrl, kind, todo, burst, history>>

\* A new transmission: what an earlier one was cut off of may still be written.
EnableTX(g) ==
  /\ pc[g] = "on write"
  /\ \/ /\ pc[Main] # "closed"
        /\ ctrl' = seen[g] \cup {"ref", "tx"}
        /\ seen' = [seen EXCEPT ![g] = ctrl']
        /\ burst' = {}
        /\ cut' = (\E h \in Callers \ {g} : pc[h] = "write")
        /\ overlap' = (\E h \in Callers \ {g} : pc[h] # "out" /\ kind[h] = kind[g])
        /\ stray' = IF Ending THEN "late start" ELSE "no"
        /\ Goto(g, "on check") /\ UNCHANGED lock
     \/ /\ seen' = [seen EXCEPT ![g] = {}]
        /\ StartFails(g) /\ UNCHANGED <<ctrl, burst, history>>
  /\ UNCHANGED <<txState, armed, kind, todo>>

\* Mutants of Started: the timer is not started; the link setup is left out.
StartedFor(g, arm, first) ==
  /\ pc[g] = "on check" /\ ctrl = seen[g]
  /\ txState' = kind[g] /\ armed' = (armed \/ arm) /\ lock' = NoOne
  /\ todo' = [todo EXCEPT ![g] = (IF kind[g] = "stream" THEN first ELSE <<>>) \o @]
  /\ Goto(g, "write")
  /\ seen' = [seen EXCEPT ![g] = {}]
  /\ UNCHANGED <<ctrl, kind, burst, history>>
StartedUnarmed(g) == StartedFor(g, FALSE, <<"lsf">>)
StartedBare(g) == StartedFor(g, TRUE, <<>>)

\* The readback: what somebody else wrote meanwhile makes it an error.
Started(g) ==
  /\ pc[g] = "on check"
  /\ \/ /\ ctrl = seen[g]
        /\ txState' = kind[g] /\ armed' = TRUE /\ lock' = NoOne
        /\ todo' = IF kind[g] = "stream" THEN [todo EXCEPT ![g] = <<"lsf">> \o @] ELSE todo
        /\ Goto(g, "write")
        /\ UNCHANGED stray
     \/ /\ StartFails(g)
        /\ stray' = IF "tx" \in ctrl THEN "failed access" ELSE stray
        /\ UNCHANGED <<txState, armed, todo>>
  /\ seen' = [seen EXCEPT ![g] = {}]
  /\ UNCHANGED <<ctrl, kind, burst, cut, overlap>>

\* sx1255WriteSymbols, with its own recovery.  The timer is reset by frames
\* of a stream only.
Write(g) ==
  /\ pc[g] = "write"
  /\ todo' = [todo EXCEPT ![g] = Tail(@)]
  /\ burst' = IF "tx" \in ctrl THEN burst \cup {Head(todo[g])} ELSE burst
  /\ armed' = (armed \/ Head(todo[g]) = "frame")
  /\ Goto(g, CASE Len(todo[g]) > 1 -> "write"
               [] Head(todo[g]) = "eot" -> "stop"
               [] OTHER -> "out")
  /\ UNCHANGED <<txState, lock, ctrl, seen, kind, history>>

\* A write that fails ends the call; a stream's frame leaves the stop to the timer.
WriteFails(g) ==
  /\ pc[g] = "write"
  /\ Goto(g, IF kind[g] = "stream" /\ Head(todo[g]) = "frame" THEN "out" ELSE "stop")
  /\ todo' = [todo EXCEPT ![g] = <<>>]
  /\ UNCHANGED <<txState, lock, armed, ctrl, seen, kind, burst, history>>
-----------------------------------------------------------------------------
(* stopTX, of a caller, of txTimer's function and of Close *)

\* Mutant of Wake: nobody is woken.
WakeNobody == pc

Wake == [h \in Goroutines |-> IF pc[h] = "wait" THEN "woken" ELSE pc[h]]

StopLock(g) ==
  /\ pc[g] = "stop" /\ lock = NoOne
  /\ \/ /\ txState = "idle"
        /\ Goto(g, AfterStop(g))
        /\ UNCHANGED <<txState, lock, cut>>
     \/ /\ txState # "idle"
        /\ txState' = "idle" /\ lock' = g
        /\ pc' = [Wake EXCEPT ![g] = "off read"]
        /\ cut' = (cut \/ \E h \in Callers \ {g} : pc[h] = "write")
  /\ UNCHANGED <<armed, ctrl, seen, kind, todo, burst, overlap, stray>>

DisableTX(g) ==
  /\ pc[g] = "off write"
  /\ WriteMode(g, {}, {"tx"})
  /\ armed' = FALSE /\ lock' = NoOne
  /\ Goto(g, AfterStop(g))
  /\ UNCHANGED <<txState, kind, todo, burst, cut, overlap>>

Fire(t) ==
  /\ armed /\ pc[t] = "out"
  /\ armed' = FALSE
  /\ Goto(t, "stop")
  /\ UNCHANGED <<txState, lock, ctrl, seen, kind, todo, burst, history>>

\* Close stops the timer last
CloseEnd ==
  /\ pc[Main] = "close tx write"
  /\ WriteMode(Main, {}, {"tx"})
  /\ armed' = FALSE
  /\ Goto(Main, "closed")
  /\ UNCHANGED <<txState, lock, kind, todo, burst, cut, overlap>>

Close ==
  \/ /\ pc[Main] = "out" /\ Goto(Main, "stop")
     /\ UNCHANGED <<txState, lock, armed, ctrl, seen, kind, todo, burst, history>>
  \/ ReadMode(Main, "close rx read", "close rx write")
  \/ SetMain("close rx write", "close tx read", {}, {"rx"})
  \/ ReadMode(Main, "close tx read", "close tx write")
  \/ CloseEnd
-----------------------------------------------------------------------------
InCall(g) ==
  \/ StartLock(g) \/ Rewait(g) \/ Recover(g)
  \/ EnableTX(g) \/ Started(g)
  \/ Write(g) \/ WriteFails(g)

Stop(g) == StopLock(g) \/ ReadMode(g, "off read", "off write") \/ DisableTX(g)

Next ==
  \/ Configure \/ CheckPLL \/ Start \/ Close
  \/ \E g \in Callers : TransmitPacket(g) \/ TransmitVoiceStream(g) \/ InCall(g)
  \/ \E g \in Goroutines : Stop(g)
  \/ \E t \in TimerRuns : Fire(t)

Spec == Init /\ [][Next]_vars
-----------------------------------------------------------------------------
(* Properties *)

TypeOK ==
  /\ txState \in Kinds \cup {"idle"}
  /\ lock \in Goroutines \cup {NoOne}
  /\ armed \in BOOLEAN
  /\ ctrl \in SUBSET Bits
  /\ seen \in [Goroutines -> SUBSET Bits]
  /\ pc \in [Goroutines -> Places]
  /\ kind \in [Callers -> Kinds]
  /\ todo \in [Callers -> Seq(Blocks)]
  /\ burst \in SUBSET Blocks
  /\ {cut, overlap} \subseteq BOOLEAN /\ stray \in Strays

\* The transmitter is never left on with nobody to switch it off: the safety
\* timer runs, or its function or another stop is on its way, or the holder of
\* the lock is switching.  (startTX, stopTX, txTimer)  Excused are register
\* accesses that fail, and what Start and Close do to the register without the lock.
SwitchOffComes ==
  \/ armed
  \/ \E g \in Goroutines : pc[g] = "stop"
  \/ \E g \in Goroutines : lock = g /\ pc[g] \in {"on check"} \cup InStop
Guarded == "tx" \in ctrl => SwitchOffComes \/ stray # "no"

\* "auto-disable TX PA if no data sent within this duration": the comment of
\* txTimeoutSX1255, with failing accesses and Close excused.
SafetyTimeout == "tx" \in ctrl => SwitchOffComes \/ stray \in {"failed access", "late start"}

\* "RX never stops": from the end of bring-up until Close gives the bus up the
\* reference oscillator and the receiver stay on, although goroutines change
\* the transmitter's bits of the same register.
NeverDeaf == Ready /\ ~Ending => {"ref", "rx"} \subseteq ctrl

\* A packet's chunks and a stream's frames are on the air in one transmission
\* only if it was stopped under a goroutine that went on writing.
BurstOfOneKind == {"chunk", "frame"} \subseteq burst => cut

\* What goes on the air begins with a link setup, unless it was stopped under a
\* writer or two calls of its kind were made at a time: the second call finds the
\* state it wants before the first has written anything.
LinkSetupFirst ==
  burst \cap {"chunk", "frame"} # {} => "lsf" \in burst \/ cut \/ overlap

\* No goroutine sleeps in txCond.Wait when the transmitter is free: every way
\* to "idle" wakes them all, and those that find it taken again wait on.
WaitersWoken == \A g \in Callers : pc[g] = "wait" => txState # "idle"
=============================================================================
