---------------------------- MODULE SX1255_proofs ----------------------------
(***************************************************************************)
(* The transmitter of the SX1255 modem, for any number of goroutines that  *)
(* transmit, any number of runs of the safety timer's function and packets *)
(* of any length.                                                          *)
(***************************************************************************)
EXTENDS SX1255, SequenceTheorems, TLAPS

\* Steps of startTX and stopTX that need the lock have it.
LockHeld == \A g \in Goroutines : pc[g] \in InStart \cup InStop => lock = g

\* A call that waits or writes has something to write.
SomethingTodo ==
  \A g \in Callers :
    pc[g] \in {"lock", "wait", "woken", "write"} \cup InStart => todo[g] # <<>>

IType == TypeOK /\ LockHeld /\ SomethingTodo

\* Goroutines are who they are.
LEMMA WhoIsWho ==
  /\ \A g \in Callers : g \in Goroutines /\ g # Main /\ g # NoOne
  /\ \A t \in TimerRuns : t \in Goroutines /\ t # Main /\ t # NoOne /\ t \notin Callers
  /\ Main \in Goroutines /\ Main # NoOne /\ Main \notin Callers
  /\ \A g \in Goroutines : g # NoOne
BY SX1255Assumption DEF Goroutines

\* The blocks of a packet, none of which is a stream's.
LEMMA BlocksType == PacketBlocks \in Seq(Blocks \ {"frame"}) /\ PacketBlocks # <<>>
<1> DEFINE chunks == [i \in 1..Chunks |-> "chunk"]
           S == Blocks \ {"frame"}
<1>1. chunks \in Seq(S) /\ Len(chunks) = Chunks
  BY SX1255Assumption, IsASeq DEF Blocks
<1>2. <<"lsf">> \in Seq(S) /\ Len(<<"lsf">>) = 1 /\ <<"eot">> \in Seq(S) /\ Len(<<"eot">>) = 1
  BY DEF Blocks
<1>3. PacketBlocks = <<"lsf">> \o chunks \o <<"eot">>
  BY DEF PacketBlocks
<1> HIDE DEF chunks, S
<1>4. <<"lsf">> \o chunks \in Seq(S) /\ Len(<<"lsf">> \o chunks) = 1 + Chunks
  BY <1>1, <1>2, ConcatProperties, SX1255Assumption
<1>5. PacketBlocks \in Seq(S) /\ Len(PacketBlocks) = 2 + Chunks
  BY <1>2, <1>3, <1>4, ConcatProperties, SX1255Assumption
<1>6. PacketBlocks # <<>>
  BY <1>5, SX1255Assumption
<1> QED BY <1>5, <1>6 DEF S

\* A sequence of some elements is one of more.
LEMMA SeqOfMore ==
  ASSUME NEW S, NEW T, S \subseteq T
  PROVE  Seq(S) \subseteq Seq(T)
OBVIOUS

\* A goroutine that goes somewhere, and one that stops.
LEMMA GotoType ==
  ASSUME TypeOK, NEW g \in Goroutines, NEW place \in Places, Goto(g, place)
  PROVE  /\ pc' \in [Goroutines -> Places] /\ pc'[g] = place
         /\ \A h \in Goroutines \ {g} : pc'[h] = pc[h]
BY DEF TypeOK, Goto

LEMMA WakeType ==
  ASSUME TypeOK, NEW g \in Goroutines, pc' = [Wake EXCEPT ![g] = "off read"]
  PROVE  /\ pc' \in [Goroutines -> Places] /\ pc'[g] = "off read"
         /\ \A h \in Goroutines \ {g} : pc'[h] = IF pc[h] = "wait" THEN "woken" ELSE pc[h]
BY DEF TypeOK, Wake, Places, InStop

LEMMA WriteModeType ==
  ASSUME TypeOK, NEW g \in Goroutines, NEW set \in SUBSET Bits, NEW clear, WriteMode(g, set, clear)
  PROVE  /\ ctrl' \in SUBSET Bits /\ stray' \in Strays
         /\ seen' \in [Goroutines -> SUBSET Bits]
BY DEF TypeOK, WriteMode, Bits, Strays

LEMMA InitType == Init => IType
<1> SUFFICES ASSUME Init PROVE IType
  OBVIOUS
<1>1. pc \in [Goroutines -> Places] /\ \A g \in Goroutines : pc[g] \in {"configure", "out"}
  BY DEF Init, Places, BringUp
<1>2. todo \in [Callers -> Seq(Blocks)] /\ kind \in [Callers -> Kinds]
  BY DEF Init, Kinds
<1>3. /\ txState \in Kinds \cup {"idle"} /\ lock \in Goroutines \cup {NoOne} /\ armed \in BOOLEAN
      /\ ctrl \in SUBSET Bits /\ seen \in [Goroutines -> SUBSET Bits] /\ burst \in SUBSET Blocks
      /\ {cut, overlap} \subseteq BOOLEAN /\ stray \in Strays
  BY DEF Init, Strays
<1>4. LockHeld /\ SomethingTodo
  BY <1>1, WhoIsWho DEF LockHeld, SomethingTodo, InStart, InStop
<1> QED BY <1>1, <1>2, <1>3, <1>4 DEF IType, TypeOK

-----------------------------------------------------------------------------
(* The steps keep the types, the lock and something to do. *)

\* One goroutine goes somewhere without the lock, and has something to do there.
LEMMA KeptByMove ==
  ASSUME IType, NEW g \in Goroutines, NEW place \in Places, Goto(g, place),
         place \in InStart \cup InStop => lock' = g,
         \A h \in Goroutines \ {g} : lock = h => lock' = h,
         \A h \in Callers \ {g} : todo'[h] = todo[h],
         g \in Callers /\ place \in {"lock", "wait", "woken", "write"} \cup InStart => todo'[g] # <<>>
  PROVE  LockHeld' /\ SomethingTodo' /\ pc' \in [Goroutines -> Places]
<1>1. /\ pc' \in [Goroutines -> Places] /\ pc'[g] = place
      /\ \A h \in Goroutines \ {g} : pc'[h] = pc[h]
  BY GotoType DEF IType
<1>2. LockHeld'
  BY <1>1 DEF IType, LockHeld
<1>3. SomethingTodo'
  BY <1>1, WhoIsWho DEF IType, SomethingTodo
<1> QED BY <1>1, <1>2, <1>3

LEMMA MainType ==
  ASSUME IType, Configure \/ CheckPLL \/ Start \/ Close
  PROVE  IType'
<1>1. CASE Configure
  <2>1. PICK place \in {"pll", "pll again", "failed"} : Goto(Main, place)
    BY <1>1 DEF Configure
  <2>2. LockHeld' /\ SomethingTodo' /\ pc' \in [Goroutines -> Places]
    BY <1>1, <2>1, KeptByMove, WhoIsWho DEF Configure, Places, BringUp, InStart, InStop
  <2>3. ctrl' \in SUBSET Bits
    BY <1>1 DEF Configure, Bits
  <2> QED BY <1>1, <2>2, <2>3 DEF Configure, IType, TypeOK, history
<1>2. CASE CheckPLL
  <2>1. PICK place \in {"start read", "failed", "reconfigure"} : Goto(Main, place)
    BY <1>2 DEF CheckPLL
  <2>2. LockHeld' /\ SomethingTodo' /\ pc' \in [Goroutines -> Places]
    BY <1>2, <2>1, KeptByMove, WhoIsWho DEF CheckPLL, Places, BringUp, Starting, InStart, InStop
  <2> QED BY <1>2, <2>2 DEF CheckPLL, IType, TypeOK, history
<1>3. ASSUME NEW from,
             NEW to \in {"start write", "close rx write", "close tx write"}, ReadMode(Main, from, to)
      PROVE  IType'
  <2>1. LockHeld' /\ SomethingTodo' /\ pc' \in [Goroutines -> Places]
    BY <1>3, KeptByMove, WhoIsWho DEF ReadMode, Places, Starting, Closing, InStart, InStop
  <2> QED BY <1>3, <2>1, WhoIsWho DEF ReadMode, IType, TypeOK, history
<1>4. ASSUME NEW from, NEW to \in {"out", "close tx read"}, NEW set \in SUBSET Bits, NEW clear,
             SetMain(from, to, set, clear)
      PROVE  IType'
  <2>1. LockHeld' /\ SomethingTodo' /\ pc' \in [Goroutines -> Places]
    BY <1>4, KeptByMove, WhoIsWho DEF SetMain, Places, Closing, InStart, InStop
  <2>2. ctrl' \in SUBSET Bits /\ stray' \in Strays /\ seen' \in [Goroutines -> SUBSET Bits]
    BY <1>4, WriteModeType, WhoIsWho DEF SetMain, IType
  <2> QED BY <1>4, <2>1, <2>2 DEF SetMain, IType, TypeOK
<1>5. CASE Start
  BY <1>3, <1>4, <1>5 DEF Start, Bits
<1>6. CASE CloseEnd
  <2>1. LockHeld' /\ SomethingTodo' /\ pc' \in [Goroutines -> Places]
    BY <1>6, KeptByMove, WhoIsWho DEF CloseEnd, Places, Closing, InStart, InStop
  <2>2. ctrl' \in SUBSET Bits /\ stray' \in Strays /\ seen' \in [Goroutines -> SUBSET Bits]
    BY <1>6, WriteModeType, WhoIsWho DEF CloseEnd, IType
  <2> QED BY <1>6, <2>1, <2>2 DEF CloseEnd, IType, TypeOK
<1>7. ASSUME pc[Main] = "out", Goto(Main, "stop"),
             UNCHANGED <<txState, lock, armed, ctrl, seen, kind, todo, burst, history>>
      PROVE  IType'
  <2>1. LockHeld' /\ SomethingTodo' /\ pc' \in [Goroutines -> Places]
    BY <1>7, KeptByMove, WhoIsWho DEF Places, InStart, InStop
  <2> QED BY <1>7, <2>1 DEF IType, TypeOK, history
<1>8. CASE Close
  BY <1>3, <1>4, <1>6, <1>7, <1>8 DEF Close
<1> QED BY <1>1, <1>2, <1>5, <1>8

LEMMA CallType ==
  ASSUME IType, NEW g \in Callers, TransmitPacket(g) \/ TransmitVoiceStream(g)
  PROVE  IType'
<1>1. PICK k \in Kinds, blocks \in Seq(Blocks) : Call(g, k, blocks) /\ blocks # <<>>
  <2>1. <<"frame">> \in Seq(Blocks) /\ <<"frame", "eot">> \in Seq(Blocks)
    BY DEF Blocks
  <2>2. PacketBlocks \in Seq(Blocks)
    BY BlocksType, SeqOfMore
  <2> QED BY <2>1, <2>2, BlocksType DEF TransmitPacket, TransmitVoiceStream, Kinds
<1>2. /\ todo' \in [Callers -> Seq(Blocks)] /\ todo'[g] = blocks
      /\ \A h \in Callers \ {g} : todo'[h] = todo[h]
  BY <1>1 DEF Call, IType, TypeOK
<1>3. LockHeld' /\ SomethingTodo' /\ pc' \in [Goroutines -> Places]
  BY <1>1, <1>2, KeptByMove, WhoIsWho DEF Call, Places, InStart, InStop
<1>4. kind' \in [Callers -> Kinds] /\ overlap' \in BOOLEAN
  BY <1>1 DEF Call, IType, TypeOK
<1> QED BY <1>1, <1>2, <1>3, <1>4 DEF Call, IType, TypeOK

LEMMA StartingType ==
  ASSUME IType, NEW g \in Callers, StartLock(g) \/ Rewait(g) \/ Recover(g)
  PROVE  IType'
<1>0. todo[g] # <<>>
  BY WhoIsWho DEF IType, SomethingTodo, StartLock, Rewait, Recover, InStart
<1>1. CASE StartLock(g)
  <2>1. PICK place \in {"write", "recover", "wait"} :
          Goto(g, place) /\ lock' = (IF place = "recover" THEN g ELSE lock)
    BY <1>1 DEF StartLock
  <2>2. LockHeld' /\ SomethingTodo' /\ pc' \in [Goroutines -> Places]
    BY <1>0, <1>1, <2>1, KeptByMove, WhoIsWho DEF StartLock, Places, InStart, InStop
  <2> QED BY <1>1, <2>1, <2>2, WhoIsWho DEF StartLock, IType, TypeOK, history
<1>2. CASE Rewait(g)
  <2>1. PICK place \in {"recover", "wait"} :
          Goto(g, place) /\ lock' = (IF place = "recover" THEN g ELSE lock)
    BY <1>2 DEF Rewait
  <2>2. LockHeld' /\ SomethingTodo' /\ pc' \in [Goroutines -> Places]
    BY <1>0, <1>2, <2>1, KeptByMove, WhoIsWho DEF Rewait, Places, InStart, InStop
  <2> QED BY <1>2, <2>1, <2>2, WhoIsWho DEF Rewait, IType, TypeOK, history
<1>3. CASE Recover(g)
  <2>1. lock = g
    BY <1>3, WhoIsWho DEF IType, LockHeld, Recover, InStart
  <2>2. PICK place \in {"on write", "stop", "out"} :
          Goto(g, place) /\ lock' = (IF place = "on write" THEN g ELSE NoOne)
    BY <1>3, <2>1 DEF Recover, StartFails
  <2>3. LockHeld' /\ SomethingTodo' /\ pc' \in [Goroutines -> Places]
    BY <1>0, <1>3, <2>1, <2>2, KeptByMove, WhoIsWho DEF Recover, Places, InStart, InStop
  <2>4. seen' \in [Goroutines -> SUBSET Bits]
    BY <1>3, WhoIsWho DEF Recover, IType, TypeOK
  <2> QED BY <1>3, <2>2, <2>3, <2>4, WhoIsWho DEF Recover, IType, TypeOK, history
<1> QED BY <1>1, <1>2, <1>3

LEMMA EnablingType ==
  ASSUME IType, NEW g \in Callers, EnableTX(g)
  PROVE  IType'
<1>1. lock = g /\ todo[g] # <<>>
  BY WhoIsWho DEF IType, LockHeld, SomethingTodo, EnableTX, InStart
<1>2. PICK place \in {"on check", "stop", "out"} :
        Goto(g, place) /\ lock' = (IF place = "on check" THEN g ELSE NoOne)
  BY <1>1 DEF EnableTX, StartFails
<1>3. LockHeld' /\ SomethingTodo' /\ pc' \in [Goroutines -> Places]
  BY <1>1, <1>2, KeptByMove, WhoIsWho DEF EnableTX, Places, InStart, InStop
<1>4. ctrl' \in SUBSET Bits
  BY WhoIsWho DEF EnableTX, IType, TypeOK, Bits
<1>5. seen' \in [Goroutines -> SUBSET Bits]
  BY <1>4, WhoIsWho DEF EnableTX, IType, TypeOK
<1>6. burst' \in SUBSET Blocks /\ {cut', overlap'} \subseteq BOOLEAN /\ stray' \in Strays
  BY DEF EnableTX, IType, TypeOK, Strays, history
<1> QED BY <1>2, <1>3, <1>4, <1>5, <1>6, WhoIsWho DEF EnableTX, IType, TypeOK

LEMMA StartedType ==
  ASSUME IType, NEW g \in Callers, Started(g)
  PROVE  IType'
<1>1. lock = g /\ todo[g] # <<>> /\ todo[g] \in Seq(Blocks)
  BY WhoIsWho DEF IType, TypeOK, LockHeld, SomethingTodo, Started, InStart
<1>2. <<"lsf">> \o todo[g] \in Seq(Blocks) /\ <<"lsf">> \o todo[g] # <<>>
  <2>1. <<"lsf">> \in Seq(Blocks) /\ Len(<<"lsf">>) = 1
    BY DEF Blocks
  <2>2. <<"lsf">> \o todo[g] \in Seq(Blocks) /\ Len(<<"lsf">> \o todo[g]) = 1 + Len(todo[g])
    BY <1>1, <2>1, ConcatProperties
  <2>3. Len(todo[g]) \in Nat
    BY <1>1
  <2> QED BY <2>2, <2>3
<1>3. /\ todo' \in [Callers -> Seq(Blocks)] /\ todo'[g] # <<>>
      /\ \A h \in Callers \ {g} : todo'[h] = todo[h]
  BY <1>1, <1>2 DEF Started, IType, TypeOK
<1>4. PICK place \in {"write", "stop", "out"} : Goto(g, place) /\ lock' = NoOne
  BY DEF Started, StartFails
<1>5. LockHeld' /\ SomethingTodo' /\ pc' \in [Goroutines -> Places]
  BY <1>1, <1>3, <1>4, KeptByMove, WhoIsWho DEF Places, InStart, InStop
<1>6. seen' \in [Goroutines -> SUBSET Bits] /\ stray' \in Strays
  BY WhoIsWho DEF Started, IType, TypeOK, Strays
<1>7. txState' \in Kinds \cup {"idle"} /\ armed' \in BOOLEAN
  BY DEF Started, IType, TypeOK
<1> QED BY <1>3, <1>4, <1>5, <1>6, <1>7 DEF Started, IType, TypeOK

LEMMA WritingType ==
  ASSUME IType, NEW g \in Callers, Write(g) \/ WriteFails(g)
  PROVE  IType'
<1>1. todo[g] \in Seq(Blocks) /\ todo[g] # <<>>
  BY WhoIsWho DEF IType, TypeOK, SomethingTodo, Write, WriteFails
<1>2. Tail(todo[g]) \in Seq(Blocks) /\ Head(todo[g]) \in Blocks
  BY <1>1, HeadTailProperties
<1>3. CASE Write(g)
  <2>1. /\ todo' \in [Callers -> Seq(Blocks)] /\ todo'[g] = Tail(todo[g])
        /\ \A h \in Callers \ {g} : todo'[h] = todo[h]
    BY <1>2, <1>3 DEF Write, IType, TypeOK
  <2>2. PICK place \in {"write", "stop", "out"} :
          Goto(g, place) /\ (place = "write" => Len(todo[g]) > 1)
    BY <1>3 DEF Write
  <2>3. Len(todo[g]) > 1 => Tail(todo[g]) # <<>>
    <3> DEFINE r == Tail(todo[g])
               n == Len(todo[g])
    <3>1. Len(r) = n - 1 /\ n \in Nat
      BY <1>1, HeadTailProperties
    <3> HIDE DEF r, n
    <3>2. n > 1 => r # <<>>
      BY <3>1
    <3> QED BY <3>2 DEF r, n
  <2>4. LockHeld' /\ SomethingTodo' /\ pc' \in [Goroutines -> Places]
    BY <1>3, <2>1, <2>2, <2>3, KeptByMove, WhoIsWho DEF Write, Places, InStart, InStop
  <2>5. burst' \in SUBSET Blocks /\ armed' \in BOOLEAN
    BY <1>2, <1>3 DEF Write, IType, TypeOK
  <2> QED BY <1>3, <2>1, <2>4, <2>5 DEF Write, IType, TypeOK, history
<1>4. CASE WriteFails(g)
  <2>1. todo' \in [Callers -> Seq(Blocks)] /\ \A h \in Callers \ {g} : todo'[h] = todo[h]
    BY <1>4 DEF WriteFails, IType, TypeOK
  <2>2. PICK place \in {"stop", "out"} : Goto(g, place)
    BY <1>4 DEF WriteFails
  <2>3. LockHeld' /\ SomethingTodo' /\ pc' \in [Goroutines -> Places]
    BY <1>4, <2>1, <2>2, KeptByMove, WhoIsWho DEF WriteFails, Places, InStart, InStop
  <2> QED BY <1>4, <2>1, <2>3 DEF WriteFails, IType, TypeOK, history
<1> QED BY <1>3, <1>4

LEMMA StoppingType ==
  ASSUME IType, NEW g \in Goroutines, Stop(g)
  PROVE  IType'
<1>0. AfterStop(g) \in {"out", "close rx read"} /\ AfterStop(g) \in Places
  BY DEF AfterStop, Places, Closing
<1>1. CASE StopLock(g) /\ txState = "idle"
  <2>1. LockHeld' /\ SomethingTodo' /\ pc' \in [Goroutines -> Places]
    BY <1>0, <1>1, KeptByMove, WhoIsWho DEF StopLock, InStart, InStop
  <2> QED BY <1>1, <2>1 DEF StopLock, IType, TypeOK
<1>2. CASE StopLock(g) /\ txState # "idle"
  <2>1. /\ pc' \in [Goroutines -> Places] /\ pc'[g] = "off read"
        /\ \A h \in Goroutines \ {g} : pc'[h] = IF pc[h] = "wait" THEN "woken" ELSE pc[h]
    BY <1>2, WakeType DEF StopLock, IType
  <2>2. lock = NoOne /\ lock' = g /\ todo' = todo
    BY <1>2 DEF StopLock
  <2>3. LockHeld'
    BY <2>1, <2>2, WhoIsWho DEF IType, LockHeld, InStart, InStop
  <2>4. SomethingTodo'
    BY <2>1, <2>2, WhoIsWho DEF IType, SomethingTodo, InStart
  <2> QED BY <1>2, <2>1, <2>3, <2>4 DEF StopLock, IType, TypeOK
<1>3. CASE ReadMode(g, "off read", "off write")
  <2>1. lock = g
    BY <1>3 DEF IType, LockHeld, ReadMode, InStop
  <2>2. LockHeld' /\ SomethingTodo' /\ pc' \in [Goroutines -> Places]
    BY <1>3, <2>1, KeptByMove DEF ReadMode, Places, InStart, InStop
  <2> QED BY <1>3, <2>2 DEF ReadMode, IType, TypeOK, history
<1>4. CASE DisableTX(g)
  <2>1. lock = g
    BY <1>4 DEF IType, LockHeld, DisableTX, InStop
  <2>2. LockHeld' /\ SomethingTodo' /\ pc' \in [Goroutines -> Places]
    BY <1>0, <1>4, <2>1, KeptByMove DEF DisableTX, InStart, InStop
  <2>3. ctrl' \in SUBSET Bits /\ stray' \in Strays /\ seen' \in [Goroutines -> SUBSET Bits]
    BY <1>4, WriteModeType DEF DisableTX, IType
  <2> QED BY <1>4, <2>2, <2>3 DEF DisableTX, IType, TypeOK
<1> QED BY <1>1, <1>2, <1>3, <1>4 DEF Stop

LEMMA FireType ==
  ASSUME IType, NEW t \in TimerRuns, Fire(t)
  PROVE  IType'
<1>1. LockHeld' /\ SomethingTodo' /\ pc' \in [Goroutines -> Places]
  BY KeptByMove, WhoIsWho DEF Fire, Places, InStart, InStop
<1> QED BY <1>1 DEF Fire, IType, TypeOK, history

LEMMA StepType == IType /\ [Next]_vars => IType'
<1> SUFFICES ASSUME IType, [Next]_vars PROVE IType'
  OBVIOUS
<1>1. CASE UNCHANGED vars
  BY <1>1 DEF IType, TypeOK, LockHeld, SomethingTodo, vars
<1> QED BY <1>1, MainType, CallType, StartingType, EnablingType, StartedType, WritingType,
           StoppingType, FireType DEF Next, InCall

\* The modem's state stays within its types (sx1255_modem.go).
THEOREM SX1255Types == Spec => []TypeOK
<1>1. IType => TypeOK
  BY DEF IType
<1> QED BY InitType, StepType, <1>1, PTL DEF Spec
-----------------------------------------------------------------------------
(* Nobody sleeps while the transmitter is free. *)

WInv == IType /\ WaitersWoken

LEMMA StepWoken == WInv /\ [Next]_vars => WaitersWoken'
<1> SUFFICES ASSUME WInv, [Next]_vars PROVE WaitersWoken'
  OBVIOUS
<1> USE WhoIsWho DEF WInv, IType, TypeOK, WaitersWoken
<1>1. CASE UNCHANGED vars
  BY <1>1 DEF vars
<1>2. CASE Configure \/ CheckPLL \/ Start \/ Close
  BY <1>2 DEF Configure, CheckPLL, Start, Close, ReadMode, SetMain, CloseEnd, Goto
<1>3. ASSUME NEW g \in Callers, TransmitPacket(g) \/ TransmitVoiceStream(g) PROVE WaitersWoken'
  BY <1>3 DEF TransmitPacket, TransmitVoiceStream, Call, Goto
<1>4. ASSUME NEW g \in Callers, StartLock(g) \/ Rewait(g) \/ Recover(g) \/ EnableTX(g)
      PROVE  WaitersWoken'
  BY <1>4 DEF StartLock, Rewait, Recover, EnableTX, StartFails, Goto
<1>5. ASSUME NEW g \in Callers, Started(g) \/ Write(g) \/ WriteFails(g) PROVE WaitersWoken'
  BY <1>5 DEF Started, Write, WriteFails, StartFails, Goto, Kinds
<1>6. ASSUME NEW g \in Goroutines, StopLock(g) PROVE WaitersWoken'
  <2>1. CASE txState = "idle"
    BY <1>6, <2>1 DEF StopLock, Goto, AfterStop
  <2>2. CASE txState # "idle"
    BY <1>6, <2>2, WakeType DEF StopLock
  <2> QED BY <2>1, <2>2
<1>7. ASSUME NEW g \in Goroutines, ReadMode(g, "off read", "off write") \/ DisableTX(g)
      PROVE  WaitersWoken'
  BY <1>7 DEF ReadMode, DisableTX, Goto, AfterStop
<1>8. ASSUME NEW t \in TimerRuns, Fire(t) PROVE WaitersWoken'
  BY <1>8 DEF Fire, Goto
<1> QED BY <1>1, <1>2, <1>3, <1>4, <1>5, <1>6, <1>7, <1>8 DEF Next, InCall, Stop

\* For any number of callers, none waits in txCond.Wait while the transmitter is
\* free: whichever way it became so, stopTX woke them (startTX, stopTX).
THEOREM AllWoken == Spec => []WaitersWoken
<1>1. Init => WInv
  BY InitType, WhoIsWho DEF WInv, Init, WaitersWoken
<1>2. WInv /\ [Next]_vars => WInv'
  BY StepType, StepWoken DEF WInv
<1>3. WInv => WaitersWoken
  BY DEF WInv
<1> QED BY <1>1, <1>2, <1>3, PTL DEF Spec

-----------------------------------------------------------------------------
(* The transmitter is switched off by somebody. *)

\* A stop comes that will find something to do.
Coming == txState # "idle" /\ (armed \/ \E g \in Goroutines : pc[g] = "stop")
\* The holder of the lock switches it.
Switching == \E g \in Goroutines : lock = g /\ pc[g] \in {"on check"} \cup InStop
Watched == "tx" \in ctrl /\ stray = "no" => Coming \/ Switching

GInv == IType /\ Watched

\* A step of a goroutine that does not stop or check anything itself, and leaves
\* transmitter and timer alone.
LEMMA StillComing ==
  ASSUME GInv, NEW g \in Goroutines, pc[g] \notin {"stop", "on check"} \cup InStop,
         \A h \in Goroutines \ {g} : pc'[h] = pc[h] /\ (lock = h => lock' = h),
         "tx" \in ctrl' /\ stray' = "no" => "tx" \in ctrl /\ stray = "no",
         txState' = txState, armed => armed'
  PROVE  Watched'
BY DEF GInv, Watched, Coming, Switching

\* Writing the mode never turns the transmitter on without a word.
LEMMA WriteModeStrays ==
  ASSUME NEW g, NEW set, NEW clear, WriteMode(g, set, clear)
  PROVE  /\ "tx" \in ctrl' /\ stray' = "no" => "tx" \in ctrl /\ stray = "no"
         /\ set = {} /\ clear = {"tx"} => ~("tx" \in ctrl' /\ stray' = "no")
BY DEF WriteMode

LEMMA StepWatched == GInv /\ [Next]_vars => Watched'
<1> SUFFICES ASSUME GInv, [Next]_vars PROVE Watched'
  OBVIOUS
<1> USE WhoIsWho
<1>0. pc \in [Goroutines -> Places] /\ kind \in [Callers -> Kinds] /\ LockHeld
  BY DEF GInv, IType, TypeOK
<1>1. CASE UNCHANGED vars
  BY <1>1 DEF vars, GInv, Watched, Coming, Switching
<1>2. CASE Configure
  BY <1>2 DEF Configure, Watched
<1>3. CASE CheckPLL
  BY <1>0, <1>3, StillComing DEF CheckPLL, Goto, InStop, history
<1>4. ASSUME NEW from \in {"start read", "close rx read", "close tx read"}, NEW to,
             ReadMode(Main, from, to)
      PROVE  Watched'
  BY <1>0, <1>4, StillComing DEF ReadMode, Goto, InStop, history
<1>5. ASSUME NEW from \in {"start write", "close rx write"}, NEW to, NEW set, NEW clear,
             SetMain(from, to, set, clear)
      PROVE  Watched'
  BY <1>0, <1>5, StillComing, WriteModeStrays DEF SetMain, Goto, InStop
<1>6. CASE Start
  BY <1>4, <1>5, <1>6 DEF Start
<1>7. CASE CloseEnd
  BY <1>7, WriteModeStrays DEF CloseEnd, Watched
<1>8. CASE Close
  <2>1. CASE pc[Main] = "out" /\ Goto(Main, "stop")
             /\ UNCHANGED <<txState, lock, armed, ctrl, seen, kind, todo, burst, history>>
    BY <1>0, <2>1, StillComing DEF Goto, InStop, history
  <2> QED BY <1>4, <1>5, <1>7, <1>8, <2>1 DEF Close
<1>9. ASSUME NEW g \in Callers, TransmitPacket(g) \/ TransmitVoiceStream(g) PROVE Watched'
  <2>1. PICK k, blocks : Call(g, k, blocks)
    BY <1>9 DEF TransmitPacket, TransmitVoiceStream
  <2> QED BY <1>0, <2>1, StillComing DEF Call, Goto, InStop
<1>10. ASSUME NEW g \in Callers, StartLock(g) \/ Rewait(g) PROVE Watched'
  <2>1. lock = NoOne /\ \A h \in Goroutines \ {g} : pc'[h] = pc[h]
    BY <1>0, <1>10 DEF StartLock, Rewait, Goto
  <2>2. pc[g] \in {"lock", "woken"} /\ UNCHANGED <<txState, armed, ctrl, stray>>
    BY <1>10 DEF StartLock, Rewait, history
  <2> QED BY <2>1, <2>2, StillComing DEF InStop
<1>11. ASSUME NEW g \in Callers, Recover(g) PROVE Watched'
  <2>1. lock = g
    BY <1>0, <1>11 DEF LockHeld, Recover, InStart
  <2> QED BY <1>0, <1>11, <2>1, StillComing DEF Recover, StartFails, Goto, InStop, history
<1>12. ASSUME NEW g \in Callers, EnableTX(g) PROVE Watched'
  <2>1. lock = g
    BY <1>0, <1>12 DEF LockHeld, EnableTX, InStart
  <2>2. CASE pc' = [pc EXCEPT ![g] = "on check"] /\ UNCHANGED lock
    BY <1>0, <2>1, <2>2 DEF Watched, Switching
  <2>3. CASE StartFails(g) /\ UNCHANGED <<ctrl, burst, history>>
    BY <1>0, <1>12, <2>1, <2>3, StillComing DEF EnableTX, StartFails, Goto, InStop, history
  <2> QED BY <1>12, <2>2, <2>3 DEF EnableTX, Goto
<1>13. ASSUME NEW g \in Callers, Started(g) PROVE Watched'
  BY <1>0, <1>13 DEF Started, Watched, Coming, Kinds
<1>14. ASSUME NEW g \in Callers, Write(g) \/ WriteFails(g) PROVE Watched'
  <2>1. pc[g] = "write" /\ \A h \in Goroutines \ {g} : pc'[h] = pc[h]
    BY <1>0, <1>14 DEF Write, WriteFails, Goto
  <2>2. (armed => armed') /\ UNCHANGED <<txState, lock, ctrl, stray>>
    <3>1. CASE Write(g)
      <4>1. armed' = (armed \/ Head(todo[g]) = "frame")
        BY <3>1 DEF Write
      <4>2. UNCHANGED <<txState, lock, ctrl, stray>>
        BY <3>1 DEF Write, history
      <4> QED BY <4>1, <4>2, Zenon
    <3>2. CASE WriteFails(g)
      BY <3>2 DEF WriteFails, history
    <3> QED BY <1>14, <3>1, <3>2
  <2> QED BY <2>1, <2>2, StillComing DEF InStop
<1>15. ASSUME NEW g \in Goroutines, StopLock(g) PROVE Watched'
  <2>1. CASE txState = "idle"
    BY <1>15, <2>1 DEF StopLock, GInv, Watched, Coming, Switching
  <2>2. CASE txState # "idle"
    <3>1. pc'[g] = "off read" /\ lock' = g
      BY <1>15, <2>2, WakeType DEF StopLock, GInv, IType
    <3> QED BY <3>1 DEF Watched, Switching, InStop
  <2> QED BY <2>1, <2>2
<1>16. ASSUME NEW g \in Goroutines, ReadMode(g, "off read", "off write") PROVE Watched'
  <2>1. lock' = g /\ pc'[g] = "off write"
    BY <1>0, <1>16 DEF LockHeld, ReadMode, Goto, InStop
  <2> QED BY <2>1 DEF Watched, Switching, InStop
<1>17. ASSUME NEW g \in Goroutines, DisableTX(g) PROVE Watched'
  BY <1>17, WriteModeStrays DEF DisableTX, Watched
<1>18. ASSUME NEW t \in TimerRuns, Fire(t) PROVE Watched'
  <2>1. pc'[t] = "stop" /\ \A h \in Goroutines \ {t} : pc'[h] = pc[h]
    BY <1>0, <1>18 DEF Fire, Goto
  <2>2. pc[t] = "out"
    BY <1>18 DEF Fire
  <2> QED BY <1>18, <2>1, <2>2 DEF Fire, GInv, Watched, Coming, Switching, InStop, history
<1> QED BY <1>1, <1>2, <1>3, <1>6, <1>8, <1>9, <1>10, <1>11, <1>12, <1>13, <1>14, <1>15, <1>16,
           <1>17, <1>18 DEF Next, InCall, Stop

\* For any number of callers and runs of the timer, a transmitter that is on has
\* its safety timer running or a stop on its way, unless a register access failed
\* or was undone by another (startTX, stopTX, txTimer).
THEOREM TransmitterGuarded == Spec => []Guarded
<1>1. Init => GInv
  BY InitType DEF GInv, Init, Watched
<1>2. GInv /\ [Next]_vars => GInv'
  BY StepType, StepWatched DEF GInv
<1>3. GInv => Guarded
  BY DEF GInv, IType, TypeOK, Watched, Coming, Switching, Guarded, SwitchOffComes
<1> QED BY <1>1, <1>2, <1>3, PTL DEF Spec
-----------------------------------------------------------------------------
(* The receiver stays on. *)

On == {"ref", "rx"} \subseteq ctrl

\* From the reset on the receiver is on, and whoever is about to write the mode
\* has read it so; before that nobody else is there.
Hears ==
  /\ pc[Main] \in {"pll", "pll again"} \/ (Ready /\ ~Ending) => On
  /\ Ready /\ ~Ending =>
       \A g \in Goroutines :
         pc[g] \in {"on write", "off write", "start write"} => {"ref", "rx"} \subseteq seen[g]
  /\ ~Ready => ~armed /\ \A g \in Goroutines \ {Main} : pc[g] = "out"

HInv == IType /\ Hears

\* A step of another goroutine that keeps the mode, having read it if it is to write it.
LEMMA StillHears ==
  ASSUME HInv, NEW g \in Goroutines \ {Main}, pc[g] # "out" \/ Ready,
         \A h \in Goroutines \ {g} : pc'[h] = pc[h] /\ seen'[h] = seen[h],
         On => On',
         pc'[g] \in {"on write", "off write", "start write"} => seen'[g] = ctrl
  PROVE  Hears'
<1>1. Ready /\ Ready' /\ pc'[Main] = pc[Main] /\ (Ending' <=> Ending)
  BY WhoIsWho DEF HInv, Hears, Ready, Ending
<1>2. Ready' /\ ~Ending' => On /\ On'
  BY <1>1 DEF HInv, Hears
<1>3. pc'[Main] \notin {"pll", "pll again"}
  BY <1>1 DEF Ready, BringUp
<1>4. ASSUME NEW h \in Goroutines, Ready', ~Ending',
             pc'[h] \in {"on write", "off write", "start write"}
      PROVE  {"ref", "rx"} \subseteq seen'[h]
  <2>1. CASE h = g
    BY <1>2, <1>4, <2>1 DEF On
  <2>2. CASE h # g
    BY <1>1, <1>4, <2>2 DEF HInv, Hears
  <2> QED BY <2>1, <2>2
<1> QED BY <1>1, <1>2, <1>3, <1>4 DEF Hears

LEMMA MainHears ==
  ASSUME HInv, Configure \/ CheckPLL \/ Start \/ Close
  PROVE  Hears'
<1> USE WhoIsWho
<1>0. pc \in [Goroutines -> Places] /\ seen \in [Goroutines -> SUBSET Bits]
  BY DEF HInv, IType, TypeOK
<1>1. CASE Configure
  <2>1. \/ pc'[Main] \in {"pll", "pll again"} /\ On'
        \/ pc'[Main] = "failed"
    BY <1>0, <1>1 DEF Configure, Goto, On
  <2>2. /\ ~Ready /\ ~Ready' /\ armed' = armed
        /\ \A g \in Goroutines \ {Main} : pc'[g] = pc[g]
    BY <1>0, <1>1 DEF Configure, Goto, Ready, BringUp
  <2> QED BY <2>1, <2>2 DEF HInv, Hears
<1>2. CASE CheckPLL
  <2>1. /\ pc'[Main] \in {"start read", "failed", "reconfigure"} /\ On /\ On'
        /\ \A g \in Goroutines \ {Main} : pc[g] = "out" /\ pc'[g] = "out"
        /\ ~armed /\ ~armed'
    BY <1>0, <1>2 DEF CheckPLL, Goto, HInv, Hears, Ready, BringUp, On, history
  <2>2. \A g \in Goroutines : pc'[g] \notin {"on write", "off write", "start write"}
    BY <2>1
  <2> QED BY <2>1, <2>2 DEF Hears, Ready, Ending
<1>3. CASE ReadMode(Main, "start read", "start write")
  <2>1. Ready /\ ~Ending /\ Ready' /\ ~Ending' /\ On /\ On'
    BY <1>0, <1>3 DEF ReadMode, Goto, HInv, Hears, Ready, Ending, BringUp, Closing, On, history
  <2>2. seen'[Main] = ctrl /\ \A g \in Goroutines \ {Main} : pc'[g] = pc[g] /\ seen'[g] = seen[g]
    BY <1>0, <1>3 DEF ReadMode, Goto
  <2>3. pc'[Main] = "start write"
    BY <1>0, <1>3 DEF ReadMode, Goto
  <2> QED BY <2>1, <2>2, <2>3 DEF HInv, Hears, On
<1>4. CASE SetMain("start write", "out", {"rx"}, {})
  <2>1. Ready /\ ~Ending /\ Ready' /\ ~Ending' /\ On /\ {"ref", "rx"} \subseteq seen[Main]
    BY <1>0, <1>4 DEF SetMain, Goto, HInv, Hears, Ready, Ending, BringUp, Closing
  <2>2. On'
    BY <1>4, <2>1 DEF SetMain, WriteMode, On
  <2>3. /\ pc'[Main] = "out"
        /\ \A g \in Goroutines \ {Main} : pc'[g] = pc[g] /\ seen'[g] = seen[g]
    BY <1>0, <1>4 DEF SetMain, WriteMode, Goto
  <2> QED BY <2>1, <2>2, <2>3 DEF HInv, Hears
<1>5. CASE pc[Main] = "out" /\ Goto(Main, "stop")
           /\ UNCHANGED <<txState, lock, armed, ctrl, seen, kind, todo, burst, history>>
  <2>1. Ready /\ ~Ending /\ Ready' /\ ~Ending' /\ On /\ On'
    BY <1>0, <1>5 DEF Goto, HInv, Hears, Ready, Ending, BringUp, Closing, On
  <2>2. pc'[Main] = "stop" /\ \A g \in Goroutines \ {Main} : pc'[g] = pc[g] /\ seen'[g] = seen[g]
    BY <1>0, <1>5 DEF Goto
  <2> QED BY <2>1, <2>2 DEF HInv, Hears
<1>6. CASE \/ ReadMode(Main, "close rx read", "close rx write")
           \/ SetMain("close rx write", "close tx read", {}, {"rx"})
           \/ ReadMode(Main, "close tx read", "close tx write")
           \/ CloseEnd
  <2>1. pc'[Main] \in Closing
    BY <1>0, <1>6 DEF ReadMode, SetMain, CloseEnd, Goto, Closing
  <2> QED BY <2>1 DEF Hears, Ready, Ending, Closing, BringUp
<1> QED BY <1>1, <1>2, <1>3, <1>4, <1>5, <1>6 DEF Start, Close

LEMMA StepHears == HInv /\ [Next]_vars => Hears'
<1> SUFFICES ASSUME HInv, [Next]_vars PROVE Hears'
  OBVIOUS
<1> USE WhoIsWho
<1>0. pc \in [Goroutines -> Places] /\ seen \in [Goroutines -> SUBSET Bits] /\ kind \in [Callers -> Kinds]
  BY DEF HInv, IType, TypeOK
<1>1. CASE UNCHANGED vars
  BY <1>1 DEF vars, HInv, Hears, Ready, Ending, On
<1>2. ASSUME NEW g \in Callers, TransmitPacket(g) \/ TransmitVoiceStream(g) PROVE Hears'
  <2>1. PICK k, blocks : Call(g, k, blocks)
    BY <1>2 DEF TransmitPacket, TransmitVoiceStream
  <2> QED BY <1>0, <2>1, StillHears DEF Call, Goto, On
<1>3. ASSUME NEW g \in Callers, StartLock(g) \/ Rewait(g) PROVE Hears'
  <2>1. /\ pc[g] \in {"lock", "woken"} /\ pc'[g] \in {"write", "recover", "wait"}
        /\ \A h \in Goroutines \ {g} : pc'[h] = pc[h]
    BY <1>0, <1>3 DEF StartLock, Rewait, Goto
  <2>2. UNCHANGED <<ctrl, seen>>
    BY <1>3 DEF StartLock, Rewait
  <2> QED BY <2>1, <2>2, StillHears DEF On
<1>4. ASSUME NEW g \in Callers, Recover(g) PROVE Hears'
  <2>1. /\ pc[g] = "recover" /\ UNCHANGED ctrl
        /\ \A h \in Goroutines \ {g} : pc'[h] = pc[h] /\ seen'[h] = seen[h]
    BY <1>0, <1>4 DEF Recover, StartFails, Goto
  <2>2. pc'[g] \in {"on write", "off write", "start write"} => seen'[g] = ctrl
    BY <1>0, <1>4 DEF Recover, StartFails, Goto
  <2> QED BY <2>1, <2>2, StillHears DEF On
<1>5. ASSUME NEW g \in Callers, EnableTX(g) PROVE Hears'
  <2>1. /\ pc[g] = "on write" /\ pc'[g] \in {"on check", "stop", "out"}
        /\ \A h \in Goroutines \ {g} : pc'[h] = pc[h] /\ seen'[h] = seen[h]
    BY <1>0, <1>5 DEF EnableTX, StartFails, Goto
  <2>2. CASE Ending
    BY <1>0, <2>1, <2>2 DEF Hears, Ready, Ending, Closing, BringUp
  <2>3. CASE ~Ending
    <3>1. {"ref", "rx"} \subseteq seen[g]
      BY <2>1, <2>3 DEF HInv, Hears
    <3>2. On => On'
      BY <1>5, <3>1 DEF EnableTX, On
    <3> QED BY <2>1, <3>2, StillHears
  <2> QED BY <2>2, <2>3
<1>6. ASSUME NEW g \in Callers, Started(g) PROVE Hears'
  <2>1. /\ pc[g] = "on check" /\ pc'[g] \in {"write", "stop", "out"} /\ UNCHANGED ctrl
        /\ \A h \in Goroutines \ {g} : pc'[h] = pc[h] /\ seen'[h] = seen[h]
    BY <1>0, <1>6 DEF Started, StartFails, Goto
  <2> QED BY <2>1, StillHears DEF On
<1>7. ASSUME NEW g \in Callers, Write(g) \/ WriteFails(g) PROVE Hears'
  <2>1. /\ pc[g] = "write" /\ pc'[g] \in {"write", "stop", "out"}
        /\ \A h \in Goroutines \ {g} : pc'[h] = pc[h]
    BY <1>0, <1>7 DEF Write, WriteFails, Goto
  <2>2. UNCHANGED <<ctrl, seen>>
    BY <1>7 DEF Write, WriteFails
  <2> QED BY <2>1, <2>2, StillHears DEF On
<1>8. ASSUME NEW g \in Goroutines, Stop(g) PROVE Hears'
  <2>1. PICK place \in {"stop", "off read", "off write"} : pc[g] = place
    BY <1>8 DEF Stop, StopLock, ReadMode, DisableTX
  <2>2. Ready
    BY <2>1 DEF HInv, Hears, Ready, BringUp
  <2>3. CASE Ending
    <3>1. g # Main
      BY <2>1, <2>3 DEF Ending, Closing
    <3>2. pc'[Main] = pc[Main]
      <4>1. CASE StopLock(g) /\ txState # "idle"
        BY <2>3, <3>1, <4>1, WakeType DEF StopLock, HInv, IType, Ending, Closing
      <4>2. CASE ~(StopLock(g) /\ txState # "idle")
        BY <1>0, <1>8, <3>1, <4>2 DEF Stop, StopLock, ReadMode, DisableTX, Goto
      <4> QED BY <4>1, <4>2
    <3> QED BY <2>2, <2>3, <3>2 DEF Hears, Ready, Ending, Closing
  <2>4. CASE ~Ending
    <3>1. On /\ \A h \in Goroutines :
                  pc[h] \in {"on write", "off write", "start write"} => {"ref", "rx"} \subseteq seen[h]
      BY <2>2, <2>4 DEF HInv, Hears
    <3>2. On'
      BY <1>8, <3>1 DEF Stop, StopLock, ReadMode, DisableTX, WriteMode, On, history
    <3>3. \A h \in Goroutines \ {g} :
            pc'[h] = (IF pc[h] = "wait" THEN "woken" ELSE pc[h]) \/ pc'[h] = pc[h]
      <4>1. CASE StopLock(g) /\ txState # "idle"
        BY <4>1, WakeType DEF StopLock, HInv, IType
      <4>2. CASE ~(StopLock(g) /\ txState # "idle")
        BY <1>0, <1>8, <4>2 DEF Stop, StopLock, ReadMode, DisableTX, Goto
      <4> QED BY <4>1, <4>2
    <3>4. \A h \in Goroutines \ {g} : seen'[h] = seen[h]
      BY <1>0, <1>8 DEF Stop, StopLock, ReadMode, DisableTX, WriteMode
    <3>5. pc'[g] \in {"off read", "off write", "out", "close rx read"}
          /\ (pc'[g] = "off write" => seen'[g] = ctrl)
      <4>1. CASE StopLock(g)
        <5>1. CASE txState = "idle"
          BY <1>0, <4>1, <5>1 DEF StopLock, Goto, AfterStop
        <5>2. CASE txState # "idle"
          BY <4>1, <5>2, WakeType DEF StopLock, HInv, IType
        <5> QED BY <5>1, <5>2
      <4>2. CASE ReadMode(g, "off read", "off write")
        BY <1>0, <4>2 DEF ReadMode, Goto
      <4>3. CASE DisableTX(g)
        BY <1>0, <4>3 DEF DisableTX, Goto, AfterStop
      <4> QED BY <1>8, <4>1, <4>2, <4>3 DEF Stop
    <3>6. Ready'
      BY <2>2, <3>3, <3>5 DEF Ready, BringUp
    <3>7. ASSUME NEW h \in Goroutines, pc'[h] \in {"on write", "off write", "start write"}
          PROVE  {"ref", "rx"} \subseteq seen'[h]
      <4>1. CASE h = g
        BY <3>1, <3>5, <3>7, <4>1 DEF On
      <4>2. CASE h # g
        BY <3>1, <3>3, <3>4, <3>7, <4>2
      <4> QED BY <4>1, <4>2
    <3> QED BY <3>2, <3>6, <3>7 DEF Hears
  <2> QED BY <2>3, <2>4
<1>9. ASSUME NEW t \in TimerRuns, Fire(t) PROVE Hears'
  <2>1. Ready
    BY <1>9 DEF Fire, HInv, Hears
  <2> QED BY <1>0, <1>9, <2>1, StillHears DEF Fire, Goto, On
<1> QED BY <1>1, <1>2, <1>3, <1>4, <1>5, <1>6, <1>7, <1>8, <1>9, MainHears DEF Next, InCall

\* For any number of callers, the receiver and the reference stay on from the end of
\* bring-up until Close, whichever goroutines read and write the mode (sx1255SetMode).
THEOREM ReceiverStaysOn == Spec => []NeverDeaf
<1>1. Init => HInv
  BY InitType, WhoIsWho DEF HInv, Init, Hears, Ready, Ending, BringUp
<1>2. HInv /\ [Next]_vars => HInv'
  BY StepType, StepHears DEF HInv
<1>3. HInv => NeverDeaf
  BY DEF HInv, Hears, NeverDeaf, On
<1> QED BY <1>1, <1>2, <1>3, PTL DEF Spec
-----------------------------------------------------------------------------
(* Packets and streams do not get mixed. *)

Other(k) == IF k = "packet" THEN "frame" ELSE "chunk"
OfKind(k) == Seq(Blocks \ {Other(k)})

\* A call writes blocks of its kind.  As long as nothing was cut, whoever writes
\* is of the transmission's kind, nobody writes while it is being enabled, and
\* nothing of the other kind is on the air.
Unmixed ==
  /\ \A g \in Callers : todo[g] \in OfKind(kind[g])
  /\ ~cut => \A g \in Callers : pc[g] = "write" => txState = kind[g]
  /\ ~cut => \A g \in Callers : pc[g] = "on check" =>
                burst = {} /\ \A h \in Callers : pc[h] # "write"
  /\ ~cut /\ txState \in Kinds => Other(txState) \notin burst
  /\ BurstOfOneKind

UInv == IType /\ Unmixed

\* Steps that let nothing be written and nobody write.
LEMMA StillUnmixed ==
  ASSUME UInv, NEW g \in Goroutines,
         UNCHANGED <<txState, todo, kind, burst, cut>>,
         \A h \in Goroutines \ {g} : pc'[h] = pc[h],
         pc'[g] \notin {"write", "on check"}
  PROVE  Unmixed'
BY WhoIsWho DEF UInv, Unmixed, BurstOfOneKind

LEMMA StepUnmixed == UInv /\ [Next]_vars => Unmixed'
<1> SUFFICES ASSUME UInv, [Next]_vars PROVE Unmixed'
  OBVIOUS
<1> USE WhoIsWho
<1>0. /\ pc \in [Goroutines -> Places] /\ kind \in [Callers -> Kinds] /\ cut \in BOOLEAN
      /\ todo \in [Callers -> Seq(Blocks)] /\ LockHeld
  BY DEF UInv, IType, TypeOK
<1>1. CASE UNCHANGED vars
  BY <1>1 DEF vars, UInv, Unmixed, BurstOfOneKind
<1>2. CASE Configure \/ CheckPLL \/ Start \/ Close
  <2>1. UNCHANGED <<txState, todo, kind, burst, cut>>
    BY <1>2 DEF Configure, CheckPLL, Start, Close, ReadMode, SetMain, CloseEnd, history
  <2>2. /\ \A h \in Goroutines \ {Main} : pc'[h] = pc[h]
        /\ pc'[Main] \notin {"write", "on check"}
    BY <1>0, <1>2 DEF Configure, CheckPLL, Start, Close, ReadMode, SetMain, CloseEnd, Goto
  <2> QED BY <2>1, <2>2, StillUnmixed
<1>3. ASSUME NEW g \in Callers, TransmitPacket(g) \/ TransmitVoiceStream(g) PROVE Unmixed'
  <2>1. PICK k \in Kinds, blocks \in Seq(Blocks) :
          Call(g, k, blocks) /\ blocks \in OfKind(k)
    <3>1. CASE TransmitPacket(g)
      <4>1. PacketBlocks \in OfKind("packet") /\ PacketBlocks \in Seq(Blocks)
        BY BlocksType, SeqOfMore DEF OfKind, Other
      <4> QED BY <3>1, <4>1 DEF TransmitPacket, Kinds
    <3>2. CASE TransmitVoiceStream(g)
      <4>1. /\ <<"frame">> \in OfKind("stream") /\ <<"frame", "eot">> \in OfKind("stream")
            /\ <<"frame">> \in Seq(Blocks) /\ <<"frame", "eot">> \in Seq(Blocks)
        BY DEF OfKind, Other, Blocks
      <4> QED BY <3>2, <4>1 DEF TransmitVoiceStream, Kinds
    <3> QED BY <1>3, <3>1, <3>2
  <2>2. /\ kind'[g] = k /\ todo'[g] = blocks
        /\ \A h \in Callers \ {g} : kind'[h] = kind[h] /\ todo'[h] = todo[h]
    BY <1>0, <2>1 DEF Call
  <2>3. pc'[g] = "lock" /\ \A h \in Goroutines \ {g} : pc'[h] = pc[h]
    BY <1>0, <2>1 DEF Call, Goto
  <2>4. UNCHANGED <<txState, burst, cut>>
    BY <2>1 DEF Call
  <2> QED BY <2>1, <2>2, <2>3, <2>4 DEF UInv, Unmixed, BurstOfOneKind
<1>4. ASSUME NEW g \in Callers, StartLock(g) \/ Rewait(g) PROVE Unmixed'
  <2>1. /\ lock = NoOne /\ \A h \in Goroutines \ {g} : pc'[h] = pc[h]
        /\ pc'[g] \in {"write", "recover", "wait"}
        /\ pc'[g] = "write" => txState = kind[g]
    BY <1>0, <1>4 DEF StartLock, Rewait, Goto
  <2>2. \A h \in Callers : pc[h] # "on check"
    BY <1>0, <2>1 DEF LockHeld, InStart
  <2>3. UNCHANGED <<txState, todo, kind, burst, cut>>
    BY <1>4 DEF StartLock, Rewait, history
  <2> QED BY <2>1, <2>2, <2>3 DEF UInv, Unmixed, BurstOfOneKind
<1>5. ASSUME NEW g \in Callers, Recover(g) PROVE Unmixed'
  <2>1. /\ \A h \in Goroutines \ {g} : pc'[h] = pc[h]
        /\ pc'[g] \notin {"write", "on check"}
    BY <1>0, <1>5 DEF Recover, StartFails, Goto
  <2>2. UNCHANGED <<txState, todo, kind, burst, cut>>
    BY <1>5 DEF Recover, history
  <2> QED BY <2>1, <2>2, StillUnmixed
<1>6. ASSUME NEW g \in Callers, EnableTX(g) PROVE Unmixed'
  <2>1. CASE StartFails(g) /\ UNCHANGED <<burst, history>>
    <3>1. /\ \A h \in Goroutines \ {g} : pc'[h] = pc[h]
          /\ pc'[g] \notin {"write", "on check"}
      BY <1>0, <2>1 DEF StartFails, Goto
    <3>2. UNCHANGED <<txState, todo, kind, burst, cut>>
      BY <1>6, <2>1 DEF EnableTX, history
    <3> QED BY <3>1, <3>2, StillUnmixed
  <2>2. CASE burst' = {} /\ cut' = (\E h \in Callers \ {g} : pc[h] = "write") /\ Goto(g, "on check")
    <3>1. pc'[g] = "on check" /\ \A h \in Goroutines \ {g} : pc'[h] = pc[h]
      BY <1>0, <2>2 DEF Goto
    <3>2. ~cut' => \A h \in Callers : pc'[h] # "write"
      BY <2>2, <3>1
    <3>3. UNCHANGED <<txState, todo, kind>>
      BY <1>6 DEF EnableTX
    <3> QED BY <2>2, <3>1, <3>2, <3>3 DEF UInv, Unmixed, BurstOfOneKind
  <2> QED BY <1>6, <2>1, <2>2 DEF EnableTX
<1>7. ASSUME NEW g \in Callers, Started(g) PROVE Unmixed'
  <2>1. UNCHANGED <<kind, burst, cut>> /\ pc[g] = "on check"
    BY <1>7 DEF Started
  <2>2. \A h \in Callers : pc[h] = "on check" => h = g
    BY <1>0, <2>1 DEF LockHeld, InStart
  <2>3. \A h \in Callers : todo'[h] \in OfKind(kind'[h])
    <3>1. CASE todo' = todo
      BY <2>1, <3>1 DEF UInv, Unmixed
    <3>2. CASE kind[g] = "stream" /\ todo' = [todo EXCEPT ![g] = <<"lsf">> \o @]
      <4>1. <<"lsf">> \in OfKind("stream") /\ todo[g] \in OfKind("stream")
        <5>1. <<"lsf">> \in OfKind("stream")
          BY DEF OfKind, Other, Blocks
        <5>2. todo[g] \in OfKind("stream")
          BY <3>2 DEF UInv, Unmixed
        <5> QED BY <5>1, <5>2
      <4>2. <<"lsf">> \o todo[g] \in OfKind("stream")
        BY <4>1, ConcatProperties DEF OfKind
      <4>3. todo'[g] = <<"lsf">> \o todo[g] /\ \A h \in Callers \ {g} : todo'[h] = todo[h]
        BY <1>0, <3>2
      <4> QED BY <2>1, <3>2, <4>2, <4>3 DEF UInv, Unmixed
    <3>3. CASE UNCHANGED <<txState, armed, todo>>
      BY <3>1, <3>3
    <3> QED BY <1>7, <3>1, <3>2, <3>3 DEF Started
  <2>4. CASE pc'[g] = "write"
    <3>1. txState' = kind[g]
      BY <1>0, <1>7, <2>4 DEF Started, StartFails, Goto
    <3>2. \A h \in Goroutines \ {g} : pc'[h] = pc[h]
      BY <1>0, <1>7 DEF Started, StartFails, Goto
    <3>3. ~cut => burst = {} /\ \A h \in Callers : pc[h] # "write"
      BY <2>1 DEF UInv, Unmixed
    <3> QED BY <2>1, <2>2, <2>3, <2>4, <3>1, <3>2, <3>3 DEF UInv, Unmixed, BurstOfOneKind
  <2>5. CASE pc'[g] # "write"
    <3>1. txState' = txState
      BY <1>0, <1>7, <2>5 DEF Started, Goto
    <3>2. pc'[g] \in {"stop", "out"} /\ \A h \in Goroutines \ {g} : pc'[h] = pc[h]
      BY <1>0, <1>7, <2>5 DEF Started, StartFails, Goto
    <3> QED BY <2>1, <2>3, <3>1, <3>2 DEF UInv, Unmixed, BurstOfOneKind
  <2> QED BY <2>4, <2>5
<1>8. ASSUME NEW g \in Callers, Write(g) PROVE Unmixed'
  <2>1. todo[g] \in Seq(Blocks) /\ todo[g] # <<>>
    BY <1>0, <1>8 DEF UInv, IType, SomethingTodo, Write
  <2>2. Head(todo[g]) # Other(kind[g]) /\ Tail(todo[g]) \in OfKind(kind[g])
    <3>1. todo[g] \in OfKind(kind[g])
      BY DEF UInv, Unmixed
    <3> QED BY <2>1, <3>1, HeadTailProperties DEF OfKind
  <2>3. todo'[g] = Tail(todo[g]) /\ \A h \in Callers \ {g} : todo'[h] = todo[h]
    BY <1>0, <1>8 DEF Write
  <2>4. /\ pc[g] = "write" /\ UNCHANGED <<txState, kind, cut>>
        /\ burst' \subseteq burst \cup {Head(todo[g])}
    BY <1>8 DEF Write, history
  <2>5. /\ pc'[g] \in {"write", "stop", "out"}
        /\ \A h \in Goroutines \ {g} : pc'[h] = pc[h]
    BY <1>0, <1>8 DEF Write, Goto
  <2>6. kind[g] \in {"packet", "stream"}
    BY <1>0 DEF Kinds
  <2>7. ~cut => Other(kind[g]) \notin burst' /\ txState = kind[g]
    BY <2>2, <2>4, <2>6 DEF UInv, Unmixed, Kinds
  <2>8. BurstOfOneKind'
    BY <2>4, <2>6, <2>7, <1>0 DEF UInv, Unmixed, BurstOfOneKind, Other
  <2> QED BY <2>2, <2>3, <2>4, <2>5, <2>7, <2>8 DEF UInv, Unmixed
<1>9. ASSUME NEW g \in Callers, WriteFails(g) PROVE Unmixed'
  <2>1. /\ pc'[g] \in {"stop", "out"} /\ UNCHANGED <<txState, kind, cut, burst>>
        /\ \A h \in Goroutines \ {g} : pc'[h] = pc[h]
    BY <1>0, <1>9 DEF WriteFails, Goto, history
  <2>2. todo'[g] = <<>> /\ \A h \in Callers \ {g} : todo'[h] = todo[h]
    BY <1>0, <1>9 DEF WriteFails
  <2>3. \A h \in Callers : todo'[h] \in OfKind(kind'[h])
    <3>1. \A k : <<>> \in OfKind(k)
      BY DEF OfKind
    <3> QED BY <2>1, <2>2, <3>1 DEF UInv, Unmixed
  <2> QED BY <2>1, <2>3 DEF UInv, Unmixed, BurstOfOneKind
<1>10. ASSUME NEW g \in Goroutines, StopLock(g) PROVE Unmixed'
  <2>1. CASE txState = "idle"
    <3>1. /\ \A h \in Goroutines \ {g} : pc'[h] = pc[h]
          /\ pc'[g] \notin {"write", "on check"}
      BY <1>0, <1>10, <2>1 DEF StopLock, Goto, AfterStop
    <3>2. UNCHANGED <<txState, todo, kind, burst, cut>>
      BY <1>10, <2>1 DEF StopLock
    <3> QED BY <3>1, <3>2, StillUnmixed
  <2>2. CASE txState # "idle"
    <3>1. /\ pc'[g] = "off read"
          /\ \A h \in Goroutines \ {g} : pc'[h] = IF pc[h] = "wait" THEN "woken" ELSE pc[h]
      BY <1>10, <2>2, WakeType DEF StopLock, UInv, IType
    <3>2. /\ UNCHANGED <<todo, kind, burst>> /\ txState' = "idle" /\ pc[g] = "stop"
          /\ cut' = (cut \/ \E h \in Callers \ {g} : pc[h] = "write")
      BY <1>10, <2>2 DEF StopLock
    <3>3. ~cut' => ~cut /\ \A h \in Callers : pc'[h] # "write"
      BY <3>1, <3>2
    <3>4. "idle" \notin Kinds
      BY DEF Kinds
    <3>5. ~cut' => \A h \in Callers : pc'[h] = "on check" => burst' = {}
      BY <3>1, <3>2, <3>3 DEF UInv, Unmixed
    <3>6. BurstOfOneKind'
      BY <1>0, <3>2 DEF UInv, Unmixed, BurstOfOneKind
    <3> QED BY <3>2, <3>3, <3>4, <3>5, <3>6 DEF UInv, Unmixed
  <2> QED BY <2>1, <2>2
<1>11. ASSUME NEW g \in Goroutines, ReadMode(g, "off read", "off write") \/ DisableTX(g)
       PROVE  Unmixed'
  <2>1. /\ \A h \in Goroutines \ {g} : pc'[h] = pc[h]
        /\ pc'[g] \notin {"write", "on check"}
    BY <1>0, <1>11 DEF ReadMode, DisableTX, Goto, AfterStop
  <2>2. UNCHANGED <<txState, todo, kind, burst, cut>>
    BY <1>11 DEF ReadMode, DisableTX, history
  <2> QED BY <2>1, <2>2, StillUnmixed
<1>12. ASSUME NEW t \in TimerRuns, Fire(t) PROVE Unmixed'
  <2>1. /\ \A h \in Goroutines \ {t} : pc'[h] = pc[h] /\ pc'[t] = "stop"
        /\ UNCHANGED <<txState, todo, kind, burst, cut>>
    BY <1>0, <1>12 DEF Fire, Goto, history
  <2>2. t \in Goroutines /\ pc'[t] \notin {"write", "on check"}
    BY <1>0, <1>12 DEF Fire, Goto
  <2> QED BY <2>1, <2>2, StillUnmixed
<1> QED BY <1>1, <1>2, <1>3, <1>4, <1>5, <1>6, <1>7, <1>8, <1>9, <1>10, <1>11, <1>12
        DEF Next, InCall, Stop

\* For any number of callers and packets of any length, chunks of a packet and frames
\* of a stream share a transmission only if it was stopped under a goroutine that
\* went on writing (startTX, stopTX, TransmitPacket, TransmitVoiceStream).
THEOREM BurstsUnmixed == Spec => []BurstOfOneKind
<1>1. Init => UInv
  <2>1. \A g \in Callers : Init => todo[g] \in OfKind(kind[g])
    <3>1. \A k : <<>> \in OfKind(k)
      BY DEF OfKind
    <3> QED BY <3>1 DEF Init
  <2>2. Init => \A g \in Callers : pc[g] = "out"
    BY WhoIsWho DEF Init
  <2> QED BY InitType, <2>1, <2>2 DEF UInv, Init, Unmixed, BurstOfOneKind, Kinds
<1>2. UInv /\ [Next]_vars => UInv'
  BY StepType, StepUnmixed DEF UInv
<1>3. UInv => BurstOfOneKind
  BY DEF UInv, Unmixed
<1> QED BY <1>1, <1>2, <1>3, PTL DEF Spec
-----------------------------------------------------------------------------
(* The link setup comes first. *)

MainWrites == {"start write", "close rx write", "close tx write"}
\* The transmitter is off, and no write of Main's will switch it on.
Silent == "tx" \notin ctrl /\ (pc[Main] \in MainWrites => "tx" \notin seen[Main])
\* The link setup is on the air, or nothing will be until the next transmission.
Led == "lsf" \in burst \/ Silent
\* g has the link setup still to write, or failed to.
Leading(g) == pc[g] = "stop" \/ (pc[g] = "write" /\ Head(todo[g]) = "lsf")

\* The state is "idle" while somebody switches the transmitter on or off; a packet
\* begins with its link setup; what was switched on was seen to be on; and if the
\* transmitter is off in a transmission, it remains so.
Prepared ==
  /\ \A g \in Goroutines : pc[g] \in InStart \cup InStop => txState = "idle"
  /\ \A g \in Callers :
       kind[g] = "packet" /\ pc[g] \in {"lock", "wait", "woken"} \cup InStart => Head(todo[g]) = "lsf"
  /\ \A g \in Callers : pc[g] = "on check" => "tx" \in seen[g]
  /\ txState # "idle" /\ "tx" \notin ctrl => Silent

\* Without an overlap a transmission has one call of its kind at a time.
Alone ==
  ~overlap =>
    \A g, h \in Callers :
      /\ pc[g] # "out" /\ pc[h] # "out" /\ kind[g] = kind[h]
      /\ pc[g] = "on check" \/ kind[g] = txState
      => g = h

\* In a transmission that was not cut and has no overlap, whoever writes writes
\* the link setup, or it is through; if it is not, its writer is still there.
First ==
  ~cut /\ ~overlap /\ txState # "idle" =>
    /\ \A g \in Callers : pc[g] = "write" => Head(todo[g]) = "lsf" \/ Led
    /\ Led \/ \E g \in Callers : kind[g] = txState /\ Leading(g)

FInv == UInv /\ Prepared /\ Alone /\ First /\ LinkSetupFirst

\* What Main does moves nobody else and starts no transmission.
LEMMA MainMoves ==
  ASSUME IType, Configure \/ CheckPLL \/ Start \/ Close
  PROVE  /\ UNCHANGED <<txState, kind, todo, burst, cut, overlap>>
         /\ \A h \in Goroutines \ {Main} : pc'[h] = pc[h] /\ seen'[h] = seen[h]
         /\ pc'[Main] \notin {"write"} \cup InStart \cup InStop
         /\ pc'[Main] \in MainWrites => seen'[Main] = ctrl'
<1>0. pc \in [Goroutines -> Places] /\ seen \in [Goroutines -> SUBSET Bits] /\ Main \in Goroutines
  BY WhoIsWho DEF IType, TypeOK
<1>1. UNCHANGED <<txState, kind, todo, burst, cut, overlap>>
  BY DEF Configure, CheckPLL, Start, Close, ReadMode, SetMain, CloseEnd, history
<1>2. \A h \in Goroutines \ {Main} : pc'[h] = pc[h] /\ seen'[h] = seen[h]
  BY <1>0 DEF Configure, CheckPLL, Start, Close, ReadMode, SetMain, CloseEnd, WriteMode, Goto
<1>3. /\ pc'[Main] \notin {"write"} \cup InStart \cup InStop
      /\ pc'[Main] \in MainWrites => seen'[Main] = ctrl'
  BY <1>0 DEF Configure, CheckPLL, Start, Close, ReadMode, SetMain, CloseEnd, Goto, InStart, InStop,
              MainWrites
<1> QED BY <1>1, <1>2, <1>3

\* A call has a kind, and a packet's begins with the link setup.
LEMMA CallBegins ==
  ASSUME IType, NEW g \in Callers, TransmitPacket(g) \/ TransmitVoiceStream(g)
  PROVE  /\ UNCHANGED <<txState, ctrl, seen, burst, cut>>
         /\ pc[g] = "out" /\ pc'[g] = "lock" /\ \A h \in Goroutines \ {g} : pc'[h] = pc[h]
         /\ \A h \in Callers \ {g} : kind'[h] = kind[h] /\ todo'[h] = todo[h]
         /\ kind'[g] = "packet" => Head(todo'[g]) = "lsf"
         /\ ~overlap' => ~overlap /\ \A h \in Callers \ {g} : pc[h] = "out" \/ kind[h] # kind'[g]
<1>0. pc \in [Goroutines -> Places] /\ kind \in [Callers -> Kinds] /\ todo \in [Callers -> Seq(Blocks)]
      /\ g \in Goroutines
  BY WhoIsWho DEF IType, TypeOK
<1>1. PICK k, blocks : k \in Kinds /\ Call(g, k, blocks) /\ (k = "packet" => Head(blocks) = "lsf")
  <2>1. CASE TransmitPacket(g)
    <3>1. Head(PacketBlocks) = "lsf"
      <4>. DEFINE chunks == [i \in 1..Chunks |-> "chunk"]
      <4>1. chunks \in Seq(Blocks) /\ <<"lsf">> \in Seq(Blocks) /\ <<"eot">> \in Seq(Blocks)
        BY SX1255Assumption, IsASeq DEF Blocks
      <4>2. PacketBlocks = <<"lsf">> \o chunks \o <<"eot">>
        BY DEF PacketBlocks
      <4>. HIDE DEF chunks
      <4>3. /\ <<"lsf">> \o chunks \in Seq(Blocks) /\ Len(<<"lsf">> \o chunks) = 1 + Len(chunks)
            /\ (<<"lsf">> \o chunks)[1] = "lsf" /\ Len(chunks) \in Nat
        BY <4>1, ConcatProperties
      <4>4. /\ PacketBlocks \in Seq(Blocks) /\ PacketBlocks[1] = "lsf" /\ Len(PacketBlocks) > 0
        BY <4>1, <4>2, <4>3, ConcatProperties
      <4>. QED  BY <4>4
    <3> QED BY <2>1, <3>1 DEF TransmitPacket, Kinds
  <2>2. CASE TransmitVoiceStream(g)
    BY <2>2 DEF TransmitVoiceStream, Kinds
  <2> QED BY <2>1, <2>2
<1>2. kind'[g] = k /\ todo'[g] = blocks /\ pc[g] = "out" /\ pc'[g] = "lock"
  BY <1>0, <1>1 DEF Call, Goto
<1>3. /\ \A h \in Goroutines \ {g} : pc'[h] = pc[h]
      /\ \A h \in Callers \ {g} : kind'[h] = kind[h] /\ todo'[h] = todo[h]
  BY <1>0, <1>1 DEF Call, Goto
<1>4. overlap' = (overlap \/ \E h \in Callers \ {g} : pc[h] # "out" /\ kind[h] = k)
  BY <1>1 DEF Call
<1>5. UNCHANGED <<txState, ctrl, seen, burst, cut>>
  BY <1>1 DEF Call
<1> QED BY <1>1, <1>2, <1>3, <1>4, <1>5

LEMMA StepPrepared == IType /\ Prepared /\ [Next]_vars => Prepared'
<1> SUFFICES ASSUME IType, Prepared, [Next]_vars PROVE Prepared'
  OBVIOUS
<1> USE WhoIsWho
<1>0. /\ pc \in [Goroutines -> Places] /\ kind \in [Callers -> Kinds] /\ LockHeld
      /\ todo \in [Callers -> Seq(Blocks)] /\ seen \in [Goroutines -> SUBSET Bits]
      /\ txState \in Kinds \cup {"idle"} /\ "idle" \notin Kinds
  BY DEF IType, TypeOK, Kinds
\* A step of g that keeps state, transmitter and Main's idea of it, and no blocks it needs.
<1>a. ASSUME NEW g \in Goroutines,
             UNCHANGED <<txState, kind>>, ctrl' = ctrl \/ txState = "idle",
             \A h \in Goroutines \ {g} : pc'[h] = pc[h] /\ seen'[h] = seen[h],
             \A h \in Callers \ {g} : todo'[h] = todo[h],
             pc'[g] \in InStart \cup InStop => txState = "idle",
             g \in Callers /\ pc'[g] \in {"lock", "wait", "woken"} \cup InStart =>
               pc[g] \in {"lock", "wait", "woken"} \cup InStart /\ todo'[g] = todo[g],
             pc'[g] = "on check" => "tx" \in seen'[g],
             g = Main => pc'[g] \notin MainWrites
      PROVE  Prepared'
  <2>1. \A h \in Goroutines : pc'[h] \in InStart \cup InStop => txState' = "idle"
    BY <1>a DEF Prepared
  <2>2. \A h \in Callers :
          kind'[h] = "packet" /\ pc'[h] \in {"lock", "wait", "woken"} \cup InStart => Head(todo'[h]) = "lsf"
    BY <1>a DEF Prepared
  <2>3. \A h \in Callers : pc'[h] = "on check" => "tx" \in seen'[h]
    BY <1>a DEF Prepared
  <2>4. txState' # "idle" /\ "tx" \notin ctrl' => Silent'
    BY <1>a DEF Prepared, Silent
  <2> QED BY <2>1, <2>2, <2>3, <2>4 DEF Prepared
<1>1. CASE UNCHANGED vars
  BY <1>1 DEF vars, Prepared, Silent
<1>2. CASE Configure \/ CheckPLL \/ Start \/ Close
  <2>1. /\ UNCHANGED <<txState, kind, todo>>
        /\ \A h \in Goroutines \ {Main} : pc'[h] = pc[h] /\ seen'[h] = seen[h]
        /\ pc'[Main] \notin {"write"} \cup InStart \cup InStop
        /\ pc'[Main] \in MainWrites => seen'[Main] = ctrl'
    BY <1>2, MainMoves
  <2>2. "tx" \notin ctrl' => Silent'
    BY <2>1 DEF Silent
  <2> QED BY <2>1, <2>2 DEF Prepared
<1>3. ASSUME NEW g \in Callers, TransmitPacket(g) \/ TransmitVoiceStream(g) PROVE Prepared'
  <2>1. /\ UNCHANGED <<txState, ctrl, seen>>
        /\ pc'[g] = "lock" /\ \A h \in Goroutines \ {g} : pc'[h] = pc[h]
        /\ \A h \in Callers \ {g} : kind'[h] = kind[h] /\ todo'[h] = todo[h]
        /\ kind'[g] = "packet" => Head(todo'[g]) = "lsf"
    BY <1>3, CallBegins
  <2>2. "lock" \notin InStart \cup InStop /\ "lock" # "on check"
    BY DEF InStart, InStop
  <2> QED BY <2>1, <2>2 DEF Prepared, Silent
<1>4. ASSUME NEW g \in Callers, StartLock(g) \/ Rewait(g) PROVE Prepared'
  <2>1. /\ UNCHANGED <<txState, kind, ctrl, seen, todo>>
        /\ \A h \in Goroutines \ {g} : pc'[h] = pc[h]
        /\ pc[g] \in {"lock", "woken"}
        /\ pc'[g] \in {"write", "recover", "wait"} /\ (pc'[g] = "recover" => txState = "idle")
    BY <1>0, <1>4 DEF StartLock, Rewait, Goto
  <2> QED BY <1>a, <2>1 DEF InStart, InStop
<1>5. ASSUME NEW g \in Callers, Recover(g) PROVE Prepared'
  <2>1. /\ UNCHANGED <<txState, kind, ctrl, todo>> /\ pc[g] = "recover"
        /\ \A h \in Goroutines \ {g} : pc'[h] = pc[h] /\ seen'[h] = seen[h]
        /\ pc'[g] \in {"on write", "stop", "out"}
    BY <1>0, <1>5 DEF Recover, StartFails, Goto
  <2>2. txState = "idle"
    BY <2>1 DEF Prepared, InStart
  <2> QED BY <1>a, <2>1, <2>2 DEF InStart, InStop
<1>6. ASSUME NEW g \in Callers, EnableTX(g) PROVE Prepared'
  <2>1. /\ UNCHANGED <<txState, kind, todo>> /\ pc[g] = "on write"
        /\ \A h \in Goroutines \ {g} : pc'[h] = pc[h] /\ seen'[h] = seen[h]
        /\ pc'[g] \in {"on check", "stop", "out"}
        /\ pc'[g] = "on check" => "tx" \in seen'[g]
    BY <1>0, <1>6 DEF EnableTX, StartFails, Goto
  <2>2. txState = "idle"
    BY <2>1 DEF Prepared, InStart
  <2> QED BY <1>a, <2>1, <2>2 DEF InStart, InStop
<1>7. ASSUME NEW g \in Callers, Started(g) PROVE Prepared'
  <2>1. /\ UNCHANGED <<kind, ctrl>> /\ pc[g] = "on check"
        /\ \A h \in Goroutines \ {g} : pc'[h] = pc[h] /\ seen'[h] = seen[h]
        /\ \A h \in Callers \ {g} : todo'[h] = todo[h]
        /\ pc'[g] \in {"write", "stop", "out"}
    BY <1>0, <1>7 DEF Started, StartFails, Goto
  <2>2. txState = "idle" /\ "tx" \in seen[g]
    BY <2>1 DEF Prepared, InStart
  <2>3. CASE txState' = txState
    BY <1>a, <2>1, <2>2, <2>3 DEF InStart, InStop
  <2>4. CASE ctrl = seen[g]
    <3>1. \A h \in Goroutines : pc'[h] \notin InStart \cup InStop
      BY <1>0, <2>1 DEF LockHeld, InStart, InStop
    <3>2. "tx" \in ctrl'
      BY <2>1, <2>2, <2>4
    <3>3. \A h \in Callers :
            kind'[h] = "packet" /\ pc'[h] \in {"lock", "wait", "woken"} \cup InStart => Head(todo'[h]) = "lsf"
      BY <2>1 DEF Prepared, InStart
    <3>4. \A h \in Callers : pc'[h] # "on check"
      BY <3>1 DEF InStart
    <3> QED BY <3>1, <3>2, <3>3, <3>4 DEF Prepared
  <2> QED BY <1>7, <2>3, <2>4 DEF Started
<1>8. ASSUME NEW g \in Callers, Write(g) \/ WriteFails(g) PROVE Prepared'
  <2>1. /\ UNCHANGED <<txState, kind, ctrl, seen>>
        /\ \A h \in Goroutines \ {g} : pc'[h] = pc[h]
        /\ \A h \in Callers \ {g} : todo'[h] = todo[h]
        /\ pc'[g] \in {"write", "stop", "out"}
    BY <1>0, <1>8 DEF Write, WriteFails, Goto
  <2> QED BY <1>a, <2>1 DEF InStart, InStop
<1>9. ASSUME NEW g \in Goroutines, StopLock(g) PROVE Prepared'
  <2>1. CASE txState = "idle"
    <3>1. /\ UNCHANGED <<txState, kind, ctrl, seen, todo>>
          /\ \A h \in Goroutines \ {g} : pc'[h] = pc[h]
          /\ pc'[g] \in {"out", "close rx read"}
      BY <1>0, <1>9, <2>1 DEF StopLock, Goto, AfterStop
    <3> QED BY <1>a, <2>1, <3>1 DEF InStart, InStop, MainWrites
  <2>2. CASE txState # "idle"
    <3>1. /\ txState' = "idle" /\ UNCHANGED <<kind, todo, seen>> /\ pc'[g] = "off read"
          /\ \A h \in Goroutines \ {g} : pc'[h] = IF pc[h] = "wait" THEN "woken" ELSE pc[h]
      BY <1>9, <2>2, WakeType DEF StopLock, IType
    <3>2. \A h \in Callers : pc'[h] = pc[h] \/ pc'[h] = "off read" \/ (pc[h] = "wait" /\ pc'[h] = "woken")
      BY <3>1
    <3>3. \A h \in Callers :
            kind'[h] = "packet" /\ pc'[h] \in {"lock", "wait", "woken"} \cup InStart => Head(todo'[h]) = "lsf"
      BY <3>1, <3>2 DEF Prepared, InStart
    <3>4. \A h \in Callers : pc'[h] = "on check" => "tx" \in seen'[h]
      BY <3>1, <3>2 DEF Prepared
    <3> QED BY <3>1, <3>3, <3>4 DEF Prepared
  <2> QED BY <2>1, <2>2
<1>10. ASSUME NEW g \in Goroutines, ReadMode(g, "off read", "off write") \/ DisableTX(g)
       PROVE  Prepared'
  <2>1. /\ UNCHANGED <<txState, kind, todo>> /\ pc[g] \in {"off read", "off write"}
        /\ \A h \in Goroutines \ {g} : pc'[h] = pc[h] /\ seen'[h] = seen[h]
        /\ pc'[g] \in {"off write", "out", "close rx read"}
    BY <1>0, <1>10 DEF ReadMode, DisableTX, WriteMode, Goto, AfterStop
  <2>2. txState = "idle"
    BY <2>1 DEF Prepared, InStop
  <2> QED BY <1>a, <2>1, <2>2 DEF InStart, MainWrites
<1>11. ASSUME NEW t \in TimerRuns, Fire(t) PROVE Prepared'
  <2>1. /\ UNCHANGED <<txState, kind, todo, seen, ctrl>> /\ pc'[t] = "stop"
        /\ \A h \in Goroutines \ {t} : pc'[h] = pc[h]
    BY <1>0, <1>11 DEF Fire, Goto
  <2> QED BY <1>a, <2>1 DEF InStart, InStop
<1> QED BY <1>1, <1>2, <1>3, <1>4, <1>5, <1>6, <1>7, <1>8, <1>9, <1>10, <1>11
        DEF Next, InCall, Stop

LEMMA StepAlone == IType /\ Alone /\ Prepared /\ [Next]_vars => Alone'
<1> SUFFICES ASSUME IType, Alone, Prepared, [Next]_vars PROVE Alone'
  OBVIOUS
<1> USE WhoIsWho
<1>0. /\ pc \in [Goroutines -> Places] /\ kind \in [Callers -> Kinds] /\ LockHeld
      /\ "idle" \notin Kinds
  BY DEF IType, TypeOK, Kinds
\* Nobody begins a call or a transmission.
<1>a. ASSUME txState' \in {txState, "idle"}, UNCHANGED kind, ~overlap' => ~overlap,
             \A h \in Callers : /\ pc[h] = "out" => pc'[h] = "out"
                                /\ pc'[h] = "on check" => pc[h] = "on check"
      PROVE  Alone'
  <2>1. SUFFICES ASSUME ~overlap, NEW g \in Callers, NEW h \in Callers,
                        pc'[g] # "out", pc'[h] # "out", kind[g] = kind[h],
                        pc'[g] = "on check" \/ kind[g] = txState'
                 PROVE  g = h
    BY <1>a DEF Alone
  <2>2. kind[g] # "idle"
    BY <1>0
  <2>3. pc[g] # "out" /\ pc[h] # "out"
    BY <1>a, <2>1
  <2>4. pc[g] = "on check" \/ kind[g] = txState
    <3>1. CASE pc'[g] = "on check"
      BY <1>a, <2>1, <3>1
    <3>2. CASE kind[g] = txState'
      BY <1>a, <2>2, <3>2
    <3> QED BY <2>1, <3>1, <3>2
  <2> QED BY <2>1, <2>3, <2>4 DEF Alone
\* One goroutine moves, but not so.
<1>b. ASSUME UNCHANGED <<txState, kind, overlap>>, NEW g \in Goroutines, pc[g] # "out", pc'[g] # "on check",
             \A h \in Goroutines \ {g} : pc'[h] = pc[h]
      PROVE  Alone'
  BY <1>a, <1>b
<1>1. CASE UNCHANGED vars
  BY <1>a, <1>1 DEF vars
<1>2. CASE Configure \/ CheckPLL \/ Start \/ Close
  BY <1>a, <1>2, MainMoves
<1>3. ASSUME NEW g \in Callers, TransmitPacket(g) \/ TransmitVoiceStream(g) PROVE Alone'
  <2>1. /\ UNCHANGED txState
        /\ pc'[g] = "lock" /\ \A h \in Goroutines \ {g} : pc'[h] = pc[h]
        /\ \A h \in Callers \ {g} : kind'[h] = kind[h]
        /\ ~overlap' => ~overlap /\ \A h \in Callers \ {g} : pc[h] = "out" \/ kind[h] # kind'[g]
    BY <1>3, CallBegins
  <2>2. SUFFICES ASSUME ~overlap', NEW a \in Callers, NEW b \in Callers,
                        pc'[a] # "out", pc'[b] # "out", kind'[a] = kind'[b],
                        pc'[a] = "on check" \/ kind'[a] = txState'
                 PROVE  a = b
    BY DEF Alone
  <2>3. CASE a # g /\ b # g
    <3>1. pc'[a] = pc[a] /\ pc'[b] = pc[b] /\ kind'[a] = kind[a] /\ kind'[b] = kind[b]
      BY <2>1, <2>3
    <3> QED BY <2>1, <2>2, <3>1 DEF Alone
  <2>4. CASE a = g
    BY <2>1, <2>2, <2>4
  <2>5. CASE b = g
    BY <2>1, <2>2, <2>5
  <2> QED BY <2>3, <2>4, <2>5
<1>4. ASSUME NEW g \in Callers, StartLock(g) \/ Rewait(g) \/ Recover(g) \/ Write(g) \/ WriteFails(g)
      PROVE  Alone'
  <2>1. /\ UNCHANGED <<txState, kind, overlap>> /\ pc[g] # "out" /\ pc'[g] # "on check"
        /\ \A h \in Goroutines \ {g} : pc'[h] = pc[h]
    BY <1>0, <1>4 DEF StartLock, Rewait, Recover, Write, WriteFails, StartFails, Goto, history
  <2> QED BY <1>b, <2>1
<1>5. ASSUME NEW g \in Callers, EnableTX(g) PROVE Alone'
  <2>1. /\ UNCHANGED <<txState, kind>> /\ pc[g] = "on write"
        /\ \A h \in Goroutines \ {g} : pc'[h] = pc[h]
    BY <1>0, <1>5 DEF EnableTX, StartFails, Goto
  <2>2. CASE StartFails(g) /\ UNCHANGED history
    <3>1. pc'[g] # "on check" /\ UNCHANGED overlap
      BY <1>0, <2>2 DEF StartFails, Goto, history
    <3> QED BY <1>b, <2>1, <3>1
  <2>3. CASE overlap' = (\E h \in Callers \ {g} : pc[h] # "out" /\ kind[h] = kind[g])
    <3>1. txState = "idle"
      BY <2>1 DEF Prepared, InStart
    <3>2. \A h \in Callers \ {g} : pc'[h] # "on check"
      BY <1>0, <2>1 DEF LockHeld, InStart
    <3>3. SUFFICES ASSUME ~overlap', NEW x \in Callers, NEW y \in Callers,
                          pc'[x] # "out", pc'[y] # "out", kind[x] = kind[y],
                          pc'[x] = "on check" \/ kind[x] = txState'
                   PROVE  x = y
      BY <2>1 DEF Alone
    <3>4. kind[x] # "idle"
      BY <1>0
    <3>5. x = g
      BY <2>1, <3>1, <3>2, <3>3, <3>4
    <3>6. \A h \in Callers \ {g} : pc[h] = "out" \/ kind[h] # kind[g]
      BY <2>3, <3>3
    <3> QED BY <2>1, <3>3, <3>5, <3>6
  <2> QED BY <1>5, <2>2, <2>3 DEF EnableTX
<1>6. ASSUME NEW g \in Callers, Started(g) PROVE Alone'
  <2>1. /\ UNCHANGED <<kind, overlap>> /\ pc[g] = "on check" /\ pc'[g] # "on check"
        /\ \A h \in Goroutines \ {g} : pc'[h] = pc[h]
        /\ txState' \in {txState, kind[g]}
    BY <1>0, <1>6 DEF Started, StartFails, Goto
  <2>2. CASE txState' = txState
    BY <1>b, <2>1, <2>2
  <2>3. CASE txState' = kind[g]
    <3>1. \A h \in Callers \ {g} : pc'[h] # "on check"
      BY <1>0, <2>1 DEF LockHeld, InStart
    <3>2. ~overlap => \A h \in Callers : pc[h] # "out" /\ kind[h] = kind[g] => g = h
      BY <2>1 DEF Alone
    <3> QED BY <2>1, <2>3, <3>1, <3>2 DEF Alone
  <2> QED BY <2>1, <2>2, <2>3
<1>7. ASSUME NEW g \in Goroutines, StopLock(g) PROVE Alone'
  <2>1. CASE txState = "idle"
    <3>1. /\ UNCHANGED <<txState, kind, overlap>> /\ pc[g] = "stop" /\ pc'[g] # "on check"
          /\ \A h \in Goroutines \ {g} : pc'[h] = pc[h]
      BY <1>0, <1>7, <2>1 DEF StopLock, Goto, AfterStop
    <3> QED BY <1>b, <3>1
  <2>2. CASE txState # "idle"
    <3>1. /\ txState' = "idle" /\ UNCHANGED <<kind, overlap>> /\ pc[g] = "stop" /\ pc'[g] = "off read"
          /\ \A h \in Goroutines \ {g} : pc'[h] = IF pc[h] = "wait" THEN "woken" ELSE pc[h]
      BY <1>7, <2>2, WakeType DEF StopLock, IType
    <3>2. \A h \in Callers : /\ pc[h] = "out" => pc'[h] = "out"
                             /\ pc'[h] = "on check" => pc[h] = "on check"
      BY <3>1
    <3> QED BY <1>a, <3>1, <3>2
  <2> QED BY <2>1, <2>2
<1>8. ASSUME NEW g \in Goroutines, ReadMode(g, "off read", "off write") \/ DisableTX(g)
      PROVE  Alone'
  <2>1. /\ UNCHANGED <<txState, kind, overlap>> /\ pc[g] # "out" /\ pc'[g] # "on check"
        /\ \A h \in Goroutines \ {g} : pc'[h] = pc[h]
    BY <1>0, <1>8 DEF ReadMode, DisableTX, Goto, AfterStop, history
  <2> QED BY <1>b, <2>1
<1>9. ASSUME NEW t \in TimerRuns, Fire(t) PROVE Alone'
  <2>1. /\ UNCHANGED <<txState, kind, overlap>> /\ t \in Goroutines
        /\ \A h \in Goroutines \ {t} : pc'[h] = pc[h]
    BY <1>0, <1>9 DEF Fire, Goto, history
  <2>2. \A h \in Callers : pc'[h] = pc[h]
    BY <2>1
  <2> QED BY <1>a, <2>1, <2>2
<1> QED BY <1>1, <1>2, <1>3, <1>4, <1>5, <1>6, <1>7, <1>8, <1>9 DEF Next, InCall, Stop

\* In a transmission what leads it goes on to: the link setup stays on the air, and
\* a transmitter that is off stays off.
LEMMA StaysLed ==
  ASSUME IType, Prepared, [Next]_vars, txState # "idle", Led
  PROVE  Led'
<1> USE WhoIsWho
<1>0. /\ pc \in [Goroutines -> Places] /\ seen \in [Goroutines -> SUBSET Bits]
      /\ \A g \in Goroutines : pc[g] \notin InStart \cup InStop
  BY DEF IType, TypeOK, Prepared
<1>a. ASSUME burst \subseteq burst', UNCHANGED <<ctrl, seen>>, pc'[Main] \in MainWrites => pc'[Main] = pc[Main]
      PROVE  Led'
  BY <1>a DEF Led, Silent
<1>1. CASE UNCHANGED vars
  BY <1>a, <1>1 DEF vars
<1>2. CASE Configure \/ CheckPLL \/ Start \/ Close
  <2>1. UNCHANGED burst /\ (pc'[Main] \in MainWrites => seen'[Main] = ctrl')
    BY <1>2, MainMoves
  <2>2. CASE "lsf" \in burst
    BY <2>1, <2>2 DEF Led
  <2>3. CASE Silent
    <3>1. "tx" \notin ctrl'
      <4>1. CASE Configure
        BY <4>1 DEF Configure
      <4>2. CASE CheckPLL
        BY <2>3, <4>2 DEF CheckPLL, Silent
      <4>a. ASSUME NEW set \in {{}, {"rx"}}, NEW clear, WriteMode(Main, set, clear),
                   pc[Main] \in MainWrites
            PROVE  "tx" \notin ctrl'
        <5>1. "tx" \notin ctrl /\ "tx" \notin seen[Main]
          BY <2>3, <4>a DEF Silent
        <5>2. ctrl' = ctrl \/ ctrl' = (seen[Main] \ clear) \cup set \cup {"ref"}
          BY <4>a DEF WriteMode
        <5> QED BY <4>a, <5>1, <5>2
      <4>b. ASSUME NEW from, NEW to, ReadMode(Main, from, to)
            PROVE  "tx" \notin ctrl'
        BY <2>3, <4>b DEF ReadMode, Silent
      <4>3. CASE Start
        BY <4>a, <4>b, <4>3 DEF Start, SetMain, MainWrites
      <4>4. CASE Close
        <5>1. CASE ctrl' = ctrl
          BY <2>3, <5>1 DEF Silent
        <5>2. CASE SetMain("close rx write", "close tx read", {}, {"rx"}) \/ CloseEnd
          BY <4>a, <5>2 DEF SetMain, CloseEnd, MainWrites
        <5>3. CASE \/ ReadMode(Main, "close rx read", "close rx write")
                   \/ ReadMode(Main, "close tx read", "close tx write")
          BY <4>b, <5>3
        <5> QED BY <4>4, <5>1, <5>2, <5>3 DEF Close
      <4> QED BY <1>2, <4>1, <4>2, <4>3, <4>4
    <3> QED BY <2>1, <3>1 DEF Led, Silent
  <2> QED BY <2>2, <2>3 DEF Led
<1>3. ASSUME NEW g \in Callers,
             \/ TransmitPacket(g) \/ TransmitVoiceStream(g)
             \/ StartLock(g) \/ Rewait(g) \/ Write(g) \/ WriteFails(g)
      PROVE  Led'
  <2>1. /\ burst \subseteq burst' /\ UNCHANGED <<ctrl, seen>>
        /\ \A h \in Goroutines \ {g} : pc'[h] = pc[h]
    BY <1>0, <1>3, CallBegins DEF StartLock, Rewait, Write, WriteFails, Goto
  <2> QED BY <1>a, <2>1
<1>4. ASSUME NEW g \in Callers, Recover(g) \/ EnableTX(g) \/ Started(g) PROVE FALSE
  BY <1>0, <1>4 DEF Recover, EnableTX, Started, InStart
<1>5. ASSUME NEW g \in Goroutines, StopLock(g) PROVE Led'
  <2>1. /\ UNCHANGED <<burst, ctrl, seen>> /\ pc'[g] = "off read"
        /\ \A h \in Goroutines \ {g} : pc'[h] = IF pc[h] = "wait" THEN "woken" ELSE pc[h]
    BY <1>5, WakeType DEF StopLock, IType
  <2>2. pc'[Main] \in MainWrites => pc'[Main] = pc[Main]
    BY <2>1 DEF MainWrites
  <2> QED BY <1>a, <2>1, <2>2
<1>6. ASSUME NEW g \in Goroutines, ReadMode(g, "off read", "off write") \/ DisableTX(g)
      PROVE  FALSE
  BY <1>0, <1>6 DEF ReadMode, DisableTX, InStop
<1>7. ASSUME NEW t \in TimerRuns, Fire(t) PROVE Led'
  <2>1. /\ UNCHANGED <<burst, ctrl, seen>> /\ \A h \in Goroutines \ {t} : pc'[h] = pc[h]
    BY <1>0, <1>7 DEF Fire, Goto
  <2> QED BY <1>a, <2>1
<1> QED BY <1>1, <1>2, <1>3, <1>4, <1>5, <1>6, <1>7 DEF Next, InCall, Stop

LEMMA StepFirst == FInv /\ [Next]_vars => First' /\ LinkSetupFirst'
<1> SUFFICES ASSUME FInv, [Next]_vars PROVE First' /\ LinkSetupFirst'
  OBVIOUS
<1> USE WhoIsWho
<1>0. /\ pc \in [Goroutines -> Places] /\ kind \in [Callers -> Kinds] /\ LockHeld
      /\ todo \in [Callers -> Seq(Blocks)]
      /\ txState \in Kinds \cup {"idle"} /\ "idle" \notin Kinds
      /\ {cut, overlap} \subseteq BOOLEAN
      /\ IType /\ Unmixed /\ Prepared /\ Alone /\ First /\ LinkSetupFirst
  BY DEF FInv, UInv, IType, TypeOK, Kinds
\* A step of g that writes nothing, and does not begin to or leave a failed write behind.
<1>a. ASSUME NEW g \in Goroutines,
             UNCHANGED <<txState, burst, cut>>, ~overlap' => ~overlap,
             \A h \in Goroutines \ {g} : pc'[h] = pc[h],
             \A h \in Callers \ {g} : todo'[h] = todo[h] /\ kind'[h] = kind[h],
             pc'[g] # "write",
             g \in Callers => pc[g] \notin {"write", "stop"} \/ txState = "idle"
      PROVE  First' /\ LinkSetupFirst'
  <2>1. LinkSetupFirst'
    BY <1>0, <1>a DEF LinkSetupFirst
  <2>2. First'
    <3>1. SUFFICES ASSUME ~cut, ~overlap, txState # "idle"
                   PROVE  /\ \A h \in Callers : pc'[h] = "write" => Head(todo'[h]) = "lsf" \/ Led'
                          /\ Led' \/ \E h \in Callers : kind'[h] = txState /\ Leading(h)'
      BY <1>0, <1>a DEF First
    <3>2. Led => Led'
      BY <1>0, <3>1, StaysLed
    <3>3. \A h \in Callers : pc'[h] = "write" => Head(todo'[h]) = "lsf" \/ Led'
      BY <1>0, <1>a, <3>1, <3>2 DEF First
    <3>4. CASE Led
      BY <3>2, <3>3, <3>4
    <3>5. ASSUME NEW h \in Callers, kind[h] = txState, Leading(h)
          PROVE  kind'[h] = txState /\ Leading(h)'
      BY <1>a, <3>1, <3>5 DEF Leading
    <3> QED BY <1>0, <3>1, <3>3, <3>4, <3>5 DEF First
  <2> QED BY <2>1, <2>2
<1>1. CASE UNCHANGED vars
  <2>1. UNCHANGED <<ctrl, seen, pc, burst, todo, kind, txState, cut, overlap>>
    BY <1>1 DEF vars
  <2> QED BY <1>0, <2>1 DEF First, LinkSetupFirst, Led, Silent, Leading
<1>2. CASE Configure \/ CheckPLL \/ Start \/ Close
  <2>1. /\ UNCHANGED <<txState, burst, cut, overlap, kind, todo>>
        /\ \A h \in Goroutines \ {Main} : pc'[h] = pc[h]
        /\ pc'[Main] # "write"
    BY <1>0, <1>2, MainMoves
  <2> QED BY <1>a, <2>1
<1>3. ASSUME NEW g \in Callers, TransmitPacket(g) \/ TransmitVoiceStream(g)
      PROVE  First' /\ LinkSetupFirst'
  <2>1. /\ UNCHANGED <<txState, burst, cut>> /\ (~overlap' => ~overlap)
        /\ pc[g] = "out" /\ pc'[g] = "lock" /\ \A h \in Goroutines \ {g} : pc'[h] = pc[h]
        /\ \A h \in Callers \ {g} : kind'[h] = kind[h] /\ todo'[h] = todo[h]
    BY <1>0, <1>3, CallBegins
  <2> QED BY <1>a, <2>1
<1>4. ASSUME NEW g \in Callers, StartLock(g) \/ Rewait(g) \/ Recover(g)
      PROVE  First' /\ LinkSetupFirst'
  <2>1. /\ UNCHANGED <<txState, burst, cut, overlap, kind, todo>>
        /\ \A h \in Goroutines \ {g} : pc'[h] = pc[h]
        /\ pc[g] \in {"lock", "woken", "recover"}
        /\ pc'[g] = "write" => txState = kind[g]
    BY <1>0, <1>4 DEF StartLock, Rewait, Recover, StartFails, Goto, history
  <2>2. CASE pc'[g] # "write"
    BY <1>a, <2>1, <2>2
\* Whoever joins finds the link setup written, for another call would have to be there.
  <2>3. CASE pc'[g] = "write"
    <3>1. LinkSetupFirst'
      BY <1>0, <2>1 DEF LinkSetupFirst
    <3>2. ASSUME ~cut, ~overlap, txState # "idle"
          PROVE  Led'
      <4>1. Led \/ \E h \in Callers : kind[h] = txState /\ Leading(h)
        BY <1>0, <3>2 DEF First
      <4>2. ASSUME NEW h \in Callers, kind[h] = txState, Leading(h)
            PROVE  FALSE
        <5>1. h # g /\ pc[h] # "out" /\ pc[g] # "out"
          BY <2>1, <4>2 DEF Leading
        <5> QED BY <1>0, <2>1, <2>3, <3>2, <4>2, <5>1 DEF Alone
      <4>3. Led
        BY <4>1, <4>2
      <4> QED BY <1>0, <3>2, <4>3, StaysLed
    <3> QED BY <2>1, <3>1, <3>2 DEF First
  <2> QED BY <2>2, <2>3
<1>5. ASSUME NEW g \in Callers, EnableTX(g) PROVE First' /\ LinkSetupFirst'
  <2>1. /\ txState' = "idle" /\ (burst' = {} \/ UNCHANGED <<burst, history>>)
    BY <1>0, <1>5 DEF EnableTX, Prepared, InStart
  <2> QED BY <1>0, <2>1 DEF First, LinkSetupFirst, history
<1>6. ASSUME NEW g \in Callers, Started(g) PROVE First' /\ LinkSetupFirst'
  <2>1. /\ UNCHANGED <<burst, cut, overlap, kind>> /\ pc[g] = "on check"
        /\ \A h \in Goroutines \ {g} : pc'[h] = pc[h]
        /\ \A h \in Callers \ {g} : todo'[h] = todo[h]
    BY <1>0, <1>6 DEF Started, StartFails, Goto
  <2>2. txState = "idle"
    BY <1>0, <2>1 DEF Prepared, InStart
  <2>3. LinkSetupFirst'
    BY <1>0, <2>1 DEF LinkSetupFirst
  <2>4. CASE txState' = txState
    BY <2>2, <2>3, <2>4 DEF First
  <2>5. CASE /\ txState' = kind[g] /\ Goto(g, "write")
             /\ todo' = IF kind[g] = "stream" THEN [todo EXCEPT ![g] = <<"lsf">> \o @] ELSE todo
    <3>1. pc'[g] = "write"
      BY <1>0, <2>5 DEF Goto
    <3>2. Head(todo'[g]) = "lsf"
      <4>1. CASE kind[g] = "stream"
        <5>1. todo'[g] = <<"lsf">> \o todo[g] /\ todo[g] \in Seq(Blocks) /\ <<"lsf">> \in Seq(Blocks)
          BY <1>0, <2>5, <4>1 DEF Blocks
        <5>2. todo'[g] \in Seq(Blocks) /\ todo'[g][1] = "lsf" /\ Len(todo'[g]) > 0
          BY <5>1, ConcatProperties
        <5> QED BY <5>2
      <4>2. CASE kind[g] = "packet"
        BY <1>0, <2>1, <2>5, <4>2 DEF Prepared, InStart
      <4> QED BY <1>0, <4>1, <4>2 DEF Kinds
    <3>3. ~cut => \A h \in Callers \ {g} : pc'[h] # "write"
      BY <1>0, <2>1 DEF Unmixed
    <3>4. kind'[g] = txState' /\ Leading(g)'
      BY <2>1, <2>5, <3>1, <3>2 DEF Leading
    <3> QED BY <2>1, <2>3, <3>2, <3>3, <3>4 DEF First
  <2> QED BY <1>6, <2>4, <2>5 DEF Started
<1>7. ASSUME NEW g \in Callers, Write(g) PROVE First' /\ LinkSetupFirst'
  <2>1. /\ UNCHANGED <<txState, ctrl, seen, kind, cut, overlap>> /\ pc[g] = "write"
        /\ \A h \in Goroutines \ {g} : pc'[h] = pc[h]
        /\ burst' = IF "tx" \in ctrl THEN burst \cup {Head(todo[g])} ELSE burst
    BY <1>0, <1>7 DEF Write, Goto, history
  <2>2. ASSUME ~cut, ~overlap
        PROVE  Led' /\ ("tx" \in ctrl => "lsf" \in burst')
    <3>1. txState = kind[g] /\ txState # "idle"
      <4>1. Unmixed /\ kind[g] \in Kinds /\ "idle" \notin Kinds
        BY <1>0
      <4>2. txState = kind[g]
        BY <2>1, <2>2, <4>1 DEF Unmixed
      <4> QED BY <4>1, <4>2
    <3>2. Head(todo[g]) = "lsf" \/ Led
      BY <1>0, <2>1, <2>2, <3>1 DEF First
    <3>3. CASE "tx" \in ctrl
      <4>1. Head(todo[g]) = "lsf" \/ "lsf" \in burst
        BY <3>2, <3>3 DEF Led, Silent
      <4> QED BY <2>1, <3>3, <4>1 DEF Led
    <3>4. CASE "tx" \notin ctrl
      <4>1. Led
        BY <1>0, <3>1, <3>4 DEF Prepared, Led
      <4>2. Led'
        BY <1>0, <3>1, <4>1, StaysLed
      <4> QED BY <3>4, <4>2
    <3> QED BY <3>3, <3>4
  <2>3. LinkSetupFirst'
    BY <1>0, <2>1, <2>2 DEF LinkSetupFirst
  <2> QED BY <2>1, <2>2, <2>3 DEF First
<1>8. ASSUME NEW g \in Callers, WriteFails(g) PROVE First' /\ LinkSetupFirst'
  <2>1. /\ UNCHANGED <<txState, burst, kind, cut, overlap>> /\ pc[g] = "write"
        /\ \A h \in Goroutines \ {g} : pc'[h] = pc[h]
        /\ \A h \in Callers \ {g} : todo'[h] = todo[h]
        /\ pc'[g] \in {"out", "stop"} /\ (Head(todo[g]) = "lsf" => pc'[g] = "stop")
    BY <1>0, <1>8 DEF WriteFails, Goto, history
  <2>2. LinkSetupFirst'
    BY <1>0, <2>1 DEF LinkSetupFirst
  <2>3. ASSUME ~cut, ~overlap, txState # "idle"
        PROVE  /\ \A h \in Callers : pc'[h] = "write" => Head(todo'[h]) = "lsf" \/ Led'
               /\ Led' \/ \E h \in Callers : kind'[h] = txState /\ Leading(h)'
    <3>1. Led => Led'
      BY <1>0, <2>3, StaysLed
    <3>2. \A h \in Callers : pc'[h] = "write" => Head(todo'[h]) = "lsf" \/ Led'
      BY <1>0, <2>1, <2>3, <3>1 DEF First
    <3>3. ASSUME NEW h \in Callers, kind[h] = txState, Leading(h)
          PROVE  kind'[h] = txState /\ Leading(h)'
      BY <2>1, <3>3 DEF Leading
    <3> QED BY <1>0, <2>3, <3>1, <3>2, <3>3 DEF First
  <2> QED BY <2>1, <2>2, <2>3 DEF First
<1>9. ASSUME NEW g \in Goroutines, StopLock(g) PROVE First' /\ LinkSetupFirst'
  <2>1. txState' = "idle" /\ UNCHANGED <<burst, overlap>>
    BY <1>9 DEF StopLock
  <2>2. cut' = cut \/ cut' = (cut \/ \E h \in Callers \ {g} : pc[h] = "write")
    BY <1>9 DEF StopLock
  <2>3. ~cut' => ~cut
    BY <2>2
  <2> QED BY <1>0, <2>1, <2>3 DEF First, LinkSetupFirst
<1>10. ASSUME NEW g \in Goroutines, ReadMode(g, "off read", "off write") \/ DisableTX(g)
       PROVE  First' /\ LinkSetupFirst'
  <2>1. /\ UNCHANGED <<txState, burst, cut, overlap, kind, todo>>
        /\ \A h \in Goroutines \ {g} : pc'[h] = pc[h]
        /\ pc[g] \in {"off read", "off write"} /\ pc'[g] # "write"
    BY <1>0, <1>10 DEF ReadMode, DisableTX, Goto, AfterStop, history
  <2> QED BY <1>a, <2>1
<1>11. ASSUME NEW t \in TimerRuns, Fire(t) PROVE First' /\ LinkSetupFirst'
  <2>1. /\ UNCHANGED <<txState, burst, cut, overlap, kind, todo>> /\ t \notin Callers
        /\ \A h \in Goroutines \ {t} : pc'[h] = pc[h]
        /\ pc'[t] = "stop"
    BY <1>0, <1>11 DEF Fire, Goto, history
  <2> QED BY <1>a, <2>1
<1> QED BY <1>1, <1>2, <1>3, <1>4, <1>5, <1>6, <1>7, <1>8, <1>9, <1>10, <1>11
        DEF Next, InCall, Stop

\* For any number of callers and packets of any length, chunks and frames go on the air
\* behind a link setup, unless the transmission was stopped under a writer or two calls
\* of its kind ran into each other (startTX, TransmitPacket, TransmitVoiceStream).
THEOREM LinkSetupsFirst == Spec => []LinkSetupFirst
<1>1. Init => FInv
  <2>1. Init => UInv
    <3>1. \A k : <<>> \in OfKind(k)
      BY DEF OfKind
    <3>2. Init => \A g \in Callers : pc[g] = "out"
      BY WhoIsWho DEF Init
    <3> QED BY <3>1, <3>2, InitType DEF UInv, Init, Unmixed, BurstOfOneKind, Kinds
  <2>2. Init => Prepared /\ Alone /\ First /\ LinkSetupFirst
    BY WhoIsWho DEF Init, Prepared, Alone, First, LinkSetupFirst, InStart, InStop
  <2> QED BY <2>1, <2>2 DEF FInv
<1>2. FInv /\ [Next]_vars => FInv'
  BY StepType, StepUnmixed, StepPrepared, StepAlone, StepFirst DEF FInv, UInv
<1>3. FInv => LinkSetupFirst
  BY DEF FInv
<1> QED BY <1>1, <1>2, <1>3, PTL DEF Spec
=============================================================================
