--------------------------- MODULE Gateway_proofs ---------------------------
(***************************************************************************)
(* Theorems about Gateway, for any link setups, packets, identifiers and   *)
(* any bound on the goroutines, and about InetClient, its connection to a  *)
(* reflector, for any sockets, goroutines and times.                       *)
(*                                                                         *)
(* A step of the decoder makes up to three callbacks, each of them a       *)
(* function on the gateway.  Good(g, s) says that gateway g is right while *)
(* s is the session; a lemma per callback says what it makes of that, and  *)
(* the steps compose them.                                                 *)
(***************************************************************************)
EXTENDS Gateway, InetClient, SequenceTheorems, TLAPS

GatewayStruct ==
  [state : States, echoStream : SUBSET LSFs, tasks : [Places -> Nat], sent : SUBSET LSFs]

Sessions == LSFs \cup {NoLSF}

\* The state is that of session s, or a goroutine answers.
Matches(g, s) ==
  /\ g.state = "RFStreamRX"   => s \in NetLSFs
  /\ g.state = "Echo"         => s \in EchoLSFs \ PacketLSFs \/ Alive(g)
  /\ g.state = "LocalCommand" => s \in InfoLSFs \ PacketLSFs \/ Alive(g)

Records(g, s) == g.state = "Echo" /\ ~Alive(g) => g.echoStream \subseteq {s}

Good(g, s) ==
  /\ g \in GatewayStruct
  /\ Matches(g, s)
  /\ Records(g, s)
  /\ g.sent \subseteq NetLSFs

IInv ==
  /\ gw \in GatewayStruct
  /\ session \in Sessions
  /\ unended \in BOOLEAN
  /\ ~unended => Matches(gw, session) /\ Records(gw, session)

----------------------------------------------------------------------------
(* The goroutines of a gateway *)

\* A goroutine that is started, or moves, is alive, and nothing else changes.
LEMMA GoAlive ==
  ASSUME NEW g \in GatewayStruct, NEW place \in Places
  PROVE  /\ Go(g, place) \in GatewayStruct
         /\ Go(g, place).state = g.state
         /\ Go(g, place).sent = g.sent
         /\ Alive(Go(g, place))
<1>1. g.tasks \in [Places -> Nat] /\ g.tasks[place] \in Nat
  BY DEF GatewayStruct
<1> DEFINE n == g.tasks[place] + 1
           t == [g.tasks EXCEPT ![place] = n]
<1>2. n \in Nat /\ n > 0
  BY <1>1
<1>3. t \in [Places -> Nat] /\ t[place] = n
  <2>. HIDE DEF n
  <2>. QED  BY <1>1, <1>2
<1>4. Go(g, place) = [g EXCEPT !.tasks = t]
  BY <1>1 DEF Go, GatewayStruct
<1>. HIDE DEF t, n
<1>5. /\ Go(g, place) \in GatewayStruct /\ Go(g, place).tasks = t
      /\ Go(g, place).state = g.state /\ Go(g, place).sent = g.sent
  BY <1>3, <1>4 DEF GatewayStruct
<1>6. Alive(Go(g, place))
  BY <1>2, <1>3, <1>5 DEF Alive
<1>. QED  BY <1>5, <1>6

\* One goroutine less keeps the types.
LEMMA OneLess ==
  ASSUME NEW g \in GatewayStruct, NEW place \in Places, g.tasks[place] > 0
  PROVE  /\ [g EXCEPT !.tasks[place] = @ - 1] \in GatewayStruct
         /\ [g EXCEPT !.tasks[place] = @ - 1].state = g.state
         /\ [g EXCEPT !.tasks[place] = @ - 1].sent = g.sent
<1>1. g.tasks \in [Places -> Nat] /\ g.tasks[place] \in Nat
  BY DEF GatewayStruct
<1> DEFINE n == g.tasks[place] - 1
           t == [g.tasks EXCEPT ![place] = n]
<1>2. n \in Nat
  BY <1>1
<1>3. t \in [Places -> Nat]
  <2>. HIDE DEF n
  <2>. QED  BY <1>1, <1>2
<1>4. [g EXCEPT !.tasks[place] = @ - 1] = [g EXCEPT !.tasks = t]
  BY <1>1 DEF GatewayStruct
<1>. HIDE DEF t, n
<1>. QED  BY <1>3, <1>4 DEF GatewayStruct

\* A gateway whose goroutines are alive, and which relays nobody, is good while
\* it is not in the state of an over for the reflector.
LEMMA AliveGood ==
  ASSUME NEW g \in GatewayStruct, NEW s, Alive(g), g.state # "RFStreamRX", g.sent \subseteq NetLSFs
  PROVE  Good(g, s)
BY DEF Good, Matches, Records

\* An idle gateway is good in any session.
LEMMA IdleGood ==
  ASSUME NEW g \in GatewayStruct, NEW s, g.state = "Idle", g.sent \subseteq NetLSFs
  PROVE  Good(g, s)
BY DEF Good, Matches, Records

\* A gateway that is not held by a voice over may find itself in any session.
LEMMA AnySession ==
  ASSUME NEW g, NEW s, NEW r, Good(g, s), s \notin LSFs \ PacketLSFs \/ g.state = "Idle"
  PROVE  Good(g, r)
<1>1. CASE g.state = "Idle"
  BY <1>1, IdleGood DEF Good
<1>2. CASE s \notin LSFs \ PacketLSFs
  <2>1. s \notin NetLSFs /\ s \notin EchoLSFs \ PacketLSFs /\ s \notin InfoLSFs \ PacketLSFs
    BY <1>2, GatewayAssumption DEF NetLSFs
  <2>. QED  BY <2>1 DEF Good, Matches, Records
<1>. QED  BY <1>1, <1>2

----------------------------------------------------------------------------
(* The callbacks *)

\* A link setup puts an idle gateway into the state of its over.
LEMMA LSFGood ==
  ASSUME NEW g, NEW l \in LSFs, Good(g, l)
  PROVE  Good(ReceivedRFLSF(g, l), l)
<1>. USE DEF Good, ReceivedRFLSF
<1>1. CASE g.state # "Idle" \/ l \in PacketLSFs
  BY <1>1
<1>2. CASE g.state = "Idle" /\ l \in EchoLSFs \ PacketLSFs
  <2>1. ReceivedRFLSF(g, l) = [g EXCEPT !.state = "Echo", !.echoStream = {}]
    BY <1>2 DEF EchoStreamStart, GatewayStruct
  <2>. QED  BY <1>2, <2>1 DEF GatewayStruct, States, Matches, Records
<1>3. CASE g.state = "Idle" /\ l \in InfoLSFs \ PacketLSFs
  BY <1>3, GatewayAssumption DEF GatewayStruct, States, Matches, Records
<1>4. CASE g.state = "Idle" /\ l \in NetLSFs
  BY <1>4 DEF GatewayStruct, States, Matches, Records, NetLSFs
<1>. QED  BY <1>1, <1>2, <1>3, <1>4 DEF NetLSFs

\* A LICH does the same.
LEMMA LICHGood ==
  ASSUME NEW g, NEW l \in LSFs, Good(g, l)
  PROVE  Good(ReceivedRFStreamLICH(g, l), l)
BY LSFGood DEF ReceivedRFStreamLICH

\* A voice frame is recorded under its own session, or relayed if it is for the
\* reflector.
LEMMA StreamGood ==
  ASSUME NEW g, NEW l \in LSFs, Good(g, l)
  PROVE  Good(ReceivedRFStreamFrame(g, l), l)
<1>1. CASE g.state = "Echo"
  <2>1. ReceivedRFStreamFrame(g, l) = [g EXCEPT !.echoStream = @ \cup {l}]
    BY <1>1 DEF ReceivedRFStreamFrame
  <2>. QED  BY <1>1, <2>1 DEF Good, GatewayStruct, Matches, Records, Alive
<1>2. CASE g.state = "RFStreamRX"
  <2>1. ReceivedRFStreamFrame(g, l) = [g EXCEPT !.sent = @ \cup {l}]
    BY <1>2 DEF ReceivedRFStreamFrame
  <2>. QED  BY <1>2, <2>1 DEF Good, GatewayStruct, Matches, Records, Alive
<1>3. CASE g.state \notin {"Echo", "RFStreamRX"}
  BY <1>3 DEF ReceivedRFStreamFrame
<1>. QED  BY <1>1, <1>2, <1>3

\* The end of an over leaves nothing of its session behind.
LEMMA EOTGood ==
  ASSUME NEW g, NEW l \in LSFs, Good(g, l)
  PROVE  Good(ReceivedRFStreamEOT(g, l), NoLSF)
<1>1. CASE g.state = "Echo"
  BY <1>1, GoAlive, AliveGood DEF ReceivedRFStreamEOT, Good, Places
<1>2. CASE g.state = "LocalCommand" /\ l \in InfoLSFs
  BY <1>2, GoAlive, AliveGood DEF ReceivedRFStreamEOT, Good, Places
<1>3. CASE g.state = "LocalCommand" /\ l \notin InfoLSFs
  BY <1>3, AliveGood DEF ReceivedRFStreamEOT, Good, Matches
<1>4. CASE g.state = "RFStreamRX"
  <2>1. ReceivedRFStreamEOT(g, l) = [g EXCEPT !.state = "Idle"]
    BY <1>4 DEF ReceivedRFStreamEOT
  <2>. QED  BY <2>1, IdleGood DEF Good, GatewayStruct, States
<1>5. CASE g.state = "Idle"
  BY <1>5, IdleGood DEF ReceivedRFStreamEOT, Good
<1>. QED  BY <1>1, <1>2, <1>3, <1>4, <1>5 DEF Good, GatewayStruct, States

\* A packet that is answered is answered by a goroutine; another changes nothing.
LEMMA PacketGood ==
  ASSUME NEW g, NEW l \in LSFs, NEW s, Good(g, s)
  PROVE  Good(ReceivedRFPacket(g, l), s)
<1>1. CASE l \in EchoLSFs
  <2> DEFINE h == [g EXCEPT !.state = "Echo"]
  <2>1. h \in GatewayStruct /\ h.state = "Echo" /\ h.sent = g.sent
    BY DEF Good, GatewayStruct, States
  <2>2. ReceivedRFPacket(g, l) = Go(h, "reply")
    BY <1>1 DEF ReceivedRFPacket
  <2>. HIDE DEF h
  <2>. QED  BY <2>1, <2>2, GoAlive, AliveGood DEF Good, Places
<1>2. CASE l \in InfoLSFs
  <2> DEFINE h == [g EXCEPT !.state = "LocalCommand"]
  <2>1. h \in GatewayStruct /\ h.state = "LocalCommand" /\ h.sent = g.sent
    BY DEF Good, GatewayStruct, States
  <2>2. ReceivedRFPacket(g, l) = Go(h, "reply")
    BY <1>2, GatewayAssumption DEF ReceivedRFPacket
  <2>. HIDE DEF h
  <2>. QED  BY <2>1, <2>2, GoAlive, AliveGood DEF Good, Places
<1>3. CASE l \notin EchoLSFs \cup InfoLSFs
  BY <1>3 DEF ReceivedRFPacket
<1>. QED  BY <1>1, <1>2, <1>3

\* Every callback keeps the types.
LEMMA CallbackType ==
  ASSUME NEW g \in GatewayStruct, NEW l \in LSFs
  PROVE  /\ ReceivedRFLSF(g, l) \in GatewayStruct
         /\ ReceivedRFStreamLICH(g, l) \in GatewayStruct
         /\ ReceivedRFStreamFrame(g, l) \in GatewayStruct
         /\ ReceivedRFStreamEOT(g, l) \in GatewayStruct
         /\ ReceivedRFPacket(g, l) \in GatewayStruct
<1>1. ReceivedRFLSF(g, l) \in GatewayStruct
  BY DEF ReceivedRFLSF, EchoStreamStart, GatewayStruct, States
<1>2. ReceivedRFStreamLICH(g, l) \in GatewayStruct
  BY <1>1 DEF ReceivedRFStreamLICH
<1>3. ReceivedRFStreamFrame(g, l) \in GatewayStruct
  BY DEF ReceivedRFStreamFrame, GatewayStruct
<1>4. ReceivedRFStreamEOT(g, l) \in GatewayStruct
  <2>1. [g EXCEPT !.state = "Idle"] \in GatewayStruct
    BY DEF GatewayStruct, States
  <2>. QED  BY <2>1, GoAlive DEF ReceivedRFStreamEOT, Places
<1>5. ReceivedRFPacket(g, l) \in GatewayStruct
  <2>1. /\ [g EXCEPT !.state = "Echo"] \in GatewayStruct
        /\ [g EXCEPT !.state = "LocalCommand"] \in GatewayStruct
    BY DEF GatewayStruct, States
  <2>. QED  BY <2>1, GoAlive DEF ReceivedRFPacket, Places
<1>. QED  BY <1>1, <1>2, <1>3, <1>4, <1>5

\* Sequences that grow.
LEMMA Appends ==
  ASSUME NEW a, NEW b, NEW c
  PROVE  /\ Append(<<>>, a) = <<a>>
         /\ Append(<<a>>, b) = <<a, b>>
         /\ Append(<<a, b>>, c) = <<a, b, c>>
<1> DEFINE s == Append(<<a, b>>, c)
           t == <<a, b, c>>
<1>1. s \in Seq({a, b, c}) /\ Len(s) = 3
  OBVIOUS
<1>2. t \in Seq({a, b, c}) /\ Len(t) = 3
  OBVIOUS
<1>3. \A i \in 1 .. 3 : s[i] = t[i]
  OBVIOUS
<1>4. s = t
  <2>. HIDE DEF s, t
  <2>. QED  BY <1>1, <1>2, <1>3, SeqEqual
<1> DEFINE u == Append(<<a>>, b)
           v == <<a, b>>
<1>5. u = v
  <2>1. u \in Seq({a, b}) /\ Len(u) = 2 /\ v \in Seq({a, b}) /\ Len(v) = 2
    OBVIOUS
  <2>2. \A i \in 1 .. 2 : u[i] = v[i]
    OBVIOUS
  <2>. HIDE DEF u, v
  <2>. QED  BY <2>1, <2>2, SeqEqual
<1>6. Append(<<>>, a) = <<a>>
  OBVIOUS
<1>. QED  BY <1>4, <1>5, <1>6

\* The callbacks of a call, one after the other.
LEMMA CallbacksOf ==
  ASSUME NEW g, NEW cbs, NEW a, NEW b, NEW c
  PROVE  /\ cbs = <<>>        => Callbacks(g, cbs) = g
         /\ cbs = <<a>>       => Callbacks(g, cbs) = Callback(g, a)
         /\ cbs = <<a, b>>    => Callbacks(g, cbs) = Callback(Callback(g, a), b)
         /\ cbs = <<a, b, c>> =>
              Callbacks(g, cbs) = Callback(Callback(Callback(g, a), b), c)
BY DEF Callbacks, CallbackNo

\* Which handler a callback calls.
LEMMA CallbackOf ==
  ASSUME NEW g, NEW l, NEW sid, NEW fn, NEW p
  PROVE  /\ Callback(g, RF!LSFCallback(l)) = ReceivedRFLSF(g, l)
         /\ Callback(g, RF!LICHCallback(l)) = ReceivedRFStreamLICH(g, l)
         /\ Callback(g, RF!StreamCallback(l, sid, fn)) = ReceivedRFStreamFrame(g, l)
         /\ Callback(g, RF!EOTCallback(l, sid, fn)) = ReceivedRFStreamEOT(g, l)
         /\ Callback(g, RF!PacketCallback(l, p)) = ReceivedRFPacket(g, l)
BY DEF Callback, RF!LSFCallback, RF!LICHCallback, RF!StreamCallback, RF!EOTCallback,
       RF!PacketCallback

----------------------------------------------------------------------------
(* The steps of the decoder *)

\* Nothing changes but that nobody is relayed yet.
LEMMA NothingGood ==
  ASSUME IInv
  PROVE  /\ Nothing \in GatewayStruct
         /\ Nothing.state = gw.state /\ Nothing.sent = {}
         /\ Nothing.tasks = gw.tasks /\ Nothing.echoStream = gw.echoStream
         /\ ~unended \/ gw.state = "Idle" => Good(Nothing, session)
<1>1. /\ Nothing \in GatewayStruct /\ Nothing.state = gw.state /\ Nothing.sent = {}
      /\ Nothing.tasks = gw.tasks /\ Nothing.echoStream = gw.echoStream
  BY DEF Nothing, IInv, GatewayStruct
<1>2. ASSUME ~unended
      PROVE  Good(Nothing, session)
  BY <1>1, <1>2 DEF IInv, Good, Matches, Records, Alive
<1>3. ASSUME gw.state = "Idle"
      PROVE  Good(Nothing, session)
  BY <1>1, <1>3, IdleGood
<1>. QED  BY <1>1, <1>2, <1>3

\* A voice frame under l: the gateway may be told that the over is resumed, and
\* that it ends.
LEMMA VoiceGood ==
  ASSUME NEW g, NEW l \in LSFs, NEW sid, NEW fn, NEW resumed \in BOOLEAN, NEW ends \in BOOLEAN,
         RF!Voice(l, sid, fn, resumed, ends)
  PROVE  /\ session' = IF ends THEN NoLSF ELSE l
         /\ \A i \in DOMAIN out' : out'[i].lsf = l
         /\ g \in GatewayStruct => Callbacks(g, out') \in GatewayStruct
         /\ Good(g, l) => Good(Callbacks(g, out'), session')
<1> DEFINE voice == RF!StreamCallback(l, sid, fn)
           lich  == RF!LICHCallback(l)
           eot   == RF!EOTCallback(l, sid, fn)
<1>1. session' = IF ends THEN NoLSF ELSE l
  BY DEF RF!Voice, RF!Closed
<1>2. /\ resumed /\ ends   => out' = <<lich, voice, eot>>
      /\ resumed /\ ~ends  => out' = <<lich, voice>>
      /\ ~resumed /\ ends  => out' = <<voice, eot>>
      /\ ~resumed /\ ~ends => out' = <<voice>>
  <2>1. out' = LET voiced == Append(IF resumed THEN <<lich>> ELSE <<>>, voice)
               IN IF ends THEN Append(voiced, eot) ELSE voiced
    BY DEF RF!Voice
  <2>. HIDE DEF voice, lich, eot
  <2>2. /\ Append(<<>>, voice) = <<voice>>
        /\ Append(<<lich>>, voice) = <<lich, voice>>
        /\ Append(<<voice>>, eot) = <<voice, eot>>
        /\ Append(<<lich, voice>>, eot) = <<lich, voice, eot>>
    BY Appends
  <2>3. CASE resumed
    BY <2>1, <2>2, <2>3
  <2>4. CASE ~resumed
    BY <2>1, <2>2, <2>4
  <2>. QED  BY <2>3, <2>4
<1>3. voice.lsf = l /\ lich.lsf = l /\ eot.lsf = l
  BY DEF RF!StreamCallback, RF!LICHCallback, RF!EOTCallback
<1>. HIDE DEF voice, lich, eot
<1>4. \A i \in DOMAIN out' : out'[i].lsf = l
  BY <1>2, <1>3
<1> DEFINE g1 == IF resumed THEN ReceivedRFStreamLICH(g, l) ELSE g
           g2 == ReceivedRFStreamFrame(g1, l)
           g3 == IF ends THEN ReceivedRFStreamEOT(g2, l) ELSE g2
<1>5. Callbacks(g, out') = g3
  <2>1. /\ \A h : Callback(h, lich) = ReceivedRFStreamLICH(h, l)
        /\ \A h : Callback(h, voice) = ReceivedRFStreamFrame(h, l)
        /\ \A h : Callback(h, eot) = ReceivedRFStreamEOT(h, l)
    BY CallbackOf DEF voice, lich, eot
  <2>2. CASE resumed /\ ends
    <3>1. Callbacks(g, out') = Callback(Callback(Callback(g, lich), voice), eot)
      BY <1>2, <2>2, CallbacksOf
    <3>. QED  BY <2>1, <2>2, <3>1
  <2>3. CASE resumed /\ ~ends
    <3>1. Callbacks(g, out') = Callback(Callback(g, lich), voice)
      BY <1>2, <2>3, CallbacksOf
    <3>. QED  BY <2>1, <2>3, <3>1
  <2>4. CASE ~resumed /\ ends
    <3>1. Callbacks(g, out') = Callback(Callback(g, voice), eot)
      BY <1>2, <2>4, CallbacksOf
    <3>. QED  BY <2>1, <2>4, <3>1
  <2>5. CASE ~resumed /\ ~ends
    <3>1. Callbacks(g, out') = Callback(g, voice)
      BY <1>2, <2>5, CallbacksOf
    <3>. QED  BY <2>1, <2>5, <3>1
  <2>. QED  BY <2>2, <2>3, <2>4, <2>5
<1>6. ASSUME g \in GatewayStruct
      PROVE  g3 \in GatewayStruct
  <2>1. g1 \in GatewayStruct
    BY <1>6, CallbackType
  <2>. HIDE DEF g1
  <2>2. g2 \in GatewayStruct
    BY <2>1, CallbackType
  <2>. HIDE DEF g2
  <2>. QED  BY <2>2, CallbackType
<1>7. ASSUME Good(g, l)
      PROVE  Good(g3, session')
  <2>1. Good(g1, l)
    BY <1>7, LICHGood
  <2>. HIDE DEF g1
  <2>2. Good(g2, l)
    BY <2>1, StreamGood
  <2>. HIDE DEF g2
  <2>. QED  BY <1>1, <2>2, EOTGood
<1>. QED  BY <1>1, <1>4, <1>5, <1>6, <1>7

\* A call of the decoder keeps the types, and leaves the gateway good unless an
\* end goes unreported.
LEMMA DecodeGood ==
  ASSUME IInv, Decode(RF!Next)
  PROVE  /\ gw' \in GatewayStruct
         /\ session' \in Sessions
         /\ (~unended \/ gw.state = "Idle") /\ ~Lost => Good(gw', session')
<1>1. gw' = Callbacks(Nothing, out') /\ RF!Next
  BY DEF Decode
<1>2. Nothing \in GatewayStruct /\ Nothing.state = gw.state /\ session \in Sessions
  BY NothingGood DEF IInv
<1>3. ASSUME ~unended \/ gw.state = "Idle"
      PROVE  Good(Nothing, session)
  BY <1>3, NothingGood
\* If the session changes and its end is not reported, it did not hold the gateway.
<1>4. ASSUME NEW s, ~unended \/ gw.state = "Idle", ~Lost, session' # session,
             \A i \in DOMAIN out' : ~(out'[i].cb = "EOT" /\ out'[i].lsf = session)
      PROVE  Good(Nothing, s)
  <2>1. session \notin LSFs \ PacketLSFs \/ gw.state = "Idle"
    BY <1>4 DEF Lost
  <2>. QED  BY <1>2, <1>3, <1>4, <2>1, AnySession
<1>5. CASE RF!Silent
  <2>1. gw' = Nothing /\ \A i \in DOMAIN out' : FALSE
    BY <1>1, <1>5, CallbacksOf DEF RF!Silent
  <2>2. session' \in Sessions
    BY <1>2, <1>5 DEF RF!Silent, RF!Closed, Sessions
  <2>. QED  BY <1>2, <1>3, <1>4, <2>1, <2>2
<1>6. ASSUME NEW l \in LSFs, RF!Open(l)
      PROVE  /\ gw' \in GatewayStruct
             /\ session' \in Sessions
             /\ (~unended \/ gw.state = "Idle") /\ ~Lost => Good(gw', session')
  <2>1. session' = l /\ out' = <<RF!LSFCallback(l)>>
    BY <1>6 DEF RF!Open
  <2>2. gw' = ReceivedRFLSF(Nothing, l)
    BY <1>1, <2>1, CallbacksOf, CallbackOf
  <2>3. \A i \in DOMAIN out' : out'[i].cb # "EOT"
    BY <2>1 DEF RF!LSFCallback
  <2>4. (~unended \/ gw.state = "Idle") /\ ~Lost => Good(Nothing, l)
    BY <1>3, <1>4, <2>1, <2>3
  <2>. QED  BY <1>2, <2>1, <2>2, <2>4, LSFGood, CallbackType DEF Sessions
<1>7. ASSUME NEW l \in LSFs, NEW sid, NEW fn, NEW resumed \in BOOLEAN, NEW ends \in BOOLEAN,
             RF!Voice(l, sid, fn, resumed, ends)
      PROVE  /\ gw' \in GatewayStruct
             /\ session' \in Sessions
             /\ (~unended \/ gw.state = "Idle") /\ ~Lost => Good(gw', session')
  <2>1. /\ session' = IF ends THEN NoLSF ELSE l
        /\ \A i \in DOMAIN out' : out'[i].lsf = l
        /\ gw' \in GatewayStruct
        /\ Good(Nothing, l) => Good(gw', session')
    BY <1>1, <1>2, <1>7, VoiceGood
  <2>2. ASSUME ~unended \/ gw.state = "Idle", ~Lost
        PROVE  Good(Nothing, l)
    <3>1. CASE session = l
      BY <1>3, <2>2, <3>1
    <3>2. CASE session # l /\ session # NoLSF
      <4>1. session' # session
        BY <2>1, <3>2
      <4>. QED  BY <1>4, <2>1, <2>2, <3>2, <4>1
    <3>3. CASE session = NoLSF
      BY <1>3, <2>2, <3>3, AnySession, GatewayAssumption
    <3>. QED  BY <3>1, <3>2, <3>3
  <2>. QED  BY <2>1, <2>2 DEF Sessions
<1>8. ASSUME NEW sid, NEW fn, RF!End(sid, fn)
      PROVE  /\ gw' \in GatewayStruct
             /\ session' \in Sessions
             /\ (~unended \/ gw.state = "Idle") /\ ~Lost => Good(gw', session')
  <2>1. session \in LSFs /\ session' = NoLSF /\ out' = <<RF!EOTCallback(session, sid, fn)>>
    BY <1>2, <1>8 DEF RF!End, RF!Closed, Sessions
  <2>2. gw' = ReceivedRFStreamEOT(Nothing, session)
    BY <1>1, <2>1, CallbacksOf, CallbackOf
  <2>. QED  BY <1>2, <1>3, <2>1, <2>2, EOTGood, CallbackType DEF Sessions
<1>9. ASSUME NEW p, RF!Deliver(p)
      PROVE  /\ gw' \in GatewayStruct
             /\ session' \in Sessions
             /\ (~unended \/ gw.state = "Idle") /\ ~Lost => Good(gw', session')
  <2>1. session \in LSFs /\ session' = NoLSF /\ out' = <<RF!PacketCallback(session, p)>>
    BY <1>2, <1>9 DEF RF!Deliver, RF!Closed, Sessions
  <2>2. gw' = ReceivedRFPacket(Nothing, session)
    BY <1>1, <2>1, CallbacksOf, CallbackOf
  <2>3. session' # session /\ \A i \in DOMAIN out' : out'[i].cb # "EOT"
    BY <2>1, GatewayAssumption DEF RF!PacketCallback
  <2>4. (~unended \/ gw.state = "Idle") /\ ~Lost => Good(Nothing, NoLSF)
    BY <1>4, <2>3
  <2>. QED  BY <1>2, <2>1, <2>2, <2>4, PacketGood, CallbackType DEF Sessions
<1>. QED
  BY <1>1, <1>5, <1>6, <1>7, <1>8, <1>9 DEF RF!Next

----------------------------------------------------------------------------
(* The steps of the goroutines *)

\* A goroutine that moves leaves the gateway good: it is alive.
LEMMA MoveGood ==
  ASSUME IInv, NEW from \in Places, NEW to \in Places, NEW g \in GatewayStruct,
         g.state = gw.state, g.sent = {}, g.tasks[from] > 0,
         gw' = Go([g EXCEPT !.tasks[from] = @ - 1], to), session' = session
  PROVE  /\ gw' \in GatewayStruct
         /\ session' \in Sessions
         /\ ~unended \/ gw.state = "Idle" => Good(gw', session')
<1> DEFINE h == [g EXCEPT !.tasks[from] = @ - 1]
<1>1. h \in GatewayStruct /\ h.state = gw.state /\ h.sent = {}
  BY OneLess
<1>2. gw' = Go(h, to)
  OBVIOUS
<1>. HIDE DEF h
<1>3. gw' \in GatewayStruct /\ gw'.state = gw.state /\ gw'.sent = {} /\ Alive(gw')
  <2>1. /\ Go(h, to) \in GatewayStruct /\ Go(h, to).state = h.state /\ Go(h, to).sent = h.sent
        /\ Alive(Go(h, to))
    BY <1>1, GoAlive
  <2>. QED  BY <1>1, <1>2, <2>1
<1>4. CASE gw.state = "RFStreamRX"
  BY <1>3, <1>4 DEF IInv, Good, Matches, Records
<1>5. CASE gw.state # "RFStreamRX"
  <2>1. gw'.sent \subseteq NetLSFs /\ gw'.state # "RFStreamRX"
    BY <1>3, <1>5
  <2>. QED  BY <1>3, <2>1, AliveGood DEF IInv
<1>. QED  BY <1>3, <1>4, <1>5 DEF IInv

\* A goroutine that ends leaves the gateway idle, and so good.
LEMMA SetIdleGood ==
  ASSUME IInv, NEW from \in Places, SetIdle(from)
  PROVE  /\ gw' \in GatewayStruct
         /\ session' \in Sessions
         /\ Good(gw', session')
<1> DEFINE h == [Nothing EXCEPT !.state = "Idle"]
<1>1. h \in GatewayStruct /\ h.state = "Idle" /\ h.sent = {} /\ h.tasks = gw.tasks
  BY NothingGood DEF GatewayStruct, States
<1>2. gw' = [h EXCEPT !.tasks[from] = @ - 1] /\ gw.tasks[from] > 0 /\ session' = session
  BY NothingGood DEF SetIdle, GatewayStruct
<1>. HIDE DEF h
<1>3. gw' \in GatewayStruct /\ gw'.state = "Idle" /\ gw'.sent = {}
  BY <1>1, <1>2, OneLess
<1>. QED  BY <1>2, <1>3, IdleGood DEF IInv

\* The net stream's timer ends a recording: a goroutine more.
LEMMA NetTimeoutGood ==
  ASSUME IInv, NetTimeout
  PROVE  /\ gw' \in GatewayStruct
         /\ session' \in Sessions
         /\ Good(gw', session')
<1>1. gw' = Go(Nothing, "check") /\ session' = session /\ gw.state = "Echo"
  BY DEF NetTimeout
<1>2. /\ gw' \in GatewayStruct /\ gw'.state = "Echo" /\ gw'.sent = {}
      /\ Alive(gw')
  BY <1>1, NothingGood, GoAlive DEF Places
<1>. QED  BY <1>1, <1>2, AliveGood DEF IInv

\* What every step comes to: types, and a good gateway if it was good, or idle,
\* and no end went unreported.
LEMMA NextGood ==
  ASSUME IInv, Next
  PROVE  /\ gw' \in GatewayStruct
         /\ session' \in Sessions
         /\ (~unended \/ gw.state = "Idle") /\ ~Lost => Good(gw', session')
         /\ Note
<1>1. CASE Decode(RF!Next)
  BY <1>1, DecodeGood DEF Decode
<1>2. CASE NetTimeout
  BY <1>2, NetTimeoutGood DEF NetTimeout
<1>3. CASE EchoCheck
  <2>1. CASE gw.state = "Echo"
    BY <1>3, <2>1, NothingGood, MoveGood DEF EchoCheck, Move, Places
  <2>2. CASE gw.state # "Echo"
    BY <1>3, <2>2, NothingGood, MoveGood DEF EchoCheck, Move, Places
  <2>. QED  BY <2>1, <2>2
<1>4. CASE EchoPlay
  BY <1>4, NothingGood, MoveGood DEF EchoPlay, Move, Places
<1>5. CASE EchoClear
  <2> DEFINE g == [Nothing EXCEPT !.echoStream = {}]
  <2>1. g \in GatewayStruct /\ g.state = gw.state /\ g.sent = {} /\ g.tasks = gw.tasks
    BY NothingGood DEF GatewayStruct
  <2>2. /\ gw' = Go([g EXCEPT !.tasks["clear"] = @ - 1], "idle")
        /\ gw.tasks["clear"] > 0 /\ session' = session /\ Note
    BY <1>5 DEF EchoClear, Move
  <2>. HIDE DEF g
  <2>. QED  BY <2>1, <2>2, MoveGood DEF Places
<1>6. CASE EchoDone
  BY <1>6, SetIdleGood DEF EchoDone, SetIdle, Places
<1>7. CASE ReplyDone
  BY <1>7, SetIdleGood DEF ReplyDone, SetIdle, Places
<1>. QED  BY <1>1, <1>2, <1>3, <1>4, <1>5, <1>6, <1>7 DEF Next

----------------------------------------------------------------------------
(* Theorems *)

\* Any gateway of the right type that is idle is right in any session, and one
\* that was busy is only excused by an end that went unreported.
LEMMA NextIInv == IInv /\ [Next]_vars => IInv'
<1>1. ASSUME IInv, Next
      PROVE  IInv'
  <2>1. /\ gw' \in GatewayStruct /\ session' \in Sessions /\ Note
        /\ (~unended \/ gw.state = "Idle") /\ ~Lost => Good(gw', session')
    BY <1>1, NextGood
  <2>2. unended' \in BOOLEAN
    BY <2>1 DEF Note
  <2>3. ASSUME ~unended'
        PROVE  Matches(gw', session') /\ Records(gw', session')
    <3>1. CASE gw'.state = "Idle"
      BY <3>1 DEF Matches, Records
    <3>2. CASE gw'.state # "Idle"
      <4>1. ~Lost /\ (~unended \/ gw.state = "Idle")
        BY <1>1, <2>1, <2>3, <3>2 DEF Note, IInv
      <4>. QED  BY <2>1, <4>1 DEF Good
    <3>. QED  BY <3>1, <3>2
  <2>. QED  BY <2>1, <2>2, <2>3 DEF IInv, Matches, Records, Alive
<1>2. ASSUME IInv, UNCHANGED vars
      PROVE  IInv'
  BY <1>2 DEF vars, IInv, Matches, Records, Alive
<1>. QED  BY <1>1, <1>2

\* The gateway starts idle, with no goroutine and nothing recorded.
LEMMA InitIInv == Init => IInv
<1>. SUFFICES ASSUME Init
              PROVE  IInv
  OBVIOUS
<1>1. gw \in GatewayStruct /\ gw.state = "Idle"
  BY DEF Init, GatewayStruct, States
<1>2. session \in Sessions /\ unended \in BOOLEAN
  BY DEF Init, RF!Init, Sessions
<1>. QED  BY <1>1, <1>2 DEF IInv, Matches, Records

\* A busy gateway is held by the over in progress or by a goroutine, and what it
\* records is the voice of that over alone, unless an end went unreported.
THEOREM GatewayConsistent == Spec => [](StateMatchesSession /\ RecordingOfOneStation)
<1>1. IInv => StateMatchesSession /\ RecordingOfOneStation
  BY DEF IInv, Matches, Records, StateMatchesSession, RecordingOfOneStation
<1>. QED  BY <1>1, InitIInv, NextIInv, PTL DEF Spec

\* Voice for the gateway itself never goes to the reflector.
THEOREM CommandsLocal == Spec => CommandsStayLocal
<1>1. IInv /\ [Next]_vars => [~unended /\ ~unended' => gw'.sent \subseteq NetLSFs]_vars
  <2>1. ASSUME IInv, Next, ~unended, ~unended'
        PROVE  gw'.sent \subseteq NetLSFs
    <3>1. CASE Lost
      BY <2>1, <3>1, NextGood DEF Note
    <3>2. CASE ~Lost
      BY <2>1, <3>2, NextGood DEF Good
    <3>. QED  BY <3>1, <3>2
  <2>. QED  BY <2>1
<1>. QED  BY <1>1, InitIInv, NextIInv, PTL DEF Spec, CommandsStayLocal

\* The state of the gateway stays within its types (gateway.go, audio.go).
THEOREM GatewayTypes == Spec => []TypeOK
<1>1. IInv => TypeOK
  BY DEF IInv, TypeOK, GatewayStruct
<1>. QED  BY <1>1, InitIInv, NextIInv, PTL DEF Spec

\* While an over is recorded for /ECHO the recording holds nobody else's voice,
\* unless an end went unreported (audio.go:189).
THEOREM RecordingsOfOneStation == Spec => []RecordingOfOneStation
<1>1. StateMatchesSession /\ RecordingOfOneStation => RecordingOfOneStation
  OBVIOUS
<1>. QED  BY <1>1, GatewayConsistent, PTL

----------------------------------------------------------------------------
(***************************************************************************)
(* The client: a connection is watched, and has a socket                   *)
(***************************************************************************)

ClientInv == ClientTypeOK /\ ConnectedIsWatched

\* Timer values: set, stopped, one tick further.
LEMMA TimerValues ==
  /\ Off \in Timer /\ PingPeriod \in Timer /\ Running(PingPeriod)
  /\ \A t \in Timer \ {0, Off} : t - 1 \in Timer /\ Running(t - 1)
BY ClientAssumption DEF Timer, Running

\* Sleeps, and what is left of one, are natural numbers.
LEMMA SleepValues ==
  /\ WaitTicks \in Nat /\ AckTicks \in Nat
  /\ \A n \in Nat : n * BackoffTicks \in Nat
  /\ \A n \in Nat : Less(n) \in Nat
BY ClientAssumption DEF Less

\* A handler that moves keeps the types, and only one that was there before
\* leaves "acked".
LEMMA HandlerMovesType ==
  ASSUME ClientTypeOK, NEW h \in Handlers, NEW from,
         NEW to \in {"gone", "start", "top", "read", "acked"}, HandlerMoves(h, from, to)
  PROVE  /\ handler' \in [Handlers -> [at   : {"gone", "start", "top", "read", "acked"},
                                       sock : Socks \cup {None}]]
         /\ handler'[h].at = to
         /\ \A g \in Handlers : handler[g].at = "acked" /\ from # "acked" => handler'[g].at = "acked"
BY DEF ClientTypeOK, HandlerMoves

\* The same for a retry loop; "fired" and "down" are left by their own steps.
LEMMA LoopMovesType ==
  ASSUME ClientTypeOK, NEW l \in Loops, NEW from, NEW to \in LoopPlaces, NEW sleep \in Nat,
         LoopMoves(l, from, to, sleep)
  PROVE  /\ loop' \in [Loops -> [at : LoopPlaces, sleep : Nat]]
         /\ loop'[l].at = to
         /\ from \notin {"fired", "down"} =>
              \A k \in Loops : loop[k].at \in {"fired", "down"} => loop'[k].at \in {"fired", "down"}
BY DEF ClientTypeOK, LoopMoves

\* Connect keeps the types and leaves the handlers that run alone.
LEMMA ConnectType ==
  ASSUME ClientTypeOK, Connect
  PROVE  /\ conn' \in Socks \cup {None} /\ open' \in SUBSET Socks /\ connecting' \in BOOLEAN
         /\ handler' \in [Handlers -> [at   : {"gone", "start", "top", "read", "acked"},
                                       sock : Socks \cup {None}]]
         /\ \A g \in Handlers : handler[g].at = "acked" => handler'[g].at = "acked"
BY ZenonT(60) DEF ClientTypeOK, Connect

\* What keeps the watch when nothing is connected anew: the user's state does
\* not go back, and timer, handlers and loops keep their part in it.
LEMMA StillWatched ==
  ASSUME ConnectedIsWatched,
         connected' => connected,
         user' \in {"new", "open"} => user \in {"new", "open"},
         Running(timer) => \/ Running(timer')
                           \/ \E l \in Loops : loop'[l].at \in {"fired", "down"},
         \A h \in Handlers : handler[h].at = "acked" => handler'[h].at = "acked",
         \A l \in Loops : loop[l].at \in {"fired", "down"} => loop'[l].at \in {"fired", "down"}
  PROVE  ConnectedIsWatched'
BY DEF ConnectedIsWatched

\* Initially nothing is connected.
LEMMA InitClientInv == ClientInit => ClientInv
<1>. SUFFICES ASSUME ClientInit  PROVE ClientInv
  OBVIOUS
<1>1. /\ handler \in [Handlers -> [at   : {"gone", "start", "top", "read", "acked"},
                                   sock : Socks \cup {None}]]
      /\ loop \in [Loops -> [at : LoopPlaces, sleep : Nat]]
  BY DEF ClientInit, Gone, LoopPlaces
<1>2. ClientTypeOK
  BY <1>1, TimerValues DEF ClientInit, ClientTypeOK
<1>. QED  BY <1>2 DEF ClientInit, ClientInv, ConnectedIsWatched

\* The steps of the program's own goroutine.
LEMMA UserClientInv ==
  ASSUME ClientInv, UserConnect \/ UserClose \/ UserCloseConn \/ UserSend
  PROVE  ClientInv'
<1>. USE DEF ClientInv
<1>1. CASE UserConnect
  <2>1. ClientTypeOK'
    BY <1>1, ConnectType DEF UserConnect, ClientTypeOK
  <2>2. ConnectedIsWatched'
    BY <1>1, ConnectType, StillWatched DEF UserConnect
  <2>. QED  BY <2>1, <2>2
<1>2. CASE UserClose
  <2>1. ClientTypeOK'
    BY <1>2, TimerValues DEF UserClose, UseConn, ClientTypeOK
  <2>. QED  BY <1>2, <2>1 DEF UserClose, ConnectedIsWatched
<1>3. CASE UserCloseConn
  <2>1. ClientTypeOK'
    BY <1>3 DEF UserCloseConn, CloseSocket, UseConn, fields, ClientTypeOK
  <2>. QED  BY <1>3, <2>1 DEF UserCloseConn, ConnectedIsWatched
<1>4. CASE UserSend
  <2>1. ClientTypeOK'
    BY <1>4 DEF UserSend, UseConn, fields, ClientTypeOK
  <2>. QED  BY <1>4, <2>1, StillWatched DEF UserSend, fields
<1>. QED  BY <1>1, <1>2, <1>3, <1>4

\* The steps of a handler.
LEMMA HandlerClientInv ==
  ASSUME ClientInv, NEW h \in Handlers, HandlerStep(h) \/ Message(h)
  PROVE  ClientInv'
<1>. USE DEF ClientInv
<1>1. CASE Start(h)
  <2>1. ClientTypeOK'
    BY <1>1, HandlerMovesType DEF Start, ClientTypeOK
  <2>. QED  BY <1>1, <2>1, HandlerMovesType, StillWatched DEF Start
<1>2. CASE Read(h)
  <2>1. ClientTypeOK'
    BY <1>2 DEF Read, UseConn, fields, ClientTypeOK
  <2>2. \A g \in Handlers : handler[g].at = "acked" => handler'[g].at = "acked"
    BY <1>2 DEF Read, ClientTypeOK
  <2>. QED  BY <1>2, <2>1, <2>2, StillWatched DEF Read, fields
<1>3. CASE Leave(h)
  <2>1. ClientTypeOK'
    BY <1>3, HandlerMovesType DEF Leave, ClientTypeOK
  <2>. QED  BY <1>3, <2>1, HandlerMovesType, StillWatched DEF Leave
<1>4. CASE ReadError(h)
  <2>1. ClientTypeOK'
    BY <1>4, HandlerMovesType DEF ReadError, ClientTypeOK
  <2>. QED  BY <1>4, <2>1, HandlerMovesType, StillWatched DEF ReadError
<1>5. CASE ReceiveACKN(h)
  <2>1. ClientTypeOK'
    BY <1>5, HandlerMovesType DEF ReceiveACKN, ClientTypeOK
  <2>2. handler'[h].at = "acked"
    BY <1>5, HandlerMovesType DEF ReceiveACKN
  <2>. QED  BY <2>1, <2>2 DEF ConnectedIsWatched
<1>6. CASE Arm(h)
  <2>1. ClientTypeOK'
    BY <1>6, HandlerMovesType, TimerValues DEF Arm, ClientTypeOK
  <2>2. Running(timer')
    BY <1>6, TimerValues DEF Arm
  <2>. QED  BY <2>1, <2>2 DEF ConnectedIsWatched
<1>7. CASE ReceiveNACK(h)
  <2>1. ClientTypeOK'
    BY <1>7, HandlerMovesType DEF ReceiveNACK, ClientTypeOK
  <2>. QED  BY <1>7, <2>1 DEF ReceiveNACK, ConnectedIsWatched
<1>8. CASE ReceivePING(h)
  <2>1. ClientTypeOK'
    BY <1>8, HandlerMovesType, TimerValues DEF ReceivePING, UseConn, ClientTypeOK
  <2>2. Running(timer')
    BY <1>8, TimerValues DEF ReceivePING
  <2>. QED  BY <2>1, <2>2 DEF ConnectedIsWatched
<1>9. CASE ReceiveOther(h)
  <2>1. ClientTypeOK'
    BY <1>9, HandlerMovesType DEF ReceiveOther, fields, ClientTypeOK
  <2>. QED  BY <1>9, <2>1, HandlerMovesType, StillWatched DEF ReceiveOther, fields
<1>. QED
  BY <1>1, <1>2, <1>3, <1>4, <1>5, <1>6, <1>7, <1>8, <1>9 DEF HandlerStep, Message

\* The steps of a retry loop.
LEMMA LoopClientInv ==
  ASSUME ClientInv, NEW l \in Loops, Fire(l) \/ LoopStep(l)
  PROVE  ClientInv'
<1>. USE DEF ClientInv, LoopPlaces
<1>1. CASE Fire(l)
  <2>1. ClientTypeOK'
    BY <1>1, LoopMovesType, TimerValues DEF Fire, ClientTypeOK
  <2>2. loop'[l].at = "fired"
    BY <1>1, LoopMovesType DEF Fire
  <2>. QED  BY <2>1, <2>2 DEF ConnectedIsWatched
<1>2. CASE StopTimer(l)
  <2>1. ClientTypeOK'
    BY <1>2, LoopMovesType, TimerValues DEF StopTimer, ClientTypeOK
  <2>2. loop'[l].at = "down"
    BY <1>2, LoopMovesType DEF StopTimer
  <2>. QED  BY <2>1, <2>2 DEF ConnectedIsWatched
<1>3. CASE GoDown(l)
  <2>1. ClientTypeOK'
    BY <1>3, LoopMovesType DEF GoDown, ClientTypeOK
  <2>. QED  BY <1>3, <2>1 DEF GoDown, ConnectedIsWatched
<1>4. CASE TryAgain(l)
  <2>1. ClientTypeOK'
    BY <1>4, LoopMovesType DEF TryAgain, fields, ClientTypeOK
  <2>2. \A k \in Loops : loop[k].at \in {"fired", "down"} => loop'[k].at \in {"fired", "down"}
    BY <1>4, LoopMovesType DEF TryAgain
  <2>. QED  BY <1>4, <2>1, <2>2, StillWatched DEF TryAgain, fields
<1>5. CASE StopTrying(l)
  <2>1. ClientTypeOK'
    BY <1>5, LoopMovesType DEF StopTrying, fields, ClientTypeOK
  <2>2. \A k \in Loops : loop[k].at \in {"fired", "down"} => loop'[k].at \in {"fired", "down"}
    BY <1>5, LoopMovesType DEF StopTrying
  <2>. QED  BY <1>5, <2>1, <2>2, StillWatched DEF StopTrying, fields
<1>6. CASE CloseConn(l)
  <2>1. ClientTypeOK'
    BY <1>6, LoopMovesType DEF CloseConn, CloseSocket, UseConn, fields, ClientTypeOK
  <2>2. \A k \in Loops : loop[k].at \in {"fired", "down"} => loop'[k].at \in {"fired", "down"}
    BY <1>6, LoopMovesType DEF CloseConn
  <2>. QED  BY <1>6, <2>1, <2>2, StillWatched DEF CloseConn, fields
<1>7. CASE Wait(l)
  <2>1. retryCount * BackoffTicks \in Nat
    BY SleepValues DEF ClientTypeOK
  <2>2. loop[l].at = "wait" /\ (\E p \in {"wait", "connect"}, n \in Nat :
                                   loop' = [loop EXCEPT ![l] = [at |-> p, sleep |-> n]])
    BY <1>7, <2>1, SleepValues DEF Wait, LoopMoves
  <2>3. /\ loop' \in [Loops -> [at : LoopPlaces, sleep : Nat]]
        /\ \A k \in Loops : loop[k].at \in {"fired", "down"} => loop'[k].at \in {"fired", "down"}
    BY <2>2 DEF ClientTypeOK
  <2>4. ClientTypeOK'
    BY <1>7, <2>3 DEF Wait, fields, ClientTypeOK
  <2>. QED  BY <1>7, <2>3, <2>4, StillWatched DEF Wait, fields
<1>8. CASE ReConnect(l)
  <2>1. ClientTypeOK'
    <3>1. loop' \in [Loops -> [at : LoopPlaces, sleep : Nat]]
      BY <1>8, LoopMovesType, SleepValues DEF ReConnect
    <3>2. retryCount' \in Nat /\ Connect
      BY <1>8 DEF ReConnect, ClientTypeOK
    <3>. QED  BY <1>8, <3>1, <3>2, ConnectType DEF ReConnect, ClientTypeOK
  <2>2. \A k \in Loops : loop[k].at \in {"fired", "down"} => loop'[k].at \in {"fired", "down"}
    BY <1>8, LoopMovesType, SleepValues DEF ReConnect
  <2>3. \A g \in Handlers : handler[g].at = "acked" => handler'[g].at = "acked"
    BY <1>8, ConnectType DEF ReConnect
  <2>. QED  BY <1>8, <2>1, <2>2, <2>3, StillWatched DEF ReConnect
<1>. QED
  BY <1>1, <1>2, <1>3, <1>4, <1>5, <1>6, <1>7, <1>8 DEF LoopStep

\* Time passes: a timer that runs does not get past zero, a loop stays where it is.
LEMMA TickClientInv ==
  ASSUME ClientInv, Tick
  PROVE  ClientInv'
<1>. USE DEF ClientInv
<1>1. timer' \in Timer /\ (Running(timer) => Running(timer'))
  BY TimerValues DEF Tick, ClientTypeOK, Running
<1>2. /\ loop' \in [Loops -> [at : LoopPlaces, sleep : Nat]]
      /\ \A l \in Loops : loop'[l].at = loop[l].at
  BY SleepValues DEF Tick, ClientTypeOK
<1>3. ClientTypeOK'
  BY <1>1, <1>2 DEF Tick, ClientTypeOK
<1>. QED  BY <1>1, <1>2, <1>3, StillWatched DEF Tick

----------------------------------------------------------------------------
(* The socket *)

\* No goroutine of the client runs and none will be started by the timer.
Idle ==
  /\ timer = Off
  /\ \A h \in Handlers : handler[h].at = "gone"
  /\ \A l \in Loops : loop[l].at = "gone"

\* Unless a retry was denied a socket there is one to call methods on wherever
\* the client may call one: before the first Connect, and if that failed, it is idle.
HasSocket ==
  /\ user = "new" => Idle
  /\ ~denied => ~crashed /\ (conn # None \/ (Idle /\ user \in {"new", "closed"}))

\* Connect starts a handler on a socket only, and other handlers are not touched.
LEMMA ConnectSocket ==
  ASSUME ClientTypeOK, Connect
  PROVE  handler' # handler => conn' # None
BY ClientAssumption DEF Connect, ClientTypeOK

\* A step that leaves r.conn alone keeps the socket, if it calls no method on it
\* or there is one, and starts nothing where all is idle.
LEMMA KeepsSocket ==
  ASSUME HasSocket, ~Idle, UNCHANGED <<conn, denied>>, user' = "new" => user = "new",
         UNCHANGED crashed \/ UseConn
  PROVE  HasSocket'
<1>1. user # "new" /\ user' # "new"
  BY DEF HasSocket
<1>2. ASSUME ~denied'  PROVE ~crashed' /\ conn' # None
  <2>1. ~crashed /\ conn # None /\ conn' # None
    BY <1>2 DEF HasSocket
  <2>2. CASE UNCHANGED crashed
    BY <2>1, <2>2
  <2>3. CASE UseConn
    BY <2>1, <2>3 DEF UseConn
  <2>. QED  BY <2>1, <2>2, <2>3
<1>. QED  BY <1>1, <1>2 DEF HasSocket

\* Whatever the client does it keeps its socket, or was denied one.
LEMMA NextHasSocket ==
  ASSUME ClientTypeOK, HasSocket, ClientNext
  PROVE  HasSocket'
<1>1. CASE UserConnect
  <2>1. CASE handler' = handler
    BY <1>1, <2>1 DEF UserConnect, HasSocket, Idle
  <2>2. CASE handler' # handler
    BY <1>1, <2>2, ConnectSocket DEF UserConnect, HasSocket
  <2>. QED  BY <2>1, <2>2
<1>2. CASE UserClose
  BY <1>2 DEF UserClose, UseConn, HasSocket
<1>3. CASE UserCloseConn
  BY <1>3 DEF UserCloseConn, CloseSocket, UseConn, fields, HasSocket
<1>4. CASE UserSend
  BY <1>4 DEF UserSend, UseConn, fields, HasSocket
<1>5. ASSUME NEW h \in Handlers, HandlerStep(h) \/ Message(h)
      PROVE  HasSocket'
  <2>1. ~Idle
    BY <1>5 DEF HandlerStep, Message, Start, Read, Leave, Arm, ReadError, ReceiveACKN, ReceiveNACK,
                ReceivePING, ReceiveOther, HandlerMoves, Idle
  <2>2. /\ UNCHANGED <<conn, denied, user>>
        /\ UNCHANGED crashed \/ UseConn
    BY <1>5 DEF HandlerStep, Message, Start, Read, Leave, Arm, ReadError, ReceiveACKN, ReceiveNACK,
                ReceivePING, ReceiveOther, fields
  <2>. QED  BY <2>1, <2>2, KeepsSocket
<1>6. ASSUME NEW l \in Loops, Fire(l)
      PROVE  HasSocket'
  <2>1. ~Idle
    BY <1>6, ClientAssumption DEF Fire, Idle
  <2>. QED  BY <1>6, <2>1, KeepsSocket DEF Fire
<1>7. ASSUME NEW l \in Loops, LoopStep(l)
      PROVE  HasSocket'
  <2>1. ~Idle
    BY <1>7 DEF LoopStep, StopTimer, GoDown, TryAgain, StopTrying, CloseConn, Wait, ReConnect,
                LoopMoves, Idle
  <2>2. CASE ReConnect(l)
    BY <2>1, <2>2 DEF ReConnect, HasSocket
  <2>3. CASE ~ReConnect(l)
    <3>1. /\ UNCHANGED <<conn, denied, user>>
          /\ UNCHANGED crashed \/ UseConn
      BY <1>7, <2>3 DEF LoopStep, StopTimer, GoDown, TryAgain, StopTrying, CloseConn, CloseSocket,
                        Wait, fields
    <3>. QED  BY <2>1, <3>1, KeepsSocket
  <2>. QED  BY <2>2, <2>3
<1>8. CASE Tick
  <2>1. Idle => Idle'
    BY <1>8 DEF Tick, Running, ClientTypeOK, Idle
  <2>. QED  BY <1>8, <2>1 DEF Tick, HasSocket
<1>. QED  BY <1>1, <1>2, <1>3, <1>4, <1>5, <1>6, <1>7, <1>8 DEF ClientNext

----------------------------------------------------------------------------
(* Theorems *)

\* Every step keeps what is watched, and the socket.
LEMMA NextClientInv == ClientInv /\ [ClientNext]_clientVars => ClientInv'
<1>1. ASSUME ClientInv, ClientNext  PROVE ClientInv'
  BY <1>1, UserClientInv, HandlerClientInv, LoopClientInv, TickClientInv DEF ClientNext
<1>2. ASSUME ClientInv, UNCHANGED clientVars  PROVE ClientInv'
  BY <1>2 DEF ClientInv, clientVars, fields, ClientTypeOK, ConnectedIsWatched
<1>. QED  BY <1>1, <1>2

\* Whatever the reflector sends or fails to send, and however the goroutines of
\* the client interleave: as long as it takes itself for connected something
\* will take the connection down if the reflector falls silent.
THEOREM ConnectionWatched == ClientSpec => [](ClientTypeOK /\ ConnectedIsWatched)
<1>1. ClientInv => ClientTypeOK /\ ConnectedIsWatched
  BY DEF ClientInv
<1>. QED  BY <1>1, InitClientInv, NextClientInv, PTL DEF ClientSpec

\* Whatever the reflector does and however the goroutines interleave: as long as
\* no retry was denied a socket, no method is called on a nil r.conn
\* (internet.go:87, 118, 138, 144).
THEOREM PanicsNeedDenial == ClientSpec => []PanicNeedsDenial
<1>1. ClientInit => HasSocket
  BY DEF ClientInit, Gone, HasSocket, Idle
<1>2. ClientTypeOK /\ HasSocket /\ [ClientNext]_clientVars => HasSocket'
  <2>1. ClientTypeOK /\ HasSocket /\ ClientNext => HasSocket'
    BY NextHasSocket
  <2>2. HasSocket /\ UNCHANGED clientVars => HasSocket'
    BY DEF clientVars, fields, HasSocket, Idle
  <2>. QED  BY <2>1, <2>2
<1>3. HasSocket => PanicNeedsDenial
  BY DEF HasSocket, PanicNeedsDenial
<1>. QED  BY <1>1, <1>2, <1>3, ConnectionWatched, PTL DEF ClientSpec
=============================================================================
