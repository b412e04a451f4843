-------------------------- MODULE InetServer_proofs --------------------------
(***************************************************************************)
(* The clients of the reflector expire, none before its time, and what is  *)
(* relayed stays in its module: proofs about InetServer, for any number of *)
(* addresses, modules, client objects and any timer periods.               *)
(* Then the proofs about APRSModule, one of the reflector's modules.       *)
(***************************************************************************)
EXTENDS InetServer, APRSModule, TLAPS

\* Whatever the handler, a walk or a timer refers to was built by newClient,
\* and so has an address.
Refers(c) ==
  \/ c \in InMap \cup {hnd.client} \cup hnd.seen \cup sender.seen
  \/ obj[c].pong # Off \/ obj[c].ping # Off
  \/ obj[c].pongFn # "idle" \/ obj[c].pingFn # "idle"

Built == \A c \in Clients : Refers(c) => obj[c].addr \in Addrs

\* A client is in the map under its own address only.
EntryAddr == \A a \in Addrs : clients[a] # None => obj[clients[a]].addr = a

\* Between two datagrams the handler holds no client.
HandlerClient == hnd.at \in {"stop", "remove", "reset", "walk"} => hnd.client \in Clients

\* The two halves of EntriesTimed
EntriesExpire == \A c \in InMap : Running(obj[c].pong) \/ Leaving(c)
EntriesPinged == \A c \in InMap : Running(obj[c].ping) \/ obj[c].pingFn # "idle" \/ Leaving(c)

IInv ==
  /\ TypeOK
  /\ Built
  /\ EntryAddr
  /\ HandlerClient
  /\ EntriesExpire
  /\ EntriesPinged

----------------------------------------------------------------------------
(* The type invariant *)

\* The values a timer can be set to.
LEMMA TimerType ==
  /\ PongPeriod \in Timer(PongPeriod) /\ Off \in Timer(PongPeriod)
  /\ PingPeriod \in Timer(PingPeriod) /\ Off \in Timer(PingPeriod)
BY ServerAssumption DEF Timer

\* A timer that is not due is a timer after one more tick.
LEMMA TimerTick ==
  ASSUME NEW p \in Nat, NEW t \in Timer(p), t # 0
  PROVE  /\ (IF Running(t) THEN t - 1 ELSE Off) \in Timer(p)
         /\ Running(IF Running(t) THEN t - 1 ELSE Off) <=> Running(t)
<1>1. CASE t = Off
  BY <1>1 DEF Timer, Running
<1>2. CASE t # Off
  <2>1. t \in 1 .. p
    BY <1>2 DEF Timer
  <2>2. t - 1 \in 0 .. p /\ t - 1 \in Nat
    BY <2>1
  <2>. QED  BY <1>2, <2>2, ServerAssumption DEF Timer, Running
<1>. QED  BY <1>1, <1>2

\* Hearing from an address keeps the type of the history variable.
LEMMA AliveType ==
  ASSUME TypeOK, NEW a \in Addrs, Alive(a)
  PROVE  silent' \in [Addrs -> 0 .. PongPeriod]
<1>1. 0 \in 0 .. PongPeriod
  BY ServerAssumption
<1>. QED  BY <1>1 DEF Alive, TypeOK

\* Setting fields of a client object keeps it a client object.
LEMMA ObjType ==
  ASSUME TypeOK, NEW c \in Clients,
         NEW pong \in Timer(PongPeriod), NEW ping \in Timer(PingPeriod),
         NEW pongFn \in {"idle", "stop", "remove"}, NEW pingFn \in {"idle", "send"},
         NEW a \in Addrs \cup {None}, NEW m \in Modules \cup {None}
  PROVE  [obj EXCEPT ![c] = [addr |-> a, module |-> m, pong |-> pong, ping |-> ping,
                             pongFn |-> pongFn, pingFn |-> pingFn]] \in [Clients -> Client]
BY DEF TypeOK, Client

\* The fields of a client object.
LEMMA ObjFields ==
  ASSUME TypeOK, NEW c \in Clients
  PROVE  /\ obj[c].addr \in Addrs \cup {None} /\ obj[c].module \in Modules \cup {None}
         /\ obj[c].pong \in Timer(PongPeriod) /\ obj[c].ping \in Timer(PingPeriod)
         /\ obj[c].pongFn \in {"idle", "stop", "remove"} /\ obj[c].pingFn \in {"idle", "send"}
         /\ obj[c] = [addr |-> obj[c].addr, module |-> obj[c].module, pong |-> obj[c].pong,
                      ping |-> obj[c].ping, pongFn |-> obj[c].pongFn, pingFn |-> obj[c].pingFn]
BY DEF TypeOK, Client

\* Writing the map keeps its type.
LEMMA WriteMapType ==
  ASSUME TypeOK, NEW a, NEW c \in Clients \cup {None}, WriteMap(a, c)
  PROVE  clients' \in [Addrs -> Clients \cup {None}] /\ up' \in BOOLEAN
BY DEF TypeOK, WriteMap

\* What the server sends about a connection is a set of datagrams.
LEMMA SendType ==
  ASSUME NEW a \in Addrs, NEW kind \in {"ACKN", "NACK", "PING", "Packet"}, Send(a, kind)
  PROVE  out' \in SUBSET Datagram
BY DEF Send, Datagram

\* What it relays is a datagram.
LEMMA RelayedType ==
  ASSUME NEW a \in Addrs, NEW kind \in {"Stream", "Packet"}
  PROVE  Relayed(kind, a) \in Datagram
BY DEF Relayed, Datagram, StreamLen, MagicLen

\* The map holds client objects.
LEMMA InMapType ==
  ASSUME TypeOK
  PROVE  InMap \subseteq Clients
BY DEF TypeOK, InMap

\* The types hold initially.
LEMMA InitTypeOK == Init => TypeOK
BY ServerAssumption DEF Init, TypeOK, Client, Handler, Reading, Timer, Datagram, LongAgo

\* Every step keeps the types.
LEMMA NextTypeOK ==
  ASSUME IInv, Next
  PROVE  TypeOK'
<1>. USE DEF IInv
<1>1. ASSUME NEW a \in Addrs, NEW m \in Modules, Connect(a, m)  PROVE TypeOK'
  <2>1. PICK c \in Clients :
          /\ obj' = [obj EXCEPT ![c] = [addr |-> a, module |-> m, pong |-> PongPeriod,
                                        ping |-> PingPeriod, pongFn |-> "idle",
                                        pingFn |-> "idle"]]
          /\ WriteMap(a, c)
    BY <1>1 DEF Connect
  <2>2. obj' \in [Clients -> Client]
    BY <2>1, TimerType, ObjType
  <2>3. clients' \in [Addrs -> Clients \cup {None}] /\ up' \in BOOLEAN
    BY <2>1, WriteMapType
  <2>4. out' \in SUBSET Datagram
    BY <1>1, SendType DEF Connect
  <2>5. joined' \in [Addrs -> 0 .. LongAgo]
    <3>1. 0 \in 0 .. LongAgo
      BY ServerAssumption DEF LongAgo
    <3>. QED  BY <1>1, <3>1 DEF Connect, TypeOK
  <2>. QED  BY <1>1, <2>2, <2>3, <2>4, <2>5, AliveType DEF Connect, TypeOK
<1>2. ASSUME NEW a \in Addrs, Refuse(a)  PROVE TypeOK'
  <2>1. out' \in SUBSET Datagram
    BY <1>2, SendType DEF Refuse
  <2>. QED  BY <1>2, <2>1 DEF Refuse, TypeOK
<1>3. ASSUME NEW a \in Addrs, Disconnect(a)  PROVE TypeOK'
  BY <1>3 DEF Disconnect, LookUp, Quiet, Reading, Handler, TypeOK
<1>4. ASSUME NEW a \in Addrs, KeepAlive(a)  PROVE TypeOK'
  BY <1>4, AliveType DEF KeepAlive, LookUp, Quiet, Reading, Handler, TypeOK
<1>5. ASSUME NEW a \in Addrs, NEW kind \in {"Stream", "Packet"}, Carry(a, kind)  PROVE TypeOK'
  <2>1. out' \in SUBSET Datagram
    BY <1>5, SendType DEF Carry, Quiet
  <2>. QED  BY <1>5, <2>1, InMapType DEF Carry, LookUp, Handler, TypeOK
<1>6. CASE StopTimers
  <2>1. hnd.client \in Clients
    BY <1>6 DEF StopTimers, HandlerClient
  <2>2. obj' \in [Clients -> Client]
    BY <1>6, <2>1, TimerType DEF StopTimers, TypeOK, Client
  <2>. QED  BY <1>6, <2>2 DEF StopTimers, Quiet, Handler, TypeOK
<1>7. CASE RemoveClient
  BY <1>7, WriteMapType DEF RemoveClient, Quiet, Reading, Handler, TypeOK
<1>8. CASE ResetPong
  <2>1. hnd.client \in Clients
    BY <1>8 DEF ResetPong, HandlerClient
  <2>2. obj' \in [Clients -> Client]
    BY <1>8, <2>1, TimerType DEF ResetPong, TypeOK, Client
  <2>. QED  BY <1>8, <2>2 DEF ResetPong, Quiet, Reading, Handler, TypeOK
<1>9. ASSUME NEW found \in SUBSET Clients, Relay(found)  PROVE TypeOK'
  <2>1. \A c \in found : c \in hnd.seen /\ obj[c].addr \in Addrs
    BY <1>9 DEF Relay, Found, Built, Refers
  <2>2. hnd.kind \in {"Stream", "Packet"} \/ hnd.kind = "none"
    BY DEF TypeOK, Handler
  <2>3. \A c \in found : Relayed(hnd.kind, obj[c].addr) \in Datagram
    BY <2>1, <2>2 DEF Relayed, Datagram, StreamLen, MagicLen
  <2>4. out' \in SUBSET Datagram
    BY <1>9, <2>3 DEF Relay
  <2>. QED  BY <1>9, <2>4 DEF Relay, Reading, Handler, TypeOK
<1>10. CASE Close
  BY <1>10 DEF Close, Quiet, Reading, Handler, TypeOK
<1>11. ASSUME NEW m \in Modules, StartSending(m)  PROVE TypeOK'
  BY <1>11, InMapType DEF StartSending, Quiet, TypeOK
<1>12. ASSUME NEW found \in SUBSET Clients, SendPackets(found)  PROVE TypeOK'
  <2>1. \A c \in found : obj[c].addr \in Addrs
    BY <1>12 DEF SendPackets, Found, Built, Refers
  <2>2. out' \in SUBSET Datagram
    BY <1>12, <2>1, RelayedType DEF SendPackets
  <2>. QED  BY <1>12, <2>2 DEF SendPackets, TypeOK
<1>13. ASSUME NEW c \in Clients, FirePong(c)  PROVE TypeOK'
  BY <1>13, TimerType DEF FirePong, Quiet, TypeOK, Client
<1>14. ASSUME NEW c \in Clients, PongStop(c)  PROVE TypeOK'
  BY <1>14, TimerType DEF PongStop, Quiet, TypeOK, Client
<1>15. ASSUME NEW c \in Clients, PongRemove(c)  PROVE TypeOK'
  <2>1. clients' \in [Addrs -> Clients \cup {None}] /\ up' \in BOOLEAN
    BY <1>15, WriteMapType DEF PongRemove
  <2>. QED  BY <1>15, <2>1 DEF PongRemove, Quiet, TypeOK, Client
<1>16. ASSUME NEW c \in Clients, FirePing(c)  PROVE TypeOK'
  BY <1>16, TimerType DEF FirePing, Quiet, TypeOK, Client
<1>17. ASSUME NEW c \in Clients, PingSend(c)  PROVE TypeOK'
  <2>1. obj[c].addr \in Addrs
    BY <1>17 DEF PingSend, Built, Refers
  <2>2. out' \in SUBSET Datagram
    BY <1>17, <2>1, SendType DEF PingSend, Quiet
  <2>. QED  BY <1>17, <2>2, TimerType DEF PingSend, TypeOK, Client
<1>18. CASE Tick
  <2>1. obj' \in [Clients -> Client]
    <3>1. ASSUME NEW c \in Clients  PROVE obj'[c] \in Client
      <4>1. (IF Running(obj[c].pong) THEN obj[c].pong - 1 ELSE Off) \in Timer(PongPeriod)
        BY <1>18, ObjFields, TimerTick, ServerAssumption DEF Tick
      <4>2. (IF Running(obj[c].ping) THEN obj[c].ping - 1 ELSE Off) \in Timer(PingPeriod)
        BY <1>18, ObjFields, TimerTick, ServerAssumption DEF Tick
      <4>3. obj'[c] = [obj[c] EXCEPT !.pong = IF Running(@) THEN @ - 1 ELSE Off,
                                     !.ping = IF Running(@) THEN @ - 1 ELSE Off]
        BY <1>18 DEF Tick
      <4>4. obj[c] \in Client
        BY DEF TypeOK
      <4>. QED  BY <4>1, <4>2, <4>3, <4>4 DEF Client
    <3>. QED  BY <1>18, <3>1 DEF Tick
  <2>2. silent' \in [Addrs -> 0 .. PongPeriod]
    <3>1. \A n \in 0 .. PongPeriod :
            (IF n < PongPeriod THEN n + 1 ELSE PongPeriod) \in 0 .. PongPeriod
      BY ServerAssumption
    <3>. QED  BY <1>18, <3>1 DEF Tick, TypeOK
  <2>3. joined' \in [Addrs -> 0 .. LongAgo]
    <3>1. \A n \in 0 .. LongAgo : (IF n < LongAgo THEN n + 1 ELSE LongAgo) \in 0 .. LongAgo
      BY ServerAssumption DEF LongAgo
    <3>. QED  BY <1>18, <3>1 DEF Tick, TypeOK
  <2>. QED  BY <1>18, <2>1, <2>2, <2>3 DEF Tick, Quiet, TypeOK
<1>. QED
  BY <1>1, <1>2, <1>3, <1>4, <1>5, <1>6, <1>7, <1>8, <1>9, <1>10, <1>11, <1>12, <1>13, <1>14,
     <1>15, <1>16, <1>17, <1>18
  DEF Next, Receive, Proceed, ModuleStep, PongStep, PingStep

----------------------------------------------------------------------------
(* The clients in the map *)

\* Deleting the entry of an address takes its client out of the map.
LEMMA DeleteEntry ==
  ASSUME TypeOK, EntryAddr, NEW a, WriteMap(a, None)
  PROVE  \A c \in InMap' : c \in InMap /\ c \in Clients /\ obj[c].addr # a
BY DEF TypeOK, EntryAddr, WriteMap, InMap

\* An entry written for an address holds the new client, the others are kept.
LEMMA WriteEntry ==
  ASSUME TypeOK, NEW a \in Addrs, NEW c \in Clients, WriteMap(a, c)
  PROVE  \A d \in InMap' : d \in Clients /\ (d = c \/ d \in InMap)
BY DEF TypeOK, WriteMap, InMap

\* The invariant holds initially: the map is empty.
LEMMA InitIInv == Init => IInv
<1>. SUFFICES ASSUME Init PROVE IInv
  OBVIOUS
<1>1. InMap = {}
  BY DEF Init, InMap
<1>2. hnd.client = None /\ hnd.at = "read" /\ hnd.seen = {} /\ sender.seen = {}
  BY DEF Init, Reading
<1>3. \A c \in Clients : ~Refers(c)
  BY <1>1, <1>2, ServerAssumption DEF Init, Refers
<1>4. EntryAddr
  BY DEF Init, EntryAddr
<1>. QED
  BY <1>1, <1>2, <1>3, <1>4, InitTypeOK
  DEF IInv, Built, HandlerClient, EntriesExpire, EntriesPinged

\* A connecting client is new: it was in no entry, and starts with both timers.
LEMMA ConnectIInv ==
  ASSUME IInv, TypeOK', NEW a \in Addrs, NEW m \in Modules, Connect(a, m)
  PROVE  IInv'
<1>. USE DEF IInv
<1>1. PICK c \in Clients :
        /\ Unused(c)
        /\ obj' = [obj EXCEPT ![c] = [addr |-> a, module |-> m, pong |-> PongPeriod,
                                      ping |-> PingPeriod, pongFn |-> "idle",
                                      pingFn |-> "idle"]]
        /\ WriteMap(a, c)
  BY DEF Connect
<1>2. obj'[c].addr = a /\ obj'[c].pong = PongPeriod /\ obj'[c].ping = PingPeriod
  BY <1>1 DEF TypeOK
<1>3. \A d \in Clients : d # c => obj'[d] = obj[d]
  BY <1>1 DEF TypeOK
<1>4. \A d \in InMap' : d \in Clients /\ (d = c \/ d \in InMap)
  BY <1>1, WriteEntry
<1>5. UNCHANGED <<hnd, sender>> /\ c \notin InMap /\ c # hnd.client
  BY <1>1 DEF Connect, Unused
<1>6. Running(PongPeriod) /\ Running(PingPeriod)
  BY ServerAssumption DEF Running
<1>7. Built'
  BY <1>2, <1>3, <1>4, <1>5 DEF Built, Refers
<1>8. EntryAddr'
  <2>1. ASSUME NEW b \in Addrs, clients'[b] # None  PROVE obj'[clients'[b]].addr = b
    <3>1. CASE b = a
      BY <1>1, <1>2, <3>1 DEF WriteMap, TypeOK
    <3>2. CASE b # a
      <4>1. clients'[b] = clients[b]
        BY <1>1, <3>2 DEF WriteMap, TypeOK
      <4>2. clients[b] \in InMap /\ clients[b] \in Clients
        BY <2>1, <4>1 DEF InMap, TypeOK
      <4>. QED  BY <1>3, <1>5, <2>1, <4>1, <4>2 DEF EntryAddr
    <3>. QED  BY <3>1, <3>2
  <2>. QED  BY <2>1 DEF EntryAddr
<1>9. HandlerClient'
  BY <1>5 DEF HandlerClient
<1>10. EntriesExpire' /\ EntriesPinged'
  BY <1>2, <1>3, <1>4, <1>5, <1>6 DEF EntriesExpire, EntriesPinged, Leaving
<1>. QED  BY <1>7, <1>8, <1>9, <1>10

\* A step that leaves the map alone keeps IInv if it keeps, or ends rightly,
\* what the handler and the timers of every client are about.
LEMMA SameMapIInv ==
  ASSUME IInv, TypeOK', UNCHANGED clients, HandlerClient',
         \A c \in Clients : obj'[c].addr = obj[c].addr,
         \A c \in Clients : Refers(c)' => Refers(c),
         \A c \in InMap : Running(obj[c].pong) \/ Leaving(c)
                           => (Running(obj[c].pong) \/ Leaving(c))',
         \A c \in InMap : Running(obj[c].ping) \/ obj[c].pingFn # "idle" \/ Leaving(c)
                           => (Running(obj[c].ping) \/ obj[c].pingFn # "idle" \/ Leaving(c))'
  PROVE  IInv'
<1>. USE DEF IInv
<1>1. InMap' = InMap /\ InMap \subseteq Clients
  BY InMapType DEF InMap
<1>2. Built'
  BY DEF Built
<1>3. EntryAddr'
  BY DEF EntryAddr, TypeOK
<1>4. EntriesExpire'
  BY <1>1 DEF EntriesExpire
<1>5. EntriesPinged'
  BY <1>1 DEF EntriesPinged
<1>. QED  BY <1>2, <1>3, <1>4, <1>5

\* A step that deletes the entry of an address keeps IInv if it changes, of
\* every client that stays in the map, nothing its timers depend on.
LEMMA DeleteIInv ==
  ASSUME IInv, TypeOK', NEW a \in Addrs, WriteMap(a, None), HandlerClient',
         \A c \in Clients : obj'[c].addr = obj[c].addr,
         \A c \in Clients : Refers(c)' => Refers(c),
         \A c \in Clients : obj[c].addr # a =>
           /\ UNCHANGED <<obj[c].pong, obj[c].ping, obj[c].pongFn, obj[c].pingFn>>
           /\ Leaving(c)' = Leaving(c)
  PROVE  IInv'
<1>. USE DEF IInv
<1>1. \A c \in InMap' : c \in InMap /\ c \in Clients /\ obj[c].addr # a
  BY DeleteEntry
<1>2. Built'
  BY DEF Built
<1>3. EntryAddr'
  BY DEF EntryAddr, WriteMap, TypeOK
<1>4. EntriesExpire'
  BY <1>1 DEF EntriesExpire, Running
<1>5. EntriesPinged'
  BY <1>1 DEF EntriesPinged, Running
<1>. QED  BY <1>2, <1>3, <1>4, <1>5

----------------------------------------------------------------------------
(* The inductive invariant *)

\* Every step keeps the invariant.
LEMMA NextIInv ==
  ASSUME IInv, Next
  PROVE  IInv'
<1>. USE DEF IInv
<1>0. TypeOK'
  BY NextTypeOK
<1>1. ASSUME NEW a \in Addrs, NEW m \in Modules, Connect(a, m)  PROVE IInv'
  BY <1>0, <1>1, ConnectIInv
<1>2. ASSUME NEW a \in Addrs, Refuse(a)  PROVE IInv'
  <2>. USE <1>2 DEF Refuse
  <2>1. \A c \in Clients : Refers(c)' = Refers(c) /\ Leaving(c)' = Leaving(c)
    BY DEF Refers, Leaving, InMap
  <2>. QED  BY <1>0, <2>1, InMapType, SameMapIInv DEF HandlerClient
<1>3. ASSUME NEW a \in Addrs,
             NEW next, next.client = clients[a], next.seen = {} \/ next.seen = InMap,
             next.at \in {"stop", "reset", "walk"}, LookUp(a, next)
      PROVE IInv'
  <2>. USE <1>3 DEF LookUp, Reads
  <2>1. clients[a] # None => clients[a] \in InMap /\ clients[a] \in Clients
    BY DEF InMap, TypeOK
  <2>2. \A c \in Clients : Refers(c)' => Refers(c)
    BY <2>1 DEF Refers, InMap
  <2>3. \A c \in Clients : Leaving(c)' = Leaving(c)
    BY DEF Leaving
  <2>4. HandlerClient'
    BY <2>1 DEF HandlerClient
  <2>. QED  BY <1>0, <2>2, <2>3, <2>4, InMapType, SameMapIInv
<1>4. ASSUME NEW a \in Addrs, Disconnect(a)  PROVE IInv'
  BY <1>3, <1>4 DEF Disconnect, Reading
<1>5. ASSUME NEW a \in Addrs, KeepAlive(a)  PROVE IInv'
  BY <1>3, <1>5 DEF KeepAlive, Reading
<1>6. ASSUME NEW a \in Addrs, NEW kind, Carry(a, kind)  PROVE IInv'
  BY <1>3, <1>6 DEF Carry
<1>7. CASE StopTimers
  <2>. USE <1>7 DEF StopTimers
  <2>1. hnd.client \in Clients
    BY DEF HandlerClient
  <2>2. \A c \in Clients : c # hnd.client => obj'[c] = obj[c]
    BY DEF TypeOK
  <2>3. /\ obj'[hnd.client].addr = obj[hnd.client].addr
        /\ obj'[hnd.client].pong = Off /\ obj'[hnd.client].ping = Off
        /\ obj'[hnd.client].pongFn = obj[hnd.client].pongFn
        /\ obj'[hnd.client].pingFn = obj[hnd.client].pingFn
    BY <2>1 DEF TypeOK, Client
  <2>4. hnd'.client = hnd.client /\ hnd'.seen = hnd.seen /\ hnd'.at = "remove"
    BY DEF TypeOK, Handler
  <2>5. \A c \in Clients : Refers(c)' => Refers(c)
    BY <2>2, <2>3, <2>4 DEF Refers, InMap
  <2>6. Leaving(hnd.client)' /\ \A c \in Clients : c # hnd.client => Leaving(c)' = Leaving(c)
    BY <2>2, <2>4 DEF Leaving
  <2>. QED  BY <1>0, <2>1, <2>2, <2>3, <2>4, <2>5, <2>6, InMapType, SameMapIInv DEF HandlerClient
<1>8. CASE RemoveClient
  <2>. USE <1>8 DEF RemoveClient
  <2>1. hnd.client \in Clients /\ obj[hnd.client].addr \in Addrs
    BY DEF HandlerClient, Built, Refers
  <2>2. \A c \in Clients : Refers(c)' => Refers(c)
    <3>1. \A c \in InMap' : c \in InMap
      BY DeleteEntry
    <3>2. None \notin Clients
      BY ServerAssumption
    <3>. QED  BY <3>1, <3>2 DEF Refers, Reading
  <2>3. \A c \in Clients : obj[c].addr # obj[hnd.client].addr => Leaving(c)' = Leaving(c)
    BY <2>1, ServerAssumption DEF Leaving, Reading
  <2>4. HandlerClient'
    BY DEF HandlerClient, Reading
  <2>. QED  BY <1>0, <2>1, <2>2, <2>3, <2>4, DeleteIInv
<1>9. CASE ResetPong
  <2>. USE <1>9 DEF ResetPong
  <2>1. hnd.client \in Clients /\ None \notin Clients
    BY ServerAssumption DEF HandlerClient
  <2>2. \A c \in Clients :
          /\ obj'[c].addr = obj[c].addr /\ obj'[c].ping = obj[c].ping
          /\ obj'[c].pongFn = obj[c].pongFn /\ obj'[c].pingFn = obj[c].pingFn
          /\ obj'[c].pong = IF c = hnd.client THEN PongPeriod ELSE obj[c].pong
    BY <2>1 DEF TypeOK, Client
  <2>3. \A c \in Clients : Refers(c)' => Refers(c)
    BY <2>1, <2>2 DEF Refers, InMap, Reading
  <2>4. \A c \in Clients : Leaving(c)' = Leaving(c)
    BY <2>1, <2>2 DEF Leaving, Reading
  <2>5. HandlerClient' /\ Running(PongPeriod)
    BY ServerAssumption DEF HandlerClient, Reading, Running
  <2>. QED  BY <1>0, <2>2, <2>3, <2>4, <2>5, InMapType, SameMapIInv
<1>10. ASSUME hnd.at \in {"read", "walk"},
              hnd' = Reading \/ hnd' = [Reading EXCEPT !.at = "closed"],
              UNCHANGED <<clients, obj, sender>>
       PROVE IInv'
  <2>. USE <1>10
  <2>1. hnd'.client = None /\ hnd'.seen = {} /\ hnd'.at \in {"read", "closed"}
    BY DEF Reading
  <2>2. \A c \in Clients : Refers(c)' => Refers(c)
    BY <2>1, ServerAssumption DEF Refers, InMap
  <2>3. \A c \in Clients : Leaving(c)' = Leaving(c)
    BY <2>1 DEF Leaving
  <2>. QED  BY <1>0, <2>1, <2>2, <2>3, InMapType, SameMapIInv DEF HandlerClient
<1>11. ASSUME NEW found \in SUBSET Clients, Relay(found)  PROVE IInv'
  BY <1>10, <1>11 DEF Relay
<1>12. CASE Close
  BY <1>10, <1>12 DEF Close
<1>13. ASSUME sender'.seen = {} \/ sender'.seen = InMap, UNCHANGED <<clients, obj, hnd>>
       PROVE IInv'
  <2>. USE <1>13
  <2>1. \A c \in Clients : Refers(c)' => Refers(c)
    BY DEF Refers, InMap
  <2>2. \A c \in Clients : Leaving(c)' = Leaving(c)
    BY DEF Leaving
  <2>. QED  BY <1>0, <2>1, <2>2, InMapType, SameMapIInv DEF HandlerClient
<1>14. ASSUME NEW m \in Modules, StartSending(m)  PROVE IInv'
  BY <1>13, <1>14 DEF StartSending
<1>15. ASSUME NEW found \in SUBSET Clients, SendPackets(found)  PROVE IInv'
  BY <1>13, <1>15 DEF SendPackets
<1>16. ASSUME NEW c \in Clients, FirePong(c) \/ PongStop(c)  PROVE IInv'
  <2>. USE <1>16 DEF FirePong, PongStop
  <2>1. \A d \in Clients : d # c => obj'[d] = obj[d]
    BY DEF TypeOK
  <2>2. obj'[c].addr = obj[c].addr /\ obj'[c].pongFn # "idle" /\ obj'[c].pingFn = obj[c].pingFn
    BY DEF TypeOK, Client
  <2>3. obj[c].pong = 0 \/ obj[c].pongFn # "idle"
    OBVIOUS
  <2>4. \A d \in Clients : Refers(d)' => Refers(d)
    BY <2>1, <2>3, ServerAssumption DEF Refers, InMap
  <2>5. Leaving(c)' /\ \A d \in Clients : d # c => Leaving(d)' = Leaving(d)
    BY <2>1, <2>2 DEF Leaving
  <2>. QED  BY <1>0, <2>1, <2>2, <2>4, <2>5, InMapType, SameMapIInv DEF HandlerClient
<1>17. ASSUME NEW c \in Clients, PongRemove(c)  PROVE IInv'
  <2>. USE <1>17 DEF PongRemove
  <2>1. obj[c].addr \in Addrs
    BY DEF Built, Refers
  <2>2. \A d \in Clients : d # c => obj'[d] = obj[d]
    BY DEF TypeOK
  <2>3. /\ obj'[c].addr = obj[c].addr /\ obj'[c].pong = obj[c].pong
        /\ obj'[c].ping = obj[c].ping /\ obj'[c].pingFn = obj[c].pingFn
        /\ obj'[c].pongFn = "idle"
    BY DEF TypeOK, Client
  <2>4. \A d \in Clients : Refers(d)' => Refers(d)
    <3>1. \A d \in InMap' : d \in InMap
      BY DeleteEntry
    <3>. QED  BY <2>2, <2>3, <3>1 DEF Refers
  <2>5. \A d \in Clients : d # c => Leaving(d)' = Leaving(d)
    BY <2>2 DEF Leaving
  <2>6. \A d \in Clients : obj[d].addr # obj[c].addr => d # c
    OBVIOUS
  <2>7. HandlerClient' /\ \A d \in Clients : obj'[d].addr = obj[d].addr
    BY <2>2, <2>3 DEF HandlerClient
  <2>8. WriteMap(obj[c].addr, None)
    OBVIOUS
  <2>. HIDE <1>17 DEF PongRemove
  <2>. QED  BY <1>0, <2>1, <2>2, <2>4, <2>5, <2>6, <2>7, <2>8, DeleteIInv
<1>18. ASSUME NEW c \in Clients, FirePing(c)  PROVE IInv'
  <2>. USE <1>18 DEF FirePing
  <2>1. \A d \in Clients : d # c => obj'[d] = obj[d]
    BY DEF TypeOK
  <2>2. /\ obj'[c].addr = obj[c].addr /\ obj'[c].pong = obj[c].pong
        /\ obj'[c].pongFn = obj[c].pongFn /\ obj'[c].pingFn = "send"
    BY DEF TypeOK, Client
  <2>3. \A d \in Clients : Refers(d)' => Refers(d)
    BY <2>1, <2>2, ServerAssumption DEF Refers, InMap
  <2>4. \A d \in Clients : Leaving(d)' = Leaving(d)
    BY <2>1, <2>2 DEF Leaving
  <2>. QED  BY <1>0, <2>1, <2>2, <2>3, <2>4, InMapType, SameMapIInv DEF HandlerClient
<1>19. ASSUME NEW c \in Clients, PingSend(c)  PROVE IInv'
  <2>. USE <1>19 DEF PingSend
  <2>1. \A d \in Clients : d # c => obj'[d] = obj[d]
    BY DEF TypeOK
  <2>2. /\ obj'[c].addr = obj[c].addr /\ obj'[c].pong = obj[c].pong
        /\ obj'[c].pongFn = obj[c].pongFn /\ obj'[c].ping = PingPeriod
    BY DEF TypeOK, Client
  <2>3. \A d \in Clients : Refers(d)' => Refers(d)
    BY <2>1, <2>2 DEF Refers, InMap
  <2>4. \A d \in Clients : Leaving(d)' = Leaving(d)
    BY <2>1, <2>2 DEF Leaving
  <2>5. Running(PingPeriod)
    BY ServerAssumption DEF Running
  <2>. QED  BY <1>0, <2>1, <2>2, <2>3, <2>4, <2>5, InMapType, SameMapIInv DEF HandlerClient
<1>20. CASE Tick
  <2>. USE <1>20 DEF Tick
  <2>1. \A c \in Clients :
          /\ obj'[c].addr = obj[c].addr
          /\ obj'[c].pongFn = obj[c].pongFn /\ obj'[c].pingFn = obj[c].pingFn
          /\ Running(obj'[c].pong) <=> Running(obj[c].pong)
          /\ Running(obj'[c].ping) <=> Running(obj[c].ping)
    <3>1. ASSUME NEW c \in Clients
          PROVE  /\ Running(obj'[c].pong) <=> Running(obj[c].pong)
                 /\ Running(obj'[c].ping) <=> Running(obj[c].ping)
      <4>1. obj[c].pong \in Timer(PongPeriod) /\ obj[c].ping \in Timer(PingPeriod)
        BY ObjFields
      <4>2. obj'[c].pong = (IF Running(obj[c].pong) THEN obj[c].pong - 1 ELSE Off)
        BY DEF TypeOK, Client
      <4>3. obj'[c].ping = (IF Running(obj[c].ping) THEN obj[c].ping - 1 ELSE Off)
        BY DEF TypeOK, Client
      <4>4. PongPeriod \in Nat /\ PingPeriod \in Nat
        BY ServerAssumption
      <4>5. obj[c].pong # 0 /\ obj[c].ping # 0
        OBVIOUS
      <4>6. Running(obj'[c].pong) <=> Running(obj[c].pong)
        BY <4>1, <4>2, <4>4, <4>5, TimerTick, Zenon
      <4>7. Running(obj'[c].ping) <=> Running(obj[c].ping)
        BY <4>1, <4>3, <4>4, <4>5, TimerTick, Zenon
      <4>. QED  BY <4>6, <4>7
    <3>2. \A c \in Clients :
            /\ obj'[c].addr = obj[c].addr
            /\ obj'[c].pongFn = obj[c].pongFn /\ obj'[c].pingFn = obj[c].pingFn
      BY DEF TypeOK, Client
    <3>. QED  BY <3>1, <3>2, Zenon
  <2>2. \A c \in Clients : Refers(c)' => Refers(c)
    BY <2>1, ZenonT(60) DEF Refers, InMap, Running
  <2>3. \A c \in Clients : Leaving(c)' = Leaving(c)
    BY <2>1 DEF Leaving
  <2>. QED  BY <1>0, <2>1, <2>2, <2>3, InMapType, SameMapIInv DEF HandlerClient
<1>. QED
  BY <1>1, <1>2, <1>4, <1>5, <1>6, <1>7, <1>8, <1>9, <1>11, <1>12, <1>14, <1>15, <1>16,
     <1>17, <1>18, <1>19, <1>20
  DEF Next, Receive, Proceed, ModuleStep, PongStep, PingStep

\* So does a step that changes nothing.
LEMMA StutterIInv ==
  ASSUME IInv, UNCHANGED vars
  PROVE  IInv'
BY DEF IInv, vars, TypeOK, Built, Refers, InMap, EntryAddr, HandlerClient, EntriesExpire,
       EntriesPinged, Leaving

\* Whatever connects, disconnects, answers or stays silent, and however the
\* functions of the timers interleave with the handler: no client is ever left
\* in the map with its pong timer stopped, nor without being pinged
\* (inet_server.go:259-269).
THEOREM ClientsTimed == Spec => [](TypeOK /\ EntriesTimed)
<1>1. Init => IInv
  BY InitIInv
<1>2. IInv /\ [Next]_vars => IInv'
  BY NextIInv, StutterIInv
<1>3. IInv => TypeOK /\ EntriesTimed
  BY DEF IInv, EntriesExpire, EntriesPinged, EntriesTimed
<1>. QED  BY <1>1, <1>2, <1>3, PTL DEF Spec

----------------------------------------------------------------------------
(* What is relayed *)

\* While the handler walks the map, what it saw are clients of different
\* addresses, and the sender is one of them: only the handler connects clients.
WalkSeen ==
  hnd.at = "walk" =>
    /\ hnd.client \in hnd.seen
    /\ \A c, d \in hnd.seen : obj[c].addr = obj[d].addr => c = d

\* The addresses of what a walk saw do not change.
LEMMA WalkKept ==
  ASSUME IInv, WalkSeen, UNCHANGED hnd,
         \A c \in Clients : obj'[c].addr = obj[c].addr
  PROVE  WalkSeen'
<1>1. hnd.seen \subseteq Clients
  BY DEF IInv, TypeOK, Handler
<1>. QED  BY <1>1 DEF WalkSeen

\* Every step keeps the walk.
LEMMA NextWalkSeen ==
  ASSUME IInv, WalkSeen, Next
  PROVE  WalkSeen'
<1>1. ASSUME NEW a \in Addrs, NEW kind, Carry(a, kind)  PROVE WalkSeen'
  <2>. USE <1>1 DEF Carry, LookUp, Reads
  <2>1. CASE clients[a] = None
    BY <2>1 DEF WalkSeen
  <2>2. CASE clients[a] # None
    <3>1. \A c, d \in InMap : obj[c].addr = obj[d].addr => c = d
      BY DEF IInv, EntryAddr, InMap
    <3>2. clients[a] \in InMap
      BY <2>2 DEF InMap
    <3>3. UNCHANGED obj /\ hnd'.client = clients[a] /\ hnd'.seen = InMap
      BY <2>2
    <3>. QED  BY <3>1, <3>2, <3>3 DEF WalkSeen
  <2>. QED  BY <2>1, <2>2
<1>2. ASSUME hnd'.at # "walk"  PROVE WalkSeen'
  BY <1>2 DEF WalkSeen
<1>3. ASSUME NEW a \in Addrs, (\E m \in Modules : Connect(a, m)) \/ Refuse(a)  PROVE WalkSeen'
  BY <1>2, <1>3 DEF Connect, Refuse, Reads
<1>4. ASSUME NEW a \in Addrs, Disconnect(a) \/ KeepAlive(a)  PROVE WalkSeen'
  BY <1>2, <1>4 DEF Disconnect, KeepAlive, LookUp, Reads, Reading
<1>5. ASSUME StopTimers \/ RemoveClient \/ ResetPong \/ Close
             \/ \E found \in SUBSET Clients : Relay(found)
      PROVE  WalkSeen'
  BY <1>2, <1>5 DEF StopTimers, RemoveClient, ResetPong, Close, Relay, Reading,
                    IInv, TypeOK, Handler
<1>6. CASE ModuleStep
  BY <1>6, WalkKept DEF ModuleStep, StartSending, SendPackets
<1>7. ASSUME NEW c \in Clients, PongStep(c) \/ PingStep(c)  PROVE WalkSeen'
  <2>1. \A d \in Clients : obj'[d].addr = obj[d].addr
    BY <1>7 DEF PongStep, PingStep, FirePong, PongStop, PongRemove, FirePing, PingSend,
                IInv, TypeOK, Client
  <2>. QED
    BY <1>7, <2>1, WalkKept
    DEF PongStep, PingStep, FirePong, PongStop, PongRemove, FirePing, PingSend
<1>8. CASE Tick
  <2>1. \A d \in Clients : obj'[d].addr = obj[d].addr
    BY <1>8 DEF Tick, IInv, TypeOK, Client
  <2>. QED  BY <1>8, <2>1, WalkKept DEF Tick
<1>. QED
  BY <1>1, <1>3, <1>4, <1>5, <1>6, <1>7, <1>8 DEF Next, Receive, Proceed

\* What a walk relays goes where RelayScope says.
LEMMA RelayReaches ==
  ASSUME IInv, WalkSeen, NEW found \in SUBSET Clients, Relay(found)
  PROVE  LET m == obj[hnd.client].module
             to == {d.to : d \in out'}
         IN /\ obj[hnd.client].addr \notin to
            /\ \A a \in Addrs : clients[a] \in hnd.seen \ {hnd.client} =>
                 (obj[clients[a]].module = m) = (a \in to)
<1>. DEFINE m == obj[hnd.client].module
            to == {d.to : d \in out'}
<1>1. \A k, a : Relayed(k, a).to = a
  BY DEF Relayed
<1>2. to = {obj[c].addr : c \in found \ {hnd.client}}
  BY <1>1 DEF Relay
<1>3. \A c \in found : c \in hnd.seen /\ obj[c].module = m
  BY DEF Relay, Found
<1>4. hnd.client \in hnd.seen
  BY DEF Relay, WalkSeen
<1>5. \A c, d \in hnd.seen : obj[c].addr = obj[d].addr => c = d
  BY DEF Relay, WalkSeen
<1>6. obj[hnd.client].addr \notin to
  BY <1>2, <1>3, <1>4, <1>5
<1>7. ASSUME NEW a \in Addrs, clients[a] \in hnd.seen \ {hnd.client}
      PROVE  (obj[clients[a]].module = m) = (a \in to)
  <2>1. clients[a] # None /\ clients[a] \in InMap /\ obj[clients[a]].addr = a
    BY <1>7, ServerAssumption DEF IInv, TypeOK, Handler, EntryAddr, InMap
  <2>2. ASSUME obj[clients[a]].module = m  PROVE a \in to
    BY <1>2, <1>7, <2>1, <2>2 DEF Relay, Found
  <2>3. ASSUME a \in to  PROVE obj[clients[a]].module = m
    BY <1>2, <1>3, <1>5, <1>7, <2>1, <2>3
  <2>. QED  BY <2>2, <2>3
<1>. QED  BY <1>6, <1>7

\* A datagram goes to the other clients of the sender's module, to no client of
\* another module and never back, whatever is deleted from the map while it is
\* walked without its mutex (inet_server.go:124-129).
THEOREM RelaysScoped == Spec => RelayScope
<1>1. Init => IInv /\ WalkSeen
  BY InitIInv DEF Init, Reading, WalkSeen
<1>2. IInv /\ WalkSeen /\ [Next]_vars => IInv' /\ WalkSeen'
  <2>1. ASSUME IInv, WalkSeen, UNCHANGED vars  PROVE WalkSeen'
    BY <2>1 DEF vars, WalkSeen
  <2>. QED  BY <2>1, NextIInv, StutterIInv, NextWalkSeen
<1>3. IInv /\ WalkSeen =>
        \A found \in SUBSET Clients : Relay(found) =>
          LET m == obj[hnd.client].module
              to == {d.to : d \in out'}
          IN /\ obj[hnd.client].addr \notin to
             /\ \A a \in Addrs : clients[a] \in hnd.seen \ {hnd.client} =>
                  (obj[clients[a]].module = m) = (a \in to)
  BY RelayReaches
<1>. QED  BY <1>1, <1>2, <1>3, PTL DEF Spec, RelayScope

----------------------------------------------------------------------------
(* Whom the pong timer drops *)

\* The client whose timer is about to be reset still holds its entry, or nobody
\* does: only the handler connects clients.
HandledOwn == \A c \in Clients : Resetting(c) => clients[obj[c].addr] \in {None, c}

\* The pong timer of a client in the map has run as long as it was silent, at
\* most; a keep-alive heard just now is about to reset it.
TimerFollows ==
  \A c \in Clients : Running(obj[c].pong) /\ clients[obj[c].addr] = c =>
    Resetting(c) \/ PongPeriod <= silent[obj[c].addr] + obj[c].pong

\* A timer that an earlier CONN left running was not started after the last one.
LeftTimers ==
  \A c \in Clients : Running(obj[c].pong) /\ clients[obj[c].addr] \notin {None, c} =>
    joined[obj[c].addr] + obj[c].pong <= PongPeriod

Timely == IInv /\ HandledOwn /\ TimerFollows /\ LeftTimers

\* A new client's timer starts, those left at its address have no more to run
\* than a whole period.
LEMMA ConnectTimely ==
  ASSUME Timely, TypeOK', NEW a \in Addrs, NEW m \in Modules, Connect(a, m)
  PROVE  HandledOwn' /\ TimerFollows' /\ LeftTimers'
<1>. USE DEF Timely
<1>1. PICK c \in Clients :
        /\ Unused(c)
        /\ obj' = [obj EXCEPT ![c] = [addr |-> a, module |-> m, pong |-> PongPeriod,
                                      ping |-> PingPeriod, pongFn |-> "idle",
                                      pingFn |-> "idle"]]
        /\ WriteMap(a, c)
  BY DEF Connect
<1>2. obj'[c].addr = a /\ obj'[c].pong = PongPeriod
  BY <1>1 DEF IInv, TypeOK
<1>3. \A d \in Clients : d # c => obj'[d] = obj[d]
  BY <1>1 DEF IInv, TypeOK
<1>4. \A d \in Clients : ~Resetting(d)'
  BY DEF Connect, Reads, Resetting
<1>5. /\ clients'[a] = c /\ silent'[a] = 0 /\ joined'[a] = 0
      /\ \A b \in Addrs : b # a => /\ clients'[b] = clients[b] /\ silent'[b] = silent[b]
                                   /\ joined'[b] = joined[b]
  BY <1>1 DEF Connect, WriteMap, Alive, IInv, TypeOK
<1>6. ASSUME NEW d \in Clients, d # c, Running(obj'[d].pong)
      PROVE  /\ obj'[d] = obj[d] /\ obj[d].addr \in Addrs /\ obj[d].pong \in 0 .. PongPeriod
             /\ Running(obj[d].pong) /\ ~Resetting(d)
  <2>1. obj'[d] = obj[d] /\ Refers(d)
    BY <1>3, <1>6 DEF Refers, Running
  <2>. QED  BY <1>6, <2>1, ObjFields DEF IInv, Built, Timer, Running, Connect, Reads, Resetting
<1>7. ASSUME NEW d \in Clients, Running(obj'[d].pong), clients'[obj'[d].addr] = d
      PROVE  PongPeriod <= silent'[obj'[d].addr] + obj'[d].pong
  <2>1. CASE d = c
    BY <1>2, <1>5, <2>1, ServerAssumption
  <2>2. CASE d # c
    <3>1. obj[d].addr # a
      BY <1>5, <1>6, <1>7, <2>2
    <3>. QED  BY <1>5, <1>6, <1>7, <2>2, <3>1 DEF TimerFollows
  <2>. QED  BY <2>1, <2>2
<1>8. ASSUME NEW d \in Clients, Running(obj'[d].pong), clients'[obj'[d].addr] \notin {None, d}
      PROVE  joined'[obj'[d].addr] + obj'[d].pong <= PongPeriod
  <2>1. d # c
    BY <1>2, <1>5, <1>8
  <2>2. CASE obj[d].addr = a
    BY <1>5, <1>6, <1>8, <2>1, <2>2, ServerAssumption
  <2>3. CASE obj[d].addr # a
    BY <1>5, <1>6, <1>8, <2>1, <2>3 DEF LeftTimers
  <2>. QED  BY <2>2, <2>3
<1>. QED  BY <1>4, <1>7, <1>8 DEF HandledOwn, TimerFollows, LeftTimers

\* A step that builds no client keeps all three, if no timer falls behind or
\* outlasts its period.
LEMMA KeepTimely ==
  ASSUME Timely, TypeOK', HandledOwn',
         \A c \in Clients : obj'[c].addr = obj[c].addr,
         \A c \in Clients : Refers(c)' => Refers(c),
         \A a \in Addrs : clients'[a] \in {None, clients[a]},
         \A c \in Clients : Refers(c) /\ Running(obj'[c].pong) /\ clients[obj[c].addr] = c =>
           \/ Resetting(c)'
           \/ PongPeriod <= silent'[obj[c].addr] + obj'[c].pong,
         \A c \in Clients :
           Refers(c) /\ Running(obj'[c].pong) /\ clients[obj[c].addr] \notin {None, c} =>
             joined'[obj[c].addr] + obj'[c].pong <= PongPeriod
  PROVE  HandledOwn' /\ TimerFollows' /\ LeftTimers'
<1>. USE DEF Timely
<1>1. None \notin Clients
  BY ServerAssumption
<1>2. \A c \in Clients : Refers(c) => obj[c].addr \in Addrs
  BY DEF IInv, Built
<1>3. ASSUME NEW c \in Clients, Running(obj'[c].pong)
      PROVE  Refers(c)
  <2>1. Refers(c)'
    BY <1>3 DEF Refers, Running
  <2>. QED  BY <2>1
<1>4. TimerFollows'
  BY <1>1, <1>2, <1>3 DEF TimerFollows
<1>5. LeftTimers'
  BY <1>1, <1>2, <1>3 DEF LeftTimers
<1>. QED  BY <1>4, <1>5

\* A step of a timer's function touches its own client, and builds none.
LEMMA TimerBuilds ==
  ASSUME IInv, NEW c \in Clients, PongStep(c) \/ PingStep(c)
  PROVE  /\ \A d \in Clients : obj'[d].addr = obj[d].addr
         /\ \A d \in Clients : Refers(d)' => Refers(d)
         /\ \A a \in Addrs : clients'[a] \in {None, clients[a]}
         /\ \A d \in Clients : Running(obj'[d].pong) => obj'[d].pong = obj[d].pong
<1>. USE DEF PongStep, PingStep, FirePong, PongStop, PongRemove, FirePing, PingSend
<1>1. \A d \in Clients : d # c => obj'[d] = obj[d]
  BY DEF IInv, TypeOK
<1>2. obj'[c].addr = obj[c].addr
  BY DEF IInv, TypeOK, Client
<1>3. Running(obj'[c].pong) => obj'[c].pong = obj[c].pong
  BY DEF IInv, TypeOK, Client, Running
<1>4. obj[c].pong # Off \/ obj[c].ping # Off \/ obj[c].pongFn # "idle" \/ obj[c].pingFn # "idle"
  BY ServerAssumption
<1>5. \A a \in Addrs : clients'[a] \in {None, clients[a]}
  BY DEF IInv, TypeOK, WriteMap
<1>6. \A d \in InMap' : d \in InMap
  BY <1>5 DEF InMap
<1>7. \A d \in Clients : Refers(d)' => Refers(d)
  BY <1>1, <1>4, <1>6 DEF Refers
<1>. QED  BY <1>1, <1>2, <1>3, <1>5, <1>7

\* What the handler does for a client it found.
LEMMA HandlerBuilds ==
  ASSUME IInv, StopTimers \/ RemoveClient \/ ResetPong
  PROVE  /\ hnd.client \in Clients
         /\ \A d \in Clients : obj'[d].addr = obj[d].addr
         /\ \A d \in Clients : Refers(d)' => Refers(d)
         /\ \A a \in Addrs : clients'[a] \in {None, clients[a]}
         /\ \A d \in Clients : d # hnd.client => obj'[d].pong = obj[d].pong
<1>. USE DEF StopTimers, RemoveClient, ResetPong
<1>1. hnd.client \in Clients /\ None \notin Clients
  BY ServerAssumption DEF IInv, HandlerClient
<1>2. \A d \in Clients : d # hnd.client => obj'[d] = obj[d]
  BY DEF IInv, TypeOK
<1>3. obj'[hnd.client].addr = obj[hnd.client].addr
  BY <1>1 DEF IInv, TypeOK, Client
<1>4. \A a \in Addrs : clients'[a] \in {None, clients[a]}
  BY DEF IInv, TypeOK, WriteMap
<1>5. \A d \in InMap' : d \in InMap
  BY <1>4 DEF InMap
<1>6. Refers(hnd.client) /\ hnd'.client \in {hnd.client, None} /\ hnd'.seen \subseteq hnd.seen
  BY DEF Refers, Reading, IInv, TypeOK, Handler
<1>7. \A d \in Clients : Refers(d)' => Refers(d)
  BY <1>1, <1>2, <1>5, <1>6 DEF Refers
<1>. QED  BY <1>1, <1>2, <1>3, <1>4, <1>7

\* A tick takes from the timer what it adds to the silence.
LEMMA TickSum ==
  ASSUME NEW n \in Nat, NEW s \in 0 .. n, NEW p \in 0 .. n, p # 0, n <= s + p
  PROVE  n <= (IF s < n THEN s + 1 ELSE n) + (p - 1)
OBVIOUS

\* A tick takes from a timer left running what it adds to the time since CONN.
LEMMA LeftSum ==
  ASSUME NEW n \in Nat, NEW g \in 0 .. n + 1, NEW p \in 0 .. n, p # 0, g + p <= n
  PROVE  (IF g < n + 1 THEN g + 1 ELSE n + 1) + (p - 1) <= n
OBVIOUS

\* Every step keeps the three.
LEMMA NextTimely ==
  ASSUME Timely, Next
  PROVE  Timely'
<1>. USE DEF Timely
<1>0. IInv' /\ TypeOK'
  BY NextIInv DEF IInv
<1>. SUFFICES HandledOwn' /\ TimerFollows' /\ LeftTimers'
  BY <1>0
<1>. DEFINE Kept == HandledOwn' /\ TimerFollows' /\ LeftTimers'
<1>1. ASSUME NEW a \in Addrs, NEW m \in Modules, Connect(a, m)  PROVE Kept
  BY <1>0, <1>1, ConnectTimely
<1>2. ASSUME UNCHANGED <<clients, obj, joined, silent>>,
             (hnd.at # "reset" /\ hnd'.at # "reset") \/ UNCHANGED hnd
      PROVE  Kept
  BY <1>2 DEF HandledOwn, TimerFollows, LeftTimers, Resetting
<1>3. ASSUME NEW a \in Addrs,
             Refuse(a) \/ Disconnect(a) \/ \E kind \in {"Stream", "Packet"} : Carry(a, kind)
      PROVE  Kept
  <2>1. UNCHANGED <<clients, obj, joined, silent>> /\ hnd.at = "read"
    BY <1>3 DEF Refuse, Disconnect, Carry, LookUp, Reads
  <2>2. \A next : LookUp(a, next) => hnd' = hnd \/ hnd' = next
    BY DEF LookUp
  <2>3. Refuse(a) => hnd' = hnd
    BY DEF Refuse
  <2>4. Disconnect(a) => hnd' = hnd \/ hnd'.at = "stop"
    BY <2>2 DEF Disconnect, Reading
  <2>5. \A kind : Carry(a, kind) => hnd' = hnd \/ hnd'.at = "walk"
    BY <2>2 DEF Carry
  <2>. QED  BY <1>2, <1>3, <2>1, <2>3, <2>4, <2>5
<1>4. ASSUME NEW a \in Addrs, KeepAlive(a)  PROVE Kept
  <2>. USE <1>4 DEF KeepAlive, LookUp, Reads
  <2>1. HandledOwn'
    BY DEF HandledOwn, Resetting, Reading, IInv, EntryAddr
  <2>2. ASSUME NEW c \in Clients, Running(obj'[c].pong), clients'[obj'[c].addr] = c
        PROVE  Resetting(c)' \/ PongPeriod <= silent'[obj'[c].addr] + obj'[c].pong
    <3>1. obj[c].addr \in Addrs /\ c # None
      BY <2>2, ServerAssumption DEF IInv, Built, Refers, Running
    <3>2. CASE obj[c].addr = a
      BY <2>2, <3>1, <3>2 DEF Resetting, Reading
    <3>3. CASE obj[c].addr # a
      <4>1. silent'[obj[c].addr] = silent[obj[c].addr]
        BY <3>1, <3>3 DEF Alive, IInv, TypeOK
      <4>. QED  BY <2>2, <4>1 DEF TimerFollows, Resetting
    <3>. QED  BY <3>2, <3>3
  <2>3. LeftTimers'
    BY DEF LeftTimers
  <2>. QED  BY <2>1, <2>2, <2>3 DEF TimerFollows
<1>5. CASE StopTimers \/ RemoveClient \/ ResetPong
  <2>1. HandledOwn'
    BY <1>5 DEF HandledOwn, Resetting, StopTimers, RemoveClient, ResetPong, Reading,
                IInv, TypeOK, Handler
  <2>2. ASSUME NEW c \in Clients, Running(obj'[c].pong), Refers(c)
        PROVE  /\ clients[obj[c].addr] = c =>
                    Resetting(c)' \/ PongPeriod <= silent'[obj[c].addr] + obj'[c].pong
               /\ clients[obj[c].addr] \notin {None, c} =>
                    joined'[obj[c].addr] + obj'[c].pong <= PongPeriod
    <3>1. obj[c].addr \in Addrs /\ silent[obj[c].addr] \in 0 .. PongPeriod /\ PongPeriod \in Nat
      BY <2>2, ServerAssumption DEF IInv, Built, TypeOK
    <3>2. CASE c # hnd.client
      BY <1>5, <2>2, <3>2, HandlerBuilds
      DEF TimerFollows, LeftTimers, Resetting, StopTimers, RemoveClient, ResetPong
    <3>3. CASE c = hnd.client /\ StopTimers
      BY <2>2, <3>3 DEF StopTimers, Running, IInv, TypeOK, Client
    <3>4. CASE c = hnd.client /\ RemoveClient
      BY <2>2, <3>4 DEF RemoveClient, TimerFollows, LeftTimers, Resetting
    <3>5. CASE c = hnd.client /\ ResetPong
      <4>1. obj'[c].pong = PongPeriod /\ silent' = silent /\ Resetting(c)
        BY <3>5 DEF ResetPong, Resetting, IInv, TypeOK, Client
      <4>. QED  BY <3>1, <4>1 DEF HandledOwn
    <3>. QED  BY <1>5, <3>2, <3>3, <3>4, <3>5
  <2>. QED  BY <1>0, <1>5, <2>1, <2>2, HandlerBuilds, KeepTimely
<1>6. ASSUME NEW found \in SUBSET Clients, Relay(found)  PROVE Kept
  BY <1>2, <1>6 DEF Relay, Reading
<1>7. CASE Close
  BY <1>2, <1>7 DEF Close, Reading
<1>8. CASE ModuleStep
  BY <1>2, <1>8 DEF ModuleStep, StartSending, SendPackets
<1>9. ASSUME NEW c \in Clients, PongStep(c) \/ PingStep(c)  PROVE Kept
  <2>1. UNCHANGED <<hnd, joined, silent>>
    BY <1>9 DEF PongStep, PingStep, FirePong, PongStop, PongRemove, FirePing, PingSend
  <2>2. HandledOwn'
    <3>1. \A d \in Clients : Resetting(d) => obj[d].addr \in Addrs
      BY DEF Resetting, IInv, Built, Refers
    <3>. QED  BY <1>9, <2>1, <3>1, TimerBuilds DEF HandledOwn, Resetting
  <2>. QED  BY <1>0, <1>9, <2>1, <2>2, TimerBuilds, KeepTimely DEF TimerFollows, LeftTimers, Resetting
<1>10. CASE Tick
  <2>. USE <1>10 DEF Tick
  <2>1. ASSUME NEW c \in Clients
        PROVE  /\ obj'[c].addr = obj[c].addr
               /\ obj'[c].pong = IF Running(obj[c].pong) THEN obj[c].pong - 1 ELSE Off
    BY DEF IInv, TypeOK, Client
  <2>2. HandledOwn'
    BY <2>1 DEF HandledOwn, Resetting
  <2>3. ASSUME NEW c \in Clients, Running(obj'[c].pong)
        PROVE  /\ obj'[c].addr = obj[c].addr /\ clients' = clients
               /\ clients[obj[c].addr] = c =>
                    Resetting(c)' \/ PongPeriod <= silent'[obj[c].addr] + obj'[c].pong
               /\ clients[obj[c].addr] \notin {None, c} =>
                    joined'[obj[c].addr] + obj'[c].pong <= PongPeriod
    <3>1. Running(obj[c].pong) /\ obj'[c].pong = obj[c].pong - 1 /\ obj[c].pong # 0
      BY <2>1, <2>3 DEF Running
    <3>2. obj[c].pong \in 0 .. PongPeriod
      BY <3>1, ObjFields DEF Timer, Running, IInv
    <3>3. /\ obj[c].addr \in Addrs /\ silent[obj[c].addr] \in 0 .. PongPeriod
          /\ joined[obj[c].addr] \in 0 .. PongPeriod + 1 /\ PongPeriod \in Nat
      BY <3>1, ServerAssumption DEF IInv, Built, Refers, Running, TypeOK, LongAgo
    <3>4. /\ silent'[obj[c].addr] = IF silent[obj[c].addr] < PongPeriod
                                      THEN silent[obj[c].addr] + 1 ELSE PongPeriod
          /\ joined'[obj[c].addr] = IF joined[obj[c].addr] < PongPeriod + 1
                                      THEN joined[obj[c].addr] + 1 ELSE PongPeriod + 1
      BY <3>3 DEF LongAgo
    <3>5. Resetting(c)' = Resetting(c)
      BY DEF Resetting
    <3>6. PongPeriod <= silent[obj[c].addr] + obj[c].pong
            => PongPeriod <= silent'[obj[c].addr] + obj'[c].pong
      BY <3>1, <3>2, <3>3, <3>4, TickSum, Zenon
    <3>7. joined[obj[c].addr] + obj[c].pong <= PongPeriod
            => joined'[obj[c].addr] + obj'[c].pong <= PongPeriod
      BY <3>1, <3>2, <3>3, <3>4, LeftSum, Zenon
    <3>. QED  BY <2>1, <3>1, <3>5, <3>6, <3>7 DEF TimerFollows, LeftTimers
  <2>. QED  BY <2>2, <2>3 DEF TimerFollows, LeftTimers
<1>. QED
  BY <1>1, <1>3, <1>4, <1>5, <1>6, <1>7, <1>8, <1>9, <1>10 DEF Next, Receive, Proceed

\* The timer that reports "No PONGs received in > 30 seconds"
\* (inet_server.go:260) drops only who was silent for that long, or whose
\* keep-alive came too late to stop it; what an earlier CONN left running drops
\* the newer client only in the period after the newer CONN.
THEOREM SilentDropped == Spec => DroppedWhenSilent
<1>1. Init => Timely
  <2>1. ASSUME Init, NEW c \in Clients  PROVE ~Running(obj[c].pong) /\ ~Resetting(c)
    BY <2>1 DEF Init, Running, Resetting, Reading
  <2>. QED  BY <2>1, InitIInv DEF Timely, HandledOwn, TimerFollows, LeftTimers
<1>2. Timely /\ [Next]_vars => Timely'
  <2>1. ASSUME Timely, UNCHANGED vars  PROVE Timely'
    BY <2>1, StutterIInv DEF vars, Timely, HandledOwn, TimerFollows, LeftTimers, Resetting
  <2>. QED  BY <2>1, NextTimely
<1>3. Timely => \A c \in Clients :
                LET a == obj[c].addr
                IN FirePong(c) /\ clients[a] # None =>
                     \/ silent[a] = PongPeriod
                     \/ Resetting(c)
                     \/ clients[a] # c /\ joined[a] <= PongPeriod
  <2>1. ASSUME Timely, NEW c \in Clients, FirePong(c), clients[obj[c].addr] # None
        PROVE  \/ silent[obj[c].addr] = PongPeriod
               \/ Resetting(c)
               \/ clients[obj[c].addr] # c /\ joined[obj[c].addr] <= PongPeriod
    <3>1. obj[c].pong = 0 /\ Running(obj[c].pong) /\ Refers(c)
      BY <2>1, ServerAssumption DEF FirePong, Running, Refers
    <3>2. obj[c].addr \in Addrs /\ IInv
      BY <2>1, <3>1 DEF Timely, IInv, Built
    <3>3. silent[obj[c].addr] \in 0 .. PongPeriod /\ joined[obj[c].addr] \in 0 .. PongPeriod + 1
      BY <3>2 DEF IInv, TypeOK, LongAgo
    <3>4. CASE clients[obj[c].addr] = c
      BY <2>1, <3>1, <3>3, <3>4, ServerAssumption DEF Timely, TimerFollows
    <3>5. CASE clients[obj[c].addr] # c
      BY <2>1, <3>1, <3>3, <3>5, ServerAssumption DEF Timely, LeftTimers
    <3>. QED  BY <3>4, <3>5
  <2>. QED  BY <2>1
<1>. QED  BY <1>1, <1>2, <1>3, PTL DEF Spec, DroppedWhenSilent

----------------------------------------------------------------------------
(* The APRS module of the reflector (APRSModule), for any number of        *)
(* stations and any periods: the filter of a working connection covers the *)
(* users, and no station's positions are reported too often.               *)

\* A message or a datagram is handled for a user just heard; the ages of what
\* is known of stations fit each other, and a station no longer a user reported
\* its position before it was silent for StaleTimeout.
APRSAges ==
  /\ u # Nobody => u \in users /\ heard[u] = 0
  /\ \A c \in Callsigns :
       /\ heard[c] <= since[c]
       /\ c \notin users => since[c] > Spacing
       /\ reported[c] = since[c] \/ since[c] > Spacing

APRSInv == APRSTypeOK /\ FilterCoversUsers /\ APRSAges

\* Ages are counted in naturals, and Long is beyond both periods, which
\* Spacing is the shorter of.
LEMMA LongIsLong ==
  /\ Long \in Nat /\ Long > StaleTimeout /\ Long > ReportPeriod
  /\ Spacing \in Nat /\ Spacing <= ReportPeriod /\ (StaleTimeout > 0 => Spacing <= StaleTimeout)
BY APRSAssumption DEF Long, Spacing

\* A tick keeps ages within bounds, in their order, and beyond what they exceed.
LEMMA OlderAges ==
  ASSUME NEW a \in [Callsigns -> 0..Long], NEW b \in [Callsigns -> 0..Long]
  PROVE  /\ Older(a) \in [Callsigns -> 0..Long]
         /\ \A c \in Callsigns :
              /\ a[c] <= b[c] => Older(a)[c] <= Older(b)[c]
              /\ a[c] = b[c] => Older(a)[c] = Older(b)[c]
              /\ a[c] > Spacing => Older(a)[c] > Spacing
BY LongIsLong, APRSAssumption DEF Older, Spacing

\* Filters consist of APRS callsigns.
LEMMA FilterOfNames ==
  ASSUME NEW us \in SUBSET Callsigns
  PROVE  buildFilter(us) \subseteq Names
BY APRSAssumption DEF buildFilter

LEMMA APRSBegins == APRSInit => APRSInv
BY LongIsLong, APRSAssumption
   DEF APRSInit, APRSInv, APRSTypeOK, FilterCoversUsers, APRSAges, buildFilter

\* Who is heard becomes a user, with the filter sent if the connection works.
LEMMA UserAdded ==
  ASSUME APRSInv, NEW c \in Callsigns, getOrAddUser(c), handler = "idle",
         u' = c, UNCHANGED <<conn, reader, since>>, handler' \in {"message", "position"}
  PROVE  APRSInv'
<1>1. APRSTypeOK'
  <2>1. users' \subseteq Callsigns
    BY DEF APRSInv, APRSTypeOK, getOrAddUser
  <2>2. filter' \subseteq Names
    BY <2>1, FilterOfNames DEF APRSInv, APRSTypeOK, getOrAddUser, updateFilter
  <2>3. heard' \in [Callsigns -> 0..Long] /\ reported' \in [Callsigns -> 0..Long]
    BY LongIsLong DEF APRSInv, APRSTypeOK, getOrAddUser
  <2>4. (u' = Nobody) = (handler' = "idle")
    BY APRSAssumption
  <2> QED BY <2>1, <2>2, <2>3, <2>4 DEF APRSInv, APRSTypeOK
<1>2. FilterCoversUsers'
  BY DEF APRSInv, FilterCoversUsers, getOrAddUser, updateFilter, buildFilter
<1>3. u' # Nobody => u' \in users' /\ heard'[u'] = 0
  BY DEF APRSInv, APRSTypeOK, getOrAddUser
<1>4. ASSUME NEW d \in Callsigns
      PROVE  /\ heard'[d] <= since'[d]
             /\ d \notin users' => since'[d] > Spacing
             /\ reported'[d] = since'[d] \/ since'[d] > Spacing
  BY LongIsLong, APRSAssumption DEF APRSInv, APRSTypeOK, APRSAges, getOrAddUser
<1> QED BY <1>1, <1>2, <1>3, <1>4 DEF APRSInv, APRSAges

\* Handling one message or datagram to its end.
LEMMA Handled ==
  ASSUME APRSInv, SendMessage \/ ReportPosition \/ SkipPosition
  PROVE  APRSInv'
<1>1. CASE SendMessage
  BY <1>1 DEF APRSInv, APRSTypeOK, FilterCoversUsers, APRSAges, SendMessage, user
<1>2. CASE SkipPosition
  BY <1>2 DEF APRSInv, APRSTypeOK, FilterCoversUsers, APRSAges, SkipPosition, user
<1>3. CASE ReportPosition
  <2>1. APRSTypeOK'
    BY <1>3, LongIsLong DEF APRSInv, APRSTypeOK, ReportPosition
  <2>2. FilterCoversUsers'
    BY <1>3 DEF APRSInv, FilterCoversUsers, ReportPosition
  <2>3. u \in users /\ heard[u] = 0 /\ u \in Callsigns
    BY <1>3, APRSAssumption DEF APRSInv, APRSTypeOK, APRSAges, ReportPosition
  <2> QED BY <1>3, <2>1, <2>2, <2>3, LongIsLong, APRSAssumption
     DEF APRSInv, APRSTypeOK, APRSAges, ReportPosition
<1> QED BY <1>1, <1>2, <1>3

\* Stale users are removed: they have been silent, and reported nothing, for
\* longer than StaleTimeout.
LEMMA StaleRemoved ==
  ASSUME APRSInv, RemoveStaleUsers
  PROVE  APRSInv'
<1>1. APRSTypeOK'
  <2>1. users' \subseteq Callsigns
    BY DEF APRSInv, APRSTypeOK, RemoveStaleUsers
  <2>2. filter' \subseteq Names
    BY <2>1, FilterOfNames DEF APRSInv, APRSTypeOK, RemoveStaleUsers, updateFilter
  <2> QED BY <2>1, <2>2 DEF APRSInv, APRSTypeOK, RemoveStaleUsers
<1>2. FilterCoversUsers'
  BY DEF APRSInv, FilterCoversUsers, RemoveStaleUsers, updateFilter, buildFilter
<1>3. \A c \in Stale : since[c] > Spacing
  BY LongIsLong, APRSAssumption DEF APRSInv, APRSTypeOK, APRSAges, Stale, RemoveStaleUsers
<1>4. u # Nobody => u \notin Stale
  BY APRSAssumption DEF APRSInv, APRSAges, Stale
<1> QED BY <1>1, <1>2, <1>3, <1>4
   DEF APRSInv, APRSTypeOK, APRSAges, RemoveStaleUsers, Stale

\* The read loop changes neither users nor ages, and connects with a fresh filter.
LEMMA ReadLoop ==
  ASSUME APRSInv, Acknowledge \/ Deliver \/ Break \/ ReadError \/ connect
  PROVE  APRSInv'
<1>1. CASE Acknowledge \/ Deliver
  BY <1>1
     DEF APRSInv, APRSTypeOK, FilterCoversUsers, APRSAges, Acknowledge, Deliver, user
<1>2. CASE Break \/ ReadError
  BY <1>2
     DEF APRSInv, APRSTypeOK, FilterCoversUsers, APRSAges, Break, ReadError, user
<1>3. CASE connect
  BY <1>3, APRSAssumption
     DEF APRSInv, APRSTypeOK, FilterCoversUsers, APRSAges, connect, user, buildFilter
<1> QED BY <1>1, <1>2, <1>3

\* Time passes only between messages.
LEMMA Ticked ==
  ASSUME APRSInv, APRSTick
  PROVE  APRSInv'
<1>1. APRSTypeOK'
  BY OlderAges DEF APRSInv, APRSTypeOK, APRSTick
<1>2. FilterCoversUsers'
  BY DEF APRSInv, FilterCoversUsers, APRSTick
<1>3. u' = Nobody
  BY DEF APRSInv, APRSTypeOK, APRSTick
<1>4. /\ heard \in [Callsigns -> 0..Long]
      /\ reported \in [Callsigns -> 0..Long]
      /\ since \in [Callsigns -> 0..Long]
  BY DEF APRSInv, APRSTypeOK
<1>5. ASSUME NEW c \in Callsigns
      PROVE  /\ heard'[c] <= since'[c]
             /\ c \notin users' => since'[c] > Spacing
             /\ reported'[c] = since'[c] \/ since'[c] > Spacing
  BY <1>4, OlderAges DEF APRSInv, APRSAges, APRSTick
<1> QED BY <1>1, <1>2, <1>3, <1>5 DEF APRSInv, APRSAges

LEMMA APRSStep == APRSInv /\ [APRSNext]_aprsVars => APRSInv'
<1> SUFFICES ASSUME APRSInv, [APRSNext]_aprsVars PROVE APRSInv'
  OBVIOUS
<1>1. CASE UNCHANGED aprsVars
  BY <1>1 DEF APRSInv, APRSTypeOK, FilterCoversUsers, APRSAges, aprsVars, buildFilter
<1>2. ASSUME NEW c \in Callsigns, HandlePacket(c) \/ HandleStreamDatagram(c)
      PROVE  APRSInv'
  BY <1>2, UserAdded DEF HandlePacket, HandleStreamDatagram
<1> QED BY <1>1, <1>2, Handled, StaleRemoved, ReadLoop, Ticked DEF APRSNext

\* For any stations and periods, the filter of a connection that works covers
\* every user, whoever joined or was removed before or after it was made
\* (updateFilter and connect of server/aprs_module.go).
THEOREM FilterKept == APRSSpec => [](APRSTypeOK /\ FilterCoversUsers)
<1>1. APRSInv => APRSTypeOK /\ FilterCoversUsers
  BY DEF APRSInv
<1> QED BY APRSBegins, APRSStep, <1>1, PTL DEF APRSSpec

\* For any stations and periods, no station's position is reported twice within
\* ReportPeriod, or within StaleTimeout if that is shorter: the time of the last
\* report goes with a stale user
\* (HandleStreamDatagram and removeStaleUsers of server/aprs_module.go).
THEOREM PositionsRated == APRSSpec => PositionRate
<1>1. APRSInv /\ [APRSNext]_aprsVars =>
        [\A c \in Callsigns : ReportPosition /\ u = c => since[c] > Spacing]_aprsVars
  BY LongIsLong, APRSAssumption DEF APRSInv, APRSTypeOK, APRSAges, ReportPosition
<1> QED BY APRSBegins, APRSStep, <1>1, PTL DEF APRSSpec, PositionRate
=============================================================================
