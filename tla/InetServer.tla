----------------------------- MODULE InetServer -----------------------------
(***************************************************************************)
(* The reflector, src/server/inet_server.go.  One goroutine, handle, reads *)
(* the socket; the two timers of every client run their functions in       *)
(* goroutines of their own, and so do the modules (IRC, Discord, APRS)     *)
(* that send packets to their clients.  The client map is written under a  *)
(* mutex, but walked without it.                                           *)
(*                                                                         *)
(* A client is the object newClient builds, not an address: a second CONN  *)
(* from an address builds a second client and leaves the timers of the     *)
(* first one running.  Objects nothing refers to any more are reused.      *)
(* A datagram is its kind and its length.                                  *)
(***************************************************************************)
EXTENDS Naturals, FiniteSets

CONSTANTS
  Addrs,        \* UDP addresses clients send from
  Modules,      \* names of the modules the server is configured with
  Clients,      \* client objects: a bound on those alive at a time
  None,         \* no client, no module
  Off,          \* a timer that is not running
  PongPeriod,   \* 30 seconds, in ticks
  PingPeriod    \* 3 seconds, in ticks

ASSUME ServerAssumption ==
  /\ None \notin Clients \cup Modules \cup Addrs
  /\ PongPeriod \in Nat \ {0}
  /\ PingPeriod \in Nat \ {0}
  /\ Off \notin Nat

VARIABLES
  clients,   \* s.clients
  obj,       \* the client objects, their timers and the functions these run
  hnd,       \* where the goroutine of handle is
  sender,    \* where the goroutine of a module is
  up,        \* FALSE once the runtime stopped the program
  out,       \* the datagrams written by the last step
  silent,    \* history: ticks since an address sent PING, PONG or CONN, up to PongPeriod
  joined     \* history: ticks since an address sent CONN, up to LongAgo

vars == <<clients, obj, hnd, sender, up, out, silent, joined>>

----------------------------------------------------------------------------
LongAgo == PongPeriod + 1

Timer(period) == 0 .. period \cup {Off}

Client ==
  [addr   : Addrs \cup {None},
   module : Modules \cup {None},
   pong   : Timer(PongPeriod),                \* ticks to go
   ping   : Timer(PingPeriod),
   pongFn : {"idle", "stop", "remove"},       \* next step of its function
   pingFn : {"idle", "send"}]

Handler ==
  [at     : {"read", "stop", "remove", "reset", "walk", "closed"},
   client : Clients \cup {None},
   kind   : {"none", "Stream", "Packet"},
   seen   : SUBSET Clients]

Reading == [at |-> "read", client |-> None, kind |-> "none", seen |-> {}]

\* len(ToBytes()), the magic included (internet.go:318-328)
StreamLen == 54
MagicLen  == 4

Datagram == [to : Addrs, kind : {"ACKN", "NACK", "PING", "Packet"}]
              \cup [to : Addrs, kind : {"Stream"}, len : Nat]

Init ==
  /\ clients = [a \in Addrs |-> None]
  /\ obj = [c \in Clients |-> [addr |-> None, module |-> None, pong |-> Off, ping |-> Off,
                               pongFn |-> "idle", pingFn |-> "idle"]]
  /\ hnd = Reading
  /\ sender = [module |-> None, seen |-> {}]
  /\ up = TRUE
  /\ out = {}
  /\ silent = [a \in Addrs |-> PongPeriod]
  /\ joined = [a \in Addrs |-> LongAgo]

Send(a, kind) == out' = {[to |-> a, kind |-> kind]}
Quiet == out' = {}

InMap == {clients[a] : a \in Addrs} \ {None}

\* Nothing refers to the object: the runtime may collect it.
Unused(c) ==
  /\ c \notin InMap \cup {hnd.client} \cup hnd.seen \cup sender.seen
  /\ obj[c].pong = Off /\ obj[c].ping = Off
  /\ obj[c].pongFn = "idle" /\ obj[c].pingFn = "idle"

\* The map is walked without the mutex.  Writing it meanwhile is a data race,
\* on which the Go runtime may stop the program.
Walking == hnd.at = "walk" \/ sender.module # None

WriteMap(a, c) ==
  /\ clients' = [clients EXCEPT ![a] = c]
  /\ up' \in IF Walking THEN BOOLEAN ELSE {TRUE}

----------------------------------------------------------------------------
(* handle: the datagrams of clients *)

Alive(a) == silent' = [silent EXCEPT ![a] = 0]

Reads == up /\ hnd.at = "read"

\* CONN or LSTN, recvConnect: what the client held before is overwritten.
Connect(a, m) ==
  /\ Reads
  /\ Alive(a)
  /\ joined' = [joined EXCEPT ![a] = 0]
  /\ \E c \in Clients :
       /\ Unused(c)
       /\ obj' = [obj EXCEPT ![c] = [addr |-> a, module |-> m, pong |-> PongPeriod,
                                     ping |-> PingPeriod, pongFn |-> "idle",
                                     pingFn |-> "idle"]]
       /\ WriteMap(a, c)
  /\ Send(a, "ACKN")
  /\ UNCHANGED <<hnd, sender>>

\* A CONN of the wrong length or for no module, a stream datagram of the wrong
\* length or CRC.
Refuse(a) ==
  /\ Reads
  /\ Send(a, "NACK")
  /\ UNCHANGED <<clients, obj, hnd, sender, up, silent, joined>>

\* What handle does once lookupClient(addr) has returned a client.
LookUp(a, next) ==
  /\ Reads
  /\ hnd' = IF clients[a] = None THEN hnd ELSE next
  /\ UNCHANGED <<clients, obj, sender, up, joined>>

Disconnect(a) ==
  /\ LookUp(a, [Reading EXCEPT !.at = "stop", !.client = clients[a]])
  /\ Quiet
  /\ UNCHANGED silent

\* PING or PONG
KeepAlive(a) ==
  /\ LookUp(a, [Reading EXCEPT !.at = "reset", !.client = clients[a]])
  /\ Alive(a)
  /\ Quiet

\* The module takes the datagram, or refuses a stream with an error; either way
\* it is then relayed.
Carry(a, kind) ==
  /\ LookUp(a, [at |-> "walk", client |-> clients[a], kind |-> kind, seen |-> InMap])
  /\ Quiet \/ (kind = "Stream" /\ clients[a] # None /\ Send(a, "NACK"))
  /\ UNCHANGED silent

\* DISC: c.pongTimer.Stop(), c.pingTimer.Stop(), then removeClient(c)
StopTimers ==
  /\ up /\ hnd.at = "stop"
  /\ obj' = [obj EXCEPT ![hnd.client].pong = Off, ![hnd.client].ping = Off]
  /\ hnd' = [hnd EXCEPT !.at = "remove"]
  /\ Quiet
  /\ UNCHANGED <<clients, sender, up, silent, joined>>

RemoveClient ==
  /\ up /\ hnd.at = "remove"
  /\ WriteMap(obj[hnd.client].addr, None)
  /\ hnd' = Reading
  /\ Quiet
  /\ UNCHANGED <<obj, sender, silent, joined>>

\* Mutant of ResetPong: the timer is not reset.
ResetNothing ==
  /\ up /\ hnd.at = "reset"
  /\ hnd' = Reading
  /\ Quiet
  /\ UNCHANGED <<clients, obj, sender, up, silent, joined>>

\* c.pongTimer.Reset(30 * time.Second)
ResetPong ==
  /\ up /\ hnd.at = "reset"
  /\ obj' = [obj EXCEPT ![hnd.client].pong = PongPeriod]
  /\ hnd' = Reading
  /\ Quiet
  /\ UNCHANGED <<clients, sender, up, silent, joined>>

\* lookupClientsByModule: the clients of the module that were in the map all
\* along, and any of those that were deleted meanwhile.
Found(m, seen, found) ==
  LET ofModule(S) == {c \in S : obj[c].module = m}
  IN ofModule(seen \cap InMap) \subseteq found /\ found \subseteq ofModule(seen)

\* SendDatagram puts the magic before bytes that begin with it.
Relayed(kind, a) ==
  IF kind = "Stream"
    THEN [to |-> a, kind |-> "Stream", len |-> MagicLen + StreamLen]
    ELSE [to |-> a, kind |-> "Packet"]

Relay(found) ==
  /\ up /\ hnd.at = "walk"
  /\ Found(obj[hnd.client].module, hnd.seen, found)
  /\ out' = {Relayed(hnd.kind, obj[c].addr) : c \in found \ {hnd.client}}
  /\ hnd' = Reading
  /\ UNCHANGED <<clients, obj, sender, up, silent, joined>>

\* Close: the socket is gone and handle returns; the timers go on.
Close ==
  /\ up /\ hnd.at = "read"
  /\ hnd' = [Reading EXCEPT !.at = "closed"]
  /\ Quiet
  /\ UNCHANGED <<clients, obj, sender, up, silent, joined>>

----------------------------------------------------------------------------
(* A module with a message for its clients *)

StartSending(m) ==
  /\ up /\ sender.module = None
  /\ sender' = [module |-> m, seen |-> InMap]
  /\ Quiet
  /\ UNCHANGED <<clients, obj, hnd, up, silent, joined>>

SendPackets(found) ==
  /\ up /\ sender.module # None
  /\ Found(sender.module, sender.seen, found)
  /\ out' = IF hnd.at = "closed" THEN {} ELSE {Relayed("Packet", obj[c].addr) : c \in found}
  /\ sender' = [module |-> None, seen |-> {}]
  /\ UNCHANGED <<clients, obj, hnd, up, silent, joined>>

----------------------------------------------------------------------------
(* The timers of client c *)

\* No PING or PONG for 30 seconds: both timers are stopped, then the entry of
\* the client's address is deleted, whichever client it holds.
FirePong(c) ==
  /\ up /\ obj[c].pong = 0 /\ obj[c].pongFn = "idle"
  /\ obj' = [obj EXCEPT ![c].pong = Off, ![c].pongFn = "stop"]
  /\ Quiet
  /\ UNCHANGED <<clients, hnd, sender, up, silent, joined>>

PongStop(c) ==
  /\ up /\ obj[c].pongFn = "stop"
  /\ obj' = [obj EXCEPT ![c].pong = Off, ![c].ping = Off, ![c].pongFn = "remove"]
  /\ Quiet
  /\ UNCHANGED <<clients, hnd, sender, up, silent, joined>>

\* Mutant of PongRemove: removeClient is not called.
PongForget(c) ==
  /\ up /\ obj[c].pongFn = "remove"
  /\ obj' = [obj EXCEPT ![c].pongFn = "idle"]
  /\ Quiet
  /\ UNCHANGED <<clients, hnd, sender, up, silent, joined>>

PongRemove(c) ==
  /\ up /\ obj[c].pongFn = "remove"
  /\ obj' = [obj EXCEPT ![c].pongFn = "idle"]
  /\ WriteMap(obj[c].addr, None)
  /\ Quiet
  /\ UNCHANGED <<hnd, sender, silent, joined>>

FirePing(c) ==
  /\ up /\ obj[c].ping = 0 /\ obj[c].pingFn = "idle"
  /\ obj' = [obj EXCEPT ![c].ping = Off, ![c].pingFn = "send"]
  /\ Quiet
  /\ UNCHANGED <<clients, hnd, sender, up, silent, joined>>

\* Mutant of PingSend: the timer is not started again.
PingOnce(c) ==
  /\ up /\ obj[c].pingFn = "send"
  /\ obj' = [obj EXCEPT ![c].pingFn = "idle"]
  /\ IF hnd.at = "closed" THEN Quiet ELSE Send(obj[c].addr, "PING")
  /\ UNCHANGED <<clients, hnd, sender, up, silent, joined>>

\* sendPING, then Reset: what happens in between could as well have happened
\* before the PING.
PingSend(c) ==
  /\ up /\ obj[c].pingFn = "send"
  /\ obj' = [obj EXCEPT ![c].ping = PingPeriod, ![c].pingFn = "idle"]
  /\ IF hnd.at = "closed" THEN Quiet ELSE Send(obj[c].addr, "PING")
  /\ UNCHANGED <<clients, hnd, sender, up, silent, joined>>

Running(timer) == timer # Off

\* A tick passes.  A timer that is due fires before the next tick; its function
\* may take any number of them.
Tick ==
  /\ up
  /\ \A c \in Clients : obj[c].pong # 0 /\ obj[c].ping # 0
  /\ obj' = [c \in Clients |->
               [obj[c] EXCEPT !.pong = IF Running(@) THEN @ - 1 ELSE Off,
                              !.ping = IF Running(@) THEN @ - 1 ELSE Off]]
  /\ silent' = [a \in Addrs |-> IF silent[a] < PongPeriod THEN silent[a] + 1 ELSE PongPeriod]
  /\ joined' = [a \in Addrs |-> IF joined[a] < LongAgo THEN joined[a] + 1 ELSE LongAgo]
  /\ Quiet
  /\ UNCHANGED <<clients, hnd, sender, up>>

----------------------------------------------------------------------------
Receive(a) ==
  \/ \E m \in Modules : Connect(a, m)
  \/ Refuse(a) \/ Disconnect(a) \/ KeepAlive(a)
  \/ \E kind \in {"Stream", "Packet"} : Carry(a, kind)

Proceed == StopTimers \/ RemoveClient \/ ResetPong \/ \E found \in SUBSET Clients : Relay(found)

ModuleStep ==
  \/ \E m \in Modules : StartSending(m)
  \/ \E found \in SUBSET Clients : SendPackets(found)

PongStep(c) == FirePong(c) \/ PongStop(c) \/ PongRemove(c)
PingStep(c) == FirePing(c) \/ PingSend(c)

Next ==
  \/ \E a \in Addrs : Receive(a)
  \/ Proceed
  \/ Close
  \/ ModuleStep
  \/ \E c \in Clients : PongStep(c) \/ PingStep(c)
  \/ Tick

Spec == Init /\ [][Next]_vars

\* Goroutines are scheduled and time passes; nobody has to send anything.
Fairness ==
  /\ WF_vars(Proceed)
  /\ WF_vars(Tick)
  /\ \A c \in Clients : WF_vars(PongStep(c)) /\ WF_vars(PingStep(c))

FairSpec == Spec /\ Fairness

----------------------------------------------------------------------------
(* Properties *)

TypeOK ==
  /\ clients \in [Addrs -> Clients \cup {None}]
  /\ obj \in [Clients -> Client]
  /\ hnd \in Handler
  /\ sender \in [module : Modules \cup {None}, seen : SUBSET Clients]
  /\ up \in BOOLEAN
  /\ out \in SUBSET Datagram
  /\ silent \in [Addrs -> 0 .. PongPeriod]
  /\ joined \in [Addrs -> 0 .. LongAgo]

Leaving(c) == obj[c].pongFn # "idle" \/ (hnd.at = "remove" /\ hnd.client = c)

\* No client stays in the map for ever, nor unasked: as long as it is there its pong
\* timer runs, and its ping timer does or its function will start it again, or its
\* removal is under way, however CONN, DISC, keep-alives and the functions of the
\* timers (inet_server.go:259-269) interleave.
EntriesTimed ==
  \A c \in InMap :
    \/ Leaving(c)
    \/ Running(obj[c].pong) /\ (Running(obj[c].ping) \/ obj[c].pingFn # "idle")

\* A keep-alive of c was just read, its timer is about to be reset.
Resetting(c) == hnd.at = "reset" /\ hnd.client = c

\* The pong timer drops a client only after its period of silence, or beside a
\* keep-alive being handled, with one exception: in the period after a CONN the
\* timer of an older client may, which a CONN before left running at that
\* address (inet_server.go:263 deletes the entry whichever client it holds).
DroppedWhenSilent ==
  [][\A c \in Clients :
       LET a == obj[c].addr
       IN FirePong(c) /\ clients[a] # None =>
            \/ silent[a] = PongPeriod
            \/ Resetting(c)
            \/ clients[a] # c /\ joined[a] <= PongPeriod]_vars

\* What the function of the timer says when it fires: "No PONGs received in > 30
\* seconds. Disconnecting." (inet_server.go:260).  Then whoever holds the entry
\* it deletes (263) has been silent.
OnlySilentDropped ==
  [][\A c \in Clients :
       LET a == obj[c].addr
       IN FirePong(c) /\ clients[a] # None => silent[a] = PongPeriod \/ Resetting(c)]_vars

\* A datagram reaches every other client of the sender's module that stays in
\* the map meanwhile, no client of another module, and never its sender
\* (inet_server.go:124-129).
RelayScope ==
  [][\A found \in SUBSET Clients : Relay(found) =>
       LET m == obj[hnd.client].module
           to == {d.to : d \in out'}
       IN /\ obj[hnd.client].addr \notin to
          /\ \A a \in Addrs : clients[a] \in hnd.seen \ {hnd.client} =>
               (obj[clients[a]].module = m) = (a \in to)]_vars

\* What is relayed as a stream is a stream datagram to its receiver, which
\* takes 54 bytes only (internet.go:281): "Send the datagram to other clients
\* of the module" (inet_server.go:124).
RelayedIsReadable == \A d \in out : d.kind = "Stream" => d.len = StreamLen

\* A client that sends no keep-alive any more is dropped, or is heard again.
SilentIsDropped ==
  \A a \in Addrs :
    clients[a] # None /\ silent[a] = PongPeriod
      ~> clients[a] = None \/ silent[a] < PongPeriod \/ ~up
=============================================================================
