----------------------------- MODULE InetClient -----------------------------
(***************************************************************************)
(* The reflector's client, src/internet.go.  Three kinds of goroutine share *)
(* the fields of InetClient without a lock: the program's own, which calls *)
(* Connect once and may call Close; handle, started by every Connect, which *)
(* reads the socket; and the function of pingTimer, which starts a retry   *)
(* loop when the reflector has not been heard for 30 seconds.              *)
(*                                                                         *)
(* The reflector is the environment: it may send anything at any time, and *)
(* anything may get lost.  Steps take no time, sleeps and timers do.       *)
(***************************************************************************)
EXTENDS Integers

CONSTANTS
  Socks,       \* UDP sockets: a bound on those in use at a time
  Handlers,    \* goroutines of handle: a bound on those alive at a time
  Loops,       \* calls of the timer's function: the same
  None,        \* no socket
  Off,         \* a timer that is not running
  PingPeriod,  \* 30 seconds, in ticks
  MaxRetries,  \* maxRetries
  WaitTicks,   \* the 10-second sleep while the handler runs
  BackoffTicks,\* 5 seconds, times retryCount
  AckTicks     \* the 5-second sleep for the ACKN

ASSUME ClientAssumption ==
  /\ None \notin Socks
  /\ Off \notin Nat
  /\ PingPeriod \in Nat \ {0}
  /\ MaxRetries \in Nat
  /\ {WaitTicks, BackoffTicks, AckTicks} \subseteq Nat

VARIABLES
  connected, connecting, running, retryCount,  \* the fields of that name
  conn,      \* r.conn
  timer,     \* r.pingTimer, in ticks to go
  open,      \* sockets that have not been closed
  handler,   \* the goroutines of handle
  loop,      \* the calls of the timer's function
  user,      \* the program: "new", "open", "closing" or "closed"
  crashed,   \* a method was called on a nil r.conn, which panics
  denied     \* history: a retry could not have a socket

fields == <<connected, connecting, running, retryCount, conn, timer>>
clientVars == <<fields, open, handler, loop, user, crashed, denied>>

----------------------------------------------------------------------------
Timer == 0 .. PingPeriod \cup {Off}
Running(t) == t # Off

LoopPlaces == {"gone", "fired", "down", "test", "close", "wait", "connect"}

ClientTypeOK ==
  /\ {connected, connecting, running, crashed, denied} \subseteq BOOLEAN
  /\ retryCount \in Nat
  /\ conn \in Socks \cup {None}
  /\ timer \in Timer
  /\ open \in SUBSET Socks
  /\ handler \in [Handlers -> [at   : {"gone", "start", "top", "read", "acked"},
                               sock : Socks \cup {None}]]
  /\ loop \in [Loops -> [at : LoopPlaces, sleep : Nat]]
  /\ user \in {"new", "open", "closing", "closed"}

Gone == [at |-> "gone", sock |-> None]

ClientInit ==
  /\ connected = FALSE /\ connecting = FALSE /\ running = FALSE
  /\ crashed = FALSE /\ denied = FALSE
  /\ retryCount = 0
  /\ conn = None
  /\ timer = Off
  /\ open = {}
  /\ handler = [h \in Handlers |-> Gone]
  /\ loop = [l \in Loops |-> [at |-> "gone", sleep |-> 0]]
  /\ user = "new"

----------------------------------------------------------------------------
(* Connect *)

InUse(s) == s \in open \/ s = conn \/ \E h \in Handlers : handler[h].sock = s

\* The name does not resolve; the socket cannot be had, which leaves r.conn nil;
\* CONN cannot be written; or CONN is sent and a handler started.
Connect ==
  \/ UNCHANGED <<conn, open, connecting, handler>>
  \/ conn' = None /\ UNCHANGED <<open, connecting, handler>>
  \/ \E s \in Socks :
       /\ ~InUse(s)
       /\ conn' = s
       /\ open' = open \cup {s}
       /\ connecting' = TRUE
       /\ \/ UNCHANGED handler
          \/ \E h \in Handlers :
               /\ handler[h].at = "gone"
               /\ handler' = [handler EXCEPT ![h].at = "start"]

\* A method is called on r.conn.
UseConn == crashed' = (conn = None)

CloseSocket == open' = open \ {conn} /\ UseConn

\* Mutant of UserConnect: the program goes on.
UserConnectAnyway ==
  /\ ~crashed /\ user = "new"
  /\ Connect
  /\ user' = "open"
  /\ UNCHANGED <<connected, running, retryCount, timer, loop, crashed, denied>>

\* The program ends if its first Connect fails.
UserConnect ==
  /\ ~crashed /\ user = "new"
  /\ Connect
  /\ user' = IF handler' = handler THEN "closed" ELSE "open"
  /\ UNCHANGED <<connected, running, retryCount, timer, loop, crashed, denied>>

\* Close: running = false, pingTimer.Stop() and DISC; then the socket is closed.
UserClose ==
  /\ ~crashed /\ user = "open"
  /\ user' = "closing"
  /\ running' = FALSE
  /\ timer' = Off
  /\ UseConn
  /\ UNCHANGED <<connected, connecting, retryCount, conn, open, handler, loop, denied>>

UserCloseConn ==
  /\ ~crashed /\ user = "closing"
  /\ user' = "closed"
  /\ CloseSocket
  /\ UNCHANGED <<fields, handler, loop, denied>>

\* SendPacket and SendStream, for what the gateway has received: shown only if
\* there is nothing to write to.
UserSend ==
  /\ ~crashed /\ user = "open" /\ conn = None
  /\ UseConn
  /\ UNCHANGED <<fields, open, handler, loop, user, denied>>

----------------------------------------------------------------------------
(* handle *)

HandlerMoves(h, from, to) ==
  /\ ~crashed
  /\ handler[h].at = from
  /\ handler' = [handler EXCEPT ![h] = [at |-> to, sock |-> None]]

Start(h) ==
  /\ HandlerMoves(h, "start", "top")
  /\ running' = TRUE
  /\ UNCHANGED <<connected, connecting, retryCount, conn, timer, open, loop, user, crashed, denied>>

\* for r.connected || r.connecting: the socket is the one r.conn holds now.
Read(h) ==
  /\ ~crashed
  /\ connected \/ connecting
  /\ handler[h].at = "top"
  /\ handler' = [handler EXCEPT ![h] = [at |-> "read", sock |-> conn]]
  /\ UseConn
  /\ UNCHANGED <<fields, open, loop, user, denied>>

Leave(h) ==
  /\ ~(connected \/ connecting)
  /\ HandlerMoves(h, "top", "gone")
  /\ running' = FALSE
  /\ UNCHANGED <<connected, connecting, retryCount, conn, timer, open, loop, user, crashed, denied>>

\* A read that fails: the socket was closed, or the network reports an error.
ReadError(h) ==
  /\ HandlerMoves(h, "read", "gone")
  /\ running' = FALSE
  /\ UNCHANGED <<connected, connecting, retryCount, conn, timer, open, loop, user, crashed, denied>>

Receives(h) == handler[h].sock \in open

\* ACKN: connected = true, connecting = false, then pingTimer.Reset
ReceiveACKN(h) ==
  /\ Receives(h)
  /\ HandlerMoves(h, "read", "acked")
  /\ connected' = TRUE
  /\ connecting' = FALSE
  /\ UNCHANGED <<running, retryCount, conn, timer, open, loop, user, crashed, denied>>

\* Mutant of Arm: the timer is left alone.
ArmNothing(h) ==
  /\ HandlerMoves(h, "acked", "top")
  /\ UNCHANGED <<fields, open, loop, user, crashed, denied>>

Arm(h) ==
  /\ HandlerMoves(h, "acked", "top")
  /\ timer' = PingPeriod
  /\ UNCHANGED <<connected, connecting, running, retryCount, conn, open, loop, user, crashed, denied>>

\* NACK or DISC
ReceiveNACK(h) ==
  /\ Receives(h)
  /\ HandlerMoves(h, "read", "top")
  /\ connected' = FALSE
  /\ connecting' = FALSE
  /\ UNCHANGED <<running, retryCount, conn, timer, open, loop, user, crashed, denied>>

\* PING, answered by PONG
ReceivePING(h) ==
  /\ Receives(h)
  /\ HandlerMoves(h, "read", "top")
  /\ UseConn
  /\ timer' = PingPeriod
  /\ UNCHANGED <<connected, connecting, running, retryCount, conn, open, loop, user, denied>>

\* A stream, a packet, something short or unknown, or ten seconds of nothing:
\* shown only if the handler does not come back to where it was.
ReceiveOther(h) ==
  /\ Receives(h)
  /\ handler[h].sock # conn \/ ~(connected \/ connecting)
  /\ HandlerMoves(h, "read", "top")
  /\ UNCHANGED <<fields, open, loop, user, crashed, denied>>

----------------------------------------------------------------------------
(* The function of pingTimer *)

LoopMoves(l, from, to, sleep) ==
  /\ ~crashed
  /\ loop[l] = [at |-> from, sleep |-> 0]
  /\ loop' = [loop EXCEPT ![l] = [at |-> to, sleep |-> sleep]]

Fire(l) ==
  /\ timer = 0
  /\ LoopMoves(l, "gone", "fired", 0)
  /\ timer' = Off
  /\ UNCHANGED <<connected, connecting, running, retryCount, conn, open, handler, user, crashed, denied>>

StopTimer(l) ==
  /\ LoopMoves(l, "fired", "down", 0)
  /\ timer' = Off
  /\ UNCHANGED <<connected, connecting, running, retryCount, conn, open, handler, user, crashed, denied>>

GoDown(l) ==
  /\ LoopMoves(l, "down", "test", 0)
  /\ connected' = FALSE
  /\ retryCount' = 0
  /\ UNCHANGED <<connecting, running, conn, timer, open, handler, user, crashed, denied>>

\* for !r.connected && r.retryCount < maxRetries
TryAgain(l) ==
  /\ ~connected /\ retryCount < MaxRetries
  /\ LoopMoves(l, "test", "close", 0)
  /\ UNCHANGED <<fields, open, handler, user, crashed, denied>>

StopTrying(l) ==
  /\ connected \/ retryCount >= MaxRetries
  /\ LoopMoves(l, "test", "gone", 0)
  /\ UNCHANGED <<fields, open, handler, user, crashed, denied>>

CloseConn(l) ==
  /\ LoopMoves(l, "close", "wait", 0)
  /\ CloseSocket
  /\ UNCHANGED <<fields, handler, user, denied>>

\* for r.running: sleep; then sleep longer with every retry
Wait(l) ==
  /\ IF running
       THEN LoopMoves(l, "wait", "wait", WaitTicks)
       ELSE LoopMoves(l, "wait", "connect", retryCount * BackoffTicks)
  /\ UNCHANGED <<fields, open, handler, user, crashed, denied>>

ReConnect(l) ==
  /\ LoopMoves(l, "connect", "test", AckTicks)
  /\ Connect
  /\ retryCount' = retryCount + 1
  /\ denied' = (denied \/ conn' = None)
  /\ UNCHANGED <<connected, running, timer, user, crashed>>

----------------------------------------------------------------------------
HandlerStep(h) ==
  Start(h) \/ Read(h) \/ Leave(h) \/ Arm(h) \/ (handler[h].sock \notin open /\ ReadError(h))

Message(h) ==
  \/ ReceiveACKN(h) \/ ReceiveNACK(h) \/ ReceivePING(h) \/ ReceiveOther(h)
  \/ Receives(h) /\ ReadError(h)

LoopStep(l) ==
  \/ StopTimer(l) \/ GoDown(l) \/ TryAgain(l) \/ StopTrying(l)
  \/ CloseConn(l) \/ Wait(l) \/ ReConnect(l)

\* Mutant of Less: it does not stop at zero.
LessAlways(n) == n - 1

Less(n) == IF n > 0 THEN n - 1 ELSE 0

\* Time passes when no goroutine has anything to do but read or sleep.
Tick ==
  /\ ~crashed
  /\ timer # 0
  /\ \A h \in Handlers : handler[h].at = "gone" \/ (handler[h].at = "read" /\ Receives(h))
  /\ \A l \in Loops : loop[l].at = "gone" \/ loop[l].sleep > 0
  /\ user # "closing"
  /\ timer' = IF Running(timer) THEN timer - 1 ELSE Off
  /\ loop' = [l \in Loops |-> [loop[l] EXCEPT !.sleep = Less(@)]]
  /\ UNCHANGED <<connected, connecting, running, retryCount, conn, open, handler, user, crashed, denied>>

ClientNext ==
  \/ UserConnect \/ UserClose \/ UserCloseConn \/ UserSend
  \/ \E h \in Handlers : HandlerStep(h) \/ Message(h)
  \/ \E l \in Loops : Fire(l) \/ LoopStep(l)
  \/ Tick

ClientSpec == ClientInit /\ [][ClientNext]_clientVars

----------------------------------------------------------------------------
(* Properties *)

\* A connection is watched: as long as the client takes itself for connected
\* the timer runs, or is about to be started by the ACKN just received, or has
\* fired and is about to take the connection down (internet.go:79-84, 169-173).
ConnectedIsWatched ==
  connected /\ user \in {"new", "open"} =>
    \/ Running(timer)
    \/ \E h \in Handlers : handler[h].at = "acked"
    \/ \E l \in Loops : loop[l].at \in {"fired", "down"}

\* A retry waits for the handler of the connection before: no two of them read
\* at a time ("Waiting for handler to stop...", internet.go:89).
OneHandler ==
  user = "open" => \A h, g \in Handlers : handler[h].at # "gone" /\ handler[g].at # "gone" => h = g

\* Nothing but a retry that could not have a socket leads to a method call on a
\* nil r.conn: neither Close, nor what the gateway sends, nor a handler that reads
\* while another goroutine connects anew, nor a retry loop meets it before
\* (internet.go:87, 118, 138, 144, 220, 229, 253).
PanicNeedsDenial == crashed => denied
=============================================================================
