----------------------------- MODULE APRSModule -----------------------------
(***************************************************************************)
(* server/aprs_module.go: the reflector module that exchanges messages     *)
(* with an APRS-IS server.  Who has been heard is a user; the server is    *)
(* asked to forward what concerns the users.  The reflector's handler, the *)
(* read loop, which connects anew, and the loop that removes stale users   *)
(* share conn and users under a mutex.                                     *)
(***************************************************************************)
EXTENDS Naturals

CONSTANTS
  Callsigns,     \* M17 callsigns
  Names,         \* APRS callsigns
  aprsCallsign,  \* the one of each M17 callsign
  Nobody,
  StaleTimeout,  \* ticks without a word after which a user is removed; 0: never
  ReportPeriod   \* ticks between two position reports (5 min)

ASSUME APRSAssumption ==
  /\ aprsCallsign \in [Callsigns -> Names] /\ Nobody \notin Callsigns
  /\ StaleTimeout \in Nat /\ ReportPeriod \in Nat

VARIABLES
  users,      \* map from callsigns to users, as a set, with
  heard,      \* ticks since lastHeard and
  reported,   \* since lastPositionReport, Long once it does not matter
  conn,       \* "up", "broken" (the server is gone, nobody knows) or "down" (nil)
  filter,     \* the names the server forwards on this connection
  handler,    \* step of HandlePacket or HandleStreamDatagram: "idle", "message", "position"
  u,          \* the user it handles
  reader,     \* step of handleAPRSMessage: "read" or "acked"
  \* history
  since       \* ticks since the last position report of each callsign

aprsVars == <<users, heard, reported, conn, filter, handler, u, reader, since>>
user == <<users, heard, reported>>

Long == (IF StaleTimeout > ReportPeriod THEN StaleTimeout ELSE ReportPeriod) + 1
buildFilter(us) == {aprsCallsign[c] : c \in us}

APRSInit ==
  /\ users = {} /\ conn = "up" /\ filter = {}
  /\ heard = [c \in Callsigns |-> Long]
  /\ reported = [c \in Callsigns |-> Long] /\ since = reported
  /\ handler = "idle" /\ u = Nobody /\ reader = "read"
-----------------------------------------------------------------------------
\* Mutant of updateFilter: it is built before the user is added.
updateFilterBefore ==
  filter' = IF conn = "up" /\ users # {} THEN buildFilter(users) ELSE filter

\* Nothing is sent if no user is left; a line to a broken connection is lost.
updateFilter ==
  filter' = IF conn = "up" /\ users' # {} THEN buildFilter(users') ELSE filter

\* A packet, or a stream datagram with a position, makes its station a user.
getOrAddUser(c) ==
  /\ heard' = [heard EXCEPT ![c] = 0]
  /\ IF c \in users
     THEN UNCHANGED <<users, reported, filter>>
     ELSE /\ users' = users \cup {c}
          /\ reported' = [reported EXCEPT ![c] = Long]
          /\ updateFilter

HandlePacket(c) ==
  /\ handler = "idle"
  /\ getOrAddUser(c)
  /\ handler' = "message" /\ u' = c
  /\ UNCHANGED <<conn, reader, since>>

\* sendLine; a packet without a position ends here
SendMessage ==
  /\ handler = "message"
  /\ \/ handler' = "position" /\ UNCHANGED u
     \/ handler' = "idle" /\ u' = Nobody
  /\ UNCHANGED <<user, conn, filter, reader, since>>

HandleStreamDatagram(c) ==
  /\ handler = "idle"
  /\ getOrAddUser(c)
  /\ handler' = "position" /\ u' = c
  /\ UNCHANGED <<conn, reader, since>>

\* sendGNSSFrame, if the last one is long ago; a failure to send counts as sent.
ReportPosition ==
  /\ handler = "position" /\ reported[u] > ReportPeriod
  /\ reported' = [reported EXCEPT ![u] = 0]
  /\ since' = [since EXCEPT ![u] = 0]
  /\ handler' = "idle" /\ u' = Nobody
  /\ UNCHANGED <<users, heard, conn, filter, reader>>

SkipPosition ==
  /\ handler = "position" /\ reported[u] <= ReportPeriod
  /\ handler' = "idle" /\ u' = Nobody
  /\ UNCHANGED <<user, conn, filter, reader, since>>

\* Mutant of Stale: one tick too early.
StaleAlready == {c \in users : heard[c] >= StaleTimeout}

\* removeStaleUsers
Stale == {c \in users : heard[c] > StaleTimeout}

RemoveStaleUsers ==
  /\ StaleTimeout > 0 /\ Stale # {}
  /\ users' = users \ Stale
  /\ updateFilter
  /\ UNCHANGED <<heard, reported, conn, handler, u, reader, since>>
-----------------------------------------------------------------------------
(* readLoop *)

\* A message the filter lets through is acknowledged,
Acknowledge ==
  /\ reader = "read" /\ conn = "up" /\ filter # {}
  /\ reader' = "acked"
  /\ UNCHANGED <<user, conn, filter, handler, u, since>>

\* and goes to the clients of the module, if its destination is still a user's.
Deliver ==
  /\ reader = "acked" /\ reader' = "read"
  /\ UNCHANGED <<user, conn, filter, handler, u, since>>

Break ==
  /\ conn = "up" /\ conn' = "broken"
  /\ UNCHANGED <<user, filter, handler, u, reader, since>>

\* ReadPacket fails, if only after readTimeout.
ReadError ==
  /\ reader = "read" /\ conn \in {"up", "broken"} /\ conn' = "down"
  /\ UNCHANGED <<user, filter, handler, u, reader, since>>

\* Mutant of connect: the filter of the first login is used again.
connectAsBefore ==
  /\ conn = "down" /\ conn' = "up"
  /\ UNCHANGED <<user, filter, handler, u, reader, since>>

\* connect, reconnectDelay later and again until it succeeds: the login names the filter.
connect ==
  /\ conn = "down" /\ conn' = "up"
  /\ filter' = buildFilter(users)
  /\ UNCHANGED <<user, handler, u, reader, since>>
-----------------------------------------------------------------------------
Older(age) == [c \in Callsigns |-> IF age[c] < Long THEN age[c] + 1 ELSE Long]

\* Handling takes less than a tick, and a stale user does not stay for another.
APRSTick ==
  /\ handler = "idle" /\ (StaleTimeout = 0 \/ Stale = {})
  /\ heard' = Older(heard) /\ reported' = Older(reported) /\ since' = Older(since)
  /\ UNCHANGED <<users, conn, filter, handler, u, reader>>

APRSNext ==
  \/ \E c \in Callsigns : HandlePacket(c) \/ HandleStreamDatagram(c)
  \/ SendMessage \/ ReportPosition \/ SkipPosition \/ RemoveStaleUsers
  \/ Acknowledge \/ Deliver \/ Break \/ ReadError \/ connect \/ APRSTick

APRSSpec == APRSInit /\ [][APRSNext]_aprsVars

\* A read ends after readTimeout at the latest, and some attempt to connect succeeds.
APRSFairSpec == APRSSpec /\ SF_aprsVars(ReadError /\ conn = "broken") /\ WF_aprsVars(Deliver) /\ WF_aprsVars(connect)
-----------------------------------------------------------------------------
(* Properties *)

APRSTypeOK ==
  /\ users \subseteq Callsigns
  /\ heard \in [Callsigns -> 0..Long]
  /\ reported \in [Callsigns -> 0..Long] /\ since \in [Callsigns -> 0..Long]
  /\ conn \in {"up", "broken", "down"} /\ filter \subseteq Names
  /\ handler \in {"idle", "message", "position"}
  /\ u \in Callsigns \cup {Nobody} /\ (u = Nobody) = (handler = "idle")
  /\ reader \in {"read", "acked"}

\* On a connection that works the server forwards what is for any of the users,
\* whoever came, went stale or came back before or after it was made.
FilterCoversUsers == conn = "up" => buildFilter(users) \subseteq filter

\* A station's positions are reported at least ReportPeriod apart, or as far
\* apart as a user takes to go stale, if that is set to less (bridge.go:166): the
\* time of the last report is lost with the user (aprs_module.go:259), and who
\* comes back is reported at once.
Spacing == IF StaleTimeout \in 1..ReportPeriod THEN StaleTimeout ELSE ReportPeriod

PositionRate ==
  [][\A c \in Callsigns : ReportPosition /\ u = c => since[c] > Spacing]_aprsVars

\* A user is reached at last, or forgotten, though filters sent meanwhile got lost.
UserReached ==
  \A c \in Callsigns :
    (c \in users) ~> (c \notin users \/ (conn = "up" /\ aprsCallsign[c] \in filter))
=============================================================================
