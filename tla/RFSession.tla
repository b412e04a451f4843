----------------------------- MODULE RFSession -----------------------------
(***************************************************************************)
(* What the RF decoder promises the gateway, which registers callbacks     *)
(* with it (src/decoder.go, NewDecoder): a session is opened by a link     *)
(* setup frame, received whole or recovered from the LICH; voice frames    *)
(* and one end of transmission are reported only inside a session and      *)
(* under the link setup frame that opened it; in a session frame numbers   *)
(* grow; a packet ends its session.  A step is one call of DecodeFrame.    *)
(***************************************************************************)
EXTENDS Naturals, Sequences, RFCallbacks

CONSTANTS
  LSFs,       \* link setup frames whose CRC is right
  NoLSF,      \* no session is open
  StreamIDs,  \* stream identifiers
  FNMod,      \* frame numbers are below FNMod; FNMod itself flags the last frame
  Packets     \* packets

VARIABLES
  session,  \* the LSF of the open session, or NoLSF
  nextFN,   \* the smallest frame number the session can still report
  out       \* callbacks made by the last call

sessionVars == <<session, nextFN, out>>

RawFN == 0 .. 2 * FNMod - 1

Closed == session' = NoLSF /\ nextFN' = 0

Init == session = NoLSF /\ nextFN = 0 /\ out = <<>>

\* A call that reports nothing; the decoder may give the session up.
Silent ==
  /\ out' = <<>>
  /\ Closed \/ UNCHANGED <<session, nextFN>>

\* A link setup frame opens a session, replacing one whose end was missed.
Open(l) ==
  /\ out' = <<LSFCallback(l)>>
  /\ session' = l
  /\ nextFN' = 0

\* A voice frame under `l`; `resumed` says that its LICH completed `l`, `ends`
\* that it is honoured as the last one.  The all-ones number is the decoder's
\* idle sentinel, hence the count that starts again after it.
Voice(l, sid, fn, resumed, ends) ==
  /\ resumed \/ session = l
  /\ fn % FNMod >= nextFN
  /\ LET voiced == Append(IF resumed THEN <<LICHCallback(l)>> ELSE <<>>,
                          StreamCallback(l, sid, fn))
     IN out' = IF ends THEN Append(voiced, EOTCallback(l, sid, fn)) ELSE voiced
  /\ IF ends
       THEN Closed
       ELSE session' = l /\ nextFN' = (fn + 1) % (2 * FNMod)

\* The session ends on an end-of-transmission marker or on a timeout.
End(sid, fn) ==
  /\ session # NoLSF
  /\ out' = <<EOTCallback(session, sid, fn)>>
  /\ Closed

\* A whole packet arrived.
Deliver(p) ==
  /\ session # NoLSF
  /\ out' = <<PacketCallback(session, p)>>
  /\ Closed

Next ==
  \/ Silent
  \/ \E l \in LSFs : Open(l)
  \/ \E l \in LSFs, sid \in StreamIDs, fn \in RawFN, resumed, ends \in BOOLEAN :
       Voice(l, sid, fn, resumed, ends)
  \/ \E sid \in StreamIDs, fn \in RawFN : End(sid, fn)
  \/ \E p \in Packets : Deliver(p)

Spec == Init /\ [][Next]_sessionVars
=============================================================================
