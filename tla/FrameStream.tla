---------------------------- MODULE FrameStream ----------------------------
(***************************************************************************)
(* The receiving side of a websocket session (pyloxone_api/connection.py:  *)
(* _do_start_listening() and the keep_alive() worker, message.py): frames  *)
(* are put together to messages by the state the listener is in, never by  *)
(* their length, and silence is noticed by a clock of its own.             *)
(*                                                                         *)
(* Lengths count units of eight bytes, the size of a header.  A body frame *)
(* of one unit could therefore pass for a header; its first byte is taken  *)
(* not to be 3.  Time counts ticks; the frames of one message follow each  *)
(* other within a tick.                                                    *)
(***************************************************************************)
EXTENDS Naturals, Sequences, FiniteSets

CONSTANTS MaxUnits,     \* the longest body
          Messages,     \* messages with a body in one session: a bound of the model
          Strays,       \* text frames in one session: a bound of the model
          Period,       \* KEEP_ALIVE_PERIOD, in ticks
          ReadTimeout   \* WEBSOCKET_READ_TIMEOUT, in ticks

ASSUME FrameStreamAssumption ==
  /\ MaxUnits \in Nat \ {0} /\ Messages \in Nat /\ Strays \in Nat
  /\ Period \in Nat \ {0} /\ ReadTimeout \in Nat

VARIABLES
  sending,  \* the frames left of the message the Miniserver is sending
  message,  \* that message, or the last one: its number, its kind, and whether
            \* it has been handed on as it was sent
  damaged,  \* messages before it that were not
  garbled,  \* messages handed on that nobody sent
  strays,   \* text frames the Miniserver has sent
  header,   \* last_header
  body,     \* the units collected, each by the message it belongs to
  lastRx,   \* the clock minus _last_rx
  silent,   \* ticks since a frame arrived or the session started
  wake,     \* ticks until keep_alive() wakes up
  ended     \* how the session ended

senderVars == <<sending, damaged, strays>>
streamVars == <<header, body, message, garbled>>
clockVars  == <<lastRx, silent, wake>>
frameVars  == <<senderVars, streamVars, clockVars, ended>>

\* A message of the Miniserver: "states" for the coordinator, "internal" for the
\* connection itself (replies to its own commands, day timers), "malformed" for
\* a text that is not JSON, "binary" for a file, whose header has no place in
\* _BODY_CARRIERS.
Kinds == {"states", "internal", "malformed", "binary"}
BodyCarriers == Kinds \ {"binary"}
Parseable == {"states", "internal"}

NoMessage == [id |-> 0, kind |-> "none", arrived |-> TRUE]

NoHeader == [t |-> "none"]
Header(k, id, n, est) == [t |-> "header", kind |-> k, id |-> id, len |-> n, estimated |-> est]
Body(id, n) == [t |-> "body", id |-> id, len |-> n]
Text == [t |-> "text", len |-> 1]
Alone(k) == Header(k, 0, 0, FALSE)

\* A message as frames: perhaps an estimated header, the exact one, the body in
\* one or two frames.
FramesOf(k, id, n, estimate, split) ==
  (IF estimate = 0 THEN <<>> ELSE <<Header(k, id, estimate, TRUE)>>)
  \o <<Header(k, id, n, FALSE)>>
  \o (IF split THEN <<Body(id, 1), Body(id, n - 1)>> ELSE <<Body(id, n)>>)

\* MessageHeader(): eight bytes that do not start with a 3 are of no known type.
IsBytes(f) == f.t # "text"
EightBytes(f) == f.t = "header" \/ (f.t = "body" /\ f.len = 1)
Parsed(f) == IF f.t = "header" THEN f ELSE Alone("unknown")

\* Mutation: the clock starts with the first frame.
ClockGoesOn == lastRx' = lastRx
ClockStarts == lastRx' = 0

\* start_listening(): the listener and keep_alive() of a new session.
StartStream ==
  /\ sending' = <<>> /\ damaged' = 0 /\ strays' = 0
  /\ header' = NoHeader /\ body' = <<>> /\ message' = NoMessage /\ garbled' = 0
  /\ ClockStarts /\ silent' = 0 /\ wake' = Period
  /\ ended' = "no"

InitStream ==
  /\ sending = <<>> /\ damaged = 0 /\ strays = 0
  /\ header = NoHeader /\ body = <<>> /\ message = NoMessage /\ garbled = 0
  /\ lastRx = 0 /\ silent = 0 /\ wake = Period
  /\ ended = "no"

(***************************************************************************)
(* One turn of the listener's loop.                                        *)
(***************************************************************************)
\* A header without a body is done; a reboot ends the session, and so does an
\* identifier MessageType does not know.
Takes(h) ==
  /\ header' = IF h.kind \in BodyCarriers THEN h ELSE NoHeader
  /\ ended' = CASE h.kind = "outOfService" -> "outOfService"
                [] h.kind = "unlisted"     -> "bug"
                [] OTHER -> ended

\* No body is pending: an eight-byte frame is a header.
TakesHeader(f) ==
  /\ header = NoHeader
  /\ IF ~EightBytes(f)
     THEN UNCHANGED <<header, ended>>
     ELSE Takes(Parsed(f))
  /\ UNCHANGED <<body, message, garbled>>

\* The frame after an estimated header is the exact one.
AwaitsExact(f) ==
  header # NoHeader /\ header.estimated /\ body = <<>> /\ EightBytes(f)
TakesExactHeader(f) ==
  /\ AwaitsExact(f)
  /\ Takes(Parsed(f))
  /\ UNCHANGED <<body, message, garbled>>

\* A text frame in the middle of a message: the header is forgotten, the units
\* collected so far are not.
DropsHeader(f) ==
  /\ header # NoHeader /\ ~IsBytes(f)
  /\ header' = NoHeader
  /\ UNCHANGED <<body, message, garbled, ended>>

\* Mutation: the bytes of a message stay when it is complete.
KeepBody(b) == body' = b
ClearBody(b) == body' = <<>>

\* parse_message() and what follows.  Remains of several messages may or may not
\* make sense to the parser.
HandedOn(intact) ==
  \/ /\ intact /\ message' = [message EXCEPT !.arrived = TRUE] /\ UNCHANGED garbled
  \/ /\ ~intact /\ garbled' \in {garbled, garbled + 1} /\ UNCHANGED message

\* The bytes are collected until the header's length is reached; then the
\* message is parsed and handed on, or skipped when it cannot be parsed.
Units(f) == IF f.t = "body" THEN [i \in 1..f.len |-> f.id] ELSE <<0>>
Intact(h, units) == ~h.estimated /\ \A i \in DOMAIN units : units[i] = h.id
Collects(f) ==
  /\ header # NoHeader /\ IsBytes(f) /\ ~AwaitsExact(f)
  /\ LET all == body \o Units(f)
         frame == SubSeq(all, 1, header.len)
     IN  IF Len(all) < header.len
         THEN body' = all /\ UNCHANGED <<header, message, garbled>>
         ELSE /\ ClearBody(all)
              /\ header' = NoHeader
              /\ HandedOn(Intact(header, frame))
  /\ UNCHANGED ended

Receive(f) ==
  /\ (TakesHeader(f) \/ TakesExactHeader(f) \/ DropsHeader(f) \/ Collects(f))
  /\ lastRx' = 0
  /\ silent' = 0 /\ UNCHANGED wake

(***************************************************************************)
(* The Miniserver.                                                         *)
(***************************************************************************)
StartsMessage ==
  /\ sending = <<>> /\ message.id < Messages
  /\ \E k \in Kinds, n \in 1..MaxUnits, split \in BOOLEAN :
       \E estimate \in {0, n, n + 1} :
         /\ split => n > 1
         /\ message' = [id |-> message.id + 1, kind |-> k, arrived |-> k \notin Parseable]
         /\ sending' = FramesOf(k, message.id + 1, n, estimate, split)
  /\ damaged' = damaged + (IF message.arrived THEN 0 ELSE 1)
  /\ UNCHANGED <<strays, header, body, garbled, clockVars, ended>>

SendsFrame ==
  /\ sending # <<>>
  /\ Receive(Head(sending))
  /\ sending' = Tail(sending)
  /\ UNCHANGED <<damaged, strays>>

\* A header that stands alone: the reply to a keep-alive, the announcement of a
\* reboot, or an identifier that MessageType does not list.
SendsAlone ==
  /\ sending = <<>>
  /\ \E k \in {"keepalive", "outOfService", "unlisted"} : Receive(Alone(k))
  /\ UNCHANGED senderVars

StraysText ==
  /\ strays < Strays
  /\ Receive(Text)
  /\ strays' = strays + 1
  /\ UNCHANGED <<sending, damaged>>

\* The websocket ends: normally, where the loop raises by itself, or with an
\* error of the transport.
SocketEnds ==
  /\ ended' \in {"closedOk", "lost"}
  /\ UNCHANGED <<senderVars, streamVars, clockVars>>

\* Time passes; when keep_alive() wakes up it looks at _last_rx before it sends
\* the next keep-alive.
Tick ==
  /\ sending = <<>>
  /\ silent' = silent + 1 /\ lastRx' = lastRx + 1
  /\ wake' = IF wake > 1 THEN wake - 1 ELSE Period
  /\ ended' = IF wake = 1 /\ lastRx' > ReadTimeout THEN "silent" ELSE ended
  /\ UNCHANGED <<senderVars, streamVars>>

StreamNext ==
  /\ ended = "no"
  /\ \/ StartsMessage \/ SendsFrame \/ SendsAlone \/ StraysText \/ SocketEnds \/ Tick

(***************************************************************************)
(* Properties.                                                             *)
(***************************************************************************)
\* The listener resynchronises: a text frame in the middle of the stream costs at
\* most the message it interrupts and the one after it, of which one may be handed
\* on garbled; without such a frame every message with a body arrives whole.
DamageIsBounded ==
  /\ damaged + (IF sending = <<>> /\ ~message.arrived THEN 1 ELSE 0) <= 2 * strays
  /\ garbled <= strays

\* A Miniserver that falls silent is noticed within one keep-alive period after
\* the read timeout, and a session is given up for silence only after that
\* timeout: not for frames that are not messages, nor for the silence before
\* the session.
SilenceIsNoticed ==
  /\ silent <= ReadTimeout + Period
  /\ ended = "silent" => silent > ReadTimeout
=============================================================================
