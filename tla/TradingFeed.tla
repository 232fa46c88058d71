------------------------------- MODULE TradingFeed -------------------------------
(***************************************************************************)
(* The web client's connection to the server: a value c and what the       *)
(* provider makes of it.  A socket belongs to the market of the render     *)
(* that created it; ref is the socket that messages go to, 0 for none.     *)
(* Browsers report the close of a socket later, so the events of an old    *)
(* socket can come after a new one took its place.                         *)
(***************************************************************************)
EXTENDS Integers, Sequences, SequencesExt

CONSTANTS MaxRetries, MaxPerWindow

ASSUME FeedAssumption == MaxRetries \in Nat /\ MaxPerWindow \in Nat

\* connect: a new socket unless the current one is open.
Connect(c, market) ==
  IF c.ref # 0 /\ c.sockets[c.ref].state = "open" THEN c
  ELSE [c EXCEPT !.sockets = Append(@, [state |-> "connecting", market |-> market]),
                 !.ref = Len(c.sockets) + 1, !.status = "connecting"]

NewFeed(market) ==
  Connect([sockets |-> <<>>, ref |-> 0, status |-> "disconnected", retries |-> 0, pending |-> <<>>,
           timers |-> <<>>, count |-> 0, given |-> 0, sent |-> <<>>, nonce |-> 1, signing |-> <<>>],
          market)

\* A message over the limit is dropped; given numbers the others.
Send(c) ==
  LET msg == c.given + 1 IN
  IF c.count >= MaxPerWindow THEN c
  ELSE LET c1 == [c EXCEPT !.count = @ + 1, !.given = msg] IN
       IF c.ref # 0 /\ c.sockets[c.ref].state = "open" THEN [c1 EXCEPT !.sent = Append(@, msg)]
       ELSE [c1 EXCEPT !.pending = Append(@, msg)]

\* Faulty form: what was queued is sent from its end.
FlushedBackwards(c) == [c EXCEPT !.sent = @ \o Reverse(c.pending), !.pending = <<>>]

Flushed(c) == [c EXCEPT !.sent = @ \o c.pending, !.pending = <<>>]

\* onopen, which also sets onclose: a socket that never opens reports nothing.
Opens(c, i) == Flushed([c EXCEPT !.sockets[i].state = "open", !.status = "connected", !.retries = 0])

\* onclose forgets the current socket, whichever that is, and may connect again
\* later for the market it was opened for.
Closes(c, i) ==
  LET c1 == [c EXCEPT !.sockets[i].state = "closed", !.status = "disconnected", !.ref = 0] IN
  IF c.retries < MaxRetries
    THEN [c1 EXCEPT !.retries = @ + 1, !.timers = Append(@, c.sockets[i].market)] ELSE c1

Fails(c, i) == [c EXCEPT !.sockets[i].state = "closed", !.status = "error"]

\* The clean-up of the effect, and the effect of the new render.
Reconnected(c, market) ==
  LET shut == CASE c.ref = 0 -> c.sockets
                [] OTHER -> [c.sockets EXCEPT ![c.ref].state =
                               CASE @ = "open" -> "closing" [] @ = "connecting" -> "closed"
                                 [] OTHER -> @]
  IN Connect([c EXCEPT !.retries = MaxRetries, !.sockets = shut], market)

\* switchMarket unsubscribes from one market and subscribes to the other first.
SwitchMarket(c, market) == Reconnected(Send(Send(c)), market)

\* A live order takes the number of the render, is signed, then sent; the number
\* is counted up afterwards, also when the message was dropped.
StartSigning(c) == [c EXCEPT !.signing = Append(@, c.nonce)]
Signed(c) == [Send(c) EXCEPT !.nonce = @ + 1, !.signing = Tail(@)]
================================================================================
