----------------------------- MODULE FrameRelay -----------------------------
(***************************************************************************)
(* The WebSocket relay of GET /v1/responses (responses_websocket in        *)
(* server/routes_responses.rs): two pumps, one for each direction, take a  *)
(* frame at a time and pass it on, until either of them ends.              *)
(*                                                                         *)
(* A side is here, has sent its Close frame, or is gone with its           *)
(* connection, in which case what it sent last may be lost on the way and  *)
(* writing to it fails, at once or the next time.  Frames are numbered in  *)
(* the order their side sends them; what they hold, the handshake and the  *)
(* headers are left out, and so are stops of the server.                   *)
(***************************************************************************)
EXTENDS Naturals, Sequences, SequencesExt

CONSTANT MaxFrames  \* bound of the model: frames each side sends

VARIABLES
  relay,    \* the upgraded connection: "connecting", "open", "over"
  side,     \* the client and the upstream
  wire,     \* frames on their way to the proxy, by direction
  pump,     \* c2u and u2c
  hand,     \* the frame a pump has taken and not passed on
  got,      \* frames the other side received
  told      \* sides that were sent a Close frame

relayVars == <<relay, side, wire, pump, hand, got, told>>

Ways   == {"up", "down"}
Sides  == {"client", "upstream"}
Source == [up |-> "client", down |-> "upstream"]
Sink   == [up |-> "upstream", down |-> "client"]
Close  == 0     \* the Close frame

FrameInit ==
  /\ relay = "connecting"
  /\ side = [s \in Sides |-> "here"]
  /\ wire = [d \in Ways |-> <<>>] /\ hand = [d \in Ways |-> <<>>]
  /\ pump = [d \in Ways |-> "reading"]
  /\ got = [d \in Ways |-> <<>>] /\ told = {}

\* connect_async; if it fails, the client gets a Close frame at once.
Connect ==
  /\ relay = "connecting"
  /\ \/ relay' = "open" /\ UNCHANGED told
     \/ relay' = "over" /\ told' = {"client"}
  /\ UNCHANGED <<side, wire, pump, hand, got>>

(***************************************************************************)
(* The two sides.                                                          *)
(***************************************************************************)
SentBy(d) == Len(wire[d]) + Len(hand[d]) + Len(got[d])
SideSends(d) ==
  /\ relay = "open" /\ side[Source[d]] = "here" /\ SentBy(d) < MaxFrames
  /\ wire' = [wire EXCEPT ![d] = Append(@, SentBy(d) + 1)]
  /\ UNCHANGED <<relay, side, pump, hand, got, told>>

SideCloses(d) ==
  /\ relay = "open" /\ side[Source[d]] = "here"
  /\ side' = [side EXCEPT ![Source[d]] = "closed"]
  /\ wire' = [wire EXCEPT ![d] = Append(@, Close)]
  /\ UNCHANGED <<relay, pump, hand, got, told>>

SideGoes(d) ==
  /\ relay = "open" /\ side[Source[d]] # "gone"
  /\ side' = [side EXCEPT ![Source[d]] = "gone"]
  /\ \E k \in 0 .. Len(wire[d]) : wire' = [wire EXCEPT ![d] = SubSeq(@, 1, k)]
  /\ UNCHANGED <<relay, pump, hand, got, told>>

(***************************************************************************)
(* The pumps.                                                              *)
(***************************************************************************)

\* `while let Some(Ok(msg))`: a frame is taken; a Close frame, or the end of the stream,
\* ends the loop.
Take(d) ==
  /\ relay = "open" /\ pump[d] = "reading"
  /\ \/ /\ wire[d] # <<>> /\ wire' = [wire EXCEPT ![d] = Tail(@)]
        /\ IF Head(wire[d]) = Close
           THEN pump' = [pump EXCEPT ![d] = "closing"] /\ UNCHANGED hand
           ELSE /\ hand' = [hand EXCEPT ![d] = <<Head(wire[d])>>]
                /\ pump' = [pump EXCEPT ![d] = "sending"]
     \/ /\ wire[d] = <<>> /\ side[Source[d]] = "gone"
        /\ pump' = [pump EXCEPT ![d] = "closing"] /\ UNCHANGED <<wire, hand>>
  /\ UNCHANGED <<relay, side, got, told>>

\* The frame is passed on; to a side that is gone it is lost, or the write fails and ends
\* the loop.
Pass(d) ==
  /\ relay = "open" /\ pump[d] = "sending"
  /\ hand' = [hand EXCEPT ![d] = <<>>]
  /\ \/ /\ side[Sink[d]] # "gone"
        /\ got' = [got EXCEPT ![d] = @ \o hand[d]] /\ pump' = [pump EXCEPT ![d] = "reading"]
     \/ /\ side[Sink[d]] = "gone"
        /\ \E next \in {"reading", "closing"} : pump' = [pump EXCEPT ![d] = next]
        /\ UNCHANGED got
  /\ UNCHANGED <<relay, side, wire, told>>

\* A pump that ends sends a Close frame the way it was pumping, and `select!` drops the
\* other with both sockets.
BothAtEnd(d) ==                           \* mutant: any pump ends both
  relay' = "over" /\ told' = told \union {Sink[d]}
Finished(d) ==
  /\ pump[d] = "closing"
  /\ relay' = "over" /\ told' = told \union {Sink[d]}
Finish(d) ==
  /\ relay = "open" /\ Finished(d)
  /\ UNCHANGED <<side, wire, pump, hand, got>>

FrameNext ==
  \/ Connect
  \/ \E d \in Ways : \/ SideSends(d) \/ SideCloses(d) \/ SideGoes(d)
                     \/ Take(d) \/ Pass(d) \/ Finish(d)

\* The pumps are polled as long as they can go on, and connecting ends.
FrameFairness ==
  WF_relayVars(Connect) /\ \A d \in Ways : WF_relayVars(Take(d) \/ Pass(d) \/ Finish(d))

FrameSpec == FrameInit /\ [][FrameNext]_relayVars /\ FrameFairness

-----------------------------------------------------------------------------
(* Properties *)

\* Frames are "pumped verbatim both ways": each side receives what the other sent, in
\* order and without gaps, unless it went away itself.
InOrder == \A d \in Ways : got[d] = [k \in DOMAIN got[d] |-> k]

\* A side that closes has said all it had to say: all of it has arrived when the relay is
\* over, if the other side was there to the end.  And who stays is told.
LastWordsArrive ==
  \A d \in Ways :
    relay = "over" /\ side[Source[d]] = "closed" /\ side[Sink[d]] = "here" =>
      wire[d] = <<>> /\ hand[d] = <<>> /\ Sink[d] \in told

\* Wherever both connections hold, nothing that was sent is dropped in the proxy.
FramesSound == InOrder /\ LastWordsArrive

\* "until either side closes": the relay ends when one side leaves.
RelayEnds == relay = "open" /\ (\E s \in Sides : side[s] # "here") ~> relay = "over"
=============================================================================
