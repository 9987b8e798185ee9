------------------------------ MODULE SseRelay ------------------------------
(***************************************************************************)
(* Reading the agent's events off the stream that is being forwarded:      *)
(* SseFrames (src/src/common/http/sse.ts), fed by the data handler of      *)
(* chat-stream.controller.ts, and capEvents of chat-sessions.service.ts    *)
(* when the turn is recorded.                                              *)
(*                                                                         *)
(* The network cuts the bytes anywhere: inside a separator, a line, or a   *)
(* character.  A stream is a sequence of bytes: a newline, a letter, or    *)
(* the two halves of a wider character, of which a half on its own is      *)
(* decoded to a replacement character.                                     *)
(***************************************************************************)
EXTENDS Integers, Sequences, SequencesExt

CONSTANTS
  Streams,      \* what the agent may send, as sequences of bytes
  MaxEvents     \* MAX_STORED_EVENTS

Letter == "x"
Newline == "n"
HighByte == "h"
LowByte == "l"
Replaced == "?"
Wide == "w"
Bytes == {Letter, Newline, HighByte, LowByte}
Chars == {Letter, Newline, Wide, Replaced}

ASSUME SseRelayAssumption ==
  /\ MaxEvents \in Nat \ {0}
  /\ Streams \subseteq Seq(Bytes)

VARIABLES
  wire,       \* the stream
  arrived,    \* how many of its bytes have arrived
  buffer,     \* SseFrames.buffer
  frames,     \* the frames handed out so far
  torn        \* history: a character was cut in two

evars == <<wire, arrived, buffer, frames, torn>>

RelayInit ==
  /\ wire \in Streams /\ arrived = 0
  /\ buffer = <<>> /\ frames = <<>> /\ torn = FALSE

-----------------------------------------------------------------------------
\* chunk.toString('utf8'): whole characters as such, halves replaced.
Decoded[bytes \in Seq(Bytes)] ==
  CASE bytes = <<>> -> <<>>
    [] Len(bytes) > 1 /\ bytes[1] = HighByte /\ bytes[2] = LowByte ->
         <<Wide>> \o Decoded[SubSeq(bytes, 3, Len(bytes))]
    [] OTHER ->
         <<IF bytes[1] \in {HighByte, LowByte} THEN Replaced ELSE bytes[1]>>
           \o Decoded[Tail(bytes)]

\* The first place of FRAME_SEPARATOR in a text.
SeparatorsIn(text) ==
  {i \in 1..(Len(text) - 1) : text[i] = Newline /\ text[i + 1] = Newline}

(* split(FRAME_SEPARATOR).  The last part is what follows the last         *)
(* separator.                                                              *)
Split[text \in Seq(Chars)] ==
  IF SeparatorsIn(text) = {} THEN <<text>>
  ELSE LET i == CHOOSE j \in SeparatorsIn(text) : \A k \in SeparatorsIn(text) : j <= k
       IN  <<SubSeq(text, 1, i - 1)>> \o Split[SubSeq(text, i + 2, Len(text))]

BlankPart(part) == \A i \in DOMAIN part : part[i] = Newline

\* The parts that are more than blank.
Filled[parts \in Seq(Seq(Chars))] ==
  IF parts = <<>> THEN <<>>
  ELSE (IF BlankPart(Head(parts)) THEN <<>> ELSE <<Head(parts)>>)
         \o Filled[Tail(parts)]

\* Mutant (FramesSurviveCuts): a frame ends with its chunk.
PushedChunk(text) == Split[text]
\* push: the parts of the buffer and the chunk.
Pushed(text) == Split[buffer \o text]

(* The data handler: a chunk arrives, of any length.                       *)
Chunk ==
  \E n \in 1..(Len(wire) - arrived) :
    LET bytes == SubSeq(wire, arrived + 1, arrived + n)
        parts == Pushed(Decoded[bytes])
    IN  /\ buffer' = Last(parts)
        /\ frames' = frames \o Filled[Front(parts)]
        /\ arrived' = arrived + n
        /\ torn' = (torn \/ bytes[n] = HighByte)
        /\ UNCHANGED wire

RelayNext == Chunk
RelaySpec == RelayInit /\ [][RelayNext]_evars

-----------------------------------------------------------------------------
Truncated == <<"truncated">>

(* capEvents: head and tail of too many events, and a marker between them. *)
CapEvents(events) ==
  IF Len(events) <= MaxEvents THEN events
  ELSE LET half == MaxEvents \div 2
       IN  SubSeq(events, 1, half) \o <<Truncated>>
             \o SubSeq(events, Len(events) - (MaxEvents - half) + 1, Len(events))

(* The bytes that arrived are some of the stream's, and no more.           *)
RelayTypeOK == arrived \in 0..Len(wire) /\ torn \in BOOLEAN /\ Len(frames) <= Len(wire)

\* The frames of everything that has arrived, had it come in one chunk.
AtOnce == Filled[Front(Split[Decoded[SubSeq(wire, 1, arrived)]])]

(* "A chunk from the network has nothing to do with an event boundary"     *)
(* (sse.ts 10-12): however the stream is cut, the frames handed out are    *)
(* those of the bytes that have arrived, complete, in order and each once. *)
(* Only a cut inside a character changes one: it is then damaged, but no   *)
(* frame is lost or joined to another.  What is recorded of them keeps the *)
(* first and the last, in at most one more than MAX_STORED_EVENTS.         *)
FramesSurviveCuts ==
  /\ IF torn THEN Len(frames) = Len(AtOnce) ELSE frames = AtOnce
  /\ Len(CapEvents(frames)) <= MaxEvents + 1
  /\ frames # <<>> => Last(CapEvents(frames)) = Last(frames)

=============================================================================
