---------------------------- MODULE ControlFraming ----------------------------
(***************************************************************************)
(* How the server takes the control stream apart: the RECEIVE case of      *)
(* QSyncServerControlStreamCallback.  A message is its size in SizeBytes   *)
(* bytes and then its body, the packed FileInfo; every one found is given  *)
(* to AddFileToList.  The buffers MsQuic indicates cut the stream anywhere,*)
(* one event may have two of them, and what a callback that returns has    *)
(* not looked at is gone.                                                  *)
(*                                                                         *)
(* Data: a byte is its place in the stream, counted from 0; Unknown is a   *)
(* byte from outside the buffers.  The model stops where the size of a     *)
(* message is read from anything but the bytes of a size: Misframed.       *)
(***************************************************************************)
EXTENDS Naturals, Sequences, FiniteSets

CONSTANTS
  SizeBytes,     \* sizeof(MessageSize)
  Sizes,         \* the sizes of the messages the client sends
  Unset          \* what SkipMessageBytes may start from: the constructor of
                 \* QsyncServer does not set it

ASSUME ControlFramingAssumption ==
  /\ SizeBytes \in Nat \ {0}
  /\ Sizes \in Seq(Nat)
  /\ Unset \subseteq Nat

VARIABLES
  arrived,             \* bytes indicated so far, those of this event included
  buffers,             \* lengths of the event's buffers still to be read ...
  base,                \* ... and the place of the first one's first byte
  i,                   \* index into the buffer
  at,                  \* where the callback is
  PartialData,
  Remainder,           \* RemainderSizeBytes or RemainderMessage.Buffer, as far as
                       \* RemainderFilled
  RemainderLength,     \* RemainderMessage.Length
  SkipMessageBytes,
  added,               \* the messages AddFileToList was called with
  skipped,             \* history: the messages there was no memory for
  regular              \* history: the callback provides for all receives so far

vars == <<arrived, buffers, base, i, at, PartialData, Remainder, RemainderLength,
          SkipMessageBytes, added, skipped, regular>>

Messages == DOMAIN Sizes

\* The place of the first byte of a message, its size.
First[m \in 1..(Len(Sizes) + 1)] ==
  IF m = 1 THEN 0 ELSE First[m - 1] + SizeBytes + Sizes[m - 1]

Total == First[Len(Sizes) + 1]
Unknown == Total

Run(first, n) == [j \in 1..n |-> first + j - 1]
SizeOf(m) == Run(First[m], SizeBytes)
BodyOf(m) == Run(First[m] + SizeBytes, Sizes[m])

Init ==
  /\ arrived = 0 /\ buffers = << >> /\ base = 0 /\ i = 0 /\ at = "idle"
  /\ PartialData = "none" /\ Remainder = << >> /\ RemainderLength = 0
  /\ SkipMessageBytes \in Unset
  /\ added = << >> /\ skipped = {}
  /\ regular = (SkipMessageBytes = 0)

TypeOK ==
  /\ arrived \in 0..Total
  /\ buffers \in Seq(1..Total) /\ Len(buffers) <= 2
  /\ base \in 0..Total /\ i \in Unset \cup 0..(2 * Total)
  /\ at \in {"idle", "buffer", "message"}
  /\ PartialData \in {"none", "size", "message"}
  /\ Remainder \in Seq(0..Unknown) /\ RemainderLength \in 0..Total
  /\ PartialData = "size" => Len(Remainder) < SizeBytes
  /\ PartialData = "message" => Len(Remainder) < RemainderLength
  /\ SkipMessageBytes \in Unset \cup 0..Total
  /\ added \in Seq(Seq(0..Unknown)) /\ skipped \subseteq Messages /\ regular \in BOOLEAN

\* CurrentBuffer->Length, and what is left of it after index k.
Length == Head(buffers)

\* n bytes of the buffer from index k on, Unknown beyond its end.
Bytes(k, n) == [j \in 1..n |-> IF k + j <= Length THEN base + k + j - 1 ELSE Unknown]

\* The callback goes on with the next buffer of the event, or is over.
NextBuffer ==
  /\ buffers' = Tail(buffers) /\ base' = base + Length /\ i' = 0
  /\ at' = IF Tail(buffers) = << >> THEN "idle" ELSE "buffer"

\* return: the other buffer of the event is not looked at.
Return ==
  buffers' = << >> /\ base' = arrived /\ i' = 0 /\ at' = "idle"

\* TotalBufferLength - i, the way the code takes it in either buffer: in the
\* second one, which is the last, it makes no difference.
EventHasMore(k, n) == Len(buffers) = 2 /\ Length + buffers[2] - k >= n

-----------------------------------------------------------------------------

(* Buffers and events may end anywhere.  The callback provides for         *)
(*   - a buffer that ends within a size, if the next one ends within it    *)
(*     again or has all the rest of the message;                           *)
(*   - an event of two buffers, if a message they cut is all in that event;*)
(*   - a message without memory, if the next buffer has all the rest of it.*)
(* Any other receive is irregular, and so is a first one that finds        *)
(* something in SkipMessageBytes.                                          *)

WithinSize(m, b) == First[m] < b /\ b < First[m] + SizeBytes
Within(m, b) == First[m] < b /\ b < First[m + 1]

SizeIsProvidedFor(n) ==
  \A m \in Messages :
    WithinSize(m, arrived) => WithinSize(m, arrived + n) \/ First[m + 1] <= arrived + n

EventIsProvidedFor(n, k) ==
  \A m \in Messages :
    Within(m, arrived + n) => First[m] >= arrived /\ First[m + 1] <= arrived + n + k

SkipIsProvidedFor(n) == SkipMessageBytes <= n

ReceiveOne(n) ==
  /\ buffers' = <<n>>
  /\ arrived' = arrived + n
  /\ regular' = (regular /\ SizeIsProvidedFor(n) /\ SkipIsProvidedFor(n))

ReceiveTwo(n, k) ==
  /\ buffers' = <<n, k>>
  /\ arrived' = arrived + n + k
  /\ regular' = (regular /\ SizeIsProvidedFor(n + k) /\ SkipIsProvidedFor(n)
                         /\ EventIsProvidedFor(n, k))

\* QUIC_STREAM_EVENT_RECEIVE.
Receive ==
  /\ at = "idle"
  /\ \E n \in 1..(Total - arrived) :
       ReceiveOne(n) \/ \E k \in 1..(Total - arrived - n) : ReceiveTwo(n, k)
  /\ at' = "buffer" /\ base' = arrived /\ i' = 0
  /\ UNCHANGED <<PartialData, Remainder, RemainderLength, SkipMessageBytes, added, skipped>>

\* A bug: the rest of a skipped message is read as a size.
BufferStartSkipsNothing ==
  /\ at = "buffer" /\ PartialData = "none"
  /\ i' = 0 /\ SkipMessageBytes' = 0
  /\ at' = "message"
  /\ UNCHANGED <<arrived, buffers, base, PartialData, Remainder, RemainderLength, added,
                 skipped, regular>>

\* i = SkipMessageBytes, and no part of a message is kept.
BufferStart ==
  /\ at = "buffer" /\ PartialData = "none"
  /\ i' = SkipMessageBytes /\ SkipMessageBytes' = 0
  /\ at' = "message"
  /\ UNCHANGED <<arrived, buffers, base, PartialData, Remainder, RemainderLength, added,
                 skipped, regular>>

\* "How did you get such a small receive???"
MorePartialSize ==
  /\ at = "buffer" /\ PartialData = "size"
  /\ Length < SizeBytes - Len(Remainder)
  /\ Remainder' = Remainder \o Bytes(0, Length)
  /\ SkipMessageBytes' = 0
  /\ Return
  /\ UNCHANGED <<arrived, PartialData, RemainderLength, added, skipped, regular>>

\* The size is complete: AddFileToList, whether or not the body is in the buffer.
RestOfSize ==
  /\ at = "buffer" /\ PartialData = "size"
  /\ Length >= SizeBytes - Len(Remainder)
  /\ SkipMessageBytes' = 0
  /\ LET rest == SizeBytes - Len(Remainder)
     IN  \E m \in Messages :
           /\ Remainder \o Bytes(0, rest) = SizeOf(m)
           /\ added' = Append(added, Bytes(rest, Sizes[m]))
           /\ i' = rest + Sizes[m]
  /\ at' = "message"
  /\ Remainder' = << >> /\ PartialData' = "none"
  /\ UNCHANGED <<arrived, buffers, base, RemainderLength, skipped, regular>>

\* "Another partial receive..."
MorePartialMessage ==
  /\ at = "buffer" /\ PartialData = "message"
  /\ Length < RemainderLength - Len(Remainder)
  /\ Remainder' = Remainder \o Bytes(0, Length)
  /\ SkipMessageBytes' = 0
  /\ Return
  /\ UNCHANGED <<arrived, PartialData, RemainderLength, added, skipped, regular>>

\* A bug: the message starts again with the buffer that completes it.
RestOfMessageOnly ==
  /\ at = "buffer" /\ PartialData = "message"
  /\ Length >= RemainderLength - Len(Remainder)
  /\ SkipMessageBytes' = 0
  /\ LET rest == RemainderLength - Len(Remainder) IN
       /\ added' = Append(added, Bytes(0, rest))
       /\ i' = rest
  /\ at' = "message"
  /\ Remainder' = << >> /\ RemainderLength' = 0 /\ PartialData' = "none"
  /\ UNCHANGED <<arrived, buffers, base, skipped, regular>>

\* The message is complete.
RestOfMessage ==
  /\ at = "buffer" /\ PartialData = "message"
  /\ Length >= RemainderLength - Len(Remainder)
  /\ SkipMessageBytes' = 0
  /\ LET rest == RemainderLength - Len(Remainder) IN
       /\ added' = Append(added, Remainder \o Bytes(0, rest))
       /\ i' = rest
  /\ at' = "message"
  /\ Remainder' = << >> /\ RemainderLength' = 0 /\ PartialData' = "none"
  /\ UNCHANGED <<arrived, buffers, base, skipped, regular>>

-----------------------------------------------------------------------------
(* while (i < CurrentBuffer->Length)                                       *)

BufferEnd ==
  /\ at = "message" /\ i >= Length
  /\ NextBuffer
  /\ UNCHANGED <<arrived, PartialData, Remainder, RemainderLength, SkipMessageBytes, added,
                 skipped, regular>>

\* A bug: the condition that keeps a cut size lets a whole one through.
PartialSizeInclusive ==
  /\ at = "message" /\ i < Length /\ Length - i <= SizeBytes
  /\ Remainder' = Bytes(i, Length - i)
  /\ PartialData' = "size"
  /\ IF EventHasMore(i, SizeBytes) THEN NextBuffer ELSE Return
  /\ UNCHANGED <<arrived, RemainderLength, SkipMessageBytes, added, skipped, regular>>

\* The buffer ends within a size.
PartialSize ==
  /\ at = "message" /\ i < Length /\ Length - i < SizeBytes
  /\ Remainder' = Bytes(i, Length - i)
  /\ PartialData' = "size"
  /\ IF EventHasMore(i, SizeBytes) THEN NextBuffer ELSE Return
  /\ UNCHANGED <<arrived, RemainderLength, SkipMessageBytes, added, skipped, regular>>

\* The message whose size is in the buffer at i, and what it has of its body.
Here(m) == i + SizeBytes <= Length /\ Bytes(i, SizeBytes) = SizeOf(m)
BodyHere == Length - i - SizeBytes

\* The buffer ends within a body.
PartialMessage(m) ==
  /\ at = "message" /\ Here(m) /\ BodyHere < Sizes[m]
  /\ Remainder' = Bytes(i + SizeBytes, BodyHere)
  /\ RemainderLength' = Sizes[m]
  /\ PartialData' = "message"
  /\ IF EventHasMore(i + SizeBytes, Sizes[m]) THEN NextBuffer ELSE Return
  /\ UNCHANGED <<arrived, SkipMessageBytes, added, skipped, regular>>

\* The body has nowhere to go: "Skip this message".
PartialMessageSkipped(m) ==
  /\ at = "message" /\ Here(m) /\ BodyHere < Sizes[m]
  /\ SkipMessageBytes' = Sizes[m] - BodyHere
  /\ skipped' = skipped \cup {m}
  /\ RemainderLength' = 0 /\ Remainder' = << >>
  /\ IF EventHasMore(i + SizeBytes, Sizes[m]) THEN NextBuffer ELSE Return
  /\ UNCHANGED <<arrived, PartialData, added, regular>>

WholeMessage(m) ==
  /\ at = "message" /\ Here(m) /\ BodyHere >= Sizes[m]
  /\ added' = Append(added, Bytes(i + SizeBytes, Sizes[m]))
  /\ i' = i + SizeBytes + Sizes[m]
  /\ UNCHANGED <<arrived, buffers, base, at, PartialData, Remainder,
                 RemainderLength, SkipMessageBytes, skipped, regular>>

-----------------------------------------------------------------------------

Message(m) == PartialMessage(m) \/ PartialMessageSkipped(m) \/ WholeMessage(m)

\* The bytes that are taken for a size are not one.
Misframed ==
  \/ /\ at = "message" /\ i + SizeBytes <= Length
     /\ \A m \in Messages : ~Here(m)
  \/ /\ at = "buffer" /\ PartialData = "size" /\ Length >= SizeBytes - Len(Remainder)
     /\ \A m \in Messages : Remainder \o Bytes(0, SizeBytes - Len(Remainder)) # SizeOf(m)

\* Every message has arrived, or what is read is no message.
Done == ((at = "idle" /\ arrived = Total) \/ Misframed) /\ UNCHANGED vars

Next ==
  \/ Receive
  \/ BufferStart \/ MorePartialSize \/ RestOfSize \/ MorePartialMessage \/ RestOfMessage
  \/ BufferEnd \/ PartialSize \/ (\E m \in Messages : Message(m))
  \/ Done

Spec == Init /\ [][Next]_vars

-----------------------------------------------------------------------------
(* Properties *)

\* The messages that have arrived whole within the first b bytes of the stream,
\* those skipped left out; and which of them, in their order, message m is.
Due(b) == {m \in Messages : m \notin skipped /\ First[m + 1] <= b}
Rank(m, b) == Cardinality({l \in Due(b) : l <= m})

(* However the buffers cut the stream, AddFileToList is given the messages *)
(* the client sent, every byte of them and in their order, each as soon as *)
(* it has arrived; one that there is no memory for is left out, and what   *)
(* follows it is still taken apart where it should be.                     *)
Framed ==
  /\ \A k \in DOMAIN added :
       \E m \in Due(arrived) : Rank(m, arrived) = k /\ added[k] = BodyOf(m)
  /\ at = "idle" => Len(added) = Cardinality(Due(arrived))
  /\ ~Misframed

(* ... which the callback achieves as long as it provides for the receives *)
(* there are, wherever they cut the stream.                                *)
FramedWhileRegular == regular => Framed

===============================================================================
