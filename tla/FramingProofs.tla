---------------------------- MODULE FramingProofs ----------------------------
(***************************************************************************)
(* Proofs about the two receivers that take a stream apart that arrives    *)
(* cut anywhere: the server's messages (ControlFraming) and the client's   *)
(* file ids (FileIdFraming), for any number and sizes of messages and ids, *)
(* and any buffers.                                                        *)
(*                                                                         *)
(* The server's callback is trusted for the cuts its model calls "size",   *)
(* "two" and "skip".  The invariant names the message m that is read next, *)
(* says where in the stream it begins or how much of it is kept, that the  *)
(* buffer to come has enough of it, and that each message before m is      *)
(* added or skipped.                                                       *)
(* The client's loop finds every id on a data stream, which has one, and   *)
(* on a control stream on which no buffer holds the rest of an id and      *)
(* more.  The invariant says where the loop is: after the ids it has found *)
(* and the bytes it keeps.                                                 *)
(*                                                                         *)
(* The starts of the messages are a recursive function; what is proved of  *)
(* them, that there is such a function and that messages follow each       *)
(* other, is by contradiction from a least counterexample, LeastNumber.    *)
(***************************************************************************)
EXTENDS ControlFraming, FileIdFraming, SequenceTheorems, FiniteSetTheorems,
        WellFoundedInduction, TLAPS

-----------------------------------------------------------------------------
(* The stream *)

NatLess == {p \in Nat \X Nat : p[1] < p[2]}

\* The least-number principle, for sets instead of predicates: what is proved
\* of each number by induction is proved of the least one that is an exception.
LEMMA LeastNumber ==
  ASSUME NEW T, T \subseteq Nat, T # {}
  PROVE  \E x \in T : \A y \in T : x <= y
<1>1. NatLess = OpToRel(<, Nat)
  BY DEF NatLess, OpToRel
<1>2. IsWellFoundedOn(NatLess, Nat)
  BY <1>1, NatLessThanWellFounded
<1>3. PICK x \in T : \A y \in T : ~(<<y, x>> \in NatLess)
  BY <1>2, WFMin
<1>4. ASSUME NEW y \in T PROVE x <= y
  <2>1. x \in Nat /\ y \in Nat
    OBVIOUS
  <2>2. ~(<<y, x>> \in NatLess)
    BY <1>3
  <2>3. y < x => <<y, x>> \in NatLess
    BY <2>1 DEF NatLess
  <2>4. QED
    BY <2>1, <2>2, <2>3
<1>5. QED
  BY <1>4

LEMMA SizesAre ==
  /\ SizeBytes \in Nat \ {0} /\ Len(Sizes) \in Nat /\ Messages = 1..Len(Sizes)
  /\ \A m \in 1..Len(Sizes) : Sizes[m] \in Nat
BY ControlFramingAssumption, LenProperties DEF Messages

\* The places of the first n messages and of the byte after them.
Starts(g, n) ==
  /\ g \in [1..(n + 1) -> Nat] /\ g[1] = 0
  /\ \A m \in 1..n : g[m + 1] = g[m] + SizeBytes + Sizes[m]

LEMMA StartsExist == \A n \in 0..Len(Sizes) : \E g : Starts(g, n)
<1> DEFINE T == {n \in 0..Len(Sizes) : ~\E g : Starts(g, n)}
<1> SUFFICES ASSUME T # {} PROVE FALSE
  OBVIOUS
<1>1. T \subseteq Nat
  BY SizesAre
<1>2. PICK n \in T : \A k \in T : n <= k
  <2> HIDE DEF T
  <2> QED
    BY <1>1, LeastNumber
<1>3. n \in 0..Len(Sizes) /\ ~\E g : Starts(g, n)
  OBVIOUS
<1>4. CASE n = 0
  <2> DEFINE g == [m \in 1..(0 + 1) |-> 0]
  <2>1. g \in [1..(0 + 1) -> Nat] /\ g[1] = 0
    OBVIOUS
  <2>2. \A m \in 1..0 : FALSE
    OBVIOUS
  <2>3. Starts(g, 0)
    BY <2>1, <2>2, Zenon DEF Starts
  <2>4. QED
    BY <1>3, <1>4, <2>3
<1>5. CASE n # 0
  <2>1. n - 1 \in 0..Len(Sizes) /\ ~(n <= n - 1) /\ n \in 1..Len(Sizes) /\ (n - 1) + 1 = n
    BY <1>3, <1>5, SizesAre
  <2>2. PICK g : Starts(g, n - 1)
    BY <1>2, <2>1
  <2>3. /\ g \in [1..n -> Nat] /\ g[1] = 0 /\ n \in Nat \ {0}
        /\ \A m \in 1..(n - 1) : g[m + 1] = g[m] + SizeBytes + Sizes[m]
    BY <2>1, <2>2 DEF Starts
  <2> DEFINE h == [m \in 1..(n + 1) |-> IF m <= n THEN g[m] ELSE g[n] + SizeBytes + Sizes[n]]
  <2>4. g[n] + SizeBytes + Sizes[n] \in Nat
    BY <2>1, <2>3, SizesAre
  <2>5. h \in [1..(n + 1) -> Nat]
    BY <2>3, <2>4
  <2>6. h[1] = 0
    BY <2>3
  <2>7. ASSUME NEW m \in 1..n PROVE h[m + 1] = h[m] + SizeBytes + Sizes[m]
    <3>1. h[m] = g[m] /\ m + 1 \in 1..(n + 1)
      BY <2>3
    <3>2. CASE m = n
      BY <2>3, <3>1, <3>2
    <3>3. CASE m # n
      <4>1. m \in 1..(n - 1) /\ m + 1 <= n
        BY <2>3, <3>3
      <4>2. QED
        BY <2>3, <3>1, <4>1
    <3>4. QED
      BY <3>2, <3>3
  <2>8. Starts(h, n)
    <3> HIDE DEF h
    <3> QED
      BY <2>5, <2>6, <2>7 DEF Starts
  <2>9. QED
    BY <1>3, <2>8
<1>6. QED
  BY <1>4, <1>5

\* The recursive function is defined: it has the places of all messages.
LEMMA FirstIs ==
  /\ First \in [1..(Len(Sizes) + 1) -> Nat] /\ First[1] = 0
  /\ \A m \in Messages : First[m + 1] = First[m] + SizeBytes + Sizes[m]
  /\ Total \in Nat /\ Total = First[Len(Sizes) + 1]
<1> DEFINE N == Len(Sizes)
           Defines(g) == g = [m \in 1..(N + 1) |->
                                IF m = 1 THEN 0 ELSE g[m - 1] + SizeBytes + Sizes[m - 1]]
<1>1. N \in Nat /\ N \in 0..N /\ Messages = 1..N
  BY SizesAre
<1>2. PICK g : Starts(g, N)
  BY <1>1, StartsExist
<1>3. Defines(g)
  <2>1. g \in [1..(N + 1) -> Nat] /\ g[1] = 0
        /\ \A m \in 1..N : g[m + 1] = g[m] + SizeBytes + Sizes[m]
    BY <1>2 DEF Starts
  <2>2. ASSUME NEW m \in 1..(N + 1)
        PROVE  g[m] = IF m = 1 THEN 0 ELSE g[m - 1] + SizeBytes + Sizes[m - 1]
    <3>1. CASE m = 1
      BY <2>1, <3>1
    <3>2. CASE m # 1
      <4>1. m - 1 \in 1..N /\ (m - 1) + 1 = m
        BY <1>1, <3>2
      <4>2. g[(m - 1) + 1] = g[m - 1] + SizeBytes + Sizes[m - 1]
        BY <2>1, <4>1
      <4>3. QED
        BY <3>2, <4>1, <4>2
    <3>3. QED
      BY <3>1, <3>2
  <2>3. QED
    BY <2>1, <2>2
<1>4. Defines(First)
  <2>1. First = CHOOSE f : Defines(f)
    BY DEF First
  <2> HIDE DEF Defines
  <2>2. QED
    BY <1>3, <2>1
<1>5. \A m \in 1..(N + 1) : First[m] = IF m = 1 THEN 0 ELSE First[m - 1] + SizeBytes + Sizes[m - 1]
  BY <1>4, Zenon
<1> DEFINE Bad == {m \in 1..(N + 1) : First[m] \notin Nat}
<1>6. \A m \in 1..(N + 1) : First[m] \in Nat
  <2> SUFFICES ASSUME Bad # {} PROVE FALSE
    OBVIOUS
  <2>1. Bad \subseteq Nat
    BY <1>1
  <2>2. PICK m \in Bad : \A k \in Bad : m <= k
    <3> HIDE DEF Bad
    <3> QED
      BY <2>1, LeastNumber
  <2>3. m # 1
    BY <1>1, <1>5
  <2>4. m - 1 \in 1..N /\ m - 1 \in 1..(N + 1) /\ ~(m <= m - 1)
    BY <1>1, <2>3
  <2>5. First[m - 1] \in Nat
    BY <2>2, <2>4
  <2>6. First[m] = First[m - 1] + SizeBytes + Sizes[m - 1]
    BY <1>5, <2>3
  <2>7. Sizes[m - 1] \in Nat /\ SizeBytes \in Nat
    BY <2>4, SizesAre
  <2>8. First[m] \in Nat
    BY <2>5, <2>6, <2>7
  <2>9. QED
    BY <2>8
<1>7. First \in [1..(N + 1) -> Nat]
  BY <1>4, <1>6
<1>8. First[1] = 0
  BY <1>1, <1>5
<1>9. ASSUME NEW m \in Messages PROVE First[m + 1] = First[m] + SizeBytes + Sizes[m]
  <2>1. m + 1 \in 1..(N + 1) /\ m + 1 # 1 /\ (m + 1) - 1 = m
    BY <1>1
  <2>2. QED
    BY <1>5, <2>1
<1>10. Total = First[N + 1] /\ N + 1 \in 1..(N + 1)
  BY <1>1 DEF Total
<1>11. QED
  BY <1>6, <1>7, <1>8, <1>9, <1>10

LEMMA StartOf ==
  ASSUME NEW m \in 1..(Len(Sizes) + 1) PROVE First[m] \in Nat
BY FirstIs

LEMMA NextStart ==
  ASSUME NEW m \in Messages
  PROVE  /\ m \in 1..Len(Sizes) /\ m \in 1..(Len(Sizes) + 1) /\ m + 1 \in 1..(Len(Sizes) + 1)
         /\ Sizes[m] \in Nat /\ First[m] \in Nat /\ First[m + 1] \in Nat
         /\ First[m + 1] = First[m] + SizeBytes + Sizes[m]
<1>1. m \in 1..Len(Sizes) /\ m \in 1..(Len(Sizes) + 1) /\ m + 1 \in 1..(Len(Sizes) + 1)
  BY SizesAre
<1>2. QED
  BY <1>1, FirstIs, SizesAre

\* Messages follow each other.
LEMMA InTurn ==
  ASSUME NEW j \in 1..(Len(Sizes) + 1), NEW k \in 1..(Len(Sizes) + 1), j < k
  PROVE  First[j] + SizeBytes <= First[k]
<1> DEFINE N == Len(Sizes)
           Bad == {l \in 1..(N + 1) : j < l /\ ~(First[j] + SizeBytes <= First[l])}
<1> SUFFICES ASSUME Bad # {} PROVE FALSE
  OBVIOUS
<1>1. N \in Nat /\ SizeBytes \in Nat \ {0} /\ j \in Nat
  BY SizesAre
<1>2. Bad \subseteq Nat
  BY <1>1
<1>3. PICK l \in Bad : \A x \in Bad : l <= x
  <2> HIDE DEF Bad
  <2> QED
    BY <1>2, LeastNumber
<1>4. l \in 1..(N + 1) /\ j < l /\ ~(First[j] + SizeBytes <= First[l])
  OBVIOUS
<1>5. l - 1 \in 1..N /\ l - 1 \in 1..(N + 1) /\ (l - 1) + 1 = l /\ ~(l <= l - 1)
  BY <1>1, <1>4
<1>6. l - 1 \in Messages
  BY <1>5, SizesAre
<1>7. /\ First[l] = First[l - 1] + SizeBytes + Sizes[l - 1]
      /\ Sizes[l - 1] \in Nat /\ First[l - 1] \in Nat /\ First[j] \in Nat /\ First[l] \in Nat
  BY <1>5, <1>6, NextStart, StartOf
<1>8. CASE j = l - 1
  BY <1>1, <1>4, <1>7, <1>8
<1>9. CASE j # l - 1
  <2>1. j < l - 1
    BY <1>1, <1>4, <1>5, <1>9
  <2>2. First[j] + SizeBytes <= First[l - 1]
    BY <1>3, <1>5, <2>1
  <2>3. QED
    BY <1>1, <1>4, <1>7, <2>2
<1>10. QED
  BY <1>8, <1>9

LEMMA SameStart ==
  ASSUME NEW j \in 1..(Len(Sizes) + 1), NEW k \in 1..(Len(Sizes) + 1), First[j] = First[k]
  PROVE  j = k
<1>1. First[j] \in Nat /\ First[k] \in Nat /\ SizeBytes \in Nat \ {0} /\ Len(Sizes) \in Nat
  BY StartOf, SizesAre
<1>2. ~(j < k)
  BY <1>1, InTurn
<1>3. ~(k < j)
  BY <1>1, InTurn
<1>4. QED
  BY <1>1, <1>2, <1>3

LEMMA BeforeTotal ==
  ASSUME NEW m \in 1..(Len(Sizes) + 1)
  PROVE  First[m] <= Total /\ (First[m] < Total => m \in Messages)
<1>1. First[m] \in Nat /\ Total \in Nat /\ Len(Sizes) \in Nat /\ SizeBytes \in Nat \ {0}
      /\ Total = First[Len(Sizes) + 1] /\ Len(Sizes) + 1 \in 1..(Len(Sizes) + 1)
  BY StartOf, SizesAre, FirstIs
<1>2. CASE m = Len(Sizes) + 1
  BY <1>1, <1>2
<1>3. CASE m < Len(Sizes) + 1
  <2>1. First[m] + SizeBytes <= Total
    BY <1>1, <1>3, InTurn
  <2>2. m \in Messages
    BY <1>1, <1>3, SizesAre
  <2>3. QED
    BY <1>1, <2>1, <2>2
<1>4. QED
  BY <1>1, <1>2, <1>3

LEMMA BodyInStream ==
  ASSUME NEW m \in Messages
  PROVE  First[m] + SizeBytes + Sizes[m] <= Total
BY NextStart, BeforeTotal

-----------------------------------------------------------------------------
(* Bytes *)

LEMMA FunctionIsSeq ==
  ASSUME NEW S, NEW n \in Nat, NEW s \in [1..n -> S]
  PROVE  s \in Seq(S) /\ Len(s) = n
<1>1. s \in Seq(S)
  BY SeqDef
<1>2. DOMAIN s = 1..n /\ DOMAIN s = 1..Len(s) /\ Len(s) \in Nat
  BY <1>1, LenProperties
<1>3. QED
  BY <1>1, <1>2

LEMMA BytesAre ==
  ASSUME NEW k \in Nat, NEW n \in Nat, buffers # << >>, Length \in Nat,
         base \in Nat, base + Length <= Total
  PROVE  /\ Bytes(k, n) \in Seq(0..Unknown) /\ Len(Bytes(k, n)) = n
         /\ \A j \in 1..n : k + j <= Length => Bytes(k, n)[j] = base + k + j - 1
<1>1. Total \in Nat
  BY FirstIs
<1>2. ASSUME NEW j \in 1..n
      PROVE  (IF k + j <= Length THEN base + k + j - 1 ELSE Unknown) \in 0..Unknown
  BY <1>1 DEF Unknown
<1>3. Bytes(k, n) \in [1..n -> 0..Unknown]
  BY <1>2 DEF Bytes
<1>4. Bytes(k, n) \in Seq(0..Unknown) /\ Len(Bytes(k, n)) = n
  BY <1>3, FunctionIsSeq
<1>5. QED
  BY <1>4 DEF Bytes

LEMMA RunIs ==
  ASSUME NEW f \in Nat, NEW n \in Nat
  PROVE  /\ Run(f, n) \in Seq(Nat) /\ Len(Run(f, n)) = n /\ DOMAIN Run(f, n) = 1..n
         /\ \A j \in 1..n : Run(f, n)[j] = f + j - 1
<1>1. \A j \in 1..n : f + j - 1 \in Nat
  OBVIOUS
<1>2. Run(f, n) \in [1..n -> Nat]
  BY <1>1 DEF Run
<1>3. Run(f, n) \in Seq(Nat) /\ Len(Run(f, n)) = n
  BY <1>2, FunctionIsSeq
<1>4. QED
  BY <1>3 DEF Run

\* What is read within the buffer is a run of the stream.
LEMMA BytesRun ==
  ASSUME NEW k \in Nat, NEW n \in Nat, Length \in Nat, base \in Nat, k + n <= Length
  PROVE  Bytes(k, n) = Run(base + k, n)
<1>1. ASSUME NEW j \in 1..n PROVE k + j <= Length
  OBVIOUS
<1>2. QED
  BY <1>1 DEF Bytes, Run

\* Two runs one after the other are one.
LEMMA RunsJoin ==
  ASSUME NEW f \in Nat, NEW n \in Nat, NEW k \in Nat
  PROVE  Run(f, n) \o Run(f + n, k) = Run(f, n + k)
<1>1. /\ Run(f, n) \in Seq(Nat) /\ Len(Run(f, n)) = n
      /\ \A j \in 1..n : Run(f, n)[j] = f + j - 1
  BY RunIs
<1>2. /\ Run(f + n, k) \in Seq(Nat) /\ Len(Run(f + n, k)) = k
      /\ \A j \in 1..k : Run(f + n, k)[j] = f + n + j - 1
  <2>1. f + n \in Nat
    OBVIOUS
  <2>2. QED
    BY <2>1, RunIs
<1>3. /\ Run(f, n + k) \in Seq(Nat) /\ Len(Run(f, n + k)) = n + k
      /\ \A j \in 1..(n + k) : Run(f, n + k)[j] = f + j - 1
  BY RunIs
<1> DEFINE s == Run(f, n)
           t == Run(f + n, k)
           u == Run(f, n + k)
<1> HIDE DEF s, t, u
<1>4. s \o t \in Seq(Nat) /\ Len(s \o t) = n + k
      /\ \A j \in 1..(n + k) : (s \o t)[j] = IF j <= n THEN s[j] ELSE t[j - n]
  <2>1. s \in Seq(Nat) /\ t \in Seq(Nat) /\ Len(s) = n /\ Len(t) = k
    BY <1>1, <1>2 DEF s, t
  <2>2. QED
    BY <2>1, ConcatProperties
<1>5. ASSUME NEW j \in 1..(n + k) PROVE (s \o t)[j] = u[j]
  <2>1. CASE j <= n
    <3>1. j \in 1..n /\ (s \o t)[j] = s[j]
      BY <1>4, <2>1
    <3>2. s[j] = f + j - 1 /\ u[j] = f + j - 1
      BY <1>1, <1>3, <3>1 DEF s, u
    <3>3. QED
      BY <3>1, <3>2
  <2>2. CASE ~(j <= n)
    <3>1. j - n \in 1..k
      BY <2>2
    <3>2. t[j - n] = f + n + (j - n) - 1
      BY <1>2, <3>1 DEF t
    <3>3. f + n + (j - n) - 1 = f + j - 1
      OBVIOUS
    <3>4. u[j] = f + j - 1 /\ (s \o t)[j] = t[j - n]
      BY <1>3, <1>4, <2>2 DEF u
    <3>5. QED
      BY <3>2, <3>3, <3>4
  <2>3. QED
    BY <2>1, <2>2
<1>6. u \in Seq(Nat) /\ Len(u) = n + k
  BY <1>3 DEF u
<1>7. s \o t = u
  BY <1>4, <1>5, <1>6, SeqEqual
<1>8. QED
  BY <1>7 DEF s, t, u

-----------------------------------------------------------------------------
(* Types of the control stream *)

\* The buffers of the event are the end of what has been indicated.
Placed ==
  /\ arrived \in 0..Total /\ base \in 0..Total /\ i \in Unset \cup 0..(2 * Total)
  /\ buffers \in Seq(1..Total)
  /\ at \in {"idle", "buffer", "message"}
  /\ at = "idle" => buffers = << >> /\ base = arrived
  /\ at # "idle" => \/ Len(buffers) = 1 /\ base + buffers[1] = arrived
                    \/ Len(buffers) = 2 /\ base + buffers[1] + buffers[2] = arrived

\* What the callback keeps from one event to the next.
Held ==
  /\ PartialData \in {"none", "size", "message"}
  /\ Remainder \in Seq(0..Unknown) /\ RemainderLength \in 0..Total
  /\ PartialData = "size" => Len(Remainder) < SizeBytes
  /\ PartialData = "message" => Len(Remainder) < RemainderLength
  /\ at = "message" => PartialData = "none"

FramingTypes ==
  /\ Placed /\ Held
  /\ SkipMessageBytes \in Unset \cup 0..Total
  /\ added \in Seq(Seq(0..Unknown)) /\ skipped \subseteq Messages /\ regular \in BOOLEAN

LEMMA TypesAre == FramingTypes => TypeOK
<1> SUFFICES ASSUME FramingTypes PROVE TypeOK
  OBVIOUS
<1>1. Len(buffers) <= 2
  <2>1. CASE at = "idle"
    <3>1. buffers = << >>
      BY <2>1 DEF FramingTypes, Placed
    <3>2. Len(buffers) = 0
      BY <3>1
    <3>3. QED
      BY <3>2
  <2>2. CASE at # "idle"
    <3>1. CASE Len(buffers) = 1
      BY <3>1
    <3>2. CASE Len(buffers) = 2
      BY <3>2
    <3>3. QED
      BY <2>2, <3>1, <3>2 DEF FramingTypes, Placed
  <2>3. QED
    BY <2>1, <2>2
<1>2. QED
  BY <1>1 DEF FramingTypes, Placed, Held, TypeOK

\* The buffer that is read, and the one after it.
LEMMA AtBuffer ==
  ASSUME Placed, at # "idle"
  PROVE  /\ buffers # << >> /\ Length = buffers[1] /\ Length \in 1..Total
         /\ arrived \in Nat /\ base \in Nat /\ i \in Nat /\ Total \in Nat /\ Length \in Nat
         /\ base + Length <= arrived /\ base + Length <= Total
         /\ \/ Len(buffers) = 1 /\ Tail(buffers) = << >> /\ base + Length = arrived
            \/ /\ Len(buffers) = 2 /\ buffers[2] \in 1..Total /\ Tail(buffers) = <<buffers[2]>>
               /\ base + Length + buffers[2] = arrived
<1>1. buffers \in Seq(1..Total) /\ Total \in Nat
  BY FirstIs DEF Placed
<1>2. /\ arrived \in Nat /\ arrived <= Total /\ base \in Nat /\ i \in Nat
      /\ \/ Len(buffers) = 1 /\ base + buffers[1] = arrived
         \/ Len(buffers) = 2 /\ base + buffers[1] + buffers[2] = arrived
  <2>1. arrived \in Nat /\ arrived <= Total /\ base \in Nat
    BY <1>1 DEF Placed
  <2>2. i \in Nat
    <3>1. i \in Unset \/ i \in 0..(2 * Total)
      BY DEF Placed
    <3>2. CASE i \in Unset
      BY <3>2, ControlFramingAssumption, Zenon
    <3>3. CASE i \in 0..(2 * Total)
      BY <1>1, <3>3
    <3>4. QED
      BY <3>1, <3>2, <3>3
  <2>3. QED
    BY <2>1, <2>2 DEF Placed
<1>3. Len(buffers) \in 1..2 /\ Len(buffers) \in Nat
  BY <1>2
<1>4. buffers # << >> /\ Length = buffers[1] /\ Length \in 1..Total /\ Length \in Nat
  <2>1. buffers # << >> /\ 1 \in 1..Len(buffers)
    BY <1>3
  <2>2. Length = buffers[1]
    BY <1>1, <2>1, HeadTailProperties DEF Length
  <2>3. buffers[1] \in 1..Total
    BY <1>1, <2>1, ElementOfSeq
  <2>4. QED
    BY <1>1, <2>1, <2>2, <2>3
<1>5. /\ Tail(buffers) \in Seq(1..Total) /\ Len(Tail(buffers)) = Len(buffers) - 1
      /\ \A j \in 1..Len(Tail(buffers)) : Tail(buffers)[j] = buffers[j + 1]
  BY <1>1, <1>4, HeadTailProperties
<1>6. CASE Len(buffers) = 1
  <2>1. Tail(buffers) = << >>
    <3> DEFINE s == Tail(buffers)
    <3> HIDE DEF s
    <3>1. s \in Seq(1..Total) /\ Len(s) = 0
      BY <1>5, <1>6 DEF s
    <3>2. s = << >>
      BY <3>1, EmptySeq
    <3>3. QED
      BY <3>2 DEF s
  <2>2. QED
    BY <1>1, <1>2, <1>4, <1>6, <2>1
<1>7. CASE Len(buffers) = 2
  <2>1. buffers[2] \in 1..Total
    BY <1>1, <1>7, ElementOfSeq
  <2>2. Len(Tail(buffers)) = 1 /\ Tail(buffers)[1] = buffers[2]
    BY <1>5, <1>7
  <2>3. <<buffers[2]>> \in Seq(1..Total) /\ Len(<<buffers[2]>>) = 1 /\ <<buffers[2]>>[1] = buffers[2]
    BY <2>1
  <2>4. Tail(buffers) = <<buffers[2]>>
    <3> DEFINE s == Tail(buffers)
               t == <<buffers[2]>>
    <3> HIDE DEF s, t
    <3>1. s \in Seq(1..Total) /\ t \in Seq(1..Total) /\ Len(s) = 1 /\ Len(t) = 1 /\ s[1] = t[1]
      BY <1>5, <2>2, <2>3 DEF s, t
    <3>2. s = t
      BY <3>1, SeqEqual
    <3>3. QED
      BY <3>2 DEF s, t
  <2>5. QED
    BY <1>1, <1>2, <1>4, <1>7, <2>1, <2>4
<1>8. QED
  BY <1>3, <1>6, <1>7

LEMMA NextIsPlaced ==
  ASSUME Placed, at # "idle", NextBuffer, arrived' = arrived
  PROVE  Placed' /\ at' # "message"
<1>1. /\ Length \in Nat /\ base \in Nat /\ arrived \in 0..Total /\ Total \in Nat
      /\ base + Length <= Total
      /\ \/ Tail(buffers) = << >> /\ base + Length = arrived
         \/ /\ buffers[2] \in 1..Total /\ Tail(buffers) = <<buffers[2]>>
            /\ base + Length + buffers[2] = arrived
  BY AtBuffer DEF Placed
<1>2. /\ buffers' = Tail(buffers) /\ base' = base + Length /\ i' = 0
      /\ at' = IF Tail(buffers) = << >> THEN "idle" ELSE "buffer"
  BY DEF NextBuffer
<1>3. base' \in 0..Total /\ i' \in Unset \cup 0..(2 * Total) /\ arrived' \in 0..Total
  BY <1>1, <1>2
<1>4. CASE Tail(buffers) = << >> /\ base + Length = arrived
  <2>1. buffers' = << >> /\ at' = "idle" /\ base' = arrived'
    BY <1>2, <1>4
  <2>2. << >> \in Seq(1..Total)
    BY EmptySeq
  <2>3. QED
    BY <1>3, <2>1, <2>2 DEF Placed
<1>5. CASE /\ buffers[2] \in 1..Total /\ Tail(buffers) = <<buffers[2]>>
           /\ base + Length + buffers[2] = arrived
  <2>1. buffers' = <<buffers[2]>> /\ at' = "buffer" /\ base' = base + Length
    BY <1>2, <1>5
  <2>2. buffers' \in Seq(1..Total) /\ Len(buffers') = 1 /\ buffers'[1] = buffers[2]
    BY <1>5, <2>1
  <2>3. base' + buffers'[1] = arrived'
    BY <1>5, <2>1, <2>2
  <2>4. QED
    BY <1>3, <2>1, <2>2, <2>3 DEF Placed
<1>6. QED
  BY <1>1, <1>4, <1>5

LEMMA ReturnIsPlaced ==
  ASSUME Placed, Return, arrived' = arrived
  PROVE  Placed' /\ at' = "idle"
<1>1. buffers' = << >> /\ base' = arrived' /\ i' = 0 /\ at' = "idle" /\ arrived' \in 0..Total
  BY DEF Placed, Return
<1>2. << >> \in Seq(1..Total) /\ i' \in Unset \cup 0..(2 * Total)
  BY <1>1, EmptySeq, FirstIs
<1>3. QED
  BY <1>1, <1>2 DEF Placed

\* Either way a buffer is left.
LEMMA LeaveIsPlaced ==
  ASSUME Placed, at # "idle", arrived' = arrived, NEW more, IF more THEN NextBuffer ELSE Return
  PROVE  Placed' /\ at' # "message"
BY NextIsPlaced, ReturnIsPlaced

LEMMA StayIsPlaced ==
  ASSUME Placed, at # "idle", UNCHANGED <<arrived, buffers, base>>,
         i' \in Unset \cup 0..(2 * Total), at' \in {"buffer", "message"}
  PROVE  Placed'
BY DEF Placed

\* What a buffer has of a message is a sequence of bytes as long.
LEMMA BytesTyped ==
  ASSUME Placed, at # "idle", NEW k \in Nat, NEW n \in Nat
  PROVE  Bytes(k, n) \in Seq(0..Unknown) /\ Len(Bytes(k, n)) = n
BY AtBuffer, BytesAre

LEMMA JoinedIs ==
  ASSUME Placed, Held, at # "idle", NEW n \in Nat
  PROVE  /\ Remainder \o Bytes(0, n) \in Seq(0..Unknown)
         /\ Len(Remainder \o Bytes(0, n)) = Len(Remainder) + n
<1>1. Bytes(0, n) \in Seq(0..Unknown) /\ Len(Bytes(0, n)) = n
  BY BytesTyped
<1>2. Remainder \in Seq(0..Unknown)
  BY DEF Held
<1> DEFINE s == Bytes(0, n)
<1> HIDE DEF s
<1>3. s \in Seq(0..Unknown) /\ Len(s) = n
  BY <1>1 DEF s
<1>4. Remainder \o s \in Seq(0..Unknown) /\ Len(Remainder \o s) = Len(Remainder) + Len(s)
  BY <1>2, <1>3, ConcatProperties
<1>5. QED
  BY <1>3, <1>4 DEF s

LEMMA ReceiveTypes ==
  ASSUME FramingTypes, Receive
  PROVE  FramingTypes'
<1>1. Total \in Nat /\ arrived \in 0..Total /\ base \in 0..Total
  BY FirstIs DEF FramingTypes, Placed
<1>2. /\ at = "idle" /\ at' = "buffer" /\ base' = arrived /\ i' = 0
      /\ UNCHANGED <<PartialData, Remainder, RemainderLength, SkipMessageBytes, added, skipped>>
  BY DEF Receive
<1>3. PICK n \in 1..(Total - arrived) :
        ReceiveOne(n) \/ \E k \in 1..(Total - arrived - n) : ReceiveTwo(n, k)
  BY DEF Receive
<1>4. base' \in 0..Total /\ i' \in Unset \cup 0..(2 * Total) /\ at' # "idle" /\ at' # "message"
  BY <1>1, <1>2
<1>5. CASE ReceiveOne(n)
  <2>1. buffers' = <<n>> /\ arrived' = arrived + n /\ regular' \in BOOLEAN
    BY <1>5 DEF ReceiveOne
  <2>2. n \in 1..Total /\ arrived' \in 0..Total /\ base' + n = arrived'
    BY <1>1, <1>2, <2>1
  <2>3. buffers' \in Seq(1..Total) /\ Len(buffers') = 1 /\ buffers'[1] = n
    BY <2>1, <2>2
  <2>4. Placed'
    BY <1>2, <1>4, <2>2, <2>3 DEF Placed
  <2>5. QED
    BY <1>2, <2>1, <2>4 DEF FramingTypes, Held
<1>6. CASE \E k \in 1..(Total - arrived - n) : ReceiveTwo(n, k)
  <2>1. PICK k \in 1..(Total - arrived - n) :
          buffers' = <<n, k>> /\ arrived' = arrived + n + k /\ regular' \in BOOLEAN
    BY <1>6 DEF ReceiveTwo
  <2>2. n \in 1..Total /\ k \in 1..Total /\ arrived' \in 0..Total /\ base' + n + k = arrived'
    BY <1>1, <1>2, <2>1
  <2>3. buffers' \in Seq(1..Total) /\ Len(buffers') = 2 /\ buffers'[1] = n /\ buffers'[2] = k
    BY <2>1, <2>2
  <2>4. Placed'
    BY <1>2, <1>4, <2>2, <2>3 DEF Placed
  <2>5. QED
    BY <1>2, <2>1, <2>4 DEF FramingTypes, Held
<1>7. QED
  BY <1>3, <1>5, <1>6

\* A message is added, read from the buffer or completed with it.
LEMMA AddedIs ==
  ASSUME FramingTypes, NEW b \in Seq(0..Unknown), added' = Append(added, b)
  PROVE  added' \in Seq(Seq(0..Unknown))
BY AppendProperties DEF FramingTypes

LEMMA BufferTypes ==
  ASSUME FramingTypes,
         BufferStart \/ MorePartialSize \/ RestOfSize \/ MorePartialMessage \/ RestOfMessage
  PROVE  FramingTypes'
<1>1. Placed /\ Held /\ SkipMessageBytes \in Unset \cup 0..Total /\ SizeBytes \in Nat /\ Total \in Nat
  BY FirstIs, SizesAre DEF FramingTypes
<1>2. at = "buffer" /\ at # "idle"
  BY DEF BufferStart, MorePartialSize, RestOfSize, MorePartialMessage, RestOfMessage
<1>3. Length \in 1..Total /\ Length \in Nat /\ 0 \in Nat
  BY <1>1, <1>2, AtBuffer
<1>4. Len(Remainder) \in Nat /\ RemainderLength \in Nat /\ RemainderLength <= Total
  BY <1>1, LenProperties DEF Held
<1>5. ASSUME BufferStart PROVE FramingTypes'
  <2>1. /\ i' = SkipMessageBytes /\ SkipMessageBytes' = 0 /\ at' = "message" /\ PartialData = "none"
        /\ UNCHANGED <<arrived, buffers, base, PartialData, Remainder, RemainderLength, added,
                       skipped, regular>>
    BY <1>5 DEF BufferStart
  <2>2. i' \in Unset \cup 0..(2 * Total) /\ SkipMessageBytes' \in Unset \cup 0..Total
    BY <1>1, <2>1
  <2>3. Placed'
    BY <1>1, <1>2, <2>1, <2>2, StayIsPlaced
  <2>4. Held'
    BY <1>1, <2>1 DEF Held
  <2>5. QED
    BY <2>1, <2>2, <2>3, <2>4 DEF FramingTypes
<1>6. ASSUME MorePartialSize PROVE FramingTypes'
  <2>1. /\ PartialData = "size" /\ Length < SizeBytes - Len(Remainder)
        /\ Remainder' = Remainder \o Bytes(0, Length) /\ SkipMessageBytes' = 0 /\ Return
        /\ UNCHANGED <<arrived, PartialData, RemainderLength, added, skipped, regular>>
    BY <1>6 DEF MorePartialSize
  <2>2. Placed' /\ at' = "idle"
    BY <1>1, <2>1, ReturnIsPlaced
  <2>3. Remainder' \in Seq(0..Unknown) /\ Len(Remainder') = Len(Remainder) + Length
    BY <1>1, <1>2, <1>3, <2>1, JoinedIs
  <2>4. Len(Remainder') < SizeBytes
    BY <1>1, <1>3, <1>4, <2>1, <2>3
  <2>5. Unknown' = Unknown
    BY DEF Unknown
  <2>6. Held'
    BY <1>1, <2>1, <2>2, <2>3, <2>4 DEF Held
  <2>7. QED
    BY <1>1, <2>1, <2>2, <2>6 DEF FramingTypes
<1>7. ASSUME RestOfSize PROVE FramingTypes'
  <2> DEFINE rest == SizeBytes - Len(Remainder)
  <2>1. /\ PartialData = "size" /\ Length >= rest
        /\ SkipMessageBytes' = 0 /\ at' = "message" /\ Remainder' = << >> /\ PartialData' = "none"
        /\ UNCHANGED <<arrived, buffers, base, RemainderLength, skipped, regular>>
    BY <1>7 DEF RestOfSize
  <2>2. PICK m \in Messages : added' = Append(added, Bytes(rest, Sizes[m])) /\ i' = rest + Sizes[m]
    BY <1>7 DEF RestOfSize
  <2>3. rest \in Nat /\ rest <= SizeBytes
    BY <1>1, <1>4, <2>1 DEF Held
  <2>4. Sizes[m] \in Nat /\ First[m] \in Nat /\ First[m] + SizeBytes + Sizes[m] <= Total
    BY NextStart, BodyInStream
  <2>5. i' \in Unset \cup 0..(2 * Total)
    <3> HIDE DEF rest
    <3> QED
      BY <1>1, <2>2, <2>3, <2>4
  <2>6. Bytes(rest, Sizes[m]) \in Seq(0..Unknown)
    BY <1>1, <1>2, <2>3, <2>4, BytesTyped
  <2>7. added' \in Seq(Seq(0..Unknown))
    BY <2>2, <2>6, AddedIs
  <2>8. Placed'
    BY <1>1, <1>2, <2>1, <2>5, StayIsPlaced
  <2>9. Held'
    BY <1>1, <2>1, EmptySeq DEF Held
  <2>10. QED
    BY <1>1, <2>1, <2>7, <2>8, <2>9 DEF FramingTypes
<1>8. ASSUME MorePartialMessage PROVE FramingTypes'
  <2>1. /\ PartialData = "message" /\ Length < RemainderLength - Len(Remainder)
        /\ Remainder' = Remainder \o Bytes(0, Length) /\ SkipMessageBytes' = 0 /\ Return
        /\ UNCHANGED <<arrived, PartialData, RemainderLength, added, skipped, regular>>
    BY <1>8 DEF MorePartialMessage
  <2>2. Placed' /\ at' = "idle"
    BY <1>1, <2>1, ReturnIsPlaced
  <2>3. Remainder' \in Seq(0..Unknown) /\ Len(Remainder') = Len(Remainder) + Length
    BY <1>1, <1>2, <1>3, <2>1, JoinedIs
  <2>4. Len(Remainder') < RemainderLength
    BY <1>1, <1>3, <1>4, <2>1, <2>3
  <2>5. Held'
    BY <1>1, <2>1, <2>2, <2>3, <2>4 DEF Held
  <2>6. QED
    BY <1>1, <2>1, <2>2, <2>5 DEF FramingTypes
<1>9. ASSUME RestOfMessage PROVE FramingTypes'
  <2> DEFINE rest == RemainderLength - Len(Remainder)
  <2>1. /\ PartialData = "message" /\ Length >= rest
        /\ SkipMessageBytes' = 0 /\ at' = "message" /\ Remainder' = << >> /\ RemainderLength' = 0
        /\ PartialData' = "none"
        /\ added' = Append(added, Remainder \o Bytes(0, rest)) /\ i' = rest
        /\ UNCHANGED <<arrived, buffers, base, skipped, regular>>
    BY <1>9 DEF RestOfMessage
  <2>2. rest \in Nat /\ rest <= Total
    BY <1>1, <1>4, <2>1 DEF Held
  <2>3. i' \in Unset \cup 0..(2 * Total)
    BY <1>1, <2>1, <2>2
  <2>4. Remainder \o Bytes(0, rest) \in Seq(0..Unknown)
    BY <1>1, <1>2, <2>2, JoinedIs
  <2>5. added' \in Seq(Seq(0..Unknown))
    BY <2>1, <2>4, AddedIs
  <2>6. Placed'
    BY <1>1, <1>2, <2>1, <2>3, StayIsPlaced
  <2>7. Held'
    BY <1>1, <2>1, EmptySeq DEF Held
  <2>8. QED
    BY <1>1, <2>1, <2>5, <2>6, <2>7 DEF FramingTypes
<1>10. QED
  BY <1>5, <1>6, <1>7, <1>8, <1>9

LEMMA EndTypes ==
  ASSUME FramingTypes, BufferEnd \/ PartialSize
  PROVE  FramingTypes'
<1>1. Placed /\ Held /\ SkipMessageBytes \in Unset \cup 0..Total /\ SizeBytes \in Nat /\ Total \in Nat
  BY FirstIs, SizesAre DEF FramingTypes
<1>2. at = "message" /\ at # "idle" /\ arrived' = arrived
  BY DEF BufferEnd, PartialSize
<1>3. Length \in Nat /\ i \in Nat
  BY <1>1, <1>2, AtBuffer
<1>4. ASSUME BufferEnd PROVE FramingTypes'
  <2>1. /\ NextBuffer
        /\ UNCHANGED <<PartialData, Remainder, RemainderLength, SkipMessageBytes, added, skipped, regular>>
    BY <1>4 DEF BufferEnd
  <2>2. Placed' /\ at' # "message"
    BY <1>1, <1>2, <2>1, NextIsPlaced
  <2>3. Held'
    BY <1>1, <2>1, <2>2 DEF Held
  <2>4. QED
    BY <2>1, <2>2, <2>3 DEF FramingTypes
<1>5. ASSUME PartialSize PROVE FramingTypes'
  <2>1. /\ i < Length /\ Length - i < SizeBytes
        /\ Remainder' = Bytes(i, Length - i) /\ PartialData' = "size"
        /\ IF EventHasMore(i, SizeBytes) THEN NextBuffer ELSE Return
        /\ UNCHANGED <<RemainderLength, SkipMessageBytes, added, skipped, regular>>
    BY <1>5 DEF PartialSize
  <2>2. Placed' /\ at' # "message"
    BY <1>1, <1>2, <2>1, LeaveIsPlaced
  <2>3. Length - i \in Nat
    BY <1>3, <2>1
  <2>4. Remainder' \in Seq(0..Unknown) /\ Len(Remainder') < SizeBytes
    BY <1>1, <1>2, <1>3, <2>1, <2>3, BytesTyped
  <2>5. Held'
    BY <1>1, <2>1, <2>2, <2>4 DEF Held
  <2>6. QED
    BY <2>1, <2>2, <2>5 DEF FramingTypes
<1>6. QED
  BY <1>4, <1>5

LEMMA MessageTypes ==
  ASSUME FramingTypes, NEW m \in Messages, Message(m)
  PROVE  FramingTypes'
<1>1. Placed /\ Held /\ SkipMessageBytes \in Unset \cup 0..Total /\ SizeBytes \in Nat /\ Total \in Nat
  BY FirstIs, SizesAre DEF FramingTypes
<1>2. /\ at = "message" /\ at # "idle" /\ arrived' = arrived /\ i + SizeBytes <= Length
      /\ PartialData = "none"
  BY <1>1 DEF Message, PartialMessage, PartialMessageSkipped, WholeMessage, Here, Held
<1>3. Length \in Nat /\ Length <= Total /\ i \in Nat /\ i + SizeBytes \in Nat
  BY <1>1, <1>2, AtBuffer
<1>4. Sizes[m] \in Nat /\ First[m] \in Nat /\ First[m] + SizeBytes + Sizes[m] <= Total
  BY NextStart, BodyInStream
<1>5. Sizes[m] \in 0..Total /\ BodyHere \in Nat
  BY <1>1, <1>2, <1>3, <1>4 DEF BodyHere
<1>6. ASSUME PartialMessage(m) PROVE FramingTypes'
  <2>1. /\ BodyHere < Sizes[m] /\ Remainder' = Bytes(i + SizeBytes, BodyHere)
        /\ RemainderLength' = Sizes[m] /\ PartialData' = "message"
        /\ IF EventHasMore(i + SizeBytes, Sizes[m]) THEN NextBuffer ELSE Return
        /\ UNCHANGED <<arrived, SkipMessageBytes, added, skipped, regular>>
    BY <1>6 DEF PartialMessage
  <2>2. Placed' /\ at' # "message"
    BY <1>1, <1>2, <2>1, LeaveIsPlaced
  <2>3. Remainder' \in Seq(0..Unknown) /\ Len(Remainder') = BodyHere
    BY <1>1, <1>2, <1>3, <1>5, <2>1, BytesTyped
  <2>4. Held'
    BY <1>5, <2>1, <2>2, <2>3 DEF Held
  <2>5. QED
    BY <1>1, <2>1, <2>2, <2>4 DEF FramingTypes
<1>7. ASSUME PartialMessageSkipped(m) PROVE FramingTypes'
  <2>1. /\ BodyHere < Sizes[m] /\ SkipMessageBytes' = Sizes[m] - BodyHere
        /\ skipped' = skipped \cup {m} /\ RemainderLength' = 0 /\ Remainder' = << >>
        /\ IF EventHasMore(i + SizeBytes, Sizes[m]) THEN NextBuffer ELSE Return
        /\ UNCHANGED <<arrived, PartialData, added, regular>>
    BY <1>7 DEF PartialMessageSkipped
  <2>2. Placed' /\ at' # "message"
    BY <1>1, <1>2, <2>1, LeaveIsPlaced
  <2>3. SkipMessageBytes' \in Unset \cup 0..Total
    BY <1>1, <1>5, <2>1
  <2>4. Held'
    BY <1>1, <1>2, <2>1, <2>2, EmptySeq DEF Held
  <2>5. QED
    BY <2>1, <2>2, <2>3, <2>4 DEF FramingTypes
<1>8. ASSUME WholeMessage(m) PROVE FramingTypes'
  <2>1. /\ BodyHere >= Sizes[m] /\ added' = Append(added, Bytes(i + SizeBytes, Sizes[m]))
        /\ i' = i + SizeBytes + Sizes[m]
        /\ UNCHANGED <<arrived, buffers, base, at, PartialData, Remainder,
                       RemainderLength, SkipMessageBytes, skipped, regular>>
    BY <1>8 DEF WholeMessage
  <2>2. i' \in Unset \cup 0..(2 * Total)
    <3>1. i + SizeBytes + Sizes[m] <= Length
      BY <1>1, <1>3, <1>4, <2>1 DEF BodyHere
    <3>2. i' \in Nat /\ i' <= Total
      BY <1>1, <1>3, <1>4, <2>1, <3>1
    <3>3. QED
      BY <1>1, <3>2
  <2>3. Placed'
    BY <1>1, <1>2, <2>1, <2>2, StayIsPlaced
  <2>4. Bytes(i + SizeBytes, Sizes[m]) \in Seq(0..Unknown)
    BY <1>1, <1>2, <1>3, <1>4, BytesTyped
  <2>5. added' \in Seq(Seq(0..Unknown))
    BY <2>1, <2>4, AddedIs
  <2>6. Held'
    BY <1>1, <2>1 DEF Held
  <2>7. QED
    BY <1>1, <2>1, <2>3, <2>5, <2>6 DEF FramingTypes
<1>9. QED
  BY <1>6, <1>7, <1>8 DEF Message

LEMMA FramingTypesInit ==
  ASSUME Init
  PROVE  FramingTypes
<1>1. Total \in Nat
  BY FirstIs
<1>2. << >> \in Seq(1..Total) /\ << >> \in Seq(0..Unknown) /\ << >> \in Seq(Seq(0..Unknown))
  BY EmptySeq
<1>3. SkipMessageBytes \in Unset \cup 0..Total
  BY DEF Init
<1>4. Placed
  BY <1>1, <1>2 DEF Init, Placed
<1>5. Held
  BY <1>1, <1>2 DEF Init, Held
<1>6. QED
  BY <1>2, <1>3, <1>4, <1>5 DEF Init, FramingTypes

LEMMA FramingTypesStep ==
  ASSUME FramingTypes, [Next]_vars
  PROVE  FramingTypes'
<1>1. CASE Done \/ UNCHANGED vars
  BY <1>1 DEF Done, vars, FramingTypes, Placed, Held
<1>2. QED
  BY <1>1, ReceiveTypes, BufferTypes, EndTypes, MessageTypes DEF Next

(* QSyncServerControlStreamCallback never keeps as much as a whole size, or *)
(* a whole message, as a partial one; what it keeps, adds and skips is of   *)
(* the stream, and the index into a buffer stays in proportion to what has  *)
(* been sent: for any messages, wherever the buffers cut them, whatever     *)
(* memory there is for them and whatever SkipMessageBytes starts from, even *)
(* where the stream is taken apart in the wrong places.                     *)
THEOREM FramingTypeCorrect == Spec => []TypeOK
<1>1. Init => FramingTypes
  BY FramingTypesInit
<1>2. FramingTypes /\ [Next]_vars => FramingTypes'
  BY FramingTypesStep
<1>3. QED
  BY <1>1, <1>2, TypesAre, PTL DEF Spec

-----------------------------------------------------------------------------
(* The message that is read next *)

\* A message that an event of two buffers cuts is all in that event.
EventCut ==
  Len(buffers) = 2 =>
    \A l \in Messages : Within(l, base + Length) => First[l] >= base /\ First[l + 1] <= arrived

\* Message m is the first that has not been dealt with, and this is where it
\* begins or how much of it is kept.
Reading(m) ==
  /\ at = "message" => base + i = First[m] /\ i <= Length /\ SkipMessageBytes = 0
  /\ at # "message" /\ PartialData = "none" => base + SkipMessageBytes = First[m]
  /\ PartialData # "none" => m \in Messages /\ SkipMessageBytes = 0 /\ base < First[m + 1]
  /\ PartialData = "size" =>
       /\ base = First[m] + Len(Remainder) /\ Len(Remainder) > 0
       /\ Remainder = Run(First[m], Len(Remainder))
  /\ PartialData = "message" =>
       /\ base = First[m] + SizeBytes + Len(Remainder)
       /\ Remainder = Run(First[m] + SizeBytes, Len(Remainder))
       /\ RemainderLength = Sizes[m]

\* What is skipped is the rest of the message before m.
Skipping(m) == SkipMessageBytes > 0 => m - 1 \in skipped /\ First[m - 1] <= base

\* What the buffer that is read next has of the message.
Ahead(m) ==
  at = "buffer" =>
    /\ PartialData = "none" => SkipMessageBytes <= Length
    /\ PartialData = "size" =>
         \/ First[m + 1] <= base + Length
         \/ Len(buffers) = 1 /\ Len(Remainder) + Length < SizeBytes
    /\ PartialData = "message" => First[m + 1] <= base + Length \/ Len(buffers) = 1

\* Those before m are added, or skipped.
Unskipped(m) == {l \in 1..(m - 1) : l \notin skipped}
Recorded(m) ==
  /\ skipped \subseteq 1..(m - 1)
  /\ Len(added) = Cardinality(Unskipped(m))
  /\ \A k \in DOMAIN added :
       \E l \in Unskipped(m) : Cardinality(Unskipped(l + 1)) = k /\ added[k] = BodyOf(l)

UpTo(m) ==
  m \in 1..(Len(Sizes) + 1) /\ Reading(m) /\ Skipping(m) /\ Ahead(m) /\ Recorded(m)

\* Where the callback is in the stream, for as long as it knows.
Following == EventCut /\ \E m \in 1..(Len(Sizes) + 1) : UpTo(m)

FramingInv == FramingTypes /\ (regular => Following)

LEMMA StartsRise ==
  ASSUME NEW j \in 1..(Len(Sizes) + 1), NEW k \in 1..(Len(Sizes) + 1), j <= k
  PROVE  First[j] <= First[k]
<1>1. First[j] \in Nat /\ First[k] \in Nat /\ SizeBytes \in Nat /\ Len(Sizes) \in Nat
  BY StartOf, SizesAre
<1>2. CASE j = k
  BY <1>1, <1>2
<1>3. CASE j < k
  BY <1>1, <1>3, InTurn
<1>4. QED
  BY <1>1, <1>2, <1>3

\* Two sizes are the same bytes only where they are the same size.
LEMMA OneSize ==
  ASSUME NEW j \in Messages, NEW k \in Messages, SizeOf(j) = SizeOf(k)
  PROVE  j = k
<1>1. /\ j \in 1..(Len(Sizes) + 1) /\ k \in 1..(Len(Sizes) + 1)
      /\ First[j] \in Nat /\ First[k] \in Nat /\ SizeBytes \in Nat \ {0} /\ 1 \in 1..SizeBytes
  BY NextStart, SizesAre
<1>2. Run(First[j], SizeBytes)[1] = First[j] + 1 - 1 /\ Run(First[k], SizeBytes)[1] = First[k] + 1 - 1
  BY <1>1, RunIs
<1>3. Run(First[j], SizeBytes) = Run(First[k], SizeBytes)
  BY DEF SizeOf
<1>4. First[j] = First[k]
  BY <1>1, <1>2, <1>3
<1>5. QED
  BY <1>1, <1>4, SameStart

LEMMA UnskippedFinite ==
  ASSUME NEW m \in Nat
  PROVE  IsFiniteSet(Unskipped(m)) /\ Cardinality(Unskipped(m)) \in Nat
<1>1. IsFiniteSet(1..(m - 1)) /\ Unskipped(m) \subseteq 1..(m - 1)
  BY FS_Interval DEF Unskipped
<1>2. QED
  BY <1>1, FS_Subset, FS_CardinalityType

LEMMA BodyIs ==
  ASSUME NEW m \in Messages
  PROVE  BodyOf(m) \in Seq(Nat) /\ Len(BodyOf(m)) = Sizes[m]
<1>1. First[m] + SizeBytes \in Nat /\ Sizes[m] \in Nat
  BY NextStart, SizesAre
<1>2. QED
  BY <1>1, RunIs DEF BodyOf

\* The message is added.
LEMMA RecordedAdded ==
  ASSUME FramingTypes, NEW m \in Messages, Recorded(m), skipped' = skipped,
         added' = Append(added, BodyOf(m))
  PROVE  Recorded(m + 1)'
<1>1. m \in Nat /\ m + 1 \in Nat /\ (m + 1) - 1 = m /\ m \in 1..m
  BY NextStart, SizesAre
<1>2. /\ skipped \subseteq 1..(m - 1) /\ Len(added) = Cardinality(Unskipped(m))
      /\ \A k \in DOMAIN added :
           \E l \in Unskipped(m) : Cardinality(Unskipped(l + 1)) = k /\ added[k] = BodyOf(l)
  BY DEF Recorded
<1>3. \A l : Unskipped(l)' = Unskipped(l)
  BY DEF Unskipped
<1>4. m \notin skipped /\ m \notin Unskipped(m)
  BY <1>1, <1>2 DEF Unskipped
<1>5. Unskipped(m + 1) = Unskipped(m) \cup {m}
  BY <1>1, <1>4 DEF Unskipped
<1>6. Cardinality(Unskipped(m + 1)) = Cardinality(Unskipped(m)) + 1
  BY <1>1, <1>4, <1>5, UnskippedFinite, FS_AddElement
<1>7. added \in Seq(Seq(0..Unknown)) /\ Len(added) \in Nat /\ DOMAIN added = 1..Len(added)
  BY LenProperties DEF FramingTypes
<1>8. /\ Len(added') = Len(added) + 1 /\ DOMAIN added' = 1..(Len(added) + 1)
      /\ added'[Len(added) + 1] = BodyOf(m)
      /\ \A k \in 1..Len(added) : added'[k] = added[k]
  <2> DEFINE b == BodyOf(m)
             S == Seq(0..Unknown) \cup {b}
  <2>1. added \in Seq(S) /\ b \in S
    BY <1>7
  <2> HIDE DEF b, S
  <2>2. added' = Append(added, b)
    BY DEF b
  <2>3. /\ added' \in Seq(S) /\ Len(added') = Len(added) + 1
        /\ added'[Len(added) + 1] = b
        /\ \A k \in 1..Len(added) : added'[k] = added[k]
    BY <2>1, <2>2, AppendProperties
  <2>4. DOMAIN added' = 1..(Len(added) + 1)
    BY <2>3, LenProperties
  <2>5. QED
    BY <2>3, <2>4 DEF b
<1>9. ASSUME NEW k \in DOMAIN added'
      PROVE  \E l \in Unskipped(m + 1) : Cardinality(Unskipped(l + 1)) = k /\ added'[k] = BodyOf(l)
  <2>1. CASE k \in 1..Len(added)
    BY <1>2, <1>5, <1>7, <1>8, <2>1
  <2>2. CASE k = Len(added) + 1
    <3>1. m \in Unskipped(m + 1) /\ Cardinality(Unskipped(m + 1)) = k /\ added'[k] = BodyOf(m)
      BY <1>2, <1>5, <1>6, <1>8, <2>2
    <3>2. QED
      BY <3>1
  <2>3. QED
    BY <1>7, <1>8, <2>1, <2>2
<1>10. skipped' \subseteq 1..((m + 1) - 1)
  BY <1>1, <1>2
<1>11. Len(added') = Cardinality(Unskipped(m + 1))
  BY <1>2, <1>6, <1>8
<1>12. QED
  BY <1>3, <1>9, <1>10, <1>11 DEF Recorded, BodyOf, Run

\* There is no memory for the message.
LEMMA RecordedSkipped ==
  ASSUME FramingTypes, NEW m \in Messages, Recorded(m), skipped' = skipped \cup {m}, added' = added
  PROVE  Recorded(m + 1)'
<1>1. m \in Nat /\ m + 1 \in Nat /\ (m + 1) - 1 = m /\ m \in 1..m
  BY NextStart, SizesAre
<1>2. /\ skipped \subseteq 1..(m - 1) /\ Len(added) = Cardinality(Unskipped(m))
      /\ \A k \in DOMAIN added :
           \E l \in Unskipped(m) : Cardinality(Unskipped(l + 1)) = k /\ added[k] = BodyOf(l)
  BY DEF Recorded
<1>3. \A l \in 1..(m - 1) : Unskipped(l + 1)' = Unskipped(l + 1)
  BY <1>1 DEF Unskipped
<1>4. Unskipped(m + 1)' = Unskipped(m)
  BY <1>1 DEF Unskipped
<1>5. Unskipped(m) \subseteq 1..(m - 1)
  BY DEF Unskipped
<1>6. ASSUME NEW k \in DOMAIN added'
      PROVE  \E l \in Unskipped(m + 1)' : Cardinality(Unskipped(l + 1)') = k /\ added'[k] = BodyOf(l)
  <2>1. PICK l \in Unskipped(m) : Cardinality(Unskipped(l + 1)) = k /\ added[k] = BodyOf(l)
    BY <1>2
  <2>2. Unskipped(l + 1)' = Unskipped(l + 1)
    BY <1>3, <1>5, <2>1
  <2>3. QED
    BY <1>4, <2>1, <2>2
<1>7. skipped' \subseteq 1..((m + 1) - 1) /\ Len(added') = Cardinality(Unskipped(m + 1)')
  BY <1>1, <1>2, <1>4
<1>8. QED
  BY <1>6, <1>7 DEF Recorded, BodyOf, Run

LEMMA RecordedKept ==
  ASSUME NEW m, Recorded(m), UNCHANGED <<added, skipped>>
  PROVE  Recorded(m)'
<1>1. \A l : Unskipped(l)' = Unskipped(l)
  BY DEF Unskipped
<1>2. added' = added /\ skipped' = skipped
  OBVIOUS
<1>3. QED
  BY <1>1, <1>2 DEF Recorded, BodyOf, Run

\* Numbers of a step that reads a buffer.
LEMMA BufferFacts ==
  ASSUME FramingTypes, at # "idle", NEW m \in 1..(Len(Sizes) + 1)
  PROVE  /\ Placed /\ Held
         /\ Length \in Nat /\ base \in Nat /\ i \in Nat /\ arrived \in Nat /\ Total \in Nat
         /\ SizeBytes \in Nat \ {0} /\ First[m] \in Nat
         /\ Length > 0 /\ base + Length <= arrived /\ base + Length <= Total
         /\ Remainder \in Seq(0..Unknown) /\ Len(Remainder) \in Nat
BY AtBuffer, StartOf, SizesAre, LenProperties DEF FramingTypes, Held

\* Where the next buffer leaves the callback.
LEMMA NextBufferIs ==
  ASSUME Placed, at # "idle", NextBuffer, arrived' = arrived
  PROVE  /\ base' = base + Length /\ EventCut'
         /\ \/ Len(buffers) = 1 /\ at' = "idle"
            \/ /\ Len(buffers) = 2 /\ at' = "buffer" /\ Len(buffers') = 1
               /\ Length' \in Nat /\ base' + Length' = arrived
               /\ Length' = buffers[2]
<1>1. /\ \/ Len(buffers) = 1 /\ Tail(buffers) = << >>
         \/ /\ Len(buffers) = 2 /\ buffers[2] \in 1..Total /\ Tail(buffers) = <<buffers[2]>>
            /\ base + Length + buffers[2] = arrived
      /\ Total \in Nat
  BY AtBuffer
<1>2. /\ buffers' = Tail(buffers) /\ base' = base + Length
      /\ at' = IF Tail(buffers) = << >> THEN "idle" ELSE "buffer"
  BY DEF NextBuffer
<1>3. CASE Len(buffers) = 1 /\ Tail(buffers) = << >>
  <2>1. buffers' = << >> /\ at' = "idle"
    BY <1>2, <1>3
  <2>2. Len(buffers') = 0
    BY <2>1
  <2>3. EventCut'
    BY <2>2 DEF EventCut
  <2>4. QED
    BY <1>2, <1>3, <2>1, <2>3
<1>4. CASE /\ Len(buffers) = 2 /\ buffers[2] \in 1..Total /\ Tail(buffers) = <<buffers[2]>>
           /\ base + Length + buffers[2] = arrived
  <2>1. buffers' = <<buffers[2]>> /\ at' = "buffer"
    BY <1>2, <1>4
  <2>2. Len(buffers') = 1 /\ Length' = buffers[2]
    BY <2>1 DEF Length
  <2>3. Length' \in Nat /\ base' + Length' = arrived
    BY <1>1, <1>2, <1>4, <2>2
  <2>4. EventCut'
    BY <2>2 DEF EventCut
  <2>5. QED
    BY <1>2, <1>4, <2>1, <2>2, <2>3, <2>4
<1>5. QED
  BY <1>1, <1>3, <1>4

LEMMA ReturnIs ==
  ASSUME Return
  PROVE  base' = arrived /\ at' = "idle" /\ EventCut'
<1>1. buffers' = << >> /\ base' = arrived /\ at' = "idle"
  BY DEF Return
<1>2. Len(buffers') = 0
  BY <1>1
<1>3. QED
  BY <1>1, <1>2 DEF EventCut

\* Where a message that the buffer ends in leaves the callback, if the event
\* has its rest: in the buffer that has it.
LEMMA CutIs ==
  ASSUME FramingTypes, EventCut, at = "message", arrived' = arrived,
         NEW m \in Messages, base + i = First[m], i < Length, base + Length < First[m + 1],
         NEW k \in Nat, NEW n \in Nat, base + k + n <= First[m + 1],
         IF EventHasMore(k, n) THEN NextBuffer ELSE Return
  PROVE  /\ base' = base + Length /\ EventCut' /\ at' # "message"
         /\ at' = "buffer" => Length' \in Nat /\ First[m + 1] <= base' + Length'
<1>1. /\ m \in 1..(Len(Sizes) + 1) /\ m + 1 \in 1..(Len(Sizes) + 1)
      /\ First[m] \in Nat /\ First[m + 1] \in Nat
  BY NextStart
<1>2. /\ Placed /\ at # "idle" /\ Length \in Nat /\ base \in Nat /\ i \in Nat /\ arrived \in Nat
      /\ base + Length <= arrived
  BY <1>1, BufferFacts
<1>3. CASE Len(buffers) = 1
  <2>1. base + Length = arrived
    BY <1>2, <1>3, AtBuffer
  <2>2. ~EventHasMore(k, n)
    BY <1>3 DEF EventHasMore
  <2>3. QED
    BY <2>1, <2>2, ReturnIs
<1>4. CASE Len(buffers) = 2
  <2>1. Within(m, base + Length)
    BY <1>1, <1>2 DEF Within
  <2>2. First[m + 1] <= arrived
    BY <1>4, <2>1 DEF EventCut
  <2>3. buffers[2] \in Nat /\ base + Length + buffers[2] = arrived
    BY <1>2, <1>4, AtBuffer
  <2>4. Length + buffers[2] - k >= n
    BY <1>1, <1>2, <2>2, <2>3
  <2>5. EventHasMore(k, n)
    BY <1>4, <2>4 DEF EventHasMore
  <2>6. NextBuffer
    BY <2>5
  <2>7. QED
    BY <1>2, <1>4, <2>2, <2>6, NextBufferIs
<1>5. QED
  BY <1>2, <1>3, <1>4, AtBuffer

\* What is kept of a size and what the buffer has of it are the size.
LEMMA JoinedSize ==
  ASSUME FramingTypes, at = "buffer", PartialData = "size",
         NEW m \in 1..(Len(Sizes) + 1), Reading(m), Length >= SizeBytes - Len(Remainder)
  PROVE  /\ SizeBytes - Len(Remainder) \in Nat
         /\ base + (SizeBytes - Len(Remainder)) = First[m] + SizeBytes
         /\ Remainder \o Bytes(0, SizeBytes - Len(Remainder)) = SizeOf(m)
<1>1. /\ Length \in Nat /\ base \in Nat /\ SizeBytes \in Nat /\ First[m] \in Nat
      /\ Len(Remainder) \in Nat
  BY BufferFacts
<1>2. /\ Len(Remainder) < SizeBytes /\ base = First[m] + Len(Remainder)
      /\ Remainder = Run(First[m], Len(Remainder))
  BY DEF FramingTypes, Held, Reading
<1> DEFINE n == Len(Remainder)
           rest == SizeBytes - n
<1> HIDE DEF n
<1>3. /\ n \in Nat /\ rest \in Nat /\ 0 \in Nat /\ 0 + rest <= Length /\ n + rest = SizeBytes
      /\ base = First[m] + n /\ Remainder = Run(First[m], n)
      /\ base + 0 = base
  BY <1>1, <1>2 DEF n
<1> HIDE DEF rest
<1>4. Bytes(0, rest) = Run(base + 0, rest)
  BY <1>1, <1>3, BytesRun
<1>5. Bytes(0, rest) = Run(First[m] + n, rest)
  BY <1>3, <1>4
<1>6. Remainder \o Bytes(0, rest) = Run(First[m], n + rest)
  <2>1. First[m] \in Nat /\ n \in Nat /\ rest \in Nat
    BY <1>1, <1>3
  <2>2. Run(First[m], n) \o Run(First[m] + n, rest) = Run(First[m], n + rest)
    BY <2>1, RunsJoin
  <2>3. QED
    BY <1>3, <1>5, <2>2
<1>7. Remainder \o Bytes(0, rest) = SizeOf(m)
  BY <1>3, <1>6 DEF SizeOf
<1>8. base + rest = First[m] + SizeBytes
  <2>1. base \in Nat /\ First[m] \in Nat /\ n \in Nat /\ rest \in Nat
    BY <1>1, <1>3
  <2>2. base = First[m] + n /\ SizeBytes = n + rest
    BY <1>3
  <2>3. QED
    BY <2>1, <2>2
<1>9. QED
  BY <1>3, <1>7, <1>8 DEF rest, n

\* What is kept and all of a buffer that is not enough.
LEMMA JoinedMore ==
  ASSUME FramingTypes, at = "buffer", NEW f \in Nat, base = f + Len(Remainder),
         Remainder = Run(f, Len(Remainder)), NEW n \in Nat, n <= Length
  PROVE  /\ Remainder \o Bytes(0, n) = Run(f, Len(Remainder) + n)
         /\ Len(Remainder \o Bytes(0, n)) = Len(Remainder) + n
<1>1. Length \in Nat /\ base \in Nat /\ Len(Remainder) \in Nat /\ Placed /\ Held
  BY AtBuffer, LenProperties DEF FramingTypes, Held
<1> DEFINE r == Len(Remainder)
<1> HIDE DEF r
<1>2. r \in Nat /\ 0 \in Nat /\ 0 + n <= Length /\ base + 0 = f + r /\ Remainder = Run(f, r)
  BY <1>1 DEF r
<1>3. Bytes(0, n) = Run(base + 0, n)
  BY <1>1, <1>2, BytesRun
<1>4. Bytes(0, n) = Run(f + r, n)
  BY <1>2, <1>3
<1>5. Run(f, r) \o Run(f + r, n) = Run(f, r + n)
  BY <1>2, RunsJoin
<1>6. Remainder \o Bytes(0, n) = Run(f, r + n)
  BY <1>2, <1>4, <1>5
<1>7. Len(Remainder \o Bytes(0, n)) = r + n
  <2>1. r + n \in Nat
    BY <1>2
  <2>2. Len(Run(f, r + n)) = r + n
    BY <2>1, RunIs
  <2>3. QED
    BY <1>6, <2>2
<1>8. QED
  BY <1>6, <1>7 DEF r

\* The message whose size is read is the one that begins there.
LEMMA HereIs ==
  ASSUME FramingTypes, at = "message", NEW m \in 1..(Len(Sizes) + 1), Reading(m),
         NEW l \in Messages, Here(l)
  PROVE  m = l
<1>1. Length \in Nat /\ base \in Nat /\ i \in Nat /\ SizeBytes \in Nat \ {0} /\ Total \in Nat
      /\ base + Length <= Total
  BY BufferFacts
<1>2. base + i = First[m] /\ i + SizeBytes <= Length
  BY DEF Reading, Here
<1>3. First[m] < Total
  BY <1>1, <1>2
<1>4. m \in Messages
  BY <1>3, BeforeTotal
<1>5. Bytes(i, SizeBytes) = Run(base + i, SizeBytes)
  BY <1>1, <1>2, BytesRun
<1>6. SizeOf(m) = SizeOf(l)
  BY <1>2, <1>5 DEF Here, SizeOf
<1>7. QED
  BY <1>4, <1>6, OneSize

-----------------------------------------------------------------------------
(* The steps of the control stream *)

LEMMA ReceiveReads ==
  ASSUME FramingTypes, NEW m, UpTo(m), Receive, regular'
  PROVE  EventCut' /\ UpTo(m)'
<1>1. /\ m \in 1..(Len(Sizes) + 1)
      /\ Reading(m) /\ Skipping(m) /\ Recorded(m)
  BY DEF UpTo
<1>2. /\ at = "idle" /\ at' = "buffer" /\ base' = arrived /\ i' = 0
      /\ UNCHANGED <<PartialData, Remainder, RemainderLength, SkipMessageBytes, added, skipped>>
  BY DEF Receive
<1>3. base = arrived /\ base' = base /\ arrived \in Nat /\ Total \in Nat /\ arrived <= Total
  BY <1>2, FirstIs DEF FramingTypes, Placed
<1>4. Reading(m)'
  BY <1>1, <1>2, <1>3 DEF Reading, Run
<1>5. Skipping(m)'
  BY <1>1, <1>2, <1>3 DEF Skipping
<1>6. Recorded(m)'
  BY <1>1, <1>2, RecordedKept
<1>7. /\ PartialData \in {"none", "size", "message"} /\ First[m] \in Nat
      /\ SizeBytes \in Nat \ {0} /\ Len(Remainder) \in Nat
      /\ PartialData = "size" => Len(Remainder) < SizeBytes
      /\ PartialData = "message" => Len(Remainder) < RemainderLength
      /\ RemainderLength \in Nat
  BY <1>1, <1>3, StartOf, SizesAre, LenProperties DEF FramingTypes, Held
<1>8. PartialData # "none" => m \in Messages /\ base < First[m + 1]
  BY <1>1 DEF Reading
<1>9. m \in Messages =>
        /\ First[m + 1] \in Nat /\ Sizes[m] \in Nat /\ First[m + 1] = First[m] + SizeBytes + Sizes[m]
  BY NextStart
<1>10. PICK n \in 1..(Total - arrived) :
         ReceiveOne(n) \/ \E k \in 1..(Total - arrived - n) : ReceiveTwo(n, k)
  BY DEF Receive
<1>11. n \in Nat
  OBVIOUS
<1>12. /\ PartialData = "size" => WithinSize(m, arrived)
       /\ PartialData # "none" => First[m] < arrived
  <2>1. CASE PartialData = "size"
    <3>1. base = First[m] + Len(Remainder) /\ Len(Remainder) > 0
      BY <1>1, <2>1 DEF Reading
    <3>2. QED
      BY <1>3, <1>7, <2>1, <3>1 DEF WithinSize
  <2>2. CASE PartialData = "message"
    <3>1. base = First[m] + SizeBytes + Len(Remainder)
      BY <1>1, <2>2 DEF Reading
    <3>2. QED
      BY <1>3, <1>7, <2>2, <3>1
  <2>3. QED
    BY <1>7, <2>1, <2>2
<1>13. ASSUME ReceiveOne(n) PROVE EventCut' /\ Ahead(m)'
  <2>1. /\ buffers' = <<n>> /\ SizeIsProvidedFor(n) /\ SkipIsProvidedFor(n)
    BY <1>13 DEF ReceiveOne
  <2>2. Len(buffers') = 1 /\ Length' = n
    BY <2>1 DEF Length
  <2>3. EventCut'
    BY <2>2 DEF EventCut
  <2>4. SkipMessageBytes <= n
    BY <2>1 DEF SkipIsProvidedFor
  <2>5. PartialData = "size" =>
          First[m + 1] <= arrived + n \/ Len(Remainder) + n < SizeBytes
    <3>1. SUFFICES ASSUME PartialData = "size" PROVE First[m + 1] <= arrived + n \/ Len(Remainder) + n < SizeBytes
      OBVIOUS
    <3>2. WithinSize(m, arrived + n) \/ First[m + 1] <= arrived + n
      BY <1>8, <1>12, <2>1, <3>1 DEF SizeIsProvidedFor
    <3>3. base = First[m] + Len(Remainder)
      BY <1>1, <3>1 DEF Reading
    <3>4. CASE WithinSize(m, arrived + n)
      <4>1. arrived + n < First[m] + SizeBytes
        BY <3>4 DEF WithinSize
      <4>2. /\ arrived = First[m] + Len(Remainder)
            /\ First[m] \in Nat /\ Len(Remainder) \in Nat /\ SizeBytes \in Nat
        BY <1>3, <1>7, <3>3
      <4>3. Len(Remainder) + n < SizeBytes
        BY <1>11, <4>1, <4>2
      <4>4. QED
        BY <4>3
    <3>5. QED
      BY <3>2, <3>4
  <2>6. Ahead(m)'
    BY <1>2, <1>3, <2>2, <2>4, <2>5 DEF Ahead
  <2>7. QED
    BY <2>3, <2>6
<1>14. ASSUME NEW k \in 1..(Total - arrived - n), ReceiveTwo(n, k) PROVE EventCut' /\ Ahead(m)'
  <2>1. /\ buffers' = <<n, k>> /\ EventIsProvidedFor(n, k) /\ SkipIsProvidedFor(n)
        /\ arrived' = arrived + n + k
    BY <1>14 DEF ReceiveTwo
  <2>2. Len(buffers') = 2 /\ Length' = n
    BY <2>1 DEF Length
  <2>3. \A l \in Messages : Within(l, arrived + n) => First[l] >= arrived /\ First[l + 1] <= arrived + n + k
    BY <2>1 DEF EventIsProvidedFor
  <2>4. EventCut'
    BY <1>2, <2>1, <2>2, <2>3 DEF EventCut, Within
  <2>5. SkipMessageBytes <= n
    BY <2>1 DEF SkipIsProvidedFor
  <2>6. PartialData # "none" => First[m + 1] <= arrived + n
    <3>1. SUFFICES ASSUME PartialData # "none" PROVE First[m + 1] <= arrived + n
      OBVIOUS
    <3>2. m \in Messages /\ First[m] < arrived
      BY <1>8, <1>12, <3>1
    <3>3. ~Within(m, arrived + n)
      BY <1>3, <1>7, <2>3, <3>2
    <3>4. First[m] < arrived + n
      BY <1>3, <1>7, <1>11, <3>2
    <3>5. QED
      BY <1>3, <1>7, <1>9, <1>11, <3>2, <3>3, <3>4 DEF Within
  <2>7. Ahead(m)'
    BY <1>2, <1>3, <2>2, <2>5, <2>6 DEF Ahead
  <2>8. QED
    BY <2>4, <2>7
<1>15. EventCut' /\ Ahead(m)'
  BY <1>10, <1>13, <1>14
<1>16. QED
  BY <1>1, <1>4, <1>5, <1>6, <1>15 DEF UpTo

LEMMA BufferStartReads ==
  ASSUME FramingTypes, EventCut, NEW m, UpTo(m), BufferStart
  PROVE  EventCut' /\ UpTo(m)'
<1>1. m \in 1..(Len(Sizes) + 1) /\ Reading(m) /\ Skipping(m) /\ Ahead(m) /\ Recorded(m)
  BY DEF UpTo
<1>2. /\ at = "buffer" /\ PartialData = "none" /\ i' = SkipMessageBytes /\ SkipMessageBytes' = 0
      /\ at' = "message"
      /\ UNCHANGED <<arrived, buffers, base, PartialData, Remainder, RemainderLength, added, skipped>>
  BY DEF BufferStart
<1>3. base + SkipMessageBytes = First[m] /\ SkipMessageBytes <= Length /\ Length' = Length
  BY <1>1, <1>2 DEF Reading, Ahead, Length
<1>4. Reading(m)'
  BY <1>2, <1>3 DEF Reading
<1>5. Skipping(m)' /\ Ahead(m)'
  BY <1>2 DEF Skipping, Ahead
<1>6. Recorded(m)'
  BY <1>1, <1>2, RecordedKept
<1>7. EventCut'
  BY <1>2, <1>3 DEF EventCut, Within
<1>8. QED
  BY <1>1, <1>4, <1>5, <1>6, <1>7 DEF UpTo

LEMMA MorePartialSizeReads ==
  ASSUME FramingTypes, NEW m, UpTo(m), MorePartialSize
  PROVE  EventCut' /\ UpTo(m)'
<1>1. m \in 1..(Len(Sizes) + 1) /\ Reading(m) /\ Ahead(m) /\ Recorded(m)
  BY DEF UpTo
<1>2. /\ at = "buffer" /\ PartialData = "size" /\ Length < SizeBytes - Len(Remainder)
      /\ Remainder' = Remainder \o Bytes(0, Length) /\ SkipMessageBytes' = 0 /\ Return
      /\ UNCHANGED <<arrived, PartialData, RemainderLength, added, skipped>>
  BY DEF MorePartialSize
<1>3. /\ Length \in Nat /\ base \in Nat /\ First[m] \in Nat /\ Len(Remainder) \in Nat
      /\ SizeBytes \in Nat /\ Placed
  BY <1>1, <1>2, BufferFacts
<1>4. /\ m \in Messages /\ base = First[m] + Len(Remainder) /\ Len(Remainder) > 0
      /\ Remainder = Run(First[m], Len(Remainder))
  BY <1>1, <1>2 DEF Reading
<1>5. First[m + 1] \in Nat /\ Sizes[m] \in Nat /\ First[m + 1] = First[m] + SizeBytes + Sizes[m]
  BY <1>4, NextStart
<1>6. base + Length < First[m + 1]
  BY <1>2, <1>3, <1>4, <1>5
<1>7. base + Length = arrived
  <2>1. Len(buffers) = 1
    BY <1>1, <1>2, <1>3, <1>5, <1>6 DEF Ahead
  <2>2. QED
    BY <1>2, <1>3, <2>1, AtBuffer
<1>8. base' = base + Length /\ at' = "idle" /\ EventCut'
  BY <1>2, <1>7, ReturnIs
<1>9. Remainder' = Run(First[m], Len(Remainder) + Length) /\ Len(Remainder') = Len(Remainder) + Length
  <2>1. Length <= Length
    BY <1>3
  <2>2. QED
    BY <1>2, <1>3, <1>4, <2>1, JoinedMore
<1>10. base' = First[m] + Len(Remainder') /\ Len(Remainder') > 0 /\ base' < First[m + 1]
  BY <1>3, <1>4, <1>6, <1>8, <1>9
<1>11. Reading(m)'
  BY <1>2, <1>4, <1>8, <1>9, <1>10 DEF Reading, Run
<1>12. Skipping(m)' /\ Ahead(m)'
  BY <1>2, <1>8 DEF Skipping, Ahead
<1>13. Recorded(m)'
  BY <1>1, <1>2, RecordedKept
<1>14. QED
  BY <1>1, <1>8, <1>11, <1>12, <1>13 DEF UpTo

LEMMA MorePartialMessageReads ==
  ASSUME FramingTypes, NEW m, UpTo(m), MorePartialMessage
  PROVE  EventCut' /\ UpTo(m)'
<1>1. m \in 1..(Len(Sizes) + 1) /\ Reading(m) /\ Ahead(m) /\ Recorded(m)
  BY DEF UpTo
<1>2. /\ at = "buffer" /\ PartialData = "message" /\ Length < RemainderLength - Len(Remainder)
      /\ Remainder' = Remainder \o Bytes(0, Length) /\ SkipMessageBytes' = 0 /\ Return
      /\ UNCHANGED <<arrived, PartialData, RemainderLength, added, skipped>>
  BY DEF MorePartialMessage
<1>3. /\ Length \in Nat /\ base \in Nat /\ First[m] \in Nat /\ Len(Remainder) \in Nat
      /\ SizeBytes \in Nat /\ Placed
  BY <1>1, <1>2, BufferFacts
<1>4. /\ m \in Messages /\ base = First[m] + SizeBytes + Len(Remainder)
      /\ Remainder = Run(First[m] + SizeBytes, Len(Remainder)) /\ RemainderLength = Sizes[m]
  BY <1>1, <1>2 DEF Reading
<1>5. First[m + 1] \in Nat /\ Sizes[m] \in Nat /\ First[m + 1] = First[m] + SizeBytes + Sizes[m]
  BY <1>4, NextStart
<1>6. base + Length < First[m + 1]
  BY <1>2, <1>3, <1>4, <1>5
<1>7. base + Length = arrived
  <2>1. Len(buffers) = 1
    BY <1>1, <1>2, <1>3, <1>5, <1>6 DEF Ahead
  <2>2. QED
    BY <1>2, <1>3, <2>1, AtBuffer
<1>8. base' = base + Length /\ at' = "idle" /\ EventCut'
  BY <1>2, <1>7, ReturnIs
<1>9. /\ Remainder' = Run(First[m] + SizeBytes, Len(Remainder) + Length)
      /\ Len(Remainder') = Len(Remainder) + Length
  <2>1. Length <= Length /\ First[m] + SizeBytes \in Nat
    BY <1>3
  <2>2. QED
    BY <1>2, <1>3, <1>4, <2>1, JoinedMore
<1>10. base' = First[m] + SizeBytes + Len(Remainder') /\ base' < First[m + 1]
  <2>1. base' = base + Length /\ Len(Remainder') = Len(Remainder) + Length
    BY <1>8, <1>9
  <2>2. base + Length = First[m] + SizeBytes + (Len(Remainder) + Length)
    BY <1>3, <1>4
  <2>3. QED
    BY <1>6, <2>1, <2>2
<1>11. Reading(m)'
  BY <1>2, <1>4, <1>8, <1>9, <1>10 DEF Reading, Run
<1>12. Skipping(m)' /\ Ahead(m)'
  BY <1>2, <1>8 DEF Skipping, Ahead
<1>13. Recorded(m)'
  BY <1>1, <1>2, RecordedKept
<1>14. QED
  BY <1>1, <1>8, <1>11, <1>12, <1>13 DEF UpTo

LEMMA BufferEndReads ==
  ASSUME FramingTypes, NEW m, UpTo(m), BufferEnd
  PROVE  EventCut' /\ UpTo(m)'
<1>1. m \in 1..(Len(Sizes) + 1) /\ Reading(m) /\ Recorded(m)
  BY DEF UpTo
<1>2. /\ at = "message" /\ i >= Length /\ NextBuffer /\ arrived' = arrived
      /\ UNCHANGED <<PartialData, Remainder, RemainderLength, SkipMessageBytes, added, skipped>>
  BY DEF BufferEnd
<1>3. /\ Length \in Nat /\ base \in Nat /\ i \in Nat /\ Placed /\ PartialData = "none"
  BY <1>1, <1>2, BufferFacts DEF Held
<1>4. base + i = First[m] /\ i <= Length /\ SkipMessageBytes = 0
  BY <1>1, <1>2 DEF Reading
<1>5. base' = First[m] /\ EventCut' /\ at' # "message" /\ (at' = "buffer" => Length' \in Nat)
  <2>1. base' = base + Length /\ base + Length = First[m]
    BY <1>2, <1>3, <1>4, NextBufferIs
  <2>2. QED
    BY <1>2, <1>3, <2>1, NextBufferIs
<1>6. Reading(m)'
  <2>1. base' + SkipMessageBytes' = First[m]
    BY <1>2, <1>3, <1>4, <1>5
  <2>2. QED
    BY <1>2, <1>3, <1>5, <2>1 DEF Reading
<1>7. Skipping(m)' /\ Ahead(m)'
  BY <1>2, <1>3, <1>4, <1>5 DEF Skipping, Ahead
<1>8. Recorded(m)'
  BY <1>1, <1>2, RecordedKept
<1>9. QED
  BY <1>1, <1>5, <1>6, <1>7, <1>8 DEF UpTo

\* The message at m is dealt with, all of it being in the buffer.
LEMMA OnToNext ==
  ASSUME FramingTypes, EventCut, at # "idle", NEW m \in Messages, Recorded(m),
         UNCHANGED <<arrived, buffers, base, skipped>>,
         added' = Append(added, BodyOf(m)), at' = "message", PartialData' = "none",
         SkipMessageBytes' = 0, base + i' = First[m + 1], First[m + 1] <= base + Length, i' \in Nat
  PROVE  EventCut' /\ UpTo(m + 1)'
<1>1. /\ m \in 1..(Len(Sizes) + 1) /\ m + 1 \in 1..(Len(Sizes) + 1) /\ First[m + 1] \in Nat
  BY NextStart
<1>2. Length \in Nat /\ base \in Nat
  BY <1>1, BufferFacts
<1>3. Length' = Length
  BY DEF Length
<1>4. base' + i' = First[m + 1] /\ i' <= Length'
  BY <1>1, <1>2, <1>3
<1>5. Reading(m + 1)'
  BY <1>4 DEF Reading
<1>6. Skipping(m + 1)' /\ Ahead(m + 1)'
  BY DEF Skipping, Ahead
<1>7. Recorded(m + 1)'
  BY RecordedAdded
<1>8. EventCut'
  BY <1>3 DEF EventCut, Within
<1>9. QED
  BY <1>1, <1>5, <1>6, <1>7, <1>8 DEF UpTo

LEMMA RestOfSizeReads ==
  ASSUME FramingTypes, EventCut, NEW m, UpTo(m), RestOfSize
  PROVE  EventCut' /\ UpTo(m + 1)'
<1> DEFINE rest == SizeBytes - Len(Remainder)
<1>1. m \in 1..(Len(Sizes) + 1) /\ Reading(m) /\ Ahead(m) /\ Recorded(m)
  BY DEF UpTo
<1>2. /\ at = "buffer" /\ PartialData = "size" /\ Length >= rest
      /\ SkipMessageBytes' = 0 /\ at' = "message" /\ Remainder' = << >> /\ PartialData' = "none"
      /\ UNCHANGED <<arrived, buffers, base, RemainderLength, skipped>>
  BY DEF RestOfSize
<1>3. /\ rest \in Nat /\ base + rest = First[m] + SizeBytes
      /\ Remainder \o Bytes(0, rest) = SizeOf(m)
  BY <1>1, <1>2, JoinedSize
<1>4. m \in Messages
  BY <1>1, <1>2 DEF Reading
<1>5. PICK l \in Messages : /\ Remainder \o Bytes(0, rest) = SizeOf(l)
                            /\ added' = Append(added, Bytes(rest, Sizes[l]))
                            /\ i' = rest + Sizes[l]
  BY DEF RestOfSize
<1>6. l = m
  BY <1>3, <1>4, <1>5, OneSize
<1>7. /\ Length \in Nat /\ base \in Nat /\ First[m] \in Nat /\ Len(Remainder) \in Nat
      /\ SizeBytes \in Nat
  BY <1>1, <1>2, BufferFacts
<1>8. First[m + 1] \in Nat /\ Sizes[m] \in Nat /\ First[m + 1] = First[m] + SizeBytes + Sizes[m]
  BY <1>4, NextStart
<1>9. First[m + 1] <= base + Length
  <2>1. ~(Len(Remainder) + Length < SizeBytes)
    BY <1>2, <1>7
  <2>2. QED
    BY <1>1, <1>2, <2>1 DEF Ahead
<1> HIDE DEF rest
<1>10. rest + Sizes[m] <= Length /\ i' = rest + Sizes[m] /\ i' \in Nat /\ base + i' = First[m + 1]
  <2>1. i' = rest + Sizes[m]
    BY <1>5, <1>6
  <2>2. rest \in Nat /\ base \in Nat /\ Length \in Nat /\ Sizes[m] \in Nat
    BY <1>3, <1>7, <1>8
  <2>3. base + (rest + Sizes[m]) = First[m + 1]
    BY <1>3, <1>7, <1>8, <2>2
  <2>4. rest + Sizes[m] <= Length
    BY <1>9, <2>2, <2>3
  <2>5. QED
    BY <2>1, <2>2, <2>3, <2>4
<1>11. Bytes(rest, Sizes[m]) = BodyOf(m)
  <2>1. Bytes(rest, Sizes[m]) = Run(base + rest, Sizes[m])
    BY <1>3, <1>7, <1>8, <1>10, BytesRun
  <2>2. QED
    BY <1>3, <2>1 DEF BodyOf
<1>12. added' = Append(added, BodyOf(m))
  BY <1>5, <1>6, <1>11
<1>13. at # "idle"
  BY <1>2
<1>14. QED
  BY <1>1, <1>2, <1>4, <1>9, <1>10, <1>12, <1>13, OnToNext

LEMMA RestOfMessageReads ==
  ASSUME FramingTypes, EventCut, NEW m, UpTo(m), RestOfMessage
  PROVE  EventCut' /\ UpTo(m + 1)'
<1> DEFINE rest == RemainderLength - Len(Remainder)
<1>1. m \in 1..(Len(Sizes) + 1) /\ Reading(m) /\ Recorded(m)
  BY DEF UpTo
<1>2. /\ at = "buffer" /\ PartialData = "message" /\ Length >= rest
      /\ SkipMessageBytes' = 0 /\ at' = "message" /\ PartialData' = "none"
      /\ added' = Append(added, Remainder \o Bytes(0, rest)) /\ i' = rest
      /\ UNCHANGED <<arrived, buffers, base, skipped>>
  BY DEF RestOfMessage
<1>3. /\ m \in Messages /\ base = First[m] + SizeBytes + Len(Remainder)
      /\ Remainder = Run(First[m] + SizeBytes, Len(Remainder)) /\ RemainderLength = Sizes[m]
  BY <1>1, <1>2 DEF Reading
<1>4. /\ Length \in Nat /\ base \in Nat /\ First[m] \in Nat /\ Len(Remainder) \in Nat
      /\ SizeBytes \in Nat /\ Len(Remainder) < RemainderLength
  BY <1>1, <1>2, BufferFacts DEF Held
<1>5. First[m + 1] \in Nat /\ Sizes[m] \in Nat /\ First[m + 1] = First[m] + SizeBytes + Sizes[m]
  BY <1>3, NextStart
<1>6. rest \in Nat /\ Len(Remainder) + rest = Sizes[m] /\ rest <= Length
  <2>1. RemainderLength = Sizes[m] /\ Length >= rest
    BY <1>2, <1>3
  <2>2. QED
    BY <1>4, <1>5, <2>1
<1> HIDE DEF rest
<1>7. Remainder \o Bytes(0, rest) = BodyOf(m)
  <2>1. First[m] + SizeBytes \in Nat
    BY <1>4
  <2>2. Remainder \o Bytes(0, rest) = Run(First[m] + SizeBytes, Len(Remainder) + rest)
    BY <1>2, <1>3, <1>6, <2>1, JoinedMore
  <2>3. QED
    BY <1>6, <2>2 DEF BodyOf
<1>8. i' \in Nat /\ base + i' = First[m + 1] /\ First[m + 1] <= base + Length
  <2>1. i' = rest /\ base = First[m] + SizeBytes + Len(Remainder)
    BY <1>2, <1>3
  <2>2. QED
    BY <1>4, <1>5, <1>6, <2>1
<1>9. at # "idle" /\ added' = Append(added, BodyOf(m))
  BY <1>2, <1>7
<1>10. QED
  BY <1>1, <1>2, <1>3, <1>8, <1>9, OnToNext

LEMMA PartialSizeReads ==
  ASSUME FramingTypes, EventCut, NEW m, UpTo(m), PartialSize
  PROVE  EventCut' /\ UpTo(m)'
<1>1. m \in 1..(Len(Sizes) + 1) /\ Reading(m) /\ Recorded(m)
  BY DEF UpTo
<1>2. /\ at = "message" /\ i < Length /\ Length - i < SizeBytes
      /\ Remainder' = Bytes(i, Length - i) /\ PartialData' = "size"
      /\ IF EventHasMore(i, SizeBytes) THEN NextBuffer ELSE Return
      /\ UNCHANGED <<arrived, RemainderLength, SkipMessageBytes, added, skipped>>
  BY DEF PartialSize
<1>3. /\ Length \in Nat /\ base \in Nat /\ i \in Nat /\ First[m] \in Nat /\ SizeBytes \in Nat
      /\ Total \in Nat /\ base + Length <= Total /\ Placed
  BY <1>1, <1>2, BufferFacts
<1>4. base + i = First[m] /\ SkipMessageBytes = 0
  BY <1>1, <1>2 DEF Reading
<1>5. m \in Messages
  <2>1. First[m] < Total
    BY <1>2, <1>3, <1>4
  <2>2. QED
    BY <1>1, <2>1, BeforeTotal
<1>6. First[m + 1] \in Nat /\ Sizes[m] \in Nat /\ First[m + 1] = First[m] + SizeBytes + Sizes[m]
  BY <1>5, NextStart
<1>7. base + Length < First[m + 1] /\ base + i + SizeBytes <= First[m + 1]
  BY <1>2, <1>3, <1>4, <1>6
<1>8. /\ base' = base + Length /\ EventCut' /\ at' # "message"
      /\ at' = "buffer" => Length' \in Nat /\ First[m + 1] <= base' + Length'
  BY <1>2, <1>3, <1>4, <1>5, <1>7, CutIs
<1>9. /\ Remainder' = Run(First[m], Length - i) /\ Len(Remainder') = Length - i
      /\ Length - i \in Nat
  <2>1. Length - i \in Nat /\ i + (Length - i) <= Length
    BY <1>2, <1>3
  <2>2. Bytes(i, Length - i) = Run(base + i, Length - i)
    BY <1>3, <2>1, BytesRun
  <2>3. Len(Bytes(i, Length - i)) = Length - i
    BY <1>2, <1>3, <2>1, BytesTyped
  <2>4. QED
    BY <1>2, <1>4, <2>1, <2>2, <2>3
<1>10. base' = First[m] + Len(Remainder') /\ Len(Remainder') > 0 /\ base' < First[m + 1]
  BY <1>2, <1>3, <1>4, <1>7, <1>8, <1>9
<1>11. Reading(m)'
  BY <1>2, <1>4, <1>5, <1>8, <1>9, <1>10 DEF Reading, Run
<1>12. Skipping(m)'
  BY <1>2, <1>4 DEF Skipping
<1>13. Ahead(m)'
  BY <1>2, <1>8 DEF Ahead
<1>14. Recorded(m)'
  BY <1>1, <1>2, RecordedKept
<1>15. QED
  BY <1>1, <1>8, <1>11, <1>12, <1>13, <1>14 DEF UpTo

\* A message whose size is in the buffer: m, and how far the buffer goes.
LEMMA MessageHere ==
  ASSUME FramingTypes, NEW m, UpTo(m), NEW l \in Messages, at = "message", Here(l)
  PROVE  /\ l = m /\ m \in Messages /\ m \in 1..(Len(Sizes) + 1) /\ Reading(m) /\ Recorded(m)
         /\ base + i = First[m] /\ SkipMessageBytes = 0 /\ PartialData = "none"
         /\ First[m] \in Nat /\ First[m + 1] \in Nat /\ Sizes[m] \in Nat /\ SizeBytes \in Nat \ {0}
         /\ First[m + 1] = First[m] + SizeBytes + Sizes[m]
         /\ Length \in Nat /\ base \in Nat /\ i \in Nat /\ i + SizeBytes \in Nat
         /\ BodyHere \in Nat /\ (i + SizeBytes) + BodyHere = Length
         /\ base + (i + SizeBytes) = First[m] + SizeBytes
<1>1. m \in 1..(Len(Sizes) + 1) /\ Reading(m) /\ Recorded(m)
  BY DEF UpTo
<1>2. m = l
  BY <1>1, HereIs
<1>3. base + i = First[m] /\ SkipMessageBytes = 0 /\ PartialData = "none"
  BY <1>1 DEF Reading, FramingTypes, Held
<1>4. /\ First[m] \in Nat /\ First[m + 1] \in Nat /\ Sizes[m] \in Nat
      /\ First[m + 1] = First[m] + SizeBytes + Sizes[m]
  BY <1>2, NextStart
<1>5. Length \in Nat /\ base \in Nat /\ i \in Nat /\ SizeBytes \in Nat \ {0}
  BY <1>1, BufferFacts
<1>6. i + SizeBytes <= Length
  BY DEF Here
<1>7. /\ i + SizeBytes \in Nat /\ BodyHere \in Nat /\ (i + SizeBytes) + BodyHere = Length
      /\ base + (i + SizeBytes) = First[m] + SizeBytes
  BY <1>3, <1>4, <1>5, <1>6 DEF BodyHere
<1>8. QED
  BY <1>1, <1>2, <1>3, <1>4, <1>5, <1>7

LEMMA PartialMessageReads ==
  ASSUME FramingTypes, EventCut, NEW m, UpTo(m), NEW l \in Messages, PartialMessage(l)
  PROVE  EventCut' /\ UpTo(m)'
<1>1. at = "message" /\ Here(l) /\ BodyHere < Sizes[l]
  BY DEF PartialMessage
<1>2. /\ l = m /\ m \in Messages /\ m \in 1..(Len(Sizes) + 1) /\ Recorded(m)
      /\ base + i = First[m] /\ SkipMessageBytes = 0
      /\ First[m] \in Nat /\ First[m + 1] \in Nat /\ Sizes[m] \in Nat /\ SizeBytes \in Nat \ {0}
      /\ First[m + 1] = First[m] + SizeBytes + Sizes[m]
      /\ Length \in Nat /\ base \in Nat /\ i \in Nat /\ i + SizeBytes \in Nat
      /\ BodyHere \in Nat /\ (i + SizeBytes) + BodyHere = Length
      /\ base + (i + SizeBytes) = First[m] + SizeBytes
  BY <1>1, MessageHere
<1>3. /\ Remainder' = Bytes(i + SizeBytes, BodyHere)
      /\ RemainderLength' = Sizes[m] /\ PartialData' = "message"
      /\ IF EventHasMore(i + SizeBytes, Sizes[m]) THEN NextBuffer ELSE Return
      /\ UNCHANGED <<arrived, SkipMessageBytes, added, skipped>>
  BY <1>2 DEF PartialMessage
<1>4. /\ i < Length /\ base + Length < First[m + 1]
      /\ base + (i + SizeBytes) + Sizes[m] <= First[m + 1]
  BY <1>1, <1>2
<1>5. /\ base' = base + Length /\ EventCut' /\ at' # "message"
      /\ at' = "buffer" => Length' \in Nat /\ First[m + 1] <= base' + Length'
  BY <1>1, <1>2, <1>3, <1>4, CutIs
<1>6. Remainder' = Run(First[m] + SizeBytes, BodyHere) /\ Len(Remainder') = BodyHere
  <2>1. Bytes(i + SizeBytes, BodyHere) = Run(base + (i + SizeBytes), BodyHere)
    BY <1>2, BytesRun
  <2>2. Placed /\ at # "idle"
    BY <1>1 DEF FramingTypes
  <2>3. Len(Bytes(i + SizeBytes, BodyHere)) = BodyHere
    BY <1>2, <2>2, BytesTyped
  <2>4. QED
    BY <1>2, <1>3, <2>1, <2>3
<1>7. base' = First[m] + SizeBytes + Len(Remainder') /\ base' < First[m + 1]
  BY <1>2, <1>4, <1>5, <1>6
<1>8. Reading(m)'
  BY <1>2, <1>3, <1>5, <1>6, <1>7 DEF Reading, Run
<1>9. Skipping(m)'
  BY <1>2, <1>3 DEF Skipping
<1>10. Ahead(m)'
  BY <1>3, <1>5 DEF Ahead
<1>11. Recorded(m)'
  BY <1>2, <1>3, RecordedKept
<1>12. QED
  BY <1>2, <1>5, <1>8, <1>9, <1>10, <1>11 DEF UpTo

LEMMA SkippedReads ==
  ASSUME FramingTypes, EventCut, NEW m, UpTo(m), NEW l \in Messages, PartialMessageSkipped(l)
  PROVE  EventCut' /\ UpTo(m + 1)'
<1>1. at = "message" /\ Here(l) /\ BodyHere < Sizes[l]
  BY DEF PartialMessageSkipped
<1>2. /\ l = m /\ m \in Messages /\ m \in 1..(Len(Sizes) + 1) /\ Recorded(m)
      /\ base + i = First[m] /\ PartialData = "none"
      /\ First[m] \in Nat /\ First[m + 1] \in Nat /\ Sizes[m] \in Nat /\ SizeBytes \in Nat \ {0}
      /\ First[m + 1] = First[m] + SizeBytes + Sizes[m]
      /\ Length \in Nat /\ base \in Nat /\ i \in Nat /\ i + SizeBytes \in Nat
      /\ BodyHere \in Nat /\ (i + SizeBytes) + BodyHere = Length
      /\ base + (i + SizeBytes) = First[m] + SizeBytes
  BY <1>1, MessageHere
<1>3. /\ SkipMessageBytes' = Sizes[m] - BodyHere /\ skipped' = skipped \cup {m}
      /\ IF EventHasMore(i + SizeBytes, Sizes[m]) THEN NextBuffer ELSE Return
      /\ UNCHANGED <<arrived, PartialData, added>>
  BY <1>2 DEF PartialMessageSkipped
<1>4. /\ i < Length /\ base + Length < First[m + 1]
      /\ base + (i + SizeBytes) + Sizes[m] <= First[m + 1]
  BY <1>1, <1>2
<1>5. /\ base' = base + Length /\ EventCut' /\ at' # "message"
      /\ at' = "buffer" => Length' \in Nat /\ First[m + 1] <= base' + Length'
  BY <1>1, <1>2, <1>3, <1>4, CutIs
<1>6. base' + SkipMessageBytes' = First[m + 1]
  <2>1. base' = base + Length /\ SkipMessageBytes' = Sizes[m] - BodyHere
    BY <1>3, <1>5
  <2>2. /\ base \in Nat /\ i \in Nat /\ SizeBytes \in Nat /\ Sizes[m] \in Nat /\ BodyHere \in Nat
        /\ First[m] \in Nat /\ Length \in Nat
        /\ base + i = First[m] /\ First[m + 1] = First[m] + SizeBytes + Sizes[m]
        /\ (i + SizeBytes) + BodyHere = Length
    BY <1>2
  <2>3. QED
    BY <2>1, <2>2
<1>7. Reading(m + 1)'
  BY <1>2, <1>3, <1>5, <1>6 DEF Reading
<1>8. m + 1 \in 1..(Len(Sizes) + 1) /\ (m + 1) - 1 = m
  BY <1>2, NextStart, SizesAre
<1>9. First[m] <= base'
  BY <1>2, <1>4, <1>5
<1>10. Skipping(m + 1)'
  BY <1>3, <1>8, <1>9 DEF Skipping
<1>11. Ahead(m + 1)'
  <2>1. SUFFICES ASSUME at' = "buffer" PROVE SkipMessageBytes' <= Length'
    BY <1>2, <1>3 DEF Ahead
  <2>2. Length' \in Nat /\ First[m + 1] <= base' + Length'
    BY <1>5, <2>1
  <2>3. base' \in Nat /\ SkipMessageBytes' \in Int
    BY <1>2, <1>3, <1>5
  <2>4. QED
    BY <1>2, <1>6, <2>2, <2>3
<1>12. Recorded(m + 1)'
  BY <1>2, <1>3, RecordedSkipped
<1>13. QED
  BY <1>5, <1>7, <1>8, <1>10, <1>11, <1>12 DEF UpTo

LEMMA WholeMessageReads ==
  ASSUME FramingTypes, EventCut, NEW m, UpTo(m), NEW l \in Messages, WholeMessage(l)
  PROVE  EventCut' /\ UpTo(m + 1)'
<1>1. at = "message" /\ Here(l) /\ BodyHere >= Sizes[l] /\ at # "idle"
  BY DEF WholeMessage
<1>2. /\ l = m /\ m \in Messages /\ m \in 1..(Len(Sizes) + 1) /\ Recorded(m)
      /\ base + i = First[m] /\ PartialData = "none" /\ SkipMessageBytes = 0
      /\ First[m] \in Nat /\ First[m + 1] \in Nat /\ Sizes[m] \in Nat /\ SizeBytes \in Nat \ {0}
      /\ First[m + 1] = First[m] + SizeBytes + Sizes[m]
      /\ Length \in Nat /\ base \in Nat /\ i \in Nat /\ i + SizeBytes \in Nat
      /\ BodyHere \in Nat /\ (i + SizeBytes) + BodyHere = Length
      /\ base + (i + SizeBytes) = First[m] + SizeBytes
  BY <1>1, MessageHere
<1>3. /\ added' = Append(added, Bytes(i + SizeBytes, Sizes[m])) /\ i' = i + SizeBytes + Sizes[m]
      /\ UNCHANGED <<arrived, buffers, base, at, PartialData, SkipMessageBytes, skipped>>
  BY <1>2 DEF WholeMessage
<1>4. /\ i' \in Nat /\ base + i' = First[m + 1] /\ First[m + 1] <= base + Length
      /\ (i + SizeBytes) + Sizes[m] <= Length
  <2>1. i' = i + SizeBytes + Sizes[m] /\ BodyHere >= Sizes[m]
    BY <1>1, <1>2, <1>3
  <2>2. /\ base \in Nat /\ i \in Nat /\ SizeBytes \in Nat /\ Sizes[m] \in Nat /\ BodyHere \in Nat
        /\ First[m] \in Nat /\ Length \in Nat
        /\ base + i = First[m] /\ First[m + 1] = First[m] + SizeBytes + Sizes[m]
        /\ (i + SizeBytes) + BodyHere = Length
    BY <1>2
  <2>3. QED
    BY <2>1, <2>2
<1>5. Bytes(i + SizeBytes, Sizes[m]) = BodyOf(m)
  <2>1. Bytes(i + SizeBytes, Sizes[m]) = Run(base + (i + SizeBytes), Sizes[m])
    BY <1>2, <1>4, BytesRun
  <2>2. QED
    BY <1>2, <2>1 DEF BodyOf
<1>6. added' = Append(added, BodyOf(m))
  BY <1>3, <1>5
<1>7. at' = "message" /\ PartialData' = "none" /\ SkipMessageBytes' = 0
  BY <1>1, <1>2, <1>3
<1>8. QED
  BY <1>1, <1>2, <1>3, <1>4, <1>6, <1>7, OnToNext

LEMMA FramingInit ==
  ASSUME Init, regular
  PROVE  Following
<1>1. regular = (SkipMessageBytes = 0)
  BY DEF Init
<1>2. /\ arrived = 0 /\ buffers = << >> /\ base = 0 /\ at = "idle" /\ PartialData = "none"
      /\ SkipMessageBytes = 0 /\ added = << >> /\ skipped = {}
  BY <1>1 DEF Init
<1>3. Len(buffers) = 0 /\ Len(added) = 0 /\ DOMAIN added = {}
  BY <1>2
<1>4. EventCut
  BY <1>3 DEF EventCut
<1>5. 1 \in 1..(Len(Sizes) + 1) /\ First[1] = 0
  BY SizesAre, FirstIs
<1>6. Reading(1)
  BY <1>2, <1>5 DEF Reading
<1>7. Skipping(1) /\ Ahead(1)
  BY <1>2 DEF Skipping, Ahead
<1>8. Recorded(1)
  <2>1. Unskipped(1) = {}
    BY DEF Unskipped
  <2>2. Cardinality(Unskipped(1)) = 0
    BY <2>1, FS_EmptySet
  <2>3. QED
    BY <1>2, <1>3, <2>2 DEF Recorded
<1>9. UpTo(1)
  BY <1>5, <1>6, <1>7, <1>8 DEF UpTo
<1>10. QED
  BY <1>4, <1>5, <1>9 DEF Following

\* A receive the callback does not provide for is not made good by another.
LEMMA RegularBefore ==
  ASSUME [Next]_vars, regular'
  PROVE  regular
<1>1. ASSUME Receive PROVE regular
  BY <1>1 DEF Receive, ReceiveOne, ReceiveTwo
<1>2. ASSUME BufferStart \/ MorePartialSize \/ RestOfSize \/ MorePartialMessage \/ RestOfMessage
      PROVE  regular
  BY <1>2 DEF BufferStart, MorePartialSize, RestOfSize, MorePartialMessage, RestOfMessage
<1>3. ASSUME BufferEnd \/ PartialSize PROVE regular
  BY <1>3 DEF BufferEnd, PartialSize
<1>4. ASSUME NEW m \in Messages, Message(m) PROVE regular
  BY <1>4 DEF Message, PartialMessage, PartialMessageSkipped, WholeMessage
<1>5. ASSUME Done \/ UNCHANGED vars PROVE regular
  BY <1>5 DEF Done, vars
<1>6. QED
  BY <1>1, <1>2, <1>3, <1>4, <1>5 DEF Next

LEMMA FramingStep ==
  ASSUME FramingTypes, Following, [Next]_vars, regular'
  PROVE  Following'
<1>1. FramingTypes /\ EventCut
  BY DEF Following
<1>2. PICK m \in 1..(Len(Sizes) + 1) : UpTo(m)
  BY DEF Following
<1> DEFINE Goal == EventCut' /\ \E l : UpTo(l)'
<1>3. ASSUME Receive PROVE Goal
  BY <1>1, <1>2, <1>3, ReceiveReads
<1>4. ASSUME BufferStart PROVE Goal
  BY <1>1, <1>2, <1>4, BufferStartReads
<1>5. ASSUME MorePartialSize PROVE Goal
  BY <1>1, <1>2, <1>5, MorePartialSizeReads
<1>6. ASSUME RestOfSize PROVE Goal
  BY <1>1, <1>2, <1>6, RestOfSizeReads
<1>7. ASSUME MorePartialMessage PROVE Goal
  BY <1>1, <1>2, <1>7, MorePartialMessageReads
<1>8. ASSUME RestOfMessage PROVE Goal
  BY <1>1, <1>2, <1>8, RestOfMessageReads
<1>9. ASSUME BufferEnd PROVE Goal
  BY <1>1, <1>2, <1>9, BufferEndReads
<1>10. ASSUME PartialSize PROVE Goal
  BY <1>1, <1>2, <1>10, PartialSizeReads
<1>11. ASSUME NEW l \in Messages, Message(l) PROVE Goal
  <2>1. ASSUME PartialMessage(l) PROVE Goal
    BY <1>1, <1>2, <2>1, PartialMessageReads
  <2>2. ASSUME PartialMessageSkipped(l) PROVE Goal
    BY <1>1, <1>2, <2>2, SkippedReads
  <2>3. ASSUME WholeMessage(l) PROVE Goal
    BY <1>1, <1>2, <2>3, WholeMessageReads
  <2> HIDE DEF Goal
  <2>4. QED
    BY <1>11, <2>1, <2>2, <2>3 DEF Message
<1>12. ASSUME Done \/ UNCHANGED vars PROVE Goal
  <2>1. UNCHANGED vars
    BY <1>12 DEF Done
  <2>2. /\ arrived' = arrived /\ buffers' = buffers /\ base' = base /\ i' = i /\ at' = at
        /\ PartialData' = PartialData /\ Remainder' = Remainder
        /\ RemainderLength' = RemainderLength /\ SkipMessageBytes' = SkipMessageBytes
        /\ added' = added /\ skipped' = skipped /\ Length' = Length
    BY <2>1 DEF vars, Length
  <2>3. m \in 1..(Len(Sizes) + 1) /\ Reading(m) /\ Skipping(m) /\ Ahead(m) /\ Recorded(m)
    BY <1>2 DEF UpTo
  <2>4. Reading(m)'
    BY <2>2, <2>3 DEF Reading, Run
  <2>5. Skipping(m)' /\ Ahead(m)'
    BY <2>2, <2>3 DEF Skipping, Ahead
  <2>6. Recorded(m)'
    BY <2>2, <2>3, RecordedKept
  <2>7. EventCut'
    BY <1>1, <2>2 DEF EventCut, Within
  <2>8. UpTo(m)'
    BY <2>3, <2>4, <2>5, <2>6 DEF UpTo
  <2>9. QED
    BY <2>7, <2>8
<1>13. Goal
  <2> HIDE DEF Goal
  <2> QED
    BY <1>3, <1>4, <1>5, <1>6, <1>7, <1>8, <1>9, <1>10, <1>11, <1>12 DEF Next
<1>14. PICK l : UpTo(l)'
  BY <1>13
<1>15. l \in 1..(Len(Sizes) + 1)
  BY <1>14 DEF UpTo
<1>16. QED
  BY <1>13, <1>14, <1>15 DEF Following

-----------------------------------------------------------------------------
(* What the invariant says of the messages *)

LEMMA SkipIsNat ==
  ASSUME FramingTypes
  PROVE  SkipMessageBytes \in Nat
<1>1. SkipMessageBytes \in Unset \/ SkipMessageBytes \in 0..Total
  BY DEF FramingTypes
<1>2. CASE SkipMessageBytes \in Unset
  BY <1>2, ControlFramingAssumption, Zenon
<1>3. CASE SkipMessageBytes \in 0..Total
  BY <1>3, FirstIs
<1>4. QED
  BY <1>1, <1>2, <1>3

\* A message before m that is not skipped is all there.
LEMMA BeforeArrived ==
  ASSUME FramingTypes, NEW m, UpTo(m), NEW l \in Unskipped(m)
  PROVE  l \in Messages /\ First[l + 1] <= arrived
<1>1. /\ m \in 1..(Len(Sizes) + 1) /\ Reading(m) /\ Skipping(m) /\ Recorded(m)
      /\ l \in 1..(m - 1) /\ l \notin skipped
  BY DEF UpTo, Unskipped
<1>2. /\ Len(Sizes) \in Nat /\ SizeBytes \in Nat \ {0} /\ First[m] \in Nat /\ Messages = 1..Len(Sizes)
      /\ m \in Nat /\ l \in Nat
  BY <1>1, SizesAre, StartOf
<1>3. l \in Messages /\ l + 1 \in 1..(Len(Sizes) + 1) /\ l + 1 <= m
  BY <1>1, <1>2
<1>4. First[l + 1] \in Nat /\ First[l + 1] <= First[m]
  BY <1>1, <1>3, StartOf, StartsRise
<1>5. base \in Nat /\ arrived \in Nat /\ base <= arrived
  <2>1. CASE at = "idle"
    BY <2>1, FirstIs DEF FramingTypes, Placed
  <2>2. CASE at # "idle"
    BY <1>1, <2>2, BufferFacts
  <2>3. QED
    BY <2>1, <2>2
<1>6. SkipMessageBytes \in Nat
  BY SkipIsNat
<1>7. CASE SkipMessageBytes > 0
  <2>1. m - 1 \in skipped /\ First[m - 1] <= base
    BY <1>1, <1>7 DEF Skipping
  <2>2. l # m - 1
    BY <1>1, <2>1
  <2>3. m - 1 \in 1..(Len(Sizes) + 1) /\ l + 1 <= m - 1
    BY <1>1, <1>2, <2>2
  <2>4. First[m - 1] \in Nat /\ First[l + 1] <= First[m - 1]
    BY <1>3, <2>3, StartOf, StartsRise
  <2>5. QED
    BY <1>3, <1>4, <1>5, <2>1, <2>4
<1>8. CASE SkipMessageBytes = 0
  <2>1. First[m] <= arrived
    <3>1. CASE at = "message"
      <4>1. base + i = First[m] /\ i <= Length
        BY <1>1, <3>1 DEF Reading
      <4>2. Length \in Nat /\ i \in Nat /\ base + Length <= arrived
        BY <1>1, <3>1, BufferFacts
      <4>3. QED
        BY <1>5, <4>1, <4>2
    <3>2. CASE at # "message" /\ PartialData = "none"
      <4>1. base + 0 = First[m]
        BY <1>1, <1>8, <3>2 DEF Reading
      <4>2. QED
        BY <1>5, <4>1
    <3>3. CASE PartialData # "none"
      <4>1. Len(Remainder) \in Nat /\ PartialData \in {"size", "message"}
        BY <3>3, LenProperties DEF FramingTypes, Held
      <4>2. base = First[m] + Len(Remainder) \/ base = First[m] + SizeBytes + Len(Remainder)
        BY <1>1, <4>1 DEF Reading
      <4>3. QED
        BY <1>2, <1>5, <4>1, <4>2
    <3>4. QED
      BY <3>1, <3>2, <3>3
  <2>2. QED
    BY <1>2, <1>3, <1>4, <1>5, <2>1
<1>9. QED
  BY <1>6, <1>7, <1>8

LEMMA DueIs ==
  ASSUME FramingTypes, NEW m, UpTo(m), NEW l \in Unskipped(m)
  PROVE  l \in Due(arrived) /\ Rank(l, arrived) = Cardinality(Unskipped(l + 1))
<1>1. l \in Messages /\ First[l + 1] <= arrived /\ l \notin skipped /\ l \in 1..(m - 1)
  BY BeforeArrived DEF Unskipped
<1>2. l \in Due(arrived)
  BY <1>1 DEF Due
<1>3. ASSUME NEW j \in 1..l, j \notin skipped PROVE j \in Due(arrived)
  <2>1. j \in Unskipped(m)
    BY <1>1, <1>3, SizesAre DEF Unskipped, UpTo
  <2>2. QED
    BY <1>3, <2>1, BeforeArrived DEF Due
<1>4. {j \in Due(arrived) : j <= l} = Unskipped(l + 1)
  <2>1. l \in Nat /\ (l + 1) - 1 = l /\ Messages = 1..Len(Sizes) /\ Len(Sizes) \in Nat
    BY <1>1, SizesAre
  <2>2. \A j \in Due(arrived) : j \in 1..Len(Sizes) /\ j \notin skipped
    BY <2>1 DEF Due
  <2>3. QED
    BY <1>3, <2>1, <2>2 DEF Unskipped
<1>5. QED
  BY <1>2, <1>4 DEF Rank

LEMMA IdleDue ==
  ASSUME FramingTypes, NEW m, UpTo(m), at = "idle"
  PROVE  Due(arrived) = Unskipped(m)
<1>1. m \in 1..(Len(Sizes) + 1) /\ Reading(m) /\ base = arrived /\ arrived \in Nat
  BY FirstIs DEF UpTo, FramingTypes, Placed
<1>2. Len(Sizes) \in Nat /\ Messages = 1..Len(Sizes) /\ SkipMessageBytes \in Nat /\ SizeBytes \in Nat \ {0}
  BY SizesAre, SkipIsNat
<1>3. ASSUME NEW l \in Due(arrived) PROVE l \in Unskipped(m)
  <2>1. l \in Messages /\ l \notin skipped /\ First[l + 1] <= arrived
    BY DEF Due
  <2>2. /\ l \in 1..Len(Sizes) /\ l + 1 \in 1..(Len(Sizes) + 1) /\ First[l + 1] \in Nat
    BY <2>1, NextStart
  <2>3. ASSUME m <= l PROVE FALSE
    <3>1. m \in Messages /\ m + 1 \in 1..(Len(Sizes) + 1) /\ m + 1 <= l + 1
      BY <1>1, <1>2, <2>2, <2>3
    <3>2. First[m + 1] \in Nat /\ First[m + 1] <= First[l + 1]
      BY <2>2, <3>1, StartOf, StartsRise
    <3>3. First[m] \in Nat /\ First[m] + SizeBytes <= First[m + 1]
      BY <1>2, <3>1, NextStart
    <3>4. base < First[m + 1]
      <4>1. CASE PartialData = "none"
        <5>1. base + SkipMessageBytes = First[m]
          BY <1>1, <4>1 DEF Reading
        <5>2. QED
          BY <1>1, <1>2, <3>2, <3>3, <5>1
      <4>2. CASE PartialData # "none"
        BY <1>1, <4>2 DEF Reading
      <4>3. QED
        BY <4>1, <4>2
    <3>5. QED
      BY <1>1, <2>1, <2>2, <3>2, <3>4
  <2>4. l \in 1..(m - 1)
    BY <1>1, <1>2, <2>2, <2>3
  <2>5. QED
    BY <2>1, <2>4 DEF Unskipped
<1>4. QED
  BY <1>3, DueIs

LEMMA NotMisframed ==
  ASSUME FramingTypes, NEW m, UpTo(m)
  PROVE  ~Misframed
<1>1. m \in 1..(Len(Sizes) + 1) /\ Reading(m)
  BY DEF UpTo
<1>2. ASSUME at = "message", i + SizeBytes <= Length PROVE m \in Messages /\ Here(m)
  <2>1. /\ Length \in Nat /\ base \in Nat /\ i \in Nat /\ SizeBytes \in Nat \ {0} /\ Total \in Nat
        /\ First[m] \in Nat /\ base + Length <= Total
    BY <1>1, <1>2, BufferFacts
  <2>2. base + i = First[m]
    BY <1>1, <1>2 DEF Reading
  <2>3. First[m] < Total
    BY <1>2, <2>1, <2>2
  <2>4. Bytes(i, SizeBytes) = Run(base + i, SizeBytes)
    BY <1>2, <2>1, BytesRun
  <2>5. QED
    BY <1>1, <1>2, <2>2, <2>3, <2>4, BeforeTotal DEF Here, SizeOf
<1>3. ASSUME at = "buffer", PartialData = "size", Length >= SizeBytes - Len(Remainder)
      PROVE  m \in Messages /\ Remainder \o Bytes(0, SizeBytes - Len(Remainder)) = SizeOf(m)
  <2>1. m \in Messages
    BY <1>1, <1>3 DEF Reading
  <2>2. QED
    BY <1>1, <1>3, <2>1, JoinedSize
<1>4. QED
  BY <1>2, <1>3 DEF Misframed

LEMMA FollowingIsFramed ==
  ASSUME FramingTypes, Following
  PROVE  Framed
<1>1. FramingTypes
  OBVIOUS
<1>2. PICK m \in 1..(Len(Sizes) + 1) : UpTo(m)
  BY DEF Following
<1>3. ASSUME NEW k \in DOMAIN added
      PROVE  \E l \in Due(arrived) : Rank(l, arrived) = k /\ added[k] = BodyOf(l)
  <2>1. PICK l \in Unskipped(m) : Cardinality(Unskipped(l + 1)) = k /\ added[k] = BodyOf(l)
    BY <1>2 DEF UpTo, Recorded
  <2>2. QED
    BY <1>1, <1>2, <2>1, DueIs
<1>4. at = "idle" => Len(added) = Cardinality(Due(arrived))
  BY <1>1, <1>2, IdleDue DEF UpTo, Recorded
<1>5. QED
  BY <1>1, <1>2, <1>3, <1>4, NotMisframed DEF Framed

(* AddFileToList is given the messages the client sent, whole, in their     *)
(* order and each as soon as it has arrived, those without memory left out, *)
(* and nothing else is ever taken for a size: for any number of messages of *)
(* any sizes, buffers that end anywhere, events of one buffer or two,       *)
(* whatever memory there is and whatever SkipMessageBytes starts from, up to*)
(* the first receive the callback does not provide for, after which it may  *)
(* have lost its place in the stream.                                       *)
THEOREM FramingCorrect == Spec => []FramedWhileRegular
<1>1. Init => FramingInv
  BY FramingTypesInit, FramingInit DEF FramingInv
<1>2. FramingInv /\ [Next]_vars => FramingInv'
  <2>1. SUFFICES ASSUME FramingInv, [Next]_vars PROVE FramingInv'
    OBVIOUS
  <2>2. FramingTypes /\ FramingTypes'
    BY <2>1, FramingTypesStep DEF FramingInv
  <2>3. ASSUME regular' PROVE Following'
    <3>1. Following
      BY <2>1, <2>3, RegularBefore DEF FramingInv
    <3>2. QED
      BY <2>1, <2>2, <2>3, <3>1, FramingStep
  <2>4. QED
    BY <2>2, <2>3 DEF FramingInv
<1>3. FramingInv => FramedWhileRegular
  BY FollowingIsFramed DEF FramingInv, FramedWhileRegular
<1>4. QED
  BY <1>1, <1>2, <1>3, PTL DEF Spec

-----------------------------------------------------------------------------
(* Arithmetic *)

LEMMA TimesMonotone ==
  ASSUME NEW B \in Nat \ {0}, NEW j \in Nat, NEW k \in Nat, j < k
  PROVE  j * B + B <= k * B /\ j * B \in Nat /\ k * B \in Nat
<1>1. PICK d \in Nat : k = j + 1 + d
  <2>1. k - j - 1 \in Nat /\ k = j + 1 + (k - j - 1)
    OBVIOUS
  <2>2. QED
    BY <2>1
<1>2. k * B = j * B + B + d * B
  BY <1>1
<1>3. j * B \in Nat /\ d * B \in Nat /\ k * B \in Nat
  OBVIOUS
<1>4. QED
  BY <1>2, <1>3

LEMMA Quotient ==
  ASSUME NEW B \in Nat \ {0}, NEW k \in Nat, NEW r \in 0..(B - 1)
  PROVE  (k * B + r) \div B = k
<1> DEFINE q == (k * B + r) \div B
<1>1. k * B + r \in Nat
  OBVIOUS
<1>2. q \in Nat /\ q * B <= k * B + r /\ k * B + r < q * B + B
  BY <1>1
<1> HIDE DEF q
<1>3. ~(q < k)
  BY <1>2, TimesMonotone
<1>4. ~(k < q)
  BY <1>2, TimesMonotone
<1>5. QED
  BY <1>2, <1>3, <1>4 DEF q

LEMMA IdNumbers == NoByte \in Nat /\ NoByte = Ids * IdBytes /\ IdBytes \in Nat \ {0} /\ Ids \in Nat \ {0}
BY FileIdFramingAssumption DEF NoByte

-----------------------------------------------------------------------------
(* Types *)

\* The loop runs while there is something of the buffer to read.
IdTypes ==
  /\ IdTypeOK
  /\ BufferLength <= indicated
  /\ reading => BytesRead < BufferLength

\* What the loop takes for an id is one of those written, or none of them.
LEMMA IdFound ==
  ASSUME NEW bytes
  PROVE  FileIdOf(bytes) \in 0..Ids
<1>1. CASE \E k \in 0..(Ids - 1) : \A p \in Places : bytes[p] = k * IdBytes + p
  <2>1. PICK k \in 0..(Ids - 1) : \A p \in Places : bytes[p] = k * IdBytes + p
    BY <1>1
  <2>2. 0 \in Places
    BY IdNumbers DEF Places
  <2>3. 0 \in 0..(IdBytes - 1) /\ k \in Nat
    BY IdNumbers
  <2>4. bytes[0] = k * IdBytes + 0
    BY <2>1, <2>2
  <2>5. (k * IdBytes + 0) \div IdBytes = k
    BY <2>3, Quotient, IdNumbers
  <2>6. FileIdOf(bytes) = k
    BY <1>1, <2>4, <2>5 DEF FileIdOf
  <2>7. QED
    BY <2>6, IdNumbers
<1>2. CASE ~\E k \in 0..(Ids - 1) : \A p \in Places : bytes[p] = k * IdBytes + p
  BY <1>2, IdNumbers DEF FileIdOf, NoId
<1>3. QED
  BY <1>1, <1>2

\* The bytes that all agree with an id are that id.
LEMMA IdIs ==
  ASSUME NEW bytes, NEW k \in 0..(Ids - 1),
         \A p \in Places : bytes[p] = k * IdBytes + p
  PROVE  FileIdOf(bytes) = k
<1>1. 0 \in Places /\ 0 \in 0..(IdBytes - 1) /\ k \in Nat
  BY IdNumbers DEF Places
<1>2. bytes[0] = k * IdBytes + 0
  BY <1>1
<1>3. (k * IdBytes + 0) \div IdBytes = k
  BY <1>1, Quotient, IdNumbers
<1>4. QED
  BY <1>2, <1>3 DEF FileIdOf

\* A copy of no more than the buffer has left is of bytes that have arrived.
LEMMA CopyIsBytes ==
  ASSUME IdTypes, reading, NEW first \in Nat, NEW n \in 0..Remaining
  PROVE  Copy(first, n) \in [Places -> 0..NoByte]
<1>1. /\ indicated \in Nat /\ indicated <= NoByte /\ BufferLength \in Nat /\ BytesRead \in Nat
      /\ BufferLength <= indicated /\ BytesRead < BufferLength
  BY IdNumbers DEF IdTypes, IdTypeOK
<1>2. ASSUME NEW p \in Places, p \in first..(first + n - 1)
      PROVE  NextByte + p - first \in 0..NoByte
  BY <1>1, <1>2, IdNumbers DEF NextByte, Remaining, Places
<1>3. PartialFileIdBytes \in [Places -> 0..NoByte]
  BY DEF IdTypes, IdTypeOK
<1>4. ASSUME NEW p \in Places
      PROVE  (IF p \in first..(first + n - 1)
               THEN NextByte + p - first ELSE PartialFileIdBytes[p]) \in 0..NoByte
  BY <1>2, <1>3
<1>5. QED
  BY <1>4 DEF Copy

LEMMA IdTypesInit == IdInit => IdTypes
<1> SUFFICES ASSUME IdInit PROVE IdTypes
  OBVIOUS
<1>1. FileIdBytes \in Places
  BY FileIdFramingAssumption DEF IdInit, Places
<1>2. [p \in Places |-> NoByte] \in [Places -> 0..NoByte]
  BY IdNumbers
<1>3. << >> \in Seq(0..Ids)
  OBVIOUS
<1>4. 0 \in 0..NoByte /\ 0 \in 0..(0 + IdBytes) /\ 0 <= 0
  BY IdNumbers
<1>5. indicated = 0 /\ BufferLength = 0 /\ BytesRead = 0
  BY DEF IdInit
<1>6. reading = FALSE /\ PartialFileIdBytes = [p \in Places |-> NoByte] /\ found = << >>
  BY DEF IdInit
<1>7. IdTypeOK
  <2>1. indicated \in 0..NoByte /\ BufferLength \in 0..NoByte /\ BytesRead \in 0..(BufferLength + IdBytes)
    BY <1>4, <1>5
  <2>2. /\ reading \in BOOLEAN /\ PartialFileIdBytes \in [Places -> 0..NoByte]
        /\ found \in Seq(0..Ids)
    BY <1>2, <1>3, <1>6, Zenon
  <2>3. QED
    BY <1>1, <2>1, <2>2 DEF IdTypeOK
<1>8. BufferLength <= indicated
  BY <1>4, <1>5
<1>9. QED
  BY <1>6, <1>7, <1>8, Zenon DEF IdTypes

LEMMA IdTypesStep == IdTypes /\ [IdNext]_idVars => IdTypes'
<1> SUFFICES ASSUME IdTypes, [IdNext]_idVars PROVE IdTypes'
  OBVIOUS
<1>1. /\ indicated \in Nat /\ indicated <= NoByte /\ BufferLength \in Nat /\ BytesRead \in Nat
      /\ BufferLength <= indicated /\ BytesRead <= BufferLength + IdBytes
      /\ reading \in BOOLEAN /\ (reading => BytesRead < BufferLength)
      /\ FileIdBytes \in Nat /\ FileIdBytes < IdBytes
  BY IdNumbers DEF IdTypes, IdTypeOK, Places
<1>2. PartialFileIdBytes \in [Places -> 0..NoByte] /\ found \in Seq(0..Ids)
  BY DEF IdTypes, IdTypeOK
<1>3. ASSUME NEW id \in 0..Ids PROVE Append(found, id) \in Seq(0..Ids)
  BY <1>2, <1>3, AppendProperties
<1>4. ASSUME NEW n \in 1..(Ids * IdBytes - indicated), IdReceive(n) PROVE IdTypes'
  <2>1. n \in Nat /\ n >= 1 /\ indicated + n <= NoByte
    BY <1>1, <1>4, IdNumbers
  <2>2. /\ indicated' = indicated + n /\ BufferLength' = n /\ BytesRead' = 0 /\ reading' = TRUE
        /\ UNCHANGED <<FileIdBytes, PartialFileIdBytes, found>>
    BY <1>4 DEF IdReceive
  <2>3. /\ indicated' \in 0..NoByte /\ BufferLength' \in 0..NoByte /\ BytesRead' \in 0..(BufferLength' + IdBytes)
        /\ reading' \in BOOLEAN /\ BufferLength' <= indicated' /\ BytesRead' < BufferLength'
    BY <1>1, <2>1, <2>2, IdNumbers
  <2>4. FileIdBytes' \in Places
    BY <2>2 DEF IdTypes, IdTypeOK
  <2>5. QED
    BY <1>2, <2>2, <2>3, <2>4 DEF IdTypes, IdTypeOK
<1>5. ASSUME reading, NEW n \in 1..IdBytes, Advance(n), UNCHANGED <<indicated, BufferLength>>,
             FileIdBytes' \in Places, PartialFileIdBytes' \in [Places -> 0..NoByte],
             found' \in Seq(0..Ids)
      PROVE  IdTypes'
  <2>1. BytesRead' = BytesRead + n /\ reading' \in BOOLEAN /\ (reading' => BytesRead + n < BufferLength)
    <3>1. BytesRead' = BytesRead + n /\ reading' = (BytesRead + n < BufferLength)
      BY <1>5, Zenon DEF Advance
    <3>2. reading' \in BOOLEAN
      BY <3>1, SMT
    <3>3. reading' => BytesRead + n < BufferLength
      BY <3>1, Zenon
    <3>4. QED
      BY <3>1, <3>2, <3>3
  <2>2. BytesRead' \in 0..(BufferLength' + IdBytes) /\ reading' \in BOOLEAN /\ (reading' => BytesRead' < BufferLength')
    <3>1. BytesRead + n \in 0..(BufferLength + IdBytes)
      BY <1>1, <1>5, IdNumbers
    <3>2. QED
      BY <1>5, <2>1, <3>1
  <2>3. indicated' \in 0..NoByte /\ BufferLength' \in 0..NoByte /\ BufferLength' <= indicated'
    BY <1>1, <1>5, IdNumbers
  <2>4. QED
    BY <1>5, <2>2, <2>3 DEF IdTypes, IdTypeOK
<1>6. ASSUME ReadTiny PROVE IdTypes'
  <2>1. reading /\ Remaining < IdBytes - FileIdBytes
    BY <1>6 DEF ReadTiny
  <2>2. Remaining \in 1..IdBytes /\ Remaining \in 0..Remaining /\ FileIdBytes + Remaining \in Places
    BY <1>1, <2>1, IdNumbers DEF Remaining, Places
  <2>3. Copy(FileIdBytes, Remaining) \in [Places -> 0..NoByte]
    BY <1>1, <2>1, <2>2, CopyIsBytes
  <2>4. QED
    BY <1>2, <1>5, <1>6, <2>1, <2>2, <2>3 DEF ReadTiny
<1>7. ASSUME ReadRest PROVE IdTypes'
  <2>1. reading /\ Remaining >= IdBytes - FileIdBytes
    BY <1>7 DEF ReadRest
  <2>2. IdBytes - FileIdBytes \in 0..Remaining /\ 0 \in Places /\ IdBytes \in 1..IdBytes
    BY <1>1, <2>1, IdNumbers DEF Remaining, Places
  <2>3. Copy(FileIdBytes, IdBytes - FileIdBytes) \in [Places -> 0..NoByte]
    BY <1>1, <2>1, <2>2, CopyIsBytes
  <2>4. found' = Append(found, FileIdOf(PartialFileIdBytes')) /\ found' \in Seq(0..Ids)
    BY <1>3, <1>7, IdFound DEF ReadRest
  <2>5. FileIdBytes' = 0 /\ Advance(IdBytes)
    <3>1. FileIdBytes' = 0 /\ Advance(IdBytes - FileIdBytes')
      BY <1>7 DEF ReadRest
    <3>2. IdBytes - 0 = IdBytes
      BY IdNumbers
    <3>3. QED
      BY <3>1, <3>2
  <2>6. QED
    BY <1>5, <1>7, <2>1, <2>2, <2>3, <2>4, <2>5 DEF ReadRest
<1>8. ASSUME ReadPartial PROVE IdTypes'
  <2>1. reading /\ Remaining < IdBytes
    BY <1>8 DEF ReadPartial
  <2>2. Remaining \in 1..IdBytes /\ Remaining \in 0..Remaining /\ Remaining \in Places
    BY <1>1, <2>1, IdNumbers DEF Remaining, Places
  <2>3. Copy(0, Remaining) \in [Places -> 0..NoByte]
    BY <2>1, <2>2, CopyIsBytes
  <2>4. QED
    BY <1>2, <1>5, <1>8, <2>1, <2>2, <2>3 DEF ReadPartial
<1>9. ASSUME ReadWhole PROVE IdTypes'
  <2>1. reading /\ Remaining >= IdBytes
    BY <1>9 DEF ReadWhole
  <2>2. IdBytes \in 0..Remaining /\ IdBytes \in 1..IdBytes
    BY <1>1, <2>1, IdNumbers DEF Remaining
  <2>3. Copy(0, IdBytes) \in [Places -> 0..NoByte]
    BY <2>1, <2>2, CopyIsBytes
  <2>4. found' \in Seq(0..Ids)
    BY <1>3, <1>9, IdFound DEF ReadWhole
  <2>5. FileIdBytes' \in Places
    BY <1>9 DEF ReadWhole, IdTypes, IdTypeOK
  <2>6. QED
    BY <1>5, <1>9, <2>1, <2>2, <2>3, <2>4, <2>5 DEF ReadWhole
<1>10. CASE UNCHANGED idVars
  BY <1>10 DEF idVars, IdTypes, IdTypeOK
<1>11. QED
  BY <1>4, <1>6, <1>7, <1>8, <1>9, <1>10 DEF IdNext, Read, IdsDone

-----------------------------------------------------------------------------
(* The place in the stream *)

\* Where the loop is, after the ids found and the bytes kept.
LoopPlace == IF reading THEN NextByte ELSE indicated
AtPlace == LoopPlace = Len(found) * IdBytes + FileIdBytes

\* The bytes kept are the first ones of the next id.
PartIsKept == \A p \in 0..(FileIdBytes - 1) : PartialFileIdBytes[p] = Len(found) * IdBytes + p

InOrder == \A j \in DOMAIN found : found[j] = j - 1

\* A buffer that begins within an id does not go beyond it: what ReadRest needs,
\* as it moves on by all of an id and not by what was missing of it.
Alone == reading /\ FileIdBytes # 0 => Remaining <= IdBytes - FileIdBytes

ReadInv == IdTypes /\ AtPlace /\ PartIsKept /\ InOrder /\ Alone

\* What the steps of a proof say of the loop, without the sets.
LEMMA Numbers ==
  ASSUME IdTypes
  PROVE  /\ indicated \in Nat /\ indicated <= NoByte /\ BufferLength \in Nat /\ BytesRead \in Nat
         /\ BufferLength <= indicated /\ BytesRead <= BufferLength + IdBytes
         /\ reading \in BOOLEAN /\ (reading => BytesRead < BufferLength)
         /\ FileIdBytes \in Nat /\ FileIdBytes < IdBytes
         /\ Len(found) \in Nat /\ DOMAIN found = 1..Len(found)
         /\ Len(found) * IdBytes \in Nat
         /\ (reading => Remaining \in Nat \ {0} /\ NextByte \in Nat /\ indicated = NextByte + Remaining)
<1>1. /\ indicated \in Nat /\ indicated <= NoByte /\ BufferLength \in Nat /\ BytesRead \in Nat
      /\ BufferLength <= indicated /\ BytesRead <= BufferLength + IdBytes
      /\ (reading => BytesRead < BufferLength)
      /\ FileIdBytes \in Nat /\ FileIdBytes < IdBytes
  BY IdNumbers DEF IdTypes, IdTypeOK, Places
<1>2. found \in Seq(0..Ids) /\ reading \in BOOLEAN
  BY DEF IdTypes, IdTypeOK
<1>3. Len(found) \in Nat /\ DOMAIN found = 1..Len(found)
  BY <1>2, LenProperties
<1>4. Len(found) * IdBytes \in Nat
  BY <1>3, IdNumbers
<1>5. ASSUME reading
      PROVE  Remaining \in Nat \ {0} /\ NextByte \in Nat /\ indicated = NextByte + Remaining
  BY <1>1, <1>5 DEF Remaining, NextByte
<1>6. QED
  BY <1>1, <1>2, <1>3, <1>4, <1>5

\* A copy that begins where the id does leaves the first bytes of the id that is
\* next in the stream.
LEMMA CopyKeeps ==
  ASSUME ReadInv, reading, NEW n \in 0..Remaining, FileIdBytes + n <= IdBytes,
         NEW p \in 0..(FileIdBytes + n - 1)
  PROVE  p \in Places /\ Copy(FileIdBytes, n)[p] = Len(found) * IdBytes + p
<1> DEFINE L == Len(found) * IdBytes
<1>1. /\ Remaining \in Nat /\ NextByte \in Nat /\ FileIdBytes \in Nat /\ L \in Nat
      /\ NextByte = L + FileIdBytes
  BY Numbers DEF ReadInv, AtPlace, LoopPlace
<1>2. L = Len(found) * IdBytes
  OBVIOUS
<1> HIDE DEF L
<1>3. p \in Places
  BY <1>1, IdNumbers DEF Places
<1>4. Copy(FileIdBytes, n)[p] =
        (IF p \in FileIdBytes..(FileIdBytes + n - 1)
          THEN NextByte + p - FileIdBytes ELSE PartialFileIdBytes[p])
  BY <1>3 DEF Copy
<1>5. CASE p \in FileIdBytes..(FileIdBytes + n - 1)
  <2>1. NextByte + p - FileIdBytes = L + p
    BY <1>1, <1>5
  <2>2. QED
    BY <1>2, <1>3, <1>4, <1>5, <2>1
<1>6. CASE p \notin FileIdBytes..(FileIdBytes + n - 1)
  <2>1. p \in 0..(FileIdBytes - 1)
    BY <1>1, <1>6
  <2>2. PartialFileIdBytes[p] = L + p
    BY <1>2, <2>1 DEF ReadInv, PartIsKept
  <2>3. QED
    BY <1>2, <1>3, <1>4, <1>6, <2>2
<1>7. QED
  BY <1>5, <1>6

\* When the bytes of an id are all in the buffer, what is looked up is the next id.
LEMMA NextId ==
  ASSUME ReadInv, reading, NEW n \in 0..Remaining, FileIdBytes + n = IdBytes
  PROVE  FileIdOf(Copy(FileIdBytes, n)) = Len(found) /\ Len(found) \in 0..(Ids - 1)
<1>1. /\ Remaining \in Nat /\ NextByte \in Nat /\ FileIdBytes \in Nat
      /\ Len(found) \in Nat /\ Len(found) * IdBytes \in Nat /\ indicated \in Nat /\ indicated <= NoByte
      /\ NextByte = Len(found) * IdBytes + FileIdBytes /\ indicated = NextByte + Remaining
  BY Numbers DEF ReadInv, AtPlace, LoopPlace
<1>2. Len(found) * IdBytes + IdBytes <= Ids * IdBytes
  <2> DEFINE L == Len(found) * IdBytes
  <2>1. L \in Nat /\ NextByte = L + FileIdBytes /\ n \in Nat /\ n <= Remaining
    BY <1>1
  <2> HIDE DEF L
  <2>2. L + IdBytes <= NoByte
    BY <1>1, <2>1, IdNumbers
  <2>3. QED
    BY <2>2, IdNumbers DEF L
<1>3. ~(Ids <= Len(found))
  <2> SUFFICES ASSUME Ids <= Len(found) PROVE FALSE
    OBVIOUS
  <2> DEFINE L == Len(found) * IdBytes
             N == Ids * IdBytes
  <2>1. L \in Nat /\ N \in Nat /\ L + IdBytes <= N
    BY <1>1, <1>2, IdNumbers
  <2>2. CASE Ids = Len(found)
    <3>1. L = N
      BY <2>2
    <3> HIDE DEF L, N
    <3>2. QED
      BY <2>1, <3>1, IdNumbers
  <2>3. CASE Ids < Len(found)
    <3>1. N + IdBytes <= L
      BY <1>1, <2>3, IdNumbers, TimesMonotone
    <3> HIDE DEF L, N
    <3>2. QED
      BY <2>1, <3>1, IdNumbers
  <2>4. QED
    BY <1>1, <2>2, <2>3, IdNumbers
<1>4. Len(found) \in 0..(Ids - 1)
  BY <1>1, <1>3, IdNumbers
<1>5. ASSUME NEW p \in Places
      PROVE  Copy(FileIdBytes, n)[p] = Len(found) * IdBytes + p
  <2>1. p \in 0..(FileIdBytes + n - 1) /\ FileIdBytes + n <= IdBytes
    BY <1>1, IdNumbers DEF Places
  <2>2. QED
    BY <2>1, CopyKeeps
<1>6. QED
  BY <1>4, <1>5, IdIs

\* The id looked up is the next one in order.
LEMMA FoundNext ==
  ASSUME IdTypes, InOrder, Len(found) \in 0..(Ids - 1), found' = Append(found, Len(found))
  PROVE  InOrder' /\ Len(found') = Len(found) + 1
<1>1. found \in Seq(0..Ids) /\ Len(found) \in Nat /\ DOMAIN found = 1..Len(found)
  BY Numbers DEF IdTypes, IdTypeOK
<1>2. Len(found) \in 0..Ids
  BY IdNumbers
<1>3. /\ Len(found') = Len(found) + 1 /\ DOMAIN found' = 1..(Len(found) + 1)
      /\ \A j \in 1..Len(found) : found'[j] = found[j]
      /\ found'[Len(found) + 1] = Len(found)
  BY <1>1, <1>2, AppendProperties, LenProperties
<1>4. ASSUME NEW j \in 1..(Len(found) + 1) PROVE found'[j] = j - 1
  <2>1. CASE j \in 1..Len(found)
    BY <1>1, <1>3, <2>1 DEF InOrder
  <2>2. CASE j = Len(found) + 1
    BY <1>1, <1>3, <2>2
  <2>3. QED
    BY <1>1, <2>1, <2>2
<1>5. QED
  BY <1>3, <1>4 DEF InOrder

-----------------------------------------------------------------------------
(* The steps *)

LEMMA ReadInit == InitialFileIdBytes = {0} /\ IdInit => ReadInv
<1> SUFFICES ASSUME InitialFileIdBytes = {0}, IdInit PROVE ReadInv
  OBVIOUS
<1>1. IdTypes
  BY IdTypesInit
<1>2. FileIdBytes = 0 /\ indicated = 0 /\ reading = FALSE /\ found = << >>
  BY DEF IdInit
<1>3. Len(found) = 0
  BY <1>2
<1>4. 0 * IdBytes + 0 = 0
  BY IdNumbers
<1>5. AtPlace
  BY <1>2, <1>3, <1>4 DEF AtPlace, LoopPlace
<1>6. PartIsKept
  BY <1>2 DEF PartIsKept
<1>7. InOrder
  BY <1>2 DEF InOrder
<1>8. Alone
  BY <1>2, Zenon DEF Alone
<1>9. QED
  BY <1>1, <1>5, <1>6, <1>7, <1>8 DEF ReadInv

\* A buffer that comes begins where the one before ended.
LEMMA IdReceiveKeeps ==
  ASSUME RestIsAlone \/ Ids = 1, ReadInv, IdTypes',
         NEW n \in 1..(Ids * IdBytes - indicated), IdReceive(n)
  PROVE  ReadInv'
<1> DEFINE L == Len(found) * IdBytes
<1>1. /\ ~reading /\ (RestIsAlone /\ FileIdBytes # 0 => n <= IdBytes - FileIdBytes)
      /\ indicated' = indicated + n /\ BufferLength' = n /\ BytesRead' = 0 /\ reading' = TRUE
      /\ FileIdBytes' = FileIdBytes /\ PartialFileIdBytes' = PartialFileIdBytes /\ found' = found
  BY DEF IdReceive
<1>2. indicated \in Nat /\ FileIdBytes \in Nat /\ L \in Nat /\ indicated = L + FileIdBytes /\ NoByte \in Nat
  BY <1>1, Numbers, IdNumbers DEF ReadInv, AtPlace, LoopPlace
<1>3. L' = L /\ (AtPlace' <=> LoopPlace' = L' + FileIdBytes')
  BY <1>1 DEF AtPlace
<1> HIDE DEF L
<1>4. n \in Nat /\ indicated + n <= NoByte
  BY <1>2, IdNumbers
<1>5. Remaining' = n /\ NextByte' = indicated
  BY <1>1, <1>2, <1>4 DEF Remaining, NextByte
<1>6. AtPlace'
  BY <1>1, <1>2, <1>3, <1>5 DEF LoopPlace
<1>7. PartIsKept'
  BY <1>1 DEF ReadInv, PartIsKept
<1>8. InOrder'
  BY <1>1 DEF ReadInv, InOrder
<1>9. Alone'
  <2>1. CASE RestIsAlone
    BY <1>1, <1>5, <2>1 DEF Alone
  <2>2. CASE Ids = 1
    <3>1. NoByte = IdBytes
      BY <2>2, IdNumbers
    <3>2. n <= IdBytes - FileIdBytes
      BY <1>2, <1>4, <3>1, IdNumbers
    <3>3. QED
      BY <1>1, <1>5, <3>2 DEF Alone
  <2>3. QED
    BY <2>1, <2>2
<1>10. QED
  BY <1>6, <1>7, <1>8, <1>9 DEF ReadInv

\* The buffer ends within an id: the loop keeps what there is of it and stops.
LEMMA PartKept ==
  ASSUME ReadInv, IdTypes', reading, FileIdBytes + Remaining < IdBytes,
         PartialFileIdBytes' = Copy(FileIdBytes, Remaining),
         FileIdBytes' = FileIdBytes + Remaining,
         BytesRead' = BytesRead + Remaining, ~reading',
         indicated' = indicated, found' = found
  PROVE  ReadInv'
<1> DEFINE L == Len(found) * IdBytes
<1>1. /\ Remaining \in Nat /\ NextByte \in Nat /\ FileIdBytes \in Nat /\ L \in Nat
      /\ indicated = NextByte + Remaining /\ NextByte = L + FileIdBytes
  BY Numbers DEF ReadInv, AtPlace, LoopPlace
<1>2. L' = L /\ (AtPlace' <=> LoopPlace' = L' + FileIdBytes')
  BY DEF AtPlace
<1>3. AtPlace'
  <2> HIDE DEF L
  <2>1. LoopPlace' = indicated
    BY DEF LoopPlace
  <2>2. QED
    BY <1>1, <1>2, <2>1
<1>4. PartIsKept'
  <2>1. Remaining \in 0..Remaining /\ FileIdBytes + Remaining <= IdBytes
    BY <1>1, IdNumbers
  <2>2. ASSUME NEW p \in 0..(FileIdBytes + Remaining - 1)
        PROVE  Copy(FileIdBytes, Remaining)[p] = Len(found) * IdBytes + p
    BY <2>1, CopyKeeps
  <2>3. PartIsKept' <=> \A p \in 0..(FileIdBytes' - 1) : PartialFileIdBytes'[p] = Len(found') * IdBytes + p
    BY DEF PartIsKept
  <2>4. QED
    <3>1. /\ FileIdBytes' = FileIdBytes + Remaining /\ found' = found
          /\ PartialFileIdBytes' = Copy(FileIdBytes, Remaining)
      OBVIOUS
    <3>2. ASSUME NEW p \in 0..(FileIdBytes' - 1)
          PROVE  PartialFileIdBytes'[p] = Len(found') * IdBytes + p
      <4>1. p \in 0..(FileIdBytes + Remaining - 1)
        BY <1>1, <3>1, <3>2
      <4>2. Copy(FileIdBytes, Remaining)[p] = Len(found) * IdBytes + p
        BY <2>2, <4>1
      <4>3. PartialFileIdBytes'[p] = Copy(FileIdBytes, Remaining)[p] /\ Len(found') = Len(found)
        BY <3>1
      <4>4. QED
        BY <4>2, <4>3
    <3>3. QED
      BY <2>3, <3>2
<1>5. InOrder'
  BY DEF ReadInv, InOrder
<1>6. Alone'
  BY DEF Alone
<1>7. QED
  BY <1>3, <1>4, <1>5, <1>6 DEF ReadInv

\* The bytes of an id are all there: it is the next one, and the loop is at the
\* byte after it, if the buffer has one.
LEMMA IdRead ==
  ASSUME ReadInv, IdTypes', reading, NEW n \in 0..Remaining, FileIdBytes + n = IdBytes,
         PartialFileIdBytes' = Copy(FileIdBytes, n), FileIdBytes' = 0,
         found' = Append(found, FileIdOf(PartialFileIdBytes')),
         LoopPlace' = NextByte + n
  PROVE  ReadInv'
<1> DEFINE L == Len(found) * IdBytes
<1>1. /\ Len(found) \in Nat /\ NextByte \in Nat /\ FileIdBytes \in Nat /\ L \in Nat
      /\ NextByte = L + FileIdBytes /\ Remaining \in Nat
  BY Numbers DEF ReadInv, AtPlace, LoopPlace
<1>2. FileIdOf(PartialFileIdBytes') = Len(found) /\ Len(found) \in 0..(Ids - 1)
  BY NextId
<1>3. InOrder' /\ Len(found') = Len(found) + 1
  BY <1>2, FoundNext DEF ReadInv
<1>4. AtPlace'
  <2>1. Len(found') * IdBytes = L + IdBytes
    BY <1>1, <1>3, IdNumbers
  <2>2. AtPlace' <=> LoopPlace' = Len(found') * IdBytes + 0
    BY DEF AtPlace
  <2> HIDE DEF L
  <2>3. LoopPlace' = L + IdBytes
    BY <1>1, IdNumbers
  <2>4. L + IdBytes + 0 = L + IdBytes
    BY <1>1, IdNumbers
  <2>5. QED
    BY <2>1, <2>2, <2>3, <2>4
<1>5. PartIsKept'
  BY DEF PartIsKept
<1>6. Alone'
  BY DEF Alone
<1>7. QED
  BY <1>3, <1>4, <1>5, <1>6 DEF ReadInv

LEMMA ReadStep ==
  ASSUME RestIsAlone \/ Ids = 1, ReadInv, [IdNext]_idVars
  PROVE  ReadInv'
<1>1. IdTypes'
  BY IdTypesStep DEF ReadInv
<1>2. /\ indicated \in Nat /\ BufferLength \in Nat /\ BytesRead \in Nat /\ FileIdBytes \in Nat
      /\ FileIdBytes < IdBytes
      /\ (reading => Remaining \in Nat \ {0} /\ NextByte \in Nat /\ indicated = NextByte + Remaining)
  BY Numbers DEF ReadInv
<1>3. ASSUME reading, NEW n \in 1..IdBytes, Advance(n), BufferLength' = BufferLength, indicated' = indicated
      PROVE  /\ BytesRead' = BytesRead + n
             /\ (n >= Remaining => ~reading')
             /\ (n <= Remaining => LoopPlace' = NextByte + n)
  <2>1. BytesRead' = BytesRead + n /\ reading' = (BytesRead + n < BufferLength)
    BY <1>3, Zenon DEF Advance
  <2>2. Remaining = BufferLength - BytesRead /\ n \in Nat /\ Remaining \in Nat
    BY <1>2, <1>3 DEF Remaining
  <2>3. CASE n >= Remaining
    <3>1. ~(BytesRead + n < BufferLength)
      BY <1>2, <2>2, <2>3
    <3>2. ~reading'
      BY <2>1, <3>1, Zenon
    <3>3. LoopPlace' = indicated
      BY <1>3, <3>2 DEF LoopPlace
    <3>4. n <= Remaining => NextByte + n = indicated
      BY <1>2, <1>3, <2>2, <2>3
    <3>5. QED
      BY <2>1, <3>2, <3>3, <3>4
  <2>4. CASE n < Remaining
    <3>1. BytesRead + n < BufferLength /\ ~(n >= Remaining)
      BY <1>2, <2>2, <2>4
    <3>2. reading'
      BY <2>1, <3>1, Zenon
    <3>3. LoopPlace' = NextByte'
      BY <3>2 DEF LoopPlace
    <3>4. NextByte' = indicated - (BufferLength - (BytesRead + n))
      BY <1>3, <2>1 DEF NextByte, Remaining
    <3>5. NextByte = indicated - (BufferLength - BytesRead)
      BY DEF NextByte, Remaining
    <3>6. NextByte' = NextByte + n
      BY <1>2, <2>2, <3>4, <3>5
    <3>7. QED
      BY <2>1, <3>1, <3>3, <3>6
  <2>5. QED
    BY <2>2, <2>3, <2>4
<1>4. ASSUME NEW n \in 1..(Ids * IdBytes - indicated), IdReceive(n) PROVE ReadInv'
  BY <1>1, <1>4, IdReceiveKeeps
<1>5. ASSUME ReadTiny PROVE ReadInv'
  <2>1. /\ reading /\ Remaining < IdBytes - FileIdBytes
        /\ PartialFileIdBytes' = Copy(FileIdBytes, Remaining)
        /\ FileIdBytes' = FileIdBytes + Remaining
        /\ Advance(Remaining) /\ indicated' = indicated /\ BufferLength' = BufferLength /\ found' = found
    BY <1>5 DEF ReadTiny
  <2>2. FileIdBytes + Remaining < IdBytes /\ Remaining \in 1..IdBytes /\ Remaining >= Remaining
    BY <1>2, <2>1, IdNumbers
  <2>3. BytesRead' = BytesRead + Remaining /\ ~reading'
    BY <1>3, <2>1, <2>2
  <2>4. QED
    BY <1>1, <2>1, <2>2, <2>3, PartKept
<1>6. ASSUME ReadRest PROVE ReadInv'
  <2> DEFINE n == IdBytes - FileIdBytes
  <2>1. /\ reading /\ FileIdBytes # 0 /\ Remaining >= n
        /\ PartialFileIdBytes' = Copy(FileIdBytes, n) /\ FileIdBytes' = 0
        /\ found' = Append(found, FileIdOf(PartialFileIdBytes'))
        /\ Advance(IdBytes - FileIdBytes') /\ indicated' = indicated /\ BufferLength' = BufferLength
    BY <1>6 DEF ReadRest
  <2>2. Remaining = n
    BY <1>2, <2>1, IdNumbers DEF ReadInv, Alone
  <2>3. n \in 0..Remaining /\ FileIdBytes + n = IdBytes /\ IdBytes \in 1..IdBytes /\ IdBytes >= Remaining
    BY <1>2, <2>1, <2>2, IdNumbers
  <2>4. Advance(IdBytes)
    <3>1. IdBytes - 0 = IdBytes
      BY IdNumbers
    <3>2. QED
      BY <2>1, <3>1
  <2>5. ~reading'
    BY <1>3, <2>1, <2>3, <2>4
  <2>6. LoopPlace' = NextByte + n
    <3>1. LoopPlace' = indicated
      BY <2>1, <2>5 DEF LoopPlace
    <3>2. QED
      BY <1>2, <2>1, <2>2, <3>1
  <2>7. QED
    BY <1>1, <2>1, <2>3, <2>6, IdRead
<1>7. ASSUME ReadPartial PROVE ReadInv'
  <2>1. /\ reading /\ FileIdBytes = 0 /\ Remaining < IdBytes
        /\ PartialFileIdBytes' = Copy(FileIdBytes, Remaining)
        /\ FileIdBytes' = Remaining
        /\ Advance(Remaining) /\ indicated' = indicated /\ BufferLength' = BufferLength /\ found' = found
    BY <1>7 DEF ReadPartial
  <2>2. /\ FileIdBytes + Remaining < IdBytes /\ FileIdBytes' = FileIdBytes + Remaining
        /\ Remaining \in 1..IdBytes /\ Remaining >= Remaining
    BY <1>2, <2>1, IdNumbers
  <2>3. BytesRead' = BytesRead + Remaining /\ ~reading'
    BY <1>3, <2>1, <2>2
  <2>4. QED
    BY <1>1, <2>1, <2>2, <2>3, PartKept
<1>8. ASSUME ReadWhole PROVE ReadInv'
  <2>1. /\ reading /\ FileIdBytes = 0 /\ Remaining >= IdBytes
        /\ PartialFileIdBytes' = Copy(FileIdBytes, IdBytes) /\ FileIdBytes' = 0
        /\ found' = Append(found, FileIdOf(PartialFileIdBytes'))
        /\ Advance(IdBytes) /\ indicated' = indicated /\ BufferLength' = BufferLength
    BY <1>8 DEF ReadWhole
  <2>2. /\ IdBytes \in 0..Remaining /\ FileIdBytes + IdBytes = IdBytes /\ IdBytes \in 1..IdBytes
        /\ IdBytes <= Remaining
    BY <1>2, <2>1, IdNumbers
  <2>3. LoopPlace' = NextByte + IdBytes
    BY <1>3, <2>1, <2>2
  <2>4. QED
    BY <1>1, <2>1, <2>2, <2>3, IdRead
<1>9. CASE UNCHANGED idVars
  <2>1. AtPlace' /\ PartIsKept' /\ InOrder' /\ Alone'
    BY <1>9 DEF idVars, ReadInv, AtPlace, PartIsKept, InOrder, Alone, LoopPlace, Remaining, NextByte
  <2>2. QED
    BY <1>1, <2>1 DEF ReadInv
<1>10. QED
  BY <1>4, <1>5, <1>6, <1>7, <1>8, <1>9 DEF IdNext, Read, IdsDone

LEMMA ReadFinds == ReadInv => IdsFound
<1> SUFFICES ASSUME ReadInv PROVE IdsFound
  OBVIOUS
<1>1. Len(found) \in Nat /\ FileIdBytes \in 0..(IdBytes - 1)
  BY Numbers DEF ReadInv, IdTypes, IdTypeOK, Places
<1>2. ASSUME ~reading PROVE Len(found) = indicated \div IdBytes
  <2>1. indicated = Len(found) * IdBytes + FileIdBytes
    BY <1>2 DEF ReadInv, AtPlace, LoopPlace
  <2>2. (Len(found) * IdBytes + FileIdBytes) \div IdBytes = Len(found)
    BY <1>1, Quotient, IdNumbers
  <2>3. QED
    BY <2>1, <2>2
<1>3. QED
  BY <1>2 DEF ReadInv, InOrder, IdsFound

-----------------------------------------------------------------------------
(* Theorems on the ids *)

(* The loop of QSyncClientControlStreamCallback and of                     *)
(* QSyncClientDataStreamCallback always knows less than an id's bytes      *)
(* between two steps, keeps only bytes that have arrived, never passes the *)
(* end of a buffer by more than an id, and looks up only ids the server    *)
(* wrote or the one value for bytes that are none of them: whatever the    *)
(* buffers hold and whatever FileIdBytes starts from.                      *)
THEOREM IdTypeCorrect == IdSpec => []IdTypeOK
<1>1. IdInit => IdTypes
  BY IdTypesInit
<1>2. IdTypes /\ [IdNext]_idVars => IdTypes'
  BY IdTypesStep
<1>3. IdTypes => IdTypeOK
  BY DEF IdTypes
<1>4. QED
  BY <1>1, <1>2, <1>3, PTL DEF IdSpec

(* Every id is looked up once and in order, however the buffers cut the    *)
(* stream, when FileIdBytes starts from zero and either the stream has one *)
(* id (a data stream) or no buffer holds the rest of an id and more: the   *)
(* conditions under which the loop of the two callbacks may be trusted.    *)
THEOREM IdsLookedUp ==
  ASSUME RestIsAlone \/ Ids = 1, InitialFileIdBytes = {0}
  PROVE  IdSpec => []IdsFound
<1>1. IdInit => ReadInv
  BY ReadInit
<1>2. ReadInv /\ [IdNext]_idVars => ReadInv'
  BY ReadStep
<1>3. ReadInv => IdsFound
  BY ReadFinds
<1>4. QED
  BY <1>1, <1>2, <1>3, PTL DEF IdSpec

==============================================================================
