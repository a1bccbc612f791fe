--------------------------- MODULE AnnounceProofs ---------------------------
(***************************************************************************)
(* Proofs about Announce, for any number of files, ids and packets.        *)
(*                                                                         *)
(* TakenIntact needs what connects the client's memory to the server's: an *)
(* entry is gone only after its answer (Kept), which the server gives when *)
(* it has the message (Heard), and the ids of two entries differ (Unique), *)
(* so an answer erases no other's.  Hence garbage is only ever in packets  *)
(* of parts the server has (Harmless).                                     *)
(***************************************************************************)
EXTENDS Announce, TLAPS

Unique == \A f, g \in FileInfos : IdOf[f] = IdOf[g] => f = g
Kept ==
  \A f \in Sent : f \in FileInfos \/ client \in Ending \/ f \in answered \ replies
Heard == \A f \in answered : Whole(f)
Harmless ==
  \A p \in Parts : <<p, "garbage">> \in network => got[p] # "none" \/ client \in Ending
\* A header is there until its message is done with.
HeaderKept ==
  \A f \in Sent \ headers :
    connection = "lost" \/ client = "closed" \/ \A p \in Parts : p[1] = f => p \in acked

IInv ==
  /\ TypeOK /\ Unique /\ Kept /\ Heard /\ Harmless /\ HeaderKept
  /\ TakenIntact /\ HeadersOutliveReads

\* Appending to the stream adds one file to Sent.
LEMMA SentGrows ==
  ASSUME NEW f \in Files, stream \in Seq(Files), stream' = Append(stream, f)
  PROVE  Sent' = Sent \cup {f}
<1>1. /\ Len(stream') = Len(stream) + 1 /\ DOMAIN stream' = 1..(Len(stream) + 1)
      /\ DOMAIN stream = 1..Len(stream) /\ Len(stream) \in Nat
  OBVIOUS
<1>2. \A i \in DOMAIN stream : stream'[i] = stream[i]
  OBVIOUS
<1>3. stream'[Len(stream) + 1] = f
  OBVIOUS
<1> QED  BY <1>1, <1>2, <1>3 DEF Sent

\* A type of the stream in which Sent is a set of files.
LEMMA StreamType ==
  ASSUME TypeOK
  PROVE  stream \in Seq(Files) /\ Sent \subseteq Files \ toScan
BY DEF TypeOK, Sent

LEMMA InitIInv == Init => IInv
BY AnnounceAssumption
   DEF Init, IInv, TypeOK, Unique, Kept, Heard, Harmless, HeaderKept, TakenIntact,
       HeadersOutliveReads, Sent, Parts, Whole, Ending

-----------------------------------------------------------------------------
(* One lemma for each group of actions *)

\* A new entry has an id of its own, and its message is not answered.
LEMMA AnnounceIInv ==
  ASSUME IInv, NEW f \in Files, Announce(f)
  PROVE  IInv'
<1> USE DEF IInv
<1>1. Sent' = Sent \cup {f}
  BY SentGrows, StreamType DEF Announce
<1>2. f \notin Sent
  BY StreamType DEF Announce
<1>3. TypeOK'
  <2>1. stream' \in Seq(Files \ toScan')
    BY DEF Announce, TypeOK
  <2> QED  BY <1>1, <2>1 DEF Announce, TypeOK, netVars
<1>4. Unique'
  BY DEF Announce, Unique, Collides
<1>5. Kept'
  BY <1>1 DEF Announce, Kept, netVars, Ending
<1>6. Heard' /\ Harmless' /\ TakenIntact' /\ HeadersOutliveReads'
  BY DEF Announce, Heard, Harmless, TakenIntact, HeadersOutliveReads, Whole, netVars, Ending
<1>7. HeaderKept'
  BY <1>1 DEF Announce, HeaderKept, netVars
<1> QED  BY <1>3, <1>4, <1>5, <1>6, <1>7

LEMMA AnnounceFailsIInv ==
  ASSUME IInv, NEW f \in Files, AnnounceFails(f)
  PROVE  IInv'
<1> USE DEF IInv
<1>1. Sent' = Sent
  BY DEF AnnounceFails, Sent
<1>2. TypeOK'
  <2>1. stream' \in Seq(Files \ toScan')
    BY DEF AnnounceFails, TypeOK
  <2> QED  BY <1>1, <2>1 DEF AnnounceFails, TypeOK, netVars
<1>3. Unique'
  BY DEF AnnounceFails, Unique, Collides
<1>4. Kept' /\ HeaderKept'
  BY <1>1 DEF AnnounceFails, Kept, HeaderKept, netVars, Ending
<1>5. Heard' /\ Harmless' /\ TakenIntact' /\ HeadersOutliveReads'
  BY DEF AnnounceFails, Heard, Harmless, TakenIntact, HeadersOutliveReads, Whole, netVars,
         Ending
<1> QED  BY <1>2, <1>3, <1>4, <1>5

\* A part that is read is there, or the server has it, or the client ends.
LEMMA ReadIInv ==
  ASSUME IInv, NEW p \in Parts, Transmit(p) \/ TransmitAgain(p)
  PROVE  IInv'
<1> USE DEF IInv
<1>1. Read(p) /\ UNCHANGED <<clientVars, lost, acked, got, answered, replies>>
  BY DEF Transmit, TransmitAgain, Read
<1>2. Sent' = Sent
  BY <1>1 DEF Sent, clientVars
<1>3. again' \in 0..MaxAgain
  BY AnnounceAssumption DEF Transmit, TransmitAgain, TypeOK
<1>4. TypeOK'
  BY <1>1, <1>2, <1>3 DEF Read, TypeOK, clientVars
<1>5. Unique' /\ Kept' /\ Heard' /\ HeaderKept' /\ TakenIntact'
  BY <1>1, <1>2 DEF Unique, Kept, Heard, HeaderKept, TakenIntact, Whole, clientVars, Ending
<1>6. ~Here(p) => p[2] = "body" /\ (got[p] # "none" \/ client \in Ending)
  <2> SUFFICES ASSUME ~Here(p)
               PROVE  p[2] = "body" /\ (got[p] # "none" \/ client \in Ending)
    OBVIOUS
  <2>1. p[1] \in Sent /\ p \notin acked /\ client # "closed" /\ connection = "up"
    BY <1>1 DEF Read
  <2>2. p[2] \in {"header", "body"}
    BY DEF Parts
  <2>3. p[2] # "header"
    BY <2>1 DEF Here, HeaderKept
  <2>4. p[1] \notin FileInfos
    BY <2>3 DEF Here, EntryHere
  <2>5. Whole(p[1]) \/ client \in Ending
    BY <2>1, <2>4 DEF Kept, Heard
  <2> QED  BY <2>2, <2>3, <2>5 DEF Whole
<1>7. Harmless'
  <2> SUFFICES ASSUME NEW q \in Parts, <<q, "garbage">> \in network'
               PROVE  got[q] # "none" \/ client \in Ending
    BY <1>1 DEF Harmless, clientVars, Ending
  <2>1. CASE <<q, "garbage">> \in network
    BY <2>1 DEF Harmless
  <2>2. CASE <<q, "garbage">> \notin network
    <3>1. q = p /\ ~Here(p)
      BY <1>1, <2>2 DEF Read
    <3> QED  BY <3>1, <1>6
  <2> QED  BY <2>1, <2>2
<1>8. HeadersOutliveReads'
  BY <1>1, <1>6 DEF Read, HeadersOutliveReads
<1> QED  BY <1>4, <1>5, <1>7, <1>8

\* Garbage that arrives is of a part the server has, or the client ends.
LEMMA DeliverIInv ==
  ASSUME IInv, NEW p \in Parts, Deliver(p)
  PROVE  IInv'
<1> USE DEF IInv
<1>1. PICK content \in {"good", "garbage"} :
        /\ <<p, content>> \in network
        /\ network' = network \ {<<p, content>>}
        /\ got' = [got EXCEPT ![p] = IF @ = "none" THEN content ELSE @]
        /\ UNCHANGED <<clientVars, lost, again, acked, answered, replies, stray>>
  BY DEF Deliver
<1>2. Sent' = Sent
  BY <1>1 DEF Sent, clientVars
<1>3. TypeOK'
  BY <1>1, <1>2 DEF TypeOK, clientVars
<1>4. /\ \A q \in Parts : got[q] # "none" => got'[q] = got[q]
      /\ \A q \in Parts : got'[q] = "garbage" =>
           got[q] = "garbage" \/ (q = p /\ got[p] = "none" /\ content = "garbage")
  BY <1>1 DEF TypeOK
<1>5. Unique' /\ Kept' /\ HeaderKept' /\ HeadersOutliveReads'
  BY <1>1, <1>2 DEF Unique, Kept, HeaderKept, HeadersOutliveReads, clientVars, Ending
<1>6. Heard' /\ Harmless'
  BY <1>1, <1>4 DEF Heard, Harmless, Whole, clientVars, Ending
<1>7. TakenIntact'
  BY <1>1, <1>4 DEF TakenIntact, Harmless, clientVars, Ending
<1> QED  BY <1>3, <1>5, <1>6, <1>7

LEMMA LoseIInv ==
  ASSUME IInv, NEW p \in Parts, Lose(p)
  PROVE  IInv'
<1> USE DEF IInv
<1>1. Sent' = Sent
  BY DEF Lose, Sent, clientVars
<1>2. lost' \in 0..MaxLost
  BY AnnounceAssumption DEF Lose, TypeOK
<1> QED
  BY <1>1, <1>2
     DEF Lose, TypeOK, Unique, Kept, Heard, Harmless, HeaderKept, TakenIntact,
         HeadersOutliveReads, Whole, clientVars, Ending

LEMMA AcknowledgeIInv ==
  ASSUME IInv, NEW p \in Parts, Acknowledge(p)
  PROVE  IInv'
<1> USE DEF IInv
<1>1. Sent' = Sent
  BY DEF Acknowledge, Sent, clientVars
<1> QED
  BY <1>1
     DEF Acknowledge, TypeOK, Unique, Kept, Heard, Harmless, HeaderKept, TakenIntact,
         HeadersOutliveReads, Whole, clientVars, Ending

\* Only a message that the server has whole is answered.
LEMMA AnswerIInv ==
  ASSUME IInv, NEW f \in Files, Answer(f)
  PROVE  IInv'
<1> USE DEF IInv
<1>1. Sent' = Sent
  BY DEF Answer, Sent, clientVars
<1>2. Whole(f)
  <2>1. PICK i \in DOMAIN stream : stream[i] = f /\ \A j \in 1..i : Whole(stream[j])
    BY DEF Answer
  <2>2. i \in 1..i
    BY StreamType, <2>1
  <2> QED  BY <2>1, <2>2
<1>3. TypeOK'
  BY <1>1 DEF Answer, TypeOK, clientVars
<1>4. Heard'
  BY <1>2 DEF Answer, Heard, Whole
<1>5. Kept'
  BY <1>1 DEF Answer, Kept, clientVars, Ending
<1>6. Unique' /\ Harmless' /\ HeaderKept' /\ TakenIntact' /\ HeadersOutliveReads'
  BY <1>1 DEF Answer, Unique, Harmless, HeaderKept, TakenIntact, HeadersOutliveReads,
              clientVars, Ending
<1> QED  BY <1>3, <1>4, <1>5, <1>6

\* The answer to f erases f and no other entry.
LEMMA ReceiveReplyIInv ==
  ASSUME IInv, NEW f \in Files, ReceiveReply(f)
  PROVE  IInv'
<1> USE DEF IInv
<1>1. Sent' = Sent
  BY DEF ReceiveReply, Sent
<1>2. f \in FileInfos
  BY DEF ReceiveReply, Kept, TypeOK, Ending
<1>3. FileInfos' = FileInfos \ {f}
  BY <1>2 DEF ReceiveReply, Unique
<1>4. TypeOK'
  BY <1>1, <1>3 DEF ReceiveReply, TypeOK
<1>5. Unique'
  BY <1>3 DEF ReceiveReply, Unique
<1>6. Kept'
  BY <1>1, <1>3 DEF ReceiveReply, Kept, TypeOK, Ending
<1>7. Heard' /\ Harmless' /\ HeaderKept' /\ TakenIntact' /\ HeadersOutliveReads'
  BY <1>1 DEF ReceiveReply, Heard, Harmless, HeaderKept, TakenIntact, HeadersOutliveReads,
              Whole, Ending
<1> QED  BY <1>4, <1>5, <1>6, <1>7

LEMMA SendCompleteIInv ==
  ASSUME IInv, NEW f \in Files, SendComplete(f)
  PROVE  IInv'
<1> USE DEF IInv
<1>1. Sent' = Sent
  BY DEF SendComplete, Sent
<1>2. HeaderKept'
  BY <1>1 DEF SendComplete, Completed, HeaderKept, netVars
<1> QED
  BY <1>1, <1>2
     DEF SendComplete, TypeOK, Unique, Kept, Heard, Harmless, TakenIntact,
         HeadersOutliveReads, Whole, netVars, Ending

\* The steps that end something: the process, the scan, the connection, the client.
LEMMA EndIInv ==
  ASSUME IInv,
         (\E f \in Files : AnnounceCollides(f)) \/ Shutdown \/ ConnectionLost \/ Exit \/ Close
  PROVE  IInv'
<1> USE DEF IInv
<1>1. CASE \E f \in Files : AnnounceCollides(f)
  <2>1. Sent' = Sent
    BY <1>1 DEF AnnounceCollides, Sent
  <2> QED
    BY <1>1, <2>1
       DEF AnnounceCollides, TypeOK, Unique, Kept, Heard, Harmless, HeaderKept, TakenIntact,
           HeadersOutliveReads, Whole, netVars, Ending
<1>2. CASE Shutdown
  <2>1. Sent' = Sent
    BY <1>2 DEF Shutdown, Sent
  <2> QED
    BY <1>2, <2>1
       DEF Shutdown, TypeOK, Unique, Kept, Heard, Harmless, HeaderKept, TakenIntact,
           HeadersOutliveReads, Whole, netVars, Ending
<1>3. CASE ConnectionLost
  <2>1. Sent' = Sent
    BY <1>3 DEF ConnectionLost, Sent
  <2> QED
    BY <1>3, <2>1
       DEF ConnectionLost, TypeOK, Unique, Kept, Heard, Harmless, HeaderKept, TakenIntact,
           HeadersOutliveReads, Whole, Ending
<1>4. CASE Exit
  <2>1. Sent' = Sent
    BY <1>4 DEF Exit, Sent
  <2> QED
    BY <1>4, <2>1
       DEF Exit, TypeOK, Unique, Kept, Heard, Harmless, HeaderKept, TakenIntact,
           HeadersOutliveReads, Whole, netVars, Ending
<1>5. CASE Close
  <2>1. Sent' = Sent
    BY <1>5 DEF Close, Sent
  <2> QED
    BY <1>5, <2>1
       DEF Close, TypeOK, Unique, Kept, Heard, Harmless, HeaderKept, TakenIntact,
           HeadersOutliveReads, Whole, netVars, Ending
<1> QED  BY <1>1, <1>2, <1>3, <1>4, <1>5

-----------------------------------------------------------------------------

LEMMA NextIInv == IInv /\ [Next]_vars => IInv'
<1> SUFFICES ASSUME IInv, [Next]_vars
             PROVE  IInv'
  OBVIOUS
<1>1. CASE UNCHANGED vars
  BY <1>1
     DEF IInv, TypeOK, Unique, Kept, Heard, Harmless, HeaderKept, TakenIntact,
         HeadersOutliveReads, Sent, Whole, Ending, vars, clientVars, netVars
<1>2. CASE \E f \in Files : Announce(f)
  BY <1>2, AnnounceIInv
<1>3. CASE \E f \in Files : AnnounceFails(f)
  BY <1>3, AnnounceFailsIInv
<1>4. CASE \E f \in Files : Answer(f)
  BY <1>4, AnswerIInv
<1>5. CASE \E f \in Files : SendComplete(f)
  BY <1>5, SendCompleteIInv
<1>6. CASE \E f \in Files : ReceiveReply(f)
  BY <1>6, ReceiveReplyIInv
<1>7. CASE \E p \in Parts : Transmit(p) \/ TransmitAgain(p)
  BY <1>7, ReadIInv
<1>8. CASE \E p \in Parts : Deliver(p)
  BY <1>8, DeliverIInv
<1>9. CASE \E p \in Parts : Lose(p)
  BY <1>9, LoseIInv
<1>10. CASE \E p \in Parts : Acknowledge(p)
  BY <1>10, AcknowledgeIInv
<1>11. CASE (\E f \in Files : AnnounceCollides(f)) \/ Shutdown \/ ConnectionLost \/ Exit \/ Close
  BY <1>11, EndIInv
<1> QED
  BY <1>1, <1>2, <1>3, <1>4, <1>5, <1>6, <1>7, <1>8, <1>9, <1>10, <1>11 DEF Next

(* Every variable of Announce keeps to its type, the bounds included, and  *)
(* a header is only ever allocated for a message that was sent.            *)
THEOREM TypeCorrect == Spec => []TypeOK
<1>1. Spec => []IInv
  BY InitIInv, NextIInv, PTL DEF Spec
<1>2. IInv => TypeOK
  BY DEF IInv
<1> QED  BY <1>1, <1>2, PTL

(* However packets are lost and sent again, and whenever answers come: the *)
(* server takes in what the scan found, unless the client has been left.   *)
THEOREM ArrivesAsFound == Spec => []TakenIntact
<1>1. Spec => []IInv
  BY InitIInv, NextIInv, PTL DEF Spec
<1>2. IInv => TakenIntact
  BY DEF IInv
<1> QED  BY <1>1, <1>2, PTL

(* MsQuic never reads a header the client has freed.                       *)
THEOREM HeaderReadAlive == Spec => []HeadersOutliveReads
<1>1. Spec => []IInv
  BY InitIInv, NextIInv, PTL DEF Spec
<1>2. IInv => HeadersOutliveReads
  BY DEF IInv
<1> QED  BY <1>1, <1>2, PTL

=============================================================================
