------------------------------ MODULE Announce ------------------------------
(***************************************************************************)
(* The memory of what the client announces.  Send takes two buffers that   *)
(* MsQuic, with send buffering disabled, reads whenever it transmits them: *)
(* the header, allocated for the call and freed when it completes, and the *)
(* body, the bytes of the entry in FileInfos, which a reply erases.        *)
(*                                                                         *)
(* Actors: the scan, in main's thread; MsQuic at the two ends, which       *)
(* transmits, acknowledges and transmits again; the server, which answers  *)
(* a message it has whole.  Packets are lost and overtake each other, and  *)
(* an acknowledgement may be late, or lost and sent again.  What an answer *)
(* says is not told apart: all erase the entry.  Memory that was freed     *)
(* holds garbage.                                                          *)
(***************************************************************************)
EXTENDS Naturals, Sequences, FiniteSets

CONSTANTS
  Files,       \* what the scan finds
  Ids,         \* the ways they may be given ids
  Faults,      \* what may go wrong: a Send, the connection
  MaxLost,     \* bound: how many packets are lost ...
  MaxAgain     \* ... and how many parts are transmitted again all the same

Parts == Files \X {"header", "body"}

ASSUME AnnounceAssumption ==
  /\ IsFiniteSet(Files) /\ \A i \in Ids : DOMAIN i = Files
  /\ Faults \subseteq {"send", "connection"}
  /\ MaxLost \in Nat /\ MaxAgain \in Nat

VARIABLES
  IdOf,        \* the ids, from FindFiles
  toScan,      \* files the scan has not come to
  stream,      \* what was given to Send, in order
  FileInfos,   \* the entries, whose memory is that of the bodies
  headers,     \* the files whose header is allocated
  client,      \* where the program is
  connection,
  \* MsQuic and the server
  network,     \* packets under way
  lost, again, \* how many were lost, and transmitted without need
  acked,       \* what the client knows to be there
  got,         \* what the server has of each part
  answered, replies,
  stray        \* history: the parts that were read when freed

clientVars == <<IdOf, toScan, stream, FileInfos, headers, client, connection>>
netVars == <<network, lost, again, acked, got, answered, replies>>
vars == <<clientVars, netVars, stray>>

Init ==
  /\ IdOf \in Ids
  /\ toScan = Files /\ stream = << >>
  /\ FileInfos = {} /\ headers = {}
  /\ client = "scanning" /\ connection = "up"
  /\ network = {} /\ lost = 0 /\ again = 0 /\ acked = {}
  /\ got = [p \in Parts |-> "none"]
  /\ answered = {} /\ replies = {} /\ stray = {}

Sent == {stream[i] : i \in DOMAIN stream}
Ending == {"exiting", "closed"}

TypeOK ==
  /\ IdOf \in Ids
  /\ toScan \subseteq Files /\ stream \in Seq(Files \ toScan)
  /\ FileInfos \subseteq Files \ toScan
  /\ headers \subseteq Sent
  /\ client \in {"scanning", "waiting", "exited"} \cup Ending
  /\ connection \in {"up", "lost"}
  /\ network \subseteq Parts \X {"good", "garbage"}
  /\ lost \in 0..MaxLost /\ again \in 0..MaxAgain
  /\ acked \subseteq Parts
  /\ got \in [Parts -> {"none", "good", "garbage"}]
  /\ replies \subseteq answered /\ answered \subseteq Sent
  /\ stray \subseteq Parts

-----------------------------------------------------------------------------
(* The scan's callback *)

Collides(f) == \E g \in FileInfos : IdOf[g] = IdOf[f]

\* A bug: the header is freed whether Send fails or not.
AnnounceFreeing(f) ==
  /\ client = "scanning" /\ f \in toScan /\ ~Collides(f)
  /\ connection = "up"
  /\ toScan' = toScan \ {f}
  /\ FileInfos' = FileInfos \cup {f}
  /\ stream' = Append(stream, f)
  /\ UNCHANGED <<IdOf, headers, client, connection, netVars, stray>>

Announce(f) ==
  /\ client = "scanning" /\ f \in toScan /\ ~Collides(f)
  /\ connection = "up"
  /\ toScan' = toScan \ {f}
  /\ FileInfos' = FileInfos \cup {f}
  /\ headers' = headers \cup {f}
  /\ stream' = Append(stream, f)
  /\ UNCHANGED <<IdOf, client, connection, netVars, stray>>

\* A bug: the header of a message that was not sent is not freed.
AnnounceFailsLeaking(f) ==
  /\ client = "scanning" /\ f \in toScan /\ ~Collides(f)
  /\ "send" \in Faults \/ connection = "lost"
  /\ toScan' = toScan \ {f}
  /\ FileInfos' = FileInfos \cup {f}
  /\ headers' = headers \cup {f}
  /\ UNCHANGED <<IdOf, stream, client, connection, netVars, stray>>

\* Send fails: the header is freed at once, the entry stays.
AnnounceFails(f) ==
  /\ client = "scanning" /\ f \in toScan /\ ~Collides(f)
  /\ "send" \in Faults \/ connection = "lost"
  /\ toScan' = toScan \ {f}
  /\ FileInfos' = FileInfos \cup {f}
  /\ UNCHANGED <<IdOf, stream, headers, client, connection, netVars, stray>>

\* Another entry that was not answered yet has the id: exit(0).
AnnounceCollides(f) ==
  /\ client = "scanning" /\ f \in toScan /\ Collides(f)
  /\ client' = "exited"
  /\ UNCHANGED <<IdOf, toScan, stream, FileInfos, headers, connection, netVars, stray>>

\* A bug: ABORT_SEND for GRACEFUL: what is under way is canceled.
ShutdownAborts ==
  /\ client = "scanning" /\ toScan = {}
  /\ client' = "waiting"
  /\ acked' = Parts /\ network' = {}
  /\ UNCHANGED <<IdOf, toScan, stream, FileInfos, headers, connection, lost, again, got,
                 answered, replies, stray>>

\* The graceful Shutdown: what was sent stays to be transmitted.  Start returns.
Shutdown ==
  /\ client = "scanning" /\ toScan = {}
  /\ client' = "waiting"
  /\ UNCHANGED <<IdOf, toScan, stream, FileInfos, headers, connection, netVars, stray>>

-----------------------------------------------------------------------------
(* MsQuic and the server *)

\* A bug: the entry is a copy of File, whose bytes go with the callback.
EntryCopied(f) == FALSE

\* The entry has taken the bytes of File over: they are there as long as it is.
EntryHere(f) == f \in FileInfos

Here(p) == IF p[2] = "header" THEN p[1] \in headers ELSE EntryHere(p[1])

\* A part is read from memory and put into a packet.
Read(p) ==
  /\ client \notin {"closed", "exited"} /\ connection = "up"
  /\ p[1] \in Sent /\ p \notin acked
  /\ network' = network \cup {<<p, IF Here(p) THEN "good" ELSE "garbage">>}
  /\ stray' = IF Here(p) THEN stray ELSE stray \cup {p}
  /\ UNCHANGED <<clientVars, lost, acked, got, answered, replies>>

Needed(p) == got[p] = "none" /\ \A n \in network : n[1] # p

\* For the first time, or because it was lost.
Transmit(p) == Needed(p) /\ Read(p) /\ UNCHANGED again

\* Because its acknowledgement is late, or it is itself.
TransmitAgain(p) ==
  /\ again < MaxAgain /\ ~Needed(p)
  /\ again' = again + 1
  /\ Read(p)

\* Of a part that comes again the server keeps what it has.
Deliver(p) ==
  \E content \in {"good", "garbage"} :
    /\ <<p, content>> \in network
    /\ network' = network \ {<<p, content>>}
    /\ got' = [got EXCEPT ![p] = IF @ = "none" THEN content ELSE @]
    /\ UNCHANGED <<clientVars, lost, again, acked, answered, replies, stray>>

Lose(p) ==
  /\ lost < MaxLost /\ ~Needed(p)
  /\ network' = {n \in network : n[1] # p} /\ network' # network
  /\ lost' = lost + 1
  /\ UNCHANGED <<clientVars, again, acked, got, answered, replies, stray>>

\* The client learns that the server has a part, sooner or later.
Acknowledge(p) ==
  /\ got[p] # "none" /\ p \notin acked
  /\ client \notin {"closed", "exited"} /\ connection = "up"
  /\ acked' = acked \cup {p}
  /\ UNCHANGED <<clientVars, network, lost, again, got, answered, replies, stray>>

Whole(f) == \A p \in Parts : p[1] = f => got[p] # "none"

\* The server has the stream up to here, and answers; it need not.
Answer(f) ==
  /\ f \in Sent \ answered /\ connection = "up"
  /\ \E i \in DOMAIN stream : stream[i] = f /\ \A j \in 1..i : Whole(stream[j])
  /\ answered' = answered \cup {f} /\ replies' = replies \cup {f}
  /\ UNCHANGED <<clientVars, network, lost, again, acked, got, stray>>

ConnectionLost ==
  /\ "connection" \in Faults /\ connection = "up"
  /\ connection' = "lost"
  /\ network' = {} /\ replies' = {}
  /\ UNCHANGED <<IdOf, toScan, stream, FileInfos, headers, client, lost, again, acked,
                 got, answered, stray>>

-----------------------------------------------------------------------------
(* The client's callbacks, and its end *)

\* All is acknowledged, or canceled.
Completed(f) == connection = "lost" \/ \A p \in Parts : p[1] = f => p \in acked

\* SEND_COMPLETE
SendComplete(f) ==
  /\ client \notin {"closed", "exited"}
  /\ f \in headers /\ Completed(f)
  /\ headers' = headers \ {f}
  /\ UNCHANGED <<IdOf, toScan, stream, FileInfos, client, connection, netVars, stray>>

\* The id comes back on the control stream, or on a data stream that asks
\* for the file: its entry is erased.
ReceiveReply(f) ==
  /\ client \in {"scanning", "waiting"}
  /\ f \in replies
  /\ replies' = replies \ {f}
  /\ FileInfos' = {g \in FileInfos : IdOf[g] # IdOf[f]}
  /\ UNCHANGED <<IdOf, toScan, stream, headers, client, connection, network, lost,
                 again, acked, got, answered, stray>>

\* Enter: FileInfos is destroyed before ControlStream and Connection.
Exit ==
  /\ client = "waiting"
  /\ client' = "exiting" /\ FileInfos' = {}
  /\ UNCHANGED <<IdOf, toScan, stream, headers, connection, netVars, stray>>

\* ControlStream is closed, which completes what was sent, then Connection.
Close ==
  /\ client = "exiting"
  /\ client' = "closed" /\ headers' = {}
  /\ UNCHANGED <<IdOf, toScan, stream, FileInfos, connection, netVars, stray>>

-----------------------------------------------------------------------------

Next ==
  \/ \E f \in Files :
       \/ Announce(f) \/ AnnounceFails(f) \/ AnnounceCollides(f)
       \/ Answer(f) \/ SendComplete(f) \/ ReceiveReply(f)
  \/ \E p \in Parts : Transmit(p) \/ TransmitAgain(p) \/ Deliver(p) \/ Lose(p) \/ Acknowledge(p)
  \/ Shutdown \/ ConnectionLost \/ Exit \/ Close

(* Fairness: MsQuic transmits what is not acknowledged, what is not lost   *)
(* arrives, and a completed Send is indicated; destructors go on.          *)
Fairness ==
  /\ \A p \in Parts : WF_vars(Transmit(p)) /\ WF_vars(Deliver(p)) /\ WF_vars(Acknowledge(p))
  /\ \A f \in Files : WF_vars(SendComplete(f))
  /\ WF_vars(Close)

Spec == Init /\ [][Next]_vars /\ Fairness

-----------------------------------------------------------------------------
(* Properties *)

(* What the server takes in is what the scan has found, though the entry   *)
(* may be erased while its bytes are still to be acknowledged: nothing is  *)
(* read for the first time after its entry is gone.  Only a client that is *)
(* left before all is transmitted may send what is no longer there.        *)
TakenIntact == \A p \in Parts : got[p] = "garbage" => client \in Ending

(* A header is freed by SEND_COMPLETE or by the Send that failed, never    *)
(* while MsQuic may still read it.                                         *)
HeadersOutliveReads == \A p \in stray : p[2] = "body"

(* And it is freed: when acknowledged, canceled, or when the stream closes. *)
HeadersFreed ==
  \A f \in Files : f \in headers ~> f \notin headers \/ client = "exited"

(* The graceful shutdown after the scan lets everything announced get      *)
(* through.                                                                *)
AnnouncedArrives ==
  \A f \in Files :
    f \in Sent ~> Whole(f) \/ connection = "lost" \/ client \notin {"scanning", "waiting"}

=============================================================================
