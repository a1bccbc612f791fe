---------------------------- MODULE FileIdFraming -----------------------------
(***************************************************************************)
(* How the client reads the file ids the server writes: the receive loop   *)
(* that QSyncClientControlStreamCallback and QSyncClientDataStreamCallback *)
(* share.  A stream carries bytes, and a buffer may begin and end anywhere *)
(* in an id, so the loop keeps the bytes of an id it has a part of.        *)
(*                                                                         *)
(* Data: a byte is its place in the stream, counted from 0, so byte b is   *)
(* byte b % IdBytes of the id b \div IdBytes.                              *)
(***************************************************************************)
EXTENDS Naturals, Sequences

CONSTANTS
  IdBytes,      \* sizeof(FileId)
  Ids,          \* how many ids the server writes: 1 on a data stream
  RestIsAlone,  \* no buffer with the rest of an id has anything after it
  InitialFileIdBytes
                \* what FileIdBytes may start from: {0} on a data stream, whose
                \* context is cleared by new; anything for the control stream,
                \* as the constructor of QsyncClient does not set it

ASSUME FileIdFramingAssumption ==
  /\ IdBytes \in Nat \ {0} /\ Ids \in Nat \ {0} /\ RestIsAlone \in BOOLEAN
  /\ InitialFileIdBytes \subseteq 0..(IdBytes - 1)    \* more writes beyond PartialFileIdBytes

VARIABLES
  indicated,            \* bytes of the stream in the buffers so far
  BufferLength, BytesRead,   \* of the buffer the loop is at
  reading,              \* the loop is running
  FileIdBytes,          \* bytes of the id read so far
  PartialFileIdBytes,
  found                 \* the ids that have been looked up in FileInfos

idVars == <<indicated, BufferLength, BytesRead, reading, FileIdBytes, PartialFileIdBytes, found>>

Places == 0..(IdBytes - 1)
NoByte == Ids * IdBytes
NoId == Ids

IdInit ==
  /\ indicated = 0 /\ BufferLength = 0 /\ BytesRead = 0 /\ reading = FALSE
  /\ FileIdBytes \in InitialFileIdBytes
  /\ PartialFileIdBytes = [p \in Places |-> NoByte]
  /\ found = << >>

IdTypeOK ==
  /\ indicated \in 0..NoByte /\ BufferLength \in 0..NoByte
  /\ BytesRead \in 0..(BufferLength + IdBytes) /\ reading \in BOOLEAN
  /\ FileIdBytes \in Places
  /\ PartialFileIdBytes \in [Places -> 0..NoByte]
  /\ found \in Seq(0..Ids)

\* Bytes of the buffer after BytesRead, and the place of its next one.
Remaining == BufferLength - BytesRead
NextByte == indicated - Remaining

\* memcpy(PartialFileIdBytes + first, Buffer + BytesRead, n)
Copy(first, n) ==
  [p \in Places |-> IF p \in first..(first + n - 1)
                      THEN NextByte + p - first ELSE PartialFileIdBytes[p]]

\* The FileId that the bytes are, if they are an id.
FileIdOf(bytes) ==
  IF \E k \in 0..(Ids - 1) : \A p \in Places : bytes[p] = k * IdBytes + p
    THEN bytes[0] \div IdBytes
    ELSE NoId

\* The loop's condition: BytesRead < Buffer->Length.
Advance(n) ==
  /\ BytesRead' = BytesRead + n
  /\ reading' = (BytesRead + n < BufferLength)

-----------------------------------------------------------------------------

\* The next buffer of a receive, or of the next receive.
IdReceive(n) ==
  /\ ~reading
  /\ RestIsAlone /\ FileIdBytes # 0 => n <= IdBytes - FileIdBytes
  /\ indicated' = indicated + n
  /\ BufferLength' = n /\ BytesRead' = 0 /\ reading' = TRUE
  /\ UNCHANGED <<FileIdBytes, PartialFileIdBytes, found>>

\* A bug: the loop takes the rest of an id for more of it.
ReadTinyInclusive ==
  /\ reading /\ FileIdBytes # 0 /\ Remaining <= IdBytes - FileIdBytes
  /\ PartialFileIdBytes' = Copy(FileIdBytes, Remaining)
  /\ FileIdBytes' = FileIdBytes + Remaining
  /\ Advance(Remaining)
  /\ UNCHANGED <<indicated, BufferLength, found>>

\* "Tiny receive...": more of an id, and not the rest of it.
ReadTiny ==
  /\ reading /\ FileIdBytes # 0 /\ Remaining < IdBytes - FileIdBytes
  /\ PartialFileIdBytes' = Copy(FileIdBytes, Remaining)
  /\ FileIdBytes' = FileIdBytes + Remaining
  /\ Advance(Remaining)
  /\ UNCHANGED <<indicated, BufferLength, found>>

\* "Completed the partial": FileIdBytes is cleared before BytesRead is moved on
\* by what it says is missing.
ReadRest ==
  /\ reading /\ FileIdBytes # 0 /\ Remaining >= IdBytes - FileIdBytes
  /\ PartialFileIdBytes' = Copy(FileIdBytes, IdBytes - FileIdBytes)
  /\ FileIdBytes' = 0
  /\ Advance(IdBytes - FileIdBytes')
  /\ found' = Append(found, FileIdOf(PartialFileIdBytes'))
  /\ UNCHANGED <<indicated, BufferLength>>

\* A bug: the bytes of a partial id replace those the loop has.
ReadPartialForgets ==
  /\ reading /\ FileIdBytes = 0 /\ Remaining < IdBytes
  /\ PartialFileIdBytes' = Copy(0, Remaining)
  /\ FileIdBytes' = 0
  /\ Advance(Remaining)
  /\ UNCHANGED <<indicated, BufferLength, found>>

\* "Read partial FileId": the buffer ends within an id.
ReadPartial ==
  /\ reading /\ FileIdBytes = 0 /\ Remaining < IdBytes
  /\ PartialFileIdBytes' = Copy(0, Remaining)
  /\ FileIdBytes' = Remaining
  /\ Advance(Remaining)
  /\ UNCHANGED <<indicated, BufferLength, found>>

ReadWhole ==
  /\ reading /\ FileIdBytes = 0 /\ Remaining >= IdBytes
  /\ PartialFileIdBytes' = Copy(0, IdBytes)
  /\ Advance(IdBytes)
  /\ found' = Append(found, FileIdOf(PartialFileIdBytes'))
  /\ UNCHANGED <<indicated, BufferLength, FileIdBytes>>

Read == ReadTiny \/ ReadRest \/ ReadPartial \/ ReadWhole

\* Every id has arrived.
IdsDone == ~reading /\ indicated = Ids * IdBytes /\ UNCHANGED idVars

IdNext == (\E n \in 1..(Ids * IdBytes - indicated) : IdReceive(n)) \/ Read \/ IdsDone

IdSpec == IdInit /\ [][IdNext]_idVars

-----------------------------------------------------------------------------
(* Properties *)

(* However the buffers cut the stream, every id is looked up once, in      *)
(* order, by the time the buffer with its last byte has been read: the     *)
(* file is opened (data stream) or its entry of FileInfos released         *)
(* (control stream).                                                       *)
IdsFound ==
  /\ \A k \in DOMAIN found : found[k] = k - 1
  /\ ~reading => Len(found) = indicated \div IdBytes

===============================================================================
