------------------------------ MODULE SyncProofs ------------------------------
(***************************************************************************)
(* Theorems about Sync, for any folder tree, any destination, any limit on *)
(* streams and any failures.                                               *)
(*                                                                         *)
(* All rest on the way an item goes: from the scan to the control stream,  *)
(* to the Pool's queue, to its only thread, to a reply or a data stream.   *)
(* It is in one place at a time (Once), which is why an id that comes back *)
(* erases no entry still needed; behind its folder (Ordered), which is why *)
(* the folder is there; and what has left the Pool (Leaves) is current, or *)
(* asked for, or has failed (Caught), so that a second run has nothing to  *)
(* do and nothing is kept in FileInfos (Held).                             *)
(***************************************************************************)
EXTENDS Sync, SequenceTheorems, TLAPS

In(s, x) == \E k \in DOMAIN s : s[k] = x
Distinct(s) == \A j, k \in DOMAIN s : s[j] = s[k] => j = k
ParentsFirst(s) == \A j, k \in DOMAIN s : Parent[s[j]] = s[k] => k < j

Announcing(i) == step # "scan" /\ item = i
Sent(i) == In(control, i)
Queued(i) == In(queue, i)
Deciding(i) == running[1] = i /\ pc[1] \in {"decide", "dir", "file", "current"}
Replied(i) == In(replies, i)
Streamed(i) == streams[i] # "none"

\* An item is in one place at a time.
Once ==
  /\ Distinct(control) /\ Distinct(queue) /\ Distinct(replies)
  /\ step # "scan" => item \in Items
  /\ \A i \in Items :
       /\ i \in toScan =>
            ~Announcing(i) /\ ~Sent(i) /\ ~Queued(i) /\ ~Deciding(i) /\ ~Replied(i) /\ ~Streamed(i)
       /\ Announcing(i) => ~Sent(i) /\ ~Queued(i) /\ ~Deciding(i) /\ ~Replied(i) /\ ~Streamed(i)
       /\ Sent(i) => ~Queued(i) /\ ~Deciding(i) /\ ~Replied(i) /\ ~Streamed(i)
       /\ Queued(i) => ~Deciding(i) /\ ~Replied(i) /\ ~Streamed(i)
       /\ Deciding(i) => ~Replied(i) /\ ~Streamed(i)
       /\ Replied(i) => ~Streamed(i)

\* Until FileInfos is raced, it has every item on its way to an answer.
Known ==
  ~raced => \A i \in Items :
    /\ step = "send" /\ item = i => i \in FileInfos
    /\ Sent(i) \/ Queued(i) \/ Deciding(i) => i \in FileInfos
    /\ streams[i] \in {"started", "open"} => i \in FileInfos
    /\ streams[i] # "unanswered"

LEMMA OneThread == Threads = {1}
  BY DEF Threads, PoolSize

\* What an item at the end of a sequence changes.
LEMMA Appended ==
  ASSUME NEW s \in Seq(Items), NEW x \in Items
  PROVE  /\ Append(s, x) \in Seq(Items)
         /\ \A y : In(Append(s, x), y) <=> In(s, y) \/ y = x
         /\ Distinct(s) /\ ~In(s, x) => Distinct(Append(s, x))
         /\ /\ ParentsFirst(s) /\ ~In(s, x) /\ Parent[x] # x
            /\ \A y \in Items : In(s, y) => Parent[y] # x
            => ParentsFirst(Append(s, x))
<1> DEFINE t == Append(s, x)
           n == Len(s)
<1>1. /\ t \in Seq(Items) /\ n \in Nat /\ DOMAIN s = 1..n /\ DOMAIN t = 1..(n + 1)
      /\ t[n + 1] = x /\ \A k \in 1..n : t[k] = s[k] /\ s[k] \in Items
  BY AppendProperties, LenProperties
<1> HIDE DEF t, n
<1>2. \A y : In(t, y) <=> In(s, y) \/ y = x
  <2>1. \A k \in 1..(n + 1) : k \in 1..n \/ k = n + 1
    BY <1>1
  <2>2. \A k \in 1..n : k \in 1..(n + 1)
    BY <1>1
  <2>3. n + 1 \in 1..(n + 1)
    BY <1>1
  <2>4. QED
    BY <1>1, <2>1, <2>2, <2>3 DEF In
<1>3. ASSUME Distinct(s), ~In(s, x) PROVE Distinct(t)
  <2>1. ASSUME NEW j \in 1..(n + 1), NEW k \in 1..(n + 1), t[j] = t[k] PROVE j = k
    <3>1. CASE j \in 1..n /\ k \in 1..n
      BY <1>1, <1>3, <2>1, <3>1 DEF Distinct
    <3>2. CASE j = n + 1 /\ k \in 1..n
      BY <1>1, <1>3, <2>1, <3>2 DEF In
    <3>3. CASE j \in 1..n /\ k = n + 1
      BY <1>1, <1>3, <2>1, <3>3 DEF In
    <3>4. QED
      BY <1>1, <3>1, <3>2, <3>3
  <2>2. QED
    BY <1>1, <2>1 DEF Distinct
<1>4. ASSUME ParentsFirst(s), ~In(s, x), Parent[x] # x,
             \A y \in Items : In(s, y) => Parent[y] # x
      PROVE  ParentsFirst(t)
  <2>1. ASSUME NEW j \in 1..(n + 1), NEW k \in 1..(n + 1), Parent[t[j]] = t[k] PROVE k < j
    <3>1. CASE j \in 1..n /\ k \in 1..n
      BY <1>1, <1>4, <2>1, <3>1 DEF ParentsFirst
    <3>2. CASE j = n + 1 /\ k \in 1..n
      BY <1>1, <3>2
    <3>3. CASE j \in 1..n /\ k = n + 1
      <4>1. In(s, s[j]) /\ s[j] \in Items /\ t[j] = s[j] /\ t[k] = x
        BY <1>1, <3>3 DEF In
      <4>2. QED
        BY <1>4, <2>1, <4>1
    <3>4. CASE j = n + 1 /\ k = n + 1
      BY <1>1, <1>4, <2>1, <3>4
    <3>5. QED
      BY <1>1, <3>1, <3>2, <3>3, <3>4
  <2>2. QED
    BY <1>1, <2>1 DEF ParentsFirst
<1>5. QED
  BY <1>1, <1>2, <1>3, <1>4 DEF t

\* What taking its head changes.
LEMMA Taken ==
  ASSUME NEW s \in Seq(Items), s # << >>
  PROVE  /\ Tail(s) \in Seq(Items) /\ Head(s) \in Items /\ In(s, Head(s))
         /\ \A y : In(s, y) <=> In(Tail(s), y) \/ y = Head(s)
         /\ Distinct(s) => Distinct(Tail(s)) /\ ~In(Tail(s), Head(s))
         /\ ParentsFirst(s) => ParentsFirst(Tail(s)) /\ ~In(Tail(s), Parent[Head(s)])
<1> DEFINE t == Tail(s)
           n == Len(s)
<1>1. /\ t \in Seq(Items) /\ n \in Nat \ {0} /\ Head(s) \in Items /\ Head(s) = s[1]
      /\ DOMAIN s = 1..n /\ DOMAIN t = 1..(n - 1)
      /\ \A k \in 1..(n - 1) : t[k] = s[k + 1]
  BY HeadTailProperties, LenProperties, EmptySeq
<1>2. /\ 1 \in 1..n /\ \A k \in 1..(n - 1) : k + 1 \in 1..n /\ k + 1 # 1
      /\ \A k \in 1..n : k = 1 \/ (k - 1 \in 1..(n - 1) /\ (k - 1) + 1 = k)
  BY <1>1
<1> HIDE DEF t, n
<1>3. \A y : In(s, y) <=> In(t, y) \/ y = Head(s)
  <2>1. ASSUME NEW y, In(s, y) PROVE In(t, y) \/ y = Head(s)
    <3>1. PICK k \in 1..n : s[k] = y
      BY <1>1, <2>1 DEF In
    <3>2. CASE k = 1
      BY <1>1, <3>1, <3>2
    <3>3. CASE k # 1
      <4>1. t[k - 1] = y /\ k - 1 \in 1..(n - 1)
        BY <1>1, <1>2, <3>1, <3>3
      <4>2. QED
        BY <1>1, <4>1 DEF In
    <3>4. QED
      BY <3>2, <3>3
  <2>2. ASSUME NEW y, In(t, y) PROVE In(s, y)
    <3>1. PICK k \in 1..(n - 1) : t[k] = y
      BY <1>1, <2>2 DEF In
    <3>2. k + 1 \in 1..n /\ s[k + 1] = y
      BY <1>1, <1>2, <3>1
    <3>3. QED
      BY <1>1, <3>2 DEF In
  <2>3. In(s, Head(s))
    BY <1>1, <1>2 DEF In
  <2>4. QED
    BY <2>1, <2>2, <2>3
<1>4. ASSUME Distinct(s) PROVE Distinct(t) /\ ~In(t, Head(s))
  <2>1. ASSUME NEW j \in 1..(n - 1), NEW k \in 1..(n - 1), t[j] = t[k] PROVE j = k
    <3>1. s[j + 1] = s[k + 1] /\ j + 1 \in 1..n /\ k + 1 \in 1..n
      BY <1>1, <1>2, <2>1
    <3>2. j + 1 = k + 1
      BY <1>1, <1>4, <3>1 DEF Distinct
    <3>3. QED
      BY <3>2, <1>1
  <2>2. ASSUME NEW k \in 1..(n - 1), t[k] = Head(s) PROVE FALSE
    BY <1>1, <1>2, <1>4, <2>2 DEF Distinct
  <2>3. QED
    BY <1>1, <2>1, <2>2 DEF Distinct, In
<1>5. ASSUME ParentsFirst(s) PROVE ParentsFirst(t) /\ ~In(t, Parent[Head(s)])
  <2>1. ASSUME NEW j \in 1..(n - 1), NEW k \in 1..(n - 1), Parent[t[j]] = t[k] PROVE k < j
    <3>1. Parent[s[j + 1]] = s[k + 1] /\ j + 1 \in 1..n /\ k + 1 \in 1..n
      BY <1>1, <1>2, <2>1
    <3>2. k + 1 < j + 1
      BY <1>1, <1>5, <3>1 DEF ParentsFirst
    <3>3. QED
      BY <3>2, <1>1
  <2>2. ASSUME NEW k \in 1..(n - 1), t[k] = Parent[Head(s)] PROVE FALSE
    <3>1. Parent[s[1]] = s[k + 1] /\ k + 1 \in 1..n /\ 1 \in 1..n
      BY <1>1, <1>2, <2>2
    <3>2. k + 1 < 1
      BY <1>1, <1>5, <3>1 DEF ParentsFirst
    <3>3. QED
      BY <3>2, <1>1
  <2>3. QED
    BY <1>1, <2>1, <2>2 DEF ParentsFirst, In
<1>6. In(s, Head(s))
  BY <1>3
<1>7. QED
  BY <1>1, <1>3, <1>4, <1>5, <1>6 DEF t


-----------------------------------------------------------------------------
(* Types *)

LEMMA SecondsType ==
  ASSUME NEW time \in Nat PROVE Seconds(time) \in Nat
  BY DEF Seconds

LEMMA SourceNode ==
  ASSUME src \in Sources, NEW i \in Items
  PROVE  src[i] \in Node /\ src[i].kind \in {"dir", "file"}
         /\ src[i].time \in Nat /\ src[i].size \in Nat
  BY SyncAssumption DEF Node

Copy(i, kind, time) == [kind |-> kind, time |-> time, size |-> src[i].size]

LEMMA CopyNode ==
  ASSUME src \in Sources, NEW i \in Items, NEW kind \in {"dir", "file"}, NEW time \in Nat
  PROVE  Copy(i, kind, time) \in Node
  BY SourceNode DEF Copy, Node

\* The time of what is at i is set.
Stamped(d, i, time) == [d EXCEPT ![i].time = time]

LEMMA TimeSet ==
  ASSUME NEW d \in [Items -> Node \cup {None}], NEW i \in Items, NEW time \in Nat,
         d[i] # None
  PROVE  /\ Stamped(d, i, time) \in [Items -> Node \cup {None}]
         /\ \A j \in Items : /\ Stamped(d, i, time)[j] = None <=> d[j] = None
                             /\ d[j] # None => Stamped(d, i, time)[j].kind = d[j].kind
<1>1. d[i] \in Node
  OBVIOUS
<1> DEFINE new == [d[i] EXCEPT !.time = time]
<1>2. new \in Node /\ new.kind = d[i].kind
  BY <1>1 DEF Node
<1>3. new # None
  BY <1>2, SyncAssumption
<1>4. Stamped(d, i, time) = [d EXCEPT ![i] = new]
  BY DEF Stamped
<1> HIDE DEF new
<1>5. QED
  BY <1>2, <1>3, <1>4

\* Something is put into a folder.
LEMMA PutInto ==
  ASSUME dst \in [Items -> Node \cup {None}], behind \subseteq Items, NEW i \in Items,
         NEW node \in Node \cup {None}, dst[i] # None => node # None,
         NEW now \in Nat, Make(i, node, now)
  PROVE  /\ dst' \in [Items -> Node \cup {None}]
         /\ node # None => dst'[i] # None /\ dst'[i].kind = node.kind
         /\ \A j \in Items : dst[j] # None =>
              dst'[j] # None /\ (j # i => dst'[j].kind = dst[j].kind)
         /\ behind' \subseteq Items
<1> DEFINE d == [dst EXCEPT ![i] = node]
           p == Parent[i]
<1>1. /\ d \in [Items -> Node \cup {None}] /\ d[i] = node
      /\ \A j \in Items \ {i} : d[j] = dst[j]
      /\ dst' = Touched(d, p, now)
  BY DEF Make
<1>2. behind' \subseteq Items
  BY SyncAssumption DEF Make, BehindAfter
<1>3. CASE p = Base
  BY <1>1, <1>2, <1>3 DEF Touched
<1>4. CASE p # Base
  <2>1. p \in Items /\ d[p] # None
    BY <1>1, <1>4, SyncAssumption DEF IsFolder, Make
  <2>2. dst' = Stamped(d, p, now)
    BY <1>1, <1>4 DEF Touched, Stamped
  <2> HIDE DEF d, p
  <2>3. /\ dst' \in [Items -> Node \cup {None}]
        /\ \A j \in Items : /\ dst'[j] = None <=> d[j] = None
                            /\ d[j] # None => dst'[j].kind = d[j].kind
    BY <1>1, <2>1, <2>2, TimeSet
  <2>4. QED
    BY <1>1, <1>2, <2>3
<1>5. QED
  BY <1>3, <1>4

LEMMA ClockType == ASSUME NEW now \in Clock PROVE now \in Nat
  BY SyncAssumption

\* What a folder's item does at the destination: nothing, unless the folder
\* is made or its time set.
LEMMA DirEffect ==
  ASSUME TypeOK, NEW t \in Threads, WorkerDir(t)
  PROVE  /\ running[t] \in Items
         /\ dst' \in [Items -> Node \cup {None}] /\ behind' \subseteq Items
         /\ \A j \in Items : dst[j] # None => dst'[j] # None /\ dst'[j].kind = dst[j].kind
         /\ dst'[running[t]] # None \/ running[t] \in failed' \cup orphans'
         /\ failed \subseteq failed' /\ failed' \subseteq Items
         /\ orphans' = orphans \/ /\ orphans' = orphans \cup {running[t]}
                                  /\ ~IsFolder(Parent[running[t]])
         /\ raced' = raced
<1> DEFINE i == running[t]
<1>1. /\ i \in Items /\ dst \in [Items -> Node \cup {None}] /\ src \in Sources
      /\ behind \subseteq Items
  BY DEF TypeOK, WorkerDir
<1>2. Seconds(src[i].time) \in Nat
  BY <1>1, SourceNode, SecondsType
<1>3. CASE /\ dst[i] # None
           /\ dst' = [dst EXCEPT ![i].time = Seconds(src[i].time)]
           /\ behind' = behind \ {i} /\ UNCHANGED history
  <2>1. dst' = Stamped(dst, i, Seconds(src[i].time))
    BY <1>3 DEF Stamped
  <2>2. /\ dst[i] # None /\ orphans' = orphans /\ raced' = raced /\ failed' = failed
        /\ failed \subseteq Items /\ behind' \subseteq Items
    BY <1>1, <1>3 DEF history, TypeOK
  <2> HIDE DEF i
  <2>3. QED
    BY <1>1, <1>2, <2>1, <2>2, TimeSet DEF i
<1>4. ASSUME NEW time \in Nat, NEW now \in Clock, dst[i] = None,
             Make(i, Copy(i, "dir", time), now)
      PROVE  /\ dst' \in [Items -> Node \cup {None}] /\ dst'[i] # None
             /\ \A j \in Items : dst[j] # None => dst'[j] # None /\ dst'[j].kind = dst[j].kind
             /\ behind' \subseteq Items
  <2> DEFINE node == Copy(i, "dir", time)
  <2>1. node \in Node /\ node # None /\ Make(i, node, now) /\ now \in Nat
    BY <1>1, <1>4, CopyNode, ClockType, SyncAssumption
  <2> HIDE DEF node, i
  <2>2. QED
    BY <1>1, <1>4, <2>1, PutInto
<1>5. CASE /\ dst[i] = None
           /\ \E now \in Clock : Make(i, Copy(i, "dir", Seconds(src[i].time)), now)
           /\ UNCHANGED history
  <2>1. orphans' = orphans /\ raced' = raced /\ failed' = failed /\ failed \subseteq Items
    BY <1>5 DEF history, TypeOK
  <2> HIDE DEF i
  <2>2. QED
    BY <1>1, <1>2, <1>4, <1>5, <2>1 DEF i
<1>6. CASE /\ dst[i] = None /\ ~IsFolder(Parent[i])
           /\ orphans' = orphans \cup {i} /\ UNCHANGED <<dstVars, failed, raced>>
  BY <1>1, <1>6 DEF TypeOK, dstVars
<1>7. CASE /\ Fail(i)
           /\ \/ UNCHANGED dstVars
              \/ dst[i] = None /\ \E now \in Clock : Make(i, Copy(i, "dir", now), now)
  <2>1. orphans' = orphans /\ raced' = raced /\ failed' = failed \cup {i} /\ failed \subseteq Items
    BY <1>7 DEF Fail, TypeOK
  <2>2. CASE UNCHANGED dstVars
    BY <1>1, <2>1, <2>2 DEF dstVars
  <2>3. CASE dst[i] = None /\ \E now \in Clock : Make(i, Copy(i, "dir", now), now)
    <3> HIDE DEF i
    <3>1. QED
      BY <1>1, <1>4, <2>1, <2>3, ClockType DEF i
  <2>4. QED
    BY <1>7, <2>2, <2>3
<1>8. QED
  BY <1>3, <1>5, <1>6, <1>7 DEF WorkerDir, Copy

\* What the end of a transfer does, or a transfer that stalls.
LEMMA InstallEffect ==
  ASSUME TypeOK, NEW i \in Items, Install(i) \/ Stall(i)
  PROVE  /\ dst' \in [Items -> Node \cup {None}] /\ behind' \subseteq Items
         /\ \A j \in Items : dst[j] # None =>
              dst'[j] # None /\ (j # i => dst'[j].kind = dst[j].kind)
         /\ failed \subseteq failed' /\ failed' \subseteq Items
         /\ orphans' = orphans \/ (orphans' = orphans \cup {i} /\ ~IsFolder(Parent[i]))
         /\ raced' = raced
<1>1. /\ dst \in [Items -> Node \cup {None}] /\ src \in Sources /\ behind \subseteq Items
      /\ failed \subseteq Items
  BY DEF TypeOK
<1>2. ASSUME NEW node \in Node \cup {None}, dst[i] # None => node # None, NEW now \in Clock,
             Make(i, node, now)
      PROVE  /\ dst' \in [Items -> Node \cup {None}] /\ behind' \subseteq Items
             /\ \A j \in Items : dst[j] # None =>
                  dst'[j] # None /\ (j # i => dst'[j].kind = dst[j].kind)
  BY <1>1, <1>2, ClockType, PutInto
<1>3. ASSUME NEW time \in Nat, NEW now \in Clock, Make(i, Copy(i, "file", time), now)
      PROVE  /\ dst' \in [Items -> Node \cup {None}] /\ behind' \subseteq Items
             /\ \A j \in Items : dst[j] # None =>
                  dst'[j] # None /\ (j # i => dst'[j].kind = dst[j].kind)
  <2>1. Copy(i, "file", time) \in Node /\ Copy(i, "file", time) # None
    BY <1>1, CopyNode, SyncAssumption
  <2>2. QED
    BY <1>2, <1>3, <2>1
<1>4. ASSUME NEW now \in Clock, Make(i, dst[i], now)
      PROVE  /\ dst' \in [Items -> Node \cup {None}] /\ behind' \subseteq Items
             /\ \A j \in Items : dst[j] # None =>
                  dst'[j] # None /\ (j # i => dst'[j].kind = dst[j].kind)
  BY <1>1, <1>2, <1>4
<1>5. Seconds(src[i].time) \in Nat
  BY <1>1, SourceNode, SecondsType
<1>6. CASE /\ \E now \in Clock : Make(i, Copy(i, "file", Seconds(src[i].time)), now)
           /\ UNCHANGED history
  BY <1>1, <1>3, <1>5, <1>6 DEF history
<1>7. CASE /\ ~IsFolder(Parent[i])
           /\ orphans' = orphans \cup {i} /\ UNCHANGED <<dstVars, failed, raced>>
  BY <1>1, <1>7 DEF dstVars
<1>8. CASE /\ Fail(i)
           /\ \/ UNCHANGED dstVars
              \/ \E now \in Clock : Make(i, dst[i], now) \/ Make(i, Copy(i, "file", now), now)
  <2>1. orphans' = orphans /\ raced' = raced /\ failed' = failed \cup {i}
    BY <1>8 DEF Fail
  <2>2. CASE UNCHANGED dstVars
    BY <1>1, <2>1, <2>2 DEF dstVars
  <2>3. ASSUME NEW now \in Clock, Make(i, dst[i], now) \/ Make(i, Copy(i, "file", now), now)
        PROVE  /\ dst' \in [Items -> Node \cup {None}] /\ behind' \subseteq Items
               /\ \A j \in Items : dst[j] # None =>
                    dst'[j] # None /\ (j # i => dst'[j].kind = dst[j].kind)
    BY <1>3, <1>4, <2>3, ClockType
  <2>4. QED
    BY <1>1, <1>8, <2>1, <2>2, <2>3
<1>9. CASE Stall(i)
  <2>1. /\ Fail(i)
        /\ UNCHANGED dstVars \/ \E now \in Clock : Make(i, dst[i], now)
    BY <1>9 DEF Stall
  <2>2. QED
    BY <1>8, <2>1
<1>10. QED
  BY <1>6, <1>7, <1>8, <1>9 DEF Install, Copy


LEMMA InitTypeOK == Init => TypeOK
<1> SUFFICES ASSUME Init PROVE TypeOK
  OBVIOUS
<1>1. << >> \in Seq(Items)
  OBVIOUS
<1>2. dst \in [Items -> Node \cup {None}]
  BY SyncAssumption DEF Init
<1>3. QED
  BY <1>1, <1>2 DEF Init, Pool!Init, TypeOK

LEMMA NextTypeOK == TypeOK /\ Once /\ [Next]_vars => TypeOK'
<1> SUFFICES ASSUME TypeOK, Once, [Next]_vars PROVE TypeOK'
  OBVIOUS
<1>1. ASSUME NEW i \in Items, ScanItem(i) PROVE TypeOK'
  BY <1>1 DEF ScanItem, TypeOK, Fail, history, poolVars, dstVars
<1>2. CASE Emplace
  BY <1>2 DEF Emplace, TypeOK, Once, history, poolVars, dstVars
<1>3. CASE Send
  <2>1. item \in Items /\ control \in Seq(Items)
    BY <1>3 DEF Send, Once, TypeOK
  <2>2. Append(control, item) \in Seq(Items)
    BY <2>1, Appended
  <2>3. QED
    BY <1>3, <2>1, <2>2 DEF Send, TypeOK, Fail, history, poolVars, dstVars
<1>4. CASE ReceiveMessage
  <2>1. /\ Head(control) \in Items /\ Tail(control) \in Seq(Items)
        /\ Append(queue, Head(control)) \in Seq(Items)
    BY <1>4, Taken, Appended DEF ReceiveMessage, TypeOK
  <2>2. QED
    BY <1>4, <2>1 DEF ReceiveMessage, Pool!Submit, TypeOK, history, scanVars, dstVars
<1>5. CASE ReceiveReply
  <2>1. Tail(replies) \in Seq(Items)
    BY <1>5, Taken DEF ReceiveReply, TypeOK
  <2>2. QED
    BY <1>5, <2>1 DEF ReceiveReply, Meets, TypeOK, scanVars, poolVars, dstVars
<1>6. ASSUME NEW t \in Threads, WorkerStart(t) PROVE TypeOK'
  <2>1. Tail(queue) \in Seq(Items) /\ Head(queue) \in Items
    BY <1>6, Taken DEF WorkerStart, Pool!Start, TypeOK
  <2>2. QED
    BY <1>6, <2>1, SyncAssumption DEF WorkerStart, Pool!Start, TypeOK, history, scanVars, dstVars
<1>7. ASSUME NEW t \in Threads, WorkerDecide(t) PROVE TypeOK'
  <2>1. running[t] \in Items
    BY <1>7 DEF WorkerDecide, TypeOK
  <2>2. src[running[t]].kind \in {"dir", "file"}
    BY <2>1, SourceNode DEF TypeOK
  <2>3. QED
    BY <1>7, <2>1, <2>2 DEF WorkerDecide, TypeOK, Fail, history, scanVars, dstVars, poolVars
<1>8. ASSUME NEW t \in Threads, WorkerDir(t) PROVE TypeOK'
  <2>1. /\ dst' \in [Items -> Node \cup {None}] /\ behind' \subseteq Items
        /\ failed' \subseteq Items
        /\ orphans' \subseteq Items /\ raced' = raced
    BY <1>8, DirEffect DEF TypeOK
  <2>2. /\ pc[t] = "dir" /\ pc' = [pc EXCEPT ![t] = "done"]
        /\ UNCHANGED <<src, scanVars, FileInfos, control, replies, poolVars, streams>>
    BY <1>8 DEF WorkerDir
  <2>3. QED
    BY <2>1, <2>2 DEF TypeOK, scanVars, poolVars, dstVars
<1>9. ASSUME NEW t \in Threads, WorkerFile(t) PROVE TypeOK'
  BY <1>9 DEF WorkerFile, TypeOK, Fail, history, scanVars, dstVars, poolVars
<1>10. ASSUME NEW t \in Threads, WorkerCurrent(t) PROVE TypeOK'
  <2>1. running[t] \in Items
    BY <1>10 DEF WorkerCurrent, TypeOK
  <2>2. Append(replies, running[t]) \in Seq(Items)
    BY <2>1, Appended DEF TypeOK
  <2>3. QED
    BY <1>10, <2>1, <2>2 DEF WorkerCurrent, TypeOK, Fail, history, scanVars, dstVars, poolVars
<1>11. ASSUME NEW t \in Threads, WorkerDone(t) PROVE TypeOK'
  BY <1>11 DEF WorkerDone, Pool!Finish, TypeOK, history, scanVars, dstVars
<1>12. ASSUME NEW i \in Items,
              \/ StreamStarted(i) \/ ReceiveFileId(i) \/ ReceiveFileIdRefused(i)
              \/ ReceiveFileIdUnknown(i)
       PROVE  TypeOK'
  BY <1>12 DEF StreamStarted, ReceiveFileId, ReceiveFileIdRefused, ReceiveFileIdUnknown,
     Meets, TypeOK, history, scanVars, dstVars, poolVars
<1>13. ASSUME NEW i \in Items, Install(i) \/ Stall(i) PROVE TypeOK'
  <2>1. /\ dst' \in [Items -> Node \cup {None}] /\ behind' \subseteq Items
        /\ failed' \subseteq Items
        /\ orphans' \subseteq Items /\ raced' = raced
    BY <1>13, InstallEffect DEF TypeOK
  <2>2. /\ \/ streams' = [streams EXCEPT ![i] = "closed"]
           \/ streams' = [streams EXCEPT ![i] = "stalled"]
        /\ UNCHANGED <<src, scanVars, FileInfos, control, replies, poolVars, pc>>
    BY <1>13 DEF Install, Stall
  <2>3. QED
    BY <2>1, <2>2 DEF TypeOK, scanVars, poolVars, dstVars
<1>14. CASE UNCHANGED vars
  BY <1>14 DEF vars, TypeOK, history, scanVars, dstVars, poolVars
<1>15. QED
  BY <1>1, <1>2, <1>3, <1>4, <1>5, <1>6, <1>7, <1>8, <1>9, <1>10, <1>11, <1>12, <1>13,
     <1>14 DEF Next, Scan, Worker, Transfer, Done

-----------------------------------------------------------------------------
(* What is asked for is known *)

LEMMA InitOnce == Init => Once /\ Known
<1> SUFFICES ASSUME Init PROVE Once /\ Known
  OBVIOUS
<1>1. /\ control = << >> /\ queue = << >> /\ replies = << >> /\ step = "scan"
      /\ running[1] = None /\ pc[1] = "idle" /\ \A i \in Items : streams[i] = "none"
  BY OneThread DEF Init, Pool!Init
<1>2. DOMAIN << >> = {}
  OBVIOUS
<1>3. /\ \A i : ~Sent(i) /\ ~Queued(i) /\ ~Replied(i)
      /\ Distinct(control) /\ Distinct(queue) /\ Distinct(replies)
  BY <1>1, <1>2 DEF Sent, Queued, Replied, In, Distinct
<1>4. QED
  BY <1>1, <1>3 DEF Once, Known, Announcing, Deciding, Streamed

\* The only thread of the server's Pool.
LEMMA OneStep ==
  ASSUME TypeOK, NEW t \in Threads
  PROVE  t = 1 /\ (pc[1] # "idle" => running[1] \in Items)
  BY OneThread DEF TypeOK

LEMMA NextOnce == TypeOK /\ Once /\ Known /\ [Next]_vars => Once' /\ Known'
<1> SUFFICES ASSUME TypeOK, Once, Known, [Next]_vars PROVE Once' /\ Known'
  OBVIOUS
<1>1. ASSUME NEW i \in Items, ScanItem(i) PROVE Once' /\ Known'
  <2>1. /\ i \in toScan /\ toScan' = toScan \ {i} /\ step = "scan" /\ raced' = raced
        /\ \/ step' = "emplace" /\ item' = i
           \/ UNCHANGED <<step, item>>
        /\ UNCHANGED <<control, queue, replies, running, pc, streams, FileInfos>>
    BY <1>1 DEF ScanItem, Fail, history, poolVars
  <2>2. QED
    BY <2>1 DEF Once, Known, Announcing, Sent, Queued, Deciding, Replied, Streamed
<1>2. CASE Emplace
  <2>1. /\ step = "emplace" /\ step' = "send" /\ raced' = raced
        /\ FileInfos \subseteq FileInfos' /\ (raced \/ item \in FileInfos')
        /\ UNCHANGED <<toScan, item, control, queue, replies, running, pc, streams>>
    BY <1>2 DEF Emplace, history, poolVars
  <2>2. QED
    BY <2>1 DEF Once, Known, Announcing, Sent, Queued, Deciding, Replied, Streamed
<1>3. CASE Send
  <2>1. /\ step = "send" /\ step' = "scan" /\ item \in Items /\ raced' = raced
        /\ control' = Append(control, item) \/ control' = control
        /\ UNCHANGED <<toScan, queue, replies, running, pc, streams, FileInfos>>
    BY <1>3 DEF Send, Once, Fail, history, poolVars
  <2>2. Announcing(item) /\ ~Sent(item) /\ (\A i : ~Announcing(i)')
    BY <2>1 DEF Once, Announcing
  <2>3. /\ \A i \in Items : Sent(i)' => Sent(i) \/ i = item
        /\ Distinct(control)'
    <3>1. CASE control' = control
      BY <3>1 DEF Sent, Once
    <3>2. CASE control' = Append(control, item)
      <4>1. control \in Seq(Items) /\ Distinct(control) /\ ~In(control, item)
        BY <2>2 DEF Once, TypeOK, Sent
      <4>2. QED
        BY <3>2, <2>1, <4>1, Appended DEF Sent
    <3>3. QED
      BY <2>1, <3>1, <3>2
  <2>4. \A i \in Items : Announcing(i) <=> i = item
    BY <2>1 DEF Announcing
  <2>5. QED
    BY <2>1, <2>2, <2>3, <2>4 DEF Once, Known, Queued, Deciding, Replied, Streamed
<1>4. CASE ReceiveMessage
  <2> DEFINE m == Head(control)
  <2>1. /\ control # << >> /\ control' = Tail(control) /\ queue' = Append(queue, m)
        /\ UNCHANGED <<toScan, step, item, replies, running, pc, streams, FileInfos, raced>>
    BY <1>4 DEF ReceiveMessage, Pool!Submit, history, scanVars
  <2>2. /\ m \in Items /\ Sent(m)
        /\ \A i \in Items : Sent(i)' => Sent(i) /\ i # m
        /\ Distinct(control)'
    BY <2>1, Taken DEF Sent, Once, TypeOK
  <2>3. ~Queued(m)
    BY <2>2 DEF Once
  <2>4. (\A i \in Items : Queued(i)' <=> Queued(i) \/ i = m) /\ Distinct(queue)'
    BY <2>1, <2>2, <2>3, Appended DEF Queued, Once, TypeOK
  <2> HIDE DEF m
  <2>5. QED
    BY <2>1, <2>2, <2>3, <2>4 DEF Once, Known, Announcing, Deciding, Replied, Streamed
<1>5. CASE ReceiveReply
  <2> DEFINE r == Head(replies)
  <2>1. /\ replies # << >> /\ replies' = Tail(replies)
        /\ \/ FileInfos' = FileInfos \ {r}
           \/ step = "emplace" /\ UNCHANGED FileInfos
        /\ raced' = (raced \/ step = "emplace")
        /\ UNCHANGED <<toScan, step, item, control, queue, running, pc, streams>>
    BY <1>5 DEF ReceiveReply, Meets, scanVars, poolVars
  <2>2. /\ r \in Items /\ Replied(r)
        /\ \A i \in Items : Replied(i)' => Replied(i)
        /\ Distinct(replies)'
    BY <2>1, Taken DEF Replied, Once, TypeOK
  <2> HIDE DEF r
  <2>3. Once'
    BY <2>1, <2>2 DEF Once, Announcing, Sent, Queued, Deciding, Streamed
  <2>4. Known'
    BY <2>1, <2>2 DEF Once, Known, Announcing, Sent, Queued, Deciding, Streamed
  <2>5. QED
    BY <2>3, <2>4
<1>6. ASSUME NEW t \in Threads, WorkerStart(t) PROVE Once' /\ Known'
  <2> DEFINE q == Head(queue)
  <2>1. /\ t = 1 /\ queue # << >> /\ queue' = Tail(queue) /\ running[1] = None
        /\ running' = [running EXCEPT ![1] = q] /\ pc' = [pc EXCEPT ![1] = "decide"]
        /\ UNCHANGED <<toScan, step, item, control, replies, streams, FileInfos, raced>>
    BY <1>6, OneStep DEF WorkerStart, Pool!Start, history, scanVars
  <2>2. /\ q \in Items /\ Queued(q)
        /\ \A i \in Items : Queued(i)' => Queued(i) /\ i # q
        /\ Distinct(queue)'
    BY <2>1, Taken DEF Queued, Once, TypeOK
  <2>3. \A i \in Items : Deciding(i)' <=> i = q
    BY <2>1, OneThread DEF Deciding, TypeOK
  <2> HIDE DEF q
  <2>4. QED
    BY <2>1, <2>2, <2>3 DEF Once, Known, Announcing, Sent, Replied, Streamed
<1>7. ASSUME NEW t \in Threads, WorkerDecide(t) \/ WorkerDir(t) \/ WorkerDone(t)
      PROVE  Once' /\ Known'
  <2>1. /\ t = 1 /\ raced' = raced
        /\ UNCHANGED <<toScan, step, item, control, queue, replies, streams, FileInfos>>
        /\ running' = running \/ running'[1] = None
        /\ pc[1] \in {"decide", "dir", "file", "current"} \/ pc'[1] = "idle"
    BY <1>7, OneStep, OneThread DEF WorkerDecide, WorkerDir, WorkerDone, Pool!Finish, Fail,
       history, scanVars, poolVars, TypeOK
  <2>2. \A i \in Items : Deciding(i)' => Deciding(i)
    BY <2>1, SyncAssumption DEF Deciding
  <2>3. QED
    BY <2>1, <2>2 DEF Once, Known, Announcing, Sent, Queued, Replied, Streamed
<1>8. ASSUME NEW t \in Threads, WorkerFile(t) PROVE Once' /\ Known'
  <2> DEFINE x == running[1]
  <2>1. /\ t = 1 /\ x \in Items /\ pc[1] = "file" /\ pc'[1] = "done" /\ raced' = raced
        /\ streams' = [streams EXCEPT ![x] = "started"] \/ streams' = streams
        /\ UNCHANGED <<toScan, step, item, control, queue, replies, running, FileInfos>>
    BY <1>8, OneStep, OneThread DEF WorkerFile, Fail, history, scanVars, poolVars, TypeOK
  <2>2. Deciding(x) /\ \A i \in Items : ~Deciding(i)'
    BY <2>1 DEF Deciding
  <2>3. \A i \in Items : Streamed(i)' => Streamed(i) \/ i = x
    BY <2>1 DEF Streamed, TypeOK
  <2> HIDE DEF x
  <2>4. Once'
    BY <2>1, <2>2, <2>3 DEF Once, Announcing, Sent, Queued, Replied
  <2>5. Known'
    BY <2>1, <2>2 DEF Known, Announcing, Sent, Queued, TypeOK
  <2>6. QED
    BY <2>4, <2>5
<1>9. ASSUME NEW t \in Threads, WorkerCurrent(t) PROVE Once' /\ Known'
  <2> DEFINE x == running[1]
  <2>1. /\ t = 1 /\ x \in Items /\ pc[1] = "current" /\ pc'[1] = "done" /\ raced' = raced
        /\ replies' = Append(replies, x) \/ replies' = replies
        /\ UNCHANGED <<toScan, step, item, control, queue, streams, running, FileInfos>>
    BY <1>9, OneStep, OneThread DEF WorkerCurrent, Fail, history, scanVars, poolVars, TypeOK
  <2>2. Deciding(x) /\ ~Replied(x) /\ \A i \in Items : ~Deciding(i)'
    BY <2>1 DEF Deciding, Once
  <2>3. (\A i \in Items : Replied(i)' => Replied(i) \/ i = x) /\ Distinct(replies)'
    <3>1. CASE replies' = replies
      BY <3>1 DEF Replied, Once
    <3>2. CASE replies' = Append(replies, x)
      <4>1. replies \in Seq(Items) /\ Distinct(replies) /\ ~In(replies, x)
        BY <2>2 DEF Once, TypeOK, Replied
      <4>2. QED
        BY <3>2, <2>1, <4>1, Appended DEF Replied
    <3>3. QED
      BY <2>1, <3>1, <3>2
  <2> HIDE DEF x
  <2>4. QED
    BY <2>1, <2>2, <2>3 DEF Once, Known, Announcing, Sent, Queued, Streamed
<1>10. ASSUME NEW i \in Items,
              \/ StreamStarted(i) \/ ReceiveFileId(i) \/ ReceiveFileIdRefused(i)
              \/ ReceiveFileIdUnknown(i) \/ Install(i) \/ Stall(i)
       PROVE  Once' /\ Known'
  <2>1. /\ UNCHANGED <<toScan, step, item, control, queue, replies, running, pc>>
        /\ streams[i] # "none" /\ streams' = [streams EXCEPT ![i] = streams'[i]]
        /\ raced => raced'
    BY <1>10, InstallEffect DEF StreamStarted, ReceiveFileId, ReceiveFileIdRefused,
       ReceiveFileIdUnknown, Install, Stall, Meets, history, scanVars, poolVars, TypeOK
  <2>2. \A j \in Items : Streamed(j)' => Streamed(j)
    BY <2>1 DEF Streamed, TypeOK
  <2>3. Once'
    BY <2>1, <2>2 DEF Once, Announcing, Sent, Queued, Deciding, Replied
  <2>4. ~raced' =>
          /\ FileInfos' = FileInfos \/ (FileInfos' = FileInfos \ {i} /\ streams'[i] = "sending")
          /\ streams'[i] \in {"started", "open"} => streams[i] = "started"
          /\ streams'[i] # "unanswered"
    <3>1. CASE StreamStarted(i)
      BY <3>1 DEF StreamStarted, TypeOK
    <3>2. CASE ReceiveFileId(i)
      BY <3>2 DEF ReceiveFileId, Meets, TypeOK
    <3>3. CASE ReceiveFileIdRefused(i)
      BY <3>3 DEF ReceiveFileIdRefused, TypeOK
    <3>4. CASE ReceiveFileIdUnknown(i)
      BY <3>4 DEF ReceiveFileIdUnknown, Meets, Known
    <3>5. CASE Install(i) \/ Stall(i)
      BY <3>5 DEF Install, Stall, TypeOK
    <3>6. QED
      BY <1>10, <3>1, <3>2, <3>3, <3>4, <3>5
  <2>5. Streamed(i)
    BY <2>1 DEF Streamed
  <2>6. Known'
    BY <2>1, <2>4, <2>5 DEF Once, Known, Announcing, Sent, Queued, Deciding, TypeOK
  <2>7. QED
    BY <2>3, <2>6
<1>11. CASE UNCHANGED vars
  BY <1>11 DEF vars, Once, Known, Announcing, Sent, Queued, Deciding, Replied, Streamed,
     history, scanVars, poolVars
<1>12. QED
  BY <1>1, <1>2, <1>3, <1>4, <1>5, <1>6, <1>7, <1>8, <1>9, <1>10, <1>11
     DEF Next, Scan, Worker, Transfer, Done

(* Type correctness, for any tree.                                         *)
THEOREM TypeCorrect == Spec => []TypeOK
<1>1. QED
  BY InitTypeOK, NextTypeOK, InitOnce, NextOnce, PTL DEF Spec, Safety

(* "No File found for FileId" (client.cpp) is never what a client finds,   *)
(* for any tree and any interleaving of replies and streams, unless        *)
(* FileInfos has been raced.                                               *)
THEOREM AskedAreKnown == Spec => []AskedIsKnown
<1>1. Known => AskedIsKnown
  BY DEF Known, AskedIsKnown
<1>2. QED
  BY <1>1, InitTypeOK, NextTypeOK, InitOnce, NextOnce, PTL DEF Spec, Safety


-----------------------------------------------------------------------------
(* Folders are there *)

\* How far an item is at most.
Unsent(i) == i \in toScan \/ Announcing(i)
Unheard(i) == Unsent(i) \/ Sent(i)
Undecided(i) == Unheard(i) \/ Queued(i) \/ Deciding(i)

\* Every item is behind its folder.
Ordered ==
  /\ ParentsFirst(control) /\ ParentsFirst(queue)
  /\ \A i \in Items :
       /\ i \notin toScan => Parent[i] # i /\ Parent[i] \notin toScan
       /\ Sent(i) => ~Unsent(Parent[i])
       /\ Queued(i) => ~Unheard(Parent[i])
       /\ Deciding(i) \/ Streamed(i) => ~Undecided(Parent[i])

\* A folder that is behind the Pool is at the destination, or a file of its name.
Folders ==
  /\ \A i \in Items :
       /\ src[i].kind = "dir" /\ ~Undecided(i) => dst[i] # None \/ i \in failed \cup orphans
       /\ Streamed(i) => src[i].kind = "file"
  /\ \A i \in orphans : Parent[i] # Base
  /\ pc[1] = "current" => running[1] \in failed \/ dst[running[1]] # None
  /\ pc[1] \in {"dir", "file"} => src[running[1]].kind = pc[1]

LEMMA ParentKind ==
  ASSUME TypeOK, NEW i \in Items
  PROVE  Parent[i] = Base \/ (Parent[i] \in Items /\ src[Parent[i]].kind = "dir")
  BY SyncAssumption DEF TypeOK

LEMMA InitOrdered == Init => Ordered /\ Folders /\ ParentThere
<1> SUFFICES ASSUME Init PROVE Ordered /\ Folders /\ ParentThere
  OBVIOUS
<1>1. /\ control = << >> /\ queue = << >> /\ step = "scan" /\ toScan = Items
      /\ running[1] = None /\ pc[1] = "idle" /\ \A i \in Items : streams[i] = "none"
      /\ orphans = {}
  BY OneThread DEF Init, Pool!Init
<1>2. DOMAIN << >> = {}
  OBVIOUS
<1>3. /\ \A i : ~Sent(i) /\ ~Queued(i)
      /\ ParentsFirst(control) /\ ParentsFirst(queue)
  BY <1>1, <1>2 DEF Sent, Queued, In, ParentsFirst
<1>4. QED
  BY <1>1, <1>3 DEF Ordered, Folders, ParentThere, Undecided, Unheard, Unsent, Deciding, Streamed

LEMMA NextOrdered == TypeOK /\ Once /\ Ordered /\ [Next]_vars => Ordered'
<1> SUFFICES ASSUME TypeOK, Once, Ordered, [Next]_vars PROVE Ordered'
  OBVIOUS
<1>0. ASSUME NEW i \in Items PROVE Parent[i] \in Items \cup {Base}
  BY SyncAssumption
<1>1. ASSUME NEW i \in Items, ScanItem(i) PROVE Ordered'
  <2>1. /\ i \in toScan /\ toScan' = toScan \ {i} /\ step = "scan" /\ Parent[i] \notin toScan
        /\ \/ step' = "emplace" /\ item' = i
           \/ UNCHANGED <<step, item>>
        /\ UNCHANGED <<control, queue, running, pc, streams>>
    BY <1>1 DEF ScanItem, poolVars
  <2>2. \A j : (Unsent(j)' => Unsent(j)) /\ (Unheard(j)' => Unheard(j))
               /\ (Undecided(j)' => Undecided(j))
    BY <2>1 DEF Undecided, Unheard, Unsent, Announcing, Sent, Queued, Deciding
  <2>3. QED
    BY <2>1, <2>2 DEF Ordered, Sent, Queued, Deciding, Streamed
<1>2. CASE Emplace
  BY <1>2 DEF Emplace, Ordered, Undecided, Unheard, Unsent, Announcing, Sent, Queued,
     Deciding, Streamed, poolVars
<1>3. CASE Send
  <2>0. PICK x : x = item
    OBVIOUS
  <2>1. /\ step = "send" /\ step' = "scan" /\ x \in Items
        /\ control' = Append(control, x) \/ control' = control
        /\ UNCHANGED <<toScan, queue, running, pc, streams>>
    BY <1>3, <2>0 DEF Send, Once, poolVars
  <2>2. /\ ~Sent(x) /\ \A i : Announcing(i) <=> i = x
        /\ \A i : ~Announcing(i)'
        /\ x \notin toScan
    BY <2>0, <2>1 DEF Once, Announcing
  <2>3. /\ \A i \in Items : Sent(i) => Parent[i] # x
        /\ Parent[x] # x /\ Parent[x] \notin toScan
    BY <2>1, <2>2 DEF Ordered, Unsent
  <2>4. /\ \A i : (Sent(i)' => Sent(i) \/ i = x)
        /\ ParentsFirst(control)'
    <3>1. CASE control' = control
      BY <3>1 DEF Sent, Ordered
    <3>2. CASE control' = Append(control, x)
      <4>1. control \in Seq(Items) /\ ParentsFirst(control) /\ ~In(control, x)
            /\ \A y \in Items : In(control, y) => Parent[y] # x
        BY <2>2, <2>3 DEF Ordered, TypeOK, Sent
      <4>2. QED
        BY <3>2, <2>1, <2>3, <4>1, Appended DEF Sent
    <3>3. QED
      BY <2>1, <3>1, <3>2
  <2>5. \A i : (Unsent(i)' => Unsent(i)) /\ (Unheard(i)' => Unheard(i))
               /\ (Undecided(i)' => Undecided(i))
    BY <2>1, <2>2, <2>4 DEF Undecided, Unheard, Unsent, Queued, Deciding
  <2>6. ~Unsent(Parent[x])'
    BY <2>1, <2>2, <2>3 DEF Unsent
  <2>7. QED
    BY <2>1, <2>4, <2>5, <2>6 DEF Ordered, Queued, Deciding, Streamed
<1>4. CASE ReceiveMessage
  <2>0. PICK m : m = Head(control)
    OBVIOUS
  <2>1. /\ control # << >> /\ control' = Tail(control) /\ queue' = Append(queue, m)
        /\ UNCHANGED <<toScan, step, item, running, pc, streams>>
    BY <1>4, <2>0 DEF ReceiveMessage, Pool!Submit, scanVars
  <2>2. /\ m \in Items /\ Sent(m)
        /\ \A i : Sent(i) <=> Sent(i)' \/ i = m
        /\ ~Sent(Parent[m])' /\ ParentsFirst(control)'
    BY <2>0, <2>1, Taken DEF Sent, Ordered, TypeOK
  <2>3. /\ ~Queued(m) /\ m \notin toScan /\ Parent[m] # m /\ ~Unsent(Parent[m])
        /\ \A i \in Items : Queued(i) => Parent[i] # m
    BY <2>2 DEF Once, Ordered, Unheard
  <2>4. (\A i : Queued(i)' <=> Queued(i) \/ i = m) /\ ParentsFirst(queue)'
    <3>1. queue \in Seq(Items) /\ ParentsFirst(queue) /\ ~In(queue, m)
          /\ \A y \in Items : In(queue, y) => Parent[y] # m
      BY <2>3 DEF Ordered, TypeOK, Queued
    <3>2. QED
      BY <2>1, <2>2, <2>3, <3>1, Appended DEF Queued
  <2>5. \A i : (Unsent(i)' <=> Unsent(i)) /\ (Unheard(i)' => Unheard(i))
               /\ (Undecided(i)' => Undecided(i))
    BY <2>1, <2>2, <2>4 DEF Undecided, Unheard, Unsent, Announcing, Deciding
  <2>6. ~Unheard(Parent[m])'
    BY <2>2, <2>3, <2>5 DEF Unheard
  <2>7. QED
    BY <2>1, <2>2, <2>4, <2>5, <2>6 DEF Ordered, Deciding, Streamed
<1>5. CASE ReceiveReply
  BY <1>5 DEF ReceiveReply, Ordered, Undecided, Unheard, Unsent, Announcing, Sent, Queued,
     Deciding, Streamed, poolVars, scanVars
<1>6. ASSUME NEW t \in Threads, WorkerStart(t) PROVE Ordered'
  <2>0. PICK q : q = Head(queue)
    OBVIOUS
  <2>1. /\ t = 1 /\ queue # << >> /\ queue' = Tail(queue) /\ running[1] = None
        /\ running' = [running EXCEPT ![1] = q] /\ pc' = [pc EXCEPT ![1] = "decide"]
        /\ UNCHANGED <<toScan, step, item, control, streams>>
    BY <1>6, <2>0, OneStep DEF WorkerStart, Pool!Start, scanVars
  <2>2. /\ q \in Items /\ Queued(q)
        /\ \A i : Queued(i) <=> Queued(i)' \/ i = q
        /\ ~Queued(Parent[q])' /\ ParentsFirst(queue)'
    BY <2>0, <2>1, Taken DEF Queued, Ordered, TypeOK
  <2>3. \A i : Deciding(i)' <=> i = q
    BY <2>1, OneThread DEF Deciding, TypeOK
  <2>4. Parent[q] # q /\ ~Unheard(Parent[q])
    BY <2>2 DEF Ordered, Once
  <2>5. \A i : (Unsent(i)' <=> Unsent(i)) /\ (Unheard(i)' <=> Unheard(i))
               /\ (Undecided(i)' => Undecided(i))
    BY <2>1, <2>2, <2>3 DEF Undecided, Unheard, Unsent, Announcing, Sent
  <2>6. ~Undecided(Parent[q])'
    BY <2>2, <2>3, <2>4, <2>5 DEF Undecided
  <2>7. QED
    BY <2>1, <2>2, <2>3, <2>5, <2>6 DEF Ordered, Sent, Streamed
<1>7. ASSUME NEW t \in Threads,
             WorkerDecide(t) \/ WorkerDir(t) \/ WorkerFile(t) \/ WorkerCurrent(t) \/ WorkerDone(t)
      PROVE  Ordered'
  <2>1. /\ t = 1
        /\ UNCHANGED <<toScan, step, item, control, queue>>
        /\ running' = running \/ pc'[1] = "idle"
        /\ pc[1] \in {"decide", "dir", "file", "current"} \/ pc'[1] = "idle"
        /\ \/ streams' = streams
           \/ /\ streams' = [streams EXCEPT ![running[1]] = "started"]
              /\ Deciding(running[1])
    BY <1>7, OneStep, OneThread DEF WorkerDecide, WorkerDir, WorkerFile, WorkerCurrent,
       WorkerDone, Pool!Finish, scanVars, poolVars, TypeOK, Deciding
  <2>2. \A i \in Items \cup {Base} : Deciding(i)' => Deciding(i)
    BY <2>1, SyncAssumption DEF Deciding, TypeOK
  <2>3. \A i \in Items \cup {Base} : (Unsent(i)' => Unsent(i)) /\ (Unheard(i)' => Unheard(i))
               /\ (Undecided(i)' => Undecided(i))
    BY <2>1, <2>2 DEF Undecided, Unheard, Unsent, Announcing, Sent, Queued
  <2>4. \A i \in Items : Streamed(i)' => Streamed(i) \/ Deciding(i)
    BY <2>1 DEF Streamed, TypeOK
  <2>5. QED
    BY <1>0, <2>1, <2>2, <2>3, <2>4 DEF Ordered, Sent, Queued
<1>8. ASSUME NEW i \in Items,
             \/ StreamStarted(i) \/ ReceiveFileId(i) \/ ReceiveFileIdRefused(i)
             \/ ReceiveFileIdUnknown(i) \/ Install(i) \/ Stall(i)
      PROVE  Ordered'
  <2>1. /\ UNCHANGED <<toScan, step, item, control, queue, running, pc>>
        /\ streams[i] # "none" /\ streams' = [streams EXCEPT ![i] = streams'[i]]
    BY <1>8 DEF StreamStarted, ReceiveFileId, ReceiveFileIdRefused,
       ReceiveFileIdUnknown, Install, Stall, scanVars, poolVars, TypeOK
  <2>2. \A j \in Items : Streamed(j)' => Streamed(j)
    BY <2>1 DEF Streamed, TypeOK
  <2>3. QED
    BY <2>1, <2>2 DEF Ordered, Undecided, Unheard, Unsent, Announcing, Sent, Queued, Deciding
<1>9. CASE UNCHANGED vars
  BY <1>9 DEF vars, Ordered, Undecided, Unheard, Unsent, Announcing, Sent, Queued, Deciding,
     Streamed, scanVars, poolVars
<1>10. QED
  BY <1>1, <1>2, <1>3, <1>4, <1>5, <1>6, <1>7, <1>8, <1>9
     DEF Next, Scan, Worker, Transfer, Done

\* What is at a path stays, as what it is if it is a folder of the client's.
LEMMA Kept ==
  ASSUME TypeOK, Folders, [Next]_vars
  PROVE  /\ src' = src /\ failed \subseteq failed'
         /\ \A j \in Items : dst[j] # None =>
              dst'[j] # None /\ (src[j].kind = "dir" => dst'[j].kind = dst[j].kind)
         /\ \A j \in orphans' \ orphans :
              ~IsFolder(Parent[j]) /\ (Deciding(j) \/ Streamed(j))
         /\ orphans \subseteq orphans'
<1>1. CASE /\ UNCHANGED <<src, dst, orphans>> /\ failed \subseteq failed'
  BY <1>1
<1>2. ASSUME NEW i \in Items, ScanItem(i)
      PROVE  UNCHANGED <<src, dst, orphans>> /\ failed \subseteq failed'
  BY <1>2 DEF ScanItem, Fail, history, dstVars
<1>3. CASE Emplace \/ Send \/ ReceiveMessage \/ ReceiveReply \/ UNCHANGED vars
  <2>1. UNCHANGED <<src, dst, orphans>> /\ failed \subseteq failed'
    BY <1>3 DEF Emplace, Send, ReceiveMessage, ReceiveReply, Meets, Fail, history, vars,
       dstVars
  <2>2. QED
    BY <1>1, <2>1
<1>4. ASSUME NEW t \in Threads,
             \/ WorkerStart(t) \/ WorkerDecide(t) \/ WorkerFile(t) \/ WorkerCurrent(t)
             \/ WorkerDone(t)
      PROVE  UNCHANGED <<src, dst, orphans>> /\ failed \subseteq failed'
  BY <1>4 DEF WorkerStart, WorkerDecide, WorkerFile, WorkerCurrent, WorkerDone, Fail,
     history, dstVars
<1>5. ASSUME NEW t \in Threads, WorkerDir(t)
      PROVE  /\ src' = src /\ failed \subseteq failed' /\ orphans \subseteq orphans'
             /\ \A j \in Items : dst[j] # None => dst'[j] # None /\ dst'[j].kind = dst[j].kind
             /\ \A j \in orphans' \ orphans : ~IsFolder(Parent[j]) /\ Deciding(j)
  <2>1. src' = src /\ pc[1] = "dir" /\ t = 1
    BY <1>5, OneThread DEF WorkerDir
  <2>2. QED
    BY <1>5, <2>1, DirEffect DEF Deciding
<1>6. ASSUME NEW i \in Items,
             \/ StreamStarted(i) \/ ReceiveFileId(i) \/ ReceiveFileIdRefused(i)
             \/ ReceiveFileIdUnknown(i)
      PROVE  UNCHANGED <<src, dst, orphans>> /\ failed \subseteq failed'
  BY <1>6 DEF StreamStarted, ReceiveFileId, ReceiveFileIdRefused, ReceiveFileIdUnknown, Meets,
     history, dstVars
<1>7. ASSUME NEW i \in Items, Install(i) \/ Stall(i)
      PROVE  /\ src' = src /\ failed \subseteq failed' /\ orphans \subseteq orphans'
             /\ \A j \in Items : dst[j] # None =>
                  dst'[j] # None /\ (src[j].kind = "dir" => dst'[j].kind = dst[j].kind)
             /\ \A j \in orphans' \ orphans : ~IsFolder(Parent[j]) /\ Streamed(j)
  <2>1. src' = src /\ Streamed(i) /\ src[i].kind = "file"
    BY <1>7 DEF Install, Stall, Streamed, Folders
  <2>2. QED
    BY <1>7, <2>1, InstallEffect
<1>8. QED
  BY <1>1, <1>2, <1>3, <1>4, <1>5, <1>6, <1>7 DEF Next, Scan, Worker, Transfer, Done

\* What leaves the Pool has failed, or the thread is done with it.
LEMMA Leaves ==
  ASSUME TypeOK, Once, [Next]_vars, NEW i \in Items, Undecided(i), ~Undecided(i)'
  PROVE  \/ i \in failed'
         \/ running[1] = i /\ (WorkerDir(1) \/ WorkerFile(1) \/ WorkerCurrent(1))
<1>1. ASSUME NEW j \in Items, ScanItem(j) PROVE i \in failed'
  BY <1>1 DEF ScanItem, Fail, Undecided, Unheard, Unsent, Announcing, Sent, Queued, Deciding,
     history, poolVars
<1>2. CASE Emplace \/ ReceiveReply \/ UNCHANGED vars
  BY <1>2 DEF Emplace, ReceiveReply, vars, scanVars, poolVars, Undecided, Unheard, Unsent,
     Announcing, Sent, Queued, Deciding
<1>3. CASE Send
  <2>0. PICK x : x = item
    OBVIOUS
  <2>1. /\ x \in Items /\ control \in Seq(Items)
        /\ control' = Append(control, x) \/ (control' = control /\ x \in failed')
        /\ UNCHANGED <<toScan, queue, running, pc>>
    BY <1>3, <2>0 DEF Send, Once, Fail, poolVars, TypeOK
  <2>2. Announcing(i) <=> i = x
    BY <1>3, <2>0 DEF Send, Announcing
  <2>3. Sent(i) => Sent(i)'
    BY <2>1, Appended DEF Sent
  <2>4. Sent(x)' \/ x \in failed'
    <3>1. In(Append(control, x), x)
      BY <2>1, Appended
    <3>2. QED
      BY <2>1, <3>1 DEF Sent
  <2>5. QED
    BY <2>1, <2>2, <2>3, <2>4 DEF Undecided, Unheard, Unsent, Queued, Deciding
<1>4. CASE ReceiveMessage
  <2>0. PICK m : m = Head(control)
    OBVIOUS
  <2>1. /\ control # << >> /\ control' = Tail(control) /\ queue' = Append(queue, m)
        /\ UNCHANGED <<toScan, step, item, running, pc>>
        /\ control \in Seq(Items) /\ queue \in Seq(Items)
    BY <1>4, <2>0 DEF ReceiveMessage, Pool!Submit, scanVars, TypeOK
  <2>2. m \in Items /\ (Sent(i) <=> Sent(i)' \/ i = m)
    BY <2>0, <2>1, Taken DEF Sent
  <2>3. Queued(i)' <=> Queued(i) \/ i = m
    BY <2>1, <2>2, Appended DEF Queued
  <2>4. QED
    BY <2>1, <2>2, <2>3 DEF Undecided, Unheard, Unsent, Announcing, Deciding
<1>5. ASSUME NEW t \in Threads, WorkerStart(t) PROVE FALSE
  <2>0. PICK q : q = Head(queue)
    OBVIOUS
  <2>1. /\ t = 1 /\ queue # << >> /\ queue' = Tail(queue) /\ running[1] = None
        /\ running' = [running EXCEPT ![1] = q] /\ pc' = [pc EXCEPT ![1] = "decide"]
        /\ UNCHANGED <<toScan, step, item, control>>
        /\ queue \in Seq(Items)
    BY <1>5, <2>0, OneStep DEF WorkerStart, Pool!Start, scanVars, TypeOK
  <2>2. Queued(i) <=> Queued(i)' \/ i = q
    BY <2>0, <2>1, Taken DEF Queued
  <2>3. i = q => Deciding(i)'
    BY <2>1, OneThread DEF Deciding, TypeOK
  <2>4. ~Deciding(i)
    BY <2>1, SyncAssumption DEF Deciding
  <2>5. QED
    BY <2>1, <2>2, <2>3, <2>4 DEF Undecided, Unheard, Unsent, Announcing, Sent
<1>6. ASSUME NEW t \in Threads,
             \/ WorkerDecide(t) \/ WorkerDir(t) \/ WorkerFile(t) \/ WorkerCurrent(t)
             \/ WorkerDone(t)
      PROVE  running[1] = i /\ (WorkerDir(1) \/ WorkerFile(1) \/ WorkerCurrent(1))
  <2>1. UNCHANGED <<toScan, step, item, control, queue>>
    BY <1>6 DEF WorkerDecide, WorkerDir, WorkerFile, WorkerCurrent, WorkerDone, Pool!Finish,
       scanVars, poolVars
  <2>2. Deciding(i) /\ ~Deciding(i)'
    BY <2>1 DEF Undecided, Unheard, Unsent, Announcing, Sent, Queued
  <2>3. t = 1 /\ running[1] = i /\ src[i].kind \in {"dir", "file"}
    BY <2>2, OneThread, SourceNode DEF Deciding, TypeOK
  <2>4. ~WorkerDone(t)
    BY <2>2, <2>3 DEF Deciding, WorkerDone
  <2>5. ~WorkerDecide(t)
    BY <2>2, <2>3 DEF Deciding, WorkerDecide, poolVars, TypeOK
  <2>6. QED
    BY <1>6, <2>3, <2>4, <2>5
<1>7. ASSUME NEW j \in Items, Transfer(j) PROVE FALSE
  <2>1. UNCHANGED <<toScan, step, item, control, queue, running, pc>>
    BY <1>7 DEF Transfer, StreamStarted, ReceiveFileId, ReceiveFileIdRefused,
       ReceiveFileIdUnknown, Install, Stall, scanVars, poolVars
  <2>2. QED
    BY <2>1 DEF Undecided, Unheard, Unsent, Announcing, Sent, Queued, Deciding
<1>8. QED
  BY <1>1, <1>2, <1>3, <1>4, <1>5, <1>6, <1>7 DEF Next, Scan, Worker, Done

\* What leaves the Pool, or fails before, is there or is known not to be.
LEMMA Settled ==
  ASSUME TypeOK, Once, Folders, [Next]_vars, NEW i \in Items,
         src[i].kind = "dir", Undecided(i), ~Undecided(i)'
  PROVE  dst'[i] # None \/ i \in failed' \cup orphans'
<1>1. CASE i \in failed'
  BY <1>1
<1>2. CASE running[1] = i /\ WorkerDir(1)
  BY <1>2, OneThread, DirEffect
<1>3. CASE running[1] = i /\ WorkerFile(1)
  BY <1>3 DEF WorkerFile, Folders
<1>4. CASE running[1] = i /\ WorkerCurrent(1)
  BY <1>4 DEF WorkerCurrent, Folders, Fail, history, dstVars
<1>5. QED
  BY <1>1, <1>2, <1>3, <1>4, Leaves

\* The thread knows what it has at hand.
LEMMA AtHand ==
  ASSUME TypeOK, Folders, [Next]_vars
  PROVE  /\ pc'[1] = "current" => running'[1] \in failed' \/ dst'[running'[1]] # None
         /\ pc'[1] \in {"dir", "file"} => src'[running'[1]].kind = pc'[1]
         /\ \A i \in Items : Streamed(i)' => src[i].kind = "file"
<1>0. /\ src' = src /\ failed \subseteq failed'
      /\ \A j \in Items : dst[j] # None => dst'[j] # None
      /\ pc[1] # "idle" => running[1] \in Items
  BY Kept, OneStep, OneThread
<1>1. CASE UNCHANGED <<pc, running, streams>>
  BY <1>0, <1>1 DEF Folders, Streamed
<1>2. CASE Scan \/ ReceiveMessage \/ ReceiveReply \/ UNCHANGED vars
  <2>1. UNCHANGED <<pc, running, streams>>
    BY <1>2 DEF Scan, ScanItem, Emplace, Send, ReceiveMessage, Pool!Submit, ReceiveReply, vars,
       poolVars
  <2>2. QED
    BY <1>1, <2>1
<1>3. ASSUME NEW t \in Threads, WorkerDecide(t)
      PROVE  /\ pc'[1] = "current" => running'[1] \in failed' \/ dst'[running'[1]] # None
             /\ pc'[1] \in {"dir", "file"} => src'[running'[1]].kind = pc'[1]
             /\ streams' = streams
  <2>1. /\ t = 1 /\ pc[1] = "decide" /\ running' = running /\ dst' = dst
        /\ streams' = streams
        /\ \/ pc'[1] = IF NeedsUpdate(running[1]) THEN src[running[1]].kind ELSE "current"
           \/ pc'[1] = "current" /\ running[1] \in failed'
    BY <1>3, OneThread DEF WorkerDecide, Fail, poolVars, dstVars, TypeOK
  <2>2. src[running[1]].kind \in {"dir", "file"}
    BY <1>0, <2>1, SourceNode DEF TypeOK
  <2>3. ~NeedsUpdate(running[1]) => dst[running[1]] # None
    BY DEF NeedsUpdate
  <2>4. QED
    BY <1>0, <2>1, <2>2, <2>3
<1>4. ASSUME NEW t \in Threads,
             \/ WorkerStart(t) \/ WorkerDir(t) \/ WorkerCurrent(t) \/ WorkerDone(t)
      PROVE  pc'[1] \notin {"dir", "file", "current"} /\ streams' = streams
  BY <1>4, OneThread DEF WorkerStart, WorkerDir, WorkerCurrent, WorkerDone, TypeOK
<1>5. ASSUME NEW t \in Threads, WorkerFile(t)
      PROVE  /\ pc'[1] = "done"
             /\ \A i \in Items : Streamed(i)' => Streamed(i) \/ src[i].kind = "file"
  BY <1>5, OneThread DEF WorkerFile, TypeOK, Streamed, Folders
<1>6. ASSUME NEW j \in Items, Transfer(j)
      PROVE  UNCHANGED <<pc, running>> /\ \A i \in Items : Streamed(i)' => Streamed(i)
  BY <1>6 DEF Transfer, StreamStarted, ReceiveFileId, ReceiveFileIdRefused,
     ReceiveFileIdUnknown, Install, Stall, poolVars, TypeOK, Streamed
<1>7. QED
  BY <1>0, <1>2, <1>3, <1>4, <1>5, <1>6 DEF Next, Worker, Done, Folders, Streamed

LEMMA NextFolders ==
  TypeOK /\ Once /\ Ordered /\ Folders /\ ParentThere /\ [Next]_vars => Folders' /\ ParentThere'
<1> SUFFICES ASSUME TypeOK, Once, Ordered, Folders, ParentThere, [Next]_vars
             PROVE  Folders' /\ ParentThere'
  OBVIOUS
<1>1. TypeOK'
  BY NextTypeOK
<1>2. \A i \in orphans' \ orphans :
        LET p == Parent[i] IN
        /\ p \in Items /\ p # Base
        /\ p \in failed \cup orphans \/ (dst[p] # None /\ dst[p].kind = "file")
  <2>1. SUFFICES ASSUME NEW i \in orphans' \ orphans
                 PROVE  LET p == Parent[i] IN
                        /\ p \in Items /\ p # Base
                        /\ p \in failed \cup orphans \/ (dst[p] # None /\ dst[p].kind = "file")
    OBVIOUS
  <2> DEFINE p == Parent[i]
  <2>2. i \in Items /\ ~IsFolder(p) /\ ~Undecided(p)
    BY <1>1, Kept DEF TypeOK, Ordered
  <2>3. p \in Items /\ p # Base /\ src[p].kind = "dir"
    BY <2>2, ParentKind, SyncAssumption DEF IsFolder
  <2>4. p \in failed \cup orphans \/ dst[p] # None
    BY <2>2, <2>3 DEF Folders
  <2>5. dst[p] # None => dst[p].kind = "file"
    BY <2>2, <2>3 DEF IsFolder, TypeOK, Node
  <2>6. QED
    BY <2>3, <2>4, <2>5
<1>3. ParentThere'
  <2>1. SUFFICES ASSUME NEW i \in orphans'
                 PROVE  LET p == Parent[i] IN
                        p \in failed' \cup orphans' \/ (dst'[p] # None /\ dst'[p].kind = "file")
    BY DEF ParentThere
  <2> DEFINE p == Parent[i]
  <2>2. p \in Items /\ src[p].kind = "dir"
    BY <1>1, <1>2, ParentKind DEF TypeOK, Folders
  <2>3. p \in failed \cup orphans \/ (dst[p] # None /\ dst[p].kind = "file")
    BY <1>2 DEF ParentThere
  <2>4. QED
    BY <2>2, <2>3, Kept
<1>4. Folders'
  <2>1. ASSUME NEW i \in Items, src[i].kind = "dir", ~Undecided(i)'
        PROVE  dst'[i] # None \/ i \in failed' \cup orphans'
    <3>1. CASE Undecided(i)
      BY <2>1, <3>1, Settled
    <3>2. CASE ~Undecided(i)
      BY <2>1, <3>2, Kept DEF Folders
    <3>3. QED
      BY <3>1, <3>2
  <2>2. \A i \in orphans' : Parent[i] # Base
    BY <1>2 DEF Folders
  <2>3. QED
    BY <2>1, <2>2, AtHand, Kept DEF Folders
<1>5. QED
  BY <1>3, <1>4

(* The server makes and writes things only in folders that are there, for  *)
(* any tree: but for a folder that failed, or whose name is a file's.      *)
THEOREM FoldersThere == Spec => []ParentThere
<1>1. QED
  BY InitTypeOK, NextTypeOK, InitOnce, NextOnce, InitOrdered, NextOrdered, NextFolders, PTL
     DEF Spec, Safety

-----------------------------------------------------------------------------
(* A second run has nothing to do *)

\* NeedsUpdate says no of what is in d.
Current(d, i) ==
  /\ d[i] # None
  /\ d[i].kind = src[i].kind =>
       /\ Seconds(src[i].time) <= d[i].time
       /\ src[i].kind = "file" => d[i].size = src[i].size

LEMMA CurrentIs ==
  ASSUME TypeOK, NEW i \in Items
  PROVE  ~NeedsUpdate(i) <=> Current(dst, i)
<1>1. Seconds(src[i].time) \in Nat
  BY SourceNode, SecondsType DEF TypeOK
<1>2. CASE dst[i] = None
  BY <1>2 DEF NeedsUpdate, Current
<1>3. CASE dst[i] # None
  <2>1. dst[i].time \in Nat
    BY <1>3 DEF TypeOK, Node
  <2>2. Seconds(src[i].time) > dst[i].time <=> ~(Seconds(src[i].time) <= dst[i].time)
    BY <1>1, <2>1
  <2>3. QED
    BY <1>3, <2>2 DEF NeedsUpdate, Current
<1>4. QED
  BY <1>2, <1>3

\* ... or a clock behind the client's has moved the folder's time.
Fine(d, b, i) == Current(d, i) \/ i \in b

\* A folder's time is set: the folder is current if not before the client's.
LEMMA StampedCurrent ==
  ASSUME src \in Sources, NEW d \in [Items -> Node \cup {None}], NEW p \in Items, d[p] # None,
         NEW time \in Nat, NEW i \in Items
  PROVE  /\ i # p /\ Current(d, i) => Current(Stamped(d, p, time), i)
         /\ src[p].kind = "dir" /\ Seconds(src[p].time) <= time
              => Current(Stamped(d, p, time), p)
<1> DEFINE new == [d[p] EXCEPT !.time = time]
<1>1. d[p] \in Node
  OBVIOUS
<1>2. /\ new \in Node /\ new.kind = d[p].kind /\ new.size = d[p].size /\ new.time = time
  BY <1>1 DEF Node
<1>3. new # None
  BY <1>2, SyncAssumption
<1>4. Stamped(d, p, time) = [d EXCEPT ![p] = new]
  BY DEF Stamped
<1> HIDE DEF new
<1>5. /\ Stamped(d, p, time)[p] = new
      /\ i # p => Stamped(d, p, time)[i] = d[i]
  BY <1>4
<1>6. src[p].kind = "dir" /\ Seconds(src[p].time) <= time => Current(Stamped(d, p, time), p)
  BY <1>2, <1>3, <1>5 DEF Current
<1>7. i # p /\ Current(d, i) => Current(Stamped(d, p, time), i)
  BY <1>5 DEF Current
<1>8. QED
  BY <1>6, <1>7

\* What is put into a folder leaves it current, or the clock was behind.
LEMMA TouchedFine ==
  ASSUME src \in Sources, NEW d \in [Items -> Node \cup {None}], NEW p \in Items \cup {Base},
         p # Base => d[p] # None /\ src[p].kind = "dir", NEW now \in Nat, NEW i \in Items,
         Fine(d, behind, i)
  PROVE  Fine(Touched(d, p, now), BehindAfter(p, now), i)
<1>1. CASE p = Base
  BY <1>1, SyncAssumption DEF Touched, BehindAfter, Fine
<1>2. CASE p # Base
  <2>1. p \in Items /\ Touched(d, p, now) = Stamped(d, p, now)
    BY <1>2 DEF Touched, Stamped
  <2>2. /\ i # p /\ Current(d, i) => Current(Stamped(d, p, now), i)
        /\ Seconds(src[p].time) <= now => Current(Stamped(d, p, now), p)
    BY <1>2, <2>1, StampedCurrent
  <2>3. now < Seconds(src[p].time) \/ Seconds(src[p].time) <= now
    <3>1. Seconds(src[p].time) \in Nat
      BY <2>1, SourceNode, SecondsType
    <3>2. QED
      BY <3>1
  <2>4. CASE i # p
    BY <2>1, <2>2, <2>4 DEF Fine, BehindAfter
  <2>5. CASE i = p
    BY <1>2, <2>1, <2>2, <2>3, <2>5 DEF Fine, BehindAfter
  <2>6. QED
    BY <2>4, <2>5
<1>3. QED
  BY <1>1, <1>2

\* What is made leaves the others as they are, but for the folder it is in.
LEMMA MadeFine ==
  ASSUME src \in Sources, dst \in [Items -> Node \cup {None}], NEW i \in Items,
         NEW node \in Node \cup {None}, dst[i] # None => node # None,
         NEW now \in Clock, Make(i, node, now), NEW j \in Items
  PROVE  /\ i # j /\ Fine(dst, behind, j) => Fine(dst', behind', j)
         /\ Current([dst EXCEPT ![i] = node], i) \/ i \in behind => Fine(dst', behind', i)
<1> DEFINE d == [dst EXCEPT ![i] = node]
           p == Parent[i]
<1>1. /\ d \in [Items -> Node \cup {None}] /\ d[i] = node
      /\ \A k \in Items \ {i} : d[k] = dst[k]
      /\ dst' = Touched(d, p, now) /\ behind' = BehindAfter(p, now)
  BY DEF Make
<1>2. p \in Items \cup {Base} /\ (p # Base => dst[p] # None /\ src[p].kind = "dir")
  BY SyncAssumption DEF IsFolder, Make
<1> HIDE DEF d, p
<1>3. p # Base => d[p] # None
  BY <1>1, <1>2
<1>4. i # j /\ Fine(dst, behind, j) => Fine(d, behind, j)
  BY <1>1 DEF Fine, Current
<1>5. now \in Nat
  BY ClockType
<1>6. \A k \in Items : Fine(d, behind, k) => Fine(dst', behind', k)
  BY <1>1, <1>2, <1>3, <1>5, TouchedFine
<1>7. Current(d, i) \/ i \in behind => Fine(d, behind, i)
  BY DEF Fine
<1>8. QED
  BY <1>4, <1>6, <1>7 DEF d

\* A copy with the client's time is current.
LEMMA CopyCurrent ==
  ASSUME src \in Sources, dst \in [Items -> Node \cup {None}], NEW i \in Items,
         NEW kind \in {"dir", "file"}
  PROVE  Current([dst EXCEPT ![i] = Copy(i, kind, Seconds(src[i].time))], i)
<1>1. Seconds(src[i].time) \in Nat /\ Seconds(src[i].time) <= Seconds(src[i].time)
  BY SourceNode, SecondsType
<1>2. Copy(i, kind, Seconds(src[i].time)) # None
  BY <1>1, CopyNode, SyncAssumption
<1>3. QED
  BY <1>1, <1>2 DEF Current, Copy

LEMMA DirFine ==
  ASSUME TypeOK, Folders, NEW t \in Threads, WorkerDir(t), NEW j \in Items
  PROVE  /\ Fine(dst, behind, j) => Fine(dst', behind', j)
         /\ running[t] \in failed' \cup orphans' \/ Fine(dst', behind', running[t])
<1>0. PICK i : i = running[t]
  OBVIOUS
<1>1. i \in Items /\ dst \in [Items -> Node \cup {None}] /\ src \in Sources
      /\ src[i].kind = "dir"
  BY <1>0, OneThread DEF TypeOK, WorkerDir, Folders
<1>2. PICK s : s = Seconds(src[i].time)
  OBVIOUS
<1>3. s \in Nat /\ s <= s
  BY <1>1, <1>2, SourceNode, SecondsType
<1>4. CASE dst[i] # None /\ dst' = [dst EXCEPT ![i].time = s] /\ behind' = behind \ {i}
  <2>1. dst' = Stamped(dst, i, s)
    BY <1>4 DEF Stamped
  <2>2. /\ i # j /\ Current(dst, j) => Current(Stamped(dst, i, s), j)
        /\ Current(Stamped(dst, i, s), i)
    BY <1>1, <1>2, <1>3, <1>4, StampedCurrent
  <2>3. QED
    BY <1>0, <1>4, <2>1, <2>2 DEF Fine
<1>5. ASSUME NEW time \in Nat, NEW now \in Clock, dst[i] = None,
             Make(i, Copy(i, "dir", time), now)
      PROVE  /\ Fine(dst, behind, j) => Fine(dst', behind', j)
             /\ time = s => Fine(dst', behind', i)
  <2>1. Copy(i, "dir", time) \in Node
    BY <1>1, CopyNode
  <2>2. /\ i # j /\ Fine(dst, behind, j) => Fine(dst', behind', j)
        /\ Current([dst EXCEPT ![i] = Copy(i, "dir", time)], i) \/ i \in behind
             => Fine(dst', behind', i)
    BY <1>1, <1>5, <2>1, MadeFine
  <2>3. ~Current(dst, i)
    BY <1>5 DEF Current
  <2>4. Fine(dst, behind, i) => i \in behind
    BY <2>3 DEF Fine
  <2>5. time = s => Current([dst EXCEPT ![i] = Copy(i, "dir", time)], i)
    BY <1>1, <1>2, CopyCurrent
  <2>6. QED
    BY <2>2, <2>4, <2>5
<1>6. CASE dst[i] = None /\ \E now \in Clock : Make(i, Copy(i, "dir", s), now)
  BY <1>0, <1>3, <1>5, <1>6
<1>7. CASE UNCHANGED dstVars /\ i \in failed' \cup orphans'
  BY <1>0, <1>7 DEF dstVars
<1>8. CASE /\ dst[i] = None /\ i \in failed'
           /\ \E now \in Clock : Make(i, Copy(i, "dir", now), now)
  BY <1>0, <1>5, <1>8, ClockType
<1>9. QED
  BY <1>0, <1>2, <1>4, <1>6, <1>7, <1>8 DEF WorkerDir, Copy, Fail, dstVars

LEMMA InstallFine ==
  ASSUME TypeOK, NEW i \in Items, Install(i) \/ Stall(i), NEW j \in Items
  PROVE  /\ Fine(dst, behind, j) => Fine(dst', behind', j) \/ j \in failed'
         /\ i \in failed' \cup orphans' \/ Fine(dst', behind', i)
<1>1. dst \in [Items -> Node \cup {None}] /\ src \in Sources
  BY DEF TypeOK
<1>2. PICK s : s = Seconds(src[i].time)
  OBVIOUS
<1>3. s \in Nat
  BY <1>1, <1>2, SourceNode, SecondsType
<1>4. ASSUME NEW time \in Nat, NEW now \in Clock, Make(i, Copy(i, "file", time), now)
      PROVE  /\ i # j /\ Fine(dst, behind, j) => Fine(dst', behind', j)
             /\ time = s => Fine(dst', behind', i)
  <2>1. Copy(i, "file", time) \in Node /\ Copy(i, "file", time) # None
    BY <1>1, CopyNode, SyncAssumption
  <2>2. /\ i # j /\ Fine(dst, behind, j) => Fine(dst', behind', j)
        /\ Current([dst EXCEPT ![i] = Copy(i, "file", time)], i) \/ i \in behind
             => Fine(dst', behind', i)
    BY <1>1, <1>4, <2>1, MadeFine
  <2>3. time = s => Current([dst EXCEPT ![i] = Copy(i, "file", time)], i)
    BY <1>1, <1>2, CopyCurrent
  <2>4. QED
    BY <2>2, <2>3
<1>5. ASSUME NEW now \in Clock, Make(i, dst[i], now)
      PROVE  i # j /\ Fine(dst, behind, j) => Fine(dst', behind', j)
  BY <1>1, <1>5, MadeFine
<1>6. CASE \E now \in Clock : Make(i, Copy(i, "file", s), now)
  BY <1>3, <1>4, <1>6
<1>7. CASE UNCHANGED dstVars /\ i \in failed' \cup orphans'
  BY <1>7 DEF dstVars
<1>8. CASE /\ i \in failed'
           /\ \E now \in Clock : Make(i, dst[i], now) \/ Make(i, Copy(i, "file", now), now)
  BY <1>4, <1>5, <1>8, ClockType
<1>9. QED
  BY <1>2, <1>6, <1>7, <1>8 DEF Install, Stall, Copy, Fail, dstVars

\* What FileInfos has is on its way: announced, answered, or asked for.
Held ==
  ~raced => \A i \in FileInfos :
    \/ src[i].kind = "dir" \/ i \in failed \/ Undecided(i) \/ Replied(i)
    \/ streams[i] \in {"started", "open"}

\* A second run would leave i alone, or make it for a clock that was behind.
LeftAlone(i) == NeedsUpdate(i) => i \in behind

Ended == {"none", "closed", "stalled"}

\* What has left the Pool, and is not transferred now, is left alone.
Caught ==
  /\ \A i \in Items :
       \/ i \in failed \cup orphans \/ Undecided(i) \/ streams[i] \notin Ended
       \/ LeftAlone(i)
  /\ pc[1] = "current" => running[1] \in failed \/ LeftAlone(running[1])

LEMMA InitCaught == Init => Held /\ Caught
<1> SUFFICES ASSUME Init PROVE Held /\ Caught
  OBVIOUS
<1>1. toScan = Items /\ FileInfos = {} /\ pc[1] = "idle"
  BY OneThread DEF Init
<1>2. QED
  BY <1>1 DEF Held, Caught, Undecided, Unheard, Unsent

LEMMA FineIs == \A i \in Items : TypeOK => (LeftAlone(i) <=> Fine(dst, behind, i))
  BY CurrentIs DEF LeftAlone, Fine

LEMMA FineThen == \A i \in Items : TypeOK' => (LeftAlone(i)' <=> Fine(dst, behind, i)')
<1>1. (\A i \in Items : TypeOK => (LeftAlone(i) <=> Fine(dst, behind, i)))'
  BY FineIs, PTL
<1>2. QED
  BY <1>1

LEMMA FineAfter ==
  ASSUME TypeOK', src' = src, NEW j \in Items, Fine(dst', behind', j) PROVE LeftAlone(j)'
<1>1. Fine(dst, behind, j)'
  BY DEF Fine, Current
<1>2. QED
  BY <1>1, FineThen

\* No step makes a current copy another, unless a call fails.
LEMMA StaysFine ==
  ASSUME TypeOK, Folders, [Next]_vars, TypeOK', NEW j \in Items, LeftAlone(j)
  PROVE  LeftAlone(j)' \/ j \in failed'
<1>1. Fine(dst, behind, j) /\ src' = src
  BY FineIs, Kept
<1>2. CASE UNCHANGED dstVars
  BY <1>1, <1>2, FineAfter DEF dstVars
<1>3. ASSUME Fine(dst', behind', j) PROVE LeftAlone(j)'
  BY <1>1, <1>3, FineAfter
<1>4. ASSUME NEW t \in Threads, WorkerDir(t) PROVE LeftAlone(j)'
  BY <1>1, <1>3, <1>4, DirFine
<1>5. ASSUME NEW i \in Items, Install(i) \/ Stall(i) PROVE LeftAlone(j)' \/ j \in failed'
  BY <1>1, <1>3, <1>5, InstallFine
<1>6. CASE Scan \/ ReceiveMessage \/ ReceiveReply \/ UNCHANGED vars
  <2>1. UNCHANGED dstVars
    BY <1>6 DEF Scan, ScanItem, Emplace, Send, ReceiveMessage, ReceiveReply, vars
  <2>2. QED
    BY <1>2, <2>1
<1>7. ASSUME NEW t \in Threads,
             \/ WorkerStart(t) \/ WorkerDecide(t) \/ WorkerFile(t) \/ WorkerCurrent(t)
             \/ WorkerDone(t)
      PROVE  UNCHANGED dstVars
  BY <1>7 DEF WorkerStart, WorkerDecide, WorkerFile, WorkerCurrent, WorkerDone
<1>8. ASSUME NEW i \in Items,
             \/ StreamStarted(i) \/ ReceiveFileId(i) \/ ReceiveFileIdRefused(i)
             \/ ReceiveFileIdUnknown(i)
      PROVE  UNCHANGED dstVars
  BY <1>8 DEF StreamStarted, ReceiveFileId, ReceiveFileIdRefused, ReceiveFileIdUnknown
<1>9. QED
  BY <1>2, <1>4, <1>5, <1>6, <1>7, <1>8 DEF Next, Worker, Transfer, Done

\* What makes an item current.
LEMMA MadeOrFailed ==
  ASSUME TypeOK, Folders, TypeOK', src' = src
  PROVE  /\ WorkerDir(1) => running[1] \in failed' \cup orphans' \/ LeftAlone(running[1])'
         /\ \A i \in Items : Install(i) => i \in failed' \cup orphans' \/ LeftAlone(i)'
<1>1. ASSUME WorkerDir(1), running[1] \notin failed' \cup orphans'
      PROVE  LeftAlone(running[1])'
  <2>0. PICK i : i = running[1]
    OBVIOUS
  <2>1. i \in Items /\ 1 \in Threads
    BY <1>1, <2>0, OneThread DEF WorkerDir, TypeOK
  <2>2. Fine(dst', behind', i) /\ running' = running
    BY <1>1, <2>0, <2>1, DirFine DEF WorkerDir, poolVars
  <2>3. LeftAlone(i)'
    BY <2>1, <2>2, FineAfter
  <2>4. QED
    BY <2>0, <2>2, <2>3 DEF LeftAlone, NeedsUpdate
<1>2. ASSUME NEW i \in Items, Install(i), i \notin failed' \cup orphans' PROVE LeftAlone(i)'
  BY <1>2, InstallFine, FineAfter
<1>3. QED
  BY <1>1, <1>2

\* A stream that ends has had its transfer, or a call has failed.
LEMMA StreamsMove ==
  ASSUME TypeOK, [Next]_vars, NEW i \in Items
  PROVE  /\ streams[i] \notin Ended /\ streams'[i] \in Ended => i \in failed' \/ Install(i)
         /\ streams[i] # "none" => streams'[i] # "none"
<1>1. CASE streams' = streams
  BY <1>1
<1>2. CASE Scan \/ ReceiveMessage \/ ReceiveReply \/ UNCHANGED vars
  <2>1. streams' = streams
    BY <1>2 DEF Scan, ScanItem, Emplace, Send, ReceiveMessage, ReceiveReply, vars
  <2>2. QED
    BY <2>1
<1>3. ASSUME NEW t \in Threads, Worker(t)
      PROVE  streams' = streams \/ streams' = [streams EXCEPT ![running[t]] = "started"]
  BY <1>3 DEF Worker, WorkerStart, WorkerDecide, WorkerDir, WorkerFile, WorkerCurrent, WorkerDone
<1>4. ASSUME NEW j \in Items, Transfer(j)
      PROVE  \/ streams' = [streams EXCEPT ![j] = "open"]
             \/ streams' = [streams EXCEPT ![j] = "sending"]
             \/ streams' = [streams EXCEPT ![j] = "unanswered"]
             \/ streams' = [streams EXCEPT ![j] = "stalled"] /\ j \in failed'
             \/ streams' = [streams EXCEPT ![j] = "closed"] /\ (j \in failed' \/ Install(j))
  BY <1>4 DEF Transfer, StreamStarted, ReceiveFileId, ReceiveFileIdRefused,
     ReceiveFileIdUnknown, Install, Stall, Fail
<1>5. ASSUME NEW t \in Threads, Worker(t)
      PROVE  streams'[i] = streams[i] \/ streams'[i] = "started"
  BY <1>3, <1>5 DEF TypeOK
<1>6. ASSUME NEW j \in Items, Transfer(j)
      PROVE  \/ streams'[i] \in {streams[i], "open", "sending", "unanswered"}
             \/ streams'[i] \in {"closed", "stalled"} /\ (i \in failed' \/ Install(i))
  BY <1>4, <1>6 DEF TypeOK
<1>7. QED
  BY <1>2, <1>5, <1>6 DEF Next, Done, TypeOK, Ended

LEMMA NextCaught ==
  TypeOK /\ Once /\ Folders /\ Caught /\ [Next]_vars => Caught'
<1> SUFFICES ASSUME TypeOK, Once, Folders, Caught, [Next]_vars PROVE Caught'
  OBVIOUS
<1>1. /\ TypeOK' /\ src' = src /\ failed \subseteq failed' /\ orphans \subseteq orphans'
      /\ 1 \in Threads
  BY NextTypeOK, Kept, OneThread
<1>2. ASSUME NEW i \in Items
      PROVE  \/ i \in failed' \cup orphans' \/ Undecided(i)' \/ streams'[i] \notin Ended
             \/ LeftAlone(i)'
  <2>1. CASE Undecided(i) /\ ~Undecided(i)'
    <3>1. CASE running[1] = i /\ WorkerDir(1)
      <4>1. i \in failed' \cup orphans' \/ LeftAlone(running[1])'
        BY <1>1, <3>1, MadeOrFailed
      <4>2. running' = running
        BY <3>1 DEF WorkerDir, poolVars
      <4>3. QED
        BY <3>1, <4>1, <4>2 DEF LeftAlone, NeedsUpdate
    <3>2. CASE running[1] = i /\ WorkerFile(1)
      BY <3>2 DEF WorkerFile, Fail, TypeOK, Ended
    <3>3. CASE running[1] = i /\ WorkerCurrent(1)
      <4>1. pc[1] = "current"
        BY <3>3 DEF WorkerCurrent
      <4>2. i \in failed \/ LeftAlone(i)
        BY <3>3, <4>1 DEF Caught
      <4>3. QED
        BY <1>1, <4>2, StaysFine
    <3>4. QED
      BY <2>1, <3>1, <3>2, <3>3, Leaves
  <2>2. CASE ~Undecided(i) /\ streams[i] \notin Ended /\ streams'[i] \in Ended
    BY <1>1, <2>2, StreamsMove, MadeOrFailed
  <2>3. CASE ~Undecided(i) /\ streams[i] \in Ended
    <3>1. i \in failed \cup orphans \/ LeftAlone(i)
      BY <2>3 DEF Caught
    <3>2. QED
      BY <1>1, <3>1, StaysFine
  <2>4. QED
    BY <2>1, <2>2, <2>3
<1>3. ASSUME pc'[1] = "current" PROVE running'[1] \in failed' \/ LeftAlone(running[1])'
  <2>1. running'[1] \in Items
    BY <1>1, <1>3 DEF TypeOK
  <2>2. CASE pc[1] = "current" /\ running' = running
    <3>1. running[1] \in failed \/ LeftAlone(running[1])
      BY <2>2 DEF Caught
    <3>2. PICK i : i = running[1]
      OBVIOUS
    <3>3. i \in failed' \/ LeftAlone(i)'
      BY <1>1, <2>1, <2>2, <3>1, <3>2, StaysFine
    <3>4. QED
      BY <2>2, <3>2, <3>3 DEF LeftAlone, NeedsUpdate
  <2>3. ASSUME NEW t \in Threads, WorkerDecide(t)
        PROVE  running'[1] \in failed' \/ LeftAlone(running[1])'
    <3>1. /\ t = 1 /\ running' = running /\ UNCHANGED dstVars /\ running[1] \in Items
          /\ \/ pc'[1] = IF NeedsUpdate(running[1]) THEN src[running[1]].kind ELSE "current"
             \/ running[1] \in failed'
      BY <2>1, <2>3, OneThread DEF WorkerDecide, Fail, poolVars, TypeOK
    <3>2. src[running[1]].kind # "current"
      BY <3>1, SourceNode DEF TypeOK
    <3>3. running[1] \in failed' \/ ~NeedsUpdate(running[1])
      BY <1>3, <3>1, <3>2
    <3>4. QED
      BY <1>1, <3>1, <3>3 DEF LeftAlone, NeedsUpdate, dstVars
  <2>4. CASE Scan \/ ReceiveMessage \/ ReceiveReply \/ UNCHANGED vars
    <3>1. UNCHANGED <<pc, running>>
      BY <2>4 DEF Scan, ScanItem, Emplace, Send, ReceiveMessage, Pool!Submit, ReceiveReply, vars,
         poolVars
    <3>2. QED
      BY <1>3, <2>2, <3>1
  <2>5. ASSUME NEW t \in Threads,
               \/ WorkerStart(t) \/ WorkerDir(t) \/ WorkerFile(t) \/ WorkerCurrent(t)
               \/ WorkerDone(t)
        PROVE  FALSE
    BY <1>3, <2>5, OneThread DEF WorkerStart, WorkerDir, WorkerFile, WorkerCurrent, WorkerDone,
       TypeOK
  <2>6. ASSUME NEW j \in Items, Transfer(j) PROVE UNCHANGED <<pc, running>>
    BY <2>6 DEF Transfer, StreamStarted, ReceiveFileId, ReceiveFileIdRefused,
       ReceiveFileIdUnknown, Install, Stall, poolVars
  <2>7. QED
    BY <1>3, <2>2, <2>3, <2>4, <2>5, <2>6 DEF Next, Worker, Done
<1>4. (pc[1] = "current" => running[1] \in failed \/ LeftAlone(running[1]))'
  BY <1>3 DEF LeftAlone, NeedsUpdate
<1>5. QED
  BY <1>2, <1>4 DEF Caught

LEMMA NextHeld ==
  TypeOK /\ Once /\ Folders /\ Held /\ [Next]_vars => Held'
<1> SUFFICES ASSUME TypeOK, Once, Folders, Held, [Next]_vars, ~raced', NEW i \in FileInfos'
             PROVE  (\/ src[i].kind = "dir" \/ i \in failed \/ Undecided(i) \/ Replied(i)
                     \/ streams[i] \in {"started", "open"})'
  BY DEF Held
<1> DEFINE Goal == \/ src'[i].kind = "dir" \/ i \in failed' \/ Undecided(i)' \/ Replied(i)'
                   \/ streams'[i] \in {"started", "open"}
<1> SUFFICES Goal
  OBVIOUS
<1>1. TypeOK' /\ src' = src /\ failed \subseteq failed' /\ i \in Items
  BY NextTypeOK, Kept DEF TypeOK
<1>2. CASE Undecided(i)
  <2>1. CASE running[1] = i /\ WorkerDir(1)
    BY <2>1 DEF WorkerDir, Folders
  <2>2. CASE running[1] = i /\ WorkerFile(1)
    BY <1>1, <2>2 DEF WorkerFile, Fail, TypeOK
  <2>3. CASE running[1] = i /\ WorkerCurrent(1)
    <3>1. replies' = Append(replies, i) \/ i \in failed'
      BY <2>3 DEF WorkerCurrent, Fail
    <3>2. In(Append(replies, i), i)
      BY <1>1, Appended DEF TypeOK
    <3>3. QED
      BY <3>1, <3>2 DEF Replied
  <2>4. QED
    BY <1>1, <1>2, <2>1, <2>2, <2>3, Leaves
<1>3. CASE ~Undecided(i)
  <2>1. ASSUME raced' = raced, FileInfos' = FileInfos, UNCHANGED <<replies, streams>> PROVE Goal
    BY <1>1, <1>3, <2>1 DEF Held, Replied
  <2>2. ASSUME NEW j \in Items, ScanItem(j) PROVE Goal
    <3>1. raced' = raced /\ FileInfos' = FileInfos /\ UNCHANGED <<replies, streams>>
      BY <2>2 DEF ScanItem, Fail, history
    <3>2. QED
      BY <2>1, <3>1
  <2>3. CASE Emplace
    <3>1. /\ raced' = raced /\ UNCHANGED <<replies, streams>>
          /\ FileInfos' \subseteq FileInfos \cup {item}
          /\ i # item
      BY <1>3, <2>3 DEF Emplace, history, Undecided, Unheard, Unsent, Announcing
    <3>2. QED
      BY <1>1, <1>3, <3>1 DEF Held, Replied
  <2>4. CASE Send \/ ReceiveMessage \/ UNCHANGED vars
    <3>1. raced' = raced /\ FileInfos' = FileInfos /\ UNCHANGED <<replies, streams>>
      BY <2>4 DEF Send, ReceiveMessage, vars, Fail, history
    <3>2. QED
      BY <2>1, <3>1
  <2>5. CASE ReceiveReply
    <3>0. PICK r : r = Head(replies)
      OBVIOUS
    <3>1. /\ replies # << >> /\ replies' = Tail(replies) /\ replies \in Seq(Items)
          /\ ~raced /\ FileInfos' = FileInfos \ {r} /\ UNCHANGED streams
      BY <2>5, <3>0 DEF ReceiveReply, Meets, TypeOK
    <3>2. Replied(i) <=> Replied(i)' \/ i = r
      BY <3>0, <3>1, Taken DEF Replied
    <3>3. QED
      BY <1>1, <1>3, <3>1, <3>2 DEF Held
  <2>6. ASSUME NEW t \in Threads,
               WorkerStart(t) \/ WorkerDecide(t) \/ WorkerDir(t) \/ WorkerDone(t)
        PROVE  Goal
    <3>1. raced' = raced /\ FileInfos' = FileInfos /\ UNCHANGED <<replies, streams>>
      BY <2>6 DEF WorkerStart, WorkerDecide, WorkerDir, WorkerDone, Fail, history
    <3>2. QED
      BY <2>1, <3>1
  <2>7. ASSUME NEW t \in Threads, WorkerFile(t) PROVE Goal
    <3>1. /\ raced' = raced /\ FileInfos' = FileInfos /\ UNCHANGED replies
          /\ streams' = streams \/ streams' = [streams EXCEPT ![running[t]] = "started"]
      BY <2>7 DEF WorkerFile, Fail, history
    <3>2. streams'[i] = streams[i] \/ streams'[i] = "started"
      BY <1>1, <3>1 DEF TypeOK
    <3>3. QED
      BY <1>1, <1>3, <3>1, <3>2 DEF Held, Replied
  <2>8. ASSUME NEW t \in Threads, WorkerCurrent(t) PROVE Goal
    <3>1. /\ raced' = raced /\ FileInfos' = FileInfos /\ UNCHANGED streams
          /\ replies' = replies \/ replies' = Append(replies, running[t])
          /\ replies \in Seq(Items) /\ running[t] \in Items
      BY <2>8 DEF WorkerCurrent, Fail, history, TypeOK
    <3>2. Replied(i) => Replied(i)'
      BY <3>1, Appended DEF Replied
    <3>3. QED
      BY <1>1, <1>3, <3>1, <3>2 DEF Held
  <2>9. ASSUME NEW j \in Items,
               \/ StreamStarted(j) \/ ReceiveFileId(j) \/ ReceiveFileIdRefused(j)
               \/ ReceiveFileIdUnknown(j) \/ Install(j) \/ Stall(j)
        PROVE  Goal
    <3>1. /\ ~raced /\ UNCHANGED replies /\ i \in FileInfos
          /\ streams' = [streams EXCEPT ![j] = streams'[j]]
          /\ streams[j] \in {"started", "open"} =>
               streams'[j] \in {"started", "open"} \/ j \in failed' \/ j \notin FileInfos'
      BY <2>9, InstallEffect DEF StreamStarted, ReceiveFileId, ReceiveFileIdRefused,
         ReceiveFileIdUnknown, Install, Stall, Meets, history, TypeOK
    <3>2. i # j => streams'[i] = streams[i]
      BY <1>1, <3>1 DEF TypeOK
    <3>3. QED
      BY <1>1, <1>3, <3>1, <3>2 DEF Held, Replied
  <2> HIDE DEF Goal
  <2>10. QED
    BY <2>2, <2>3, <2>4, <2>5, <2>6, <2>7, <2>8, <2>9 DEF Next, Scan, Worker, Transfer, Done
<1>4. QED
  BY <1>2, <1>3

\* At rest nothing is on its way.
LEMMA AtRest ==
  ASSUME TypeOK, Quiet, NEW i \in Items PROVE ~Undecided(i) /\ ~Replied(i)
<1>1. toScan = {} /\ step = "scan" /\ control = << >> /\ replies = << >> /\ queue = << >>
      /\ pc[1] = "idle"
  BY OneThread DEF Quiet, Decided
<1>2. DOMAIN << >> = {}
  OBVIOUS
<1>3. QED
  BY <1>1, <1>2 DEF Undecided, Unheard, Unsent, Announcing, Sent, Queued, Deciding, Replied, In

(* A run leaves no copy that the next would have to make again, for any    *)
(* tree, any destination and any clock: where no call failed, and no       *)
(* folder was missing, NeedsUpdate says no, although copies have no        *)
(* fraction of a second.  The exception is a folder whose time a clock     *)
(* behind the time announced was the last to move.                         *)
THEOREM NothingLeftToDo == Spec => []NextRunIdle
<1>1. TypeOK /\ Known /\ Caught => NextRunIdle
  <2>1. SUFFICES ASSUME TypeOK, Known, Caught, Quiet, ~raced,
                        NEW i \in Items \ (failed \cup orphans)
                 PROVE  NeedsUpdate(i) => i \in behind
    BY DEF NextRunIdle
  <2>2. streams[i] \in Ended
    BY <2>1 DEF Quiet, Known, Ended
  <2>3. QED
    BY <2>1, <2>2, AtRest DEF Caught, LeftAlone
<1>2. QED
  BY <1>1, InitTypeOK, NextTypeOK, InitOnce, NextOnce, InitOrdered, NextOrdered, NextFolders,
     InitCaught, NextCaught, PTL DEF Spec, Safety

(* The client's map is emptied: at rest it has kept only folders that were *)
(* updated, of which the server does not tell, and what has failed.        *)
THEOREM EntriesReleased == Spec => []Released
<1>1. TypeOK /\ Held => Released
  <2>1. SUFFICES ASSUME TypeOK, Held, Quiet, ~raced, NEW i \in FileInfos
                 PROVE  src[i].kind = "dir" \/ i \in failed
    BY DEF Released
  <2>2. i \in Items
    BY <2>1 DEF TypeOK
  <2>3. streams[i] \notin {"started", "open"}
    BY <2>1, <2>2 DEF Quiet
  <2>4. QED
    BY <2>1, <2>2, <2>3, AtRest DEF Held
<1>2. QED
  BY <1>1, InitTypeOK, NextTypeOK, InitOnce, NextOnce, InitOrdered, NextOrdered, NextFolders,
     InitCaught, NextHeld, PTL DEF Spec, Safety

===============================================================================
