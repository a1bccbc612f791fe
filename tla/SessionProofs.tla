--------------------------- MODULE SessionProofs ---------------------------
(***************************************************************************)
(* Proofs about Session, for any number of clients, any passwords, salts   *)
(* and faults.                                                             *)
(*                                                                         *)
(* SamePassword rests on what each end has verified: a client that is      *)
(* connected has accepted the server's certificate (Accepted), and the     *)
(* server has accepted that client's when it made the connection.  Neither *)
(* is forgotten when connections are lost, refused, replaced or destroyed. *)
(*                                                                         *)
(* AnswersGoBack rests on there being one client (One): when a connection  *)
(* is made the listener is stopped, so that Connection and ControlStream   *)
(* lead to whom the items in the Pool came from.  UsesAlive rests on what  *)
(* each destructor has waited for (Gone).                                  *)
(*                                                                         *)
(* The certificates of two ends with one password verify, whatever zeros   *)
(* their salts begin with (PasswordDecides): by LeastNumber, an induction  *)
(* over the bytes of a salt.                                               *)
(***************************************************************************)
EXTENDS Session, SequenceTheorems, FiniteSetTheorems, WellFoundedInduction, TLAPS

Accepts(c) == password[c] # NoPassword => Verifies(password[c], CertificateOf(Server))
Accepted == \A c \in Clients : cside[c] = "connected" => Accepts(c)

SideTypes ==
  /\ cside \in [Clients -> {"none", "starting", "connected", "down", "closed"}]
  /\ sside \in [Clients -> {"none", "indicated", "handshake", "connected", "streaming",
                            "heard", "down", "closed"}]

IInv == SideTypes /\ Accepted /\ SamePassword

\* Only the password that made a certificate verifies it.
LEMMA VerifiesSame ==
  ASSUME NEW p, NEW q, NEW salt, Verifies(p, Certificate(q, salt))
  PROVE  p = q
BY DEF Verifies, Certificate, SigningKey

\* When both ends accept, they have the same password or none.
LEMMA BothAccept ==
  ASSUME NEW c \in Clients, Accepts(c), ServerAccepts(c)
  PROVE  password[c] = password[Server]
<1>1. CASE password[c] = NoPassword
  BY <1>1 DEF ServerAccepts
<1>2. CASE password[c] # NoPassword
  BY <1>2, VerifiesSame DEF Accepts, CertificateOf
<1> QED  BY <1>1, <1>2

\* Steps in which no connection comes further than it was.
LEMMA NoProgress ==
  ASSUME IInv, password' = password, SideTypes',
         \A c \in Clients : cside'[c] = "connected" => cside[c] = "connected",
         \A c \in Clients : sside'[c] \in Established => sside[c] \in Established
  PROVE  IInv'
BY DEF IInv, Accepted, Accepts, SamePassword, CertificateOf

LEMMA ReplaceSides ==
  ASSUME SideTypes, NEW c \in Clients, NEW state \in {"handshake", "closed"},
         Replace(c, state)
  PROVE  /\ sside' \in [Clients -> {"none", "indicated", "handshake", "connected",
                                    "streaming", "heard", "down", "closed"}]
         /\ \A d \in Clients : sside'[d] \in Established => sside[d] \in Established
BY DEF Replace, SideTypes, Established

LEMMA InitIInv == Init => IInv
BY DEF Init, IInv, SideTypes, Accepted, SamePassword, Established

\* A client's own steps.
LEMMA ClientIInv ==
  ASSUME IInv, NEW c \in Clients, StartClient(c) \/ AtClient(c) \/ Lost(c)
  PROVE  IInv'
<1> USE DEF IInv
<1>1. CASE ClientHandshake(c)
  <2>1. /\ SideTypes' /\ password' = password /\ sside' = sside
        /\ \A d \in Clients \ {c} : cside'[d] = cside[d]
        /\ cside'[c] = "connected" => Accepts(c)
    BY <1>1 DEF ClientHandshake, SideTypes, Accepts
  <2> QED  BY <2>1 DEF Accepted, Accepts, SamePassword, CertificateOf, Established
<1>2. CASE StartClient(c) \/ ClientReceive(c) \/ ClientDown(c) \/ Lost(c)
  <2>1. /\ SideTypes' /\ password' = password /\ sside' = sside
        /\ \A d \in Clients : cside'[d] = "connected" => cside[d] = "connected"
    BY <1>2 DEF StartClient, ClientReceive, ClientDown, Lost, SideTypes
  <2> QED  BY <2>1, NoProgress
<1> QED  BY <1>1, <1>2 DEF AtClient

\* The server's steps for one client.
LEMMA ServerIInv ==
  ASSUME IInv, NEW c \in Clients, AtServer(c)
  PROVE  IInv'
<1> USE DEF IInv
<1>1. CASE Connected(c)
  <2>1. /\ SideTypes' /\ password' = password /\ cside' = cside
        /\ \A d \in Clients \ {c} : sside'[d] = sside[d]
    BY <1>1 DEF Connected, SideTypes
  <2>2. Accepts(c) /\ ServerAccepts(c)
    BY <1>1 DEF Connected, Accepted
  <2>3. password[c] = password[Server]
    BY <2>2, BothAccept
  <2> QED  BY <2>1, <2>3 DEF Accepted, Accepts, SamePassword, CertificateOf
<1>2. CASE NewConnection(c) \/ NewConnectionRefused(c)
  <2>1. password' = password /\ cside' = cside
    BY <1>2 DEF NewConnection, NewConnectionRefused
  <2>2. Replace(c, "handshake") \/ Replace(c, "closed")
    BY <1>2 DEF NewConnection, NewConnectionRefused
  <2>3. /\ SideTypes'
        /\ \A d \in Clients : sside'[d] \in Established => sside[d] \in Established
    BY <2>1, <2>2, ReplaceSides DEF SideTypes
  <2> QED  BY <2>1, <2>3, NoProgress
<1>3. CASE \/ Indicate(c) \/ ServerRefuses(c) \/ StreamStarted(c) \/ Receive(c)
           \/ DataReceive(c) \/ ServerDown(c)
  <2>1. /\ SideTypes' /\ password' = password /\ cside' = cside
        /\ \A d \in Clients : sside'[d] \in Established => sside[d] \in Established
    BY <1>3 DEF Indicate, ServerRefuses, StreamStarted, Receive, DataReceive, ServerDown,
                SideTypes, Established
  <2> QED  BY <2>1, NoProgress
<1> QED  BY <1>1, <1>2, <1>3 DEF AtServer

\* The steps of main's thread and of the Pool's.
LEMMA MainIInv ==
  ASSUME IInv,
         StartServer \/ Worker \/ \E e \in Ends : StartFails(e) \/ Enter(e) \/ Exit(e)
  PROVE  IInv'
<1> USE DEF IInv
<1>1. CASE \E e \in Ends : Destroy(e)
  <2>1. PICK e \in Ends : Destroy(e)
    BY <1>1
  <2>2. /\ password' = password
        /\ sside' = sside \/ sside' = [sside EXCEPT ![Connection] = "closed"]
        /\ cside' = cside \/ cside' = [cside EXCEPT ![e] = "closed"]
    BY <2>1 DEF Destroy
  <2>3. /\ SideTypes'
        /\ \A c \in Clients : cside'[c] = "connected" => cside[c] = "connected"
        /\ \A c \in Clients : sside'[c] \in Established => sside[c] \in Established
    BY <2>2 DEF SideTypes, Established
  <2> QED  BY <2>2, <2>3, NoProgress
<1>2. CASE StartServer \/ Worker \/ \E e \in Ends : StartFails(e) \/ Enter(e) \/ Return(e)
  <2>1. SideTypes' /\ password' = password /\ cside' = cside /\ sside' = sside
    BY <1>2 DEF StartServer, Worker, WorkerRead, WorkerUse, StartFails, Enter, Return,
                SideTypes
  <2> QED  BY <2>1, NoProgress
<1> QED  BY <1>1, <1>2 DEF Exit

LEMMA NextIInv == IInv /\ [Next]_vars => IInv'
<1> SUFFICES ASSUME IInv, [Next]_vars
             PROVE  IInv'
  OBVIOUS
<1>1. CASE UNCHANGED vars
  BY <1>1, NoProgress DEF IInv, SideTypes, vars
<1>2. CASE StartServer \/ Worker \/ \E e \in Ends : StartFails(e) \/ Enter(e) \/ Exit(e)
  BY <1>2, MainIInv
<1>3. CASE \E c \in Clients : AtServer(c)
  BY <1>3, ServerIInv
<1>4. CASE \E c \in Clients : StartClient(c) \/ AtClient(c) \/ Lost(c)
  BY <1>4, ClientIInv
<1> QED  BY <1>1, <1>2, <1>3, <1>4 DEF Next

(* Whoever has a session with the server has its password, or neither has  *)
(* one, whatever is lost, refused, replaced or destroyed meanwhile.        *)
THEOREM Mutual == Spec => []SamePassword
<1>1. Spec => []IInv
  BY InitIInv, NextIInv, PTL DEF Spec
<1>2. IInv => SamePassword
  BY DEF IInv
<1> QED  BY <1>1, <1>2, PTL

-----------------------------------------------------------------------------
(* Sequences of clients *)

In(s, x) == \E k \in DOMAIN s : s[k] = x
Distinct(s) == \A j, k \in DOMAIN s : s[j] = s[k] => j = k

LEMMA Appended ==
  ASSUME NEW s \in Seq(Clients), NEW x \in Clients
  PROVE  /\ Append(s, x) \in Seq(Clients) /\ Append(s, x) # << >>
         /\ \A y : In(Append(s, x), y) <=> In(s, y) \/ y = x
         /\ Distinct(s) /\ ~In(s, x) => Distinct(Append(s, x))
<1> DEFINE t == Append(s, x)
           n == Len(s)
<1>1. /\ t \in Seq(Clients) /\ n \in Nat /\ DOMAIN s = 1..n /\ DOMAIN t = 1..(n + 1)
      /\ t[n + 1] = x /\ \A k \in 1..n : t[k] = s[k]
      /\ t # << >>
  BY AppendProperties, LenProperties
<1> HIDE DEF t, n
<1>2. /\ \A k \in 1..(n + 1) : k \in 1..n \/ k = n + 1
      /\ \A k \in 1..n : k \in 1..(n + 1)
      /\ n + 1 \in 1..(n + 1)
  BY <1>1
<1>3. \A y : In(t, y) <=> In(s, y) \/ y = x
  BY <1>1, <1>2 DEF In
<1>4. ASSUME Distinct(s), ~In(s, x), NEW j \in 1..(n + 1), NEW k \in 1..(n + 1), t[j] = t[k]
      PROVE  j = k
  <2>1. CASE j \in 1..n /\ k \in 1..n
    BY <1>1, <1>4, <2>1 DEF Distinct
  <2>2. CASE j = n + 1 /\ k \in 1..n
    BY <1>1, <1>4, <2>2 DEF In
  <2>3. CASE j \in 1..n /\ k = n + 1
    BY <1>1, <1>4, <2>3 DEF In
  <2>4. QED
    BY <1>2, <2>1, <2>2, <2>3
<1>5. Distinct(s) /\ ~In(s, x) => Distinct(t)
  BY <1>1, <1>4 DEF Distinct
<1>6. QED
  BY <1>1, <1>3, <1>5 DEF t

LEMMA Taken ==
  ASSUME NEW s \in Seq(Clients), s # << >>
  PROVE  /\ Tail(s) \in Seq(Clients) /\ Head(s) \in Clients /\ In(s, Head(s))
         /\ \A y : In(Tail(s), y) => In(s, y)
         /\ Distinct(s) => Distinct(Tail(s))
<1> DEFINE t == Tail(s)
           n == Len(s)
<1>1. /\ t \in Seq(Clients) /\ n \in Nat \ {0} /\ Head(s) \in Clients /\ Head(s) = s[1]
      /\ DOMAIN s = 1..n /\ DOMAIN t = 1..(n - 1)
      /\ \A k \in 1..(n - 1) : t[k] = s[k + 1]
  BY HeadTailProperties, LenProperties, EmptySeq
<1>2. 1 \in 1..n /\ \A k \in 1..(n - 1) : k + 1 \in 1..n
  BY <1>1
<1> HIDE DEF t, n
<1>3. In(s, Head(s)) /\ \A y : In(t, y) => In(s, y)
  BY <1>1, <1>2 DEF In
<1>4. ASSUME Distinct(s), NEW j \in 1..(n - 1), NEW k \in 1..(n - 1), t[j] = t[k] PROVE j = k
  <2>1. s[j + 1] = s[k + 1] /\ j + 1 \in 1..n /\ k + 1 \in 1..n
    BY <1>1, <1>2, <1>4
  <2>2. j + 1 = k + 1
    BY <1>1, <1>4, <2>1 DEF Distinct
  <2>3. QED
    BY <2>2, <1>1
<1>5. Distinct(s) => Distinct(t)
  BY <1>1, <1>4 DEF Distinct
<1>6. QED
  BY <1>1, <1>3, <1>5 DEF t

\* No more items than clients, as long as none is there twice.
LEMMA DistinctLength ==
  ASSUME NEW s \in Seq(Clients), Distinct(s)
  PROVE  Len(s) <= Cardinality(Clients)
<1>1. Len(s) \in Nat /\ s \in [1..Len(s) -> Clients]
  BY LenProperties
<1>2. s \in Injection(1..Len(s), Clients)
  BY <1>1 DEF Distinct, Injection, IsInjective
<1>3. IsFiniteSet(Clients)
  BY SessionAssumption
<1>4. Cardinality(1..Len(s)) <= Cardinality(Clients)
  BY <1>2, <1>3, FS_Injection
<1>5. Cardinality(1..Len(s)) = Len(s)
  BY <1>1, FS_Interval
<1>6. QED
  BY <1>4, <1>5

-----------------------------------------------------------------------------
(* Members *)

LEMMA ServerMembers ==
  /\ Len(Members(Server)) = 8 /\ Server \in Ends
  /\ Members(Server)[2] = "Connection" /\ Members(Server)[4] = "Listener"
  /\ Members(Server)[5] = "Reg" /\ Members(Server)[8] = "Pool"
  /\ \A k \in 1..8 : /\ Members(Server)[k] = "Connection" <=> k = 2
                     /\ Members(Server)[k] = "Listener" <=> k = 4
                     /\ Members(Server)[k] = "Pool" <=> k = 8
BY DEF Members, Ends

LEMMA ClientMembers ==
  ASSUME NEW c \in Clients
  PROVE  /\ c \in Ends /\ c # Server
         /\ Len(Members(c)) = 7 /\ Members(c)[6] = "Reg" /\ Members(c)[7] = "Pool"
         /\ \A k \in 1..7 : /\ Members(c)[k] = "Connection" <=> k = 4
                            /\ Members(c)[k] # "Listener"
<1>1. c # Server
  BY SessionAssumption
<1>2. QED
  BY <1>1 DEF Members, Ends

\* Members are destroyed in their order: by how many are gone, which are alive.
LEMMA ServerAlive ==
  ASSUME gone[Server] \in Nat
  PROVE  /\ Alive(Server, "ControlStream") <=> gone[Server] < 1
         /\ Alive(Server, "Connection") <=> gone[Server] < 2
         /\ Alive(Server, "Config") <=> gone[Server] < 3
         /\ Alive(Server, "Listener") <=> gone[Server] < 4
         /\ Alive(Server, "CertPw") <=> gone[Server] < 6
         /\ Alive(Server, "IoPool") <=> gone[Server] < 7
         /\ Alive(Server, "Pool") <=> gone[Server] < 8
<1> DEFINE M == <<"ControlStream", "Connection", "Config", "Listener", "Reg", "CertPw",
                  "IoPool", "Pool">>
           g == gone[Server]
<1>1. DOMAIN M = 1..8
  OBVIOUS
<1>2. \A m : Alive(Server, m) <=> \E i \in 1..8 : M[i] = m /\ i > g
  BY <1>1 DEF Alive, Members
<1>3. /\ \A i \in 1..8 : /\ M[i] = "ControlStream" <=> i = 1
                         /\ M[i] = "Connection" <=> i = 2
                         /\ M[i] = "Config" <=> i = 3
                         /\ M[i] = "Listener" <=> i = 4
                         /\ M[i] = "CertPw" <=> i = 6
                         /\ M[i] = "IoPool" <=> i = 7
                         /\ M[i] = "Pool" <=> i = 8
      /\ 1 \in 1..8 /\ 2 \in 1..8 /\ 3 \in 1..8 /\ 4 \in 1..8 /\ 6 \in 1..8 /\ 7 \in 1..8
      /\ 8 \in 1..8
  OBVIOUS
<1> HIDE DEF M
<1>4. QED
  BY <1>2, <1>3

LEMMA ClientAlive ==
  ASSUME NEW c \in Clients, gone[c] \in Nat
  PROVE  /\ Alive(c, "CertPw") <=> gone[c] < 1
         /\ Alive(c, "FileInfos") <=> gone[c] < 2
         /\ Alive(c, "Pool") <=> gone[c] < 7
<1> DEFINE M == <<"CertPw", "FileInfos", "ControlStream", "Connection", "Config", "Reg",
                  "Pool">>
           g == gone[c]
<1>0. c # Server
  BY SessionAssumption
<1>1. DOMAIN M = 1..7
  OBVIOUS
<1>2. \A m : Alive(c, m) <=> \E i \in 1..7 : M[i] = m /\ i > g
  BY <1>0, <1>1 DEF Alive, Members
<1>3. /\ \A i \in 1..7 : /\ M[i] = "CertPw" <=> i = 1
                         /\ M[i] = "FileInfos" <=> i = 2
                         /\ M[i] = "Pool" <=> i = 7
      /\ 1 \in 1..7 /\ 2 \in 1..7 /\ 7 \in 1..7
  OBVIOUS
<1> HIDE DEF M
<1>4. QED
  BY <1>2, <1>3

-----------------------------------------------------------------------------
(* Types *)

\* An item is in the Pool once, and then its client has announced it.
Queued ==
  /\ Distinct(queue)
  /\ \A c \in Clients : In(queue, c) => sside[c] \in {"heard", "down", "closed"}
  /\ worker # Idle => worker.member # "none"

LEMMA UsesType ==
  ASSUME NEW e, NEW ms, NEW d \in Uses(e, ms)
  PROVE  d[1] = e /\ d[2] \in ms /\ d = <<e, d[2]>> /\ ~Alive(e, d[2])
BY DEF Uses

LEMMA InitTypes == Init => TypeOK /\ Queued
<1> SUFFICES ASSUME Init PROVE TypeOK /\ Queued
  OBVIOUS
<1>1. queue = << >> /\ queue \in Seq(Clients) /\ DOMAIN queue = {} /\ Len(queue) = 0
  BY DEF Init
<1>2. Queued
  BY <1>1 DEF Init, Queued, Distinct, In
<1>3. Len(queue) <= Cardinality(Clients)
  BY <1>1, <1>2, DistinctLength DEF Queued
<1>4. \A e \in Ends : 0 <= Len(Members(e))
  BY ServerMembers, ClientMembers DEF Ends
<1>5. QED
  BY <1>1, <1>2, <1>3, <1>4 DEF Init, TypeOK, Idle

LEMMA ReplaceTypes ==
  ASSUME TypeOK, Queued, NEW c \in Clients, NEW state \in {"handshake", "closed"},
         Replace(c, state), sside[c] = "indicated",
         UNCHANGED <<password, mainVars, listening, cside, ControlStream, poolVars, answer>>,
         failed' \subseteq Faults, UNCHANGED <<raced, crossed>>
  PROVE  TypeOK' /\ Queued'
<1>1. /\ sside' \in [Clients -> {"none", "indicated", "handshake", "connected",
                                 "streaming", "heard", "down", "closed"}]
      /\ \A d \in Clients \ {c} : sside'[d] = sside[d] \/ sside'[d] = "closed"
      /\ Connection' \in Clients \cup {NoOne}
  BY DEF Replace, TypeOK
<1>2. \A d \in dead' : d[1] \in Ends
  BY UsesType, ServerMembers DEF Replace, TypeOK
<1>3. Queued'
  BY <1>1 DEF Queued, poolVars
<1>4. QED
  BY <1>1, <1>2, <1>3 DEF TypeOK, mainVars, poolVars

LEMMA NextTypes == TypeOK /\ Queued /\ [Next]_vars => TypeOK' /\ Queued'
<1> SUFFICES ASSUME TypeOK, Queued, [Next]_vars PROVE TypeOK' /\ Queued'
  OBVIOUS
<1>0. Server \in Ends /\ Clients \subseteq Ends
  BY DEF Ends
<1>1. ASSUME NEW e \in Ends, "start" \in Faults, StartFails(e) PROVE TypeOK' /\ Queued'
  BY <1>1 DEF StartFails, TypeOK, Queued, memberVars, poolVars
<1>2. CASE StartServer
  BY <1>2 DEF StartServer, TypeOK, Queued, memberVars, poolVars, history
<1>3. ASSUME NEW c \in Clients, StartClient(c) PROVE TypeOK' /\ Queued'
  BY <1>3 DEF StartClient, TypeOK, Queued, memberVars, poolVars, history
<1>4. ASSUME NEW c \in Clients, Indicate(c) PROVE TypeOK' /\ Queued'
  BY <1>4 DEF Indicate, TypeOK, Queued, mainVars, memberVars, poolVars, history
<1>5. ASSUME NEW c \in Clients, NewConnection(c) PROVE TypeOK' /\ Queued'
  <2>1. Replace(c, "handshake") /\ sside[c] = "indicated" /\ failed' \subseteq Faults
    BY <1>5 DEF NewConnection, TypeOK
  <2>2. QED
    BY <1>5, <2>1, ReplaceTypes DEF NewConnection
<1>6. ASSUME NEW c \in Clients, NewConnectionRefused(c) PROVE TypeOK' /\ Queued'
  <2>1. Replace(c, "closed") /\ sside[c] = "indicated" /\ failed' \subseteq Faults
    BY <1>6 DEF NewConnectionRefused, TypeOK
  <2>2. QED
    BY <1>6, <2>1, ReplaceTypes DEF NewConnectionRefused
<1>7. ASSUME NEW c \in Clients, ClientHandshake(c) PROVE TypeOK' /\ Queued'
  <2>1. \A d \in dead' : d[1] \in Ends
    BY <1>0, <1>7, UsesType DEF ClientHandshake, TypeOK
  <2>2. cside' \in [Clients -> {"none", "starting", "connected", "down", "closed"}]
    BY <1>7 DEF ClientHandshake, TypeOK
  <2>3. QED
    BY <1>7, <2>1, <2>2 DEF ClientHandshake, TypeOK, Queued, mainVars, memberVars, poolVars
<1>8. ASSUME NEW c \in Clients, ServerRefuses(c) \/ Connected(c) \/ StreamStarted(c)
      PROVE  TypeOK' /\ Queued'
  <2>1. \A d \in dead' : d[1] \in Ends
    BY <1>0, <1>8, UsesType DEF ServerRefuses, Connected, StreamStarted, TypeOK
  <2>2. /\ sside[c] \in {"handshake", "connected"}
        /\ \E s \in {"down", "connected", "streaming"} : sside' = [sside EXCEPT ![c] = s]
        /\ listening' \in BOOLEAN /\ raced' \in BOOLEAN
        /\ Connection' = Connection /\ (ControlStream' = ControlStream \/ ControlStream' = c)
        /\ UNCHANGED <<password, mainVars, cside, poolVars, answer, failed, crossed>>
    BY <1>8 DEF ServerRefuses, Connected, StreamStarted, TypeOK, memberVars
  <2>3. sside' \in [Clients -> {"none", "indicated", "handshake", "connected",
                               "streaming", "heard", "down", "closed"}]
    BY <2>2 DEF TypeOK
  <2>4. Queued'
    BY <2>2 DEF TypeOK, Queued, poolVars
  <2>5. QED
    BY <2>1, <2>2, <2>3, <2>4 DEF TypeOK, mainVars, poolVars
<1>9. ASSUME NEW c \in Clients, Receive(c) PROVE TypeOK' /\ Queued'
  <2>1. \A d \in dead' : d[1] \in Ends
    BY <1>0, <1>9, UsesType DEF Receive, TypeOK
  <2>2. /\ sside[c] = "streaming" /\ sside' = [sside EXCEPT ![c] = "heard"]
        /\ queue' = Append(queue, c) \/ queue' = queue
        /\ UNCHANGED <<password, mainVars, listening, cside, memberVars, worker, answer,
                       failed, raced, crossed>>
    BY <1>9 DEF Receive
  <2>3. ~In(queue, c) /\ queue \in Seq(Clients)
    BY <2>2 DEF Queued, TypeOK
  <2>4. /\ queue' \in Seq(Clients) /\ Distinct(queue')
        /\ \A y : In(queue', y) => In(queue, y) \/ y = c
    <3>1. CASE queue' = queue
      BY <2>3, <3>1 DEF Queued
    <3>2. CASE queue' = Append(queue, c)
      BY <2>3, <3>2, Appended DEF Queued
    <3>3. QED
      BY <2>2, <3>1, <3>2
  <2>5. Len(queue') <= Cardinality(Clients)
    BY <2>4, DistinctLength
  <2>6. Queued'
    BY <2>2, <2>4 DEF Queued, TypeOK
  <2>7. QED
    BY <2>1, <2>2, <2>4, <2>5, <2>6 DEF TypeOK, mainVars, memberVars
<1>10. CASE WorkerRead
  <2>1. \A d \in dead' : d[1] \in Ends
    BY <1>0, <1>10, UsesType DEF WorkerRead, TypeOK
  <2>2. /\ queue # << >> /\ queue' = Tail(queue)
        /\ UNCHANGED <<password, mainVars, listening, cside, sside, memberVars, answer,
                       failed, raced, crossed>>
    BY <1>10 DEF WorkerRead
  <2>3. /\ queue' \in Seq(Clients) /\ Distinct(queue') /\ Head(queue) \in Clients
        /\ \A y : In(queue', y) => In(queue, y)
    BY <2>2, Taken DEF Queued, TypeOK
  <2>4. Len(queue') <= Cardinality(Clients)
    BY <2>3, DistinctLength
  <2>5. worker' \in [item : Clients \cup {NoOne}, target : Clients \cup {NoOne},
                     member : {"none", "Connection", "ControlStream"}]
    BY <1>10, <2>3 DEF WorkerRead, TypeOK
  <2>6. Queued'
    BY <1>10, <2>2, <2>3 DEF Queued, WorkerRead
  <2>7. QED
    BY <2>1, <2>2, <2>3, <2>4, <2>5, <2>6 DEF TypeOK, mainVars, memberVars
<1>11. CASE WorkerUse
  <2>1. \A d \in dead' : d[1] \in Ends
    BY <1>0, <1>11 DEF WorkerUse, TypeOK
  <2>2. answer' \in [Clients -> {"none", "stream", "id", "data"}]
    BY <1>11 DEF WorkerUse, TypeOK
  <2>3. /\ worker' = Idle /\ crossed' \in BOOLEAN
        /\ UNCHANGED <<password, mainVars, listening, cside, sside, memberVars, queue, failed,
                       raced>>
    BY <1>11 DEF WorkerUse, TypeOK
  <2>4. Idle \in [item : Clients \cup {NoOne}, target : Clients \cup {NoOne},
                  member : {"none", "Connection", "ControlStream"}]
    BY DEF Idle
  <2>5. QED
    BY <2>1, <2>2, <2>3, <2>4 DEF TypeOK, Queued, mainVars, memberVars
<1>12. ASSUME NEW c \in Clients, ClientReceive(c) \/ DataReceive(c) PROVE TypeOK' /\ Queued'
  <2>1. \A d \in dead' : d[1] \in Ends
    <3>1. dead' \subseteq dead \cup Uses(c, {"FileInfos"}) \cup Uses(c, {"Pool"})
                            \cup Uses(Server, {"IoPool"})
      BY <1>12 DEF ClientReceive, DataReceive
    <3>2. ASSUME NEW d \in dead' PROVE d[1] \in Ends
      <4>1. CASE d \in dead
        BY <4>1 DEF TypeOK
      <4>2. CASE d \notin dead
        BY <1>0, <3>1, <4>2, UsesType
      <4>3. QED
        BY <4>1, <4>2
    <3>3. QED
      BY <3>2
  <2>2. /\ answer' = [answer EXCEPT ![c] = "data"] \/ answer' = [answer EXCEPT ![c] = "none"]
        /\ UNCHANGED <<password, mainVars, listening, cside, sside, memberVars, poolVars,
                       failed, raced, crossed>>
    BY <1>12 DEF ClientReceive, DataReceive
  <2>3. QED
    BY <2>1, <2>2 DEF TypeOK, Queued, mainVars, memberVars, poolVars
<1>13. ASSUME NEW c \in Clients, Lost(c) \/ ClientDown(c) PROVE TypeOK' /\ Queued'
  <2>1. /\ cside' = [cside EXCEPT ![c] = "down"] /\ failed' \subseteq Faults
        /\ UNCHANGED <<password, mainVars, listening, sside, memberVars, poolVars, answer,
                       raced, crossed, dead>>
    BY <1>13 DEF Lost, ClientDown, TypeOK, history
  <2>2. QED
    BY <2>1 DEF TypeOK, Queued, mainVars, memberVars, poolVars
<1>14. ASSUME NEW c \in Clients, ServerDown(c) PROVE TypeOK' /\ Queued'
  BY <1>14 DEF ServerDown, TypeOK, Queued, mainVars, memberVars, poolVars, history
<1>15. ASSUME NEW e \in Ends, Enter(e) \/ Return(e) PROVE TypeOK' /\ Queued'
  <2>1. /\ at' \in [Ends -> {"new", "waiting", "exiting", "returned"}]
        /\ UNCHANGED <<password, gone, listening, cside, sside, memberVars, poolVars, answer,
                       history>>
    BY <1>15 DEF Enter, Return, TypeOK
  <2>2. QED
    BY <2>1 DEF TypeOK, Queued, memberVars, poolVars, history
<1>16. ASSUME NEW e \in Ends, Destroy(e) PROVE TypeOK' /\ Queued'
  <2>1. /\ gone[e] < Len(Members(e)) /\ gone' = [gone EXCEPT ![e] = gone[e] + 1]
        /\ listening' \in BOOLEAN
        /\ queue' = << >> \/ queue' = queue
        /\ sside' = sside \/ sside' = [sside EXCEPT ![Connection] = "closed"]
        /\ cside' = cside \/ cside' = [cside EXCEPT ![e] = "closed"]
        /\ dead' = dead \/ dead' = dead \cup {<<Server, "handle">>}
        /\ UNCHANGED <<password, at, memberVars, worker, answer, failed, raced, crossed>>
    BY <1>16 DEF Destroy, TypeOK
  <2>2. gone' \in [Ends -> Nat] /\ \A f \in Ends : gone'[f] <= Len(Members(f))
    <3>1. Len(Members(e)) \in Nat
      BY ServerMembers, ClientMembers DEF Ends
    <3>2. QED
      BY <2>1, <3>1 DEF TypeOK
  <2>3. /\ queue' \in Seq(Clients) /\ Distinct(queue')
        /\ \A y : In(queue', y) => In(queue, y)
    <3>1. << >> \in Seq(Clients) /\ DOMAIN << >> = {}
      OBVIOUS
    <3>2. Distinct(<< >>) /\ \A y : ~In(<< >>, y)
      BY <3>1 DEF Distinct, In
    <3>3. QED
      <4>1. CASE queue' = << >>
        BY <3>1, <3>2, <4>1
      <4>2. CASE queue' = queue
        BY <4>2 DEF TypeOK, Queued
      <4>3. QED
        BY <2>1, <4>1, <4>2
  <2>4. Len(queue') <= Cardinality(Clients)
    BY <2>3, DistinctLength
  <2>5. Queued'
    BY <2>1, <2>3 DEF Queued, TypeOK
  <2>6. /\ cside' \in [Clients -> {"none", "starting", "connected", "down", "closed"}]
        /\ sside' \in [Clients -> {"none", "indicated", "handshake", "connected",
                                   "streaming", "heard", "down", "closed"}]
    BY <2>1 DEF TypeOK
  <2>7. \A d \in dead' : d[1] \in Ends
    BY <1>0, <2>1 DEF TypeOK
  <2>8. QED
    BY <2>1, <2>2, <2>3, <2>4, <2>5, <2>6, <2>7 DEF TypeOK, memberVars
<1>17. CASE UNCHANGED vars
  BY <1>17 DEF vars, TypeOK, Queued, mainVars, memberVars, poolVars, history
<1>18. QED
  BY <1>1, <1>2, <1>3, <1>4, <1>5, <1>6, <1>7, <1>8, <1>9, <1>10, <1>11, <1>12, <1>13, <1>14,
     <1>15, <1>16, <1>17 DEF Next, Exit, AtServer, AtClient, Worker, StartFails

-----------------------------------------------------------------------------
(* What destructors have waited for *)

\* How far destructors have got, and what they have waited for.
Gone ==
  /\ \A e \in Ends : gone[e] > 0 => at[e] \in {"exiting", "returned"}
  /\ gone[Server] >= 4 => ~listening /\ \A c \in Clients : sside[c] # "indicated"
  /\ gone[Server] >= 5 => \A c \in Clients : sside[c] \in {"none", "closed"}
  /\ \A c \in Clients : gone[c] >= 6 => cside[c] \in {"none", "closed"}

\* Before the server listens nothing comes to it.
Unstarted ==
  at[Server] = "new" =>
    ~listening /\ queue = << >> /\ worker = Idle /\ \A c \in Clients : sside[c] = "none"

LEMMA InitGone == Init => Gone /\ Unstarted
BY DEF Init, Gone, Unstarted, Ends

\* How the connections move.
LEMMA Moves ==
  ASSUME TypeOK, [Next]_vars, NEW c \in Clients
  PROVE  /\ sside[c] \in {"none", "closed"} =>
              sside'[c] \in {"none", "closed"} \/ (sside'[c] = "indicated" /\ listening)
         /\ sside'[c] = "indicated" => sside[c] \in {"none", "indicated"}
         /\ cside[c] = "none" => cside'[c] = "none" \/ at[c] = "new"
         /\ cside[c] = "closed" => cside'[c] = "closed" \/ at[c] = "new"
<1> DEFINE Goal ==
         /\ sside[c] \in {"none", "closed"} =>
              sside'[c] \in {"none", "closed"} \/ (sside'[c] = "indicated" /\ listening)
         /\ sside'[c] = "indicated" => sside[c] \in {"none", "indicated"}
         /\ cside[c] = "none" => cside'[c] = "none" \/ at[c] = "new"
         /\ cside[c] = "closed" => cside'[c] = "closed" \/ at[c] = "new"
<1>1. ASSUME NEW e \in Ends, StartFails(e) \/ Enter(e) \/ Return(e) PROVE Goal
  BY <1>1 DEF StartFails, Enter, Return
<1>2. CASE StartServer \/ WorkerRead \/ WorkerUse \/ UNCHANGED vars
  BY <1>2 DEF StartServer, WorkerRead, WorkerUse, vars
<1>3. ASSUME NEW d \in Clients,
             StartClient(d) \/ ClientHandshake(d) \/ ClientDown(d) \/ Lost(d)
      PROVE  Goal
  BY <1>3 DEF StartClient, ClientHandshake, ClientDown, Lost, TypeOK
<1>4. ASSUME NEW d \in Clients, ClientReceive(d) \/ DataReceive(d) PROVE Goal
  BY <1>4 DEF ClientReceive, DataReceive
<1>5. ASSUME NEW d \in Clients,
             \/ Indicate(d) \/ ServerRefuses(d) \/ Connected(d) \/ StreamStarted(d) \/ Receive(d)
             \/ ServerDown(d)
      PROVE  Goal
  <2>1. /\ cside' = cside
        /\ \E s \in {"indicated", "down", "connected", "streaming", "heard"} :
             /\ sside' = [sside EXCEPT ![d] = s]
             /\ sside[d] # "closed"
             /\ sside[d] = "none" <=> s = "indicated"
             /\ s = "indicated" => listening
    BY <1>5 DEF Indicate, ServerRefuses, Connected, StreamStarted, Receive, ServerDown
  <2>2. QED
    BY <2>1 DEF TypeOK
<1>6. ASSUME NEW d \in Clients, NewConnection(d) \/ NewConnectionRefused(d) PROVE Goal
  <2>1. /\ cside' = cside /\ sside[d] = "indicated"
        /\ Replace(d, "handshake") \/ Replace(d, "closed")
    BY <1>6 DEF NewConnection, NewConnectionRefused
  <2>2. ASSUME NEW state \in {"handshake", "closed"}, Replace(d, state)
        PROVE  /\ c = d => sside'[c] = state
               /\ c # d => sside'[c] \in {sside[c], "closed"}
    BY <2>2 DEF Replace, TypeOK
  <2>3. /\ c = d => sside'[c] \in {"handshake", "closed"}
        /\ c # d => sside'[c] \in {sside[c], "closed"}
    BY <2>1, <2>2
  <2>4. QED
    BY <2>1, <2>3
<1>7. ASSUME NEW e \in Ends, Destroy(e) PROVE Goal
  <2>1. /\ sside' = sside \/ sside' = [sside EXCEPT ![Connection] = "closed"]
        /\ cside' = cside \/ cside' = [cside EXCEPT ![e] = "closed"]
        /\ cside[e] = "none" => cside' = cside
    BY <1>7 DEF Destroy
  <2>2. sside'[c] \in {sside[c], "closed"}
    BY <2>1 DEF TypeOK
  <2>3. cside'[c] = cside[c] \/ (cside[c] # "none" /\ cside'[c] = "closed")
    BY <2>1 DEF TypeOK
  <2>4. QED
    BY <2>2, <2>3
<1>8. QED
  BY <1>1, <1>2, <1>3, <1>4, <1>5, <1>6, <1>7 DEF Next, Exit, AtServer, AtClient, Worker

\* How the programs' main threads move.
LEMMA Mains ==
  ASSUME TypeOK, [Next]_vars, NEW e \in Ends
  PROVE  /\ at[e] \in {"exiting", "returned"} => at'[e] \in {"exiting", "returned"}
         /\ at'[e] = "new" => at[e] = "new"
         /\ gone'[e] = gone[e] \/ (Destroy(e) /\ gone'[e] = gone[e] + 1)
         /\ listening' => listening \/ at[Server] = "new"
<1> DEFINE Goal ==
         /\ at[e] \in {"exiting", "returned"} => at'[e] \in {"exiting", "returned"}
         /\ at'[e] = "new" => at[e] = "new"
         /\ gone'[e] = gone[e] \/ (Destroy(e) /\ gone'[e] = gone[e] + 1)
         /\ listening' => listening \/ at[Server] = "new"
<1>1. ASSUME at' = at, gone' = gone, (listening' => listening) PROVE Goal
  BY <1>1
<1>2. ASSUME NEW f \in Ends, StartFails(f) \/ Enter(f) \/ Return(f) PROVE Goal
  BY <1>2 DEF StartFails, Enter, Return, TypeOK
<1>3. CASE StartServer
  BY <1>3 DEF StartServer, TypeOK, Ends
<1>4. CASE Worker \/ UNCHANGED vars
  <2>1. at' = at /\ gone' = gone /\ listening' = listening
    BY <1>4 DEF Worker, WorkerRead, WorkerUse, vars, mainVars
  <2>2. QED
    BY <1>1, <2>1
<1>5. ASSUME NEW c \in Clients, StartClient(c) PROVE Goal
  BY <1>5 DEF StartClient, TypeOK, Ends
<1>6. ASSUME NEW c \in Clients, AtServer(c) \/ AtClient(c) \/ Lost(c) PROVE Goal
  <2>1. at' = at /\ gone' = gone /\ (listening' => listening)
    BY <1>6 DEF AtServer, AtClient, Indicate, NewConnection, NewConnectionRefused,
       ServerRefuses, Connected, StreamStarted, Receive, DataReceive, ServerDown,
       ClientHandshake, ClientReceive, ClientDown, Lost, mainVars
  <2>2. QED
    BY <1>1, <2>1
<1>7. ASSUME NEW f \in Ends, Destroy(f) PROVE Goal
  <2>1. /\ at' = at /\ (listening' => listening)
        /\ gone' = [gone EXCEPT ![f] = gone[f] + 1]
    BY <1>7 DEF Destroy
  <2>2. gone'[e] = gone[e] \/ (e = f /\ gone'[e] = gone[e] + 1)
    BY <2>1 DEF TypeOK
  <2>3. QED
    BY <1>7, <2>1, <2>2
<1>8. QED
  BY <1>2, <1>3, <1>4, <1>5, <1>6, <1>7 DEF Next, Exit

LEMMA NextGone == TypeOK /\ Gone /\ [Next]_vars => Gone'
<1> SUFFICES ASSUME TypeOK, Gone, [Next]_vars PROVE Gone'
  OBVIOUS
<1>0. /\ Server \in Ends /\ Clients \subseteq Ends /\ gone[Server] \in Nat
      /\ \A c \in Clients : gone[c] \in Nat /\ c # Server
  BY SessionAssumption DEF Ends, TypeOK
<1>1. ASSUME NEW e \in Ends, gone'[e] > 0 PROVE at'[e] \in {"exiting", "returned"}
  <2>1. gone[e] \in Nat /\ (gone[e] > 0 \/ Destroy(e))
    BY <1>1, Mains DEF TypeOK
  <2>2. at[e] \in {"exiting", "returned"}
    BY <2>1 DEF Destroy, Gone
  <2>3. QED
    BY <2>2, Mains
<1>2. ASSUME gone'[Server] >= 4
      PROVE  ~listening' /\ \A c \in Clients : sside'[c] # "indicated"
  <2>1. CASE gone[Server] >= 4
    <3>1. /\ ~listening /\ \A c \in Clients : sside[c] # "indicated"
          /\ at[Server] # "new"
      BY <1>0, <2>1 DEF Gone
    <3>2. QED
      BY <1>0, <3>1, Mains, Moves
  <2>2. CASE gone[Server] = 3 /\ Destroy(Server)
    <3>1. Members(Server)[gone[Server] + 1] = "Listener"
      BY <2>2, ServerMembers
    <3>2. QED
      BY <2>2, <3>1 DEF Destroy, MayGo
  <2>3. QED
    BY <1>0, <1>2, <2>1, <2>2, Mains
<1>3. ASSUME gone'[Server] >= 5 PROVE \A c \in Clients : sside'[c] \in {"none", "closed"}
  <2>1. CASE gone[Server] >= 5
    <3>1. ~listening /\ \A c \in Clients : sside[c] \in {"none", "closed"}
      BY <1>0, <2>1 DEF Gone
    <3>2. QED
      BY <3>1, Moves
  <2>2. CASE gone[Server] = 4 /\ Destroy(Server)
    <3>1. Members(Server)[gone[Server] + 1] = "Reg"
      BY <2>2, ServerMembers
    <3>2. QED
      BY <2>2, <3>1 DEF Destroy, MayGo
  <2>3. QED
    BY <1>0, <1>3, <2>1, <2>2, Mains
<1>4. ASSUME NEW c \in Clients, gone'[c] >= 6 PROVE cside'[c] \in {"none", "closed"}
  <2>1. CASE gone[c] >= 6
    <3>1. at[c] # "new" /\ cside[c] \in {"none", "closed"}
      BY <1>0, <2>1 DEF Gone
    <3>2. QED
      BY <3>1, Moves
  <2>2. CASE gone[c] = 5 /\ Destroy(c)
    <3>1. Members(c)[gone[c] + 1] = "Reg"
      BY <2>2, ClientMembers
    <3>2. QED
      BY <1>0, <2>2, <3>1 DEF Destroy, MayGo
  <2>3. QED
    BY <1>0, <1>4, <2>1, <2>2, Mains
<1>5. QED
  BY <1>1, <1>2, <1>3, <1>4 DEF Gone

-----------------------------------------------------------------------------
(* The one client *)

\* Unless a late connection has taken its place, there is one client: the one
\* Connection leads to, and no other will come.
One ==
  ~raced /\ Sound(Server) =>
    /\ \A c \in Clients :
         /\ sside[c] = "handshake" \/ sside[c] \in Established => Connection = c
         /\ sside[c] \in {"streaming", "heard"} => ControlStream = c
         /\ In(queue, c) => Connection = c /\ ControlStream = c
    /\ worker # Idle =>
         /\ Connection = worker.item /\ ControlStream = worker.item
         /\ worker.target = worker.item
    /\ \/ worker # Idle \/ queue # << >>
       \/ \E c \in Clients : sside[c] \in Established
       => ~listening /\ \A c \in Clients : sside[c] # "indicated"

\* Connection leads to a connection that was refused, or is open.
Handle ==
  Connection # NoOne =>
    /\ sside[Connection] \notin {"none", "indicated"}
    /\ sside[Connection] = "closed" /\ gone[Server] < 2 => "configuration" \in failed

LEMMA InitOne == Init => One /\ Handle /\ UsesAlive /\ AnswersGoBack
<1> SUFFICES ASSUME Init PROVE One /\ Handle /\ UsesAlive /\ AnswersGoBack
  OBVIOUS
<1>1. DOMAIN queue = {} /\ queue = << >>
  BY DEF Init
<1>2. QED
  BY <1>1 DEF Init, One, Handle, UsesAlive, AnswersGoBack, In, Established

\* History is not forgotten.
LEMMA Grows ==
  ASSUME [Next]_vars
  PROVE  dead \subseteq dead' /\ failed \subseteq failed' /\ (raced => raced')
<1>1. ASSUME UNCHANGED history
      PROVE  dead \subseteq dead' /\ failed \subseteq failed' /\ (raced => raced')
  BY <1>1 DEF history
<1>2. ASSUME NEW e \in Ends, StartFails(e) \/ Enter(e) \/ Return(e) \/ Destroy(e)
      PROVE  dead \subseteq dead' /\ failed \subseteq failed' /\ (raced => raced')
  BY <1>2 DEF StartFails, Enter, Return, Destroy, history
<1>3. CASE StartServer \/ Worker \/ UNCHANGED vars
  BY <1>3 DEF StartServer, Worker, WorkerRead, WorkerUse, vars, history
<1>4. ASSUME NEW c \in Clients, StartClient(c) \/ AtClient(c) \/ Lost(c)
      PROVE  dead \subseteq dead' /\ failed \subseteq failed' /\ (raced => raced')
  BY <1>4 DEF StartClient, AtClient, ClientHandshake, ClientReceive, ClientDown, Lost, history
<1>5. ASSUME NEW c \in Clients, NewConnection(c) \/ NewConnectionRefused(c)
      PROVE  dead \subseteq dead' /\ failed \subseteq failed' /\ (raced => raced')
  BY <1>5 DEF NewConnection, NewConnectionRefused, Replace
<1>6. ASSUME NEW c \in Clients,
             \/ Indicate(c) \/ ServerRefuses(c) \/ StreamStarted(c) \/ Receive(c)
             \/ DataReceive(c) \/ ServerDown(c)
      PROVE  dead \subseteq dead' /\ failed \subseteq failed' /\ (raced => raced')
  BY <1>6 DEF Indicate, ServerRefuses, StreamStarted, Receive, DataReceive, ServerDown, history
<1>7. ASSUME NEW c \in Clients, Connected(c)
      PROVE  dead \subseteq dead' /\ failed \subseteq failed' /\ (raced => raced')
  <2>1. dead \subseteq dead' /\ failed' = failed
    BY <1>7 DEF Connected
  <2>2. raced => raced'
    BY <1>7, Zenon DEF Connected
  <2>3. QED
    BY <2>1, <2>2
<1>8. QED
  BY <1>2, <1>3, <1>4, <1>5, <1>6, <1>7 DEF Next, Exit, AtServer

LEMMA NextUnstarted == TypeOK /\ Unstarted /\ [Next]_vars => Unstarted'
<1> SUFFICES ASSUME TypeOK, Unstarted, [Next]_vars, at'[Server] = "new" PROVE Unstarted'
  BY DEF Unstarted
<1>1. /\ at[Server] = "new" /\ Server \in Ends
      /\ ~listening /\ queue = << >> /\ worker = Idle /\ \A c \in Clients : sside[c] = "none"
  BY Mains, ServerMembers DEF Unstarted
<1>2. ASSUME UNCHANGED <<listening, poolVars, sside>> PROVE Unstarted'
  BY <1>1, <1>2 DEF Unstarted, poolVars
<1>3. ASSUME NEW e \in Ends, StartFails(e) \/ Enter(e) \/ Return(e) PROVE Unstarted'
  BY <1>2, <1>3 DEF StartFails, Enter, Return
<1>4. ASSUME StartServer PROVE FALSE
  BY <1>1, <1>4 DEF StartServer, TypeOK
<1>5. ASSUME Worker PROVE FALSE
  BY <1>1, <1>5 DEF Worker, WorkerRead, WorkerUse
<1>6. ASSUME NEW c \in Clients, StartClient(c) \/ AtClient(c) \/ Lost(c) PROVE Unstarted'
  BY <1>2, <1>6 DEF StartClient, AtClient, ClientHandshake, ClientReceive, ClientDown, Lost
<1>7. ASSUME NEW c \in Clients, AtServer(c) PROVE FALSE
  BY <1>1, <1>7 DEF AtServer, Indicate, NewConnection, NewConnectionRefused, ServerRefuses,
     Connected, StreamStarted, Receive, DataReceive, ServerDown
<1>8. ASSUME NEW e \in Ends, Destroy(e) PROVE Unstarted'
  <2>1. e # Server
    BY <1>1, <1>8 DEF Destroy
  <2>2. (listening' => listening) /\ queue' = queue /\ worker' = worker /\ sside' = sside
    BY <1>8, <2>1 DEF Destroy
  <2>3. QED
    BY <1>1, <2>2 DEF Unstarted
<1>9. CASE UNCHANGED vars
  BY <1>2, <1>9 DEF vars
<1>10. QED
  BY <1>3, <1>4, <1>5, <1>6, <1>7, <1>8, <1>9 DEF Next, Exit

\* What the server has used and is gone is noted.
LEMMA UsedAlive ==
  ASSUME NEW m, Uses(Server, {m}) \subseteq dead', Sound(Server)'
  PROVE  Alive(Server, m)
<1>1. ~Alive(Server, m) => <<Server, m>> \in Uses(Server, {m})
  BY DEF Uses
<1>2. QED
  BY <1>1 DEF Sound

LEMMA NextOne == TypeOK /\ Queued /\ Unstarted /\ One /\ [Next]_vars => One'
<1> SUFFICES ASSUME TypeOK, Queued, Unstarted, One, [Next]_vars, ~raced', Sound(Server)'
             PROVE  One'
  BY DEF One
<1>0. ~raced /\ Sound(Server)
  BY Grows DEF Sound
<1>1. /\ \A c \in Clients :
           /\ sside[c] = "handshake" \/ sside[c] \in Established => Connection = c
           /\ sside[c] \in {"streaming", "heard"} => ControlStream = c
           /\ In(queue, c) => Connection = c /\ ControlStream = c
      /\ worker # Idle =>
           /\ Connection = worker.item /\ ControlStream = worker.item
           /\ worker.target = worker.item
  BY <1>0 DEF One
<1>2. \/ worker # Idle \/ queue # << >>
      \/ \E c \in Clients : sside[c] \in Established
      => ~listening /\ \A c \in Clients : sside[c] # "indicated"
  BY <1>0 DEF One
<1>3. ASSUME UNCHANGED <<listening, sside, memberVars, poolVars>> PROVE One'
  BY <1>1, <1>2, <1>3 DEF One, memberVars, poolVars
<1>4. ASSUME NEW e \in Ends, StartFails(e) \/ Enter(e) \/ Return(e) PROVE One'
  BY <1>3, <1>4 DEF StartFails, Enter, Return
<1>5. ASSUME NEW c \in Clients, StartClient(c) \/ AtClient(c) \/ Lost(c) \/ DataReceive(c)
      PROVE  One'
  BY <1>3, <1>5 DEF StartClient, AtClient, ClientHandshake, ClientReceive, ClientDown, Lost,
     DataReceive
<1>6. CASE StartServer
  <2>1. /\ queue = << >> /\ worker = Idle /\ \A c \in Clients : sside[c] = "none"
        /\ UNCHANGED <<sside, memberVars, poolVars>>
    BY <1>6 DEF StartServer, Unstarted
  <2>2. QED
    BY <1>1, <2>1 DEF One, memberVars, poolVars, Established
<1>7. ASSUME NEW c \in Clients, Indicate(c) PROVE One'
  <2>1. /\ listening /\ sside' = [sside EXCEPT ![c] = "indicated"]
        /\ UNCHANGED <<listening, memberVars, poolVars>>
    BY <1>7 DEF Indicate
  <2>2. worker = Idle /\ queue = << >> /\ \A d \in Clients : sside[d] \notin Established
    BY <1>2, <2>1
  <2>3. \A d \in Clients : sside'[d] \in {sside[d], "indicated"}
    BY <2>1 DEF TypeOK
  <2>4. QED
    BY <1>1, <2>1, <2>2, <2>3 DEF One, memberVars, poolVars, Established
<1>8. ASSUME NEW c \in Clients, NewConnection(c) \/ NewConnectionRefused(c) PROVE One'
  <2>1. /\ sside[c] = "indicated" /\ UNCHANGED <<listening, ControlStream, poolVars>>
        /\ Replace(c, "handshake") \/ Replace(c, "closed")
    BY <1>8 DEF NewConnection, NewConnectionRefused
  <2>2. worker = Idle /\ queue = << >> /\ \A d \in Clients : sside[d] \notin Established
    BY <1>2, <2>1
  <2>3. Alive(Server, "Connection")
    <3>1. ~Alive(Server, "Connection") => Uses(Server, {"Connection", "Config"}) \subseteq dead'
      BY <2>1 DEF Replace
    <3>2. Uses(Server, {"Connection"}) \subseteq Uses(Server, {"Connection", "Config"})
      BY DEF Uses
    <3>3. QED
      BY <3>1, <3>2, UsedAlive
  <2>4. /\ Connection' = c /\ sside'[c] \in {"handshake", "closed"}
        /\ \A d \in Clients \ {c} : sside'[d] = IF d = Connection THEN "closed" ELSE sside[d]
    BY <2>1, <2>3 DEF Replace
  <2>5. \A d \in Clients : /\ sside'[d] = "handshake" => d = c
                           /\ sside'[d] \notin Established
    BY <1>1, <2>2, <2>4 DEF Established
  <2>6. In(queue, c)' = In(queue, c) /\ \A d \in Clients : ~In(queue, d)
    BY <2>1, <2>2 DEF In, poolVars
  <2>7. QED
    BY <1>1, <2>1, <2>2, <2>4, <2>5, <2>6 DEF One, poolVars, Established
<1>9. ASSUME NEW c \in Clients, ServerRefuses(c) \/ ServerDown(c) PROVE One'
  <2>1. /\ sside' = [sside EXCEPT ![c] = "down"]
        /\ UNCHANGED <<listening, memberVars, poolVars>>
    BY <1>9 DEF ServerRefuses, ServerDown
  <2>2. \A d \in Clients : sside'[d] \in {sside[d], "down"}
    BY <2>1 DEF TypeOK
  <2>3. QED
    BY <1>1, <1>2, <2>1, <2>2 DEF One, memberVars, poolVars, Established
<1>10. ASSUME NEW c \in Clients, Connected(c) PROVE One'
  <2>1. /\ sside[c] = "handshake" /\ sside' = [sside EXCEPT ![c] = "connected"]
        /\ ~listening' /\ \A d \in Clients : sside[d] # "indicated"
        /\ UNCHANGED <<memberVars, poolVars>>
    BY <1>10 DEF Connected
  <2>2. \A d \in Clients : sside'[d] = IF d = c THEN "connected" ELSE sside[d]
    BY <2>1 DEF TypeOK
  <2>3. QED
    BY <1>1, <1>2, <2>1, <2>2 DEF One, memberVars, poolVars, Established
<1>11. ASSUME NEW c \in Clients, StreamStarted(c) PROVE One'
  <2>1. /\ sside[c] = "connected" /\ sside' = [sside EXCEPT ![c] = "streaming"]
        /\ ControlStream' = IF Alive(Server, "ControlStream") THEN c ELSE ControlStream
        /\ Uses(Server, {"ControlStream"}) \subseteq dead'
        /\ UNCHANGED <<listening, Connection, poolVars>>
    BY <1>11 DEF StreamStarted
  <2>2. ControlStream' = c
    BY <2>1, UsedAlive
  <2>3. \A d \in Clients : sside'[d] = IF d = c THEN "streaming" ELSE sside[d]
    BY <2>1 DEF TypeOK
  <2>4. Connection = c /\ \A d \in Clients : In(queue, d) => d = c
    BY <1>1, <2>1 DEF Established
  <2>5. QED
    BY <1>1, <1>2, <2>1, <2>2, <2>3, <2>4 DEF One, poolVars, Established
<1>12. ASSUME NEW c \in Clients, Receive(c) PROVE One'
  <2>1. /\ sside[c] = "streaming" /\ sside' = [sside EXCEPT ![c] = "heard"]
        /\ queue' = queue \/ queue' = Append(queue, c)
        /\ UNCHANGED <<listening, memberVars, worker>>
    BY <1>12 DEF Receive
  <2>2. \A d \in Clients : sside'[d] = IF d = c THEN "heard" ELSE sside[d]
    BY <2>1 DEF TypeOK
  <2>3. Connection = c /\ ControlStream = c
    BY <1>1, <2>1 DEF Established
  <2>4. \A d \in Clients : In(queue', d) => In(queue, d) \/ d = c
    <3>1. queue \in Seq(Clients)
      BY DEF TypeOK
    <3>2. QED
      BY <2>1, <3>1, Appended
  <2>5. ~listening /\ \A d \in Clients : sside[d] # "indicated"
    BY <1>2, <2>1 DEF Established
  <2>6. QED
    BY <1>1, <2>1, <2>2, <2>3, <2>4, <2>5 DEF One, memberVars, Established
<1>13. CASE WorkerRead
  <2>1. /\ queue # << >> /\ queue' = Tail(queue) /\ worker'.item = Head(queue)
        /\ worker'.target = Connection \/ worker'.target = ControlStream
        /\ UNCHANGED <<listening, sside, memberVars>>
    BY <1>13 DEF WorkerRead
  <2>2. /\ Head(queue) \in Clients /\ In(queue, Head(queue))
        /\ \A d : In(queue', d) => In(queue, d)
    BY <2>1, Taken DEF TypeOK
  <2>3. /\ Connection = Head(queue) /\ ControlStream = Head(queue)
        /\ worker'.target = Head(queue)
    BY <1>1, <2>1, <2>2
  <2>4. QED
    BY <1>1, <1>2, <2>1, <2>2, <2>3 DEF One, memberVars
<1>14. CASE WorkerUse
  BY <1>1, <1>2, <1>14 DEF WorkerUse, One, memberVars
<1>15. ASSUME NEW e \in Ends, Destroy(e) PROVE One'
  <2>1. /\ (listening' => listening) /\ queue' \in {queue, << >>}
        /\ sside' = sside \/ sside' = [sside EXCEPT ![Connection] = "closed"]
        /\ UNCHANGED <<memberVars, worker>>
    BY <1>15 DEF Destroy
  <2>2. \A d \in Clients : sside'[d] \in {sside[d], "closed"}
    BY <2>1 DEF TypeOK
  <2>3. \A d \in Clients : In(queue', d) => In(queue, d)
    <3>1. DOMAIN << >> = {}
      OBVIOUS
    <3>2. QED
      BY <2>1, <3>1 DEF In
  <2>4. QED
    BY <1>1, <1>2, <2>1, <2>2, <2>3 DEF One, memberVars, Established
<1>16. CASE UNCHANGED vars
  BY <1>3, <1>16 DEF vars
<1>17. QED
  BY <1>4, <1>5, <1>6, <1>7, <1>8, <1>9, <1>10, <1>11, <1>12, <1>13, <1>14, <1>15, <1>16
     DEF Next, Exit, AtServer, Worker

LEMMA NextHandle == TypeOK /\ Handle /\ [Next]_vars => Handle'
<1> SUFFICES ASSUME TypeOK, Handle, [Next]_vars PROVE Handle'
  OBVIOUS
<1>0. /\ Server \in Ends /\ gone[Server] \in Nat /\ failed \subseteq failed'
      /\ gone'[Server] = gone[Server] \/ gone'[Server] = gone[Server] + 1
      /\ Connection \in Clients \cup {NoOne}
  BY Mains, Grows, ServerMembers DEF TypeOK
<1>1. gone'[Server] \in Nat /\ (gone'[Server] < 2 => gone[Server] < 2)
  BY <1>0
<1>2. ASSUME UNCHANGED <<sside, Connection>> PROVE Handle'
  BY <1>0, <1>1, <1>2 DEF Handle
<1>3. ASSUME NEW e \in Ends, StartFails(e) \/ Enter(e) \/ Return(e) PROVE Handle'
  BY <1>2, <1>3 DEF StartFails, Enter, Return, memberVars
<1>4. CASE StartServer \/ Worker \/ UNCHANGED vars
  BY <1>2, <1>4 DEF StartServer, Worker, WorkerRead, WorkerUse, vars, memberVars
<1>5. ASSUME NEW c \in Clients, StartClient(c) \/ AtClient(c) \/ Lost(c) \/ DataReceive(c)
      PROVE  Handle'
  BY <1>2, <1>5 DEF StartClient, AtClient, ClientHandshake, ClientReceive, ClientDown, Lost,
     DataReceive, memberVars
<1>6. ASSUME NEW c \in Clients,
             \/ Indicate(c) \/ ServerRefuses(c) \/ Connected(c) \/ StreamStarted(c) \/ Receive(c)
             \/ ServerDown(c)
      PROVE  Handle'
  <2>1. /\ Connection' = Connection
        /\ \E s \in {"indicated", "down", "connected", "streaming", "heard"} :
             /\ sside' = [sside EXCEPT ![c] = s]
             /\ s = "indicated" => sside[c] = "none"
    BY <1>6 DEF Indicate, ServerRefuses, Connected, StreamStarted, Receive, ServerDown,
       memberVars
  <2>2. PICK s \in {"indicated", "down", "connected", "streaming", "heard"} :
          \A d \in Clients : /\ sside'[d] = IF d = c THEN s ELSE sside[d]
                            /\ s = "indicated" => sside[c] = "none"
    BY <2>1 DEF TypeOK
  <2>3. QED
    BY <1>0, <1>1, <2>1, <2>2 DEF Handle
<1>7. ASSUME NEW c \in Clients, NewConnection(c) \/ NewConnectionRefused(c) PROVE Handle'
  <2>1. /\ sside[c] = "indicated"
        /\ \E state \in {"handshake", "closed"} :
             Replace(c, state) /\ (state = "closed" => "configuration" \in failed')
    BY <1>7 DEF NewConnection, NewConnectionRefused
  <2>2. PICK state \in {"handshake", "closed"} :
          Replace(c, state) /\ (state = "closed" => "configuration" \in failed')
    BY <2>1
  <2>3. CASE Alive(Server, "Connection")
    <3>1. Connection' = c /\ sside'[c] = state
      BY <2>2, <2>3 DEF Replace
    <3>2. QED
      BY <2>2, <3>1 DEF Handle
  <2>4. CASE ~Alive(Server, "Connection")
    <3>1. /\ Connection' = Connection
          /\ \A d \in Clients : sside'[d] = IF d = c THEN state ELSE sside[d]
      BY <2>2, <2>4 DEF Replace, TypeOK
    <3>2. ~(gone'[Server] < 2)
      BY <1>0, <1>1, <2>4, ServerAlive
    <3>3. QED
      BY <1>0, <2>1, <3>1, <3>2 DEF Handle
  <2>5. QED
    BY <2>3, <2>4
<1>8. ASSUME NEW e \in Ends, Destroy(e) PROVE Handle'
  <2>0. Connection' = Connection
    BY <1>8 DEF Destroy, memberVars
  <2>1. CASE sside' = sside
    BY <1>2, <2>0, <2>1
  <2>2. CASE sside' # sside
    <3>1. /\ e = Server /\ Members(e)[gone[e] + 1] = "Connection"
          /\ sside' = [sside EXCEPT ![Connection] = "closed"]
          /\ gone' = [gone EXCEPT ![e] = gone[e] + 1] /\ gone[e] < Len(Members(e))
      BY <1>8, <2>2 DEF Destroy
    <3>2. gone'[Server] = 2
      BY <1>0, <3>1, ServerMembers DEF TypeOK
    <3>3. \A d \in Clients : sside'[d] \in {sside[d], "closed"}
      BY <3>1 DEF TypeOK
    <3>4. QED
      BY <1>0, <2>0, <3>2, <3>3 DEF Handle
  <2>3. QED
    BY <2>1, <2>2
<1>9. QED
  BY <1>3, <1>4, <1>5, <1>6, <1>7, <1>8 DEF Next, Exit, AtServer

LEMMA NextAnswers == One /\ AnswersGoBack /\ [Next]_vars => AnswersGoBack'
<1> SUFFICES ASSUME One, AnswersGoBack, [Next]_vars, ~raced' PROVE ~crossed'
  BY DEF AnswersGoBack
<1>0. ~raced /\ ~crossed
  BY Grows DEF AnswersGoBack
<1>1. CASE WorkerUse /\ Sound(Server)
  <2>1. worker.target = worker.item
    BY <1>0, <1>1 DEF One, WorkerUse
  <2>2. crossed' = (crossed \/ worker.target # worker.item)
    BY <1>1 DEF WorkerUse
  <2>3. QED
    BY <1>0, <2>1, <2>2
<1>2. ASSUME NEW e \in Ends, StartFails(e) \/ Enter(e) \/ Exit(e) PROVE crossed' = crossed
  BY <1>2 DEF StartFails, Enter, Exit, Destroy, Return, history
<1>3. CASE StartServer \/ WorkerRead \/ UNCHANGED vars
  BY <1>0, <1>3 DEF StartServer, WorkerRead, vars, history
<1>4. ASSUME NEW c \in Clients, StartClient(c) \/ AtClient(c) \/ Lost(c)
      PROVE  crossed' = crossed
  BY <1>4 DEF StartClient, AtClient, ClientHandshake, ClientReceive, ClientDown, Lost, history
<1>5. ASSUME NEW c \in Clients, AtServer(c) PROVE crossed' = crossed
  BY <1>5 DEF AtServer, Indicate, NewConnection, NewConnectionRefused, ServerRefuses,
     Connected, StreamStarted, Receive, DataReceive, ServerDown, history
<1>6. QED
  BY <1>0, <1>1, <1>2, <1>3, <1>4, <1>5 DEF Next, Worker

-----------------------------------------------------------------------------
(* What is used is alive *)

\* A member is used after it was destroyed only once Enter is pressed, and
\* pools never.
LEMMA UsedLate ==
  ASSUME TypeOK, Gone, NEW e \in Ends, NEW m,
         e = Server => m \in {"ControlStream", "Connection", "Config", "Listener", "CertPw"}
                            \/ (m \in {"IoPool", "Pool"} /\ gone[Server] < 5),
         e # Server => m \in {"CertPw", "FileInfos"} \/ (m = "Pool" /\ gone[e] < 6),
         ~Alive(e, m)
  PROVE  m \notin {"Pool", "IoPool"} /\ at[e] \in {"exiting", "returned"}
<1>1. gone[e] \in Nat
  BY DEF TypeOK
<1>2. gone[e] > 0 /\ m \notin {"Pool", "IoPool"}
  <2>1. CASE e = Server
    BY <1>1, <2>1, ServerAlive
  <2>2. CASE e # Server
    BY <1>1, <2>2, ClientAlive DEF Ends
  <2>3. QED
    BY <2>1, <2>2
<1>3. QED
  BY <1>2 DEF Gone

LEMMA NextUses == TypeOK /\ Gone /\ Queued /\ One /\ Handle /\ UsesAlive /\ [Next]_vars => UsesAlive'
<1> SUFFICES ASSUME TypeOK, Gone, Queued, One, Handle, UsesAlive, [Next]_vars, NEW d \in dead'
             PROVE  /\ d[2] \notin {"Pool", "IoPool"}
                    /\ \/ at'[d[1]] \in {"exiting", "returned"}
                       \/ d[1] = Server /\ d[2] \in {"Connection", "ControlStream"} /\ raced'
                       \/ d = <<Server, "handle">> /\ "configuration" \in failed'
  BY DEF UsesAlive
<1> DEFINE Goal ==
       /\ d[2] \notin {"Pool", "IoPool"}
       /\ \/ at'[d[1]] \in {"exiting", "returned"}
          \/ d[1] = Server /\ d[2] \in {"Connection", "ControlStream"} /\ raced'
          \/ d = <<Server, "handle">> /\ "configuration" \in failed'
<1>0. /\ Server \in Ends /\ \A c \in Clients : c \in Ends /\ c # Server
      /\ gone[Server] \in Nat
  BY SessionAssumption DEF Ends, TypeOK
<1>1. CASE d \in dead
  <2>1. /\ d[2] \notin {"Pool", "IoPool"}
        /\ \/ at[d[1]] \in {"exiting", "returned"}
           \/ d[1] = Server /\ d[2] \in {"Connection", "ControlStream"} /\ raced
           \/ d = <<Server, "handle">> /\ "configuration" \in failed
    BY <1>1 DEF UsesAlive
  <2>2. d[1] \in Ends
    BY <1>1 DEF TypeOK
  <2>3. QED
    BY <2>1, <2>2, Mains, Grows
<1>2. ASSUME d \notin dead PROVE Goal
  <2>1. ASSUME NEW e \in Ends, NEW m, d = <<e, m>>, ~Alive(e, m),
               e = Server => m \in {"ControlStream", "Connection", "Config", "Listener", "CertPw"}
                            \/ (m \in {"IoPool", "Pool"} /\ gone[Server] < 5),
               e # Server => m \in {"CertPw", "FileInfos"} \/ (m = "Pool" /\ gone[e] < 6)
        PROVE  Goal
    <3>1. m \notin {"Pool", "IoPool"} /\ at[e] \in {"exiting", "returned"}
      BY <2>1, UsedLate
    <3>2. d[1] = e /\ d[2] = m
      BY <2>1
    <3>3. QED
      BY <3>1, <3>2, Mains
  <2>2. ASSUME dead' = dead PROVE Goal
    BY <1>2, <2>2
  <2>3. ASSUME NEW c \in Clients, NEW state \in {"handshake", "closed"}, Replace(c, state)
        PROVE  Goal
    <3>1. CASE d \in Uses(Server, {"Connection", "Config"}) \cup Uses(Server, {"Config"})
      <4>1. d = <<Server, d[2]>> /\ d[2] \in {"Connection", "Config"} /\ ~Alive(Server, d[2])
        BY <3>1, UsesType
      <4>2. QED
        BY <1>0, <2>1, <4>1
    <3>2. CASE d \notin Uses(Server, {"Connection", "Config"}) \cup Uses(Server, {"Config"})
      <4>1. /\ d = <<Server, "handle">> /\ Alive(Server, "Connection")
            /\ Connection # NoOne /\ sside[Connection] = "closed"
        BY <1>2, <2>3, <3>2 DEF Replace
      <4>2. "configuration" \in failed
        BY <1>0, <4>1, ServerAlive DEF Handle
      <4>3. d[2] = "handle"
        BY <4>1
      <4>4. QED
        BY <4>1, <4>2, <4>3, Grows
    <3>3. QED
      BY <3>1, <3>2
  <2>4. ASSUME NEW c \in Clients, NewConnection(c) \/ NewConnectionRefused(c) PROVE Goal
    BY <2>3, <2>4 DEF NewConnection, NewConnectionRefused
  <2>5. ASSUME NEW c \in Clients, ClientHandshake(c) PROVE Goal
    <3>1. d \in Uses(c, {"CertPw"})
      BY <1>2, <2>5 DEF ClientHandshake
    <3>2. d = <<c, "CertPw">> /\ ~Alive(c, "CertPw")
      BY <3>1 DEF Uses
    <3>3. QED
      BY <1>0, <2>1, <3>2
  <2>6. ASSUME NEW c \in Clients, ServerRefuses(c) \/ Connected(c) \/ StreamStarted(c) PROVE Goal
    <3>1. \E m \in {"CertPw", "Listener", "ControlStream"} :
            d = <<Server, m>> /\ ~Alive(Server, m)
      BY <1>2, <2>6 DEF ServerRefuses, Connected, StreamStarted, Uses
    <3>2. QED
      BY <1>0, <2>1, <3>1
  <2>7. ASSUME NEW c \in Clients, Receive(c) \/ DataReceive(c) PROVE Goal
    <3>1. /\ sside[c] \in {"streaming", "heard"}
          /\ \E m \in {"Pool", "IoPool"} : d = <<Server, m>> /\ ~Alive(Server, m)
      BY <1>2, <2>7 DEF Receive, DataReceive, Uses
    <3>2. gone[Server] < 5
      BY <1>0, <3>1 DEF Gone
    <3>3. QED
      BY <1>0, <2>1, <3>1, <3>2
  <2>8. ASSUME NEW c \in Clients, ClientReceive(c) PROVE Goal
    <3>1. /\ cside[c] = "connected"
          /\ \E m \in {"FileInfos", "Pool"} : d = <<c, m>> /\ ~Alive(c, m)
      BY <1>2, <2>8 DEF ClientReceive, Uses
    <3>2. gone[c] \in Nat /\ ~(gone[c] >= 6)
      BY <1>0, <3>1 DEF Gone, TypeOK
    <3>3. QED
      BY <1>0, <2>1, <3>1, <3>2
  <2>9. CASE WorkerRead
    <3>1. \E m \in {"Connection", "ControlStream"} : d = <<Server, m>> /\ ~Alive(Server, m)
      BY <1>2, <2>9 DEF WorkerRead, Uses
    <3>2. QED
      BY <1>0, <2>1, <3>1
  <2>10. CASE WorkerUse /\ Sound(Server)
    <3>1. PICK m : m = worker.member
      OBVIOUS
    <3>2. /\ d = <<Server, m>> /\ worker # Idle
          /\ ~Alive(Server, m) \/ worker.target # (IF m = "Connection" THEN Connection ELSE ControlStream)
      BY <1>2, <2>10, <3>1 DEF WorkerUse
    <3>3. m \in {"Connection", "ControlStream"}
      BY <3>1, <3>2 DEF Queued, TypeOK
    <3>4. CASE ~Alive(Server, m)
      BY <1>0, <2>1, <3>2, <3>3, <3>4
    <3>5. CASE worker.target # (IF m = "Connection" THEN Connection ELSE ControlStream)
      <4>1. raced
        BY <2>10, <3>2, <3>5 DEF One
      <4>2. d[1] = Server /\ d[2] = m
        BY <3>2
      <4>3. QED
        BY <3>3, <4>1, <4>2, Grows
    <3>6. QED
      BY <3>2, <3>4, <3>5
  <2>11. ASSUME NEW e \in Ends, Destroy(e) PROVE Goal
    <3>1. d = <<Server, "handle">> /\ e = Server /\ at[e] = "exiting"
      BY <1>2, <2>11 DEF Destroy
    <3>2. d[1] = Server /\ d[2] = "handle"
      BY <3>1
    <3>3. QED
      BY <1>0, <3>1, <3>2, Mains
  <2>12. ASSUME NEW e \in Ends, StartFails(e) \/ Enter(e) \/ Return(e) PROVE dead' = dead
    BY <2>12 DEF StartFails, Enter, Return, history
  <2>13. CASE StartServer \/ UNCHANGED vars
    BY <2>2, <2>13 DEF StartServer, vars, history
  <2>14. ASSUME NEW c \in Clients,
                StartClient(c) \/ ClientDown(c) \/ Lost(c) \/ Indicate(c) \/ ServerDown(c)
         PROVE  dead' = dead
    BY <2>14 DEF StartClient, ClientDown, Lost, Indicate, ServerDown, history
  <2> HIDE DEF Goal
  <2>15. QED
    BY <2>2, <2>4, <2>5, <2>6, <2>7, <2>8, <2>9, <2>10, <2>11, <2>12, <2>13, <2>14
       DEF Next, Exit, AtServer, AtClient, Worker
<1>3. QED
  BY <1>1, <1>2

\* What the Pool, the destructors and the connections go by.
LInv == TypeOK /\ Queued /\ Gone /\ Unstarted /\ One /\ Handle /\ UsesAlive /\ AnswersGoBack

LEMMA LInvAlways == Spec => []LInv
<1>1. Init => LInv
  BY InitTypes, InitGone, InitOne DEF LInv
<1>2. LInv /\ [Next]_vars => LInv'
  BY NextTypes, NextGone, NextUnstarted, NextOne, NextHandle, NextUses, NextAnswers DEF LInv
<1>3. QED
  BY <1>1, <1>2, PTL DEF Spec

(* Type correctness, for any number of clients: no client has more than    *)
(* one item in the Pool, and destructors stop at the last member.          *)
THEOREM TypeCorrect == Spec => []TypeOK
<1>1. LInv => TypeOK
  BY DEF LInv
<1>2. QED
  BY <1>1, LInvAlways, PTL

(* What a client announced is answered to that client, whatever number of  *)
(* them tries to connect, unless a late connection took the place of the   *)
(* one that was made.                                                      *)
THEOREM AnsweredToWhoAsked == Spec => []AnswersGoBack
<1>1. LInv => AnswersGoBack
  BY DEF LInv
<1>2. QED
  BY <1>1, LInvAlways, PTL

(* No callback and no item finds a pool destroyed: they go last, after the *)
(* registration has waited for the connections.  What else is used when it *)
(* is gone is used after Enter, or in a connection replaced or refused.    *)
THEOREM PoolsOutlive == Spec => []UsesAlive
<1>1. LInv => UsesAlive
  BY DEF LInv
<1>2. QED
  BY <1>1, LInvAlways, PTL

-----------------------------------------------------------------------------
(* Salts and certificates *)

NatLess == {pair \in Nat \X Nat : pair[1] < pair[2]}

\* A set of numbers has a least one: the induction over the bytes of a salt.
LEMMA LeastNumber ==
  ASSUME NEW T, T \subseteq Nat, T # {}
  PROVE  \E n \in T : \A k \in T : n <= k
<1>1. NatLess = OpToRel(<, Nat)
  BY DEF NatLess, OpToRel
<1>2. IsWellFoundedOn(NatLess, Nat)
  BY <1>1, NatLessThanWellFounded
<1>3. PICK n \in T : \A k \in T : ~(<<k, n>> \in NatLess)
  BY <1>2, WFMin
<1>4. ASSUME NEW k \in T PROVE n <= k
  <2>1. n \in Nat /\ k \in Nat
    OBVIOUS
  <2>2. ~(<<k, n>> \in NatLess)
    BY <1>3
  <2>3. k < n => <<k, n>> \in NatLess
    BY <2>1 DEF NatLess
  <2>4. QED
    BY <2>1, <2>2, <2>3
<1>5. QED
  BY <1>4

LEMMA SaltIs ==
  ASSUME NEW salt \in Salts
  PROVE  salt \in Seq(Nat) /\ Len(salt) = SaltLength /\ SaltLength \in Nat
<1>1. SaltLength \in Nat /\ Byte \subseteq Nat
  BY AuthAssumption
<1>2. salt \in [1..SaltLength -> Nat]
  BY <1>1 DEF Salts
<1>3. salt \in Seq(Nat)
  BY <1>1, <1>2, SeqDef
<1>4. DOMAIN salt = 1..SaltLength /\ DOMAIN salt = 1..Len(salt) /\ Len(salt) \in Nat
  BY <1>2, <1>3, LenProperties
<1>5. QED
  BY <1>1, <1>3, <1>4

LEMMA ZerosIs ==
  ASSUME NEW salt \in Salts
  PROVE  /\ Zeros(salt) \in 0..SaltLength
         /\ \A k \in 1..Zeros(salt) : salt[k] = 0
<1>1. Len(salt) = SaltLength /\ SaltLength \in Nat
  BY SaltIs
<1> DEFINE Lead(n) == (\A k \in 1..n : salt[k] = 0) /\ (n = Len(salt) \/ salt[n + 1] # 0)
           T == {n \in 0..Len(salt) : n = Len(salt) \/ salt[n + 1] # 0}
<1>2. T \subseteq Nat /\ T # {}
  <2>1. Len(salt) \in T
    BY <1>1
  <2>2. T \subseteq 0..Len(salt) /\ 0..Len(salt) \subseteq Nat
    BY <1>1
  <2>3. QED
    BY <2>1, <2>2, Zenon
<1>3. PICK n \in T : \A k \in T : n <= k
  <2> HIDE DEF T
  <2> QED
    BY <1>2, LeastNumber
<1>4. n \in 0..Len(salt) /\ (n = Len(salt) \/ salt[n + 1] # 0)
  OBVIOUS
<1>5. ASSUME NEW k \in 1..n PROVE salt[k] = 0
  <2>1. k - 1 \in 0..Len(salt) /\ ~(n <= k - 1) /\ k - 1 # Len(salt) /\ (k - 1) + 1 = k
    BY <1>1, <1>4
  <2>2. k - 1 \notin T
    BY <1>3, <2>1
  <2>3. QED
    BY <2>1, <2>2
<1>6. Lead(n)
  BY <1>4, <1>5
<1>7. Zeros(salt) = CHOOSE k \in 0..Len(salt) : Lead(k)
  BY DEF Zeros
<1>8. Zeros(salt) \in 0..Len(salt) /\ Lead(Zeros(salt))
  <2> HIDE DEF Lead
  <2> QED
    BY <1>4, <1>6, <1>7
<1>9. QED
  BY <1>1, <1>8

\* A salt that is sent as a serial number comes back as it was, however many of
\* its first bytes are zero.
LEMMA SaltComesBack ==
  ASSUME NEW salt \in Salts
  PROVE  Len(Number(salt)) <= SaltLength /\ Padded(Number(salt)) = salt
<1> DEFINE z == Zeros(salt)
           number == Number(salt)
<1>1. salt \in Seq(Nat) /\ Len(salt) = SaltLength /\ SaltLength \in Nat
      /\ z \in 0..SaltLength /\ \A k \in 1..z : salt[k] = 0
  BY SaltIs, ZerosIs
<1> HIDE DEF z
<1>2. number = SubSeq(salt, z + 1, Len(salt))
  BY DEF Number, z
<1> HIDE DEF number
<1>3. Len(number) = SaltLength - z /\ \A k \in 1..(SaltLength - z) : number[k] = salt[k + z]
  <2>1. z + 1 \in 1..(Len(salt) + 1) /\ Len(salt) \in z..Len(salt) /\ z \in Nat
    BY <1>1
  <2>2. z + 1 \in Int /\ Len(salt) \in Int
    BY <1>1
  <2>3. /\ Len(SubSeq(salt, z + 1, Len(salt))) = Len(salt) - z
        /\ \A k \in 1..(Len(salt) - z) : SubSeq(salt, z + 1, Len(salt))[k] = salt[k + z]
    BY <1>1, <2>1
  <2>4. QED
    BY <1>1, <1>2, <2>3
<1>4. SaltLength - Len(number) = z
  BY <1>1, <1>3
<1>5. Padded(number) = [k \in 1..SaltLength |-> IF k <= z THEN 0 ELSE number[k - z]]
  BY <1>4 DEF Padded
<1>6. ASSUME NEW k \in 1..SaltLength
      PROVE  (IF k <= z THEN 0 ELSE number[k - z]) = salt[k]
  <2>1. CASE k <= z
    <3>1. k \in 1..z
      BY <1>1, <2>1
    <3>2. QED
      BY <1>1, <2>1, <3>1
  <2>2. CASE ~(k <= z)
    <3>1. k - z \in 1..(SaltLength - z) /\ (k - z) + z = k
      BY <1>1, <2>2
    <3>2. QED
      BY <1>3, <2>2, <3>1
  <2>3. QED
    BY <2>1, <2>2
<1>7. salt = [k \in 1..SaltLength |-> salt[k]]
  BY DEF Salts
<1>8. Padded(number) = salt
  BY <1>5, <1>6, <1>7
<1>9. QED
  BY <1>1, <1>3, <1>8 DEF number

(* QcVerifyCertificate accepts what QcGenerateAuthCertificate made with     *)
(* the same password, and only that, for any salt: BN_bn2binpad puts the   *)
(* leading zeros back that BN_bin2bn took away.                            *)
THEOREM PasswordDecides ==
  ASSUME NEW p, NEW q, NEW salt \in Salts
  PROVE  Verifies(p, Certificate(q, salt)) <=> p = q
<1>1. Len(Number(salt)) <= SaltLength /\ Padded(Number(salt)) = salt
  BY SaltComesBack
<1>2. Certificate(q, salt).serialNumber = Number(salt)
      /\ Certificate(q, salt).signedBy = [password |-> q, salt |-> salt]
  BY DEF Certificate, SigningKey
<1>3. Verifies(p, Certificate(q, salt)) <=> [password |-> q, salt |-> salt] = [password |-> p, salt |-> salt]
  BY <1>1, <1>2 DEF Verifies, SigningKey
<1>4. QED
  BY <1>3

Refuses(c) == ServerRefuses(c) \/ (ClientHandshake(c) /\ cside'[c] = "down")

(* Neither end ever refuses the certificate of an end that has the same    *)
(* password, or that has none where it has none: what SamePassword says of *)
(* those accepted, the other way round.                                    *)
THEOREM OthersRefused ==
  Spec => [][\A c \in Clients : Refuses(c) => password[c] # password[Server]]_vars
<1> DEFINE Claim == \A c \in Clients : Refuses(c) => password[c] # password[Server]
<1>1. ASSUME IInv, NEW c \in Clients, Refuses(c), password[c] = password[Server] PROVE FALSE
  <2>1. SaltOf[c] \in Salts /\ SaltOf[Server] \in Salts
    BY SessionAssumption DEF Ends
  <2>2. /\ Verifies(password[c], Certificate(password[Server], SaltOf[Server]))
        /\ Verifies(password[Server], Certificate(password[c], SaltOf[c]))
    BY <1>1, <2>1, PasswordDecides
  <2>3. CASE ServerRefuses(c)
    BY <1>1, <2>2, <2>3 DEF ServerRefuses, ServerAccepts, CertificateOf
  <2>4. CASE ClientHandshake(c) /\ cside'[c] = "down"
    <3>1. cside' = [cside EXCEPT ![c] = "connected"]
      BY <2>2, <2>4 DEF ClientHandshake, CertificateOf
    <3>2. c \in DOMAIN cside
      BY <1>1 DEF IInv, SideTypes
    <3>3. cside'[c] = "connected"
      BY <3>1, <3>2
    <3>4. QED
      BY <2>4, <3>3
  <2>5. QED
    BY <1>1, <2>3, <2>4 DEF Refuses
<1>2. IInv /\ [Next]_vars => [Claim]_vars
  BY <1>1
<1>3. Spec => []IInv
  BY InitIInv, NextIInv, PTL DEF Spec
<1>4. QED
  BY <1>2, <1>3, PTL DEF Spec

=============================================================================
