------------------------------- MODULE Session -------------------------------
(***************************************************************************)
(* A server and the clients that may be started for it, from main to main: *)
(* Start, the handshake with the certificates of Auth, the connection and  *)
(* the control stream that the server keeps in two members, the items of   *)
(* its Pool that use them, and the destructors once Enter is pressed.      *)
(*                                                                         *)
(* Actors: every program's main thread, the server's Pool thread, and      *)
(* MsQuic, whose callbacks for one connection come one at a time, while    *)
(* those of the listener and of other connections come on other threads.   *)
(*                                                                         *)
(* Using what has been destroyed is undefined: the model notes it in dead  *)
(* and follows that program no further (Sound); to the others it is as if  *)
(* it went on or was gone.  What a message says, and how a file is         *)
(* transferred, is in other modules: here a client announces one entry,    *)
(* and the server answers.                                                 *)
(***************************************************************************)
EXTENDS Auth, FiniteSets

CONSTANTS
  Server, Clients,  \* the programs
  Given,            \* the passwords the programs may be started with ...
  NoPassword,       \* ... the empty one
  SaltOf,           \* the salt each end draws for its certificate
  Quitters,         \* bound: the ends at which Enter may be pressed
  Faults,           \* the calls that may fail
  NoOne             \* no client

Ends == {Server} \cup Clients

ASSUME SessionAssumption ==
  /\ Server \notin Clients /\ IsFiniteSet(Clients)
  /\ \A f \in Given : DOMAIN f = Ends
  /\ SaltOf \in [Ends -> Salts]
  /\ Quitters \subseteq Ends
  /\ Faults \subseteq {"start", "configuration", "connection"}
  /\ NoOne \notin Clients

VARIABLES
  password,             \* each end's CertPw
  at,                   \* where each main thread is
  gone,                 \* how many members the destructor has destroyed
  listening,            \* the server's listener takes connections
  cside, sside,         \* each client's connection, at its two ends
  Connection, ControlStream,   \* of the server: the clients they lead to
  queue, worker,        \* the server's Pool and its thread
  answer,               \* what is on its way because of what a client announced
  \* history
  failed,               \* the faults that happened
  raced,                \* a connection was indicated when another was made
  crossed,              \* an item went to another client than announced it
  dead                  \* the members used after they were destroyed

mainVars == <<at, gone>>
memberVars == <<Connection, ControlStream>>
poolVars == <<queue, worker>>
history == <<failed, raced, crossed, dead>>
vars == <<password, mainVars, listening, cside, sside, memberVars, poolVars, answer, history>>

Idle == [item |-> NoOne, member |-> "none", target |-> NoOne]

\* A bug: the pools declared after the registration.
MembersPoolsLast(e) ==
  IF e = Server
    THEN <<"IoPool", "Pool", "ControlStream", "Connection", "Config", "Listener",
           "Reg", "CertPw">>
    ELSE <<"CertPw", "FileInfos", "ControlStream", "Connection", "Config", "Reg", "Pool">>

\* A bug: the registration declared after the connection.
MembersRegLast(e) ==
  IF e = Server
    THEN <<"Reg", "ControlStream", "Connection", "Config", "Listener", "CertPw",
           "IoPool", "Pool">>
    ELSE <<"Reg", "CertPw", "FileInfos", "ControlStream", "Connection", "Config", "Pool">>

\* The members that callbacks and items use, last declared first: the order in
\* which they are destroyed.
Members(e) ==
  IF e = Server
    THEN <<"ControlStream", "Connection", "Config", "Listener", "Reg", "CertPw",
           "IoPool", "Pool">>
    ELSE <<"CertPw", "FileInfos", "ControlStream", "Connection", "Config", "Reg", "Pool">>

Alive(e, m) == \E i \in DOMAIN Members(e) : Members(e)[i] = m /\ i > gone[e]
Uses(e, ms) == {<<e, m>> : m \in {x \in ms : ~Alive(e, x)}}
Sound(e) == \A d \in dead : d[1] # e
CertificateOf(e) == Certificate(password[e], SaltOf[e])

\* main: without a password argument it is empty.
Init ==
  /\ password \in Given
  /\ at = [e \in Ends |-> "new"] /\ gone = [e \in Ends |-> 0]
  /\ listening = FALSE
  /\ cside = [c \in Clients |-> "none"] /\ sside = [c \in Clients |-> "none"]
  /\ Connection = NoOne /\ ControlStream = NoOne
  /\ queue = << >> /\ worker = Idle /\ answer = [c \in Clients |-> "none"]
  /\ failed = {} /\ raced = FALSE /\ crossed = FALSE /\ dead = {}

TypeOK ==
  /\ password \in Given
  /\ at \in [Ends -> {"new", "waiting", "exiting", "returned"}]
  /\ gone \in [Ends -> Nat] /\ \A e \in Ends : gone[e] <= Len(Members(e))
  /\ listening \in BOOLEAN
  /\ cside \in [Clients -> {"none", "starting", "connected", "down", "closed"}]
  /\ sside \in [Clients -> {"none", "indicated", "handshake", "connected", "streaming",
                            "heard", "down", "closed"}]
  /\ {Connection, ControlStream} \subseteq Clients \cup {NoOne}
  /\ queue \in Seq(Clients) /\ Len(queue) <= Cardinality(Clients)
  /\ worker \in [item : Clients \cup {NoOne}, target : Clients \cup {NoOne},
                 member : {"none", "Connection", "ControlStream"}]
  /\ answer \in [Clients -> {"none", "stream", "id", "data"}]
  /\ failed \subseteq Faults /\ {raced, crossed} \subseteq BOOLEAN
  /\ \A d \in dead : d[1] \in Ends

-----------------------------------------------------------------------------
(* Start                                                                   *)

\* Any of its calls may fail.  What is made by then stays; Start returns
\* false, and main waits for Enter all the same.
StartFails(e) ==
  /\ at[e] = "new" /\ "start" \in Faults
  /\ at' = [at EXCEPT ![e] = "waiting"]
  /\ failed' = failed \cup {"start"}
  /\ UNCHANGED <<password, gone, listening, cside, sside, memberVars, poolVars, answer,
                 raced, crossed, dead>>

\* Registration, certificate, configuration, listener.
StartServer ==
  /\ at[Server] = "new"
  /\ at' = [at EXCEPT ![Server] = "waiting"]
  /\ listening' = TRUE
  /\ UNCHANGED <<password, gone, cside, sside, memberVars, poolVars, answer, history>>

\* Registration, certificate, configuration, connection, control stream; the
\* scan sends on the stream whether the connection is there yet or not.
StartClient(c) ==
  /\ at[c] = "new"
  /\ at' = [at EXCEPT ![c] = "waiting"]
  /\ cside' = [cside EXCEPT ![c] = "starting"]
  /\ UNCHANGED <<password, gone, listening, sside, memberVars, poolVars, answer, history>>

-----------------------------------------------------------------------------
(* The handshake                                                           *)

\* MsQuic is about to call QsyncListenerCallback.
Indicate(c) ==
  /\ listening /\ cside[c] = "starting" /\ sside[c] = "none"
  /\ sside' = [sside EXCEPT ![c] = "indicated"]
  /\ UNCHANGED <<password, mainVars, listening, cside, memberVars, poolVars, answer, history>>

\* What make_unique puts in the place of the old Connection, whose destructor
\* closes it.  A connection that was refused has been closed by MsQuic.
Replace(c, state) ==
  IF Alive(Server, "Connection")
    THEN /\ Connection' = c
         /\ sside' = [d \in Clients |-> IF d = c THEN state
                                        ELSE IF d = Connection THEN "closed" ELSE sside[d]]
         /\ dead' = dead \cup Uses(Server, {"Config"})
                      \cup (IF Connection # NoOne /\ sside[Connection] = "closed"
                              THEN {<<Server, "handle">>} ELSE {})
    ELSE /\ sside' = [sside EXCEPT ![c] = state]
         /\ dead' = dead \cup Uses(Server, {"Connection", "Config"})
         /\ UNCHANGED Connection

\* NEW_CONNECTION
NewConnection(c) ==
  /\ sside[c] = "indicated"
  /\ Replace(c, "handshake")
  /\ UNCHANGED <<password, mainVars, listening, cside, ControlStream, poolVars, answer,
                 failed, raced, crossed>>

\* SetConfiguration fails: the connection is refused, and closed by MsQuic,
\* but stays in Connection.
NewConnectionRefused(c) ==
  /\ sside[c] = "indicated" /\ "configuration" \in Faults
  /\ Replace(c, "closed")
  /\ failed' = failed \cup {"configuration"}
  /\ UNCHANGED <<password, mainVars, listening, cside, ControlStream, poolVars, answer,
                 raced, crossed>>

\* The client's PEER_CERTIFICATE_RECEIVED, if it has a password, and CONNECTED.
ClientHandshake(c) ==
  /\ sside[c] = "handshake" /\ cside[c] = "starting"
  /\ LET accepted == password[c] # NoPassword => Verifies(password[c], CertificateOf(Server))
     IN  cside' = [cside EXCEPT ![c] = IF accepted THEN "connected" ELSE "down"]
  /\ dead' = dead \cup (IF password[c] = NoPassword THEN {} ELSE Uses(c, {"CertPw"}))
  /\ UNCHANGED <<password, mainVars, listening, sside, memberVars, poolVars, answer,
                 failed, raced, crossed>>

\* A bug: REQUIRE_CLIENT_AUTHENTICATION is left out, and no certificate asked for.
ServerAcceptsAny(c) == TRUE

\* A client started without a password has no certificate to send, and is
\* not accepted by a server that requires one.
ServerAccepts(c) ==
  password[Server] # NoPassword =>
    password[c] # NoPassword /\ Verifies(password[Server], CertificateOf(c))

\* PEER_CERTIFICATE_RECEIVED
ServerRefuses(c) ==
  /\ sside[c] = "handshake" /\ cside[c] = "connected" /\ ~ServerAccepts(c)
  /\ sside' = [sside EXCEPT ![c] = "down"]
  /\ dead' = dead \cup Uses(Server, {"CertPw"})
  /\ UNCHANGED <<password, mainVars, listening, cside, memberVars, poolVars, answer,
                 failed, raced, crossed>>

\* A bug: the listener goes on.
ConnectedListening(c) ==
  /\ sside[c] = "handshake" /\ cside[c] = "connected" /\ ServerAccepts(c)
  /\ sside' = [sside EXCEPT ![c] = "connected"]
  /\ raced' = (raced \/ \E d \in Clients : sside[d] = "indicated")
  /\ dead' = dead \cup Uses(Server, {"CertPw"})
  /\ UNCHANGED <<password, mainVars, listening, cside, memberVars, poolVars, answer,
                 failed, crossed>>

\* PEER_CERTIFICATE_RECEIVED and CONNECTED: the listener takes no other.
Connected(c) ==
  /\ sside[c] = "handshake" /\ cside[c] = "connected" /\ ServerAccepts(c)
  /\ sside' = [sside EXCEPT ![c] = "connected"]
  /\ listening' = FALSE
  /\ raced' = (raced \/ \E d \in Clients : sside[d] = "indicated")
  /\ dead' = dead \cup Uses(Server, {"CertPw", "Listener"})
  /\ UNCHANGED <<password, mainVars, cside, memberVars, poolVars, answer, failed, crossed>>

-----------------------------------------------------------------------------
(* One announcement and its answer                                         *)

\* PEER_STREAM_STARTED
StreamStarted(c) ==
  /\ sside[c] = "connected"
  /\ sside' = [sside EXCEPT ![c] = "streaming"]
  /\ ControlStream' = IF Alive(Server, "ControlStream") THEN c ELSE ControlStream
  /\ dead' = dead \cup Uses(Server, {"ControlStream"})
  /\ UNCHANGED <<password, mainVars, listening, cside, Connection, poolVars, answer,
                 failed, raced, crossed>>

\* A bug: what has been received is not taken off.
ReceiveAgain(c) ==
  /\ sside[c] = "streaming"
  /\ queue' = IF Alive(Server, "Pool") THEN Append(queue, c) ELSE queue
  /\ dead' = dead \cup Uses(Server, {"Pool"})
  /\ UNCHANGED <<password, mainVars, listening, cside, sside, memberVars, worker, answer,
                 failed, raced, crossed>>

\* RECEIVE of the control stream: AddFileToList.
Receive(c) ==
  /\ sside[c] = "streaming"
  /\ sside' = [sside EXCEPT ![c] = "heard"]
  /\ queue' = IF Alive(Server, "Pool") THEN Append(queue, c) ELSE queue
  /\ dead' = dead \cup Uses(Server, {"Pool"})
  /\ UNCHANGED <<password, mainVars, listening, cside, memberVars, worker, answer,
                 failed, raced, crossed>>

\* The item comes to open a stream on Connection, if the entry is to be
\* transferred, or to reply on ControlStream, whichever client they lead to.
WorkerRead ==
  /\ worker = Idle /\ queue # << >> /\ Alive(Server, "Pool")
  /\ \E m \in {"Connection", "ControlStream"} :
       /\ worker' = [item |-> Head(queue), member |-> m,
                     target |-> IF m = "Connection" THEN Connection ELSE ControlStream]
       /\ dead' = dead \cup Uses(Server, {m})
  /\ queue' = Tail(queue)
  /\ UNCHANGED <<password, mainVars, listening, cside, sside, memberVars, answer,
                 failed, raced, crossed>>

\* It uses what it read, which may have been destroyed or replaced since.
WorkerUse ==
  /\ worker # Idle
  /\ LET m == worker.member
         there == Alive(Server, m)
           /\ worker.target = IF m = "Connection" THEN Connection ELSE ControlStream
     IN  /\ dead' = dead \cup IF there THEN {} ELSE {<<Server, m>>}
         /\ answer' = [c \in Clients |->
              IF there /\ c = worker.target
                THEN IF m = "Connection" THEN "stream" ELSE "id"
                ELSE answer[c]]
  /\ crossed' = (crossed \/ worker.target # worker.item)
  /\ worker' = Idle
  /\ UNCHANGED <<password, mainVars, listening, cside, sside, memberVars, queue, failed, raced>>

\* The client finds the entry it is asked for, or is told to forget.
ClientReceive(c) ==
  /\ answer[c] \in {"stream", "id"} /\ cside[c] = "connected"
  /\ answer' = [answer EXCEPT ![c] = IF @ = "stream" THEN "data" ELSE "none"]
  /\ dead' = dead \cup Uses(c, {"FileInfos"})
       \cup (IF answer[c] = "stream" THEN Uses(c, {"Pool"}) ELSE {})
  /\ UNCHANGED <<password, mainVars, listening, cside, sside, memberVars, poolVars,
                 failed, raced, crossed>>

\* RECEIVE of the data stream.
DataReceive(c) ==
  /\ answer[c] = "data" /\ sside[c] = "heard"
  /\ answer' = [answer EXCEPT ![c] = "none"]
  /\ dead' = dead \cup Uses(Server, {"IoPool"})
  /\ UNCHANGED <<password, mainVars, listening, cside, sside, memberVars, poolVars,
                 failed, raced, crossed>>

-----------------------------------------------------------------------------
(* The end of a connection, and of a program                               *)

\* The connection is lost: the ends notice one after the other, or one only.
Lost(c) ==
  /\ "connection" \in Faults /\ cside[c] = "connected"
  /\ cside' = [cside EXCEPT ![c] = "down"]
  /\ failed' = failed \cup {"connection"}
  /\ UNCHANGED <<password, mainVars, listening, sside, memberVars, poolVars, answer,
                 raced, crossed, dead>>

\* SHUTDOWN_COMPLETE at the client: the server has refused it or is gone.
ClientDown(c) ==
  /\ cside[c] \in {"starting", "connected"}
  /\ \/ sside[c] \in {"down", "closed"} \/ ~Sound(Server)
     \/ sside[c] = "none" /\ ~listening
  /\ cside' = [cside EXCEPT ![c] = "down"]
  /\ UNCHANGED <<password, mainVars, listening, sside, memberVars, poolVars, answer, history>>

\* SHUTDOWN_COMPLETE at the server.  It keeps Connection and ControlStream.
ServerDown(c) ==
  /\ sside[c] \in {"handshake", "connected", "streaming", "heard"}
  /\ cside[c] \in {"down", "closed"} \/ ~Sound(c)
  /\ sside' = [sside EXCEPT ![c] = "down"]
  /\ UNCHANGED <<password, mainVars, listening, cside, memberVars, poolVars, answer, history>>

\* getchar: main returns, and destroys Server or Client.
Enter(e) ==
  /\ e \in Quitters /\ at[e] = "waiting"
  /\ at' = [at EXCEPT ![e] = "exiting"]
  /\ UNCHANGED <<password, gone, listening, cside, sside, memberVars, poolVars, answer, history>>

\* ListenerClose waits for the listener's callbacks, RegistrationClose until
\* every connection is closed, ~Threadpool for its thread.
MayGo(e, m) ==
  /\ e = Server /\ m = "Listener" => \A c \in Clients : sside[c] # "indicated"
  /\ e = Server /\ m = "Reg" => \A c \in Clients : sside[c] \in {"none", "closed"}
  /\ e = Server /\ m = "Pool" => worker = Idle
  /\ e # Server /\ m = "Reg" => cside[e] \in {"none", "closed"}

\* One member's destructor.
Destroy(e) ==
  /\ at[e] = "exiting" /\ gone[e] < Len(Members(e))
  /\ LET m == Members(e)[gone[e] + 1]
         closes == m = "Connection"
     IN  /\ MayGo(e, m)
         /\ listening' = (listening /\ ~(e = Server /\ m = "Listener"))
         /\ queue' = IF e = Server /\ m = "Pool" THEN << >> ELSE queue
         /\ sside' = IF closes /\ e = Server /\ Connection # NoOne
                       THEN [sside EXCEPT ![Connection] = "closed"] ELSE sside
         /\ cside' = IF closes /\ e # Server /\ cside[e] # "none"
                       THEN [cside EXCEPT ![e] = "closed"] ELSE cside
         /\ dead' = IF closes /\ e = Server /\ Connection # NoOne
                         /\ sside[Connection] = "closed"
                      THEN dead \cup {<<Server, "handle">>} ELSE dead
  /\ gone' = [gone EXCEPT ![e] = @ + 1]
  /\ UNCHANGED <<password, at, memberVars, worker, answer, failed, raced, crossed>>

Return(e) ==
  /\ at[e] = "exiting" /\ gone[e] = Len(Members(e))
  /\ at' = [at EXCEPT ![e] = "returned"]
  /\ UNCHANGED <<password, gone, listening, cside, sside, memberVars, poolVars, answer, history>>

-----------------------------------------------------------------------------

AtServer(c) ==
  \/ Indicate(c) \/ NewConnection(c) \/ NewConnectionRefused(c)
  \/ ServerRefuses(c) \/ Connected(c) \/ StreamStarted(c) \/ Receive(c) \/ DataReceive(c)
  \/ ServerDown(c)
AtClient(c) == ClientHandshake(c) \/ ClientReceive(c) \/ ClientDown(c)
Worker == WorkerRead \/ WorkerUse
Exit(e) == Destroy(e) \/ Return(e)

Next ==
  \/ \E e \in Ends : Sound(e) /\ (StartFails(e) \/ Enter(e) \/ Exit(e))
  \/ Sound(Server) /\ (StartServer \/ Worker \/ \E c \in Clients : AtServer(c))
  \/ \E c \in Clients : Sound(c) /\ (StartClient(c) \/ AtClient(c) \/ Lost(c))

(* Fairness: MsQuic indicates what it has to, and notices that an end is   *)
(* gone; the Pool's thread runs; destructors go on.  Nobody has to start a *)
(* program or to press Enter.                                              *)
Fairness ==
  /\ \A c \in Clients : /\ WF_vars(Sound(Server) /\ AtServer(c))
                        /\ WF_vars(Sound(c) /\ AtClient(c))
  /\ WF_vars(Sound(Server) /\ Worker)
  /\ \A e \in Ends : WF_vars(Sound(e) /\ Exit(e))

Spec == Init /\ [][Next]_vars /\ Fairness

-----------------------------------------------------------------------------
(* Properties *)

Established == {"connected", "streaming", "heard"}

(* "enable mutual authentication" (server.cpp, client.cpp): two ends have  *)
(* a session only if they were given the same password, or none both.      *)
SamePassword ==
  \A c \in Clients : sside[c] \in Established => password[c] = password[Server]

(* What a client announced is asked of that client and answered to it,     *)
(* unless another connection was indicated before the listener was stopped *)
(* and handled after: it takes the place of the one that was made.         *)
AnswersGoBack == ~raced => ~crossed

(* Callbacks and items find alive what they use.  The two pools always:    *)
(* they are destroyed after the registration, when no callback is left.    *)
(* The others until Enter is pressed at their end, and Connection also     *)
(* unless a late connection has replaced it or one was refused.            *)
UsesAlive ==
  \A d \in dead :
    /\ d[2] \notin {"Pool", "IoPool"}
    /\ \/ at[d[1]] \in {"exiting", "returned"}
       \/ d[1] = Server /\ d[2] \in {"Connection", "ControlStream"} /\ raced
       \/ d = <<Server, "handle">> /\ "configuration" \in failed

(* A client with the server's password gets its session: the salt finds    *)
(* its way through the serial number, leading zeros or not.                *)
Connects ==
  \A c \in Clients :
    /\ cside[c] = "starting" /\ listening
    /\ password[c] = password[Server]
    ~> \/ sside[c] \in Established
       \/ failed # {} \/ dead # {}
       \/ at[c] # "waiting" \/ at[Server] # "waiting"
       \/ \E d \in Clients \ {c} : sside[d] # "none"

(* Enter ends the program: each destructor finds closed what it waits for, *)
(* but for a connection that was put into a Connection already destroyed.  *)
ExitReturns ==
  \A e \in Ends :
    at[e] = "exiting" ~> at[e] = "returned" \/ ~Sound(e)

=============================================================================
