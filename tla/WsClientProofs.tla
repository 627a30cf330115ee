--------------------------- MODULE WsClientProofs ---------------------------
(***************************************************************************)
(* What a caller of the websocket client can rely on, for any number of    *)
(* callers, calls and connections.                                         *)
(***************************************************************************)
EXTENDS WsClient, SequenceTheorems, TLAPS

(* The registries name the current turn of the thread, and the protocol only *)
(* while it is served.                                                       *)
Registered ==
    /\ loop = IF thread \in {"register", "sleep"} THEN 0 ELSE conn
    /\ thread \in {"joined", "forever"} => protocol = conn
    /\ thread \in {"register", "connect", "drop_loop", "sleep"} => protocol = 0
    /\ protocol \in {0, conn}
    /\ thread # "register" => conn > 0

(* Requests are on the wire of an open connection only, and ids of an API come *)
(* from that connection.                                                       *)
Connected ==
    /\ thread \notin {"joined", "forever", "close"} => link = "none"
    /\ thread = "close" => link \in {"none", "dead"}
    /\ stopping => link \in {"none", "dead"} /\ thread # "connect"
    /\ link # "open" => wire = {}
    /\ LoopRuns => \A a \in Apis : grants[a] \in {0, conn}

(* A request on the wire is the one that request_map holds under its id. *)
Pending ==
    /\ \A m \in wire : m.id \in DOMAIN requests /\ requests[m.id] = m.of /\ m.grant = conn
    /\ \A m, r \in wire : m.id = r.id => m = r

(* A future was set to the answer to its own request, or to None. *)
Delivered == \A f \in DOMAIN results : results[f] \in {f, NoResult}

(* What is handed to the loop is for its protocol. *)
HandedOver ==
    /\ \A i \in DOMAIN queue : queue[i].protocol = conn
    /\ queue # <<>> => thread \in {"joined", "forever", "close"} /\ protocol = conn

Called == \A c \in Callers : at[c] # "idle" => calls[c] > 0

IInv ==
    /\ TypeOK /\ Registered /\ Connected /\ Pending /\ Delivered /\ HandedOver /\ Called
    /\ RightAnswer
-----------------------------------------------------------------------------
(* Nothing that a call comes to without an answer looks like an answer, and what *)
(* the client itself asks is no call's.                                          *)
LEMMA Distinct ==
  /\ NoResult \notin Asked /\ NotYet \notin Asked
  /\ \A e : Raised(e) \notin Asked
  /\ \A a : LookUp(a) \notin Futures
  /\ Login \notin Futures
  <1>1. \A f \in Futures : \E c \in Callers : \E k : f = <<c, k>>
    BY DEF Futures
  <1>2. \A w \in Words : w \notin Callers
    BY WsAssumption
  <1>3. \A w \in Words : \A k : <<w, k>> \notin Futures
    BY <1>1, <1>2
  <1> QED
    BY <1>3 DEF Asked, NoResult, NotYet, Raised, LookUp, Login, Words

LEMMA FutureOf ==
  ASSUME NEW c \in Callers, TypeOK, calls[c] > 0
  PROVE  <<c, calls[c]>> \in Futures
  BY WsAssumption DEF TypeOK, CallerTypes, Futures

LEMMA Bounds == MaxConnections \in Nat /\ \A c \in Callers : MaxCalls[c] \in Nat
  BY WsAssumption

LEMMA EmptyQueue == <<>> \in Seq(Callbacks)
  BY EmptySeq

LEMMA InitIInv == Init => IInv
  <1> SUFFICES ASSUME Init PROVE IInv
    OBVIOUS
  <1> USE DEF Init
  <1>1. TypeOK
    <2>1. ThreadTypes
      <3>1. queue \in Seq(Callbacks)
        BY EmptyQueue
      <3>2. DOMAIN requests = {} /\ wire = {} /\ lastId = 0 /\ grants \in [Apis -> {0}]
        OBVIOUS
      <3>3. /\ thread = "register" /\ link = "none" /\ conn = 0
            /\ loop = 0 /\ protocol = 0
        OBVIOUS
      <3>4. stopping \in BOOLEAN
        OBVIOUS
      <3> HIDE DEF Init
      <3> QED
        BY Bounds, <3>1, <3>2, <3>3, <3>4 DEF ThreadTypes
    <2>2. CallerTypes
      <3>1. ASSUME NEW c \in Callers PROVE calls[c] <= MaxCalls[c]
        BY Bounds
      <3>2. DOMAIN results = {} /\ outcome \in [Callers -> Outcomes]
        BY DEF Outcomes
      <3> QED
        BY Bounds, <3>1, <3>2 DEF CallerTypes
    <2> QED
      BY <2>1, <2>2 DEF TypeOK
  <1>2. Registered /\ Connected /\ Pending /\ Delivered /\ HandedOver /\ Called
    BY DEF Registered, Connected, Pending, Delivered, HandedOver, Called, LoopRuns, Apis
  <1>3. RightAnswer
    BY Distinct DEF RightAnswer
  <1> QED
    BY <1>1, <1>2, <1>3 DEF IInv
-----------------------------------------------------------------------------
(* The steps of run_monitoring(). *)
LEMMA ThreadStep == IInv /\ Thread => IInv'
  <1> SUFFICES ASSUME IInv, Thread PROVE IInv'
    OBVIOUS
  <1>1. UNCHANGED <<callerVars, results>>
    BY DEF Thread, Register, RunForever, LoopStops, CloseLoop, DropProtocol, DropLoop, Sleep,
           Refused, Join
  <1>2. CallerTypes' /\ Delivered' /\ Called' /\ RightAnswer'
    BY <1>1 DEF IInv, TypeOK, CallerTypes, Delivered, Called, RightAnswer, callerVars
  <1>3. CASE Register
    <2> USE <1>3 DEF Register, Goto, registry, protocolVars, callerVars
    <2>1. ThreadTypes'
      <3>1. queue' \in Seq(Callbacks)
        BY EmptyQueue
      <3>2. conn' \in 1..MaxConnections /\ loop' = conn' /\ protocol' = protocol
        BY Bounds DEF IInv, TypeOK, ThreadTypes
      <3>3. UNCHANGED <<grants, lastId, requests, wire, link>>
        OBVIOUS
      <3>4. stopping' \in BOOLEAN /\ thread' = "connect"
        OBVIOUS
      <3> HIDE DEF Register
      <3> QED
        BY <3>1, <3>2, <3>3, <3>4 DEF IInv, TypeOK, ThreadTypes
    <2>2. Registered' /\ Connected'
      BY DEF IInv, TypeOK, ThreadTypes, Registered, Connected, LoopRuns
    <2>3. Pending' /\ HandedOver'
      BY DEF IInv, TypeOK, ThreadTypes, Registered, Connected, Pending, HandedOver
    <2> QED
      BY <1>2, <2>1, <2>2, <2>3 DEF IInv, TypeOK
  <1>4. CASE RunForever
    <2> USE <1>4 DEF RunForever, Goto, registry, protocolVars, callerVars
    <2>1. ThreadTypes'
      BY <1>4 DEF IInv, TypeOK, ThreadTypes, Registered
    <2>2. Registered' /\ Connected'
      BY DEF IInv, TypeOK, ThreadTypes, Registered, Connected, LoopRuns
    <2>3. Pending' /\ HandedOver'
      BY DEF IInv, TypeOK, ThreadTypes, Registered, Connected, Pending, HandedOver
    <2> QED
      BY <1>2, <2>1, <2>2, <2>3 DEF IInv, TypeOK
  <1>5. CASE LoopStops
    <2> USE <1>5 DEF LoopStops, Goto, registry, protocolVars, callerVars
    <2>1. ThreadTypes'
      BY <1>5 DEF IInv, TypeOK, ThreadTypes, Registered
    <2>2. Registered' /\ Connected'
      BY DEF IInv, TypeOK, ThreadTypes, Registered, Connected, LoopRuns
    <2>3. Pending' /\ HandedOver'
      BY DEF IInv, TypeOK, ThreadTypes, Registered, Connected, Pending, HandedOver
    <2> QED
      BY <1>2, <2>1, <2>2, <2>3 DEF IInv, TypeOK
  <1>6. CASE CloseLoop
    <2> USE <1>6 DEF CloseLoop, Goto, registry, protocolVars, callerVars
    <2>1. ThreadTypes'
      BY EmptyQueue, <1>6 DEF IInv, TypeOK, ThreadTypes, Registered
    <2>2. Registered' /\ Connected'
      BY DEF IInv, TypeOK, ThreadTypes, Registered, Connected, LoopRuns
    <2>3. Pending' /\ HandedOver'
      BY DEF IInv, TypeOK, ThreadTypes, Registered, Connected, Pending, HandedOver
    <2> QED
      BY <1>2, <2>1, <2>2, <2>3 DEF IInv, TypeOK
  <1>7. CASE DropProtocol
    <2> USE <1>7 DEF DropProtocol, Goto, registry, protocolVars, callerVars
    <2>1. ThreadTypes'
      BY Bounds, <1>7 DEF IInv, TypeOK, ThreadTypes, Registered
    <2>2. Registered' /\ Connected'
      BY DEF IInv, TypeOK, ThreadTypes, Registered, Connected, LoopRuns
    <2>3. Pending' /\ HandedOver'
      BY DEF IInv, TypeOK, ThreadTypes, Registered, Connected, Pending, HandedOver
    <2> QED
      BY <1>2, <2>1, <2>2, <2>3 DEF IInv, TypeOK
  <1>8. CASE DropLoop
    <2> USE <1>8 DEF DropLoop, Goto, registry, protocolVars, callerVars
    <2>1. ThreadTypes'
      BY Bounds, <1>8 DEF IInv, TypeOK, ThreadTypes, Registered
    <2>2. Registered' /\ Connected'
      BY DEF IInv, TypeOK, ThreadTypes, Registered, Connected, LoopRuns
    <2>3. Pending' /\ HandedOver'
      BY DEF IInv, TypeOK, ThreadTypes, Registered, Connected, Pending, HandedOver
    <2> QED
      BY <1>2, <2>1, <2>2, <2>3 DEF IInv, TypeOK
  <1>9. CASE Sleep
    <2> USE <1>9 DEF Sleep, Goto, registry, protocolVars, callerVars
    <2>1. ThreadTypes'
      BY <1>9 DEF IInv, TypeOK, ThreadTypes, Registered
    <2>2. Registered' /\ Connected'
      BY DEF IInv, TypeOK, ThreadTypes, Registered, Connected, LoopRuns
    <2>3. Pending' /\ HandedOver'
      BY DEF IInv, TypeOK, ThreadTypes, Registered, Connected, Pending, HandedOver
    <2> QED
      BY <1>2, <2>1, <2>2, <2>3 DEF IInv, TypeOK
  <1>10. CASE Refused
    <2> USE <1>10 DEF Refused, Goto, registry, protocolVars, callerVars
    <2>1. ThreadTypes'
      BY <1>10 DEF IInv, TypeOK, ThreadTypes, Registered
    <2>2. Registered' /\ Connected'
      BY DEF IInv, TypeOK, ThreadTypes, Registered, Connected, LoopRuns
    <2>3. Pending' /\ HandedOver'
      BY DEF IInv, TypeOK, ThreadTypes, Registered, Connected, Pending, HandedOver
    <2> QED
      BY <1>2, <2>1, <2>2, <2>3 DEF IInv, TypeOK
  <1>11. CASE Join
    <2> USE <1>11 DEF Join, Goto, registry, protocolVars, callerVars
    <2>1. ThreadTypes'
      BY Bounds, <1>11 DEF IInv, TypeOK, ThreadTypes, Registered
    <2>2. Registered' /\ Connected'
      BY DEF IInv, TypeOK, ThreadTypes, Registered, Connected, LoopRuns
    <2>3. Pending' /\ HandedOver'
      BY DEF IInv, TypeOK, ThreadTypes, Registered, Connected, Pending, HandedOver
    <2> QED
      BY <1>2, <2>1, <2>2, <2>3 DEF IInv, TypeOK
  <1> QED
    BY <1>3, <1>4, <1>5, <1>6, <1>7, <1>8, <1>9, <1>10, <1>11 DEF Thread
-----------------------------------------------------------------------------
(* What is asked for: an id is new, and what it was asked for is under it. *)
LEMMA AskedOnWire ==
  ASSUME IInv, NEW asked \in Asked, NEW grant \in {0, conn}, grant # 0,
         lastId' = lastId + 1, Request(asked, grant), UNCHANGED conn
  PROVE  /\ DOMAIN requests' \subseteq 1..lastId' /\ \A i \in DOMAIN requests' : requests'[i] \in Asked
         /\ wire' \subseteq [id : 1..lastId', of : Asked, grant : 0..MaxConnections]
         /\ Pending' /\ (link # "open" => wire' = wire)
  <1>1. /\ lastId \in Nat /\ DOMAIN requests \subseteq 1..lastId
        /\ \A i \in DOMAIN requests : requests[i] \in Asked
        /\ wire \subseteq [id : 1..lastId, of : Asked, grant : 0..MaxConnections]
        /\ conn \in 0..MaxConnections
    BY DEF IInv, TypeOK, ThreadTypes
  <1>2. /\ DOMAIN requests' = DOMAIN requests \cup {lastId'} /\ requests'[lastId'] = asked
        /\ \A i \in DOMAIN requests : i # lastId' => requests'[i] = requests[i]
    <2>1. requests' = Updated(requests, Only(lastId', asked))
      BY DEF Request
    <2> QED
      BY <2>1 DEF Updated, Only
  <1>3. lastId' \notin DOMAIN requests /\ \A m \in wire : m.id # lastId'
    BY <1>1
  <1>4. DOMAIN requests' \subseteq 1..lastId' /\ \A i \in DOMAIN requests' : requests'[i] \in Asked
    BY <1>1, <1>2
  <1> DEFINE new == [id |-> lastId', of |-> asked, grant |-> grant]
  <1>5. new \in [id : 1..lastId', of : Asked, grant : 0..MaxConnections]
    BY <1>1
  <1>6. \A m \in wire : m \in [id : 1..lastId', of : Asked, grant : 0..MaxConnections]
    BY <1>1
  <1>7. wire' = wire \cup {new} \/ wire' = wire
    BY DEF Request
  <1>8. wire' \subseteq [id : 1..lastId', of : Asked, grant : 0..MaxConnections]
    BY <1>5, <1>6, <1>7
  <1>9. Pending'
    <2>1. new.id = lastId' /\ new.of = asked /\ new.grant = conn
      OBVIOUS
    <2> HIDE DEF new
    <2>2. ASSUME NEW m \in wire'
          PROVE  m.id \in DOMAIN requests' /\ requests'[m.id] = m.of /\ m.grant = conn'
      <3>1. CASE m \in wire
        BY <1>2, <1>3, <3>1 DEF IInv, Pending
      <3>2. CASE m = new
        BY <1>2, <2>1, <3>2
      <3> QED
        BY <1>7, <3>1, <3>2
    <2>3. ASSUME NEW m \in wire', NEW r \in wire', m.id = r.id PROVE m = r
      BY <1>3, <1>7, <2>1, <2>3 DEF IInv, Pending
    <2> QED
      BY <2>2, <2>3 DEF Pending
  <1>10. link # "open" => wire' = wire
    BY DEF Request
  <1> QED
    BY <1>4, <1>8, <1>9, <1>10

(* The handshake: ids are asked for in order, and a new connection has nothing on *)
(* the wire.                                                                      *)
LEMMA OnConnectStep == IInv /\ OnConnect => IInv'
  <1> SUFFICES ASSUME IInv, OnConnect PROVE IInv'
    OBVIOUS
  <1>1. /\ UNCHANGED <<thread, conn, stopping, loop, protocol, grants, queue, results>>
        /\ UNCHANGED callerVars /\ LoopRuns /\ link = "joined" /\ link' = "open"
    BY DEF OnConnect, registry
  <1>2. CallerTypes' /\ Delivered' /\ Called' /\ RightAnswer'
    BY <1>1 DEF IInv, TypeOK, CallerTypes, Delivered, Called, RightAnswer, callerVars
  <1>3. Registered' /\ HandedOver'
    BY <1>1 DEF IInv, Registered, HandedOver
  <1>4. Connected'
    BY <1>1 DEF IInv, Connected, LoopRuns
  <1> DEFINE new == [i \in (lastId + 1)..lastId' |->
                        IF i = lastId + 1 THEN Login ELSE LookUp(LookUps[i - lastId - 1])]
             sent(i) == [id |-> i, of |-> new[i], grant |-> conn]
  <1>5. /\ lastId' = lastId + 1 + Len(LookUps) /\ requests' = Updated(requests, new)
        /\ wire' = wire \cup {sent(i) : i \in DOMAIN new} /\ wire = {}
    BY <1>1 DEF OnConnect, IInv, Connected
  <1>6. /\ lastId \in Nat /\ DOMAIN requests \subseteq 1..lastId /\ conn \in 0..MaxConnections
        /\ \A i \in DOMAIN requests : requests[i] \in Asked
    BY DEF IInv, TypeOK, ThreadTypes
  <1>7. Len(LookUps) \in Nat /\ \A i \in 1..Len(LookUps) : LookUps[i] \in Apis
    BY WsAssumption, LenProperties, ElementOfSeq
  <1>8. /\ lastId' \in Nat /\ DOMAIN new = (lastId + 1)..lastId' /\ 1..lastId \subseteq 1..lastId'
        /\ DOMAIN new \subseteq 1..lastId'
    BY <1>5, <1>6, <1>7
  <1>9. ASSUME NEW i \in (lastId + 1)..lastId' PROVE new[i] \in Asked
    <2>1. CASE i = lastId + 1
      BY <2>1 DEF Asked
    <2>2. CASE i # lastId + 1
      <3>1. i - lastId - 1 \in 1..Len(LookUps)
        BY <1>5, <1>6, <1>7, <2>2
      <3> QED
        BY <1>7, <2>2, <3>1 DEF Asked
    <2> QED
      BY <2>1, <2>2
  <1> HIDE DEF new
  <1>10. /\ DOMAIN requests' = DOMAIN requests \cup DOMAIN new
         /\ \A i \in DOMAIN new : requests'[i] = new[i]
         /\ \A i \in DOMAIN requests' : requests'[i] \in Asked
    BY <1>5, <1>6, <1>8, <1>9 DEF Updated
  <1>11. \A i \in DOMAIN new : sent(i) \in [id : 1..lastId', of : Asked, grant : 0..MaxConnections]
    BY <1>6, <1>8, <1>9
  <1>12. ThreadTypes'
    <2>1. DOMAIN requests' \subseteq 1..lastId' /\ \A i \in DOMAIN requests' : requests'[i] \in Asked
      BY <1>6, <1>8, <1>10
    <2>2. wire' \subseteq [id : 1..lastId', of : Asked, grant : 0..MaxConnections]
      BY <1>5, <1>11
    <2> QED
      BY <1>1, <1>8, <2>1, <2>2 DEF IInv, TypeOK, ThreadTypes
  <1>13. Pending'
    <2>1. \A i \in DOMAIN new : sent(i).id = i /\ sent(i).of = new[i] /\ sent(i).grant = conn
      OBVIOUS
    <2>2. \A m \in wire' : \E i \in DOMAIN new : m = sent(i)
      BY <1>5
    <2> HIDE DEF sent
    <2>3. ASSUME NEW m \in wire'
          PROVE  m.id \in DOMAIN requests' /\ requests'[m.id] = m.of /\ m.grant = conn'
      BY <1>1, <1>10, <2>1, <2>2
    <2>4. ASSUME NEW m \in wire', NEW r \in wire', m.id = r.id PROVE m = r
      BY <2>1, <2>2, <2>4
    <2> QED
      BY <2>3, <2>4 DEF Pending
  <1> QED
    BY <1>2, <1>3, <1>4, <1>12, <1>13 DEF IInv, TypeOK

(* A call handed over is asked for, with an id of the connection. *)
LEMMA RunCallStep == IInv /\ RunCall => IInv'
  <1> SUFFICES ASSUME IInv, RunCall PROVE IInv'
    OBVIOUS
  <1> DEFINE future == Head(queue).future
             grant == grants[ApiOf[future[1]]]
  <1>1. /\ UNCHANGED <<thread, conn, link, stopping, loop, protocol, grants, results>>
        /\ UNCHANGED callerVars /\ LoopRuns /\ queue # <<>> /\ queue' = Tail(queue)
        /\ lastId' = lastId + 1
        /\ IF grant = 0 THEN UNCHANGED <<requests, wire>> ELSE Request(future, grant)
    BY DEF RunCall, registry
  <1>2. CallerTypes' /\ Delivered' /\ Called' /\ RightAnswer'
    BY <1>1 DEF IInv, TypeOK, CallerTypes, Delivered, Called, RightAnswer, callerVars
  <1>3. Registered'
    BY <1>1 DEF IInv, Registered
  <1>4. /\ queue \in Seq(Callbacks) /\ Head(queue) \in Callbacks /\ queue' \in Seq(Callbacks)
        /\ Len(queue) \in Nat /\ Len(queue') = Len(queue) - 1
        /\ \A i \in 1..Len(queue') : queue'[i] = queue[i + 1]
    <2>1. queue \in Seq(Callbacks)
      BY DEF IInv, TypeOK, ThreadTypes
    <2> QED
      BY <1>1, <2>1, HeadTailProperties, LenProperties
  <1>5. HandedOver'
    <2>1. DOMAIN queue = 1..Len(queue) /\ DOMAIN queue' = 1..Len(queue')
      BY <1>4, LenProperties
    <2>2. ASSUME NEW i \in DOMAIN queue' PROVE queue'[i].protocol = conn
      <3>1. i + 1 \in DOMAIN queue /\ queue'[i] = queue[i + 1]
        BY <1>4, <2>1
      <3> QED
        BY <3>1 DEF IInv, HandedOver
    <2> QED
      BY <1>1, <2>2 DEF IInv, HandedOver
  <1>6. future \in Futures /\ future \in Asked
    BY <1>4 DEF Callbacks, Asked
  <1>7. grant \in {0, conn}
    <2>1. \E c \in Callers : \E k : future = <<c, k>>
      BY <1>6 DEF Futures
    <2>2. ApiOf[future[1]] \in Apis
      BY <2>1, WsAssumption
    <2> QED
      BY <1>1, <2>2 DEF IInv, Connected
  <1> HIDE DEF future, grant
  <1>8. /\ DOMAIN requests' \subseteq 1..lastId' /\ \A i \in DOMAIN requests' : requests'[i] \in Asked
        /\ wire' \subseteq [id : 1..lastId', of : Asked, grant : 0..MaxConnections]
        /\ Pending' /\ (link # "open" => wire' = wire)
    <2>1. CASE grant = 0
      <3>1. lastId \in Nat /\ UNCHANGED <<requests, wire, conn>>
        BY <1>1, <2>1 DEF IInv, TypeOK, ThreadTypes
      <3>2. 1..lastId \subseteq 1..lastId'
        BY <1>1, <3>1
      <3>3. [id : 1..lastId, of : Asked, grant : 0..MaxConnections]
              \subseteq [id : 1..lastId', of : Asked, grant : 0..MaxConnections]
        BY <3>2
      <3>4. Pending'
        BY <3>1 DEF IInv, Pending
      <3> QED
        BY <3>1, <3>2, <3>3, <3>4 DEF IInv, TypeOK, ThreadTypes
    <2>2. CASE grant # 0
      BY <1>1, <1>6, <1>7, <2>2, AskedOnWire
    <2> QED
      BY <2>1, <2>2
  <1>9. ThreadTypes'
    <2>1. lastId' \in Nat
      BY <1>1 DEF IInv, TypeOK, ThreadTypes
    <2> QED
      BY <1>1, <1>4, <1>8, <2>1 DEF IInv, TypeOK, ThreadTypes
  <1>10. Connected'
    BY <1>1, <1>8 DEF IInv, Connected, LoopRuns
  <1> QED
    BY <1>2, <1>3, <1>5, <1>8, <1>9, <1>10 DEF IInv, TypeOK

(* An answer is for the request that its id names, and sets the future of the call *)
(* that made it.                                                                   *)
LEMMA OnMessageStep == IInv /\ OnMessage => IInv'
  <1> SUFFICES ASSUME IInv, OnMessage PROVE IInv'
    OBVIOUS
  <1>1. /\ UNCHANGED <<thread, conn, link, stopping, loop, protocol, lastId, queue>>
        /\ UNCHANGED callerVars /\ LoopRuns /\ link = "open"
    BY DEF OnMessage, registry
  <1>2. PICK m \in wire, ok \in BOOLEAN :
          /\ m.id \in DOMAIN requests
          /\ wire' = wire \ {m}
          /\ requests' = [i \in DOMAIN requests \ {m.id} |-> requests[i]]
          /\ results' = IF requests[m.id] \in Futures
                        THEN Updated(results, Only(requests[m.id], IF ok THEN m.of ELSE NoResult))
                        ELSE results
          /\ grants' = [a \in Apis |-> IF requests[m.id] = LookUp(a) /\ ok
                                       THEN conn ELSE grants[a]]
    BY DEF OnMessage
  <1>3. requests[m.id] = m.of /\ \A r \in wire : r # m => r.id # m.id
    BY DEF IInv, Pending
  <1>4. results' = results \/ (m.of \in Futures /\ \E y \in {m.of, NoResult} :
                                 results' = Updated(results, Only(m.of, y)))
    BY <1>2, <1>3
  <1>5. /\ DOMAIN results' \subseteq Futures
        /\ \A f \in DOMAIN results' : results'[f] \in {f, NoResult}
    <2>1. /\ DOMAIN results \subseteq Futures
          /\ \A f \in DOMAIN results : results[f] \in {f, NoResult}
      BY DEF IInv, TypeOK, CallerTypes, Delivered
    <2>2. CASE results' = results
      BY <2>1, <2>2
    <2>3. CASE results' # results
      <3>1. m.of \in Futures
        BY <1>4, <2>3
      <3>2. PICK y \in {m.of, NoResult} : results' = Updated(results, Only(m.of, y))
        BY <1>4, <2>3
      <3>3. /\ DOMAIN results' = DOMAIN results \cup {m.of} /\ results'[m.of] = y
            /\ \A f \in DOMAIN results : f # m.of => results'[f] = results[f]
        BY <3>2 DEF Updated, Only
      <3> QED
        BY <2>1, <3>1, <3>3
    <2> QED
      BY <2>2, <2>3
  <1>6. CallerTypes' /\ Delivered' /\ Called' /\ RightAnswer'
    <2>1. \A f \in DOMAIN results' : results'[f] \in Asked \cup {NoResult}
      BY <1>5 DEF Asked
    <2> QED
      BY <1>1, <1>5, <2>1
      DEF IInv, TypeOK, CallerTypes, Delivered, Called, RightAnswer, callerVars
  <1>7. Registered' /\ HandedOver'
    BY <1>1 DEF IInv, Registered, HandedOver
  <1>8. grants' \in [Apis -> 0..MaxConnections] /\ \A a \in Apis : grants'[a] \in {0, conn}
    BY <1>1, <1>2 DEF IInv, TypeOK, ThreadTypes, Connected
  <1>9. Connected'
    BY <1>1, <1>8 DEF IInv, Connected, LoopRuns
  <1>10. /\ DOMAIN requests' = DOMAIN requests \ {m.id}
         /\ \A i \in DOMAIN requests' : requests'[i] = requests[i]
    BY <1>2
  <1>11. Pending'
    BY <1>1, <1>2, <1>3, <1>10 DEF IInv, Pending
  <1>12. ThreadTypes'
    <2>1. wire' \subseteq wire
      BY <1>2
    <2> QED
      BY <1>1, <1>8, <1>10, <2>1 DEF IInv, TypeOK, ThreadTypes
  <1> QED
    BY <1>6, <1>7, <1>9, <1>11, <1>12 DEF IInv, TypeOK

(* What the lost connection had on the wire is never answered. *)
LEMMA ConnectionLostStep == IInv /\ ConnectionLost => IInv'
  <1> SUFFICES ASSUME IInv, ConnectionLost PROVE IInv'
    OBVIOUS
  <1>1. /\ UNCHANGED <<thread, conn, loop, protocol, grants, lastId, requests, queue, results>>
        /\ UNCHANGED callerVars /\ LoopRuns /\ link' = "dead" /\ wire' = {}
    BY DEF ConnectionLost, registry
  <1>2. stopping' \in BOOLEAN
    BY DEF ConnectionLost
  <1>3. CallerTypes' /\ Delivered' /\ Called' /\ RightAnswer'
    BY <1>1 DEF IInv, TypeOK, CallerTypes, Delivered, Called, RightAnswer, callerVars
  <1>4. Registered' /\ HandedOver' /\ Pending'
    BY <1>1 DEF IInv, Registered, HandedOver, Pending
  <1>5. Connected'
    BY <1>1 DEF IInv, Connected, LoopRuns
  <1>6. ThreadTypes'
    BY <1>1, <1>2 DEF IInv, TypeOK, ThreadTypes
  <1> QED
    BY <1>3, <1>4, <1>5, <1>6 DEF IInv, TypeOK
-----------------------------------------------------------------------------
(* The steps of ws_rpc_call() leave what the thread and its loop hold alone, but *)
(* for the callback that it hands over.                                          *)
LEMMA CallerStep ==
  ASSUME IInv, UNCHANGED <<thread, conn, link, stopping, registry, protocolVars, queue>>
  PROVE  ThreadTypes' /\ Registered' /\ Connected' /\ Pending' /\ HandedOver'
  <1>1. UNCHANGED <<thread, conn, link, stopping, loop, protocol, grants, lastId, requests,
                    wire, queue>>
    BY DEF registry, protocolVars
  <1>2. ThreadTypes'
    BY <1>1 DEF IInv, TypeOK, ThreadTypes
  <1>3. Registered' /\ Connected'
    BY <1>1 DEF IInv, Registered, Connected, LoopRuns
  <1>4. Pending' /\ HandedOver'
    BY <1>1 DEF IInv, Pending, HandedOver
  <1> QED
    BY <1>2, <1>3, <1>4

(* A call that ends comes to its own answer, or to none. *)
LEMMA ReturnsStep ==
  ASSUME IInv, NEW c \in Callers, NEW what, Returns(c, what), UNCHANGED <<calls, seen, results>>,
         \/ what = <<c, calls[c]>> /\ calls[c] > 0
         \/ what = NoResult
         \/ \E e \in Errors : what = Raised(e)
  PROVE  CallerTypes' /\ Delivered' /\ Called' /\ RightAnswer'
  <1>1. what \in Asked => what = <<c, calls[c]>>
    BY Distinct
  <1>2. /\ at' = [at EXCEPT ![c] = "idle"]
        /\ outcome' = [outcome EXCEPT ![c] = what]
    BY DEF Returns
  <1>3. what \in Outcomes
    BY FutureOf DEF IInv, Asked, Outcomes
  <1> QED
    BY <1>1, <1>2, <1>3 DEF IInv, TypeOK, CallerTypes, Delivered, Called, RightAnswer

LEMMA StartCallStep == ASSUME IInv, NEW c \in Callers, StartCall(c) PROVE IInv'
  <1>1. /\ UNCHANGED <<thread, conn, link, stopping, registry, protocolVars, queue, results>>
        /\ calls[c] < MaxCalls[c] /\ calls' = [calls EXCEPT ![c] = @ + 1] /\ at[c] = "idle"
        /\ \/ at' = [at EXCEPT ![c] = "idle"] /\ seen' = seen
              /\ outcome' = [outcome EXCEPT ![c] = Raised("RPCError")]
           \/ at' = [at EXCEPT ![c] = "looked_up"] /\ seen' = [seen EXCEPT ![c] = loop]
              /\ outcome' = [outcome EXCEPT ![c] = NotYet]
    BY DEF StartCall, Returns
  <1>2. ThreadTypes' /\ Registered' /\ Connected' /\ Pending' /\ HandedOver'
    BY <1>1, CallerStep
  <1>3. CallerTypes' /\ Called'
    <2>1. /\ calls \in [Callers -> Nat] /\ at \in [Callers -> {"idle", "looked_up", "waiting"}]
          /\ loop \in 0..MaxConnections /\ calls[c] + 1 <= MaxCalls[c]
      BY <1>1, Bounds DEF IInv, TypeOK, CallerTypes, ThreadTypes
    <2>2. calls' \in [Callers -> Nat] /\ \A d \in Callers : calls'[d] <= MaxCalls[d]
      BY <1>1, <2>1 DEF IInv, TypeOK, CallerTypes
    <2>3. Called'
      BY <1>1, <2>1 DEF IInv, Called
    <2>4. /\ at' \in [Callers -> {"idle", "looked_up", "waiting"}]
          /\ seen' \in [Callers -> 0..MaxConnections]
      BY <1>1, <2>1 DEF IInv, TypeOK, CallerTypes
    <2>5. NotYet \in Outcomes /\ Raised("RPCError") \in Outcomes
      BY DEF Outcomes, Errors
    <2> QED
      BY <1>1, <2>2, <2>3, <2>4, <2>5 DEF IInv, TypeOK, CallerTypes
  <1>4. Delivered' /\ RightAnswer'
    <2>1. Raised("RPCError") \notin Asked /\ NotYet \notin Asked
      BY Distinct
    <2>2. outcome' = [outcome EXCEPT ![c] = Raised("RPCError")]
          \/ outcome' = [outcome EXCEPT ![c] = NotYet]
      BY <1>1
    <2>3. \A d \in Callers : outcome'[d] \in Asked => d # c /\ outcome'[d] = outcome[d]
      BY <2>1, <2>2 DEF IInv, TypeOK, CallerTypes
    <2>4. \A d \in Callers : d # c => calls'[d] = calls[d]
      BY <1>1
    <2> QED
      BY <1>1, <2>3, <2>4 DEF IInv, Delivered, RightAnswer
  <1> QED
    BY <1>2, <1>3, <1>4 DEF IInv, TypeOK

(* The protocol is only registered while its loop is the current one, so a loop *)
(* that is not closed is its own.                                               *)
LEMMA HandOverStep == ASSUME IInv, NEW c \in Callers, HandOver(c) PROVE IInv'
  <1>1. /\ UNCHANGED <<thread, conn, link, stopping, registry, protocolVars, calls, seen, results>>
        /\ at[c] = "looked_up"
    BY DEF HandOver
  <1>2. CASE protocol # 0 /\ ~Closed(seen[c])
    <2> DEFINE callback == [future |-> <<c, calls[c]>>, protocol |-> protocol]
    <2>1. queue' = Append(queue, callback) /\ at' = [at EXCEPT ![c] = "waiting"]
          /\ UNCHANGED outcome
      BY <1>2 DEF HandOver
    <2>2. callback \in Callbacks /\ callback.protocol = conn
      <3>1. protocol = conn /\ protocol \in 1..MaxConnections
        BY <1>2, Bounds DEF IInv, TypeOK, ThreadTypes, Registered
      <3>2. <<c, calls[c]>> \in Futures
        BY <1>1, FutureOf DEF IInv, Called
      <3> QED
        BY <3>1, <3>2 DEF Callbacks
    <2>3. thread \in {"joined", "forever", "close"} /\ protocol = conn
      BY <1>2 DEF Closed, IInv, TypeOK, ThreadTypes, Registered
    <2> HIDE DEF callback
    <2>4. queue \in Seq(Callbacks)
      BY DEF IInv, TypeOK, ThreadTypes
    <2>5. /\ queue' \in Seq(Callbacks) /\ Len(queue') = Len(queue) + 1 /\ Len(queue) \in Nat
          /\ \A i \in 1..Len(queue) : queue'[i] = queue[i]
          /\ queue'[Len(queue) + 1] = callback
      BY <2>1, <2>2, <2>4, AppendProperties, LenProperties
    <2>6. HandedOver'
      <3>1. DOMAIN queue = 1..Len(queue) /\ DOMAIN queue' = 1..Len(queue')
        BY <2>4, <2>5, LenProperties
      <3>2. ASSUME NEW i \in DOMAIN queue' PROVE queue'[i].protocol = conn
        <4>1. CASE i = Len(queue) + 1
          BY <2>2, <2>5, <4>1
        <4>2. CASE i # Len(queue) + 1
          <5>1. i \in DOMAIN queue
            BY <2>5, <3>1, <4>2
          <5> QED
            BY <2>5, <3>1, <5>1 DEF IInv, HandedOver
        <4> QED
          BY <4>1, <4>2
      <3> QED
        BY <1>1, <2>3, <3>2 DEF HandedOver, registry
    <2>7. ThreadTypes'
      BY <1>1, <2>5 DEF IInv, TypeOK, ThreadTypes, registry, protocolVars
    <2>8. Registered' /\ Connected' /\ Pending'
      BY <1>1 DEF IInv, Registered, Connected, Pending, LoopRuns, registry, protocolVars
    <2>9. CallerTypes' /\ Called' /\ Delivered' /\ RightAnswer'
      BY <1>1, <2>1 DEF IInv, TypeOK, CallerTypes, Called, Delivered, RightAnswer
    <2> QED
      BY <2>6, <2>7, <2>8, <2>9 DEF IInv, TypeOK
  <1>3. CASE ~(protocol # 0 /\ ~Closed(seen[c]))
    <2> DEFINE e == IF protocol = 0 THEN "KeyError" ELSE "RuntimeError"
    <2>1. Returns(c, Raised(e)) /\ UNCHANGED queue
      BY <1>3 DEF HandOver
    <2>2. ThreadTypes' /\ Registered' /\ Connected' /\ Pending' /\ HandedOver'
      BY <1>1, <2>1, CallerStep
    <2>3. CallerTypes' /\ Delivered' /\ Called' /\ RightAnswer'
      <3>1. e \in Errors
        BY DEF Errors
      <3> HIDE DEF e
      <3> QED
        BY <1>1, <2>1, <3>1, ReturnsStep
    <2> QED
      BY <2>2, <2>3 DEF IInv, TypeOK
  <1> QED
    BY <1>2, <1>3

LEMMA GetResultStep == ASSUME IInv, NEW c \in Callers, GetResult(c) PROVE IInv'
  <1>1. /\ UNCHANGED <<thread, conn, link, stopping, registry, protocolVars, queue>>
        /\ UNCHANGED <<calls, seen, results>> /\ Returns(c, results[<<c, calls[c]>>])
        /\ at[c] = "waiting" /\ <<c, calls[c]>> \in DOMAIN results
    BY DEF GetResult
  <1>2. calls[c] > 0 /\ results[<<c, calls[c]>>] \in {<<c, calls[c]>>, NoResult}
    BY <1>1 DEF IInv, Called, Delivered
  <1>3. CallerTypes' /\ Delivered' /\ Called' /\ RightAnswer'
    BY <1>1, <1>2, ReturnsStep
  <1> QED
    BY <1>1, <1>3, CallerStep DEF IInv, TypeOK

LEMMA TimeoutStep == ASSUME IInv, NEW c \in Callers, Timeout(c) PROVE IInv'
  <1> DEFINE what == IF c \in Structured THEN Raised("TypeError") ELSE NoResult
  <1>1. /\ UNCHANGED <<thread, conn, link, stopping, registry, protocolVars, queue>>
        /\ UNCHANGED <<calls, seen, results>> /\ Returns(c, what)
    BY DEF Timeout
  <1>2. what = NoResult \/ \E e \in Errors : what = Raised(e)
    BY DEF Errors
  <1> HIDE DEF what
  <1>3. CallerTypes' /\ Delivered' /\ Called' /\ RightAnswer'
    BY <1>1, <1>2, ReturnsStep
  <1> QED
    BY <1>1, <1>3, CallerStep DEF IInv, TypeOK
-----------------------------------------------------------------------------
LEMMA NextIInv == IInv /\ [Next]_vars => IInv'
  <1> SUFFICES ASSUME IInv, [Next]_vars PROVE IInv'
    OBVIOUS
  <1>1. CASE UNCHANGED vars
    <2>1. /\ UNCHANGED <<thread, conn, link, stopping, registry, protocolVars, queue>>
          /\ UNCHANGED <<callerVars, results>>
      BY <1>1 DEF vars, registry, protocolVars, callerVars
    <2>2. CallerTypes' /\ Delivered' /\ Called' /\ RightAnswer'
      BY <2>1 DEF IInv, TypeOK, CallerTypes, Delivered, Called, RightAnswer, callerVars
    <2> QED
      BY <2>1, <2>2, CallerStep DEF IInv, TypeOK
  <1>2. CASE Thread \/ OnConnect \/ RunCall \/ OnMessage \/ ConnectionLost
    BY <1>2, ThreadStep, OnConnectStep, RunCallStep, OnMessageStep, ConnectionLostStep
  <1>3. ASSUME NEW c \in Callers, StartCall(c) \/ HandOver(c) \/ GetResult(c) \/ Timeout(c)
        PROVE  IInv'
    BY <1>3, StartCallStep, HandOverStep, GetResultStep, TimeoutStep
  <1> QED
    BY <1>1, <1>2, <1>3 DEF Next, Exhausted

LEMMA Invariance == Spec => []IInv
  BY InitIInv, NextIInv, PTL DEF Spec
-----------------------------------------------------------------------------
(* Every variable stays in its domain: no request is for anything but a call that *)
(* was made or what the client itself asks, and no callback is without a protocol *)
(* (graphene.py:86-236).                                                          *)
THEOREM TypeCorrect == Spec => []TypeOK
  <1>1. IInv => TypeOK
    BY DEF IInv
  <1> QED
    BY <1>1, Invariance, PTL

(* A call comes to the answer of the witness to that very call, to None or to an *)
(* exception, however often the client reconnects and the ids of the requests     *)
(* start again, and however late the answer is (graphene.py:122, 133, 163).       *)
THEOREM AnswersAreRight == Spec => []RightAnswer
  <1>1. IInv => RightAnswer
    BY DEF IInv
  <1> QED
    BY <1>1, Invariance, PTL

(* No request carries an API id that an earlier connection obtained *)
(* (graphene.py:125-128, 136).                                      *)
THEOREM GrantsAreOwn == Spec => []OwnGrants
  <1>1. IInv => OwnGrants
    BY DEF IInv, Pending, OwnGrants
  <1> QED
    BY <1>1, Invariance, PTL

(* A call is handed to the protocol that the loop serves, or fails at once, *)
(* whenever the thread reconnects between the two look-ups of the caller    *)
(* (graphene.py:91-96, 209-233).                                            *)
THEOREM HandedToLive == Spec => []HandedToLiveProtocol
  <1>1. IInv => HandedToLiveProtocol
    <2> SUFFICES ASSUME IInv, NEW i \in DOMAIN queue
                 PROVE  queue[i].protocol = conn /\ protocol = conn /\ loop = conn
      BY DEF HandedToLiveProtocol
    <2>1. queue # <<>>
      OBVIOUS
    <2> QED
      BY <2>1 DEF IInv, HandedOver, Registered
  <1> QED
    BY <1>1, Invariance, PTL
=============================================================================
