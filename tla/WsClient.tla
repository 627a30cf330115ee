------------------------------ MODULE WsClient ------------------------------
(***************************************************************************)
(* The websocket client of bts_tools/graphene.py: run_monitoring(), the    *)
(* thread that connects to a witness and reconnects, MonitoringProtocol,   *)
(* whose callbacks run in the event loop of that thread, and               *)
(* ws_rpc_call(), which the other threads use to call through it.  They    *)
(* share two registries, _event_loops and _monitoring_protocols.           *)
(***************************************************************************)
EXTENDS Integers, Sequences

CONSTANTS Callers,         \* threads that call
          Structured,      \* those whose arguments are not all strings
          ApiOf,           \* the API each of them calls
          LookUps,         \* APIs asked for once connected, in order
          MaxConnections,  \* bound on the connections of a behaviour
          MaxCalls         \* bounds on the calls of each caller

Apis == {"database", "network"}

(* The words that tell the client's own requests, and what is no answer, from calls *)
Words == {"client", "returns", "raises", "waits"}

ASSUME WsAssumption ==
    /\ Callers \cap Words = {}
    /\ Structured \subseteq Callers
    /\ ApiOf \in [Callers -> Apis]
    /\ LookUps \in Seq(Apis)
    /\ MaxConnections \in Nat /\ MaxCalls \in [Callers -> Nat]

VARIABLES
    thread,     \* where run_monitoring() is
    conn,       \* number of its current turn, which names loop and protocol
    link,       \* the TCP connection of the protocol
    stopping,   \* loop.stop() was called in run_forever()
    loop,       \* the entry of _event_loops, 0 for none
    protocol,   \* the entry of _monitoring_protocols, 0 for none
    grants,     \* _ws_rpc_cache: the turn each API id was obtained in, or 0
    lastId,     \* request_id of the protocol
    requests,   \* request_map of the protocol: id -> who asked
    wire,       \* requests the witness has to answer
    queue,      \* callbacks handed to the loop
    at,         \* where each caller is
    calls,      \* how many calls each caller made
    seen,       \* the loop each caller looked up
    results,    \* the futures that were set
    outcome     \* what the last call of each caller came to

vars == <<thread, conn, link, stopping, loop, protocol, grants, lastId, requests, wire,
          queue, at, calls, seen, results, outcome>>

registry == <<loop, protocol>>
protocolVars == <<grants, lastId, requests, wire>>
callerVars == <<at, calls, seen, outcome>>

(* A dictionary with the entries of another one, and one of a single entry. *)
Updated(f, g) == [x \in DOMAIN f \cup DOMAIN g |-> IF x \in DOMAIN g THEN g[x] ELSE f[x]]
Only(x, y) == [z \in {x} |-> y]

(* What a request is for: the future of a call, or the client itself. *)
Futures == UNION {{c} \X (1..MaxCalls[c]) : c \in Callers}
LookUp(a) == <<"client", a>>
Login == <<"client", "login">>
Asked == Futures \cup {LookUp(a) : a \in Apis} \cup {Login}

(* A callback handed to a loop. *)
Callbacks == [future : Futures, protocol : 1..MaxConnections]

(* What a call comes to when it is not an answer. *)
NoResult == <<"returns", "None">>
Raised(e) == <<"raises", e>>
NotYet == <<"waits", "">>
Errors == {"RPCError", "KeyError", "RuntimeError", "TypeError"}
Outcomes == Asked \cup {NoResult, NotYet} \cup {Raised(e) : e \in Errors}

ThreadTypes ==
    /\ thread \in {"register", "connect", "joined", "forever", "close", "drop_protocol",
                   "drop_loop", "sleep"}
    /\ conn \in 0..MaxConnections
    /\ link \in {"none", "joined", "open", "dead"}
    /\ stopping \in BOOLEAN
    /\ loop \in 0..MaxConnections
    /\ protocol \in 0..MaxConnections
    /\ grants \in [Apis -> 0..MaxConnections]
    /\ lastId \in Nat
    /\ DOMAIN requests \subseteq 1..lastId
    /\ \A i \in DOMAIN requests : requests[i] \in Asked
    /\ wire \subseteq [id : 1..lastId, of : Asked, grant : 0..MaxConnections]
    /\ queue \in Seq(Callbacks)

CallerTypes ==
    /\ at \in [Callers -> {"idle", "looked_up", "waiting"}]
    /\ calls \in [Callers -> Nat] /\ \A c \in Callers : calls[c] <= MaxCalls[c]
    /\ seen \in [Callers -> 0..MaxConnections]
    /\ DOMAIN results \subseteq Futures
    /\ \A f \in DOMAIN results : results[f] \in Asked \cup {NoResult}
    /\ outcome \in [Callers -> Outcomes]

TypeOK == ThreadTypes /\ CallerTypes

Init ==
    /\ thread = "register"
    /\ conn = 0
    /\ link = "none"
    /\ stopping = FALSE
    /\ loop = 0
    /\ protocol = 0
    /\ grants = [a \in Apis |-> 0]
    /\ lastId = 0
    /\ requests = <<>>
    /\ wire = {}
    /\ queue = <<>>
    /\ at = [c \in Callers |-> "idle"]
    /\ calls = [c \in Callers |-> 0]
    /\ seen = [c \in Callers |-> 0]
    /\ results = <<>>
    /\ outcome = [c \in Callers |-> NotYet]
-----------------------------------------------------------------------------
(* run_monitoring() *)

Goto(from, to) == thread = from /\ thread' = to

(* A new event loop is created and registered; it has no protocol yet. *)
Register ==
    /\ Goto("register", "connect")
    /\ conn < MaxConnections
    /\ conn' = conn + 1
    /\ loop' = conn + 1
    /\ stopping' = FALSE
    /\ queue' = <<>>
    /\ UNCHANGED <<link, protocol, protocolVars, callerVars, results>>

(* OSError: nobody listens. *)
Refused ==
    /\ Goto("connect", "close")
    /\ UNCHANGED <<conn, link, stopping, registry, protocolVars, queue, callerVars, results>>

(* Mutant: the API ids of the previous connection are kept. *)
JoinKeepsGrants ==
    /\ Goto("connect", "joined")
    /\ link' = "joined"
    /\ protocol' = conn
    /\ grants' = [a \in Apis |-> IF \E i \in DOMAIN LookUps : LookUps[i] = a
                                 THEN grants[a] ELSE conn]
    /\ lastId' = 0
    /\ requests' = <<>>
    /\ wire' = {}
    /\ UNCHANGED <<conn, stopping, loop, queue, callerVars, results>>

(* Mutant: all protocols share one request_map. *)
JoinKeepsRequests ==
    /\ Goto("connect", "joined")
    /\ link' = "joined"
    /\ protocol' = conn
    /\ grants' = [a \in Apis |-> IF \E i \in DOMAIN LookUps : LookUps[i] = a
                                 THEN 0 ELSE conn]
    /\ lastId' = 0
    /\ wire' = {}
    /\ UNCHANGED <<conn, stopping, loop, requests, queue, callerVars, results>>

(* The witness accepts: the factory creates the protocol, which registers itself *)
(* and starts with the API ids that need no look-up.                             *)
Join ==
    /\ Goto("connect", "joined")
    /\ link' = "joined"
    /\ protocol' = conn
    /\ grants' = [a \in Apis |-> IF \E i \in DOMAIN LookUps : LookUps[i] = a
                                 THEN 0 ELSE conn]
    /\ lastId' = 0
    /\ requests' = <<>>
    /\ wire' = {}
    /\ UNCHANGED <<conn, stopping, loop, queue, callerVars, results>>

(* run_until_complete() returns and run_forever() begins. *)
RunForever ==
    /\ Goto("joined", "forever")
    /\ UNCHANGED <<conn, link, stopping, registry, protocolVars, queue, callerVars, results>>

(* run_forever() returns. *)
LoopStops ==
    /\ stopping
    /\ Goto("forever", "close")
    /\ UNCHANGED <<conn, link, stopping, registry, protocolVars, queue, callerVars, results>>

(* loop.close(): what was handed to the loop is never run. *)
CloseLoop ==
    /\ Goto("close", "drop_protocol")
    /\ link' = "none"
    /\ queue' = <<>>
    /\ UNCHANGED <<conn, stopping, registry, protocolVars, callerVars, results>>

(* Mutant: the protocol stays registered. *)
DropProtocolNever ==
    /\ Goto("drop_protocol", "drop_loop")
    /\ UNCHANGED <<conn, link, stopping, registry, protocolVars, queue, callerVars, results>>

(* Mutant: the KeyError of a protocol that never was is not suppressed. *)
DropProtocolStrict ==
    /\ protocol # 0
    /\ Goto("drop_protocol", "drop_loop")
    /\ protocol' = 0
    /\ UNCHANGED <<conn, link, stopping, loop, protocolVars, queue, callerVars, results>>

DropProtocol ==
    /\ Goto("drop_protocol", "drop_loop")
    /\ protocol' = 0
    /\ UNCHANGED <<conn, link, stopping, loop, protocolVars, queue, callerVars, results>>

DropLoop ==
    /\ Goto("drop_loop", "sleep")
    /\ loop' = 0
    /\ UNCHANGED <<conn, link, stopping, protocol, protocolVars, queue, callerVars, results>>

Sleep ==
    /\ Goto("sleep", "register")
    /\ UNCHANGED <<conn, link, stopping, registry, protocolVars, queue, callerVars, results>>

Thread ==
    \/ Register \/ RunForever \/ LoopStops \/ CloseLoop
    \/ DropProtocol \/ DropLoop \/ Sleep
    \/ Refused \/ Join
-----------------------------------------------------------------------------
(* MonitoringProtocol: the callbacks of the loop *)

LoopRuns == thread \in {"joined", "forever"}

(* Put in request_map, and sent if the connection is open, what is asked. *)
Request(asked, grant) ==
    /\ requests' = Updated(requests, Only(lastId', asked))
    /\ wire' = IF link = "open" THEN wire \cup {[id |-> lastId', of |-> asked, grant |-> grant]}
               ELSE wire

(* onConnect(): the handshake is done, log in and ask for the APIs. *)
OnConnect ==
    /\ LoopRuns
    /\ link = "joined"
    /\ link' = "open"
    /\ lastId' = lastId + 1 + Len(LookUps)
    /\ LET new == [i \in (lastId + 1)..lastId' |->
                      IF i = lastId + 1 THEN Login ELSE LookUp(LookUps[i - lastId - 1])]
       IN /\ requests' = Updated(requests, new)
          /\ wire' = wire \cup {[id |-> i, of |-> new[i], grant |-> conn] : i \in DOMAIN new}
    /\ UNCHANGED <<thread, conn, stopping, registry, grants, queue, callerVars, results>>

(* Mutant: the id of a request is the number of those pending. *)
RunCallReusesIds ==
    /\ LoopRuns
    /\ queue # <<>>
    /\ queue' = Tail(queue)
    /\ LET future == Head(queue).future
           grant == grants[ApiOf[future[1]]]
       IN IF grant = 0
          THEN UNCHANGED <<lastId, requests, wire>>
          ELSE /\ lastId' = IF requests = <<>> THEN 1 ELSE lastId
               /\ Request(future, grant)
    /\ UNCHANGED <<thread, conn, link, stopping, registry, grants, callerVars, results>>

(* rpc_call(): without a grant nothing is sent, and the future is never set. *)
RunCall ==
    /\ LoopRuns
    /\ queue # <<>>
    /\ queue' = Tail(queue)
    /\ lastId' = lastId + 1
    /\ LET future == Head(queue).future
           grant == grants[ApiOf[future[1]]]
       IN IF grant = 0 THEN UNCHANGED <<requests, wire>> ELSE Request(future, grant)
    /\ UNCHANGED <<thread, conn, link, stopping, registry, grants, callerVars, results>>

(* onMessage(): the witness answers one of the requests, with a result or without. *)
OnMessage ==
    /\ LoopRuns
    /\ link = "open"
    /\ \E m \in {r \in wire : r.id \in DOMAIN requests}, ok \in BOOLEAN :
         LET asked == requests[m.id]
         IN /\ wire' = wire \ {m}
            /\ requests' = [i \in DOMAIN requests \ {m.id} |-> requests[i]]
            /\ results' = IF asked \in Futures
                          THEN Updated(results, Only(asked, IF ok THEN m.of ELSE NoResult))
                          ELSE results
            /\ grants' = [a \in Apis |-> IF asked = LookUp(a) /\ ok THEN conn ELSE grants[a]]
    /\ UNCHANGED <<thread, conn, link, stopping, registry, lastId, queue, callerVars>>

(* connection_lost() stops the loop; when run_until_complete() still has the loop, *)
(* it is that call that returns, as it would have done anyway.                     *)
ConnectionLost ==
    /\ LoopRuns
    /\ link \in {"joined", "open"}
    /\ link' = "dead"
    /\ stopping' = (thread = "forever")
    /\ wire' = {}
    /\ UNCHANGED <<thread, conn, registry, grants, lastId, requests, queue, callerVars, results>>
-----------------------------------------------------------------------------
(* ws_rpc_call() *)

Returns(c, what) ==
    /\ at' = [at EXCEPT ![c] = "idle"]
    /\ outcome' = [outcome EXCEPT ![c] = what]

(* The loop is looked up. *)
StartCall(c) ==
    /\ at[c] = "idle"
    /\ calls[c] < MaxCalls[c]
    /\ calls' = [calls EXCEPT ![c] = @ + 1]
    /\ IF loop = 0
       THEN Returns(c, Raised("RPCError")) /\ UNCHANGED seen
       ELSE /\ at' = [at EXCEPT ![c] = "looked_up"]
            /\ seen' = [seen EXCEPT ![c] = loop]
            /\ outcome' = [outcome EXCEPT ![c] = NotYet]
    /\ UNCHANGED <<thread, conn, link, stopping, registry, protocolVars, queue, results>>

Closed(l) == l # conn \/ thread \in {"drop_protocol", "drop_loop", "sleep", "register"}

(* The protocol is looked up and its rpc_call() handed to the loop. *)
HandOver(c) ==
    /\ at[c] = "looked_up"
    /\ IF protocol # 0 /\ ~Closed(seen[c])
       THEN /\ queue' = Append(queue, [future |-> <<c, calls[c]>>, protocol |-> protocol])
            /\ at' = [at EXCEPT ![c] = "waiting"]
            /\ UNCHANGED outcome
       ELSE /\ Returns(c, Raised(IF protocol = 0 THEN "KeyError" ELSE "RuntimeError"))
            /\ UNCHANGED queue
    /\ UNCHANGED <<thread, conn, link, stopping, registry, protocolVars, calls, seen, results>>

GetResult(c) ==
    /\ at[c] = "waiting"
    /\ <<c, calls[c]>> \in DOMAIN results
    /\ Returns(c, results[<<c, calls[c]>>])
    /\ UNCHANGED <<thread, conn, link, stopping, registry, protocolVars, queue, calls, seen,
                   results>>

(* Ten seconds went by; joining the arguments for the log may raise. *)
Timeout(c) ==
    /\ at[c] = "waiting"
    /\ <<c, calls[c]>> \notin DOMAIN results
    /\ Returns(c, IF c \in Structured THEN Raised("TypeError") ELSE NoResult)
    /\ UNCHANGED <<thread, conn, link, stopping, registry, protocolVars, queue, calls, seen,
                   results>>

(* The callers made all their calls, and the thread all its turns or waits for *)
(* ever in a loop that has lost its connection.                                *)
Exhausted ==
    /\ \A c \in Callers : at[c] = "idle" /\ calls[c] = MaxCalls[c]
    /\ \/ thread = "register" /\ conn = MaxConnections
       \/ thread = "forever" /\ link = "dead" /\ ~stopping
    /\ UNCHANGED vars

Next ==
    \/ Thread
    \/ OnConnect \/ RunCall \/ OnMessage \/ ConnectionLost
    \/ \E c \in Callers : StartCall(c) \/ HandOver(c) \/ GetResult(c) \/ Timeout(c)
    \/ Exhausted

Spec == Init /\ [][Next]_vars

(* The thread is scheduled again and again: it only blocks in run_forever(). *)
FairSpec == Spec /\ WF_vars(Thread)
-----------------------------------------------------------------------------
(* A caller only ever gets the answer to the request it just made: not to one that *)
(* it gave up before, nor to that of another thread, although the ids start again  *)
(* from 1 with every connection (graphene.py:122, 133, 163).                       *)
RightAnswer ==
    \A c \in Callers : outcome[c] \in Asked => outcome[c] = <<c, calls[c]>>

(* An API is called with an id that the same connection obtained for it: the ids  *)
(* are dropped with the connection (graphene.py:125-128, 136).                     *)
OwnGrants == \A m \in wire : m.grant = conn

(* A caller looks up the loop and then the protocol, and the thread may reconnect  *)
(* in between: whatever it finds, the call fails at once or is handed to a protocol*)
(* whose connection the loop serves (graphene.py:91-96, 209-233).                  *)
HandedToLiveProtocol ==
    \A i \in DOMAIN queue : queue[i].protocol = conn /\ protocol = conn /\ loop = conn

(* A witness that refuses the connection, or is lost while the loop runs for ever, *)
(* is tried again (graphene.py:226-236).                                           *)
Reconnects ==
    /\ thread = "close" /\ conn < MaxConnections ~> thread = "connect"
    /\ stopping /\ conn < MaxConnections ~> thread = "connect"
==============================================================================
