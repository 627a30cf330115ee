------------------------------- MODULE RpcCache -------------------------------
(***************************************************************************)
(* The cache of RPC results of bts_tools/rpcutils.py, for the nodes that   *)
(* share one wallet, as the threads of the program use it: the monitoring  *)
(* thread drops the cache at the start of every iteration and each view    *)
(* before it renders, the feed threads never do.  There is no lock, so     *)
(* another thread may run between any two steps of rpc_call().  A step     *)
(* looks up _rpc_cache once: what it then does to a dictionary that was    *)
(* deleted meanwhile is as if done before the deletion.                    *)
(***************************************************************************)
EXTENDS Integers

CONSTANTS Threads,
          Clearing,              \* the threads that drop the cache first
          Methods,               \* the calls made, with their arguments
          NON_CACHEABLE_METHODS,
          MaxRounds,             \* bound on the iterations or views of each thread
          MaxCalls,              \* bound on its calls in one of them
          MaxVersion             \* bound on the changes of the client

ASSUME CacheAssumption ==
    /\ Clearing \subseteq Threads
    /\ Methods # {} /\ NON_CACHEABLE_METHODS \subseteq Methods
    /\ MaxRounds \in [Threads -> Nat] /\ MaxCalls \in [Threads -> Nat] /\ MaxVersion \in Nat

VARIABLES
    version,    \* what the client would answer now
    cache,      \* _rpc_cache[rpc_id]
    at,         \* the step of rpc_call() each thread is at
    method,     \* its funcname and args
    answer,     \* what the call returns or raises
    rounds,     \* number of iterations or views it began
    calls,      \* number of calls it made in this one
    asked,      \* history: how often the client was asked in this one
    oldest,     \* history: the oldest answer on its way when it dropped the cache
    disturbed   \* history: another thread dropped the cache since it began this one

vars == <<version, cache, at, method, answer, rounds, calls, asked, oldest, disturbed>>

clientVars == <<rounds, calls, oldest>>

Answers == [version : 0..MaxVersion, raised : BOOLEAN]
Nothing == [version |-> 0, raised |-> FALSE, missing |-> FALSE]
KeyError == [version |-> 0, raised |-> TRUE, missing |-> TRUE]

Served(a) == [version |-> a.version, raised |-> a.raised, missing |-> FALSE]

(* Mutant: no method is excepted. *)
CacheableAll == Methods

Cacheable == Methods \ NON_CACHEABLE_METHODS

TypeOK ==
    /\ version \in 0..MaxVersion
    /\ DOMAIN cache \subseteq Methods \ NON_CACHEABLE_METHODS
    /\ \A m \in DOMAIN cache : cache[m] \in Answers
    /\ at \in [Threads -> {"idle", "lookup", "read", "ask", "store", "returned"}]
    /\ method \in [Threads -> Methods]
    /\ answer \in [Threads -> [version : 0..MaxVersion, raised : BOOLEAN, missing : BOOLEAN]]
    /\ \A t \in Threads : rounds[t] \in 0..MaxRounds[t] /\ calls[t] \in 0..MaxCalls[t]
    /\ asked \in [Threads -> [Methods -> Nat]]
    /\ oldest \in [Threads -> 0..MaxVersion]
    /\ disturbed \in [Threads -> BOOLEAN]

Init ==
    /\ version = 0
    /\ cache = [m \in {} |-> 0]
    /\ at = [t \in Threads |-> "idle"]
    /\ method \in [Threads -> {CHOOSE m \in Methods : TRUE}]
    /\ answer = [t \in Threads |-> Nothing]
    /\ rounds = [t \in Threads |-> 0]
    /\ calls = [t \in Threads |-> 0]
    /\ asked = [t \in Threads |-> [m \in Methods |-> 0]]
    /\ oldest = [t \in Threads |-> 0]
    /\ disturbed = [t \in Threads |-> FALSE]
-----------------------------------------------------------------------------
Goto(t, step) == at' = [at EXCEPT ![t] = step]

With(m, a) == [k \in DOMAIN cache \cup {m} |-> IF k = m THEN a ELSE cache[k]]

(* Mutant: the exceptions of the client outlive the deletion. *)
ClearedResults == [m \in {k \in DOMAIN cache : cache[k].raised} |-> cache[m]]

(* clear_rpc_cache(): every result and every exception goes. *)
Cleared == [m \in {} |-> 0]

(* Answers the client has given that are not in the cache yet. *)
OnTheirWay == {answer[t].version : t \in {u \in Threads : at[u] = "store"}}

(* An iteration of the monitoring thread, a view or a check of the feeds begins. *)
BeginRound(t) ==
    /\ at[t] = "idle" /\ rounds[t] < MaxRounds[t]
    /\ rounds' = [rounds EXCEPT ![t] = @ + 1]
    /\ calls' = [calls EXCEPT ![t] = 0]
    /\ asked' = [asked EXCEPT ![t] = [m \in Methods |-> 0]]
    /\ IF t \in Clearing
       THEN /\ cache' = Cleared
            /\ \E v \in {version} \cup OnTheirWay :
                  /\ \A w \in {version} \cup OnTheirWay : v <= w
                  /\ oldest' = [oldest EXCEPT ![t] = v]
            /\ disturbed' = [u \in Threads |-> u # t]
       ELSE /\ disturbed' = [disturbed EXCEPT ![t] = FALSE]
            /\ UNCHANGED <<cache, oldest>>
    /\ UNCHANGED <<version, at, method, answer>>

(* rpc_call() is entered: some methods go to the client every time. *)
StartCall(t, m) ==
    /\ at[t] = "idle" /\ rounds[t] > 0 /\ calls[t] < MaxCalls[t]
    /\ method' = [method EXCEPT ![t] = m]
    /\ calls' = [calls EXCEPT ![t] = @ + 1]
    /\ Goto(t, IF m \in Cacheable THEN "lookup" ELSE "ask")
    /\ UNCHANGED <<version, cache, answer, rounds, asked, oldest, disturbed>>

(* if (funcname, args) in _rpc_cache[self.rpc_id] *)
Lookup(t) ==
    /\ at[t] = "lookup"
    /\ Goto(t, IF method[t] \in DOMAIN cache THEN "read" ELSE "ask")
    /\ UNCHANGED <<version, cache, method, answer, asked, disturbed, clientVars>>

(* result = _rpc_cache[self.rpc_id][(funcname, args)], which another thread may *)
(* have deleted since.                                                          *)
Read(t) ==
    /\ at[t] = "read"
    /\ answer' = [answer EXCEPT ![t] =
           IF method[t] \in DOMAIN cache THEN Served(cache[method[t]]) ELSE KeyError]
    /\ Goto(t, "returned")
    /\ UNCHANGED <<version, cache, method, asked, disturbed, clientVars>>

(* The client, or its proxy, is asked: it answers, or an exception is raised. *)
Ask(t) ==
    /\ at[t] = "ask"
    /\ \E raised \in BOOLEAN :
           answer' = [answer EXCEPT ![t] = Served([version |-> version, raised |-> raised])]
    /\ asked' = [asked EXCEPT ![t][method[t]] = @ + 1]
    /\ Goto(t, IF method[t] \in Cacheable THEN "store" ELSE "returned")
    /\ UNCHANGED <<version, cache, method, disturbed, clientVars>>

Kept(a) == [version |-> a.version, raised |-> a.raised]

(* Mutant: an exception is not cached, so the next call asks again. *)
StoreResults(t) ==
    /\ at[t] = "store"
    /\ cache' = IF answer[t].raised THEN cache ELSE With(method[t], Kept(answer[t]))
    /\ Goto(t, "returned")
    /\ UNCHANGED <<version, method, answer, asked, disturbed, clientVars>>

(* The result or the exception is added to the cache. *)
Store(t) ==
    /\ at[t] = "store"
    /\ cache' = With(method[t], Kept(answer[t]))
    /\ Goto(t, "returned")
    /\ UNCHANGED <<version, method, answer, asked, disturbed, clientVars>>

(* The caller uses what it got. *)
Return(t) ==
    /\ at[t] = "returned"
    /\ Goto(t, "idle")
    /\ answer' = [answer EXCEPT ![t] = Nothing]
    /\ UNCHANGED <<version, cache, method, asked, disturbed, clientVars>>

(* The client goes on: a block, a restart. *)
Change ==
    /\ version < MaxVersion
    /\ version' = version + 1
    /\ UNCHANGED <<cache, at, method, answer, asked, disturbed, clientVars>>

Next ==
    \/ Change
    \/ \E t \in Threads :
         \/ BeginRound(t) \/ Lookup(t) \/ Read(t) \/ Ask(t) \/ Store(t) \/ Return(t)
         \/ \E m \in Methods : StartCall(t, m)

Spec == Init /\ [][Next]_vars
-----------------------------------------------------------------------------
(* An iteration or a view that dropped the cache is never told anything the       *)
(* client said before, but for what it had said to threads that had not put it in *)
(* the cache yet: how stale a decision of the monitoring thread may be although   *)
(* it drops the cache (monitor.py:184) is bounded by one call in progress.        *)
Fresh ==
    \A t \in Clearing :
        at[t] = "returned" /\ ~answer[t].missing => answer[t].version >= oldest[t]

(* "this allows to ensure we only perform a given rpc call once with a given set  *)
(* of args, no matter how many times we call it from the view" (views.py:104-105):*)
(* so it is, failing calls included, unless another thread drops the cache.       *)
AskedOnce ==
    \A t \in Threads : ~disturbed[t] => \A m \in Cacheable : asked[t][m] <= 1
=============================================================================
