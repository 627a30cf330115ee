------------------------------ MODULE Backbone ------------------------------
(***************************************************************************)
(* The reconnection to the backbone: reconnect_backbone() of               *)
(* bts_tools/monitoring/backbone.py, which backbone nodes and, through     *)
(* prefer_backbone_exclusively.py, witnesses run in every iteration of     *)
(* their monitoring thread, and the list of nodes it works on, from        *)
(* bts_tools/backbone.py.  A node that is missing is tried again every     *)
(* WAIT_RECONNECT seconds only.  An age is only looked at modulo that      *)
(* period, and is kept so.                                                 *)
(***************************************************************************)
EXTENDS Integers

CONSTANTS Hosts,    \* the configured backbone nodes
          Self,     \* this node, which may be one of them
          Periods   \* values of the period, in iterations

BackboneAssumption == Periods \subseteq Nat

VARIABLES
    period,     \* WAIT_RECONNECT // monitor_time_interval
    at,         \* "idle" between two iterations, else "looping"
    connected,  \* the peers of the node
    age,        \* ctx.node_connect_age
    old,        \* old_node_connect_age
    todo,       \* the hosts that the loop has yet to come to
    quiet,      \* history: iterations since the last attempt, at most the period
    excused,    \* history: hosts whose age was given up, and since when they were not tried
    trouble     \* history: a call of the current iteration failed

vars == <<period, at, connected, age, old, todo, quiet, excused, trouble>>

NoAge == -1

TypeOK ==
    /\ period \in Periods
    /\ at \in {"idle", "looping"}
    /\ connected \subseteq Hosts
    /\ age \in [Hosts -> NoAge..period] /\ old \in [Hosts -> NoAge..period]
    /\ todo \subseteq Hosts
    /\ quiet \in [Hosts -> 0..period]
    /\ excused \subseteq Hosts
    /\ trouble \in BOOLEAN

Init ==
    /\ period \in Periods
    /\ at = "idle"
    /\ connected = {}
    /\ age = [h \in Hosts |-> NoAge]
    /\ old = [h \in Hosts |-> NoAge]
    /\ todo = {}
    /\ quiet = [h \in Hosts |-> period]
    /\ excused = {}
    /\ trouble = FALSE
-----------------------------------------------------------------------------
(* Peers come and go. *)
PeerChanges(h) ==
    /\ connected' = IF h \in connected THEN connected \ {h} ELSE connected \cup {h}
    /\ UNCHANGED <<period, at, age, old, todo, quiet, excused, trouble>>

(* non_connected_node_list(): the node itself is left out once it knows its port; *)
(* nothing is left when a name cannot be resolved or the peers are not told.      *)
Listed(list, failed) ==
    \/ failed /\ list = {}
    \/ ~failed /\ list \in {Hosts \ connected, Hosts \ (connected \cup {Self})}

NoAges == [h \in Hosts |-> NoAge]

(* Mutant: the ages are dropped before they are put aside. *)
AgesAlreadyDropped == NoAges

AgesPutAside == age

(* An iteration: the ages of the last one are put aside, and hosts that are not *)
(* listed lose theirs.                                                          *)
Begin ==
    /\ at = "idle"
    /\ \E failed \in BOOLEAN, list \in SUBSET Hosts :
         /\ Listed(list, failed)
         /\ todo' = list
         /\ trouble' = failed
         /\ excused' = excused \cup (Hosts \ list)
    /\ old' = AgesPutAside
    /\ age' = NoAges
    /\ quiet' = [h \in Hosts |-> IF quiet[h] < period THEN quiet[h] + 1 ELSE period]
    /\ at' = "looping"
    /\ UNCHANGED <<period, connected>>

(* Mutant: the age is compared with 0, not its remainder. *)
AgeWithoutRemainder(h) == IF old[h] >= period THEN period ELSE old[h] + 1

NextAge(h) == IF old[h] + 1 >= period THEN 0 ELSE old[h] + 1

(* An exception ends the loop: the hosts it had not come to lose their ages. *)
Raises(h) ==
    /\ at' = "idle" /\ trouble' = TRUE
    /\ todo' = {}
    /\ excused' = (excused \ {h}) \cup (todo \ {h})

(* The next host of the list ages; when the period has gone by since it was tried,  *)
(* the client is told to connect to it, which may raise.  A period of 0 raises.     *)
Visit(h) ==
    /\ at = "looping" /\ h \in todo
    /\ age' = [age EXCEPT ![h] = NextAge(h)]
    /\ IF period = 0 THEN Raises(h) /\ UNCHANGED quiet
       ELSE IF NextAge(h) # 0
       THEN /\ todo' = todo \ {h}
            /\ UNCHANGED <<at, quiet, excused, trouble>>
       ELSE /\ quiet' = [quiet EXCEPT ![h] = 0]
            /\ \/ Raises(h)
               \/ /\ todo' = todo \ {h}
                  /\ excused' = excused \ {h}
                  /\ UNCHANGED <<at, trouble>>
    /\ UNCHANGED <<period, connected, old>>

(* The loop is over. *)
End ==
    /\ at = "looping" /\ todo = {}
    /\ at' = "idle"
    /\ UNCHANGED <<period, connected, age, old, todo, quiet, excused, trouble>>

Thread == Begin \/ End \/ \E h \in Hosts : Visit(h)

Next == Thread \/ \E h \in Hosts : PeerChanges(h)

Spec == Init /\ [][Next]_vars

(* The loop of the monitoring thread. *)
FairSpec == Spec /\ WF_vars(Thread)
-----------------------------------------------------------------------------
(* "rate limiting to avoid hammering the server" (backbone.py:38): a host is tried  *)
(* again after the period, unless its age was given up since it was tried, because  *)
(* it was not listed (it was connected, or the list could not be had) or because    *)
(* an exception ended the loop before it.                                           *)
RateLimited ==
    [][\A h \in Hosts : quiet'[h] < quiet[h] => quiet[h] = period \/ h \in excused]_vars

(* A host that stays away is tried again and again as long as no call fails, in     *)
(* whatever order the set of hosts is gone through.                                 *)
KeepsTrying ==
    \A h \in Hosts \ {Self} :
        <>[](h \notin connected /\ ~trouble) => []<>(quiet[h] = 0)
=============================================================================
