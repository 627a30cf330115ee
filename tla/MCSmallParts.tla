---------------------------- MODULE MCSmallParts ----------------------------
(* Four small parts that share a run: a StableStateMonitor, the crawler of seed   *)
(* nodes, the reconnection to the backbone and the samples of the plots.  They do *)
(* not interact; a behaviour is one of one of them.                               *)
EXTENDS StableMonitor

CONSTANTS Seeds, Statuses, Hosts, Self, Periods, MaxLen, TimeSpans

VARIABLES
    part,  \* the one that runs
    crawlerAt, round, past, shown, lastSeen,
    period, loopAt, connected, age, old, todo, quiet, excused, trouble,
    desired, loopIndex, stats, sparse

crawlerVars == <<crawlerAt, round, past, shown, lastSeen>>
reconnectionVars == <<period, loopAt, connected, age, old, todo, quiet, excused, trouble>>
samplesVars == <<desired, loopIndex, stats, sparse>>
partsVars == <<part, m, crawlerVars, reconnectionVars, samplesVars>>

Crawl == INSTANCE SeedNodes WITH at <- crawlerAt
Loop == INSTANCE Backbone WITH at <- loopAt
Samples == INSTANCE CpuStats

ASSUME PartsAssumption ==
    Crawl!SeedsAssumption /\ Loop!BackboneAssumption /\ Samples!StatsAssumption

PartsInit ==
    /\ part \in {"monitor", "crawler", "reconnection", "samples"}
    /\ Init /\ Crawl!Init /\ Loop!Init /\ Samples!Init
    /\ part # "reconnection" => period = CHOOSE p \in Periods : TRUE
    /\ part # "samples" => desired = CHOOSE d \in TimeSpans : TRUE

MonitorRuns ==
    /\ part = "monitor" /\ Next
    /\ UNCHANGED <<part, crawlerVars, reconnectionVars, samplesVars>>

CrawlerRuns ==
    /\ part = "crawler" /\ Crawl!Next
    /\ UNCHANGED <<part, m, reconnectionVars, samplesVars>>

ReconnectionRuns ==
    /\ part = "reconnection" /\ Loop!Next
    /\ UNCHANGED <<part, m, crawlerVars, samplesVars>>

SamplesRun ==
    /\ part = "samples" /\ Samples!Next
    /\ UNCHANGED <<part, m, crawlerVars, reconnectionVars>>

PartsNext == MonitorRuns \/ CrawlerRuns \/ ReconnectionRuns \/ SamplesRun

(* The fairness of each part, while it is the one that runs. *)
PartsSpec ==
    /\ PartsInit
    /\ [][PartsNext]_partsVars
    /\ WF_crawlerVars(part = "crawler" /\ Crawl!Crawler)
    /\ WF_reconnectionVars(part = "reconnection" /\ Loop!Thread)
-----------------------------------------------------------------------------
(* The types of the parts: among them, the length of the history of seednodes.py:212 *)
(* and of the samples of cpu_ram_usage.py:49, and that samples are in order of time. *)
PartsTypeOK == Crawl!TypeOK /\ Loop!TypeOK /\ Samples!TypeOK

(* A seed is shown online exactly when one of its last three probes found it so,  *)
(* late answers included (seednodes.py:190-193, 209, 221-231).                    *)
ShownAsSeen == Crawl!ShownAsSeen

(* A probe that never ends does not stop the rounds (seednodes.py:202-203). *)
RoundsGoOn == part = "crawler" => Crawl!RoundsGoOn

(* A host is not tried again before the period has gone by, but for what loses its *)
(* age (monitoring/backbone.py:36-42).                                             *)
RateLimited == Loop!RateLimited

(* A host that stays away is tried for ever (monitoring/backbone.py:36-42). *)
KeepsTrying == part = "reconnection" => Loop!KeepsTrying

(* The decimated samples span the time asked for (cpu_ram_usage.py:97-103). *)
SpanAsAsked == Samples!SpanAsAsked
=============================================================================
