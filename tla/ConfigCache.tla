---------------------------- MODULE ConfigCache -----------------------------
(***************************************************************************)
(* The voting config that an admin server proxies: New fetches it before   *)
(* the server is reachable, a ticker fetches it again every minute, and a  *)
(* request that finds nothing cached fetches it too.  Fetches overlap; the *)
(* mutex guards the pointer, not the fetch.                                *)
(***************************************************************************)
EXTENDS Integers

CONSTANTS
    Getters,        \* invocations of GET /api/voting-config
    MaxVersion,     \* bound: versions of the config on the CDN
    MaxBoots        \* bound: process starts

VARIABLES
    phase,      \* "down", "starting" (inside New) or "up" (after SetAdmin)
    boots,      \* how often the process has been started
    linked,     \* the static file names a dynamic one
    published,  \* version of the config on the CDN
    cached,     \* version in a.cached, 0 when it is nil
    fetch       \* refresher and getters |-> [pc, got]

cacheVars == <<phase, boots, linked, published, cached, fetch>>

Refresher == "refresher"
Fetchers  == Getters \cup {Refresher}
Resting   == [pc |-> "idle", got |-> 0]
Finished  == [pc |-> "done", got |-> 0]

\* What follows a refresh: the ticker's loop goes round, a handler has answered.
AfterRefresh(f) == IF f = Refresher THEN Resting ELSE Finished

\* New returns after its refresh, however that went, and SetAdmin follows.
PhaseAfter(f) == IF f = Refresher /\ phase = "starting" THEN "up" ELSE phase

StartServer ==
    /\ phase = "down"
    /\ phase' = "starting"
    /\ boots' = boots + 1
    /\ fetch' = [fetch EXCEPT ![Refresher] = [pc |-> "static", got |-> 0]]
    /\ UNCHANGED <<linked, published, cached>>

StopServer ==
    /\ phase # "down"
    /\ boots < MaxBoots
    /\ phase' = "down"
    /\ cached' = 0
    /\ fetch' = [f \in Fetchers |-> IF fetch[f] = Resting THEN Resting ELSE AfterRefresh(f)]
    /\ UNCHANGED <<boots, linked, published>>

\* RunConfigRefresher's tick.
RefresherTick ==
    /\ phase = "up"
    /\ fetch[Refresher] = Resting
    /\ fetch' = [fetch EXCEPT ![Refresher].pc = "static"]
    /\ UNCHANGED <<phase, boots, linked, published, cached>>

\* A cached config is returned as it is; without one the handler refreshes.
GetVotingConfig(g) ==
    /\ phase = "up"
    /\ fetch[g] = Resting
    /\ fetch' = [fetch EXCEPT ![g] = IF cached # 0 THEN Finished
                                     ELSE [pc |-> "static", got |-> 0]]
    /\ UNCHANGED <<phase, boots, linked, published, cached>>

\* A static file that names no dynamic one is itself decoded as the config.
FetchStatic(f) ==
    /\ fetch[f].pc = "static"
    /\ fetch' = [fetch EXCEPT ![f] = IF linked THEN [pc |-> "dynamic", got |-> 0]
                                     ELSE [pc |-> "store", got |-> published]]
    /\ UNCHANGED <<phase, boots, linked, published, cached>>

FetchDynamic(f) ==
    /\ fetch[f].pc = "dynamic"
    /\ fetch' = [fetch EXCEPT ![f] = [pc |-> "store", got |-> published]]
    /\ UNCHANGED <<phase, boots, linked, published, cached>>

\* Mutant: only an empty cache is filled.
StoreOnce(f) ==
    /\ fetch[f].pc = "store"
    /\ cached' = IF cached = 0 THEN fetch[f].got ELSE cached
    /\ fetch' = [fetch EXCEPT ![f] = AfterRefresh(f)]
    /\ phase' = PhaseAfter(f)
    /\ UNCHANGED <<boots, linked, published>>

\* a.cached is replaced, even by an older version than it holds.
StoreConfig(f) ==
    /\ fetch[f].pc = "store"
    /\ cached' = fetch[f].got
    /\ fetch' = [fetch EXCEPT ![f] = AfterRefresh(f)]
    /\ phase' = PhaseAfter(f)
    /\ UNCHANGED <<boots, linked, published>>

\* A transport error, a status other than 200, or a body that does not decode:
\* logged by New and by the refresher, answered with 502 by a handler.
RefreshFails(f) ==
    /\ fetch[f].pc \in {"static", "dynamic"}
    /\ fetch' = [fetch EXCEPT ![f] = AfterRefresh(f)]
    /\ phase' = PhaseAfter(f)
    /\ UNCHANGED <<boots, linked, published, cached>>

Publish ==
    /\ published < MaxVersion
    /\ published' = published + 1
    /\ UNCHANGED <<phase, boots, linked, cached, fetch>>

CacheStart(link) ==
    /\ phase = "down"
    /\ boots = 0
    /\ linked = link
    /\ published = 1
    /\ cached = 0
    /\ fetch = [f \in Fetchers |-> Resting]

CacheInit == \E link \in BOOLEAN : CacheStart(link)

CacheNext ==
    \/ StartServer
    \/ StopServer
    \/ RefresherTick
    \/ \E g \in Getters : GetVotingConfig(g)
    \/ \E f \in Fetchers : FetchStatic(f)
    \/ \E f \in Fetchers : FetchDynamic(f)
    \/ \E f \in Fetchers : StoreConfig(f)
    \/ \E f \in Fetchers : RefreshFails(f)
    \/ Publish

-----------------------------------------------------------------------------
(* Property *)

\* The proxied config is the published one again and again: failed fetches, a
\* failed first fetch inside New, restarts, and a getter that stores late what it
\* fetched early only delay it.
CacheCatchesUp == []<>(cached = published)

=============================================================================
