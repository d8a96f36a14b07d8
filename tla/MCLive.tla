------------------------------- MODULE MCLive -------------------------------
(***************************************************************************)
(* What must eventually happen in a node's background loops: the helper's  *)
(* maintenance and the refresher of the admin server's cached config.      *)
(* They share no state, so a behaviour runs one of them, chosen at the     *)
(* start, and the other rests.                                             *)
(***************************************************************************)
EXTENDS HelperQueue, ConfigCache

CONSTANT s1

VARIABLE part

OneRound == [k \in Shares |-> 1]

MCInit ==
    /\ part \in {"helper", "cache"}
    /\ Init
    /\ IF part = "cache" THEN CacheInit ELSE CacheStart(TRUE)

MCNext ==
    \/ part = "helper" /\ Next /\ UNCHANGED <<part, cacheVars>>
    \/ part = "cache" /\ CacheNext /\ UNCHANGED <<part, vars>>

Helper(A) == part = "helper" /\ A
Cache(A)  == part = "cache" /\ A

\* The process is restarted and its goroutines are scheduled, the chain makes
\* blocks and time passes.  Nothing forces errors, crashes, requests or imports.
HelperFairness ==
    /\ WF_vars(Helper(TakeReadyBatch))
    /\ \A w \in Workers : WF_vars(Helper(Attempt(w)))
    /\ WF_vars(Helper(MaintenanceTick))
    /\ WF_vars(Helper(CleanupClosedRounds))
    /\ WF_vars(Helper(PurgeRounds))
    /\ WF_vars(Helper(Start))
    /\ WF_vars(Helper(Tick))
    /\ WF_vars(Helper(Block))

\* A stopped server is started again, the ticker fires while it runs, a fetch
\* returns (the HTTP client gives up after ten seconds), and a CDN that is asked
\* again and again does not fail every time.
CacheFairness ==
    /\ WF_cacheVars(Cache(StartServer))
    /\ WF_cacheVars(Cache(RefresherTick))
    /\ SF_cacheVars(Cache(FetchStatic(Refresher)))
    /\ SF_cacheVars(Cache(FetchDynamic(Refresher)))
    /\ WF_cacheVars(Cache(StoreConfig(Refresher)))
    /\ \A g \in Getters :
          WF_cacheVars(Cache(FetchStatic(g) \/ FetchDynamic(g) \/ StoreConfig(g) \/ RefreshFails(g)))

\* CacheCatchesUp, where the cache steps: the proxied config is the published
\* one again and again (RunConfigRefresher, GetVotingConfig).
ConfigCatchesUp == part = "cache" => CacheCatchesUp

MCSpec ==
    MCInit /\ [][MCNext]_<<part, vars, cacheVars>> /\ HelperFairness /\ CacheFairness

=============================================================================
