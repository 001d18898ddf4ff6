------------------------------ MODULE DataLake ------------------------------
(***************************************************************************)
(* The history of one symbol and timeframe: MarketDataPipeline over the    *)
(* parquet file of ParquetStorage and the MemoryCache, and FeaturePipeline *)
(* over both, with the parquet file of FeatureStore and the FeatureCache.  *)
(* Only what lies after the last stored timestamp is fetched ("delta       *)
(* sync").  The process may die at any time, also while it writes a file.  *)
(*                                                                         *)
(* Time is counted in bars.  A store maps each to "none", or to the state  *)
(* of the bar it was taken from: "forming" until its period has passed,    *)
(* then "closed".  A feature row is as good as the bar it describes.       *)
(***************************************************************************)
EXTENDS Integers

CONSTANTS Horizon,    \* the last bar (bound)
          Requests    \* the pairs <<start, end>> callers ask for

ASSUME HorizonAssumption == Horizon \in Nat \ {0}
Times == 1..Horizon
ASSUME RequestsAssumption == Requests \subseteq {r \in Times \X Times : r[1] <= r[2]}

VARIABLES now,           \* the bar being formed at the exchange
          lake,          \* the stored bars
          lakeTorn,      \* the process died while it wrote them
          cache,         \* MemoryCache: requests already answered
          features,      \* the stored feature rows
          featuresTorn,
          featureCache,  \* the one answer the FeatureCache keeps per symbol
          \* history
          withheld,      \* bars the provider was asked for and did not give
          apart,         \* a fetch started after the last stored bar
          featuresApart  \* a computation started after the last stored row

lakeVars == <<now, lake, lakeTorn, cache, features, featuresTorn, featureCache, withheld,
              apart, featuresApart>>

Kinds == {"none", "forming", "closed"}
Stores == [Times -> Kinds]
Empty == [t \in Times |-> "none"]
Held(store) == {t \in Times : store[t] # "none"}

\* get_latest_timestamp; 0 stands for None.
Latest(store) ==
    IF Held(store) = {} THEN 0
    ELSE CHOOSE t \in Held(store) : \A u \in Held(store) : u <= t

\* [b for b in full_history if start <= b.timestamp <= end]
Window(store, s, e) == [t \in Times |-> IF s <= t /\ t <= e THEN store[t] ELSE "none"]

\* Slip: keep=False, neither row of a duplicate.
MergeNeither(old, new) ==
    [t \in Times |-> IF new[t] = "none" THEN old[t]
                     ELSE IF old[t] = "none" THEN new[t] ELSE "none"]

\* Slip: keep='first'.
MergeFirst(old, new) == [t \in Times |-> IF old[t] # "none" THEN old[t] ELSE new[t]]

\* drop_duplicates(keep='last'): what is new replaces what was stored.
Merge(old, new) == [t \in Times |-> IF new[t] # "none" THEN new[t] ELSE old[t]]

LakeInit ==
    /\ now = 1
    /\ lake = Empty /\ lakeTorn = FALSE /\ cache = <<>>
    /\ features = Empty /\ featuresTorn = FALSE /\ featureCache = Empty
    /\ withheld = {} /\ apart = FALSE /\ featuresApart = FALSE
-----------------------------------------------------------------------------
\* The start of what must be asked for: the last stored time, when it lies
\* after the start of the request.
DeltaStart(store, s) == IF Latest(store) > s THEN Latest(store) ELSE s

\* External: the bars of a period the provider answers with, any of those that
\* exist, in order and without duplicates (it raises, or the validator does,
\* otherwise, and nothing happens).
Asked(d, e) == {t \in Times : d <= t /\ t <= e /\ t <= now}

Quoted(given) ==
    [t \in Times |-> IF t \notin given THEN "none" ELSE IF t < now THEN "closed" ELSE "forming"]

Cached(s, e, useCache) == useCache /\ <<s, e>> \in DOMAIN cache

\* fetch_ohlcv without its cache: the stored history is extended.  A failed
\* save is logged and the stored history answers.
Sync(s, e) ==
    /\ ~lakeTorn
    /\ IF Latest(lake) >= e
       THEN UNCHANGED <<lake, withheld, apart>>
       ELSE LET asked == Asked(DeltaStart(lake, s), e) IN
            \E given \in SUBSET asked, written \in BOOLEAN :
                /\ lake' = IF written THEN Merge(lake, Quoted(given)) ELSE lake
                /\ withheld' = withheld \cup (asked \ given)
                /\ apart' = (apart \/ (Latest(lake) # 0 /\ s > Latest(lake)))

\* fetch_ohlcv.  The answer goes with the step: what the cache held, or the
\* period of the stored history as it is afterwards.
Fetch(s, e, useCache) ==
    IF Cached(s, e, useCache) THEN UNCHANGED <<lake, cache, withheld, apart>>
    ELSE /\ Sync(s, e)
         /\ cache' = LET bars == Window(lake', s, e) IN
                     IF useCache /\ Held(bars) # {}
                     THEN [r \in DOMAIN cache \cup {<<s, e>>} |->
                              IF r = <<s, e>> THEN bars ELSE cache[r]]
                     ELSE cache
Answer(s, e, useCache) == IF Cached(s, e, useCache) THEN cache[<<s, e>>] ELSE Window(lake', s, e)

FetchBars(r, useCache) ==
    /\ Fetch(r[1], r[2], useCache)
    /\ UNCHANGED <<now, lakeTorn, features, featuresTorn, featureCache, featuresApart>>
-----------------------------------------------------------------------------
\* fetch_features when the FeatureCache does not answer: rows of the missing
\* period are computed from what MarketDataPipeline answers for it.  A store
\* that cannot be read reads as empty, and the merge then raises.
ComputeRequired(e) == featuresTorn \/ Latest(features) < e
FeatureStart(s) == IF featuresTorn THEN s ELSE DeltaStart(features, s)

Compute(s, e) ==
    LET d == FeatureStart(s) IN
    /\ Fetch(d, e, TRUE)
    /\ features' = IF featuresTorn THEN features ELSE Merge(features, Answer(d, e, TRUE))
    /\ featuresApart' = (featuresApart \/ (Latest(features) # 0 /\ s > Latest(features)))

FetchFeatures(r, useCache) ==
    LET s == r[1]
        e == r[2] IN
    /\ ~(useCache /\ Held(Window(featureCache, s, e)) # {})
    /\ IF ComputeRequired(e) THEN Compute(s, e)
       ELSE UNCHANGED <<lake, cache, withheld, apart, features, featuresApart>>
    /\ featureCache' = LET rows == Window(features', s, e) IN
                       IF useCache /\ ~featuresTorn /\ Held(rows) # {} THEN rows
                       ELSE featureCache
    /\ UNCHANGED <<now, lakeTorn, featuresTorn>>
-----------------------------------------------------------------------------
NextBar ==
    /\ now < Horizon /\ now' = now + 1
    /\ UNCHANGED <<lake, lakeTorn, cache, features, featuresTorn, featureCache, withheld, apart,
                   featuresApart>>

\* The time to live of an entry passes: the next get removes it.
CacheExpires ==
    /\ \E r \in DOMAIN cache : cache' = [q \in DOMAIN cache \ {r} |-> cache[q]]
    /\ UNCHANGED <<now, lake, lakeTorn, features, featuresTorn, featureCache, withheld, apart,
                   featuresApart>>

FeatureCacheExpires ==
    /\ featureCache # Empty /\ featureCache' = Empty
    /\ UNCHANGED <<now, lake, lakeTorn, cache, features, featuresTorn, withheld, apart,
                   featuresApart>>

\* The process dies, at rest or, when a request has something to store, inside
\* to_parquet, which writes in place: no later request can read the file.
LakeCrash ==
    /\ cache' = <<>> /\ featureCache' = Empty
    /\ \/ UNCHANGED <<lakeTorn, featuresTorn>>
       \/ /\ \E r \in Requests : Latest(lake) < r[2]
          /\ lakeTorn' = TRUE /\ UNCHANGED featuresTorn
       \/ /\ \E r \in Requests : ComputeRequired(r[2])
          /\ featuresTorn' = TRUE /\ UNCHANGED lakeTorn
    /\ UNCHANGED <<now, lake, features, withheld, apart, featuresApart>>

LakeNext ==
    \/ \E r \in Requests, useCache \in BOOLEAN :
          FetchBars(r, useCache) \/ FetchFeatures(r, useCache)
    \/ NextBar \/ CacheExpires \/ FeatureCacheExpires \/ LakeCrash

LakeSpec == LakeInit /\ [][LakeNext]_lakeVars
-----------------------------------------------------------------------------
\* The stores map every time to a kind, and nothing is stored before it exists.
LakeTypeOK ==
    /\ now \in Times
    /\ lake \in Stores /\ features \in Stores /\ featureCache \in Stores
    /\ DOMAIN cache \subseteq Times \X Times
    /\ \A r \in DOMAIN cache : cache[r] \in Stores
    /\ {lakeTorn, featuresTorn, apart, featuresApart} \subseteq BOOLEAN
    /\ withheld \subseteq Times
    /\ \A t \in Times : t > now => lake[t] = "none"

\* Delta sync looks at the latest stored timestamp only.  That leaves no hole in
\* the history as long as every fetch starts no later than the last stored bar:
\* a bar missing between two stored ones is one the provider was asked for and
\* did not give.
OverlappingSyncsLeaveNoHole ==
    ~apart =>
      \A t, u, v \in Times :
        t < u /\ u < v /\ lake[t] # "none" /\ lake[v] # "none" /\ lake[u] = "none"
          => u \in withheld

\* A bar is fetched while it forms and stored as it is then.  Starting the next
\* fetch at it, not after it, and keeping the newer of two rows, replaces it:
\* only the last stored bar is ever unfinished, unless the provider left it out
\* the second time.
OnlyLastBarUnfinished ==
    ~apart => \A t \in Times : lake[t] = "forming" => t = Latest(lake) \/ t \in withheld

\* The same of the feature rows, which are computed from bars that may come out
\* of a cache filled before: a row that describes an unfinished bar is the last.
OnlyLastRowUnfinished ==
    ~apart /\ ~featuresApart =>
      \A t \in Times : features[t] = "forming" => t = Latest(features) \/ t \in withheld

\* Neither file feeds an unfinished bar, or a row made of one, to who reads its past.
OnlyTheLastUnfinished == OnlyLastBarUnfinished /\ OnlyLastRowUnfinished
=============================================================================
