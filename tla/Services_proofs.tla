--------------------------- MODULE Services_proofs ---------------------------
(***************************************************************************)
(* Proofs about the services: what the market-data lake, the archives, the *)
(* research registry, the backtester, the memory of experiences and the    *)
(* download of history keep, for every value of their constants; and that  *)
(* the composition is, for each of them, its own specification, so that    *)
(* what is proved of a service holds of the composition.  What is proved   *)
(* of the lake rests on what Latest returns, which is the greatest time    *)
(* held: a nonempty set of naturals has a smallest member.                 *)
(***************************************************************************)
EXTENDS Services, SumsAndRanks, WellFoundedInduction, TLAPS

\* What each step of the composition is for one service: a step of it, or none.
LEMMA StepOfEach ==
    [Next]_vars => /\ [LakeNext]_lakeVars /\ [ArchiveNext]_archiveVars /\ [LabNext]_files
                   /\ [MemoryNext]_memoryVars /\ [PagesNext]_pagesVars
                   /\ [BacktestNext]_backtestVars
<1> SUFFICES ASSUME [Next]_vars
             PROVE  /\ [LakeNext]_lakeVars /\ [ArchiveNext]_archiveVars /\ [LabNext]_files
                    /\ [MemoryNext]_memoryVars /\ [PagesNext]_pagesVars
                    /\ [BacktestNext]_backtestVars
  OBVIOUS
<1>1. CASE LakeStep
  BY <1>1, Zenon DEF LakeStep
<1>2. CASE ArchiveStep
  BY <1>2, Zenon DEF ArchiveStep
<1>3. CASE LabStep
  BY <1>3, Zenon DEF LabStep
<1>4. CASE MemoryStep
  BY <1>4, Zenon DEF MemoryStep
<1>5. CASE PagesStep
  BY <1>5, Zenon DEF PagesStep
<1>6. CASE BacktestStep
  BY <1>6, Zenon DEF BacktestStep
<1>7. CASE UNCHANGED vars
  BY <1>7, Zenon DEF vars
<1> QED
  BY <1>1, <1>2, <1>3, <1>4, <1>5, <1>6, <1>7 DEF Next

\* Following one service at a time loses nothing of any of them: the composition
\* implements the specification of every service.
THEOREM EachServiceIsKept ==
    Spec => LakeSpec /\ ArchiveSpec /\ LabSpec /\ MemorySpec /\ PagesSpec /\ BacktestSpec
<1>1. Init => LakeInit /\ ArchiveInit /\ LabInit /\ MemoryInit /\ PagesInit /\ BacktestInit
  BY DEF Init
<1> QED
  BY <1>1, StepOfEach, PTL DEF Spec, LakeSpec, ArchiveSpec, LabSpec, MemorySpec, PagesSpec,
                               BacktestSpec
-----------------------------------------------------------------------------
\* A nonempty set of naturals has a smallest member: < is well-founded on them.
LEMMA SmallestMember ==
    ASSUME NEW S \in SUBSET Nat, S # {}
    PROVE  \E m \in S : \A n \in S : m <= n
<1> DEFINE R == {p \in Nat \X Nat : p[1] < p[2]}
<1>1. IsWellFoundedOn(R, Nat)
  BY NatLessThanWellFounded DEF OpToRel
<1>2. \E m \in S : \A n \in S : ~(<<n, m>> \in R)
  <2> HIDE DEF R
  <2> QED
    BY <1>1, WFMin
<1>3. \A m, n \in Nat : n < m => <<n, m>> \in R
  OBVIOUS
<1>4. PICK m \in S : \A n \in S : ~(<<n, m>> \in R)
  BY <1>2
<1> HIDE DEF R
<1>5. \A n \in S : ~(n < m)
  BY <1>3, <1>4
<1>6. \A n \in S : m <= n
  BY <1>5
<1> QED
  BY <1>6

\* get_latest_timestamp returns the greatest time a store holds, 0 for none.
LEMMA LatestFact ==
    ASSUME NEW store \in Stores
    PROVE  /\ Latest(store) \in 0..Horizon
           /\ \A t \in Times : store[t] # "none" => Latest(store) # 0 /\ t <= Latest(store)
           /\ Latest(store) # 0 => Latest(store) \in Times /\ store[Latest(store)] # "none"
<1> USE HorizonAssumption DEF Times
<1>1. CASE Held(store) = {}
  BY <1>1 DEF Latest, Held
<1>2. CASE Held(store) # {}
  <2> DEFINE Gaps == {Horizon - t : t \in Held(store)}
  <2>1. Held(store) \subseteq Times
    BY DEF Held
  <2>2. Gaps \in SUBSET Nat /\ Gaps # {}
    BY <1>2, <2>1
  <2>3. \E g \in Gaps : \A h \in Gaps : g <= h
    BY <2>2, SmallestMember
  <2>4. \E t \in Held(store) : \A u \in Held(store) : u <= t
    <3>1. PICK t \in Held(store) : \A h \in Gaps : Horizon - t <= h
      BY <2>3
    <3>2. \A u \in Held(store) : Horizon - t <= Horizon - u
      BY <3>1
    <3> QED
      BY <2>1, <3>2
  <2>5. Latest(store) \in Held(store) /\ \A u \in Held(store) : u <= Latest(store)
    BY <1>2, <2>4 DEF Latest
  <2> QED
    BY <2>1, <2>5 DEF Held
<1> QED
  BY <1>1, <1>2

-----------------------------------------------------------------------------
LEMMA EmptyFact == Empty \in Stores /\ \A t \in Times : Empty[t] = "none"
BY DEF Empty, Stores, Kinds

LEMMA MergeFact ==
    ASSUME NEW old \in Stores, NEW new \in Stores
    PROVE  /\ Merge(old, new) \in Stores
           /\ \A t \in Times : Merge(old, new)[t] = IF new[t] # "none" THEN new[t] ELSE old[t]
BY DEF Merge, Stores, Kinds

LEMMA WindowFact ==
    ASSUME NEW store \in Stores, NEW s, NEW e
    PROVE  /\ Window(store, s, e) \in Stores
           /\ \A t \in Times : Window(store, s, e)[t] \in {"none", store[t]}
BY DEF Window, Stores, Kinds

LEMMA QuotedFact ==
    ASSUME NEW given \in SUBSET Times, now \in Times
    PROVE  /\ Quoted(given) \in Stores
           /\ \A t \in Times : Quoted(given)[t] # "none" <=> t \in given
           /\ \A t \in Times : Quoted(given)[t] = "forming" => t >= now
BY HorizonAssumption DEF Quoted, Stores, Kinds, Times

\* Where a sync starts, once some bar is stored and the request does not start
\* after it: at the last stored bar.
LEMMA DeltaFact ==
    ASSUME NEW store \in Stores, NEW s \in Times
    PROVE  /\ DeltaStart(store, s) \in Times
           /\ Latest(store) # 0 /\ s <= Latest(store) => DeltaStart(store, s) = Latest(store)
           /\ Latest(store) = 0 => DeltaStart(store, s) = s
           /\ DeltaStart(store, s) >= s
BY LatestFact, HorizonAssumption DEF DeltaStart, Times

-----------------------------------------------------------------------------
\* What a sync keeps: bars stay, none appears before the last one, and what was
\* withheld or fetched apart is remembered.
Extends ==
    /\ \A t \in Times : lake[t] # "none" => lake'[t] # "none"
    /\ \A t, u \in Times : t < u /\ lake[u] # "none" /\ lake[t] = "none" => lake'[t] = "none"
    /\ withheld \subseteq withheld' /\ (apart => apart')

LakeTyped ==
    /\ lake \in Stores /\ withheld \subseteq Times /\ apart \in BOOLEAN
    /\ \A t \in Times : t > now => lake[t] = "none"

HistoryInv == LakeTyped /\ OverlappingSyncsLeaveNoHole /\ OnlyLastBarUnfinished

\* What merging the bars of a provider does, bar by bar.
LEMMA MergedFact ==
    ASSUME lake \in Stores, now \in Times, NEW d \in Times, NEW e \in Times,
           NEW given \in SUBSET Asked(d, e), lake' = Merge(lake, Quoted(given))
    PROVE  /\ lake' \in Stores
           /\ \A t \in given : t \in Times /\ d <= t /\ t <= e /\ t <= now
           /\ \A t \in given : lake'[t] # "none" /\ (lake'[t] = "forming" => t = now)
           /\ \A t \in Times : t \notin given => lake'[t] = lake[t]
<1>1. \A t \in given : t \in Times /\ d <= t /\ t <= e /\ t <= now
  BY DEF Asked
<1>2. Quoted(given) \in Stores
  BY <1>1, QuotedFact
<1>3. /\ lake' \in Stores
      /\ \A t \in Times : lake'[t] = IF Quoted(given)[t] # "none" THEN Quoted(given)[t]
                                     ELSE lake[t]
  BY <1>2, MergeFact
<1>4. /\ \A t \in Times : Quoted(given)[t] # "none" <=> t \in given
      /\ \A t \in Times : Quoted(given)[t] = "forming" => t >= now
  BY <1>1, QuotedFact
<1>5. \A t \in given : t >= now => t = now
  BY <1>1, HorizonAssumption DEF Times
<1>6. \A t \in given : lake'[t] # "none" /\ (lake'[t] = "forming" => t = now)
  <2> SUFFICES ASSUME NEW t \in given
               PROVE  lake'[t] # "none" /\ (lake'[t] = "forming" => t = now)
    OBVIOUS
  <2>1. Quoted(given)[t] # "none" /\ (Quoted(given)[t] = "forming" => t >= now)
    <3>1. t \in Times
      BY <1>1
    <3> QED
      BY <3>1, <1>4, Zenon
  <2>2. lake'[t] = Quoted(given)[t]
    BY <1>1, <1>3, <2>1
  <2> QED
    BY <1>5, <2>1, <2>2
<1>7. \A t \in Times : t \notin given => lake'[t] = lake[t]
  <2> SUFFICES ASSUME NEW t \in Times, t \notin given
               PROVE  lake'[t] = lake[t]
    OBVIOUS
  <2>1. Quoted(given)[t] = "none"
    BY <1>4, Zenon
  <2> QED
    BY <1>3, <2>1
<1> QED
  BY <1>1, <1>3, <1>6, <1>7

\* A sync keeps the history sound: the request starts no later than the last bar,
\* so that the provider is asked from that bar on.
LEMMA SyncStep ==
    ASSUME HistoryInv, now \in Times, now' = now, NEW s \in Times, NEW e \in Times, Sync(s, e)
    PROVE  HistoryInv' /\ Extends
<1> USE DEF HistoryInv
<1>1. CASE Latest(lake) >= e
  BY <1>1 DEF Sync, Extends, LakeTyped, OverlappingSyncsLeaveNoHole, OnlyLastBarUnfinished
<1>2. CASE ~(Latest(lake) >= e)
  <2> DEFINE d == DeltaStart(lake, s)
             last == Latest(lake)
  <2>1. PICK given \in SUBSET Asked(d, e), written \in BOOLEAN :
            /\ lake' = IF written THEN Merge(lake, Quoted(given)) ELSE lake
            /\ withheld' = withheld \cup (Asked(d, e) \ given)
            /\ apart' = (apart \/ (last # 0 /\ s > last))
    BY <1>2 DEF Sync
  <2>2. /\ lake \in Stores /\ withheld \subseteq Times /\ apart \in BOOLEAN
        /\ \A t \in Times : t > now => lake[t] = "none"
    BY DEF LakeTyped
  <2>3. /\ last \in 0..Horizon
        /\ \A t \in Times : lake[t] # "none" => last # 0 /\ t <= last
        /\ last # 0 => last \in Times /\ lake[last] # "none"
    BY <2>2, LatestFact
  <2>4. /\ d \in Times /\ d >= last
        /\ ~apart' /\ last # 0 => d = last
    <3>1. /\ d \in Times
          /\ last # 0 /\ s <= last => d = last
          /\ last = 0 => d = s
          /\ d >= s
      BY <2>2, DeltaFact
    <3>2. ~apart' /\ last # 0 => s <= last
      <4>1. ~apart' => ~(last # 0 /\ s > last)
        BY <2>1
      <4>2. ~(s > last) => s <= last
        BY <2>3 DEF Times
      <4> QED
        BY <4>1, <4>2
    <3> QED
      BY <3>1, <3>2, <2>3 DEF Times
  <2>5. withheld \subseteq withheld' /\ withheld' \subseteq Times /\ (apart => apart')
        /\ apart' \in BOOLEAN
    BY <2>1, <2>2 DEF Asked
  <2>6. last < e
    BY <1>2, <2>3 DEF Times
  <2> HIDE DEF d, last
  <2>7. CASE ~written
    <3>1. lake' = lake
      BY <2>1, <2>7
    <3> QED
      BY <3>1, <2>2, <2>5 DEF Extends, LakeTyped, OverlappingSyncsLeaveNoHole, OnlyLastBarUnfinished
  <2>8. CASE written
    <3>1. /\ lake' \in Stores
          /\ \A t \in given : t \in Times /\ d <= t /\ t <= e /\ t <= now
          /\ \A t \in given : lake'[t] # "none" /\ (lake'[t] = "forming" => t = now)
          /\ \A t \in Times : t \notin given => lake'[t] = lake[t]
      <4>1. lake' = Merge(lake, Quoted(given))
        BY <2>1, <2>8
      <4> QED
        BY <4>1, <2>2, <2>4, MergedFact
    <3>2. \A t \in Times : d <= t /\ t <= e /\ t <= now /\ t \notin given => t \in withheld'
      BY <2>1 DEF Asked
    <3>3. \A t \in Times : t > now => lake'[t] = "none"
      BY <3>1, <2>2 DEF Times
    <3>4. Extends
      <4>1. \A t \in Times : lake[t] # "none" => lake'[t] # "none"
        BY <3>1
      <4>2. ASSUME NEW t \in Times, NEW u \in Times, t < u, lake[u] # "none", lake[t] = "none"
            PROVE  lake'[t] = "none"
        <5>1. t < d
          BY <4>2, <2>3, <2>4 DEF Times
        <5>2. t \notin given
          BY <5>1, <3>1, <2>4 DEF Times
        <5> QED
          BY <4>2, <5>2, <3>1
      <4> QED
        BY <4>1, <4>2, <2>5 DEF Extends
    <3>5. OverlappingSyncsLeaveNoHole'
      <4> SUFFICES ASSUME ~apart', NEW t \in Times, NEW u \in Times, NEW v \in Times,
                          t < u, u < v, lake'[t] # "none", lake'[v] # "none", lake'[u] = "none"
                   PROVE  u \in withheld'
        BY DEF OverlappingSyncsLeaveNoHole
      <4>1. lake[u] = "none" /\ u \notin given /\ ~apart
        BY <3>1, <2>5
      <4>2. \A x \in Times : u < x /\ lake[x] # "none" /\ lake[t] # "none" => u \in withheld'
        BY <4>1, <2>5 DEF OverlappingSyncsLeaveNoHole
      <4>3. CASE u >= d
        <5>1. v \in given
          <6>1. lake[v] = "none"
            BY <4>3, <2>3, <2>4 DEF Times
          <6> QED
            BY <6>1, <3>1
        <5>2. u <= e /\ u <= now
          BY <5>1, <3>1 DEF Times
        <5> QED
          BY <4>1, <4>3, <5>2, <3>2
      <4>4. CASE u < d
        <5>1. lake[t] # "none"
          <6>1. t < d
            BY <4>4, <2>4 DEF Times
          <6>2. t \notin given
            BY <6>1, <3>1, <2>4 DEF Times
          <6> QED
            BY <6>2, <3>1
        <5>2. last # 0 /\ d = last /\ last \in Times /\ lake[last] # "none"
          BY <5>1, <2>3, <2>4
        <5> QED
          BY <5>1, <5>2, <4>2, <4>4
      <4> QED
        BY <4>3, <4>4, <2>4 DEF Times
    <3>6. OnlyLastBarUnfinished'
      <4> SUFFICES ASSUME ~apart', NEW t \in Times, lake'[t] = "forming"
                   PROVE  t = Latest(lake') \/ t \in withheld'
        BY DEF OnlyLastBarUnfinished
      <4>1. CASE t \in given
        <5>1. t = now
          BY <4>1, <3>1
        <5>2. /\ Latest(lake') \in 0..Horizon /\ t <= Latest(lake')
              /\ Latest(lake') # 0 => Latest(lake') \in Times /\ lake'[Latest(lake')] # "none"
          BY <3>1, LatestFact
        <5>3. Latest(lake') <= now
          BY <5>1, <5>2, <3>3 DEF Times
        <5> QED
          BY <5>1, <5>2, <5>3 DEF Times
      <4>2. CASE t \notin given
        <5>1. lake[t] = "forming" /\ ~apart
          BY <4>2, <3>1, <2>5
        <5>2. CASE t \in withheld
          BY <5>2, <2>5
        <5>3. CASE t = last
          <6>1. t = d /\ t <= e
            BY <5>1, <5>3, <2>3, <2>4, <2>6 DEF Times
          <6>2. t <= now
            BY <5>1, <2>2 DEF Times
          <6> QED
            BY <6>1, <6>2, <4>2, <3>2 DEF Times
        <5> QED
          BY <5>1, <5>2, <5>3 DEF OnlyLastBarUnfinished, last
      <4> QED
        BY <4>1, <4>2
    <3> QED
      BY <3>1, <3>3, <3>4, <3>5, <3>6, <2>5 DEF LakeTyped
  <2> QED
    BY <2>7, <2>8
<1> QED
  BY <1>1, <1>2

-----------------------------------------------------------------------------
\* An answer for the period r is sound of a history: its bars lie in the period
\* and are stored; a bar it lacks before one it has is not stored; and only its
\* last bar is unfinished.
SoundOf(bars, r, store, gone, gap) ==
    /\ bars \in Stores
    /\ \A t \in Times : bars[t] # "none" => r[1] <= t /\ store[t] # "none"
    /\ \A t, u \in Times :
         r[1] <= t /\ t < u /\ bars[t] = "none" /\ bars[u] # "none" => store[t] = "none"
    /\ ~gap => \A t, u \in Times :
                  bars[t] = "forming" /\ t < u /\ bars[u] # "none" => t \in gone

Sound(bars, r) == SoundOf(bars, r, lake, withheld, apart)

CacheSound == /\ DOMAIN cache \subseteq Times \X Times
              /\ \A r \in DOMAIN cache : Sound(cache[r], r)

\* A period of a history whose last bar alone is unfinished is sound of it.
LEMMA WindowSound ==
    ASSUME NEW store \in Stores, NEW gone, NEW gap, NEW s \in Times, NEW e \in Times,
           ~gap => \A t \in Times : store[t] = "forming" => t = Latest(store) \/ t \in gone
    PROVE  SoundOf(Window(store, s, e), <<s, e>>, store, gone, gap)
<1> DEFINE bars == Window(store, s, e)
<1>1. bars \in Stores
  BY WindowFact
<1>2. \A t \in Times : bars[t] = IF s <= t /\ t <= e THEN store[t] ELSE "none"
  BY DEF Window
<1>3. \A t \in Times : store[t] # "none" => t <= Latest(store)
  BY LatestFact
<1> HIDE DEF bars
<1>4. \A t \in Times : bars[t] # "none" => s <= t /\ t <= e /\ bars[t] = store[t]
  BY <1>2
<1>5. \A t, u \in Times : s <= t /\ t < u /\ bars[t] = "none" /\ bars[u] # "none" => store[t] = "none"
  <2> SUFFICES ASSUME NEW t \in Times, NEW u \in Times,
                      s <= t, t < u, bars[t] = "none", bars[u] # "none"
               PROVE  store[t] = "none"
    OBVIOUS
  <2>1. u <= e
    BY <1>4
  <2>2. t <= e
    BY <2>1, HorizonAssumption DEF Times
  <2> QED
    BY <2>2, <1>2
<1>6. ASSUME ~gap, NEW t \in Times, NEW u \in Times,
             bars[t] = "forming", t < u, bars[u] # "none"
      PROVE  t \in gone
  <2>1. store[t] = "forming"
    BY <1>4, <1>6
  <2>2. store[u] # "none"
    BY <1>4, <1>6
  <2>3. u <= Latest(store) /\ Latest(store) \in 0..Horizon
    BY <2>2, <1>3, LatestFact
  <2>4. t # Latest(store)
    BY <2>3, <1>6, HorizonAssumption DEF Times
  <2> QED
    BY <1>6, <2>1, <2>4
<1>7. <<s, e>>[1] = s
  OBVIOUS
<1> QED
  BY <1>1, <1>4, <1>5, <1>6, <1>7 DEF SoundOf, bars

\* What is sound of a history stays so when the history is extended.
LEMMA SoundStays ==
    ASSUME NEW bars, NEW r, Sound(bars, r), Extends
    PROVE  SoundOf(bars, r, lake', withheld', apart')
<1>1. bars \in Stores
  BY DEF Sound, SoundOf
<1>2. \A t \in Times : bars[t] # "none" => r[1] <= t /\ lake'[t] # "none"
  BY DEF Sound, SoundOf, Extends
<1>3. ASSUME NEW t \in Times, NEW u \in Times,
             r[1] <= t, t < u, bars[t] = "none", bars[u] # "none"
      PROVE  lake'[t] = "none"
  <2>1. lake[t] = "none" /\ lake[u] # "none"
    BY <1>3 DEF Sound, SoundOf
  <2> QED
    BY <1>3, <2>1 DEF Extends
<1>4. ASSUME ~apart', NEW t \in Times, NEW u \in Times,
             bars[t] = "forming", t < u, bars[u] # "none"
      PROVE  t \in withheld'
  <2>1. ~apart
    BY <1>4 DEF Extends
  <2>2. t \in withheld
    BY <1>4, <2>1 DEF Sound, SoundOf
  <2> QED
    BY <2>2 DEF Extends
<1> QED
  BY <1>1, <1>2, <1>3, <1>4 DEF SoundOf

-----------------------------------------------------------------------------
\* A fetch keeps the history and what is cached of it sound, and so is its
\* answer, cached or not.
LEMMA FetchStep ==
    ASSUME HistoryInv, CacheSound, now \in Times, now' = now, NEW s \in Times, NEW e \in Times,
           NEW useCache \in BOOLEAN, Fetch(s, e, useCache)
    PROVE  /\ HistoryInv' /\ Extends /\ CacheSound'
           /\ SoundOf(Answer(s, e, useCache), <<s, e>>, lake', withheld', apart')
<1>1. CASE Cached(s, e, useCache)
  <2>1. UNCHANGED <<lake, cache, withheld, apart>>
    BY <1>1 DEF Fetch
  <2>2. HistoryInv' /\ Extends
    BY <2>1 DEF HistoryInv, Extends, LakeTyped, OverlappingSyncsLeaveNoHole, OnlyLastBarUnfinished
  <2>3. CacheSound'
    BY <2>1 DEF CacheSound, Sound
  <2>4. <<s, e>> \in DOMAIN cache /\ Answer(s, e, useCache) = cache[<<s, e>>]
    BY <1>1 DEF Cached, Answer
  <2>5. SoundOf(cache[<<s, e>>], <<s, e>>, lake', withheld', apart')
    BY <2>1, <2>4 DEF CacheSound, Sound
  <2> QED
    BY <2>2, <2>3, <2>4, <2>5
<1>2. CASE ~Cached(s, e, useCache)
  <2> DEFINE bars == Window(lake', s, e)
  <2>1. /\ Sync(s, e)
        /\ cache' = IF useCache /\ Held(bars) # {}
                    THEN [r \in DOMAIN cache \cup {<<s, e>>} |->
                             IF r = <<s, e>> THEN bars ELSE cache[r]]
                    ELSE cache
    BY <1>2 DEF Fetch
  <2>2. HistoryInv' /\ Extends
    BY <2>1, SyncStep
  <2>3. SoundOf(bars, <<s, e>>, lake', withheld', apart')
    <3>1. /\ lake' \in Stores
          /\ ~apart' => \A t \in Times :
                           lake'[t] = "forming" => t = Latest(lake') \/ t \in withheld'
      BY <2>2 DEF HistoryInv, LakeTyped, OnlyLastBarUnfinished
    <3> QED
      BY <3>1, WindowSound
  <2>4. Answer(s, e, useCache) = bars
    BY <1>2 DEF Answer
  <2> HIDE DEF bars
  <2>5. \A r \in DOMAIN cache : SoundOf(cache[r], r, lake', withheld', apart')
    BY <2>2, SoundStays DEF CacheSound
  <2>6. CacheSound'
    <3>1. CASE cache' = cache
      BY <3>1, <2>5 DEF CacheSound, Sound
    <3>2. CASE cache' = [r \in DOMAIN cache \cup {<<s, e>>} |->
                            IF r = <<s, e>> THEN bars ELSE cache[r]]
      <4>1. DOMAIN cache' = DOMAIN cache \cup {<<s, e>>}
        BY <3>2
      <4>2. \A r \in DOMAIN cache' : cache'[r] = IF r = <<s, e>> THEN bars ELSE cache[r]
        BY <3>2, <4>1
      <4>3. \A r \in DOMAIN cache' : SoundOf(cache'[r], r, lake', withheld', apart')
        BY <4>1, <4>2, <2>3, <2>5
      <4> QED
        BY <4>1, <4>3 DEF CacheSound, Sound
    <3> QED
      BY <3>1, <3>2, <2>1
  <2> QED
    BY <2>2, <2>3, <2>4, <2>6
<1> QED
  BY <1>1, <1>2

-----------------------------------------------------------------------------
\* A feature row describes a stored bar.
RowsFromBars == \A t \in Times : features[t] # "none" => lake[t] # "none"

FeaturesTyped == features \in Stores /\ featuresApart \in BOOLEAN

RowsInv == FeaturesTyped /\ RowsFromBars /\ OnlyLastRowUnfinished

\* Rows that stay while the history is extended stay sound.
LEMMA RowsStay ==
    ASSUME RowsInv, Extends, features' = features, featuresApart' \in BOOLEAN,
           featuresApart => featuresApart'
    PROVE  RowsInv'
BY DEF RowsInv, FeaturesTyped, RowsFromBars, OnlyLastRowUnfinished, Extends

\* A computation keeps the rows sound: it starts at the last stored row, and a
\* bar that was stored is not missing in the answer before one it holds.
LEMMA ComputeStep ==
    ASSUME HistoryInv, CacheSound, RowsInv, now \in Times, now' = now,
           NEW s \in Times, NEW e \in Times, Compute(s, e)
    PROVE  HistoryInv' /\ Extends /\ CacheSound' /\ RowsInv'
<1> DEFINE d    == FeatureStart(s)
           bars == Answer(d, e, TRUE)
           last == Latest(features)
<1>1. /\ Fetch(d, e, TRUE)
      /\ features' = IF featuresTorn THEN features ELSE Merge(features, bars)
      /\ featuresApart' = (featuresApart \/ (last # 0 /\ s > last))
  BY DEF Compute
<1>2. features \in Stores /\ featuresApart \in BOOLEAN
  BY DEF RowsInv, FeaturesTyped
<1>3. /\ last \in 0..Horizon
      /\ \A t \in Times : features[t] # "none" => last # 0 /\ t <= last
      /\ last # 0 => last \in Times /\ features[last] # "none"
  BY <1>2, LatestFact
<1>4. d \in Times /\ (~featuresTorn /\ ~featuresApart' /\ last # 0 => d = last)
  <2>1. /\ DeltaStart(features, s) \in Times
        /\ last # 0 /\ s <= last => DeltaStart(features, s) = last
    BY <1>2, DeltaFact
  <2>2. ~featuresApart' /\ last # 0 => s <= last
    <3>1. ~featuresApart' => ~(last # 0 /\ s > last)
      BY <1>1
    <3>2. ~(s > last) => s <= last
      BY <1>3 DEF Times
    <3> QED
      BY <3>1, <3>2
  <2> QED
    BY <2>1, <2>2 DEF FeatureStart
<1>5. HistoryInv' /\ Extends /\ CacheSound' /\ SoundOf(bars, <<d, e>>, lake', withheld', apart')
  BY <1>1, <1>4, FetchStep
<1>6. featuresApart' \in BOOLEAN /\ (featuresApart => featuresApart')
  BY <1>1, <1>2
<1> HIDE DEF d, bars, last
<1>7. CASE featuresTorn
  BY <1>1, <1>5, <1>6, <1>7, RowsStay
<1>8. CASE ~featuresTorn
  <2>1. /\ bars \in Stores
        /\ \A t \in Times : bars[t] # "none" => d <= t /\ lake'[t] # "none"
        /\ \A t, u \in Times :
             d <= t /\ t < u /\ bars[t] = "none" /\ bars[u] # "none" => lake'[t] = "none"
        /\ ~apart' => \A t, u \in Times :
                         bars[t] = "forming" /\ t < u /\ bars[u] # "none" => t \in withheld'
    <3>1. <<d, e>>[1] = d
      OBVIOUS
    <3> QED
      BY <1>5, <3>1 DEF SoundOf
  <2>2. /\ features' \in Stores
        /\ \A t \in Times : features'[t] = IF bars[t] # "none" THEN bars[t] ELSE features[t]
    BY <1>1, <1>2, <1>8, <2>1, MergeFact
  <2>3. RowsFromBars'
    <3> SUFFICES ASSUME NEW t \in Times, features'[t] # "none"
                 PROVE  lake'[t] # "none"
      BY DEF RowsFromBars
    <3>1. CASE bars[t] # "none"
      BY <3>1, <2>1
    <3>2. CASE bars[t] = "none"
      BY <3>2, <2>2, <1>5 DEF RowsInv, RowsFromBars, Extends
    <3> QED
      BY <3>1, <3>2
  <2>4. OnlyLastRowUnfinished'
    <3> DEFINE newest == Latest(features')
    <3> SUFFICES ASSUME ~apart', ~featuresApart', NEW f \in Times, features'[f] = "forming",
                        f # newest
                 PROVE  f \in withheld'
      BY DEF OnlyLastRowUnfinished
    <3>1. f < newest /\ newest \in Times /\ features'[newest] # "none"
      <4>1. /\ newest \in 0..Horizon /\ newest # 0 /\ f <= newest
            /\ newest # 0 => newest \in Times /\ features'[newest] # "none"
        BY <2>2, LatestFact
      <4> QED
        BY <4>1 DEF Times
    <3> HIDE DEF newest
    <3>2. CASE bars[f] # "none"
      <4>1. bars[f] = "forming" /\ d <= f
        BY <3>2, <2>1, <2>2
      <4>2. bars[newest] # "none"
        <5>1. SUFFICES ASSUME bars[newest] = "none" PROVE FALSE
          OBVIOUS
        <5>2. features[newest] # "none"
          BY <5>1, <3>1, <2>2
        <5>3. newest <= last /\ d = last
          BY <5>2, <3>1, <1>3, <1>4, <1>8
        <5> QED
          BY <5>3, <4>1, <3>1, <1>4 DEF Times
      <4> QED
        BY <4>1, <4>2, <3>1, <2>1
    <3>3. CASE bars[f] = "none"
      <4>1. features[f] = "forming" /\ lake'[f] # "none"
        BY <3>3, <2>2, <1>5 DEF RowsInv, RowsFromBars, Extends
      <4>2. f = last \/ f \in withheld
        BY <4>1, <1>5, <1>6 DEF RowsInv, OnlyLastRowUnfinished, Extends, last
      <4>3. f # last
        <5>1. SUFFICES ASSUME f = last PROVE FALSE
          OBVIOUS
        <5>2. features[newest] = "none"
          BY <5>1, <3>1, <1>3 DEF Times
        <5>3. bars[newest] # "none"
          BY <5>2, <3>1, <2>2
        <5>4. d = f
          BY <5>1, <4>1, <1>3, <1>4, <1>8
        <5>5. lake'[f] = "none"
          BY <5>3, <5>4, <3>1, <3>3, <2>1 DEF Times
        <5> QED
          BY <5>5, <4>1
      <4> QED
        BY <4>2, <4>3, <1>5 DEF Extends
    <3> QED
      BY <3>2, <3>3
  <2> QED
    BY <2>2, <2>3, <2>4, <1>5, <1>6 DEF RowsInv, FeaturesTyped
<1> QED
  BY <1>7, <1>8

-----------------------------------------------------------------------------
\* The inductive invariant.  The three properties are not inductive without what
\* is said of the cache: a feature row may be computed from an old answer.
LakeInv == now \in Times /\ HistoryInv /\ CacheSound /\ RowsInv

LEMMA LakeInitStep == LakeInit => LakeInv
<1> SUFFICES ASSUME LakeInit PROVE LakeInv
  OBVIOUS
<1>1. now \in Times
  BY HorizonAssumption DEF LakeInit, Times
<1>2. HistoryInv
  BY EmptyFact DEF LakeInit, HistoryInv, LakeTyped, OverlappingSyncsLeaveNoHole,
                   OnlyLastBarUnfinished
<1>3. CacheSound
  BY DEF LakeInit, CacheSound
<1>4. RowsInv
  BY EmptyFact DEF LakeInit, RowsInv, FeaturesTyped, RowsFromBars, OnlyLastRowUnfinished
<1> QED
  BY <1>1, <1>2, <1>3, <1>4 DEF LakeInv

\* Each operation keeps the invariant.
LEMMA LakeInvStep == LakeInv /\ [LakeNext]_lakeVars => LakeInv'
<1> SUFFICES ASSUME LakeInv, [LakeNext]_lakeVars PROVE LakeInv'
  OBVIOUS
<1> USE DEF LakeInv
<1>0. \A r \in Requests : r[1] \in Times /\ r[2] \in Times
  BY RequestsAssumption
\* A step that leaves the stores alone, and takes nothing into the cache.
<1>1. ASSUME UNCHANGED <<lake, withheld, apart, features, featuresApart>>,
             now' \in Times, now' >= now,
             DOMAIN cache' \subseteq DOMAIN cache, \A r \in DOMAIN cache' : cache'[r] = cache[r]
      PROVE  LakeInv'
  <2>1. LakeTyped'
    BY <1>1 DEF HistoryInv, LakeTyped, Times
  <2>2. OverlappingSyncsLeaveNoHole' /\ OnlyLastBarUnfinished'
    BY <1>1 DEF HistoryInv, OverlappingSyncsLeaveNoHole, OnlyLastBarUnfinished
  <2>3. CacheSound'
    BY <1>1 DEF CacheSound, Sound
  <2>4. RowsInv'
    BY <1>1 DEF RowsInv, FeaturesTyped, RowsFromBars, OnlyLastRowUnfinished
  <2> QED
    BY <1>1, <2>1, <2>2, <2>3, <2>4 DEF HistoryInv
<1>2. ASSUME NEW r \in Requests, NEW useCache \in BOOLEAN, FetchBars(r, useCache)
      PROVE  LakeInv'
  <2>1. Fetch(r[1], r[2], useCache) /\ UNCHANGED <<now, features, featuresApart>>
    BY <1>2 DEF FetchBars
  <2>2. HistoryInv' /\ Extends /\ CacheSound'
    BY <2>1, <1>0, FetchStep
  <2>3. featuresApart' \in BOOLEAN
    BY <2>1 DEF RowsInv, FeaturesTyped
  <2>4. RowsInv'
    BY <2>1, <2>2, <2>3, RowsStay
  <2> QED
    BY <2>1, <2>2, <2>4
<1>3. ASSUME NEW r \in Requests, NEW useCache \in BOOLEAN, FetchFeatures(r, useCache)
      PROVE  LakeInv'
  <2>1. now' = now /\ (Compute(r[1], r[2])
                       \/ UNCHANGED <<lake, cache, withheld, apart, features, featuresApart>>)
    BY <1>3 DEF FetchFeatures
  <2>2. CASE Compute(r[1], r[2])
    BY <2>1, <2>2, <1>0, ComputeStep
  <2>3. CASE UNCHANGED <<lake, cache, withheld, apart, features, featuresApart>>
    BY <2>1, <2>3, <1>1 DEF Times
  <2> QED
    BY <2>1, <2>2, <2>3
<1>4. CASE NextBar
  BY <1>4, <1>1, HorizonAssumption DEF NextBar, Times
<1>5. CASE CacheExpires
  BY <1>5, <1>1 DEF CacheExpires, Times
<1>6. CASE FeatureCacheExpires
  BY <1>6, <1>1 DEF FeatureCacheExpires, Times
<1>7. CASE LakeCrash
  <2>1. DOMAIN cache' = {} /\ UNCHANGED <<now, lake, withheld, apart, features, featuresApart>>
    BY <1>7 DEF LakeCrash
  <2> QED
    BY <2>1, <1>1 DEF Times
<1>8. CASE UNCHANGED lakeVars
  BY <1>8, <1>1 DEF lakeVars, Times
<1> QED
  BY <1>2, <1>3, <1>4, <1>5, <1>6, <1>7, <1>8 DEF LakeNext

LEMMA LakeInvAlways == LakeSpec => []LakeInv
BY LakeInitStep, LakeInvStep, PTL DEF LakeSpec

\* For every horizon and every set of requests, interleaved with crashes, torn
\* files and expiring caches: as long as every fetch overlaps what is stored, a
\* bar missing inside the stored history is one the provider withheld
\* (MarketDataPipeline.fetch_ohlcv, ParquetStorage.save_and_merge_bars).
THEOREM NoHoleAlways == LakeSpec => []OverlappingSyncsLeaveNoHole
<1>1. LakeInv => OverlappingSyncsLeaveNoHole
  BY DEF LakeInv, HistoryInv
<1> QED
  BY <1>1, LakeInvAlways, PTL

\* Only the last stored bar is ever unfinished, unless the provider left it out
\* when it was asked for again: drop_duplicates(keep='last') replaces it.
THEOREM OnlyLastBarUnfinishedAlways == LakeSpec => []OnlyLastBarUnfinished
<1>1. LakeInv => OnlyLastBarUnfinished
  BY DEF LakeInv, HistoryInv
<1> QED
  BY <1>1, LakeInvAlways, PTL

\* The same of the feature rows of FeaturePipeline.fetch_features, whatever the
\* two caches answered with when they were computed.
THEOREM OnlyLastRowUnfinishedAlways == LakeSpec => []OnlyLastRowUnfinished
<1>1. LakeInv => OnlyLastRowUnfinished
  BY DEF LakeInv, RowsInv
<1> QED
  BY <1>1, LakeInvAlways, PTL

\* Both together: of the stored bars and of the feature rows, only the last is ever
\* unfinished.
THEOREM OnlyTheLastUnfinishedAlways == LakeSpec => []OnlyTheLastUnfinished
<1>1. LakeInv => OnlyTheLastUnfinished
  BY DEF LakeInv, HistoryInv, RowsInv, OnlyTheLastUnfinished
<1> QED
  BY <1>1, LakeInvAlways, PTL
-----------------------------------------------------------------------------
\* A dataset is being saved once its manifest is complete, and an id is known once
\* its model is.
ArchiveInv ==
    /\ manifest \in [Datasets -> Files] /\ data \in [Datasets -> Files]
    /\ zip \in [Models -> Files]
    /\ saving \in Datasets \cup {NoOne} /\ known \subseteq Models
    /\ active \in Models \cup {NoOne}
    /\ saving # NoOne => manifest[saving] = "whole"
    /\ \A m \in known : zip[m] = "whole"
    /\ DataHasItsManifest
    /\ ActivePolicyLoads

LEMMA ArchiveInvInit == ArchiveInit => ArchiveInv
BY DEF ArchiveInit, ArchiveInv, DataHasItsManifest, ActivePolicyLoads, Files

LEMMA ArchiveInvStep == ArchiveInv /\ [ArchiveNext]_archiveVars => ArchiveInv'
<1> SUFFICES ASSUME ArchiveInv, [ArchiveNext]_archiveVars PROVE ArchiveInv'
  OBVIOUS
<1> USE NoOneAssumption DEF ArchiveInv, DataHasItsManifest, ActivePolicyLoads, Files
<1>1. ASSUME NEW h \in Datasets, NEW e \in {"torn", "whole"}, SaveManifest(h, e)
      PROVE  ArchiveInv'
  BY <1>1 DEF SaveManifest
<1>2. ASSUME NEW e \in {"torn", "whole"}, SaveData(e)
      PROVE  ArchiveInv'
  BY <1>2 DEF SaveData
<1>3. ASSUME NEW m \in Models, NEW e \in {"torn", "whole"}, Train(m, e)
      PROVE  ArchiveInv'
  BY <1>3 DEF Train
<1>4. ASSUME NEW m \in Models, Promote(m)
      PROVE  ArchiveInv'
  BY <1>4 DEF Promote
<1>5. CASE ArchiveCrash
  BY <1>5 DEF ArchiveCrash
<1>6. CASE UNCHANGED archiveVars
  BY <1>6 DEF archiveVars
<1> QED
  BY <1>1, <1>2, <1>3, <1>4, <1>5, <1>6 DEF ArchiveNext

LEMMA ArchiveInvAlways == ArchiveSpec => []ArchiveInv
BY ArchiveInvInit, ArchiveInvStep, PTL DEF ArchiveSpec

\* For any datasets: wherever the process that saves them dies, a data file has
\* a manifest that parses (StorageDatasetRepository.save).
THEOREM DataHasItsManifestAlways == ArchiveSpec => []DataHasItsManifest
<1>1. ArchiveInv => DataHasItsManifest
  BY DEF ArchiveInv
<1> QED
  BY <1>1, ArchiveInvAlways, PTL

\* For any policies: wherever the process that trains them dies, the active one
\* loads (SB3PolicyAdapter.train_policy, PolicyCheckpointStore.promote_to_active).
THEOREM ActivePolicyLoadsAlways == ArchiveSpec => []ActivePolicyLoads
<1>1. ArchiveInv => ActivePolicyLoads
  BY DEF ArchiveInv
<1> QED
  BY <1>1, ArchiveInvAlways, PTL
-----------------------------------------------------------------------------
\* A score of 75 needs more than four of the six sixths of the robustness factor,
\* hence both campaigns that count twice.
LEMMA ApprovedFact ==
    ASSUME NEW r \in Results, IsApproved(r)
    PROVE  OutOfSample \subseteq r.passed /\ r.economic # NotMeasured
<1>1. /\ r.economic \in Percentages /\ r.drawdown \in Percentages /\ r.ruin \in Percentages
  <2>1. r.economic \in EconomicTerms /\ r.drawdown \in Factors /\ r.ruin \in Factors
    BY DEF Results, IsApproved
  <2>2. \A x \in EconomicTerms \cup Factors : x \in Percentages
    BY ScoreAssumption DEF Percentages
  <2> QED
    BY <2>1, <2>2
<1>2. Earned(r) \in Sixths
  BY SMT DEF Earned, Sixths
<1>3. ThreeQuarters(r.economic, r.drawdown, r.ruin, Earned(r))
  BY SMT DEF IsApproved, ThresholdPct, ThreeQuarters
<1>4. Earned(r) > 4
  BY ONLY <1>1, <1>2, <1>3, PercentagesProduct, Zenon
<1>5. "hold_out" \in r.passed /\ "walk_forward" \in r.passed
  BY <1>4, SMT DEF Earned
<1> QED
  BY <1>5 DEF OutOfSample, IsApproved

\* A record beyond validation is one whose report was approved; nothing changes
\* the report of a record afterwards.
LabInv ==
    \A i \in Recorded :
      /\ files[i] \in Record
      /\ files[i].stage \in Guarded => IsApproved(files[i].result)

LEMMA FreshFact ==
    ASSUME NEW status \in {"CREATED", "COMPLETED", "FAILED", "TORN"}, NEW r \in Results
    PROVE  Fresh(status, r) \in Record /\ Fresh(status, r).stage \notin Guarded
BY DEF Fresh, Record, Guarded, Stages

LEMMA NoResultFact == NoResult \in Results
BY ScoreAssumption DEF NoResult, Results

LEMMA SaveFact ==
    ASSUME LabInv, NEW record \in Record, record.stage \notin Guarded, Save(record)
    PROVE  LabInv'
<1> DEFINE n == Cardinality(Recorded) + 1
<1>1. files' = [i \in Recorded \cup {n} |-> IF i = n THEN record ELSE files[i]]
  BY DEF Save
<1> HIDE DEF n
<1>2. Recorded' = Recorded \cup {n}
  BY <1>1 DEF Recorded
<1>3. \A i \in Recorded' : files'[i] = IF i = n THEN record ELSE files[i]
  BY <1>1, <1>2
<1> QED
  BY <1>2, <1>3 DEF LabInv

LEMMA LabInvInit == LabInit => LabInv
BY DEF LabInit, LabInv, Recorded

LEMMA LabInvStep == LabInv /\ [LabNext]_files => LabInv'
<1> SUFFICES ASSUME LabInv, [LabNext]_files PROVE LabInv'
  OBVIOUS
<1>0. Torn \in Record /\ Torn.stage \notin Guarded
  BY NoResultFact, FreshFact DEF Torn
<1>1. CASE CreateExperiment
  <2>1. Save(Fresh("CREATED", NoResult))
    BY <1>1 DEF CreateExperiment
  <2> QED
    BY <2>1, NoResultFact, FreshFact, SaveFact
<1>2. CASE RunExperiment
  <2>1. CASE \E r \in Results : Possible(r) /\ Save(Fresh("COMPLETED", r))
    BY <2>1, FreshFact, SaveFact
  <2>2. CASE Save(Fresh("FAILED", NoResult))
    BY <2>2, NoResultFact, FreshFact, SaveFact
  <2>3. CASE Save(Torn)
    BY <2>3, <1>0, SaveFact
  <2> QED
    BY <1>2, <2>1, <2>2, <2>3 DEF RunExperiment
<1>3. ASSUME NEW i \in Recorded, NEW stage \in Stages, PromoteExperiment(i, stage)
      PROVE  LabInv'
  <2>1. CASE files' = [files EXCEPT ![i].stage = stage]
    <3>1. files[i] \in Record /\ (stage \in Guarded => IsApproved(files[i].result))
      BY <1>3 DEF PromoteExperiment, Approved, LabInv
    <3>2. Recorded' = Recorded /\ files'[i] = [files[i] EXCEPT !.stage = stage]
      BY <2>1 DEF Recorded
    <3>3. \A j \in Recorded : j # i => files'[j] = files[j]
      BY <2>1 DEF Recorded
    <3>4. /\ files'[i] \in Record /\ files'[i].stage = stage
          /\ files'[i].result = files[i].result
      BY <3>1, <3>2 DEF Record
    <3> QED
      BY <3>1, <3>2, <3>3, <3>4 DEF LabInv
  <2>2. CASE files' = [files EXCEPT ![i] = Torn]
    <3>1. Recorded' = Recorded /\ files'[i] = Torn
      BY <2>2 DEF Recorded
    <3>2. \A j \in Recorded : j # i => files'[j] = files[j]
      BY <2>2 DEF Recorded
    <3> QED
      BY <1>0, <3>1, <3>2 DEF LabInv
  <2> QED
    BY <1>3, <2>1, <2>2 DEF PromoteExperiment
<1>4. CASE UNCHANGED files
  BY <1>4 DEF LabInv, Recorded
<1> QED
  BY <1>1, <1>2, <1>3, <1>4 DEF LabNext

\* For any measurements, any number of experiments and any torn files: what was
\* promoted beyond validation passed both out-of-sample campaigns
\* (ScoringEngine.calculate_score, ExperimentManager.promote_experiment).
THEOREM PromotedPassedAlways == LabSpec => []PromotedPassedOutOfSample
<1>1. LabInv => PromotedPassedOutOfSample
  <2> SUFFICES ASSUME LabInv, NEW i \in Recorded, files[i].stage \in Guarded
               PROVE  /\ OutOfSample \subseteq files[i].result.passed
                      /\ files[i].result.economic # NotMeasured
    BY DEF PromotedPassedOutOfSample
  <2>1. files[i].result \in Results /\ IsApproved(files[i].result)
    BY DEF LabInv, Record
  <2> QED
    BY <2>1, ApprovedFact
<1>2. LabInit => LabInv
  BY LabInvInit
<1> QED
  BY <1>1, <1>2, LabInvStep, PTL DEF LabSpec
-----------------------------------------------------------------------------
\* The account is made of integers; without a bar there is no order.
BacktestInv ==
    /\ barPrice \in Nat
    /\ position \in Int /\ averagePrice \in Int /\ capital \in Int /\ cash \in Int
    /\ CapitalExplained

LEMMA BacktestInvInit == BacktestInit => BacktestInv
<1> SUFFICES ASSUME BacktestInit PROVE BacktestInv
  OBVIOUS
<1>1. /\ barPrice = 0 /\ position = 0 /\ averagePrice = 0
      /\ capital = StartingCapital /\ cash = StartingCapital
  BY DEF BacktestInit
<1>2. StartingCapital \in Int
  BY BacktestAssumption
<1>3. position * averagePrice = 0
  BY <1>1
<1>4. CapitalExplained
  BY <1>1, <1>2, <1>3 DEF CapitalExplained
<1> QED
  BY <1>1, <1>2, <1>4 DEF BacktestInv

\* An order of run() closes or reverses, or opens from nothing.
LEMMA SignalStep ==
    ASSUME BacktestInv, NEW direction \in {-1, 0, 1}, BacktestSignal(direction)
    PROVE  BacktestInv'
<1> DEFINE side == IF direction # 0 THEN direction ELSE IF position > 0 THEN -1 ELSE 1
           quantity == OrderQuantity(direction)
           price == FillPrice(side)
           fee == Commission(side, quantity)
           target == position + side * quantity
<1> USE DEF BacktestInv
<1>1. /\ barPrice # 0 /\ barPrice' = barPrice /\ quantity > 0
      /\ IF direction = 0 THEN position # 0 ELSE direction * position <= 0
      /\ ProcessFill(side, quantity)
  BY DEF BacktestSignal
<1>2. side \in {-1, 1} /\ side * position <= 0
  BY <1>1
<1>3. price \in Int
  <2>1. barPrice * (10000 + side * SlippageBps) \in Int
    BY SMTT(30), <1>2, BacktestAssumption
  <2> QED
    BY <2>1 DEF FillPrice
<1>4. quantity \in Nat \ {0}
  <2>1. Sized \in Int
    <3>1. capital * 95 \in Int /\ 100 * barPrice \in Nat \ {0}
      BY <1>1
    <3> QED
      BY <3>1 DEF Sized
  <2>2. quantity \in Int
    BY <2>1 DEF OrderQuantity, Abs
  <2> QED
    BY <1>1, <2>2
<1>5. fee \in Int
  <2>1. price * quantity \in Int
    BY <1>3, <1>4
  <2>2. (price * quantity) * CommissionBps \in Int
    BY <2>1, BacktestAssumption
  <2> QED
    BY <2>2 DEF Commission
<1> DEFINE pnl == RealizedPnl(side, quantity)
           average == IF target = 0 THEN 0
                      ELSE IF position = 0 \/ (position > 0) # (target > 0) THEN price
                      ELSE averagePrice
<1>6. /\ capital' = capital + pnl - fee
      /\ averagePrice' = average
      /\ position' = target
      /\ cash' = cash - side * quantity * price - fee
  BY <1>1 DEF ProcessFill
<1> HIDE DEF quantity, price, fee
<1>7. /\ pnl \in Int /\ average \in Int /\ target \in Int
      /\ position * averagePrice + pnl + side * quantity * price = target * average
  <2>1. pnl = IF position > 0 /\ side < 0 THEN (price - averagePrice) * Lesser(position, quantity)
              ELSE IF position < 0 /\ side > 0
              THEN (averagePrice - price) * Lesser(-position, quantity)
              ELSE 0
    BY DEF RealizedPnl, price
  <2>2. target = position + side * quantity
    OBVIOUS
  <2>3. average = IF target = 0 THEN 0
                  ELSE IF position = 0 \/ (position > 0) # (target > 0) THEN price
                  ELSE averagePrice
    OBVIOUS
  <2>4. position \in Int /\ averagePrice \in Int
    OBVIOUS
  <2> HIDE DEF side, pnl, target, average, BacktestInv
  <2>5. CASE position = 0
    BY <1>2, <1>3, <1>4, <2>1, <2>2, <2>3, <2>4, <2>5, SMTT(30) DEF Lesser
  <2>6. CASE position > 0
    <3>1. side = -1
      BY <1>2, <2>4, <2>6
    <3>2. CASE quantity < position
      BY <1>3, <1>4, <2>1, <2>2, <2>3, <2>4, <2>6, <3>1, <3>2, SMTT(30) DEF Lesser
    <3>3. CASE quantity >= position
      BY <1>3, <1>4, <2>1, <2>2, <2>3, <2>4, <2>6, <3>1, <3>3, SMTT(30) DEF Lesser
    <3> QED
      BY <1>4, <2>4, <3>2, <3>3
  <2>7. CASE position < 0
    <3>1. side = 1
      BY <1>2, <2>4, <2>7
    <3>2. CASE quantity < -position
      BY <1>3, <1>4, <2>1, <2>2, <2>3, <2>4, <2>7, <3>1, <3>2, SMTT(30) DEF Lesser
    <3>3. CASE quantity >= -position
      BY <1>3, <1>4, <2>1, <2>2, <2>3, <2>4, <2>7, <3>1, <3>3, SMTT(30) DEF Lesser
    <3> QED
      BY <1>4, <2>4, <3>2, <3>3
  <2> QED
    BY <2>4, <2>5, <2>6, <2>7
<1> HIDE DEF pnl, average, target, side
<1>8. side * quantity * price \in Int /\ position * averagePrice \in Int /\ target * average \in Int
  BY <1>2, <1>3, <1>4, <1>7
<1>9. capital' = cash' + position' * averagePrice'
  BY <1>5, <1>6, <1>7, <1>8 DEF CapitalExplained
<1>10. cash' \in Int /\ capital' \in Int
  BY <1>5, <1>6, <1>7, <1>8
<1> QED
  BY <1>1, <1>6, <1>7, <1>9, <1>10 DEF CapitalExplained

LEMMA BacktestInvStep == BacktestInv /\ [BacktestNext]_backtestVars => BacktestInv'
<1> SUFFICES ASSUME BacktestInv, [BacktestNext]_backtestVars PROVE BacktestInv'
  OBVIOUS
<1>1. ASSUME NEW p \in BarPrices, BacktestBar(p) PROVE BacktestInv'
  <2>1. UNCHANGED <<position, averagePrice, capital, cash>> /\ barPrice' = p
    BY <1>1 DEF BacktestBar
  <2>2. p \in Nat
    BY BacktestAssumption
  <2>3. CapitalExplained'
    BY <2>1 DEF BacktestInv, CapitalExplained
  <2> QED
    BY <2>1, <2>2, <2>3 DEF BacktestInv
<1>2. ASSUME NEW direction \in {-1, 0, 1}, BacktestSignal(direction) PROVE BacktestInv'
  BY <1>2, SignalStep
<1>3. CASE UNCHANGED backtestVars
  BY <1>3 DEF backtestVars, BacktestInv, CapitalExplained
<1> QED
  BY <1>1, <1>2, <1>3 DEF BacktestNext

\* For any prices, capital, slippage, commission and sequence of signals, also
\* after ruin: the capital is what the fills brought and cost plus the position at
\* its average price (Backtester._process_fill).
THEOREM CapitalExplainedAlways == BacktestSpec => []CapitalExplained
<1>1. BacktestInv => CapitalExplained
  BY DEF BacktestInv
<1> QED
  BY <1>1, BacktestInvInit, BacktestInvStep, PTL DEF BacktestSpec
-----------------------------------------------------------------------------
\* Entries are numbered below the next number, and every vector has its entry but the
\* vectors of some experiences.
Fits(vectors, entries, next, except) ==
    /\ next \in Nat /\ DOMAIN entries \subseteq Nat
    /\ \A n \in DOMAIN entries : n < next
    /\ \A v \in vectors : v[2] \notin except => v[1] \in DOMAIN entries /\ entries[v[1]] = v[2]

\* The experiences of X have an entry, and a vector under its number.
Kept(vectors, entries, X) ==
    \A x \in X : \E n \in DOMAIN entries : entries[n] = x /\ <<n, x>> \in vectors

Owed == announced \ (dropped \cup lost)

\* Memory is sound but for the orphaned; the table on disk is sound with the vectors on
\* disk, and with those about to be written, but for the unsaved as well.  What is
\* announced was neither orphaned nor unsaved, and what will be is held.
MemoryInv ==
    /\ Fits(index, table, nextId, orphaned) /\ Kept(index, table, Owed)
    /\ diskTable.whole =>
         /\ Fits(index, diskTable.table, diskTable.nextId, orphaned \cup unsaved)
         /\ Kept(index, diskTable.table, Owed)
    /\ diskTable.whole /\ diskIndex.whole =>
         /\ Fits(diskIndex.vectors, diskTable.table, diskTable.nextId, orphaned \cup unsaved)
         /\ Kept(diskIndex.vectors, diskTable.table, Owed)
    /\ persisting = "table" => diskIndex = IndexFile
    /\ then # Nothing => Kept(index, table, {then}) /\ then \in saved \ orphaned
    /\ \A x \in announced : x \notin orphaned \cup unsaved
    /\ orphaned \cup unsaved \cup announced \subseteq saved

LEMMA MemoryInvInit == MemoryInit => MemoryInv
BY DEF MemoryInit, MemoryInv, Fits, Kept, Owed, NoTable, NoIndexFile, NoTableFile

LEMMA AddFact ==
    ASSUME NEW except, Fits(index, table, nextId, except), NEW x, Add(x)
    PROVE  /\ Fits(index', table', nextId', except)
           /\ \A X : Kept(index, table, X) => Kept(index', table', X \cup {x})
           /\ \A v \in index' : v \in index \/ v[2] = x
           /\ index \subseteq index'
<1>1. nextId \in Nat /\ nextId' = nextId + 1 /\ nextId \notin DOMAIN table
  BY DEF Fits, Add
<1>2. /\ DOMAIN table' = DOMAIN table \cup {nextId} /\ table'[nextId] = x
      /\ \A n \in DOMAIN table : table'[n] = table[n]
  BY <1>1 DEF Add
<1>3. index' = index \cup {<<nextId, x>>}
  BY DEF Add
<1>4. nextId' \in Nat /\ DOMAIN table' \subseteq Nat /\ \A n \in DOMAIN table' : n < nextId'
  <2>1. DOMAIN table \subseteq Nat /\ \A n \in DOMAIN table : n < nextId
    BY DEF Fits
  <2> QED
    BY <1>1, <1>2, <2>1
<1>5. Fits(index', table', nextId', except)
  <2>1. SUFFICES ASSUME NEW v \in index', v[2] \notin except
                 PROVE  v[1] \in DOMAIN table' /\ table'[v[1]] = v[2]
    BY <1>4 DEF Fits
  <2>2. CASE v \in index
    BY <1>2, <2>1, <2>2 DEF Fits
  <2>3. CASE v = <<nextId, x>>
    BY <1>2, <2>3
  <2> QED
    BY <1>3, <2>2, <2>3
<1>6. ASSUME NEW X, Kept(index, table, X) PROVE Kept(index', table', X \cup {x})
  <2>1. SUFFICES ASSUME NEW y \in X \cup {x}
                 PROVE  \E n \in DOMAIN table' : table'[n] = y /\ <<n, y>> \in index'
    BY DEF Kept
  <2>2. CASE y = x
    BY <1>2, <1>3, <2>2
  <2>3. CASE y \in X
    <3>1. PICK n \in DOMAIN table : table[n] = y /\ <<n, y>> \in index
      BY <1>6, <2>3 DEF Kept
    <3> QED
      BY <1>2, <1>3, <3>1
  <2> QED
    BY <2>2, <2>3
<1> QED
  BY <1>3, <1>5, <1>6

LEMMA OnTradeClosedStep ==
    ASSUME MemoryInv, NEW s, NEW x, OnTradeClosed(s, x)
    PROVE  MemoryInv'
<1>1. /\ persisting = "no" /\ persisting' = "index" /\ then' = x /\ Add(x)
      /\ x \notin saved /\ saved' = saved \cup {x} /\ unsaved' = unsaved \cup {x}
      /\ UNCHANGED <<diskIndex, diskTable, announced, dropped, orphaned, lost>>
  BY DEF OnTradeClosed, Idle
<1>2. Owed' = Owed
  BY <1>1 DEF Owed
<1>3. /\ Fits(index', table', nextId', orphaned)
      /\ \A v \in index' : v \in index \/ v[2] = x
      /\ index \subseteq index'
  BY <1>1, AddFact DEF MemoryInv
<1>4. Kept(index', table', Owed \cup {x})
  BY <1>1, AddFact DEF MemoryInv
<1>5. Kept(index', table', Owed) /\ Kept(index', table', {x})
  BY <1>4 DEF Kept
<1>6. diskTable.whole =>
        /\ Fits(index', diskTable.table, diskTable.nextId, orphaned \cup unsaved')
        /\ Kept(index', diskTable.table, Owed)
  BY <1>1, <1>3 DEF MemoryInv, Fits, Kept
<1>7. diskTable.whole /\ diskIndex.whole =>
        /\ Fits(diskIndex.vectors, diskTable.table, diskTable.nextId, orphaned \cup unsaved')
        /\ Kept(diskIndex.vectors, diskTable.table, Owed)
  BY <1>1 DEF MemoryInv, Fits
<1>8. /\ x \notin orphaned /\ orphaned \cup unsaved' \cup announced \subseteq saved'
      /\ \A y \in announced : y \notin orphaned \cup unsaved \/ y = x
  BY <1>1 DEF MemoryInv
<1>9. x \notin announced
  BY <1>1 DEF MemoryInv
<1> QED
  BY <1>1, <1>2, <1>3, <1>5, <1>6, <1>7, <1>8, <1>9 DEF MemoryInv

LEMMA DeleteStep ==
    ASSUME MemoryInv, NEW x, Delete(x)
    PROVE  MemoryInv'
<1>1. PICK n \in DOMAIN table :
        /\ table[n] = x
        /\ index' = {v \in index : v[1] # n}
        /\ table' = [m \in DOMAIN table \ {n} |-> table[m]]
  BY DEF Delete
<1>2. /\ persisting = "no" /\ persisting' = "index" /\ then' = Nothing
      /\ dropped' = dropped \cup {x}
      /\ UNCHANGED <<nextId, diskIndex, diskTable, announced, saved, unsaved, orphaned, lost>>
  BY DEF Delete, Idle
<1>3. DOMAIN table' = DOMAIN table \ {n} /\ \A m \in DOMAIN table' : table'[m] = table[m]
  BY <1>1
<1>4. Owed' = Owed \ {x}
  BY <1>2 DEF Owed
<1>5. Fits(index', table', nextId', orphaned)
  BY <1>1, <1>2, <1>3 DEF MemoryInv, Fits
<1>6. \A y \in Owed' : <<n, y>> \notin index
  <2>1. SUFFICES ASSUME NEW y \in Owed', <<n, y>> \in index PROVE FALSE
    OBVIOUS
  <2>2. y \notin orphaned /\ y # x
    BY <1>4 DEF MemoryInv, Owed
  <2>3. <<n, y>>[1] = n /\ <<n, y>>[2] = y
    OBVIOUS
  <2>4. table[n] = y
    BY <2>1, <2>2, <2>3 DEF MemoryInv, Fits
  <2> QED
    BY <1>1, <2>2, <2>4
<1>7. ASSUME NEW m, NEW y \in Owed', <<m, y>> \in index PROVE <<m, y>> \in index' /\ m # n
  <2>1. m # n
    BY <1>6, <1>7
  <2> QED
    BY <1>1, <1>7, <2>1
<1>8. Kept(index', table', Owed')
  <2>1. SUFFICES ASSUME NEW y \in Owed'
                 PROVE  \E m \in DOMAIN table' : table'[m] = y /\ <<m, y>> \in index'
    BY DEF Kept
  <2>2. PICK m \in DOMAIN table : table[m] = y /\ <<m, y>> \in index
    BY <1>4 DEF MemoryInv, Kept
  <2> QED
    BY <1>3, <1>7, <2>2
<1>9. diskTable.whole =>
        /\ Fits(index', diskTable.table, diskTable.nextId, orphaned \cup unsaved)
        /\ Kept(index', diskTable.table, Owed')
  <2>1. SUFFICES ASSUME diskTable.whole
                 PROVE  /\ Fits(index', diskTable.table, diskTable.nextId, orphaned \cup unsaved)
                        /\ Kept(index', diskTable.table, Owed')
    OBVIOUS
  <2>2. Fits(index', diskTable.table, diskTable.nextId, orphaned \cup unsaved)
    BY <1>1, <2>1 DEF MemoryInv, Fits
  <2>3. Kept(index', diskTable.table, Owed')
    BY <1>4, <1>7, <2>1 DEF MemoryInv, Kept
  <2> QED
    BY <2>2, <2>3
<1>10. diskTable.whole /\ diskIndex.whole => Kept(diskIndex.vectors, diskTable.table, Owed')
  BY <1>4 DEF MemoryInv, Kept
<1> QED
  BY <1>2, <1>5, <1>8, <1>9, <1>10 DEF MemoryInv

LEMMA PersistTableStep ==
    ASSUME MemoryInv, PersistTable
    PROVE  MemoryInv'
<1>1. /\ diskIndex = IndexFile /\ diskTable' = TableFile
      /\ persisting' = "no" /\ then' = Nothing /\ unsaved' = {}
      /\ announced' = IF then = Nothing THEN announced ELSE announced \cup {then}
      /\ UNCHANGED <<index, table, nextId, diskIndex, saved, dropped, orphaned, lost>>
  BY DEF PersistTable, MemoryInv
<1>2. /\ diskIndex'.vectors = index /\ diskTable'.table = table
      /\ diskTable'.nextId = nextId
  BY <1>1 DEF IndexFile, TableFile
<1>3. Kept(index, table, Owed')
  BY <1>1 DEF MemoryInv, Kept, Owed
<1>4. Fits(index, table, nextId, orphaned)
  BY DEF MemoryInv
<1>5. Fits(index, table, nextId, orphaned \cup {})
  BY <1>4 DEF Fits
<1>6. \A x \in announced' : x \notin orphaned
  BY <1>1 DEF MemoryInv
<1>7. orphaned \cup announced' \subseteq saved
  BY <1>1 DEF MemoryInv
<1> QED
  BY <1>1, <1>2, <1>3, <1>4, <1>5, <1>6, <1>7 DEF MemoryInv

LEMMA MemoryCrashStep ==
    ASSUME MemoryInv, MemoryCrash
    PROVE  MemoryInv'
<1>1. /\ persisting' = "no" /\ then' = Nothing
      /\ orphaned' = orphaned \cup unsaved /\ unsaved' = {}
      /\ UNCHANGED <<saved, announced, dropped>>
      /\ IF Readable
         THEN /\ index' = diskIndex'.vectors
              /\ table' = diskTable'.table /\ nextId' = diskTable'.nextId
              /\ UNCHANGED lost
         ELSE /\ index' = {} /\ table' = NoTable /\ nextId' = 0
              /\ lost' = lost \cup announced
  BY DEF MemoryCrash
<1>2. \/ UNCHANGED <<diskIndex, diskTable>>
      \/ diskIndex' = NoIndexFile /\ UNCHANGED diskTable
      \/ diskTable' = NoTableFile /\ UNCHANGED diskIndex
  BY DEF MemoryCrash
<1>3. /\ \A x \in announced' : x \notin orphaned' \cup unsaved'
      /\ orphaned' \cup unsaved' \cup announced' \subseteq saved'
      /\ orphaned' \cup unsaved' = orphaned'
  BY <1>1 DEF MemoryInv
<1>4. CASE Readable
  <2>1. UNCHANGED <<diskIndex, diskTable>> /\ diskIndex.whole /\ diskTable.whole
    BY <1>2, <1>4 DEF Readable, NoIndexFile, NoTableFile
  <2>2. Owed' = Owed
    BY <1>1, <1>4 DEF Owed
  <2>3. Fits(index', table', nextId', orphaned') /\ Kept(index', table', Owed')
    BY <1>1, <1>4, <2>1, <2>2 DEF MemoryInv
  <2>4. /\ index' = diskIndex'.vectors /\ table' = diskTable'.table
        /\ nextId' = diskTable'.nextId
    BY <1>1, <1>4
  <2>5. /\ Fits(diskIndex'.vectors, diskTable'.table, diskTable'.nextId, orphaned' \cup unsaved')
        /\ Kept(diskIndex'.vectors, diskTable'.table, Owed')
    BY <1>3, <2>3, <2>4
  <2>6. /\ Fits(index', diskTable'.table, diskTable'.nextId, orphaned' \cup unsaved')
        /\ Kept(index', diskTable'.table, Owed')
    BY <2>4, <2>5
  <2> QED
    BY <1>1, <1>3, <2>3, <2>5, <2>6 DEF MemoryInv
<1>5. CASE ~Readable
  <2>1. index' = {} /\ table' = NoTable /\ nextId' = 0 /\ Owed' = {}
    BY <1>1, <1>5 DEF Owed
  <2>2. Fits(index', table', nextId', orphaned') /\ Kept(index', table', Owed')
    BY <2>1 DEF Fits, Kept, NoTable
  <2>3. diskTable'.whole =>
          /\ Fits(index', diskTable'.table, diskTable'.nextId, orphaned' \cup unsaved')
          /\ Kept(index', diskTable'.table, Owed')
    <3>1. SUFFICES ASSUME diskTable'.whole
                   PROVE  /\ Fits({}, diskTable'.table, diskTable'.nextId, orphaned' \cup unsaved')
                          /\ Kept({}, diskTable'.table, {})
      BY <2>1
    <3>2. diskTable' = diskTable
      BY <1>2, <3>1 DEF NoTableFile
    <3> QED
      BY <3>1, <3>2 DEF MemoryInv, Fits, Kept
  <2>4. ~(diskTable'.whole /\ diskIndex'.whole)
    BY <1>5 DEF Readable
  <2> QED
    BY <1>1, <1>3, <2>2, <2>3, <2>4 DEF MemoryInv
<1> QED
  BY <1>4, <1>5

LEMMA MemoryInvStep == MemoryInv /\ [MemoryNext]_memoryVars => MemoryInv'
<1> SUFFICES ASSUME MemoryInv, [MemoryNext]_memoryVars PROVE MemoryInv'
  OBVIOUS
<1>1. CASE UNCHANGED <<storeVars, historyVars>>
  BY <1>1 DEF storeVars, historyVars, MemoryInv, Fits, Kept, Owed, IndexFile
<1>2. CASE PersistIndex
  <2>1. /\ diskIndex' = IndexFile /\ persisting' = "table"
        /\ UNCHANGED <<index, table, nextId, then, diskTable, historyVars>>
    BY <1>2 DEF PersistIndex
  <2>2. diskIndex'.vectors = index /\ IndexFile' = IndexFile /\ Owed' = Owed
    BY <2>1 DEF IndexFile, Owed, historyVars
  <2> QED
    BY <2>1, <2>2 DEF MemoryInv, historyVars
<1>3. CASE PersistFails
  <2>1. /\ persisting' = "no" /\ then' = Nothing
        /\ UNCHANGED <<index, table, nextId, historyVars>>
        /\ \/ diskIndex' = NoIndexFile /\ UNCHANGED diskTable
           \/ diskTable' = NoTableFile /\ UNCHANGED diskIndex
    BY <1>3 DEF PersistFails
  <2>2. ~(diskTable'.whole /\ diskIndex'.whole) /\ (diskTable'.whole => diskTable' = diskTable)
    BY <2>1 DEF NoIndexFile, NoTableFile
  <2>3. Owed' = Owed
    BY <2>1 DEF Owed, historyVars
  <2> QED
    BY <2>1, <2>2, <2>3 DEF MemoryInv, historyVars
<1>4. CASE UNCHANGED memoryVars
  BY <1>1, <1>4 DEF memoryVars, storeVars, historyVars
<1>5. ASSUME NEW s \in Instruments, OnMarketEvent(s) \/ OnPositionOpened(s)
      PROVE  MemoryInv'
  BY <1>1, <1>5 DEF OnMarketEvent, OnPositionOpened
<1> QED
  BY <1>2, <1>3, <1>4, <1>5, OnTradeClosedStep, DeleteStep, PersistTableStep, MemoryCrashStep
     DEF MemoryNext

\* For any experiences, deletions, failed writes and deaths of the process between the
\* two writes or within one: a search finds what was announced, unless a cut file
\* emptied the memory, and nothing in its place; only an experience whose own save did
\* not end may find another (FaissVectorStore._persist).
THEOREM MemoryIsFaithfulAlways == MemorySpec => []MemoryIsFaithful
<1>1. MemoryInv => MemoryIsFaithful
  <2>1. ASSUME MemoryInv, NEW x \in Experiences \ orphaned
        PROVE  Found(x) \subseteq {x}
    <3>1. SUFFICES ASSUME NEW n \in DOMAIN table, <<n, x>> \in index PROVE table[n] = x
      BY DEF Found
    <3>2. <<n, x>>[1] = n /\ <<n, x>>[2] = x
      OBVIOUS
    <3> QED
      BY <2>1, <3>1, <3>2 DEF MemoryInv, Fits
  <2>2. ASSUME MemoryInv, NEW x \in Owed
        PROVE  x \in Found(x)
    <3>1. PICK n \in DOMAIN table : table[n] = x /\ <<n, x>> \in index
      BY <2>2 DEF MemoryInv, Kept
    <3> QED
      BY <3>1 DEF Found
  <2> QED
    BY <2>1, <2>2 DEF MemoryIsFaithful, SearchIsFaithful, AnnouncedIsRemembered, Owed
<1> QED
  BY <1>1, MemoryInvInit, MemoryInvStep, PTL DEF MemorySpec
-----------------------------------------------------------------------------
\* Max and Min of a nonempty set of naturals with an upper bound are what they say.
LEMMA ExtremaFact ==
    ASSUME NEW S, NEW bound \in Nat, S \subseteq 0..bound, S # {}
    PROVE  /\ Min(S) \in S /\ \A t \in S : Min(S) <= t
           /\ Max(S) \in S /\ \A t \in S : t <= Max(S)
<1>1. \E l \in S : \A t \in S : l <= t
  <2>1. S \in SUBSET Nat
    OBVIOUS
  <2> QED
    BY <2>1, SmallestMember
<1>2. \E h \in S : \A t \in S : h >= t
  <2> DEFINE Gaps == {bound - t : t \in S}
  <2>1. Gaps \in SUBSET Nat /\ Gaps # {}
    <3>1. \A t \in S : bound - t \in Nat
      OBVIOUS
    <3> QED
      BY <3>1
  <2>2. \E g \in Gaps : \A h \in Gaps : g <= h
    BY <2>1, SmallestMember
  <2>3. PICK l \in S : \A h \in Gaps : bound - l <= h
    BY <2>2
  <2>4. \A t \in S : bound - l <= bound - t
    BY <2>3
  <2>5. \A t \in S : l >= t
    BY <2>4
  <2> QED
    BY <2>5
<1>3. Min(S) \in S /\ \A t \in S : Min(S) <= t
  BY <1>1 DEF Min
<1>4. Max(S) \in S /\ \A t \in S : Max(S) >= t
  BY <1>2 DEF Max
<1>5. \A t \in S : t <= Max(S)
  BY <1>4
<1> QED
  BY <1>3, <1>4, <1>5

\* Between a time and the Friday close before it lies only the week-end.
LEMMA FridayFact ==
    ASSUME NEW t \in Nat
    PROVE  /\ FridayClose(t) \in 0..t
           /\ \A u \in 1..t : u \notin Weekend => u <= FridayClose(t)
           /\ FridayClose(t) \notin Weekend
<1> DEFINE Open == {0} \cup {u \in 1..t : u \notin Weekend}
<1>1. Open \subseteq 0..t /\ Open # {}
  OBVIOUS
<1>2. Max(Open) \in Open /\ \A u \in Open : u <= Max(Open)
  BY <1>1, ExtremaFact
<1>3. FridayClose(t) = Max(Open)
  BY DEF FridayClose
<1>4. \A u \in Open : u \notin Weekend
  BY PagesAssumption
<1> QED
  BY <1>1, <1>2, <1>3, <1>4

\* The next cursor lies below the page, and skips only the week-end.
LEMMA CursorFact ==
    ASSUME NEW page, NEW last \in Nat, page \subseteq 1..last, page # {}
    PROVE  /\ CursorBelow(page) \in 0..last
           /\ \A t \in page : CursorBelow(page) < t
           /\ \A t \in Nat : t < Min(page) /\ t \notin Weekend => t <= CursorBelow(page)
           /\ CursorBelow(page) \notin Weekend
<1>1. page \subseteq 0..last
  OBVIOUS
<1>2. Min(page) \in page /\ \A t \in page : Min(page) <= t
  BY <1>1, ExtremaFact
<1> DEFINE before == Min(page) - 1
<1>3. before \in 0..last /\ \A t \in page : before < t
  <2>1. Min(page) \in 1..last
    BY <1>2
  <2>2. \A t \in page : t \in 1..last /\ Min(page) <= t
    BY <1>2
  <2> HIDE DEF before
  <2>3. before = Min(page) - 1
    BY DEF before
  <2> QED
    BY <2>1, <2>2, <2>3
<1>4. /\ FridayClose(before) \in 0..before
      /\ \A u \in 1..before : u \notin Weekend => u <= FridayClose(before)
      /\ FridayClose(before) \notin Weekend
  BY <1>3, FridayFact
<1>5. CursorBelow(page) = IF before \in Weekend THEN FridayClose(before) ELSE before
  BY DEF CursorBelow
<1>6. \A t \in Nat : t < Min(page) => t <= before
  <2>1. Min(page) \in 1..last
    BY <1>2
  <2> QED
    BY <2>1
<1> HIDE DEF before
<1>7. CursorBelow(page) \in 0..before
  BY <1>3, <1>4, <1>5
<1>8. ASSUME NEW t \in Nat, t <= before, t \notin Weekend
      PROVE  t <= CursorBelow(page)
  BY <1>3, <1>4, <1>5, <1>8
<1>9. \A t \in page : CursorBelow(page) < t
  BY <1>1, <1>3, <1>7
<1>10. CursorBelow(page) \notin Weekend
  BY <1>4, <1>5
<1> QED
  BY <1>3, <1>6, <1>7, <1>8, <1>9, <1>10

\* The cursor separates what was received from what was not: none of it is at or
\* below the cursor, which is not in the week-end, and while pages are asked for every
\* candle above it is there.  An answer that brings nothing then leaves nothing behind
\* unless the server kept it back.
PagesInv ==
    /\ traded \subseteq 1..LastCandle /\ got \subseteq traded /\ end \in 0..LastCandle
    /\ end = LastCandle \/ end \notin Weekend
    /\ paging => \A t \in traded \ Weekend : end < t => t \in got
    /\ PagesLeaveNoHole

LEMMA PagesInvInit == PagesInit => PagesInv
<1> SUFFICES ASSUME PagesInit PROVE PagesInv
  OBVIOUS
<1>1. \A t \in 1..LastCandle : ~(LastCandle < t)
  BY PagesAssumption
<1> QED
  BY <1>1, PagesAssumption DEF PagesInit, PagesInv, PagesLeaveNoHole

LEMMA FetchPageStep ==
    ASSUME PagesInv, FetchPage
    PROVE  PagesInv'
<1> USE PagesAssumption DEF PagesInv, PagesLeaveNoHole
<1>1. PICK page \in Pages(end) :
        /\ paging /\ UNCHANGED <<traded, cut>>
        /\ IF page = {}
           THEN /\ IF end # LastCandle /\ end \in Weekend
                   THEN end' = FridayClose(end) /\ UNCHANGED paging
                   ELSE paging' = FALSE /\ UNCHANGED end
                /\ UNCHANGED got
           ELSE /\ got' = got \cup page
                /\ IF Exhausted(page) THEN paging' = FALSE /\ UNCHANGED end
                   ELSE end' = CursorBelow(page) /\ UNCHANGED paging
        /\ silent' = (silent \/ (page \subseteq got /\ Older(end) # {}))
  BY DEF FetchPage
<1>2. CASE page \subseteq got
  <2>1. UNCHANGED <<traded, got, end, cut>> /\ paging' = FALSE
    <3>1. CASE page = {}
      BY <1>1, <3>1
    <3>2. CASE page # {}
      BY <1>1, <1>2, <3>2 DEF Exhausted
    <3> QED
      BY <3>1, <3>2
  <2>2. ~silent' => traded \ Weekend \subseteq got
    <3>1. SUFFICES ASSUME ~silent', NEW t \in traded \ Weekend PROVE t \in got
      OBVIOUS
    <3>2. Older(end) = {}
      BY <1>1, <1>2, <3>1
    <3>3. end < t
      <4>1. ~(t <= end)
        BY <3>1, <3>2 DEF Older
      <4> QED
        BY <4>1
    <3> QED
      BY <1>1, <3>3
  <2>3. \A t \in traded \ (got \cup Weekend) : \A u \in got : t < u
    <3>1. SUFFICES ASSUME NEW t \in traded \ (got \cup Weekend), NEW u \in got PROVE t < u
      OBVIOUS
    <3>2. ~(end < t) /\ end < u
      BY <1>1
    <3> QED
      BY <3>2
  <2> QED
    BY <2>1, <2>2, <2>3
<1>3. CASE ~(page \subseteq got)
  <2>1. PICK from \in Older(end), to \in end..LastCandle :
          page = {t \in traded : from <= t /\ t <= to}
    BY <1>3 DEF Pages
  <2>2. /\ from \in traded /\ from <= end /\ from \in page
        /\ page \subseteq 1..LastCandle /\ page \subseteq traded
        /\ \A t \in page : from <= t
        /\ page \subseteq Int /\ {from, end, to} \subseteq Int
    <3>1. from \in traded /\ from <= end
      BY DEF Older
    <3>2. from \in Int /\ end \in Int /\ to \in Int /\ end <= to
      BY <3>1
    <3>3. from <= from /\ from <= to
      BY <3>1, <3>2
    <3>4. from \in page
      BY <2>1, <3>1, <3>3
    <3>5. page \subseteq traded /\ page \subseteq 1..LastCandle
      BY <2>1
    <3>6. \A t \in page : from <= t
      BY <2>1
    <3> QED
      BY <3>1, <3>2, <3>4, <3>5, <3>6
  <2>3. page # {} /\ ~Exhausted(page)
    BY <1>3 DEF Exhausted
  <2>4. /\ got' = got \cup page /\ end' = CursorBelow(page)
        /\ UNCHANGED <<traded, paging, cut>>
    BY <1>1, <2>3
  <2>5. /\ end' \in 0..LastCandle /\ end' \in Int
        /\ \A t \in page : end' < t
        /\ \A t \in Nat : t < Min(page) /\ t \notin Weekend => t <= end'
        /\ end' \notin Weekend
    <3>1. LastCandle \in Nat /\ page \subseteq 1..LastCandle /\ page # {}
      BY <2>2, <2>3
    <3>2. /\ CursorBelow(page) \in 0..LastCandle
          /\ \A t \in page : CursorBelow(page) < t
          /\ \A t \in Nat : t < Min(page) /\ t \notin Weekend => t <= CursorBelow(page)
          /\ CursorBelow(page) \notin Weekend
      BY <3>1, CursorFact
    <3> QED
      BY <2>4, <3>2
  <2>6. Min(page) = from
    <3>1. Min(page) \in page /\ \A t \in page : Min(page) <= t
      <4>1. page \subseteq 0..LastCandle
        BY <2>2
      <4> QED
        BY <2>3, <4>1, ExtremaFact
    <3>2. from <= Min(page) /\ Min(page) <= from /\ Min(page) \in Int
      BY <2>2, <3>1
    <3> QED
      BY <2>2, <3>2
  <2>7. ASSUME NEW t \in traded \ Weekend, end' < t PROVE t \in got'
    <3>1. t >= from
      <4>1. t \in Nat /\ from \in Int /\ end' < t
        BY <2>2, <2>7
      <4>2. ~(t < from)
        BY <2>5, <2>6, <2>7, <4>1
      <4> QED
        BY <4>1, <4>2
    <3>2. CASE t <= end
      BY <2>1, <2>4, <3>1, <3>2
    <3>3. CASE end < t
      BY <1>1, <2>4, <3>3
    <3> QED
      BY <3>2, <3>3
  <2>8. \A t \in got' : end' < t
    <3>1. end' < from /\ from <= end
      BY <2>2, <2>5
    <3>2. \A t \in got : end < t /\ t \in Int
      OBVIOUS
    <3>3. \A t \in got : end' < t
      BY <2>2, <2>5, <3>1, <3>2
    <3> QED
      BY <2>4, <2>5, <3>3
  <2>9. \A t \in traded \ (got' \cup Weekend) : \A u \in got' : t < u
    <3>1. SUFFICES ASSUME NEW t \in traded \ (got' \cup Weekend), NEW u \in got' PROVE t < u
      OBVIOUS
    <3>2. ~(end' < t) /\ end' < u
      BY <2>7, <2>8
    <3>3. t \in Int /\ u \in Int
      BY <2>2, <2>4
    <3> QED
      BY <2>5, <3>2, <3>3
  <2> QED
    BY <1>1, <2>2, <2>4, <2>5, <2>7, <2>8, <2>9
<1> QED
  BY <1>2, <1>3

LEMMA PagesInvStep == PagesInv /\ [PagesNext]_pagesVars => PagesInv'
<1> SUFFICES ASSUME PagesInv, [PagesNext]_pagesVars PROVE PagesInv'
  OBVIOUS
<1>1. CASE FetchPage
  BY <1>1, FetchPageStep
<1>2. CASE RequestFails
  BY <1>2 DEF RequestFails, PagesInv, PagesLeaveNoHole
<1>3. CASE TargetReached
  <2> USE PagesAssumption DEF PagesInv, PagesLeaveNoHole
  <2>1. PICK latest \in SUBSET got :
          /\ Cardinality(latest) = TargetCount
          /\ \A t \in got \ latest, u \in latest : t < u
          /\ got' = latest
    BY <1>3 DEF TargetReached
  <2>2. paging /\ paging' = FALSE /\ UNCHANGED <<traded, end, cut, silent>>
    BY <1>3 DEF TargetReached
  <2>3. ~(Cardinality(got') < TargetCount)
    BY <2>1
  <2>4. \A t \in traded \ (got' \cup Weekend) : \A u \in got' : t < u
    <3>1. SUFFICES ASSUME NEW t \in traded \ (got' \cup Weekend), NEW u \in got' PROVE t < u
      OBVIOUS
    <3>2. CASE t \in got
      BY <2>1, <3>2
    <3>3. CASE t \notin got
      <4>1. ~(end < t) /\ end < u
        BY <2>1, <2>2, <3>3
      <4>2. t \in Int /\ u \in Int
        BY <2>1
      <4> QED
        BY <4>1, <4>2
    <3> QED
      BY <3>2, <3>3
  <2> QED
    BY <2>1, <2>2, <2>3, <2>4
<1>4. CASE UNCHANGED pagesVars
  BY <1>4 DEF pagesVars, PagesInv, PagesLeaveNoHole
<1> QED
  BY <1>1, <1>2, <1>3, <1>4 DEF PagesNext

\* For any calendar, and pages of any length that start and end where they will, are
\* sent again or bring nothing: they join up outside the week-end below one cursor,
\* and a history that ends early is at its end unless a request failed or the server
\* kept older candles back (DerivHistoricalData.fetch_candles_paginated).
THEOREM PagesLeaveNoHoleAlways == PagesSpec => []PagesLeaveNoHole
<1>1. PagesInv => PagesLeaveNoHole
  BY DEF PagesInv
<1> QED
  BY <1>1, PagesInvInit, PagesInvStep, PTL DEF PagesSpec

\* What holds of each service holds of all of them interleaved, as one process runs them
\* (MCServices checks this specification).
THEOREM ServicesSafe ==
  Spec => [](/\ OverlappingSyncsLeaveNoHole
             /\ OnlyTheLastUnfinished
             /\ DataHasItsManifest
             /\ ActivePolicyLoads
             /\ PromotedPassedOutOfSample
             /\ MemoryIsFaithful
             /\ PagesLeaveNoHole
             /\ CapitalExplained)
  BY EachServiceIsKept, NoHoleAlways, OnlyTheLastUnfinishedAlways,
     DataHasItsManifestAlways, ActivePolicyLoadsAlways, PromotedPassedAlways,
     MemoryIsFaithfulAlways, PagesLeaveNoHoleAlways, CapitalExplainedAlways, PTL
=============================================================================
