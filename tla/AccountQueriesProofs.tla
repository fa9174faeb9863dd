------------------------ MODULE AccountQueriesProofs ------------------------
(***************************************************************************)
(* ModelCache's theorem carried over to the composition: whichever of the  *)
(* questions the host asks, the models told are the account's own.  And    *)
(* the quota cache beside it: what a fetch tells is never older than what  *)
(* it found when it began.  The picker's theorems hold here too.           *)
(***************************************************************************)
EXTENDS AccountQueries, UsageRollupProofs

Lists == INSTANCE ModelCacheProofs WITH Accounts <- Owners

\* Both instances of ModelCache define the same.
LEMMA SameDefinitions ==
  /\ \A a : Models!IdleLookup(a) = Lists!IdleLookup(a)
  /\ \A a, s : Models!CacheKey(a, s) = Lists!CacheKey(a, s)
  /\ \A m : Models!Discovered(m) = Lists!Discovered(m)
  /\ Models!Configured = Lists!Configured
BY DEF Models!IdleLookup, Lists!IdleLookup, Models!CacheKey, Lists!CacheKey,
       Models!Discovered, Lists!Discovered, Models!Configured, Lists!Configured

LEMMA SameStore == \A k, m : Models!Store(k, m) = Lists!Store(k, m)
<1>1. Models!Live = Lists!Live
  BY DEF Models!Live, Lists!Live
<1>2. Models!Room <=> Lists!Room
  BY <1>1 DEF Models!Room, Lists!Room, Models!Cardinality, Lists!Cardinality
<1> QED
  BY <1>1, <1>2 DEF Models!Store, Lists!Store

LEMMA SameNext == Models!Next => Lists!Next
<1> SUFFICES ASSUME Models!Next PROVE Lists!Next
  OBVIOUS
<1>1. CASE Models!Tick
  BY <1>1 DEF Models!Tick, Lists!Tick, Lists!Next
<1>2. ASSUME NEW s \in Settings, Models!Reconfigure(s) PROVE Lists!Next
  BY <1>2 DEF Models!Reconfigure, Lists!Reconfigure, Lists!Next
<1>3. ASSUME NEW l \in Lookups, NEW a \in Owners, NEW valid \in BOOLEAN,
             Models!ModelsForAuth(l, a, valid)
      PROVE Lists!Next
  <2>1. Lists!ModelsForAuth(l, a, valid)
    BY <1>3, SameDefinitions DEF Models!ModelsForAuth, Lists!ModelsForAuth
  <2> QED
    BY <2>1 DEF Lists!Next
<1>4. ASSUME NEW l \in Lookups, NEW some \in BOOLEAN, Models!AgentAnswers(l, some)
      PROVE Lists!Next
  BY <1>4 DEF Models!AgentAnswers, Lists!AgentAnswers, Lists!Next
<1>5. ASSUME NEW l \in Lookups, Models!AgentFails(l) PROVE Lists!Next
  BY <1>5 DEF Models!AgentFails, Lists!AgentFails, Lists!Next
<1>6. ASSUME NEW l \in Lookups, Models!Conclude(l) PROVE Lists!Next
  <2>1. Lists!Conclude(l)
    BY <1>6, SameDefinitions, SameStore DEF Models!Conclude, Lists!Conclude
  <2> QED
    BY <2>1 DEF Lists!Next
<1>7. ASSUME NEW l \in Lookups, Models!Return(l) PROVE Lists!Next
  BY <1>7, SameDefinitions DEF Models!Return, Lists!Return, Lists!Next
<1>8. ASSUME NEW l \in Lookups, Models!LookupAborts(l) PROVE Lists!Next
  BY <1>8, SameDefinitions DEF Models!LookupAborts, Lists!LookupAborts, Lists!Next
<1> QED
  BY <1>1, <1>2, <1>3, <1>4, <1>5, <1>6, <1>7, <1>8 DEF Models!Next

\* What asks for quotas moves the clock only, as a lookup may.
LEMMA QuotaIsATick == Next => UNCHANGED now \/ (now < MaxTime /\ now' = now + 1)
BY DEF Next, Tick, NumbersChange, Forget, QuotaFetch, QuotaRefresh, UpstreamAnswers, UpstreamFails,
       Put, Return

LEMMA QueriesAreLookups == QuerySpec => Lists!Spec
<1>1. QueryInit => Lists!Init
  BY SameDefinitions DEF QueryInit, Models!Init, Lists!Init
<1>2. AskQuota => [Lists!Next]_(Lists!vars)
  BY QuotaIsATick DEF AskQuota, Lists!Next, Lists!Tick, Lists!vars
<1>3. AskModels => [Lists!Next]_(Lists!vars)
  BY SameNext DEF AskModels
<1>4. AskAccount \/ UNCHANGED queryVars => [Lists!Next]_(Lists!vars)
  BY DEF AskAccount, queryVars, vars, Lists!vars
<1> QED
  BY <1>1, <1>2, <1>3, <1>4, PTL DEF QuerySpec, QueryNext, Lists!Spec

\* OwnCatalogue of model.for_auth (model_discovery.go:30-131), beside quota
\* fetches, for every instance.
THEOREM QueriesToldTheirOwn == QuerySpec => []OwnCatalogue
<1>1. Lists!ModelAssumption
  BY QueryAssumption DEF Models!ModelAssumption, Lists!ModelAssumption, Models!ToSet, Lists!ToSet
<1>2. Lists!Spec => []Lists!OwnCatalogue
  BY <1>1, Lists!AccountsToldTheirOwn
<1>3. Lists!OwnCatalogue => OwnCatalogue
  BY DEF OwnCatalogue, Models!OwnCatalogue, Lists!OwnCatalogue, Models!ToSet, Lists!ToSet
<1> QED
  BY <1>2, <1>3, QueriesAreLookups, PTL

-----------------------------------------------------------------------------
\* A fetch never has numbers of a generation to come, and what upstream gave it is no
\* older than the entry it found before it asked.
Sound(k) ==
  /\ k.seen.data <= numbers /\ k.got <= numbers
  /\ k.pc = "asking" => k.asked = TRUE /\ k.failed = FALSE /\ k.got = 0
  /\ k.pc = "storing" => \/ k.failed = TRUE /\ k.got = 0
                         \/ k.failed = FALSE /\ k.got >= k.seen.data
  /\ k.pc = "replied" /\ k.reply.ok = TRUE =>
       /\ k.seen.has = TRUE => k.reply.data >= k.seen.data
       /\ k.asked = TRUE /\ k.failed = FALSE => k.reply.data = k.got

CacheSound ==
  /\ cache \in [Accounts -> SnapshotType]
  /\ \A a \in Accounts : /\ cache[a].data <= numbers
                         /\ cache[a].error = TRUE => cache[a].data = 0

QuotaInv ==
  /\ now \in 0..MaxTime /\ numbers \in 0..MaxData
  /\ CacheSound
  /\ call \in [Calls -> CallType]
  /\ \A c \in Calls : Sound(call[c])

\* A step changes one fetch.
LEMMA OneCall ==
  ASSUME QuotaInv, NEW c \in Calls, NEW k \in CallType, Sound(k),
         call' = [call EXCEPT ![c] = k], UNCHANGED <<now, numbers>>, CacheSound'
  PROVE  QuotaInv'
<1>1. call' \in [Calls -> CallType]
  BY DEF QuotaInv
<1>2. ASSUME NEW d \in Calls PROVE Sound(call[d])'
  <2>1. Sound(call[d]) /\ (call'[d] = call[d] \/ call'[d] = k)
    BY DEF QuotaInv
  <2> QED
    BY <2>1 DEF Sound
<1> QED
  BY <1>1, <1>2 DEF QuotaInv

LEMMA IdleSound ==
  ASSUME NEW a \in Accounts, numbers \in 0..MaxData
  PROVE  IdleCall(a) \in CallType /\ Sound(IdleCall(a))
<1>1. NoSnapshot \in SnapshotType /\ NoSnapshot.data = 0 /\ 0 \in 0..MaxData /\ 0 \in 0..MaxTime
  BY QuotaAssumption DEF QuotaAssumption, NoSnapshot, SnapshotType
<1>2. NoReply \in [ok : BOOLEAN, data : 0..MaxData, error : BOOLEAN]
  BY <1>1 DEF NoReply
<1>3. IdleCall(a) \in CallType
  <2> HIDE DEF NoSnapshot, NoReply
  <2> QED
    BY <1>1, <1>2 DEF IdleCall, CallType, Credentials
<1>4. Sound(IdleCall(a))
  <2>1. numbers >= 0 /\ IdleCall(a).pc = "idle" /\ IdleCall(a).got = 0 /\ IdleCall(a).seen.data = 0
    BY <1>1 DEF IdleCall
  <2> QED
    BY <2>1 DEF Sound
<1> QED
  BY <1>3, <1>4

LEMMA CacheKept == ASSUME QuotaInv, UNCHANGED <<cache, numbers>> PROVE CacheSound'
BY DEF QuotaInv, CacheSound

LEMMA FetchStep ==
  ASSUME QuotaInv, NEW c \in Calls, NEW a \in Accounts, NEW credential \in Credentials,
         QuotaFetch(c, a, credential)
  PROVE  QuotaInv'
<1> DEFINE seen == cache[a]
           idle == IdleCall(a)
           begun == [idle EXCEPT !.credential = credential, !.seen = seen, !.since = now]
           reply == ToQuotaFetchResponse(seen)
           served == [begun EXCEPT !.pc = "replied", !.reply = reply]
           asking == [begun EXCEPT !.pc = "asking", !.asked = TRUE]
           refused == [begun EXCEPT !.pc = "replied"]
<1>1. seen \in SnapshotType /\ seen.data <= numbers /\ now \in 0..MaxTime
  BY DEF QuotaInv, CacheSound
<1>2. /\ idle \in CallType /\ idle.got = 0 /\ idle.asked = FALSE /\ idle.failed = FALSE
      /\ idle.reply.ok = FALSE
  BY IdleSound DEF QuotaInv, IdleCall, NoReply
<1>3. /\ reply \in [ok : BOOLEAN, data : 0..MaxData, error : BOOLEAN] /\ reply.data = seen.data
  BY <1>1 DEF ToQuotaFetchResponse, SnapshotType
<1>4. UNCHANGED <<now, numbers, cache>> /\ call[c].pc = "idle"
  BY DEF QuotaFetch
<1>5. \E k \in {served, asking, refused} : call' = [call EXCEPT ![c] = k]
  BY DEF QuotaFetch
<1> HIDE DEF seen, idle, reply
<1>6. /\ begun \in CallType /\ begun.got = 0 /\ begun.asked = FALSE /\ begun.failed = FALSE
      /\ begun.seen = seen /\ begun.reply.ok = FALSE
  BY <1>1, <1>2 DEF CallType
<1> HIDE DEF begun
<1>7. numbers \in Nat /\ seen.data \in Nat
  BY <1>1, QuotaAssumption DEF QuotaInv, SnapshotType, QuotaAssumption
<1>8. served \in CallType /\ Sound(served)
  <2>1. /\ served \in CallType /\ served.pc = "replied" /\ served.reply = reply
        /\ served.asked = FALSE /\ served.seen = seen /\ served.got = 0
    BY <1>3, <1>6 DEF CallType
  <2> HIDE DEF served
  <2> QED
    BY <1>1, <1>3, <1>7, <2>1 DEF Sound
<1>9. asking \in CallType /\ Sound(asking)
  <2>1. /\ asking \in CallType /\ asking.pc = "asking" /\ asking.asked = TRUE
        /\ asking.failed = FALSE /\ asking.seen = seen /\ asking.got = 0
    BY <1>6 DEF CallType
  <2> HIDE DEF asking
  <2> QED
    BY <1>1, <1>7, <2>1 DEF Sound
<1>10. refused \in CallType /\ Sound(refused)
  <2>1. /\ refused \in CallType /\ refused.pc = "replied" /\ refused.reply.ok = FALSE
        /\ refused.seen = seen /\ refused.got = 0
    BY <1>6 DEF CallType
  <2> HIDE DEF refused
  <2> QED
    BY <1>1, <1>7, <2>1 DEF Sound
<1> HIDE DEF served, asking, refused
<1>11. CacheSound'
  BY <1>4, CacheKept
<1> QED
  BY <1>4, <1>5, <1>8, <1>9, <1>10, <1>11, OneCall

LEMMA RefreshStep ==
  ASSUME QuotaInv, NEW c \in Calls, NEW a \in Accounts, QuotaRefresh(c, a)
  PROVE  QuotaInv'
<1> DEFINE idle == IdleCall(a)
           new == [idle EXCEPT !.pc = "asking", !.refresh = TRUE, !.asked = TRUE, !.since = now]
<1>1. UNCHANGED <<now, numbers, cache>> /\ call' = [call EXCEPT ![c] = new]
  BY DEF QuotaRefresh
<1>2. idle \in CallType /\ idle.got = 0 /\ idle.failed = FALSE /\ idle.seen.data = 0
  BY IdleSound DEF QuotaInv, IdleCall, NoSnapshot
<1>3. now \in 0..MaxTime /\ numbers \in Nat
  BY QuotaAssumption DEF QuotaInv, QuotaAssumption
<1> HIDE DEF idle
<1>4. /\ new \in CallType /\ new.pc = "asking" /\ new.asked = TRUE /\ new.failed = FALSE
      /\ new.got = 0 /\ new.seen.data = 0
  BY <1>2, <1>3 DEF CallType
<1> HIDE DEF new
<1>5. Sound(new)
  BY <1>3, <1>4 DEF Sound
<1> QED
  BY <1>1, <1>4, <1>5, CacheKept, OneCall

LEMMA UpstreamStep ==
  ASSUME QuotaInv, NEW c \in Calls, UpstreamAnswers(c) \/ UpstreamFails(c)
  PROVE  QuotaInv'
<1> DEFINE k == call[c]
           given == [k EXCEPT !.pc = "storing", !.got = numbers]
           broken == [k EXCEPT !.pc = "storing", !.failed = TRUE]
<1>1. k \in CallType /\ Sound(k) /\ k.pc = "asking"
  BY DEF QuotaInv, UpstreamAnswers, UpstreamFails
<1>2. UNCHANGED <<now, numbers, cache>> /\ \E new \in {given, broken} : call' = [call EXCEPT ![c] = new]
  BY DEF UpstreamAnswers, UpstreamFails, QuotaInv
<1>3. /\ k.failed = FALSE /\ k.got = 0 /\ k.seen.data <= numbers
      /\ numbers \in 0..MaxData /\ numbers \in Nat /\ k.seen.data \in Nat
  BY <1>1, QuotaAssumption DEF Sound, QuotaInv, CallType, SnapshotType, QuotaAssumption
<1> HIDE DEF k
<1>4. given \in CallType /\ Sound(given)
  <2>1. /\ given \in CallType /\ given.pc = "storing" /\ given.failed = FALSE
        /\ given.got = numbers /\ given.seen = k.seen
    BY <1>1, <1>3 DEF CallType
  <2> HIDE DEF given
  <2> QED
    BY <1>3, <2>1 DEF Sound
<1>5. broken \in CallType /\ Sound(broken)
  <2>1. /\ broken \in CallType /\ broken.pc = "storing" /\ broken.failed = TRUE
        /\ broken.got = 0 /\ broken.seen = k.seen
    BY <1>1, <1>3 DEF CallType
  <2> HIDE DEF broken
  <2> QED
    BY <1>3, <2>1 DEF Sound
<1> HIDE DEF given, broken
<1> QED
  BY <1>2, <1>4, <1>5, CacheKept, OneCall

LEMMA PutStep ==
  ASSUME QuotaInv, NEW c \in Calls, Put(c)
  PROVE  QuotaInv'
<1> DEFINE k == call[c]
           snapshot == Snapshot(k)
           idle == IdleCall(k.account)
           reply == ReplyAfter(k)
           told == [k EXCEPT !.pc = "replied", !.reply = reply]
<1>1. /\ k \in CallType /\ Sound(k) /\ k.pc = "storing" /\ k.account \in Accounts
      /\ now \in 0..MaxTime /\ numbers \in Nat
  BY QuotaAssumption DEF QuotaInv, Put, CallType, QuotaAssumption
<1>2. /\ UNCHANGED <<now, numbers>>
      /\ cache' = [cache EXCEPT ![k.account] = snapshot]
      /\ \E new \in {idle, told} : call' = [call EXCEPT ![c] = new]
  BY DEF Put
<1>3. /\ k.got \in 0..MaxData /\ k.failed \in BOOLEAN /\ k.seen \in SnapshotType
      /\ k.seen.data \in 0..MaxData /\ k.got <= numbers /\ k.seen.data <= numbers
      /\ \/ k.failed = TRUE /\ k.got = 0
         \/ k.failed = FALSE /\ k.got >= k.seen.data
  BY <1>1 DEF CallType, SnapshotType, Sound
<1> HIDE DEF k
<1>4. /\ snapshot \in SnapshotType /\ snapshot.data = k.got /\ snapshot.error = k.failed
  BY <1>1, <1>3 DEF Snapshot, SnapshotType
<1>5. CacheSound'
  <2> HIDE DEF snapshot
  <2>1. CacheSound
    BY DEF QuotaInv
  <2>2. cache' \in [Accounts -> SnapshotType]
    BY <1>2, <1>4, <2>1 DEF CacheSound
  <2>3. ASSUME NEW a \in Accounts
        PROVE  cache'[a].data <= numbers /\ (cache'[a].error = TRUE => cache'[a].data = 0)
    <3>1. cache'[a] = cache[a] \/ cache'[a] = snapshot
      BY <1>2, <2>1 DEF CacheSound
    <3> QED
      BY <1>3, <1>4, <2>1, <3>1 DEF CacheSound
  <2> QED
    BY <1>2, <2>2, <2>3 DEF CacheSound
<1>6. idle \in CallType /\ Sound(idle)
  BY <1>1, IdleSound DEF QuotaInv
<1>7. /\ reply \in [ok : BOOLEAN, data : 0..MaxData, error : BOOLEAN]
      /\ reply.ok = TRUE =>
           /\ reply.data >= k.seen.data
           /\ k.failed = FALSE => reply.data = k.got
  <2>1. CASE k.failed = FALSE
    <3>1. reply = [ok |-> TRUE, data |-> k.got, error |-> FALSE]
      BY <1>4, <2>1 DEF ReplyAfter, ToQuotaFetchResponse
    <3> QED
      BY <1>3, <2>1, <3>1
  <2>2. CASE k.failed = TRUE /\ k.seen.has = TRUE
    <3> DEFINE marked == [k.seen EXCEPT !.error = TRUE]
    <3>1. marked.data = k.seen.data
      BY <1>3 DEF SnapshotType
    <3>2. reply = ToQuotaFetchResponse(marked)
      BY <2>2 DEF ReplyAfter
    <3> HIDE DEF marked
    <3>3. reply = [ok |-> TRUE, data |-> k.seen.data, error |-> FALSE]
      BY <3>1, <3>2 DEF ToQuotaFetchResponse
    <3> QED
      BY <1>3, <2>2, <3>3
  <2>3. CASE k.failed = TRUE /\ k.seen.has = FALSE
    <3>1. reply = [ok |-> FALSE, data |-> 0, error |-> FALSE]
      BY <2>3 DEF ReplyAfter, NoReply
    <3> QED
      BY <3>1, QuotaAssumption DEF QuotaAssumption
  <2> QED
    BY <1>3, <2>1, <2>2, <2>3 DEF SnapshotType
<1> HIDE DEF reply
<1>8. told \in CallType /\ Sound(told)
  <2>1. /\ told \in CallType /\ told.pc = "replied" /\ told.reply = reply
        /\ told.failed = k.failed /\ told.got = k.got /\ told.seen = k.seen
    BY <1>1, <1>7 DEF CallType
  <2> HIDE DEF told
  <2> QED
    BY <1>3, <1>7, <2>1 DEF Sound
<1> HIDE DEF told, idle
<1> QED
  BY <1>2, <1>5, <1>6, <1>8, OneCall

LEMMA ForgetStep == ASSUME QuotaInv, NEW a \in Accounts, Forget(a) PROVE QuotaInv'
<1>1. /\ NoSnapshot \in SnapshotType /\ NoSnapshot.data = 0 /\ numbers \in Nat
      /\ cache' = [cache EXCEPT ![a] = NoSnapshot] /\ UNCHANGED <<now, numbers, call>>
  BY QuotaAssumption DEF QuotaAssumption, NoSnapshot, SnapshotType, QuotaInv, Forget
<1>2. CacheSound'
  <2>1. CacheSound
    BY DEF QuotaInv
  <2>2. \A b \in Accounts : cache'[b] = cache[b] \/ cache'[b] = NoSnapshot
    BY <1>1, <2>1 DEF CacheSound
  <2> QED
    BY <1>1, <2>1, <2>2 DEF CacheSound
<1> QED
  BY <1>1, <1>2 DEF QuotaInv, Sound

LEMMA NumbersStep == ASSUME QuotaInv, NumbersChange PROVE QuotaInv'
<1>1. /\ numbers \in 0..MaxData /\ numbers' = numbers + 1 /\ numbers' \in 0..MaxData
      /\ UNCHANGED <<now, cache, call>>
  BY QuotaAssumption DEF QuotaAssumption, QuotaInv, NumbersChange
<1>2. \A x \in 0..MaxData : x <= numbers => x <= numbers'
  BY <1>1
<1>3. CacheSound'
  BY <1>1, <1>2 DEF QuotaInv, CacheSound, SnapshotType
<1>4. ASSUME NEW c \in Calls PROVE Sound(call[c])'
  <2>1. Sound(call[c]) /\ call[c].seen.data \in 0..MaxData /\ call[c].got \in 0..MaxData
    BY DEF QuotaInv, CallType, SnapshotType
  <2> QED
    BY <1>1, <1>2, <2>1 DEF Sound
<1> QED
  BY <1>1, <1>3, <1>4 DEF QuotaInv

LEMMA QuotaStep == QuotaInv /\ Next => QuotaInv'
<1> SUFFICES ASSUME QuotaInv, Next PROVE QuotaInv'
  OBVIOUS
<1>1. CASE Tick
  <2>1. now' \in 0..MaxTime
    BY <1>1, QuotaAssumption DEF Tick, QuotaInv, QuotaAssumption
  <2> QED
    BY <1>1, <2>1 DEF Tick, QuotaInv, CacheSound, Sound
<1>2. ASSUME NEW c \in Calls, Return(c) PROVE QuotaInv'
  <2>1. call[c].account \in Accounts
    BY DEF QuotaInv, CallType
  <2> QED
    BY <1>2, <2>1, IdleSound, CacheKept, OneCall DEF Return, QuotaInv
<1> QED
  BY <1>1, <1>2, NumbersStep, ForgetStep, FetchStep, RefreshStep, UpstreamStep, PutStep DEF Next

LEMMA QuotaInitially == Init => QuotaInv
<1> SUFFICES ASSUME Init PROVE QuotaInv
  OBVIOUS
<1>1. NoSnapshot \in SnapshotType /\ NoSnapshot.data = 0
  BY QuotaAssumption DEF QuotaAssumption, NoSnapshot, SnapshotType
<1>2. now \in 0..MaxTime /\ numbers = 1 /\ numbers \in 0..MaxData
  BY QuotaAssumption DEF QuotaAssumption, Init
<1>3. CacheSound
  BY <1>1, <1>2 DEF Init, CacheSound
<1>4. PICK a \in Accounts : call = [c \in Calls |-> IdleCall(a)]
  BY DEF Init
<1>5. IdleCall(a) \in CallType /\ Sound(IdleCall(a))
  BY <1>2, IdleSound
<1> QED
  BY <1>2, <1>3, <1>4, <1>5 DEF QuotaInv

\* A lookup moves the clock only.
LEMMA LookupIsATick == Models!Next => UNCHANGED now \/ (now < MaxTime /\ now' = now + 1)
BY DEF Models!Next, Models!Tick, Models!Reconfigure, Models!ModelsForAuth, Models!AgentAnswers,
       Models!AgentFails, Models!LookupAborts, Models!Conclude, Models!Return

LEMMA QueryStep == QuotaInv /\ [QueryNext]_queryVars => QuotaInv'
<1> SUFFICES ASSUME QuotaInv, [QueryNext]_queryVars PROVE QuotaInv'
  OBVIOUS
<1>1. CASE AskQuota
  BY <1>1, QuotaStep DEF AskQuota
<1>2. ASSUME UNCHANGED <<numbers, cache, call>>, now' \in 0..MaxTime PROVE QuotaInv'
  BY <1>2 DEF QuotaInv, CacheSound, Sound
<1>3. CASE AskModels
  <2>1. now' \in 0..MaxTime
    BY <1>3, LookupIsATick, QuotaAssumption DEF AskModels, QuotaInv, QuotaAssumption
  <2> QED
    BY <1>2, <1>3, <2>1 DEF AskModels
<1>4. CASE AskAccount \/ UNCHANGED queryVars
  BY <1>2, <1>4 DEF AskAccount, queryVars, vars, QuotaInv
<1> QED
  BY <1>1, <1>3, <1>4 DEF QueryNext

LEMMA QuotaAlways == QuerySpec => []QuotaInv
<1>1. QueryInit => QuotaInv
  BY QuotaInitially DEF QueryInit
<1> QED
  BY <1>1, QueryStep, PTL DEF QuerySpec

\* RepliesAdvance of quota.fetch (quota.go:284-296), for any accounts and fetches at
\* once, beside refreshes, deletions and model lookups.
THEOREM QuotasAdvance == QuerySpec => []RepliesAdvance
<1>1. QuotaInv => RepliesAdvance
  <2> SUFFICES ASSUME QuotaInv, NEW c \in Calls, Replied(c)
               PROVE  /\ call[c].seen.has => call[c].reply.data >= call[c].seen.data
                      /\ call[c].asked /\ ~call[c].failed => call[c].reply.data = call[c].got
    BY DEF RepliesAdvance
  <2>1. /\ call[c] \in CallType /\ Sound(call[c])
    BY DEF QuotaInv
  <2>2. /\ call[c].pc = "replied" /\ call[c].reply.ok \in BOOLEAN /\ call[c].seen.has \in BOOLEAN
        /\ call[c].asked \in BOOLEAN /\ call[c].failed \in BOOLEAN /\ call[c].reply.ok
    BY <2>1 DEF Replied, CallType, SnapshotType
  <2> QED
    BY <2>1, <2>2 DEF Sound
<1> QED
  BY <1>1, QuotaAlways, PTL

\* QueryTypeOK of both caches: types, a failed snapshot without numbers (quota.go:140-171),
\* and the bound of the model cache (model_discovery.go:113-131).
THEOREM QueriesTyped == QuerySpec => []QueryTypeOK
<1>1. QuotaInv => TypeOK
  <2> SUFFICES ASSUME QuotaInv PROVE TypeOK
    OBVIOUS
  <2>1. \A a \in Accounts : cache[a].error \in BOOLEAN
    BY DEF QuotaInv, CacheSound, SnapshotType
  <2> QED
    BY <2>1 DEF QuotaInv, CacheSound, TypeOK
<1>2. Lists!ModelAssumption
  BY QueryAssumption DEF Models!ModelAssumption, Lists!ModelAssumption, Models!ToSet, Lists!ToSet
<1>3. Lists!Spec => []Lists!TypeOK
  BY <1>2, Lists!CacheKeepsBound
<1>4. Lists!TypeOK => Models!TypeOK
  BY DEF Models!TypeOK, Lists!TypeOK, Models!Cardinality, Lists!Cardinality
<1> QED
  BY <1>1, <1>3, <1>4, QuotaAlways, QueriesAreLookups, PTL DEF QueryTypeOK

-----------------------------------------------------------------------------
\* The picks and reports of the composition are those of UsageRollup.
LEMMA QueriesAreTraffic == QuerySpec => TrafficSpec
<1>1. QueryInit => TrafficInit
  BY DEF QueryInit
<1>2. [QueryNext]_queryVars => [TrafficNext]_trafficVars
  BY DEF QueryNext, AskQuota, AskModels, AskAccount, queryVars
<1> QED
  BY <1>1, <1>2, PTL DEF QuerySpec, TrafficSpec

\* RotationFair and RequestsCounted (scheduler_pick.go:42-45, usage_thinking.go:15-18)
\* beside the host's other questions.
THEOREM PicksOfQueries ==
  /\ DistinctOffers => (QuerySpec => []NoneRepeatedInRound)
  /\ QuerySpec => []TrafficAccounted
<1>1. DistinctOffers => (QuerySpec => []NoneRepeatedInRound)
  BY QueriesAreTraffic, RotationFair
<1>2. QuerySpec => []TrafficAccounted
  BY QueriesAreTraffic, RequestsCounted
<1> QED
  BY <1>1, <1>2

=============================================================================
