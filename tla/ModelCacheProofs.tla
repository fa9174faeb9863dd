-------------------------- MODULE ModelCacheProofs --------------------------
(***************************************************************************)
(* That a lookup is answered with the models of its own account, upstream  *)
(* and agents, and that the cache keeps its bound, for any accounts,       *)
(* settings and lookups in progress.  The invariant says that every entry  *)
(* holds models of the key it is stored under, and that a lookup only ever *)
(* has models of the key it began with, whatever was reconfigured since.   *)
(***************************************************************************)
EXTENDS ModelCache, FiniteSetTheorems, TLAPS

Agents == UNION {ToSet(s.agents) : s \in Settings}
Model == [base : {s.base : s \in Settings}, account : Accounts, agent : Agents]
Reply == [discovered : BOOLEAN, models : SUBSET Model, aliases : SUBSET DOMAIN Aliases]
Lookup == [pc : {"idle", "asking", "replied"}, account : Accounts, setting : Settings,
           left : Seq(Agents), found : SUBSET Model, reply : Reply]

\* Models an account may be told under a setting.
Owned(models, a, s) ==
  \A m \in models : m.account = a /\ m.base = s.base /\ m.agent \in ToSet(s.agents)

\* An entry holds models of every account and setting that would look it up.
EntryOwned(key) ==
  /\ entries[key].models \in (SUBSET Model) \ {{}}
  /\ \A a \in Accounts, s \in Settings :
       key = CacheKey(a, s) => Owned(entries[key].models, a, s)

Rightful(k) ==
  /\ k \in Lookup
  /\ k.pc = "asking" => Owned(k.found, k.account, k.setting)
                        /\ ToSet(k.left) \subseteq ToSet(k.setting.agents)
  /\ k.pc = "replied" /\ k.reply.discovered = TRUE =>
       /\ k.reply.models # {} /\ Owned(k.reply.models, k.account, k.setting)
       /\ \A alias \in k.reply.aliases : \E m \in k.reply.models : m.agent = Aliases[alias]

EntriesOwned == \A key \in DOMAIN entries : EntryOwned(key)

OwnInv ==
  /\ setting \in Settings /\ EntriesOwned
  /\ lookup \in [Lookups -> Lookup]
  /\ \A l \in Lookups : Rightful(lookup[l])

\* What a lookup that begins knows of its agents.
LEMMA SettingTyped ==
  ASSUME ModelAssumption, NEW s \in Settings
  PROVE s.agents \in Seq(Agents) /\ s.agents # <<>>
BY DEF ModelAssumption, Agents

LEMMA HeadAndTail ==
  ASSUME NEW S, NEW q \in Seq(S), q # <<>>
  PROVE /\ Head(q) \in S /\ Head(q) \in ToSet(q)
        /\ Tail(q) \in Seq(S) /\ ToSet(Tail(q)) \subseteq ToSet(q)
BY DEF ToSet

LEMMA ConfiguredTyped == Configured \in Reply /\ Configured.discovered = FALSE
BY DEF Configured, Reply

LEMMA DiscoveredFields ==
  ASSUME NEW models \in SUBSET Model
  PROVE /\ Discovered(models) \in Reply /\ Discovered(models).models = models
        /\ \A alias \in Discovered(models).aliases : \E m \in models : m.agent = Aliases[alias]
BY DEF Discovered, Reply

LEMMA IdleRightful ==
  ASSUME NEW a \in Accounts, Settings # {}
  PROVE IdleLookup(a) \in Lookup /\ IdleLookup(a).pc = "idle" /\ IdleLookup(a).account = a
        /\ IdleLookup(a).found = {}
<1>1. (CHOOSE s \in Settings : TRUE) \in Settings
  OBVIOUS
<1>2. [discovered |-> FALSE, models |-> {}, aliases |-> {}] \in Reply
  BY DEF Reply
<1>3. <<>> \in Seq(Agents)
  OBVIOUS
<1> QED
  BY <1>1, <1>2, <1>3 DEF IdleLookup, Lookup

\* A step changes one lookup.
LEMMA OneLookup ==
  ASSUME OwnInv, NEW l \in Lookups, NEW new, Rightful(new),
         lookup' = [lookup EXCEPT ![l] = new], setting' = setting, EntriesOwned'
  PROVE OwnInv'
BY DEF OwnInv, Rightful

LEMMA InitOwn == ModelAssumption /\ Init => OwnInv
<1> SUFFICES ASSUME ModelAssumption, Init PROVE OwnInv
  OBVIOUS
<1>1. PICK a \in Accounts : lookup = [l \in Lookups |-> IdleLookup(a)]
  BY DEF Init
<1>2. Settings # {}
  BY DEF Init
<1>3. Rightful(IdleLookup(a)) /\ IdleLookup(a) \in Lookup
  BY <1>2, IdleRightful DEF Rightful
<1> QED
  BY <1>1, <1>3 DEF Init, OwnInv, EntriesOwned

LEMMA BeginStep ==
  ASSUME ModelAssumption, OwnInv, NEW l \in Lookups, NEW a \in Accounts, NEW usable \in BOOLEAN,
         ModelsForAuth(l, a, usable)
  PROVE OwnInv'
<1> DEFINE key == CacheKey(a, setting)
           begun == [IdleLookup(a) EXCEPT !.setting = setting]
           live == key \in DOMAIN entries /\ now < entries[key].expires
<1>1. setting \in Settings /\ setting' = setting /\ entries' = entries
  BY DEF ModelsForAuth, OwnInv
<1>2. /\ begun \in Lookup /\ begun.account = a /\ begun.setting = setting
      /\ begun.found = {}
  BY <1>1, IdleRightful DEF Lookup
<1>3. EntriesOwned'
  BY <1>1 DEF OwnInv, EntriesOwned, EntryOwned
<1> HIDE DEF begun
<1>4. CASE usable /\ ~live
  <2> DEFINE new == [begun EXCEPT !.pc = "asking", !.left = setting.agents]
  <2>1. setting.agents \in Seq(Agents)
    BY <1>1, SettingTyped
  <2>2. /\ new \in Lookup /\ new.pc = "asking" /\ new.found = {}
        /\ new.left = setting.agents /\ new.setting = setting
    BY <1>2, <2>1 DEF Lookup
  <2>3. lookup' = [lookup EXCEPT ![l] = new]
    BY <1>4 DEF ModelsForAuth, begun
  <2> HIDE DEF new
  <2>4. Rightful(new)
    BY <2>2 DEF Rightful, Owned
  <2> QED
    BY <1>1, <1>3, <2>3, <2>4, OneLookup
<1>5. CASE ~(usable /\ ~live)
  <2> DEFINE reply == IF usable THEN Discovered(entries[key].models) ELSE Configured
             new == [begun EXCEPT !.pc = "replied", !.reply = reply]
  <2>1. lookup' = [lookup EXCEPT ![l] = new]
    BY <1>5 DEF ModelsForAuth, begun
  <2>2. /\ reply \in Reply
        /\ reply.discovered = TRUE =>
             /\ reply.models # {} /\ Owned(reply.models, a, setting)
             /\ \A alias \in reply.aliases : \E m \in reply.models : m.agent = Aliases[alias]
    <3>1. CASE ~usable
      BY <3>1, ConfiguredTyped
    <3>2. CASE usable
      <4>1. key \in DOMAIN entries
        BY <1>5, <3>2
      <4>2. /\ entries[key].models \in (SUBSET Model) \ {{}}
            /\ Owned(entries[key].models, a, setting)
        BY <1>1, <4>1 DEF OwnInv, EntriesOwned, EntryOwned
      <4>3. PICK models \in SUBSET Model : models = entries[key].models
        BY <4>2
      <4>4. reply = Discovered(models)
        BY <3>2, <4>3
      <4> HIDE DEF reply
      <4>5. /\ reply \in Reply /\ reply.models = models
            /\ \A alias \in reply.aliases : \E m \in models : m.agent = Aliases[alias]
        BY <4>4, DiscoveredFields
      <4> QED
        BY <4>2, <4>3, <4>5
    <3> QED
      BY <3>1, <3>2
  <2> HIDE DEF reply
  <2>3. /\ new \in Lookup /\ new.pc = "replied" /\ new.reply = reply
        /\ new.account = a /\ new.setting = setting
    BY <1>2, <2>2 DEF Lookup
  <2> HIDE DEF new
  <2>4. Rightful(new)
    BY <2>2, <2>3 DEF Rightful
  <2> QED
    BY <1>1, <1>3, <2>1, <2>4, OneLookup
<1> QED
  BY <1>4, <1>5

\* An agent that answers, with models or none, or that fails.
LEMMA AskStep ==
  ASSUME OwnInv, NEW l \in Lookups, NEW some \in BOOLEAN, AgentAnswers(l, some) \/ AgentFails(l)
  PROVE OwnInv'
<1> DEFINE k == lookup[l]
           own == [base |-> k.setting.base, account |-> k.account, agent |-> Head(k.left)]
<1>1. /\ k \in Lookup /\ k.pc = "asking" /\ k.left # <<>>
      /\ Rightful(k) /\ setting' = setting /\ entries' = entries
  BY DEF AgentAnswers, AgentFails, OwnInv
<1>2. EntriesOwned'
  BY <1>1 DEF OwnInv, EntriesOwned, EntryOwned
<1>3. /\ Tail(k.left) \in Seq(Agents) /\ ToSet(Tail(k.left)) \subseteq ToSet(k.setting.agents)
      /\ Head(k.left) \in Agents /\ Head(k.left) \in ToSet(k.setting.agents)
  <2>1. k.left \in Seq(Agents) /\ ToSet(k.left) \subseteq ToSet(k.setting.agents)
    BY <1>1 DEF Lookup, Rightful
  <2> QED
    BY <1>1, <2>1, HeadAndTail
<1>4. own \in Model /\ Owned({own}, k.account, k.setting)
  BY <1>1, <1>3 DEF Model, Lookup, Owned
<1> HIDE DEF own
<1>5. PICK found \in {k.found, k.found \cup {own}} :
        lookup' = [lookup EXCEPT ![l] = [k EXCEPT !.left = Tail(k.left), !.found = found]]
  <2>1. k = [k EXCEPT !.found = k.found]
    BY <1>1 DEF Lookup
  <2>2. CASE AgentFails(l)
    <3>1. [k EXCEPT !.left = Tail(k.left)] = [k EXCEPT !.left = Tail(k.left), !.found = k.found]
      BY <1>1 DEF Lookup
    <3>2. lookup' = [lookup EXCEPT ![l] = [k EXCEPT !.left = Tail(k.left)]]
      BY <2>2 DEF AgentFails, OwnInv
    <3> QED
      BY <3>1, <3>2
  <2>3. CASE AgentAnswers(l, some)
    BY <2>3 DEF AgentAnswers, OwnInv, own
  <2> QED
    BY <2>2, <2>3
<1> DEFINE new == [k EXCEPT !.left = Tail(k.left), !.found = found]
<1>6. found \in SUBSET Model /\ Owned(found, k.account, k.setting)
  BY <1>1, <1>4 DEF Lookup, Rightful, Owned
<1>7. /\ new \in Lookup /\ new.pc = "asking" /\ new.account = k.account
      /\ new.setting = k.setting /\ new.found = found /\ new.left = Tail(k.left)
  BY <1>1, <1>3, <1>6 DEF Lookup
<1>8. lookup' = [lookup EXCEPT ![l] = new]
  BY <1>5
<1> HIDE DEF new
<1>9. Rightful(new)
  BY <1>3, <1>6, <1>7 DEF Rightful
<1> QED
  BY <1>1, <1>2, <1>8, <1>9, OneLookup

\* The key names the account and what the lookup began with, so whoever finds
\* the new entry would have asked the same.
LEMMA StoreOwned ==
  ASSUME OwnInv, NEW a \in Accounts, NEW s \in Settings, NEW models \in (SUBSET Model) \ {{}},
         Owned(models, a, s), entries' = Store(CacheKey(a, s), models)
  PROVE EntriesOwned'
<1> SUFFICES ASSUME NEW key \in DOMAIN entries' PROVE EntryOwned(key)'
  BY DEF EntriesOwned
<1>1. CASE entries'[key].models = models /\ key = CacheKey(a, s)
  <2>1. ASSUME NEW b \in Accounts, NEW t \in Settings, key = CacheKey(b, t)
        PROVE Owned(models, b, t)
    BY <1>1, <2>1 DEF CacheKey, Owned
  <2> QED
    BY <1>1, <2>1 DEF EntryOwned
<1>2. CASE key \in DOMAIN entries /\ entries'[key] = entries[key]
  BY <1>2 DEF OwnInv, EntriesOwned, EntryOwned
<1> QED
  BY <1>1, <1>2 DEF Store, Live

LEMMA ConcludeStep ==
  ASSUME OwnInv, NEW l \in Lookups, Conclude(l)
  PROVE OwnInv'
<1> DEFINE k == lookup[l]
           reply == IF k.found = {} THEN Configured ELSE Discovered(k.found)
           new == [k EXCEPT !.pc = "replied", !.reply = reply]
<1>1. /\ k \in Lookup /\ Owned(k.found, k.account, k.setting) /\ setting' = setting
      /\ k.account \in Accounts /\ k.setting \in Settings /\ k.found \in SUBSET Model
  BY DEF Conclude, OwnInv, Rightful, Lookup
<1>2. lookup' = [lookup EXCEPT ![l] = new]
  BY DEF Conclude, OwnInv
<1>3. EntriesOwned'
  <2>1. CASE k.found = {}
    BY <2>1 DEF Conclude, OwnInv, EntriesOwned, EntryOwned
  <2>2. CASE k.found # {}
    <3>1. entries' = Store(CacheKey(k.account, k.setting), k.found)
      BY <2>2 DEF Conclude
    <3>2. /\ k.found \in (SUBSET Model) \ {{}} /\ k.account \in Accounts /\ k.setting \in Settings
          /\ Owned(k.found, k.account, k.setting)
      BY <1>1, <2>2
    <3> HIDE DEF k
    <3> QED
      BY <3>1, <3>2, StoreOwned
  <2> QED
    BY <2>1, <2>2
<1>4. /\ reply \in Reply
      /\ reply.discovered = TRUE =>
           /\ reply.models # {} /\ Owned(reply.models, k.account, k.setting)
           /\ \A alias \in reply.aliases : \E m \in reply.models : m.agent = Aliases[alias]
  BY <1>1, ConfiguredTyped, DiscoveredFields
<1> HIDE DEF reply
<1>5. /\ new \in Lookup /\ new.pc = "replied" /\ new.reply = reply
      /\ new.account = k.account /\ new.setting = k.setting
  BY <1>1, <1>4 DEF Lookup
<1> HIDE DEF new
<1>6. Rightful(new)
  BY <1>4, <1>5 DEF Rightful
<1> QED
  BY <1>1, <1>2, <1>3, <1>6, OneLookup

LEMMA AbortStep == ASSUME OwnInv, NEW l \in Lookups, LookupAborts(l) PROVE OwnInv'
<1> DEFINE k == lookup[l]
           new == [k EXCEPT !.pc = "replied", !.reply = Configured]
<1>1. k \in Lookup /\ setting' = setting /\ EntriesOwned'
  BY DEF LookupAborts, OwnInv, EntriesOwned, EntryOwned
<1>2. lookup' = [lookup EXCEPT ![l] = new]
  BY DEF LookupAborts, OwnInv
<1>3. new \in Lookup /\ new.pc = "replied" /\ new.reply.discovered = FALSE
  BY <1>1, ConfiguredTyped DEF Lookup
<1> HIDE DEF new
<1>4. Rightful(new)
  BY <1>3 DEF Rightful
<1> QED
  BY <1>1, <1>2, <1>4, OneLookup

LEMMA OwnStep == ModelAssumption /\ OwnInv /\ [Next]_vars => OwnInv'
<1> SUFFICES ASSUME ModelAssumption, OwnInv, [Next]_vars PROVE OwnInv'
  OBVIOUS
<1>1. CASE UNCHANGED <<entries, lookup>> /\ setting' \in Settings
  BY <1>1 DEF OwnInv, EntriesOwned, EntryOwned
<1>2. ASSUME NEW l \in Lookups, Return(l) PROVE OwnInv'
  <2>1. lookup[l].account \in Accounts /\ Settings # {}
    BY DEF OwnInv, Lookup
  <2>2. Rightful(IdleLookup(lookup[l].account))
    BY <2>1, IdleRightful DEF Rightful
  <2>3. EntriesOwned' /\ setting' = setting
    BY <1>2 DEF Return, OwnInv, EntriesOwned, EntryOwned
  <2> QED
    BY <1>2, <2>2, <2>3, OneLookup DEF Return
<1>3. CASE Tick \/ (\E s \in Settings : Reconfigure(s)) \/ UNCHANGED vars
  BY <1>1, <1>3 DEF Tick, Reconfigure, vars, OwnInv
<1> QED
  BY <1>2, <1>3, BeginStep, AskStep, AbortStep, ConcludeStep DEF Next

\* OwnCatalogue of model.for_auth (model_discovery.go:50-131), for every instance.
THEOREM AccountsToldTheirOwn == ModelAssumption => (Spec => []OwnCatalogue)
<1> SUFFICES ASSUME ModelAssumption PROVE Spec => []OwnCatalogue
  OBVIOUS
<1>1. ASSUME OwnInv PROVE OwnCatalogue
  <2> SUFFICES ASSUME NEW l \in Lookups, lookup[l].pc = "replied", lookup[l].reply.discovered
               PROVE /\ lookup[l].reply.models # {}
                     /\ Owned(lookup[l].reply.models, lookup[l].account, lookup[l].setting)
                     /\ \A alias \in lookup[l].reply.aliases :
                          \E m \in lookup[l].reply.models : m.agent = Aliases[alias]
    BY DEF OwnCatalogue, Owned
  <2>1. lookup[l].reply.discovered \in BOOLEAN
    BY <1>1 DEF OwnInv, Lookup, Reply
  <2> QED
    BY <1>1, <2>1 DEF OwnInv, Rightful
<1>2. Init => OwnInv
  BY InitOwn
<1>3. OwnInv /\ [Next]_vars => OwnInv'
  BY OwnStep
<1> QED
  BY <1>1, <1>2, <1>3, PTL DEF Spec

-----------------------------------------------------------------------------

Bounded == IsFiniteSet(DOMAIN entries) /\ Cardinality(DOMAIN entries) <= MaxEntries

\* The room is counted and taken under one lock.
LEMMA StoreBounded ==
  ASSUME ModelAssumption, Bounded, NEW key, NEW models, entries' = Store(key, models)
  PROVE Bounded'
<1>1. IsFiniteSet(Live) /\ Cardinality(Live) <= MaxEntries /\ Cardinality(Live) \in Nat
  <2>1. Live \in SUBSET DOMAIN entries
    BY DEF Live
  <2>2. /\ IsFiniteSet(Live) /\ Cardinality(Live) \in Nat
        /\ Cardinality(DOMAIN entries) \in Nat
        /\ Cardinality(Live) <= Cardinality(DOMAIN entries)
    BY <2>1, FS_Subset, FS_CardinalityType DEF Bounded
  <2> QED
    BY <2>2 DEF Bounded, ModelAssumption
<1>2. CASE Room
  <2>1. DOMAIN entries' = Live \cup {key}
    BY <1>2 DEF Store
  <2>2. IsFiniteSet(Live \cup {key}) /\ Cardinality(Live \cup {key}) <= Cardinality(Live) + 1
    BY <1>1, FS_AddElement
  <2>3. Cardinality(Live \cup {key}) \in Nat
    BY <2>2, FS_CardinalityType
  <2> QED
    BY <1>1, <1>2, <2>1, <2>2, <2>3 DEF Bounded, Room, ModelAssumption
<1>3. CASE ~Room
  <2>1. DOMAIN entries' = Live
    BY <1>3 DEF Store
  <2> QED
    BY <1>1, <2>1 DEF Bounded
<1> QED
  BY <1>2, <1>3

\* TypeOK of the cache (model_discovery.go:113-131), for every instance: it keeps its
\* bound however many lookups store at once.
THEOREM CacheKeepsBound == ModelAssumption => (Spec => []TypeOK)
<1> SUFFICES ASSUME ModelAssumption PROVE Spec => []TypeOK
  OBVIOUS
<1> DEFINE Inv == OwnInv /\ Bounded /\ now \in 0..MaxTime
<1>1. Inv => TypeOK
  BY DEF Bounded, TypeOK, OwnInv, Lookup
<1>2. ASSUME Init PROVE Inv
  <2>1. DOMAIN entries = {}
    BY <1>2 DEF Init
  <2>2. Bounded
    BY <2>1, FS_EmptySet DEF Bounded, ModelAssumption
  <2> QED
    BY <1>2, <2>2, InitOwn DEF Init, ModelAssumption
<1>3. ASSUME Inv, [Next]_vars PROVE Inv'
  <2>1. OwnInv'
    BY <1>3, OwnStep
  <2>2. now' \in 0..MaxTime
    <3>1. now' = now \/ (now < MaxTime /\ now' = now + 1)
      BY <1>3 DEF Next, Tick, Reconfigure, ModelsForAuth, AgentAnswers, AgentFails, LookupAborts,
                  Conclude, Return, vars
    <3> QED
      BY <1>3, <3>1 DEF ModelAssumption
  <2>3. CASE UNCHANGED entries
    BY <1>3, <2>1, <2>2, <2>3 DEF Bounded
  <2>4. ASSUME NEW l \in Lookups, Conclude(l), entries' # entries PROVE Bounded'
    <3>1. entries' = Store(CacheKey(lookup[l].account, lookup[l].setting), lookup[l].found)
      BY <2>4 DEF Conclude
    <3> QED
      BY <1>3, <3>1, StoreBounded
  <2> QED
    BY <1>3, <2>1, <2>2, <2>3, <2>4
       DEF Next, Tick, Reconfigure, ModelsForAuth, AgentAnswers, AgentFails, LookupAborts,
           Return, vars
<1> QED
  BY <1>1, <1>2, <1>3, PTL DEF Spec

=============================================================================
