------------------------------ MODULE ModelCache ------------------------------
(***************************************************************************)
(* model.for_auth (model_discovery.go): the models of one account, asked   *)
(* from Agent Center agent by agent and cached for five minutes under the  *)
(* base URL, the account's key and domain, and the agents asked.  The      *)
(* cache is locked for one access at a time, never across a request.       *)
(*                                                                         *)
(* An agent's list is abstracted to one model that names whose it is:      *)
(* [base, account, agent].  A setting is [base, agents], the part of the   *)
(* configuration a lookup depends on.                                      *)
(***************************************************************************)
EXTENDS Integers, Sequences, SequencesExt, FiniteSets

CONSTANTS Accounts,
          Lookups,    \* lookups in progress at once
          Settings,   \* settings configured over time
          Aliases,    \* configured model -> the agent whose model it stands for
          TTL,        \* how long an entry lives, 5 minutes
          MaxEntries, \* 512 in the code
          MaxTime     \* bound: instants

\* Assumed by AccountQueries, through which this module is checked.
ModelAssumption ==
  /\ TTL \in Nat /\ MaxEntries \in Nat \ {0} /\ MaxTime \in Nat
  /\ \A s \in Settings : s.agents \in Seq(ToSet(s.agents)) \ {<<>>}

VARIABLES now, setting,
          entries, \* discoveredModels.entries: key -> [models, expires]
          lookup

vars == <<now, setting, entries, lookup>>

IdleLookup(a) ==
  [pc |-> "idle", account |-> a, setting |-> CHOOSE s \in Settings : TRUE, left |-> <<>>,
   found |-> {}, reply |-> [discovered |-> FALSE, models |-> {}, aliases |-> {}]]

Init ==
  /\ now = 0
  /\ setting \in Settings
  /\ entries = <<>>
  /\ \E a \in Accounts : lookup = [l \in Lookups |-> IdleLookup(a)]

-----------------------------------------------------------------------------
Tick ==
  /\ now < MaxTime
  /\ now' = now + 1
  /\ UNCHANGED <<setting, entries, lookup>>

Reconfigure(s) ==
  /\ s # setting
  /\ setting' = s
  /\ UNCHANGED <<now, entries, lookup>>

MutCacheKey(a, s) == <<s.base, s.agents>>

CacheKey(a, s) == <<s.base, a, s.agents>>

\* Configured models stay usable beside the discovered ones they map to.
Discovered(models) ==
  [discovered |-> TRUE, models |-> models,
   aliases |-> {m \in DOMAIN Aliases : \E d \in models : d.agent = Aliases[m]}]
Configured == [discovered |-> FALSE, models |-> {}, aliases |-> {}]

\* The lookup answers from the cache, or goes on to ask.  Without discovery or a
\* usable credential the configured models are the answer.
ModelsForAuth(l, a, usable) ==
  LET key == CacheKey(a, setting)
      begun == [IdleLookup(a) EXCEPT !.setting = setting]
      live == key \in DOMAIN entries /\ now < entries[key].expires
  IN /\ lookup[l].pc = "idle"
     /\ lookup' = [lookup EXCEPT ![l] =
          IF usable /\ ~live THEN [begun EXCEPT !.pc = "asking", !.left = setting.agents]
          ELSE [begun EXCEPT !.pc = "replied",
                             !.reply = IF usable THEN Discovered(entries[key].models)
                                       ELSE Configured]]
     /\ UNCHANGED <<now, setting, entries>>

\* One agent of the loop.  Its list may be empty: every model of it disabled.
AgentAnswers(l, some) ==
  LET k == lookup[l]
      own == [base |-> k.setting.base, account |-> k.account, agent |-> Head(k.left)]
  IN /\ k.pc = "asking" /\ k.left # <<>>
     /\ lookup' = [lookup EXCEPT ![l].left = Tail(@),
                                 ![l].found = IF some THEN @ \cup {own} ELSE @]
     /\ UNCHANGED <<now, setting, entries>>

AgentFails(l) ==
  /\ lookup[l].pc = "asking" /\ lookup[l].left # <<>>
  /\ lookup' = [lookup EXCEPT ![l].left = Tail(@)]
  /\ UNCHANGED <<now, setting, entries>>

\* A request that cannot be signed ends the lookup, whatever other agents said.
LookupAborts(l) ==
  /\ lookup[l].pc = "asking" /\ lookup[l].left # <<>>
  /\ lookup' = [lookup EXCEPT ![l].pc = "replied", ![l].reply = Configured]
  /\ UNCHANGED <<now, setting, entries>>

\* Under one lock: entries that have expired go, then the new one is added if
\* there is room.
Live == {key \in DOMAIN entries : ~(now > entries[key].expires)}

MutRoom == TRUE

Room == Cardinality(Live) < MaxEntries

Store(key, models) ==
  LET added == IF Room THEN {key} ELSE {}
  IN [k \in Live \cup added |->
        IF k \in added THEN [models |-> models, expires |-> now + TTL] ELSE entries[k]]

\* Whatever was found is used, though some agents failed.
Conclude(l) ==
  LET k == lookup[l]
  IN /\ k.pc = "asking" /\ k.left = <<>>
     /\ lookup' = [lookup EXCEPT ![l].pc = "replied",
                                 ![l].reply = IF k.found = {} THEN Configured
                                              ELSE Discovered(k.found)]
     /\ entries' = IF k.found = {} THEN entries
                   ELSE Store(CacheKey(k.account, k.setting), k.found)
     /\ UNCHANGED <<now, setting>>

Return(l) ==
  /\ lookup[l].pc = "replied"
  /\ lookup' = [lookup EXCEPT ![l] = IdleLookup(lookup[l].account)]
  /\ UNCHANGED <<now, setting, entries>>

Next ==
  \/ Tick
  \/ \E s \in Settings : Reconfigure(s)
  \/ \E l \in Lookups : \/ \E a \in Accounts, usable \in BOOLEAN : ModelsForAuth(l, a, usable)
                        \/ \E some \in BOOLEAN : AgentAnswers(l, some)
                        \/ AgentFails(l) \/ LookupAborts(l) \/ Conclude(l) \/ Return(l)

Spec == Init /\ [][Next]_vars

-----------------------------------------------------------------------------
\* Types, and the bound the code puts on the cache however lookups overlap.
TypeOK ==
  /\ now \in 0..MaxTime /\ setting \in Settings
  /\ Cardinality(DOMAIN entries) <= MaxEntries
  /\ \A l \in Lookups : lookup[l].pc \in {"idle", "asking", "replied"}

\* provider_regression_test.go:353-391 and README.md:543-552: an account is told
\* models of its own, of the upstream and the agents in force when it asked, and
\* an alias only with the model it stands for - also when the answer comes from
\* an entry another lookup stored, before or after a reconfiguration.
OwnCatalogue ==
  \A l \in Lookups :
    LET k == lookup[l]
    IN k.pc = "replied" /\ k.reply.discovered =>
         /\ k.reply.models # {}
         /\ \A m \in k.reply.models : /\ m.account = k.account
                                      /\ m.base = k.setting.base
                                      /\ m.agent \in ToSet(k.setting.agents)
         /\ \A alias \in k.reply.aliases :
              \E m \in k.reply.models : m.agent = Aliases[alias]

=============================================================================
