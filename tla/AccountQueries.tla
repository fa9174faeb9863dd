--------------------------- MODULE AccountQueries ---------------------------
(***************************************************************************)
(* The questions the host asks about accounts: quota.fetch (QuotaCache)    *)
(* and model.for_auth (ModelCache), each answered from a cache of its own, *)
(* and scheduler.pick with the usage.handle that follows (UsageRollup).    *)
(* The caches share the clock and nothing else and the picker shares       *)
(* nothing, so a behaviour is one of the three.                            *)
(***************************************************************************)
EXTENDS QuotaCache, UsageRollup

CONSTANTS Owners, \* the accounts models are asked for
          Lookups, Settings, Aliases, TTL, MaxEntries

VARIABLES setting, entries, lookup,
          asked \* the question: "quota", "models" or "account"

Models == INSTANCE ModelCache WITH Accounts <- Owners

ASSUME QueryAssumption == Models!ModelAssumption

queryVars == <<vars, setting, entries, lookup, trafficVars, asked>>

QueryInit ==
  /\ Init /\ Models!Init /\ TrafficInit
  /\ asked \in {"quota", "models", "account"}

AskQuota ==
  asked = "quota" /\ Next /\ UNCHANGED <<setting, entries, lookup, trafficVars, asked>>
AskModels ==
  asked = "models" /\ Models!Next /\ UNCHANGED <<numbers, cache, call, trafficVars, asked>>
AskAccount ==
  asked = "account" /\ TrafficNext /\ UNCHANGED <<vars, setting, entries, lookup, asked>>

QueryNext == AskQuota \/ AskModels \/ AskAccount

QuerySpec == QueryInit /\ [][QueryNext]_queryVars

\* Types of both caches; the model cache keeps its bound however lookups overlap.
QueryTypeOK == TypeOK /\ Models!TypeOK

\* ModelCache's catalogue property, over the model lookups.
OwnCatalogue == Models!OwnCatalogue

=============================================================================
