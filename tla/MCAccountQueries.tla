-------------------------- MODULE MCAccountQueries --------------------------
(***************************************************************************)
(* AccountQueries: quotas of one account, models of two, and two settings  *)
(* that ask another base URL and fewer agents.  Candidate lists of three   *)
(* accounts; requests are followed to their reports only over two.         *)
(***************************************************************************)
EXTENDS AccountQueries

CONSTANTS a1, a2, a3

MCSettings == {[base |-> "u1", agents |-> <<"act", "plan">>],
               [base |-> "u2", agents |-> <<"act">>]}
MCAliases == [act_alias |-> "act", plan_alias |-> "plan"]
MCOffers == {<<a1, a2, a3>>, <<a3, a1, a2>>, <<a2, a1>>}

\* Bound: once a request is followed, a3 is not offered and only a1 may be down.
FollowedOverTwo ==
  placed' # <<>> => a3 \notin ToSet(usable') \cup ToSet(placed') /\ down' \subseteq {a1}

\* What is not asked about starts in one way only.
MCInit ==
  /\ QueryInit
  /\ asked # "models" => setting.base = "u1" /\ \A l \in Lookups : lookup[l].account = a1

MCNext == QueryNext /\ FollowedOverTwo

MCSpec == MCInit /\ [][MCNext]_queryVars

=============================================================================
