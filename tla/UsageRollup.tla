----------------------------- MODULE UsageRollup -----------------------------
(***************************************************************************)
(* The usage rollup (usage_thinking.go) over the requests the picker       *)
(* placed.  The host reports every request once it has ended, in the order *)
(* the requests end and not the one they were picked in; a report is       *)
(* folded into the counters, the account's bucket and the recent samples   *)
(* under one lock.  Token sums accumulate as the request counts do and are *)
(* left out.                                                               *)
(***************************************************************************)
EXTENDS AccountPick, FiniteSets

CONSTANTS MaxRecentSamples, \* 200 in the code
          MaxRequests       \* bound: requests followed to their report

ASSUME RollupAssumption == MaxRecentSamples \in Nat \ {0} /\ MaxRequests \in Nat

VARIABLES placed,   \* the account of every request followed, NoAccount if another
                    \* provider's or unknown
          reported, \* the reports that came, in the order they came
          usage     \* the rollup

trafficVars == <<pickVars, placed, reported, usage>>

InFlight == DOMAIN placed \ {reported[k].request : k \in DOMAIN reported}

EmptyBucket == [requests |-> 0, failures |-> 0]

TrafficInit ==
  /\ PickInit
  /\ placed = <<>> /\ reported = <<>>
  /\ usage = [requests |-> 0, failures |-> 0, byAuth |-> <<>>, recent |-> <<>>]

-----------------------------------------------------------------------------
\* The picked account serves the request; left to itself the host takes any.
Takers == IF picked' = NoAccount THEN Pool \cup {NoAccount} ELSE {picked'}

\* A request is followed to its report, or not.
Place ==
  /\ PickNext
  /\ \/ /\ Len(placed) < MaxRequests
        /\ \E a \in Takers : placed' = Append(placed, a)
     \/ UNCHANGED placed
  /\ UNCHANGED <<reported, usage>>

Failure(record) == IF record.failed THEN 1 ELSE 0

Accumulate(bucket, record) ==
  [requests |-> bucket.requests + 1, failures |-> bucket.failures + Failure(record)]

MutBucketOf(account) == EmptyBucket

BucketOf(account) ==
  IF account \in DOMAIN usage.byAuth THEN usage.byAuth[account] ELSE EmptyBucket

Newest(samples) ==
  SubSeq(samples, IF Len(samples) > MaxRecentSamples THEN Len(samples) - MaxRecentSamples + 1
                  ELSE 1, Len(samples))

Observe(record) ==
  LET named == {record.auth} \ {NoAccount}
  IN [requests |-> usage.requests + 1,
      failures |-> usage.failures + Failure(record),
      byAuth |-> [a \in DOMAIN usage.byAuth \cup named |->
                    IF a \in named THEN Accumulate(BucketOf(a), record)
                    ELSE usage.byAuth[a]],
      recent |-> Newest(Append(usage.recent, record))]

\* usage.handle: the host reports a request that ended, of whatever provider.
UsageHandle(record) ==
  /\ reported' = Append(reported, record)
  /\ usage' = IF record.own THEN Observe(record) ELSE usage
  /\ UNCHANGED <<pickVars, placed>>

Report(request, own, failed) ==
  [request |-> request, auth |-> placed[request], own |-> own, failed |-> failed]

TrafficNext ==
  \/ Place
  \/ \E request \in InFlight, own, failed \in BOOLEAN :
       /\ placed[request] # NoAccount => own
       /\ UsageHandle(Report(request, own, failed))

TrafficSpec == TrafficInit /\ [][TrafficNext]_trafficVars

-----------------------------------------------------------------------------
Reports ==
  [request : Nat, auth : Pool \cup {NoAccount}, own : BOOLEAN, failed : BOOLEAN]

\* The reports on this provider's requests.
Own == Without(reported, {r \in Reports : ~r.own})

Count(Test(_)) == Cardinality({k \in DOMAIN Own : Test(Own[k])})

Ended(account) == {r \in DOMAIN placed \ InFlight : placed[r] = account}

\* scheduler_pick.go:61-98, usage_thinking.go:15-18 and 41-42 together.  A request goes to
\* an account its own offer contained and did not report down.  What the panel shows
\* for an account is the requests it was given and that are over, however their
\* reports overtake each other; the totals count the reports that name no account
\* too; the samples kept are the last that came, newest last.
TrafficAccounted ==
  /\ picked # NoAccount => Contains(usable, picked) /\ picked \notin down
  /\ \A a \in Pool :
       /\ BucketOf(a).requests = Cardinality(Ended(a))
       /\ BucketOf(a).failures = Count(LAMBDA r : r.auth = a /\ r.failed)
  /\ usage.requests = Len(Own)
  /\ usage.failures = Count(LAMBDA r : r.failed)
  /\ Len(usage.recent) = (IF Len(Own) < MaxRecentSamples THEN Len(Own) ELSE MaxRecentSamples)
  /\ IsSuffix(usage.recent, Own)

=============================================================================
