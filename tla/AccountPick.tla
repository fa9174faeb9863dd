----------------------------- MODULE AccountPick -----------------------------
(***************************************************************************)
(* scheduler.pick (scheduler_pick.go): which account serves a request.     *)
(* The host offers a list of candidates with every request; the plugin     *)
(* rotates over the usable ones with a cursor it keeps between requests,   *)
(* or takes the preferred account.  The cursor moves under the picker's    *)
(* lock, so a pick is one step.                                            *)
(***************************************************************************)
EXTENDS Integers, Sequences, SequencesExt

CONSTANTS Pool,       \* the accounts
          Offers,     \* candidate lists the host may make
          Strategies, \* strategies configured over time
          Preferred,  \* scheduler.preferred_auth_id
          NoAccount   \* no account picked

ASSUME PickAssumption ==
  /\ Offers \subseteq Seq(Pool)
  /\ Strategies \subseteq {"round-robin", "preferred", "host"}
  /\ Preferred \in Pool /\ NoAccount \notin Pool

VARIABLES down,   \* the accounts the current request reports as unavailable
          usable, \* its candidates that can serve it
          picker, \* pickState
          picked, \* what the request got, NoAccount if the host decides
          round   \* the latest rotations over this list, one for each candidate

pickVars == <<down, usable, picker, picked, round>>

\* The loop over a list that keeps what is not dropped, in order.
Without(s, dropped) ==
  LET rest[n \in 0..Len(s)] ==
        IF n = 0 THEN <<>>
        ELSE IF s[n] \in dropped THEN rest[n - 1]
        ELSE Append(rest[n - 1], s[n])
  IN rest[Len(s)]

UsableCandidates(candidates, unavailable) == Without(candidates, unavailable)

PickInit ==
  /\ down = {}
  /\ usable = <<>>
  /\ picker = [last |-> NoAccount, cursor |-> 0]
  /\ picked = NoAccount
  /\ round = <<>>

\* The host's request: the same candidates as before, or others.
Request ==
  /\ down' \in SUBSET Pool
  /\ \E offer \in Offers : usable' = UsableCandidates(offer, down')

MutNextCursor(index, n) == index

NextCursor(index, n) == (index + 1) % n

RotationIndex(candidates) == picker.cursor % Len(candidates)

Remembered(account) ==
  LET before == IF usable' = usable THEN round ELSE <<>>
      all == Append(before, account)
  IN SubSeq(all, IF Len(all) > Len(usable') THEN 2 ELSE 1, Len(all))

\* round-robin; preferred falls through to it.
Rotate(strategy) ==
  /\ strategy # "host" /\ Request
  /\ usable' # <<>>
  /\ strategy = "preferred" => ~Contains(usable', Preferred)
  /\ LET index == RotationIndex(usable')
     IN /\ picked' = usable'[index + 1]
        /\ picker' = [last |-> usable'[index + 1], cursor |-> NextCursor(index, Len(usable'))]
        /\ round' = Remembered(usable'[index + 1])

\* remember: the preferred account does not move the cursor.
PickPreferred(strategy) ==
  /\ strategy = "preferred" /\ Request
  /\ Contains(usable', Preferred)
  /\ picked' = Preferred
  /\ picker' = [picker EXCEPT !.last = Preferred]
  /\ round' = IF usable' = usable THEN round ELSE <<>>

\* The host's own scheduler decides: by configuration, or for want of a candidate.
LeaveToHost(strategy) ==
  /\ Request
  /\ strategy = "host" \/ usable' = <<>>
  /\ picked' = NoAccount
  /\ round' = IF usable' = usable THEN round ELSE <<>>
  /\ UNCHANGED picker

Rotation == \E strategy \in Strategies : Rotate(strategy)

PickNext ==
  \/ Rotation
  \/ \E strategy \in Strategies : PickPreferred(strategy) \/ LeaveToHost(strategy)

PickSpec == PickInit /\ [][PickNext]_pickVars

-----------------------------------------------------------------------------

\* scheduler_pick.go:42-45, 145-146: while the same candidates are offered each is
\* used before any is repeated, wherever an earlier list left the cursor and whatever
\* preferred picks come between.
NoneRepeatedInRound == IsInjective(round)

=============================================================================
