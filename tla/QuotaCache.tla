------------------------------ MODULE QuotaCache ------------------------------
(***************************************************************************)
(* The quota snapshots (quota.go): quota.fetch answers the host from the   *)
(* cache and asks upstream when the entry is missing or too old; the       *)
(* quota_refresh task and the panel always ask; a deletion forgets.  The   *)
(* cache is locked for one access at a time, never across a request.       *)
(*                                                                         *)
(* A snapshot is [has, at, data, error]: data is the generation of the     *)
(* numbers upstream reported, 0 when it carries none.                      *)
(***************************************************************************)
EXTENDS Integers

CONSTANTS Accounts,
          Calls,   \* fetches in progress at once
          MaxAge,  \* how old an entry may be and still be served, 5 minutes
          MaxTime, \* bound: instants
          MaxData  \* bound: generations of upstream numbers

ASSUME QuotaAssumption == MaxAge \in Nat /\ MaxTime \in Nat /\ MaxData \in Nat \ {0}

VARIABLES now,     \* the clock
          numbers, \* the generation upstream reports now
          cache,   \* quotas.snapshots
          call     \* the fetches

vars == <<now, numbers, cache, call>>

Credentials == {"usable", "incomplete", "unreadable"}
NoSnapshot == [has |-> FALSE, at |-> 0, data |-> 0, error |-> FALSE]
NoReply == [ok |-> FALSE, data |-> 0, error |-> FALSE]
IdleCall(a) == [pc |-> "idle", account |-> a, refresh |-> FALSE, credential |-> "usable",
                seen |-> NoSnapshot, asked |-> FALSE, failed |-> FALSE, since |-> 0,
                got |-> 0, reply |-> NoReply]

Init ==
  /\ now = 0 /\ numbers = 1
  /\ cache = [a \in Accounts |-> NoSnapshot]
  /\ \E a \in Accounts : call = [c \in Calls |-> IdleCall(a)]

-----------------------------------------------------------------------------

Tick ==
  /\ now < MaxTime
  /\ now' = now + 1
  /\ UNCHANGED <<numbers, cache, call>>

\* External: the account is used, its numbers change.
NumbersChange ==
  /\ numbers < MaxData
  /\ numbers' = numbers + 1
  /\ UNCHANGED <<now, cache, call>>

Fresh(snapshot) == snapshot.has /\ now - snapshot.at <= MaxAge

\* toQuotaFetchResponse: the plan and the numbers.  The snapshot's error has no
\* place in it.
ToQuotaFetchResponse(snapshot) == [ok |-> TRUE, data |-> snapshot.data, error |-> FALSE]

\* quotaFetch looks the account up and answers, or goes on to ask upstream.  A
\* stored credential is usable, incomplete (served from the cache if possible) or
\* unreadable (an error).
QuotaFetch(c, a, credential) ==
  LET seen == cache[a]
      begun == [IdleCall(a) EXCEPT !.credential = credential, !.seen = seen, !.since = now]
  IN /\ call[c].pc = "idle"
     /\ call' = [call EXCEPT ![c] =
          IF Fresh(seen) \/ (credential = "incomplete" /\ seen.has)
          THEN [begun EXCEPT !.pc = "replied", !.reply = ToQuotaFetchResponse(seen)]
          ELSE IF credential = "usable" THEN [begun EXCEPT !.pc = "asking", !.asked = TRUE]
          ELSE [begun EXCEPT !.pc = "replied"]]
     /\ UNCHANGED <<now, numbers, cache>>

\* The quota_refresh task and POST /quota/refresh.
QuotaRefresh(c, a) ==
  /\ call[c].pc = "idle"
  /\ call' = [call EXCEPT ![c] = [IdleCall(a) EXCEPT !.pc = "asking", !.refresh = TRUE,
                                                     !.asked = TRUE, !.since = now]]
  /\ UNCHANGED <<now, numbers, cache>>

\* fetchQuotaSnapshot asks upstream ...
UpstreamAnswers(c) ==
  /\ call[c].pc = "asking"
  /\ call' = [call EXCEPT ![c].pc = "storing", ![c].got = numbers]
  /\ UNCHANGED <<now, numbers, cache>>

UpstreamFails(c) ==
  /\ call[c].pc = "asking"
  /\ call' = [call EXCEPT ![c].pc = "storing", ![c].failed = TRUE]
  /\ UNCHANGED <<now, numbers, cache>>

Snapshot(k) == [has |-> TRUE, at |-> now, data |-> k.got, error |-> k.failed]

MutReplyAfter(k) == ToQuotaFetchResponse(IF k.seen.has THEN k.seen ELSE Snapshot(k))

\* What quotaFetch answers after asking: on a failure, the snapshot it had seen.
ReplyAfter(k) ==
  IF ~k.failed THEN ToQuotaFetchResponse(Snapshot(k))
  ELSE IF k.seen.has THEN ToQuotaFetchResponse([k.seen EXCEPT !.error = TRUE])
  ELSE NoReply

\* ... and puts what came of it in the cache, a failure in place of the numbers.
Put(c) ==
  LET k == call[c]
  IN /\ k.pc = "storing"
     /\ cache' = [cache EXCEPT ![k.account] = Snapshot(k)]
     /\ call' = [call EXCEPT ![c] = IF k.refresh THEN IdleCall(k.account)
                                    ELSE [k EXCEPT !.pc = "replied", !.reply = ReplyAfter(k)]]
     /\ UNCHANGED <<now, numbers>>

Return(c) ==
  /\ call[c].pc = "replied"
  /\ call' = [call EXCEPT ![c] = IdleCall(call[c].account)]
  /\ UNCHANGED <<now, numbers, cache>>

\* handleDelete, once the auth file is gone.
Forget(a) ==
  /\ cache[a].has
  /\ cache' = [cache EXCEPT ![a] = NoSnapshot]
  /\ UNCHANGED <<now, numbers, call>>

Next ==
  \/ Tick \/ NumbersChange
  \/ \E a \in Accounts : Forget(a)
  \/ \E c \in Calls : \/ \E a \in Accounts, credential \in Credentials :
                           QuotaFetch(c, a, credential)
                      \/ \E a \in Accounts : QuotaRefresh(c, a)
                      \/ UpstreamAnswers(c) \/ UpstreamFails(c) \/ Put(c) \/ Return(c)

Spec == Init /\ [][Next]_vars

-----------------------------------------------------------------------------

SnapshotType == [has : BOOLEAN, at : 0..MaxTime, data : 0..MaxData, error : BOOLEAN]
CallType ==
  [pc : {"idle", "asking", "storing", "replied"}, account : Accounts, refresh : BOOLEAN,
   credential : Credentials, seen : SnapshotType, asked : BOOLEAN, failed : BOOLEAN,
   since : 0..MaxTime, got : 0..MaxData,
   reply : [ok : BOOLEAN, data : 0..MaxData, error : BOOLEAN]]

\* Types; a snapshot with an error carries no numbers.
TypeOK ==
  /\ now \in 0..MaxTime /\ numbers \in 0..MaxData
  /\ cache \in [Accounts -> SnapshotType]
  /\ call \in [Calls -> CallType]
  /\ \A a \in Accounts : cache[a].error => cache[a].data = 0

Replied(c) == call[c].pc = "replied" /\ call[c].reply.ok

\* quota.go:284-296: with fetches of one account overlapping, an answer never
\* carries numbers older than the entry its call found, and numbers it asked for
\* itself when upstream gave them.
RepliesAdvance ==
  \A c \in Calls : Replied(c) =>
    /\ call[c].seen.has => call[c].reply.data >= call[c].seen.data
    /\ call[c].asked /\ ~call[c].failed => call[c].reply.data = call[c].got

=============================================================================
