------------------------------ MODULE LoginFlow ------------------------------
(***************************************************************************)
(* Browser sign-in (auth.go, management.go): authLoginStart binds a        *)
(* loopback listener and enters the flow in loginSessions, a goroutine     *)
(* per flow (poll) exchanges the grant the callback brings, and the host   *)
(* asks for the outcome with authLoginPoll until it gets one.              *)
(*                                                                         *)
(* A grant is an OAuth "code" or the legacy "ticket" secret.  Time is a    *)
(* counter; no two flows start at the same instant.  A loopback request is *)
(* handled in one step.                                                    *)
(***************************************************************************)
EXTENDS Integers, FiniteSets

CONSTANTS Flows,            \* login attempts
          Nobody,           \* the flow of a call that has none
          Polls,            \* authLoginPoll calls in progress at once
          Channels,         \* the ways each flow's callback may come
          MaxLoginSessions, \* auth.go:221
          Timeouts,         \* values of Config.loginTimeout over time
          MaxTime,          \* bound: instants
          MaxExchanges      \* bound: exchanges of one flow

ASSUME LoginAssumption ==
  /\ IsFiniteSet(Flows) /\ Nobody \notin Flows
  /\ Channels \in [Flows -> SUBSET {"loopback", "panel", "file"}]
  /\ MaxLoginSessions \in Nat \ {0}
  /\ Timeouts \subseteq Nat /\ Timeouts # {}
  /\ MaxTime \in Nat /\ MaxExchanges \in Nat

VARIABLES now,          \* the clock
          timeout,      \* the configured login timeout
          flow,         \* the loginSession of each flow
          table,        \* the flows loginSessions holds
          callbackFile, \* .oauth-<provider>-<state>.oauth in the auth directory
          poll,         \* each authLoginPoll in progress
          panel,        \* the handleLoginCallback in progress
          sweeping,     \* flows stopLoginSessions took and has not stopped yet
          answered      \* final answers the host got for each flow

vars == <<now, timeout, flow, table, callbackFile, poll, panel, sweeping, answered>>

Grants == {"code", "ticket"}

NewSession ==
  [phase |-> "unborn", started |-> 0, expires |-> 0, listening |-> FALSE, cancelled |-> FALSE,
   received |-> "none", err |-> FALSE, credential |-> FALSE,
   poller |-> "none", exchanges |-> 0]
IdlePoll == [pc |-> "idle", flow |-> Nobody, held |-> "none", outcome |-> "none"]
IdlePanel == [pc |-> "idle", flow |-> Nobody]

Init ==
  /\ now = 0
  /\ timeout \in Timeouts
  /\ flow = [f \in Flows |-> NewSession]
  /\ table = {}
  /\ callbackFile = [f \in Flows |-> "none"]
  /\ poll = [p \in Polls |-> IdlePoll]
  /\ panel = IdlePanel
  /\ sweeping = {}
  /\ answered = [f \in Flows |-> {}]

Expired(f) == now > flow[f].expires
ContextDone(f) == flow[f].cancelled \/ now >= flow[f].expires
Stopped(session) == [session EXCEPT !.cancelled = TRUE, !.listening = FALSE]

-----------------------------------------------------------------------------
(***************************************************************************)
(* Starting a flow.                                                        *)
(***************************************************************************)

Tick ==
  /\ now < MaxTime
  /\ now' = now + 1
  /\ UNCHANGED <<timeout, flow, table, callbackFile, poll, panel, sweeping, answered>>

Reconfigure ==
  /\ timeout' \in Timeouts \ {timeout}
  /\ UNCHANGED <<now, flow, table, callbackFile, poll, panel, sweeping, answered>>

\* The listener serves before the flow is in the table.
LoginStart(f) ==
  /\ flow[f].phase = "unborn"
  /\ now + 1 + timeout <= MaxTime
  /\ now' = now + 1
  /\ flow' = [flow EXCEPT ![f].phase = "bound", ![f].listening = TRUE,
                          ![f].started = now + 1, ![f].expires = now + 1 + timeout]
  /\ UNCHANGED <<timeout, table, callbackFile, poll, panel, sweeping, answered>>

MutEvictionKeeps(kept, flows) ==
  /\ kept \subseteq flows
  /\ Cardinality(kept) = IF Cardinality(flows) > MaxLoginSessions + 1
                         THEN MaxLoginSessions + 1 ELSE Cardinality(flows)

MutEvictionLatest(kept, flows) ==
  LET live == {f \in flows : ~Expired(f)}
  IN /\ kept \subseteq live
     /\ Cardinality(kept) = IF Cardinality(live) > MaxLoginSessions
                            THEN MaxLoginSessions ELSE Cardinality(live)
     /\ \A f \in kept, g \in live \ kept : flow[f].expires <= flow[g].expires

\* What evictLoginSessionsLocked leaves: expired flows go, then those closest to
\* expiry while the table is over its limit.
EvictionKeeps(kept, flows) ==
  LET live == {f \in flows : ~Expired(f)}
  IN /\ kept \subseteq live
     /\ Cardinality(kept) = IF Cardinality(live) > MaxLoginSessions
                            THEN MaxLoginSessions ELSE Cardinality(live)
     /\ \A f \in kept, g \in live \ kept : flow[g].expires <= flow[f].expires

MutEvictedNotStopped(session) == [session EXCEPT !.phase = "tabled"]

Evicted(session) == Stopped(session)

LoginTabled(f) ==
  /\ flow[f].phase = "bound"
  /\ \E kept \in SUBSET Flows :
       /\ EvictionKeeps(kept, table \cup {f})
       /\ table' = kept
       /\ LET entered == [flow EXCEPT ![f].phase = "tabled", ![f].poller = "waiting"]
          IN flow' = [g \in Flows |-> IF g \in (table \cup {f}) \ kept
                                      THEN Evicted(entered[g]) ELSE entered[g]]
  /\ UNCHANGED <<now, timeout, callbackFile, poll, panel, sweeping, answered>>

-----------------------------------------------------------------------------
(***************************************************************************)
(* The callback: over the loopback listener, pasted into the panel, or     *)
(* left by the host as a file.  The first grant wins.                      *)
(***************************************************************************)

HandleCallback(f, grant) ==
  /\ "loopback" \in Channels[f]
  /\ flow[f].listening /\ ~Expired(f)
  /\ flow[f].received = "none"
  /\ flow' = [flow EXCEPT ![f].received = grant]
  /\ UNCHANGED <<now, timeout, table, callbackFile, poll, panel, sweeping, answered>>

\* handleLoginCallback finds the flow under loginMu ...
PanelLookup(f) ==
  /\ "panel" \in Channels[f] /\ panel.pc = "idle"
  /\ f \in table /\ ~Expired(f)
  /\ panel' = [pc |-> "found", flow |-> f]
  /\ UNCHANGED <<now, timeout, flow, table, callbackFile, poll, sweeping, answered>>

MutPanelAlwaysAccepts(session) == ~session.err

PanelAccepts(session) == ~session.err /\ session.received = "none"

\* ... and hands it the grant under the flow's own lock, later.
PanelSubmit(grant) ==
  /\ panel.pc = "found"
  /\ panel' = IdlePanel
  /\ flow' = IF PanelAccepts(flow[panel.flow])
             THEN [flow EXCEPT ![panel.flow].received = grant, ![panel.flow].listening = FALSE]
             ELSE flow
  /\ UNCHANGED <<now, timeout, table, callbackFile, poll, sweeping, answered>>

\* External: the host stores a callback it received, whole or unusable, over one
\* it stored before.
HostWritesCallback(f, content) ==
  /\ "file" \in Channels[f]
  /\ flow[f].phase # "unborn" /\ callbackFile[f] # content
  /\ callbackFile' = [callbackFile EXCEPT ![f] = content]
  /\ UNCHANGED <<now, timeout, flow, table, poll, panel, sweeping, answered>>

-----------------------------------------------------------------------------
(***************************************************************************)
(* The flow's goroutine, loginSession.poll.  When its context is done and  *)
(* its ticker has fired, select picks either.                              *)
(***************************************************************************)

PollerOnly == UNCHANGED <<now, timeout, table, callbackFile, poll, panel, sweeping, answered>>

HasGrant(session) == session.received # "none"

ExchangeStart(f) ==
  /\ flow[f].poller = "waiting" /\ HasGrant(flow[f])
  /\ flow[f].exchanges < MaxExchanges
  /\ flow' = [flow EXCEPT ![f].poller = "exchanging", ![f].exchanges = @ + 1]
  /\ PollerOnly

ExchangeGranted(f) ==
  /\ flow[f].poller = "exchanging"
  /\ flow' = [flow EXCEPT ![f].poller = "stopping", ![f].credential = TRUE]
  /\ PollerOnly

MutRetries(grant) == TRUE

\* Only the legacy ticket exchange is tried again.
Retries(grant) == grant = "ticket"

ExchangeRefused(f) ==
  /\ flow[f].poller = "exchanging" /\ ~Retries(flow[f].received)
  /\ flow' = [flow EXCEPT ![f].poller = "stopping", ![f].err = TRUE]
  /\ PollerOnly

ExchangeAgain(f) ==
  /\ flow[f].poller = "exchanging" /\ Retries(flow[f].received)
  /\ flow' = [flow EXCEPT ![f].poller = IF flow[f].err THEN "stopping" ELSE "waiting"]
  /\ PollerOnly

\* The address of the ticket exchange does not parse: no request, no retry.
TicketMisdirected(f) ==
  /\ flow[f].poller = "exchanging" /\ flow[f].received = "ticket"
  /\ flow' = [flow EXCEPT ![f].poller = "stopping", ![f].err = TRUE]
  /\ PollerOnly

PollerTimesOut(f) ==
  /\ flow[f].poller = "waiting" /\ ContextDone(f)
  /\ flow' = [flow EXCEPT ![f].poller = "stopping", ![f].err = TRUE]
  /\ PollerOnly

MutPollerLeaves(session) == [session EXCEPT !.poller = "done"]

PollerLeaves(session) == [Stopped(session) EXCEPT !.poller = "done"]

\* The deferred stop.
PollerEnds(f) ==
  /\ flow[f].poller = "stopping"
  /\ flow' = [flow EXCEPT ![f] = PollerLeaves(flow[f])]
  /\ PollerOnly

-----------------------------------------------------------------------------
(***************************************************************************)
(* authLoginPoll.                                                          *)
(***************************************************************************)

MutUnknownAnswer == {}

UnknownAnswer == {"error"}

PollUnknown(p, f) ==
  /\ poll[p].pc = "idle" /\ flow[f].phase = "tabled" /\ f \notin table
  /\ answered' = [answered EXCEPT ![f] = @ \cup UnknownAnswer]
  /\ UNCHANGED <<now, timeout, flow, table, callbackFile, poll, panel, sweeping>>

PollLookup(p, f) ==
  /\ poll[p].pc = "idle" /\ f \in table
  /\ poll' = [poll EXCEPT ![p] =
       [pc |-> IF Expired(f) THEN "stopping" ELSE "found", flow |-> f, held |-> "none",
        outcome |-> IF Expired(f) THEN "error" ELSE "none"]]
  /\ UNCHANGED <<now, timeout, flow, table, callbackFile, panel, sweeping, answered>>

ReadCallbackFile(p) ==
  /\ poll[p].pc = "found"
  /\ poll' = [poll EXCEPT ![p].pc = "read", ![p].held = callbackFile[poll[p].flow]]
  /\ UNCHANGED <<now, timeout, flow, table, callbackFile, panel, sweeping, answered>>

First(session) == session.received = "none" /\ ~session.err

\* A file that cannot be used fails the flow; one that can counts only if nothing
\* came before it.
CallbackApplied(session, held) ==
  [session EXCEPT !.err = session.err \/ held = "bad" \/ (held = "error" /\ First(session)),
                  !.received = IF held = "code" /\ First(session) THEN "code" ELSE @]

\* A file that can be used is removed, the other stays.
ApplyCallbackFile(p) ==
  /\ poll[p].pc = "read"
  /\ poll' = [poll EXCEPT ![p].pc = "applied"]
  /\ callbackFile' = IF poll[p].held \in {"code", "error"}
                     THEN [callbackFile EXCEPT ![poll[p].flow] = "consumed"] ELSE callbackFile
  /\ flow' = [flow EXCEPT ![poll[p].flow] = CallbackApplied(@, poll[p].held)]
  /\ UNCHANGED <<now, timeout, table, panel, sweeping, answered>>

PollPending(p) ==
  /\ poll[p].pc = "applied"
  /\ ~flow[poll[p].flow].err /\ ~flow[poll[p].flow].credential
  /\ poll' = [poll EXCEPT ![p] = IdlePoll]
  /\ UNCHANGED <<now, timeout, flow, table, callbackFile, panel, sweeping, answered>>

\* An error outranks a credential.
PollDecide(p) ==
  /\ poll[p].pc = "applied"
  /\ flow[poll[p].flow].err \/ flow[poll[p].flow].credential
  /\ poll' = [poll EXCEPT ![p].pc = "stopping",
                          ![p].outcome = IF flow[poll[p].flow].err THEN "error" ELSE "success"]
  /\ UNCHANGED <<now, timeout, flow, table, callbackFile, panel, sweeping, answered>>

PollStop(p) ==
  /\ poll[p].pc = "stopping"
  /\ poll' = [poll EXCEPT ![p].pc = "deleting"]
  /\ flow' = [flow EXCEPT ![poll[p].flow] = Stopped(@)]
  /\ UNCHANGED <<now, timeout, table, callbackFile, panel, sweeping, answered>>

PollAnswer(p) ==
  /\ poll[p].pc = "deleting"
  /\ table' = table \ {poll[p].flow}
  /\ answered' = [answered EXCEPT ![poll[p].flow] = @ \cup {poll[p].outcome}]
  /\ poll' = [poll EXCEPT ![p] = IdlePoll]
  /\ UNCHANGED <<now, timeout, flow, callbackFile, panel, sweeping>>

-----------------------------------------------------------------------------
(***************************************************************************)
(* stopLoginSessions, on quiesce and on shutdown.                          *)
(***************************************************************************)

SweepTable ==
  /\ table # {}
  /\ sweeping' = sweeping \cup table
  /\ table' = {}
  /\ UNCHANGED <<now, timeout, flow, callbackFile, poll, panel, answered>>

SweepStop(f) ==
  /\ f \in sweeping
  /\ sweeping' = sweeping \ {f}
  /\ flow' = [flow EXCEPT ![f] = Stopped(@)]
  /\ UNCHANGED <<now, timeout, table, callbackFile, poll, panel, answered>>

-----------------------------------------------------------------------------

PollSteps(p) ==
  \/ ReadCallbackFile(p) \/ ApplyCallbackFile(p) \/ PollPending(p)
  \/ PollDecide(p) \/ PollStop(p) \/ PollAnswer(p)
PollerSteps(f) ==
  \/ ExchangeStart(f) \/ ExchangeGranted(f) \/ ExchangeRefused(f) \/ ExchangeAgain(f)
  \/ TicketMisdirected(f) \/ PollerTimesOut(f) \/ PollerEnds(f)

Settled == now = MaxTime /\ \A f \in Flows : flow[f].poller \in {"none", "done"}
Idle == Settled /\ UNCHANGED vars

Next ==
  \/ Tick \/ Reconfigure \/ SweepTable \/ Idle
  \/ \E f \in Flows : \/ LoginStart(f) \/ LoginTabled(f) \/ PanelLookup(f) \/ SweepStop(f)
                      \/ PollerSteps(f)
                      \/ \E grant \in Grants : HandleCallback(f, grant)
                      \/ \E c \in {"code", "error", "bad"} : HostWritesCallback(f, c)
                      \/ \E p \in Polls : PollUnknown(p, f) \/ PollLookup(p, f)
  \/ \E grant \in Grants : PanelSubmit(grant)
  \/ \E p \in Polls : PollSteps(p)

Spec == Init /\ [][Next]_vars

\* The plugin's own part: time passes, a started flow is entered and its
\* goroutine runs; an exchange is answered; when the context is done select
\* takes that branch sooner or later, however often the ticker fires.
PluginFairness ==
  /\ WF_vars(Tick)
  /\ \A f \in Flows : /\ WF_vars(LoginTabled(f)) /\ WF_vars(PollerEnds(f))
                      /\ SF_vars(PollerTimesOut(f))
                      /\ WF_vars(\/ ExchangeGranted(f) \/ ExchangeRefused(f)
                                 \/ ExchangeAgain(f) \/ TicketMisdirected(f))

\* The host's part: it asks about each flow until it has an answer, and a call
\* it makes is carried out.
HostFairness ==
  /\ \A p \in Polls : WF_vars(PollSteps(p))
  /\ \A f \in Flows : SF_vars(/\ answered[f] = {}
                              /\ \E p \in Polls : PollUnknown(p, f) \/ PollLookup(p, f))

PluginSpec == Spec /\ PluginFairness

-----------------------------------------------------------------------------

Session ==
  [phase : {"unborn", "bound", "tabled"}, started : Nat, expires : Nat, listening : BOOLEAN,
   cancelled : BOOLEAN, received : {"none"} \cup Grants, err : BOOLEAN,
   credential : BOOLEAN, poller : {"none", "waiting", "exchanging", "stopping", "done"},
   exchanges : 0..MaxExchanges]
PollState ==
  [pc : {"idle", "found", "read", "applied", "stopping", "deleting"},
   flow : Flows \cup {Nobody}, held : {"none", "code", "error", "bad", "consumed"},
   outcome : {"none", "success", "error"}]

\* Types of the sign-in state; nothing is exchanged before a grant came, and the
\* table keeps its bound (auth.go:217-220).
TypeOK ==
  /\ now \in 0..MaxTime
  /\ timeout \in Timeouts
  /\ flow \in [Flows -> Session]
  /\ \A f \in Flows : flow[f].exchanges > 0 => flow[f].received # "none"
  /\ table \subseteq Flows /\ Cardinality(table) <= MaxLoginSessions
  /\ sweeping \subseteq Flows
  /\ callbackFile \in [Flows -> {"none", "code", "error", "bad", "consumed"}]
  /\ poll \in [Polls -> PollState]
  /\ panel \in [pc : {"idle", "found"}, flow : Flows \cup {Nobody}]
  /\ answered \in [Flows -> SUBSET {"success", "error"}]

\* auth.go:217-220: no way out of the table (eviction, a final answer, the sweep
\* of a quiesce) leaves a flow with its listener open and its goroutine waiting.
NoneLeftRunning ==
  \A f \in Flows : flow[f].phase = "tabled" /\ f \notin table =>
    \/ flow[f].cancelled /\ ~flow[f].listening
    \/ f \in sweeping

\* auth.go:689: an authorization code is good for one exchange and gets one,
\* however late the callback and the end of the flow's context meet.
CodeExchangedOnce == \A f \in Flows : flow[f].received = "code" => flow[f].exchanges <= 1

\* auth.go:563-570, management.go:212-216: with the loopback listener, the panel
\* and the host's file all able to bring a grant, the first one stands.
FirstCallbackWins ==
  [][\A f \in Flows : flow[f].received # "none" => flow'[f].received = flow[f].received]_vars

\* auth.go:223-225: making room keeps the newest attempt, the one the operator just
\* started.
NewestSurvives ==
  [][\A f \in Flows :
       /\ flow[f].phase = "bound" /\ flow'[f].phase = "tabled"
       /\ ~Expired(f)
       /\ \A g \in table : flow[g].started < flow[f].started
       => f \in table']_vars

\* auth.go:217-220: asked about or not, a flow gives back its listener and ends
\* its goroutine.
FlowReleased ==
  \A f \in Flows :
    flow[f].phase = "bound" ~> ~flow[f].listening /\ flow[f].poller = "done"

\* A host that keeps asking gets a final answer for every flow.
FlowAnswered ==
  HostFairness => \A f \in Flows : flow[f].phase = "bound" ~> answered[f] # {}

=============================================================================
