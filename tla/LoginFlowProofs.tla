--------------------------- MODULE LoginFlowProofs ---------------------------
(***************************************************************************)
(* Browser sign-in for any number of flows and of polls: the types, that   *)
(* nothing that left the table is left running, that a code is exchanged   *)
(* once, that the first callback stands and that the newest attempt        *)
(* survives the making of room.                                            *)
(***************************************************************************)
EXTENDS LoginFlow, FiniteSetTheorems, TLAPS

\* What a session keeps to by itself.
Sound(s) ==
  /\ s.exchanges > 0 => s.received # "none"
  /\ s.phase # "tabled" => s.poller = "none"
  /\ s.received = "code" => /\ s.exchanges <= 1
                            /\ s.poller \in {"none", "waiting"} => s.exchanges = 0

SessionsSound == flow \in [Flows -> Session] /\ \A f \in Flows : Sound(flow[f])

Tabled(f) == f \in Flows /\ flow[f].phase = "tabled"

\* A call in progress is about a flow that was in the table.
PollSound(p) ==
  /\ poll[p].pc # "idle" => Tabled(poll[p].flow)
  /\ poll[p].pc \in {"stopping", "deleting"} => poll[p].outcome # "none"
  /\ poll[p].pc = "deleting" => /\ flow[poll[p].flow].cancelled = TRUE
                                /\ flow[poll[p].flow].listening = FALSE

Reached ==
  /\ \A p \in Polls : PollSound(p)
  /\ panel.pc = "found" => Tabled(panel.flow)
  /\ \A f \in table \cup sweeping : Tabled(f)

NoneLeft ==
  \A f \in Flows : flow[f].phase = "tabled" /\ f \notin table =>
    \/ flow[f].cancelled = TRUE /\ flow[f].listening = FALSE
    \/ f \in sweeping

Rest ==
  /\ now \in 0..MaxTime
  /\ timeout \in Timeouts
  /\ table \subseteq Flows /\ Cardinality(table) <= MaxLoginSessions
  /\ sweeping \subseteq Flows
  /\ callbackFile \in [Flows -> {"none", "code", "error", "bad", "consumed"}]
  /\ poll \in [Polls -> PollState]
  /\ panel \in [pc : {"idle", "found"}, flow : Flows \cup {Nobody}]
  /\ answered \in [Flows -> SUBSET {"success", "error"}]

IInv == SessionsSound /\ Rest /\ Reached /\ NoneLeft

\* How a session may change outside LoginTabled.
Onward(s, t) ==
  IF s.phase = "tabled"
  THEN /\ t.phase = "tabled"
       /\ s.listening = FALSE => t.listening = FALSE
       /\ s.cancelled = TRUE => t.cancelled = TRUE
  ELSE t.phase # "tabled"

-----------------------------------------------------------------------------
LEMMA OneSession ==
  ASSUME SessionsSound, NEW f, NEW s,
         f \in Flows => s \in Session /\ Sound(s) /\ Onward(flow[f], s),
         flow' = [flow EXCEPT ![f] = s]
  PROVE  SessionsSound' /\ \A g \in Flows : Onward(flow[g], flow'[g])
<1>1. \A g \in Flows : flow'[g] = IF g = f THEN s ELSE flow[g]
  BY DEF SessionsSound
<1>2. flow' \in [Flows -> Session]
  BY DEF SessionsSound
<1>3. \A g \in Flows : Onward(flow[g], flow[g])
  BY DEF Onward
<1> QED
  BY <1>1, <1>2, <1>3 DEF SessionsSound

LEMMA Onwards ==
  ASSUME Reached, NoneLeft, \A g \in Flows : Onward(flow[g], flow'[g]),
         \A p \in Polls : poll'[p] = poll[p] \/ PollSound(p)',
         panel' \in {panel, IdlePanel}, UNCHANGED <<table, sweeping>>
  PROVE  Reached' /\ NoneLeft'
<1>1. \A g : Tabled(g) => Tabled(g)'
  BY DEF Tabled, Onward
<1>2. ASSUME NEW p \in Polls PROVE PollSound(p)'
  BY <1>1 DEF Reached, PollSound, Onward, Tabled
<1>3. NoneLeft'
  BY DEF NoneLeft, Onward
<1> QED
  BY <1>1, <1>2, <1>3 DEF Reached, IdlePanel

\* What a session becomes while its place in the table stays.
LEMMA SessionMoves ==
  ASSUME IInv, NEW f, NEW s,
         f \in Flows => s \in Session /\ Sound(s) /\ Onward(flow[f], s),
         flow' = [flow EXCEPT ![f] = s],
         \A p \in Polls : poll'[p] = poll[p] \/ PollSound(p)',
         panel' \in {panel, IdlePanel}, UNCHANGED <<table, sweeping>>
  PROVE  SessionsSound' /\ Reached' /\ NoneLeft'
BY OneSession, Onwards DEF IInv

LEMMA RestKept ==
  ASSUME Rest,
         UNCHANGED <<now, timeout, table, callbackFile, poll, panel, sweeping, answered>>
  PROVE  Rest'
BY DEF Rest

LEMMA PollerKeeps == ASSUME LoginAssumption, IInv, NEW f \in Flows, PollerSteps(f) PROVE IInv'
<1>0. flow[f] \in Session /\ Sound(flow[f]) /\ flow \in [Flows -> Session] /\ MaxExchanges \in Nat
  BY DEF IInv, SessionsSound, LoginAssumption
<1>1. CASE ExchangeStart(f)
  <2> DEFINE s == [flow[f] EXCEPT !.poller = "exchanging", !.exchanges = @ + 1]
  <2>1. flow' = [flow EXCEPT ![f] = s]
    BY <1>0, <1>1 DEF ExchangeStart
  <2>2. s \in Session /\ Sound(s) /\ Onward(flow[f], s)
    BY <1>0, <1>1 DEF ExchangeStart, HasGrant, Session, Sound, Onward
  <2> QED
    BY <1>1, <2>1, <2>2, SessionMoves, RestKept DEF ExchangeStart, PollerOnly, IInv
<1>2. CASE ExchangeGranted(f)
  <2> DEFINE s == [flow[f] EXCEPT !.poller = "stopping", !.credential = TRUE]
  <2>1. flow' = [flow EXCEPT ![f] = s]
    BY <1>0, <1>2 DEF ExchangeGranted
  <2>2. s \in Session /\ Sound(s) /\ Onward(flow[f], s)
    BY <1>0, <1>2 DEF ExchangeGranted, Session, Sound, Onward
  <2> QED
    BY <1>2, <2>1, <2>2, SessionMoves, RestKept DEF ExchangeGranted, PollerOnly, IInv
<1>3. CASE ExchangeRefused(f)
  <2> DEFINE s == [flow[f] EXCEPT !.poller = "stopping", !.err = TRUE]
  <2>1. flow' = [flow EXCEPT ![f] = s]
    BY <1>0, <1>3 DEF ExchangeRefused
  <2>2. s \in Session /\ Sound(s) /\ Onward(flow[f], s)
    BY <1>0, <1>3 DEF ExchangeRefused, Session, Sound, Onward
  <2> QED
    BY <1>3, <2>1, <2>2, SessionMoves, RestKept DEF ExchangeRefused, PollerOnly, IInv
<1>4. CASE ExchangeAgain(f)
  <2> DEFINE s == [flow[f] EXCEPT !.poller = IF flow[f].err THEN "stopping" ELSE "waiting"]
  <2>1. flow' = [flow EXCEPT ![f] = s]
    BY <1>0, <1>4 DEF ExchangeAgain
  <2>2. s \in Session /\ Sound(s) /\ Onward(flow[f], s)
    BY <1>0, <1>4 DEF ExchangeAgain, Retries, Session, Sound, Onward
  <2> QED
    BY <1>4, <2>1, <2>2, SessionMoves, RestKept DEF ExchangeAgain, PollerOnly, IInv
<1>5. CASE PollerTimesOut(f)
  <2> DEFINE s == [flow[f] EXCEPT !.poller = "stopping", !.err = TRUE]
  <2>1. flow' = [flow EXCEPT ![f] = s]
    BY <1>0, <1>5 DEF PollerTimesOut
  <2>2. s \in Session /\ Sound(s) /\ Onward(flow[f], s)
    BY <1>0, <1>5 DEF PollerTimesOut, Session, Sound, Onward
  <2> QED
    BY <1>5, <2>1, <2>2, SessionMoves, RestKept DEF PollerTimesOut, PollerOnly, IInv
<1>6. CASE PollerEnds(f)
  <2>1. LET s == PollerLeaves(flow[f]) IN s \in Session /\ Sound(s) /\ Onward(flow[f], s)
    BY <1>0, <1>6 DEF PollerEnds, PollerLeaves, Stopped, Session, Sound, Onward
  <2> QED
    BY <1>6, <2>1, SessionMoves, RestKept DEF PollerEnds, PollerOnly, IInv
<1>7. CASE TicketMisdirected(f)
  <2> DEFINE s == [flow[f] EXCEPT !.poller = "stopping", !.err = TRUE]
  <2>1. flow' = [flow EXCEPT ![f] = s]
    BY <1>0, <1>7 DEF TicketMisdirected
  <2>2. s \in Session /\ Sound(s) /\ Onward(flow[f], s)
    BY <1>0, <1>7 DEF TicketMisdirected, Session, Sound, Onward
  <2> QED
    BY <1>7, <2>1, <2>2, SessionMoves, RestKept DEF TicketMisdirected, PollerOnly, IInv
<1> QED
  BY <1>1, <1>2, <1>3, <1>4, <1>5, <1>6, <1>7 DEF PollerSteps

LEMMA CallbackKeeps ==
  ASSUME LoginAssumption, IInv, NEW grant \in Grants,
         PanelSubmit(grant) \/ \E f \in Flows : HandleCallback(f, grant)
  PROVE  IInv'
<1>0. flow \in [Flows -> Session] /\ \A g \in Flows : flow[g] \in Session /\ Sound(flow[g])
  BY DEF IInv, SessionsSound
<1>1. ASSUME NEW f \in Flows, HandleCallback(f, grant) PROVE IInv'
  <2> DEFINE s == [flow[f] EXCEPT !.received = grant]
  <2>1. flow' = [flow EXCEPT ![f] = s]
    BY <1>0, <1>1 DEF HandleCallback
  <2>2. s \in Session /\ Sound(s) /\ Onward(flow[f], s)
    BY <1>0, <1>1 DEF HandleCallback, Session, Sound, Onward
  <2> QED
    BY <1>1, <2>1, <2>2, SessionMoves, RestKept DEF HandleCallback, IInv
<1>2. CASE PanelSubmit(grant)
  <2> DEFINE g == panel.flow
             s == IF PanelAccepts(flow[g])
                  THEN [flow[g] EXCEPT !.received = grant, !.listening = FALSE] ELSE flow[g]
  <2>0. Tabled(g)
    BY <1>2 DEF PanelSubmit, IInv, Reached
  <2>1. flow' = [flow EXCEPT ![g] = s]
    BY <1>0, <1>2, <2>0 DEF PanelSubmit, Tabled
  <2>2. s \in Session /\ Sound(s) /\ Onward(flow[g], s)
    <3>1. flow[g] \in Session /\ Sound(flow[g])
      BY <1>0, <2>0 DEF Tabled
    <3>2. CASE PanelAccepts(flow[g])
      <4>1. flow[g].received = "none" /\ s = [flow[g] EXCEPT !.received = grant, !.listening = FALSE]
        BY <3>2 DEF PanelAccepts
      <4> HIDE DEF g, s
      <4>2. s \in Session
        BY <3>1, <4>1 DEF Session
      <4>3. Sound(s)
        BY <3>1, <4>1 DEF Session, Sound
      <4>4. Onward(flow[g], s)
        BY <3>1, <4>1 DEF Session, Onward
      <4> QED
        BY <4>2, <4>3, <4>4
    <3>3. CASE ~PanelAccepts(flow[g])
      BY <3>1, <3>3 DEF Onward
    <3> QED
      BY <3>2, <3>3
  <2>3. SessionsSound' /\ Reached' /\ NoneLeft'
    BY <1>2, <2>1, <2>2, SessionMoves DEF PanelSubmit
  <2>5. Rest'
    BY <1>2 DEF IInv, Rest, PanelSubmit, IdlePanel
  <2> QED
    BY <2>3, <2>5 DEF IInv
<1> QED
  BY <1>1, <1>2

\* What PollSteps changes of the calls in progress.
LEMMA OnePoll ==
  ASSUME Rest, NEW p, NEW s, p \in Polls => s \in PollState, poll' = [poll EXCEPT ![p] = s]
  PROVE  /\ poll' \in [Polls -> PollState]
         /\ \A q \in Polls : poll'[q] = IF q = p THEN s ELSE poll[q]
BY DEF Rest

LEMMA PollKeeps == ASSUME LoginAssumption, IInv, NEW p \in Polls, PollSteps(p) PROVE IInv'
<1> DEFINE f == poll[p].flow
<1>0. /\ flow \in [Flows -> Session] /\ \A g \in Flows : flow[g] \in Session /\ Sound(flow[g])
      /\ poll \in [Polls -> PollState] /\ poll[p] \in PollState
      /\ PollSound(p) /\ Rest /\ IsFiniteSet(Flows)
  BY DEF IInv, SessionsSound, Rest, Reached, LoginAssumption
<1>i. IdlePoll \in PollState
  BY DEF IdlePoll, PollState
<1>1. CASE ReadCallbackFile(p)
  <2> DEFINE s == [poll[p] EXCEPT !.pc = "read", !.held = callbackFile[f]]
  <2>1. f \in Flows /\ Tabled(f)
    BY <1>0, <1>1 DEF PollSound, ReadCallbackFile, Tabled
  <2>2. s \in PollState
    BY <1>0, <2>1 DEF Rest, PollState
  <2>3. poll' = [poll EXCEPT ![p] = s]
    BY <1>0, <1>1 DEF ReadCallbackFile
  <2>4. PollSound(p)'
    BY <1>0, <1>1, <2>1, <2>2, <2>3, OnePoll DEF PollSound, Tabled, ReadCallbackFile, PollState
  <2>5. Rest'
    BY <1>0, <1>1, <2>2, <2>3, OnePoll DEF Rest, ReadCallbackFile
  <2>6. Reached' /\ NoneLeft'
    BY <1>0, <1>1, <2>2, <2>3, <2>4, OnePoll, Onwards DEF IInv, Onward, ReadCallbackFile
  <2> QED
    BY <1>1, <2>5, <2>6 DEF IInv, SessionsSound, ReadCallbackFile
<1>2. CASE ApplyCallbackFile(p)
  <2> DEFINE s == [poll[p] EXCEPT !.pc = "applied"]
             t == CallbackApplied(flow[f], poll[p].held)
  <2>1. f \in Flows /\ Tabled(f)
    BY <1>0, <1>2 DEF PollSound, ApplyCallbackFile, Tabled
  <2>2. s \in PollState
    BY <1>0 DEF PollState
  <2>3. poll' = [poll EXCEPT ![p] = s] /\ flow' = [flow EXCEPT ![f] = t]
    BY <1>0, <1>2 DEF ApplyCallbackFile
  <2>4. t \in Session /\ Sound(t) /\ Onward(flow[f], t)
    <3> DEFINE now1 == poll[p].held = "code" /\ First(flow[f])
               fails == \/ flow[f].err \/ poll[p].held = "bad"
                        \/ (poll[p].held = "error" /\ First(flow[f]))
    <3>1. t = [flow[f] EXCEPT !.err = fails, !.received = IF now1 THEN "code" ELSE @]
      BY DEF CallbackApplied
    <3>2. fails \in BOOLEAN /\ (now1 => flow[f].received = "none")
      BY <1>0, <2>1 DEF First
    <3>3. flow[f] \in Session /\ Sound(flow[f])
      BY <1>0, <2>1
    <3> HIDE DEF t, now1, fails
    <3>4. t \in Session
      BY <3>1, <3>2, <3>3 DEF Session, Grants
    <3>5. Sound(t)
      BY <3>1, <3>2, <3>3 DEF Session, Sound
    <3>6. Onward(flow[f], t)
      BY <3>1, <3>2, <3>3 DEF Session, Onward
    <3> QED
      BY <3>4, <3>5, <3>6
  <2>5. Tabled(f)'
    BY <1>0, <2>1, <2>3, <2>4 DEF Tabled, Onward
  <2>6. PollSound(p)'
    BY <1>0, <1>2, <2>2, <2>3, <2>5, OnePoll DEF PollSound, ApplyCallbackFile, PollState
  <2>7. Rest'
    BY <1>0, <1>2, <2>1, <2>2, <2>3, OnePoll DEF Rest, ApplyCallbackFile
  <2>8. SessionsSound' /\ Reached' /\ NoneLeft'
    <3>1. \A q \in Polls : poll'[q] = poll[q] \/ PollSound(q)'
      BY <1>0, <2>2, <2>3, <2>6, OnePoll
    <3>2. panel' \in {panel, IdlePanel} /\ table' = table /\ sweeping' = sweeping
      BY <1>2 DEF ApplyCallbackFile
    <3> HIDE DEF f, t
    <3> QED
      BY <2>3, <2>4, <3>1, <3>2, SessionMoves
  <2> QED
    BY <2>7, <2>8 DEF IInv
<1>3. CASE PollPending(p)
  <2>1. poll' = [poll EXCEPT ![p] = IdlePoll]
    BY <1>3 DEF PollPending
  <2>2. PollSound(p)'
    BY <1>0, <1>i, <2>1, OnePoll DEF PollSound, IdlePoll
  <2>3. Rest'
    BY <1>0, <1>3, <1>i, <2>1, OnePoll DEF Rest, PollPending
  <2>4. Reached' /\ NoneLeft'
    BY <1>0, <1>3, <1>i, <2>1, <2>2, OnePoll, Onwards DEF IInv, Onward, PollPending
  <2> QED
    BY <1>3, <2>3, <2>4 DEF IInv, SessionsSound, PollPending
<1>4. CASE PollDecide(p)
  <2> DEFINE s == [poll[p] EXCEPT !.pc = "stopping",
                                  !.outcome = IF flow[f].err THEN "error" ELSE "success"]
  <2>1. f \in Flows /\ Tabled(f)
    BY <1>0, <1>4 DEF PollSound, PollDecide, Tabled
  <2>2. s \in PollState /\ s.outcome # "none"
    BY <1>0 DEF PollState
  <2>3. poll' = [poll EXCEPT ![p] = s]
    BY <1>0, <1>4 DEF PollDecide
  <2>4. PollSound(p)'
    <3>1. poll'[p] = s /\ flow' = flow
      BY <1>0, <1>4, <2>3 DEF PollDecide
    <3>2. s.pc = "stopping" /\ s.flow = f
      BY <1>0 DEF PollState
    <3> HIDE DEF s, f
    <3> QED
      BY <2>1, <2>2, <3>1, <3>2 DEF PollSound, Tabled
  <2>5. Rest'
    BY <1>0, <1>4, <2>2, <2>3, OnePoll DEF Rest, PollDecide
  <2>6. Reached' /\ NoneLeft'
    BY <1>0, <1>4, <2>2, <2>3, <2>4, OnePoll, Onwards DEF IInv, Onward, PollDecide
  <2> QED
    BY <1>4, <2>5, <2>6 DEF IInv, SessionsSound, PollDecide
<1>5. CASE PollStop(p)
  <2> DEFINE s == [poll[p] EXCEPT !.pc = "deleting"]
             t == Stopped(flow[f])
  <2>1. f \in Flows /\ Tabled(f)
    BY <1>0, <1>5 DEF PollSound, PollStop, Tabled
  <2>2. s \in PollState
    BY <1>0 DEF PollState
  <2>3. poll' = [poll EXCEPT ![p] = s] /\ flow' = [flow EXCEPT ![f] = t]
    BY <1>0, <1>5 DEF PollStop
  <2>4. t \in Session /\ Sound(t) /\ Onward(flow[f], t)
        /\ t.cancelled = TRUE /\ t.listening = FALSE
    <3>1. /\ flow[f] \in Session /\ Sound(flow[f])
          /\ t = [flow[f] EXCEPT !.cancelled = TRUE, !.listening = FALSE]
      BY <1>0, <2>1 DEF Stopped
    <3> HIDE DEF f, t
    <3> QED
      BY <3>1 DEF Session, Sound, Onward
  <2>5. Tabled(f)'
    BY <1>0, <2>1, <2>3, <2>4 DEF Tabled, Onward
  <2>6. PollSound(p)'
    BY <1>0, <1>5, <2>1, <2>2, <2>3, <2>4, <2>5, OnePoll DEF PollSound, PollStop, PollState
  <2>7. Rest'
    BY <1>0, <1>5, <2>2, <2>3, OnePoll DEF Rest, PollStop
  <2>8. SessionsSound' /\ Reached' /\ NoneLeft'
    <3>1. \A q \in Polls : poll'[q] = poll[q] \/ PollSound(q)'
      BY <1>0, <2>2, <2>3, <2>6, OnePoll
    <3>2. panel' \in {panel, IdlePanel} /\ table' = table /\ sweeping' = sweeping
      BY <1>5 DEF PollStop
    <3> HIDE DEF f, t
    <3> QED
      BY <2>3, <2>4, <3>1, <3>2, SessionMoves
  <2> QED
    BY <2>7, <2>8 DEF IInv
<1>6. CASE PollAnswer(p)
  <2>1. f \in Flows /\ Tabled(f) /\ poll[p].outcome \in {"success", "error"}
        /\ flow[f].cancelled = TRUE /\ flow[f].listening = FALSE
    BY <1>0, <1>6 DEF PollSound, PollAnswer, Tabled, PollState
  <2>2. /\ poll' = [poll EXCEPT ![p] = IdlePoll] /\ table' = table \ {f}
        /\ flow' = flow /\ panel' = panel /\ sweeping' = sweeping
    BY <1>6 DEF PollAnswer
  <2>3. IsFiniteSet(table) /\ Cardinality(table') <= Cardinality(table)
    BY <1>0, <2>2, FS_Subset DEF Rest
  <2>4. Cardinality(table') <= MaxLoginSessions
    <3>1. Cardinality(table) \in Nat /\ Cardinality(table') \in Nat
      BY <2>2, <2>3, FS_CardinalityType, FS_Subset
    <3> QED
      BY <1>0, <2>3, <3>1 DEF Rest, LoginAssumption
  <2>5. Rest'
    BY <1>0, <1>6, <1>i, <2>1, <2>2, <2>4, OnePoll DEF Rest, PollAnswer
  <2>6. Reached'
    BY <1>0, <1>i, <2>2, OnePoll DEF IInv, Reached, PollSound, Tabled, IdlePoll
  <2>7. NoneLeft'
    BY <2>1, <2>2 DEF IInv, NoneLeft
  <2> QED
    BY <2>2, <2>5, <2>6, <2>7 DEF IInv, SessionsSound
<1> QED
  BY <1>1, <1>2, <1>3, <1>4, <1>5, <1>6 DEF PollSteps

-----------------------------------------------------------------------------
LEMMA StartKeeps == ASSUME LoginAssumption, IInv, NEW f \in Flows, LoginStart(f) PROVE IInv'
<1> DEFINE s == [flow[f] EXCEPT !.phase = "bound", !.listening = TRUE,
                                !.started = now + 1, !.expires = now + 1 + timeout]
<1>1. /\ flow \in [Flows -> Session] /\ flow[f] \in Session /\ Sound(flow[f])
      /\ now \in Nat /\ timeout \in Nat /\ MaxTime \in Nat
  BY DEF IInv, SessionsSound, Rest, LoginAssumption
<1>2. flow' = [flow EXCEPT ![f] = s]
  BY <1>1 DEF LoginStart
<1>3. s \in Session /\ Sound(s) /\ Onward(flow[f], s)
  <2>1. flow[f].phase = "unborn" /\ now + 1 \in Nat /\ now + 1 + timeout \in Nat
    BY <1>1 DEF LoginStart
  <2>2. s \in Session
    BY <1>1, <2>1 DEF Session
  <2>3. Sound(s) /\ Onward(flow[f], s)
    BY <1>1, <2>1 DEF Session, Sound, Onward
  <2> QED
    BY <2>2, <2>3
<1>4. SessionsSound' /\ Reached' /\ NoneLeft'
  BY <1>2, <1>3, SessionMoves DEF LoginStart
<1>5. Rest'
  BY <1>1 DEF IInv, Rest, LoginStart
<1> QED
  BY <1>4, <1>5 DEF IInv

\* Entering a flow: what evictLoginSessionsLocked does not keep, it stops.
LEMMA TabledKeeps == ASSUME LoginAssumption, IInv, NEW f \in Flows, LoginTabled(f) PROVE IInv'
<1>1. /\ flow \in [Flows -> Session] /\ \A g \in Flows : flow[g] \in Session /\ Sound(flow[g])
      /\ table \subseteq Flows /\ IsFiniteSet(Flows) /\ MaxLoginSessions \in Nat /\ Rest
  BY DEF IInv, SessionsSound, Rest, LoginAssumption
<1> DEFINE t == [flow[f] EXCEPT !.phase = "tabled", !.poller = "waiting"]
<1>2. t \in Session /\ Sound(t) /\ t.phase = "tabled" /\ flow[f].phase = "bound"
  <2>1. flow[f] \in Session /\ Sound(flow[f]) /\ flow[f].phase = "bound"
    BY <1>1 DEF LoginTabled
  <2>2. t \in Session /\ t.phase = "tabled"
    BY <2>1 DEF Session
  <2>3. Sound(t)
    BY <2>1 DEF Session, Sound
  <2> QED
    BY <2>1, <2>2, <2>3
<1>3. PICK kept \in SUBSET Flows :
        /\ EvictionKeeps(kept, table \cup {f}) /\ table' = kept
        /\ LET entered == [flow EXCEPT ![f].phase = "tabled", ![f].poller = "waiting"]
           IN flow' = [g \in Flows |-> IF g \in (table \cup {f}) \ kept
                                       THEN Evicted(entered[g]) ELSE entered[g]]
  BY DEF LoginTabled
<1> DEFINE out == (table \cup {f}) \ kept
           became(g) == IF g = f THEN t ELSE flow[g]
<1>4. \A g \in Flows : flow'[g] = IF g \in out THEN Evicted(became(g)) ELSE became(g)
  BY <1>1, <1>3
<1>5. \A g \in Flows : became(g) \in Session /\ Sound(became(g))
  BY <1>1, <1>2
<1> HIDE DEF t, became
<1>6. ASSUME NEW s \in Session, Sound(s)
      PROVE  /\ Evicted(s) \in Session /\ Sound(Evicted(s)) /\ Onward(s, Evicted(s))
             /\ Evicted(s).cancelled = TRUE /\ Evicted(s).listening = FALSE
  BY <1>6 DEF Evicted, Stopped, Session, Sound, Onward
<1>7. flow' \in [Flows -> Session] /\ \A g \in Flows : Sound(flow'[g]) /\ Onward(became(g), flow'[g])
  <2>1. flow' = [g \in Flows |-> flow'[g]]
    BY <1>3
  <2>2. ASSUME NEW g \in Flows
        PROVE flow'[g] \in Session /\ Sound(flow'[g]) /\ Onward(became(g), flow'[g])
    BY <1>4, <1>5, <1>6 DEF Onward
  <2> QED
    BY <2>1, <2>2
<1>8. kept \subseteq table \cup {f} /\ Cardinality(kept) <= MaxLoginSessions
  <2> DEFINE live == {g \in table \cup {f} : ~Expired(g)}
  <2>1. IsFiniteSet(live)
    BY <1>1, FS_Subset
  <2>2. Cardinality(live) \in Nat
    BY <2>1, FS_CardinalityType
  <2>3. /\ kept \subseteq live
        /\ Cardinality(kept) = IF Cardinality(live) > MaxLoginSessions
                               THEN MaxLoginSessions ELSE Cardinality(live)
    BY <1>3 DEF EvictionKeeps
  <2> QED
    BY <1>1, <2>2, <2>3
<1>9. \A g \in Flows : g = f \/ became(g) = flow[g]
  BY DEF became
<1>10. became(f) = t
  BY DEF became
<1>11. \A g : Tabled(g) \/ g = f => Tabled(g)'
  BY <1>2, <1>7, <1>9, <1>10 DEF Tabled, Onward
<1>12. UNCHANGED <<now, timeout, callbackFile, poll, panel, sweeping, answered>>
  BY DEF LoginTabled
<1>13. Rest'
  BY <1>1, <1>3, <1>8, <1>12 DEF Rest
<1>14. Reached'
  <2>1. ASSUME NEW p \in Polls PROVE PollSound(p)'
    <3>1. PollSound(p) /\ poll'[p] = poll[p]
      BY <1>12 DEF IInv, Reached
    <3>2. CASE poll[p].pc = "idle"
      BY <3>1, <3>2 DEF PollSound
    <3>3. CASE poll[p].pc # "idle"
      <4>1. PICK g \in Flows : g = poll[p].flow /\ Tabled(g) /\ g # f
        BY <1>2, <3>1, <3>3 DEF PollSound, Tabled
      <4>2. Onward(flow[g], flow'[g]) /\ Tabled(g)'
        BY <1>7, <1>9, <1>11, <4>1
      <4> QED
        BY <3>1, <4>1, <4>2 DEF PollSound, Onward, Tabled
    <3> QED
      BY <3>2, <3>3
  <2>2. \A g \in table' \cup sweeping' : Tabled(g) \/ g = f
    BY <1>3, <1>8, <1>12 DEF IInv, Reached
  <2> QED
    BY <1>11, <1>12, <2>1, <2>2 DEF IInv, Reached
<1>15. NoneLeft'
  <2> SUFFICES ASSUME NEW g \in Flows, flow'[g].phase = "tabled", g \notin table', g \notin sweeping
               PROVE  flow'[g].cancelled = TRUE /\ flow'[g].listening = FALSE
    BY <1>12 DEF NoneLeft
  <2>1. CASE g \in out
    BY <1>4, <1>5, <1>6, <2>1
  <2>2. CASE g \notin out
    <3>1. g # f /\ g \notin table /\ flow'[g] = flow[g]
      BY <1>3, <1>4, <1>9, <2>2
    <3> QED
      BY <3>1 DEF IInv, NoneLeft
  <2> QED
    BY <2>1, <2>2
<1> QED
  BY <1>7, <1>13, <1>14, <1>15 DEF IInv, SessionsSound

LEMMA SweepKeeps ==
  ASSUME LoginAssumption, IInv, SweepTable \/ \E f \in Flows : SweepStop(f) PROVE IInv'
<1>1. CASE SweepTable
  <2>1. Cardinality({}) = 0 /\ MaxLoginSessions \in Nat
    BY FS_EmptySet DEF LoginAssumption
  <2>2. Rest'
    BY <1>1, <2>1 DEF IInv, Rest, SweepTable
  <2>3. Reached'
    BY <1>1 DEF IInv, Reached, PollSound, Tabled, SweepTable
  <2>4. NoneLeft'
    BY <1>1 DEF IInv, NoneLeft, SweepTable
  <2> QED
    BY <1>1, <2>2, <2>3, <2>4 DEF IInv, SessionsSound, SweepTable
<1>2. ASSUME NEW f \in Flows, SweepStop(f) PROVE IInv'
  <2> DEFINE s == Stopped(flow[f])
  <2>1. /\ flow \in [Flows -> Session] /\ flow[f] \in Session /\ Sound(flow[f])
        /\ s = [flow[f] EXCEPT !.cancelled = TRUE, !.listening = FALSE]
    BY DEF IInv, SessionsSound, Stopped
  <2>2. flow' = [flow EXCEPT ![f] = s] /\ UNCHANGED <<table, poll, panel>>
    BY <1>2 DEF SweepStop
  <2> HIDE DEF s
  <2>3. s \in Session /\ Sound(s) /\ Onward(flow[f], s) /\ s.cancelled = TRUE /\ s.listening = FALSE
    BY <2>1 DEF Session, Sound, Onward
  <2>4. SessionsSound' /\ \A g \in Flows : Onward(flow[g], flow'[g])
    BY <2>2, <2>3, OneSession DEF IInv
  <2>5. Rest'
    BY <1>2 DEF IInv, Rest, SweepStop
  <2>6. \A g : Tabled(g) => Tabled(g)'
    BY <2>4 DEF Tabled, Onward
  <2>7. ASSUME NEW p \in Polls PROVE PollSound(p)'
    BY <2>2, <2>4, <2>6 DEF IInv, Reached, PollSound, Onward, Tabled
  <2>8. NoneLeft'
    BY <1>2, <2>1, <2>2, <2>3, <2>4 DEF IInv, NoneLeft, Onward, SweepStop
  <2> QED
    BY <1>2, <2>2, <2>4, <2>5, <2>6, <2>7, <2>8 DEF IInv, Reached, SweepStop
<1> QED
  BY <1>1, <1>2

LEMMA LookupKeeps ==
  ASSUME LoginAssumption, IInv, NEW f \in Flows,
         PanelLookup(f) \/ \E p \in Polls : PollUnknown(p, f) \/ PollLookup(p, f)
  PROVE  IInv'
<1>1. CASE PanelLookup(f)
  <2>1. Rest'
    BY <1>1 DEF IInv, Rest, PanelLookup
  <2>2. Reached' /\ NoneLeft'
    BY <1>1 DEF IInv, Reached, NoneLeft, PollSound, Tabled, PanelLookup
  <2> QED
    BY <1>1, <2>1, <2>2 DEF IInv, SessionsSound, PanelLookup
<1>2. ASSUME NEW p \in Polls, PollUnknown(p, f) PROVE IInv'
  <2>1. Rest'
    BY <1>2 DEF IInv, Rest, PollUnknown, UnknownAnswer
  <2>2. Reached' /\ NoneLeft'
    BY <1>2 DEF IInv, Reached, NoneLeft, PollSound, Tabled, PollUnknown
  <2> QED
    BY <1>2, <2>1, <2>2 DEF IInv, SessionsSound, PollUnknown
<1>3. ASSUME NEW p \in Polls, PollLookup(p, f) PROVE IInv'
  <2> DEFINE s == [pc |-> IF Expired(f) THEN "stopping" ELSE "found", flow |-> f,
                   held |-> "none", outcome |-> IF Expired(f) THEN "error" ELSE "none"]
  <2>1. s \in PollState /\ poll' = [poll EXCEPT ![p] = s] /\ Tabled(f) /\ Rest
    BY <1>3 DEF PollState, PollLookup, IInv, Reached
  <2>2. PollSound(p)'
    <3>1. poll'[p] = s
      BY <2>1, OnePoll
    <3> QED
      BY <1>3, <2>1, <3>1 DEF PollSound, Tabled, PollLookup
  <2>3. Rest'
    BY <1>3, <2>1, OnePoll DEF Rest, PollLookup
  <2>4. Reached' /\ NoneLeft'
    BY <1>3, <2>1, <2>2, OnePoll, Onwards DEF IInv, Onward, PollLookup
  <2> QED
    BY <1>3, <2>3, <2>4 DEF IInv, SessionsSound, PollLookup
<1> QED
  BY <1>1, <1>2, <1>3

LEMMA OthersKeep ==
  ASSUME LoginAssumption, IInv,
         \/ Tick \/ Reconfigure \/ UNCHANGED vars
         \/ \E f \in Flows : \E c \in {"code", "error", "bad"} : HostWritesCallback(f, c)
  PROVE  IInv'
<1>1. UNCHANGED <<flow, table, poll, panel, sweeping>>
  BY DEF Tick, Reconfigure, vars, HostWritesCallback
<1>2. SessionsSound' /\ Reached' /\ NoneLeft'
  BY <1>1 DEF IInv, SessionsSound, Reached, NoneLeft, PollSound, Tabled
<1>3. Rest'
  BY DEF IInv, Rest, Tick, Reconfigure, vars, HostWritesCallback, LoginAssumption
<1> QED
  BY <1>2, <1>3 DEF IInv

LEMMA Initially == LoginAssumption /\ Init => IInv
<1> SUFFICES ASSUME LoginAssumption, Init PROVE IInv
  OBVIOUS
<1>1. NewSession \in Session /\ Sound(NewSession)
  BY DEF NewSession, Session, Sound, LoginAssumption
<1>2. SessionsSound
  BY <1>1 DEF Init, SessionsSound
<1>3. Rest
  BY FS_EmptySet DEF Init, Rest, LoginAssumption, IdlePoll, PollState, IdlePanel
<1>4. Reached
  BY DEF Init, Reached, PollSound, IdlePoll, IdlePanel
<1>5. NoneLeft
  BY DEF Init, NoneLeft, NewSession
<1> QED
  BY <1>2, <1>3, <1>4, <1>5 DEF IInv

LEMMA Inductive == Spec => []IInv
<1>1. Init => IInv
  BY Initially, LoginAssumption
<1>2. IInv /\ [Next]_vars => IInv'
  <2> SUFFICES ASSUME IInv, [Next]_vars PROVE IInv'
    OBVIOUS
  <2>1. CASE Tick \/ Reconfigure \/ Idle \/ UNCHANGED vars
    BY <2>1, LoginAssumption, OthersKeep DEF Idle
  <2>2. CASE SweepTable
    BY <2>2, LoginAssumption, SweepKeeps
  <2>3. ASSUME NEW f \in Flows,
               \/ LoginStart(f) \/ LoginTabled(f) \/ PanelLookup(f) \/ SweepStop(f)
               \/ PollerSteps(f)
        PROVE  IInv'
    BY <2>3, LoginAssumption, StartKeeps, TabledKeeps, LookupKeeps, SweepKeeps, PollerKeeps
  <2>4. ASSUME NEW f \in Flows,
               \/ \E grant \in Grants : HandleCallback(f, grant)
               \/ \E c \in {"code", "error", "bad"} : HostWritesCallback(f, c)
               \/ \E p \in Polls : PollUnknown(p, f) \/ PollLookup(p, f)
        PROVE  IInv'
    BY <2>4, LoginAssumption, CallbackKeeps, OthersKeep, LookupKeeps
  <2>5. ASSUME NEW grant \in Grants, PanelSubmit(grant) PROVE IInv'
    BY <2>5, LoginAssumption, CallbackKeeps
  <2>6. ASSUME NEW p \in Polls, PollSteps(p) PROVE IInv'
    BY <2>6, LoginAssumption, PollKeeps
  <2> QED
    BY <2>1, <2>2, <2>3, <2>4, <2>5, <2>6 DEF Next
<1> QED
  BY <1>1, <1>2, PTL DEF Spec

\* Sign-in state keeps its types, and the table its bound (auth.go:217-220).
THEOREM SignInTyped == Spec => []TypeOK
<1>1. IInv => TypeOK
  BY DEF IInv, SessionsSound, Sound, Rest, TypeOK
<1> QED
  BY <1>1, Inductive, PTL

\* auth.go:217-220: no flow that left the table is left running.
THEOREM FlowsStopped == Spec => []NoneLeftRunning
<1>1. IInv => NoneLeftRunning
  BY DEF IInv, NoneLeft, NoneLeftRunning
<1> QED
  BY <1>1, Inductive, PTL

\* auth.go:689: an authorization code gets one exchange.
THEOREM OneExchangePerCode == Spec => []CodeExchangedOnce
<1>1. IInv => CodeExchangedOnce
  BY DEF IInv, SessionsSound, Sound, CodeExchangedOnce
<1> QED
  BY <1>1, Inductive, PTL

-----------------------------------------------------------------------------
\* What no step but the flow's own LoginStart and LoginTabled does to a session.
Moved(f) ==
  /\ flow[f].received # "none" => flow'[f].received = flow[f].received
  /\ LoginStart(f) \/ (flow'[f].started = flow[f].started /\ flow'[f].expires = flow[f].expires)
  /\ LoginStart(f) \/ LoginTabled(f) \/ flow'[f].phase = flow[f].phase

\* What Moved looks at.
Alike(s, t) ==
  /\ t.received = s.received /\ t.phase = s.phase
  /\ t.started = s.started /\ t.expires = s.expires

LEMMA StoppedAlike == ASSUME NEW s \in Session PROVE Stopped(s) \in Session /\ Alike(s, Stopped(s))
BY DEF Stopped, Session, Alike

LEMMA StartMoves == ASSUME IInv, NEW g \in Flows, LoginStart(g), NEW f \in Flows PROVE Moved(f)
<1>1. flow \in [Flows -> Session] /\ flow[g] \in Session
  BY DEF IInv, SessionsSound
<1>2. CASE f = g
  <2>1. flow'[f] = [flow[f] EXCEPT !.phase = "bound", !.listening = TRUE,
                                  !.started = now + 1, !.expires = now + 1 + timeout]
    BY <1>1, <1>2 DEF LoginStart
  <2> QED
    BY <1>1, <1>2, <2>1 DEF Moved, Session
<1>3. CASE f # g
  <2>1. flow'[f] = flow[f]
    BY <1>1, <1>3 DEF LoginStart
  <2> QED
    BY <2>1 DEF Moved
<1> QED
  BY <1>2, <1>3

LEMMA TabledMoves == ASSUME IInv, NEW g \in Flows, LoginTabled(g), NEW f \in Flows PROVE Moved(f)
<1>1. flow \in [Flows -> Session] /\ flow[f] \in Session
  BY DEF IInv, SessionsSound
<1> DEFINE entered == [flow EXCEPT ![g].phase = "tabled", ![g].poller = "waiting"]
<1>2. \/ flow'[f] = entered[f]
      \/ f \in table \cup {g} /\ flow'[f] = Evicted(entered[f])
  BY DEF LoginTabled
<1>3. CASE f = g
  <2>1. entered[f] = [flow[f] EXCEPT !.phase = "tabled", !.poller = "waiting"]
    BY <1>1, <1>3
  <2> HIDE DEF entered
  <2>2. entered[f] \in Session /\ entered[f].received = flow[f].received
        /\ entered[f].started = flow[f].started /\ entered[f].expires = flow[f].expires
    BY <1>1, <2>1 DEF Session
  <2> QED
    BY <1>2, <1>3, <2>2, StoppedAlike DEF Moved, Evicted, Alike
<1>4. CASE f # g
  <2>1. entered[f] = flow[f]
    BY <1>1, <1>4
  <2> HIDE DEF entered
  <2> QED
    BY <1>1, <1>2, <2>1, StoppedAlike DEF Moved, Evicted, Alike
<1> QED
  BY <1>3, <1>4

LEMMA PollerMoves == ASSUME IInv, NEW g \in Flows, PollerSteps(g), NEW f \in Flows PROVE Moved(f)
<1>1. flow \in [Flows -> Session] /\ flow[f] \in Session
  BY DEF IInv, SessionsSound
<1>2. f = g => Alike(flow[f], flow'[f])
  <2>1. CASE ExchangeStart(g)
    BY <1>1, <2>1 DEF ExchangeStart, Alike, Session
  <2>2. CASE ExchangeGranted(g)
    BY <1>1, <2>2 DEF ExchangeGranted, Alike, Session
  <2>3. CASE ExchangeRefused(g) \/ TicketMisdirected(g) \/ PollerTimesOut(g)
    BY <1>1, <2>3 DEF ExchangeRefused, TicketMisdirected, PollerTimesOut, Alike, Session
  <2>4. CASE ExchangeAgain(g)
    BY <1>1, <2>4 DEF ExchangeAgain, Alike, Session
  <2>5. CASE PollerEnds(g)
    <3>1. f = g => flow'[f] = [Stopped(flow[f]) EXCEPT !.poller = "done"]
      BY <1>1, <2>5 DEF PollerEnds, PollerLeaves
    <3>2. Stopped(flow[f]) \in Session /\ Alike(flow[f], Stopped(flow[f]))
      BY <1>1, StoppedAlike
    <3> QED
      BY <3>1, <3>2 DEF Alike, Session
  <2> QED
    BY <2>1, <2>2, <2>3, <2>4, <2>5 DEF PollerSteps
<1>3. f # g => flow'[f] = flow[f]
  BY <1>1 DEF PollerSteps, ExchangeStart, ExchangeGranted, ExchangeRefused, ExchangeAgain,
              TicketMisdirected, PollerTimesOut, PollerEnds
<1> QED
  BY <1>2, <1>3 DEF Moved, Alike

LEMMA CallbackMoves ==
  ASSUME IInv, NEW grant \in Grants,
         PanelSubmit(grant) \/ \E g \in Flows : HandleCallback(g, grant), NEW f \in Flows
  PROVE  Moved(f)
<1>1. flow \in [Flows -> Session] /\ flow[f] \in Session
  BY DEF IInv, SessionsSound
<1> DEFINE brought ==
      \/ flow'[f] = flow[f]
      \/ flow[f].received = "none" /\ flow'[f] = [flow[f] EXCEPT !.received = grant]
      \/ /\ flow[f].received = "none"
         /\ flow'[f] = [flow[f] EXCEPT !.received = grant, !.listening = FALSE]
<1>2. brought
  <2>1. ASSUME NEW g \in Flows, HandleCallback(g, grant) PROVE brought
    BY <1>1, <2>1 DEF HandleCallback
  <2>2. CASE PanelSubmit(grant) /\ PanelAccepts(flow[panel.flow])
    BY <1>1, <2>2 DEF PanelSubmit, PanelAccepts
  <2>3. CASE PanelSubmit(grant) /\ ~PanelAccepts(flow[panel.flow])
    BY <2>3 DEF PanelSubmit
  <2> QED
    BY <2>1, <2>2, <2>3
<1> QED
  BY <1>1, <1>2 DEF Moved, Session

LEMMA PollMoves == ASSUME IInv, NEW p \in Polls, PollSteps(p), NEW f \in Flows PROVE Moved(f)
<1>1. flow \in [Flows -> Session] /\ flow[f] \in Session
  BY DEF IInv, SessionsSound
<1>2. CASE ApplyCallbackFile(p)
  <2>1. flow'[f] = flow[f] \/ flow'[f] = CallbackApplied(flow[f], poll[p].held)
    BY <1>1, <1>2 DEF ApplyCallbackFile
  <2> DEFINE fails == \/ flow[f].err \/ poll[p].held = "bad"
                      \/ (poll[p].held = "error" /\ First(flow[f]))
             kept == IF poll[p].held = "code" /\ First(flow[f]) THEN "code" ELSE flow[f].received
  <2>2. CallbackApplied(flow[f], poll[p].held) = [flow[f] EXCEPT !.err = fails, !.received = kept]
    BY <1>1 DEF CallbackApplied, Session
  <2>3. flow[f].received # "none" => kept = flow[f].received
    BY DEF First
  <2> HIDE DEF fails, kept
  <2> QED
    BY ZenonT(60), <1>1, <2>1, <2>2, <2>3 DEF Moved, Session
<1>3. CASE PollStop(p)
  <2>1. flow'[f] = flow[f] \/ flow'[f] = Stopped(flow[f])
    BY <1>1, <1>3 DEF PollStop
  <2> QED
    BY <1>1, <2>1, StoppedAlike DEF Moved, Alike
<1>4. CASE ReadCallbackFile(p) \/ PollPending(p) \/ PollDecide(p) \/ PollAnswer(p)
  BY <1>4 DEF Moved, ReadCallbackFile, PollPending, PollDecide, PollAnswer
<1> QED
  BY <1>2, <1>3, <1>4 DEF PollSteps

LEMMA AllMoves == ASSUME IInv, [Next]_vars, NEW f \in Flows PROVE Moved(f)
<1>1. CASE UNCHANGED flow
  BY <1>1 DEF Moved
<1>2. ASSUME NEW g \in Flows, SweepStop(g) PROVE Moved(f)
  <2>1. flow \in [Flows -> Session] /\ flow[f] \in Session
    BY DEF IInv, SessionsSound
  <2>2. flow'[f] = flow[f] \/ flow'[f] = Stopped(flow[f])
    BY <1>2, <2>1 DEF SweepStop
  <2> QED
    BY <2>1, <2>2, StoppedAlike DEF Moved, Alike
<1>3. CASE \/ Tick \/ Reconfigure \/ SweepTable \/ Idle \/ UNCHANGED vars
           \/ \E g \in Flows : \/ PanelLookup(g)
                               \/ \E c \in {"code", "error", "bad"} : HostWritesCallback(g, c)
                               \/ \E p \in Polls : PollUnknown(p, g) \/ PollLookup(p, g)
  BY <1>1, <1>3 DEF Tick, Reconfigure, SweepTable, Idle, vars, PanelLookup, HostWritesCallback,
                    PollUnknown, PollLookup
<1>4. CASE \E g \in Flows : LoginStart(g) \/ LoginTabled(g) \/ PollerSteps(g)
  BY <1>4, StartMoves, TabledMoves, PollerMoves
<1>5. CASE \/ \E g \in Flows : \E grant \in Grants : HandleCallback(g, grant)
           \/ \E grant \in Grants : PanelSubmit(grant)
  BY <1>5, CallbackMoves
<1>6. CASE \E p \in Polls : PollSteps(p)
  BY <1>6, PollMoves
<1> QED
  BY <1>2, <1>3, <1>4, <1>5, <1>6 DEF Next

\* auth.go:563-570, management.go:212-216: the first callback stands.
THEOREM FirstCallbackStands == Spec => FirstCallbackWins
<1>1. IInv /\ [Next]_vars =>
        \A f \in Flows : flow[f].received # "none" => flow'[f].received = flow[f].received
  BY AllMoves DEF Moved
<1> QED
  BY <1>1, Inductive, PTL DEF Spec, FirstCallbackWins

-----------------------------------------------------------------------------
\* The login timeout is never reconfigured.
OneTimeout == \A t, u \in Timeouts : t = u

Dated == \A f \in Flows : flow[f].phase # "unborn" => flow[f].expires = flow[f].started + timeout

LEMMA DatesKept == ASSUME OneTimeout, IInv, Dated, [Next]_vars PROVE Dated'
<1> SUFFICES ASSUME NEW f \in Flows, flow'[f].phase # "unborn"
             PROVE  flow'[f].expires = flow'[f].started + timeout'
  BY DEF Dated
<1>1. timeout' = timeout
  <2>1. timeout' = timeout \/ timeout' \in Timeouts
    BY DEF Next, vars, Tick, Reconfigure, SweepTable, Idle, LoginStart, LoginTabled, PanelLookup,
           SweepStop, PollerSteps, ExchangeStart, ExchangeGranted, ExchangeRefused, ExchangeAgain,
           TicketMisdirected, PollerTimesOut, PollerEnds, PollerOnly, HandleCallback,
           HostWritesCallback, PollUnknown, PollLookup, PanelSubmit, PollSteps, ReadCallbackFile, ApplyCallbackFile, PollPending,
           PollDecide, PollStop, PollAnswer
  <2> QED
    BY <2>1 DEF OneTimeout, IInv, Rest
<1>2. CASE LoginStart(f)
  <2>1. flow \in [Flows -> Session] /\ flow[f] \in Session
    BY DEF IInv, SessionsSound
  <2>2. flow'[f] = [flow[f] EXCEPT !.phase = "bound", !.listening = TRUE,
                                  !.started = now + 1, !.expires = now + 1 + timeout]
    BY <1>2, <2>1 DEF LoginStart
  <2> QED
    BY <1>1, <2>1, <2>2 DEF Session
<1>3. CASE ~LoginStart(f)
  <2>1. flow[f].phase # "unborn"
    BY <1>3, AllMoves DEF Moved, LoginTabled
  <2> QED
    BY <1>1, <1>3, <2>1, AllMoves DEF Moved, Dated
<1> QED
  BY <1>2, <1>3

LEMMA RoomForTheNewest ==
  ASSUME LoginAssumption, IInv, Dated, NEW f \in Flows, LoginTabled(f), ~Expired(f),
         \A g \in table : flow[g].started < flow[f].started
  PROVE  f \in table'
<1>1. SUFFICES ASSUME f \notin table' PROVE FALSE
  OBVIOUS
<1> DEFINE live == {g \in table \cup {f} : ~Expired(g)}
<1>2. /\ table' \subseteq live
      /\ Cardinality(table') = IF Cardinality(live) > MaxLoginSessions
                               THEN MaxLoginSessions ELSE Cardinality(live)
      /\ \A k \in table', g \in live \ table' : flow[g].expires <= flow[k].expires
  BY DEF LoginTabled, EvictionKeeps
<1>3. f \in live /\ IsFiniteSet(live)
  <2>1. table \cup {f} \subseteq Flows /\ IsFiniteSet(Flows)
    BY DEF IInv, Rest, LoginAssumption
  <2> QED
    BY <2>1, FS_Subset
<1>4. table' # {}
  <2>1. Cardinality(live) \in Nat \ {0} /\ MaxLoginSessions \in Nat \ {0}
    BY <1>3, FS_CardinalityType, FS_EmptySet DEF LoginAssumption
  <2> QED
    BY <1>2, <2>1, FS_EmptySet
<1>5. PICK k \in table' : TRUE
  BY <1>4
<1>6. k \in table /\ k \in Flows /\ flow[k].phase = "tabled"
  BY <1>1, <1>2, <1>5 DEF IInv, Reached, Tabled
<1>7. /\ flow[k].expires = flow[k].started + timeout /\ flow[k].started < flow[f].started
      /\ flow[f].expires = flow[f].started + timeout
  BY <1>6 DEF Dated, LoginTabled
<1>8. /\ flow[k].started \in Nat /\ flow[f].started \in Nat /\ timeout \in Nat
  BY <1>6 DEF IInv, SessionsSound, Session, Rest, LoginAssumption
<1>9. flow[f].expires <= flow[k].expires
  BY <1>1, <1>2, <1>3, <1>5
<1> QED
  BY <1>7, <1>8, <1>9

\* auth.go:223-225: while the timeout stays as configured, eviction by expiry
\* never takes the newest attempt.
THEOREM NewestKept == OneTimeout => (Spec => NewestSurvives)
<1> SUFFICES ASSUME OneTimeout PROVE Spec => NewestSurvives
  OBVIOUS
<1>1. Init => Dated
  BY DEF Init, Dated, NewSession
<1>2. IInv /\ Dated /\ [Next]_vars => Dated'
  BY DatesKept
<1>3. IInv /\ Dated /\ [Next]_vars =>
        \A f \in Flows :
          /\ flow[f].phase = "bound" /\ flow'[f].phase = "tabled"
          /\ ~Expired(f)
          /\ \A g \in table : flow[g].started < flow[f].started
          => f \in table'
  BY LoginAssumption, AllMoves, RoomForTheNewest DEF Moved, LoginStart
<1> QED
  BY <1>1, <1>2, <1>3, Inductive, PTL DEF Spec, NewestSurvives

=============================================================================
