# TLA+ models of the CodeArts provider plugin

The plugin is a shared library that the CPA host loads. The host calls it through a
C ABI (`main.go`), it calls the host back for HTTP, streams and credential storage,
and it runs goroutines of its own: one per stream, one per sign-in, a cron runner and
its tasks. These modules model that concurrent and stateful part of the code, check it
with TLC and prove its central properties with TLAPS.

## The system

| component | state | operations | talks to | modules |
|---|---|---|---|---|
| stream lifecycle (`executor.go`) | `activeStreams`, two `sync.Once` per stream, the pump goroutine, the timeout timer | open, register, pump, end, time out, sweep | host HTTP and stream callbacks; stopped by quiesce and shutdown | `ExecutorStream`, `StreamPromise`, `ExecutorStreamProofs` |
| Anthropic renderer (`claude_output.go`) | the open block, the tools seen, what was sent | `feed`, `finish` | fed by the pump, read by the client | `AnthropicStream`, `MessageEvents`, `ReplyPathsProofs` |
| relay to OpenAI clients (`executor.go`, `native.go`) | the partial frame, the last full text, what was seen | `push`, `translate`, `feed`, `finish` | fed by the pump, read by the client | `SseRelay`, `ReplyPaths` |
| buffered completion (`executor.go`, `native.go`, `claude_output.go`) | the body read so far, its deadline, the aggregate | read, close at the deadline, aggregate, render | host HTTP stream; the client that does not stream | `BufferedRead`, `BufferedReply`, `ReplyPaths`, `ReplyPathsProofs` |
| browser sign-in (`auth.go`, `management.go`) | `loginSessions`, a listener and a goroutine per flow, the callback file | start, evict, three kinds of callback, exchange, poll, sweep | browser, host, panel, upstream | `LoginFlow`, `LoginFlowProofs` |
| cron scheduler (`scheduler.go`) | the installed runner, the running flags, each task's last outcome | restart, edit, quiesce, tick, manual run | configuration, management API; starts the tasks | `CronScheduler`, `CronSchedulerProofs` |
| credential renewal (`scheduler.go`, `auth.go`, `oauth.go`, `management.go`) | the auth files (owned by the host), what upstream honours | the `token_renew` task, the host's `authRefresh`, edits, deletion, import | cron, host, panel, upstream | `CredentialRenewal`, `CredentialRenewalProofs` |
| quota cache (`quota.go`) | a snapshot per account | `quota.fetch`, forced refresh, forget | host, cron, panel, upstream | `QuotaCache`, `AccountQueries`, `AccountQueriesProofs` |
| model discovery (`model_discovery.go`) | a cache of at most 512 lists | `model.for_auth` | host, configuration, upstream | `ModelCache`, `ModelCacheProofs`, `AccountQueries`, `AccountQueriesProofs` |
| account picking (`scheduler_pick.go`) | rotation cursor, last pick | `scheduler.pick` | host, for every request | `AccountPick`, `UsageRollup`, `UsageRollupProofs`, `AccountQueries` |
| usage rollup (`usage_thinking.go`) | totals, buckets and a ring of samples | `usage.handle` | host, after every request; panel | `UsageRollup`, `UsageRollupProofs` |
| signing, request building, parsing, configuration, panel page, packaging | none | pure functions | - | not modelled |

What is hard here is not any one function. Goroutines and host threads meet in a few
shared maps and flags; no lock that guards them is held across a host call other than the
logging of a warning (`hostLogger` serialises its own calls, `main.go:354-365`), so whatever
was read before the call may be stale after it; and streams, sign-ins and tasks are ended
from several sides at once. What makes each component correct:

- streams: one end per client stream, never before upstream is released; upstream closed
  once; nothing accepted that a shutdown cannot find; every accepted stream ends.
- renderer: the Messages event grammar, every piece of content once, no half-sent call
  announced as complete, an end for every message.
- relay and buffered completion: every piece of the answer once and in order however the
  bytes are cut; a truncated body never passed off as complete; a call that hangs released;
  the same message whether the client streams or not.
- sign-in: a bounded table, nothing left running by whatever leaves it, the first
  callback stands, a code is exchanged once, an answer for a host that asks.
- cron: one runner, the last schedule in force, no task overlapping itself.
- renewal: a credential never in the wrong file, accounts renewable; deletions, imports and
  host keys kept.
- quota: answers that do not go back behind what the caller's account had.
- models: an account's own, from the upstream and agents in force, in a bounded cache.
- picking: every usable account in turn; what the panel shows for an account is what the
  picker gave it.

`PROJECT.json` lists each hazard at its line, the properties that cover it, and the
lines each definition models.

## How the modules follow the code

All modules cut a handler at its host calls, its waits and its locks: what lies between
two of them is one step. A function that returns early is several actions, or one action
whose guard is the condition. Helpers that a handler calls (`Merged`, `Holds`,
`RotationIndex`, `CloseOpenBlock`, ...) are operators with the Go names where possible.
Operators whose name begins with `Mut` are plausible wrong versions of the definition
that follows them. No specification uses them: each was put in place of the definition it
precedes to see that a property notices.

**ExecutorStream.** `handler` is the `execute_stream` call, `pump` the goroutine in
`runUpstreamStream`, `timer` the `time.AfterFunc`, `session` the once of
`executorStreamSession`, `stop` the once of `registerActiveStream`, `drain` a
`closeAllActiveStreams`. A once runs for its first caller (`StopClaim`, `EndSession`) and
makes the others wait (`StopReturned`, `DrainStoppedGuard`). `sync.Map.Range` visits keys
in any order and sees, or misses, entries that change meanwhile. `upstreamCloses`,
`errorFrames` and `clientCloses` count what the host was told. `StreamPromise` is the
abstract specification: accept or refuse; then at most one error frame, the upstream
release, one client close, in that order. `KeepsPromise` is the refinement.

**AnthropicStream.** `renderer` has the fields of `anthropicStreamRenderer`; a step of
`FeedChunk` is one `feed`, one of `EmitNext` is one `host.stream.emit`. Text, ids and
token counts are left out; the JSON of a call is absent, cut short or complete. The
upstream is external: an orderly one (`Disorders` contains `{}`) sends content first,
announces each call with id and name and finishes it before the next block, then a finish
reason, then usage, and may break off or fail anywhere after its first delta. `Admissible`
holds it to the same within one chunk: only the last choice has a finish reason, no call
comes twice, a fragment of a known call is the first thing in its chunk, and usage comes
only once every call is named. Others take
one of five liberties: end before any content, leave a call nameless while usage comes,
interleave the fragments of calls and text, skip call indexes, or go on generating after
usage or a finish reason. The finish reason `function_call` is left out: it goes with a
field `function_call`, which the code does not read, so that the stop reason would be
`tool_use` without a call. `MessageEvents` is the grammar a
client expects; `FollowsGrammar` says that the events the client of an orderly upstream
reads are a behaviour of it; `BlocksSequential` is what is left of it for every upstream.
`Decoded` is where native frames fall through (see Disagreements).

**LoginFlow.** `flow` is the `loginSession`, `table` is `loginSessions`, `poll` the
`authLoginPoll` calls cut at their locks and file accesses, `panel` a pasted callback
between its lookup and its use, `sweeping` what `stopLoginSessions` took out of the table
and has not stopped. The host may rewrite a flow's callback file between polls. The
exchange's result (granted, refused, retried) is a choice. A ticket may be tried again, a code
may not (`Retries`); a ticket whose endpoint cannot be parsed is not tried at all
(`TicketMisdirected`).

**CronScheduler.** A configuration is its switch, the tasks it lists and those enabled; one
that is on and lists none builds no runner (`Scheduled`). `runners` are the `cron.Cron`
values ever built, with `Start` and `Stop` as the library defines them (stopping one that
was never started does nothing), `installed` is `scheduler.runner`, `call` the schedule
changes in progress, cut at the unlocks of `startScheduler` and `stop`. A run is spawned by
a tick or by `POST /schedule/run`, passes the running flag or is skipped, executes, is
recorded and released. A task has a `Kind`: the renewals of credentials and quotas only
succeed or fail, an `http` task or a check-in that succeeds first tells its own result
(`RunTells`, the one only where the task has an entry, the other making it), which
`Recorded` keeps. `shown` is what the panel reads of a task, `ended` the history it is
compared with.

**CredentialRenewal.** An account is one sign-in, a credential of it a pair of generations:
that of the access key, which `Holds` compares as the code does, and that of the refresh
token. A file holds a credential and the host's own keys; it may be deleted, and a credential
may be imported into it whoever it belonged to. `renew` is the task: list the files, then for
each get, exchange, list again, read the file that still has the access key renewed, save the
merge. `refresh` is the host's `authRefresh` and the save that follows; that the host does not
save over another account's credential is an assumption about it (`HostStores`). `home` and
`stored` remember where an account was stored and what was last put in a file, `wasted`
accounts for which upstream issued a credential that an identity lookup or a save then lost,
`raced` files that changed between a persist's read and its save: history variables for the
statements below. Importing a credential that some file holds or held already is left out:
two files of one account renew one refresh token and no document says which stays usable.

**SseRelay.** The wire is a sequence of symbols - the two halves of each frame's data, a
colon, CR and LF - so that a host read may cut anywhere a byte cut makes a difference.
`decoder` is the buffer of `sseDecoder`, `relay` the fields of `streamRenderer` and
`nativeTranslator`, `out` the frames the renderer makes; `HostPayloads` are those that
`hostPayload` leaves for the host, which are neither comments nor done markers: the host ends
the stream itself. A text is a sequence of numbered
pieces; `body` fixes what the upstream sends, how it ends its lines and whether it ends
with a blank line, without one, or inside the last frame.

**BufferedReply, BufferedRead, ReplyPaths.** `BufferedReply` runs one upstream body through
`AnthropicStream` and through the aggregator side by side, so that `StreamedEqualsBuffered`
can compare the message the streaming client has read with the one
`anthropicMessageFromCompletion` builds: the number of pieces of reasoning and text, the
calls with their inputs, the stop reason; not the order of pieces. Call indexes are natural
numbers. `BufferedRead` is `readUpstreamResponse`: a reader goroutine, the context, the
goroutine of `context.AfterFunc` and the host's stream; what a read of a closed stream
returns is the host's business, so it is an error or an ordinary end. `ReplyPaths` conjoins
the three: a behaviour is one request, on one of the paths `executorExecute` and
`executorExecuteStream` choose.

**QuotaCache, ModelCache, AccountQueries.** A quota fetch is cut at the upstream request and
at the cache's lock; a model lookup at its read of the cache, each agent's request and its
store; a request that cannot be signed aborts the lookup (`LookupAborts`), any other failure
only that agent's part. `setting` is the part of the configuration a lookup takes, once,
when it begins. `AccountQueries` puts the two under one clock, which is all they share, and
beside them the picker with the usage reports.

**AccountPick, UsageRollup.** A pick runs under its lock and is one step. `UsageRollup`
follows the requests that were placed (`placed`) until the host reports them (`reported`, a
history), in whatever order, together with reports of requests the plugin did not serve. A
request may also never be reported. `Own` drops reports of others; it uses `Without`, the
loop of `usableCandidates`, since a definition both share needs one lemma.

## Runs

| run | question | properties |
|---|---|---|
| ExecutorStreamPromise | two requests race for one stream id, each ended by pump, timer or client | `ClientEndedOnce`, `AcceptedIsRegistered`, `KeepsPromise`, `AcceptedEnds` |
| ExecutorStreamDrain | a quiesce while two streams end by themselves | `TypeOK`, `UpstreamClosedOnce`, `DrainStopsRegistered`, `DrainReturns` |
| ExecutorStreamDoubleClose | as above: does each client stream end once? It does not | `ClientEndedOnce` |
| ReplyPaths | every way of an answer to its client: streamed and buffered for Anthropic clients, relayed for OpenAI clients, read against the deadline | `ReplyTypeOK`, `CompletedToolsAreWhole`, `ContentDelivered`, `FollowsGrammar`, `BlocksSequential`, `MessageEnds`; `StreamedEqualsBuffered`; `RelayedWhole`; `WholeOrError`, `ReadEnds` |
| AnthropicNative | the same in native mode: does content arrive? It does not | `ContentDelivered` |
| LoginSafety | two sign-ins, a table of one | `TypeOK`, `NoneLeftRunning`, `CodeExchangedOnce`, `FirstCallbackWins`, `NewestSurvives` |
| LoginLiveness | one sign-in, changing timeouts | `FlowReleased`, `FlowAnswered` |
| CronScheduler | one caller changes the schedule, tasks run | `OneRunner`, `ScheduleInForce`, `NoOverlap`, `LastOutcomeShown`, `GuardReopens` |
| CronConcurrent | two callers change it at once: one runner? No | `OneRunner` |
| CredentialRenewal | the task against the host, deletions, imports and a failing upstream | `FilesNotMixed`, `StaysRenewable`, `ChangesStand`, `HostKeysPreserved` |
| CredentialRaced | as above: does a renewal keep every host-owned key? It does not | `RenewalKeepsHostKeys` |
| AccountQueries | overlapping quota fetches; overlapping model lookups across reconfigurations; rotations over changing lists; requests followed to their reports | `QueryTypeOK`, `RepliesAdvance`, `OwnCatalogue`; `NoneRepeatedInRound`; `TrafficAccounted` |

### Bounds, and why they are enough

- **Streams.** Streams meet only in `activeStreams`, so two requests show every way they
  interfere: on one id they race to register, on two ids a sweep finds both. One chunk
  and one frame are enough to reach every state of the pump; the sweep's run drops them
  (`MaxReads = MaxFrames = 0`), since a sweep meets the pump in its reads and its end.
  One sweep, since a second finds what the first left. The proofs have no bounds.
- **Renderer.** Five chunks of an orderly upstream (`MaxChunks`), four of a disorderly one
  (`MaxDisordered`), reach role, text, call, finish and usage, or two calls, one of
  them in fragments, and their ends; chunks include reasoning with text, text with a call,
  two calls at once, a heartbeat, an error, and each finish reason. The aggregator reads the
  same chunks.
- **Relay.** Bodies of up to three native frames, or of two agent frames with up to two done
  markers; every cut of their symbols; LF and CRLF; three endings. Three native frames
  reach a full text after a full text and after a delta, with a marker between or after.
- **Buffered read.** A limit of two pieces (`MaxBody`) and three pieces sent (`MaxPieces`):
  bodies below, at and over the limit. The proofs have no bounds.
- **Sign-in.** A table of one is full with one flow, so a second start evicts. Only the
  first flow has callbacks in `LoginSafety`: by panel and file, the two that have a gap
  between look-up and use; `LoginLiveness` has the loopback listener, which handles its
  request in one step, and the file. One host poll at a time: the host polls a flow
  sequentially. Times up to 3 and 4 let a flow of timeout 1 or 2 expire with a later one
  alive. Two exchanges, so a repeated one would be seen.
- **Cron.** Two tasks and two runs (overlap needs two), two runners (the replaced and the
  new). One task is a renewal, the other an `http` task, whose result may find no entry; a
  check-in always finds one, and the proof has all three kinds. The list of tasks is empty
  or has both (`Listings`), the flags of both are free. With two callers a third runner is
  needed to see the second left behind.
- **Renewal.** An OAuth account in a file; a legacy and a permanent one that may be imported
  over it or into a second file; three generations (stored, renewed by one side, renewed by
  the other), one host edit of each file.
- **Quota, models.** Two overlapping fetches or lookups, an age limit of one instant and
  three instants, so that entries expire; two generations of numbers; two accounts, two
  settings with different upstreams and agents, and a cache of one entry, so that a second
  one finds it full.
- **Picking, usage.** Three accounts, lists in two orders and of two lengths, any subset down,
  every strategy for the rotation. Requests are followed over two accounts (`FollowedOverTwo`):
  three requests whose reports overtake each other, and two samples kept, so that the third
  displaces the first and their order shows.

Deadlock is checked in every run. Where a model ends because a bound is reached or
because the work is done, an explicit stuttering action (`Idle`, `RunnersExhausted`)
says in which states that is so.

### Fairness

Fairness is weak except where noted, and is given only to what the plugin's scheduling or
the host's contract carries out: a goroutine that was started runs; a `time.AfterFunc` and a
ticker fire; a host call inside a task returns, which only `GuardReopens` rests on. A read
from upstream is *not* fair: an upstream may hang for ever, and only a read of a stream
already closed returns (`ReadOfClosed`; in the buffered read `ClosedAnswers`, with the
timer, its closer and the reader weakly fair). Requests, callbacks, ticks, edits and
deletions happen or not. `select` picks at random between a ticker and a finished context,
so `PollerTimesOut` has strong fairness. `FlowAnswered` is conditional on a host that keeps
asking (`HostFairness`), with strong fairness since other flows' polls take turns with it.

## What is proved

TLAPS checks the following for all values of the constants, under the assumptions the
modules state (ids are a function of requests, bounds are natural numbers). Where a theorem
needs more, its statement says so, and the hypothesis is named below with the reason.

| module | theorem | property | under |
|---|---|---|---|
| `ExecutorStreamProofs` | `TypeCorrect` | `TypeOK` | |
| | `UpstreamReleasedOnce` | `UpstreamClosedOnce` | |
| | `SessionEndsOnce` | `ClientEndedOnce` | no sweep |
| | `ImplementsPromise` | `KeepsPromise` | no sweep |
| | `AcceptedStaysRegistered` | `AcceptedIsRegistered` | no sweep, or `NamesUnique` |
| | `DrainCompletes` | `DrainStopsRegistered` | `NamesUnique` |
| `LoginFlowProofs` | `SignInTyped` | `TypeOK` | |
| | `FlowsStopped` | `NoneLeftRunning` | |
| | `OneExchangePerCode` | `CodeExchangedOnce` | |
| | `FirstCallbackStands` | `FirstCallbackWins` | |
| | `NewestKept` | `NewestSurvives` | `OneTimeout` |
| `CronSchedulerProofs` | `TasksNeverOverlap` | `NoOverlap` | |
| | `OutcomesAreTheLastRuns` | `LastOutcomeShown` | |
| | `SerialChangesOneRunner` | `OneRunner` | `ChangesSerial` |
| | `SerialChangesInForce` | `ScheduleInForce` | `ChangesSerial` |
| `CredentialRenewalProofs` | `FilesStayApart` | `FilesNotMixed` | |
| | `ChangesLast` | `ChangesStand` | |
| | `HostKeysStand` | `HostKeysPreserved` | |
| | `RenewableStays` | `StaysRenewable` | `FixedRotation` |
| `ModelCacheProofs` | `AccountsToldTheirOwn`, `CacheKeepsBound` | `OwnCatalogue`, `TypeOK` of the cache | |
| `AccountQueriesProofs` | `QueriesToldTheirOwn` | `OwnCatalogue` | |
| | `QuotasAdvance` | `RepliesAdvance` | |
| | `QueriesTyped` | `QueryTypeOK` | |
| `ReplyPathsProofs` | `BlocksFollow` | `BlocksSequential` | |
| | `AgentFollowsGrammar` | `FollowsGrammar` | `Mode = "agent"` |
| | `AgentDelivers` | `ContentDelivered` | `Mode = "agent"` |
| | `AgentAnswersAgree` | `StreamedEqualsBuffered` | `Mode = "agent"` |
| | `ToolsComplete` | `CompletedToolsAreWhole` | |
| | `ReplyTyped` | `ReplyTypeOK` | |
| | `ReadWhole`, `ReadTyped` | `WholeOrError`, `ReadTypeOK` | |
| `UsageRollupProofs` | `RotationFair` | `NoneRepeatedInRound` | `DistinctOffers` |
| | `RequestsCounted` | `TrafficAccounted` | |
| `AccountQueriesProofs` | `PicksOfQueries` | both | `DistinctOffers` for the first |

Every hypothesis is met by the run that checks the property, and none can be dropped but
`DistinctOffers`, without which a list could name an account twice and the property would
have to count it twice:

- *No sweep* is `MaxDrains = 0`. A sweep closes the client stream a second time
  (`ExecutorStreamDoubleClose`).
- `NamesUnique`: no two requests carry one stream id. `closeAllActiveStreams` deletes the key
  it ranged over after the stop function has deleted its entry (`executor.go:679`); a stream
  that registers under that id in between loses its entry.
- `OneTimeout`: a single value of the configured timeout. Eviction goes by expiry, and a
  shortened timeout makes the newest attempt the first to expire.
- `ChangesSerial`: one caller of schedule changes. Two leave two runners
  (`CronConcurrent`).
- `Mode = "agent"`: in native mode the Anthropic renderer is given frames it cannot read
  (`AnthropicNative`).
- `FixedRotation`: `Rotates` is not `BOOLEAN`; upstream always, or never, replaces the
  refresh token. If it does so only sometimes, the property is false (see Disagreements).

The arguments, by module:

**ExecutorStreamProofs.** `UpstreamClosedOnce` is not inductive: a close must be known not to
have happened before. `StreamInv` adds that nothing of an unaccepted request has moved, that
entries of `activeStreams` and the sweep's current entry are accepted requests, and that the
count is 0 exactly until the stop once is claimed. `UndrainedInv` ties the counts of error
frames and closes to the session's once; with it each step is a step of `StreamPromise` or
leaves its variables alone. `OwnedInv` says that a key holds the accepted stream of that name
until its stop function has run, so that whoever runs it deletes its own entry and no other;
the entry a sweep deletes last is of a stream that has been stopped. `DrainInv` adds what
a sweep owes: each stream registered at its start is stopped, still ahead in `Range` (and by
`OwnedInv` still in the map when `Range` gets there), or in hand.

**LoginFlowProofs.** `IInv` says of each session how received callback, exchange count and
poller go together (`Sound`), of each poll and of the panel that it is about a flow that
was tabled (`Reached`) and of each flow out of the table that it is stopped or in the hands
of a sweep (`NoneLeft`). A poll stops a flow before it deletes it, so between the two
the flow is in the table and stopped already. The two action properties follow from how a
step may move a session (`Onward`, `Moved`); `NewestKept` needs in addition that with one
timeout flows expire in the order they started (`Dated`).

**CronSchedulerProofs.** A run past the guard has its flag set. Since runs of a task do not
overlap, only its one run may disturb what it shows, and only between telling and
recording (`Disturbed`); that a run told nothing must mean that there was nothing
(`AsTold`), which rests on a task without an entry showing nothing (`Silent`). `ScheduleInv`
says for each stage of a change which runner may be active: the installed one until the
change has taken it, the one taken until it is stopped, none until the new one is started.

**CredentialRenewalProofs.** `AtHome` says that whatever holds a credential of an account -
a file, the task at any stage, the host's renewal - goes back to the file that account was
stored in, because access keys are unique and the task saves where it found the key; `Kept`
that a file outside `raced` is as it was last stored and edited, and so is what a persist
has read of it and not yet saved. `Held` is the strengthening for `StaysRenewable`: the
generation upstream issued last is with exactly one holder - the task, the host's renewal or
the file - and, as long as no credential was lost, the file a task looks for still has the
access key it renewed from.

**ModelCacheProofs, AccountQueriesProofs.** Settings have a non-empty list of agents
(`discoverAccountModels` puts the built-in ones in place of none,
`model_discovery.go:65-71`). Every entry holds models of the key it is stored under, and a
lookup has only models of the account and setting it began with. An entry stored under an
old setting is harmless because the key names what the lookup began with, not the setting
in force when it stores. The bound holds because what has expired is removed, the rest
counted and the new entry added under one lock. `QueriesToldTheirOwn` carries this
over to the composition, in which the other questions move at most the clock, and
`PicksOfQueries` the picker's theorems. `QuotaInv`
bounds what a fetch saw, got and stored by the generation upstream is at: an entry may be
older than another fetch's answer, but a fetch that asks after it looked gets no less than
it saw.

**ReplyPathsProofs.** The renderer works ahead of the client: what it knows of the open block
is what the client will know when it has read the queue. `Agrees` says that the client's view
fits the renderer's fields, and `Leads` that the events waiting, read in order, lead the
client there and that each one is sound where it is read. There is one lemma for each helper of
the renderer, and two inductions (`Counting`) for the loops of `feed` over choices and over the
fragments of calls, and one for that of `finish` over the tools. `StreamInv` adds what an orderly
upstream brings: the events fit the strict grammar (`Strict`), every call is announced before
the message is ended, and nothing is recorded after that. It counts the pieces of
reasoning and text upstream sent against those the client has read and those that wait, which
is `ContentDelivered`. For `CompletedToolsAreWhole` it must know that a tool's `sent` is what
was recorded when its block closed and that no fragment is recorded after, and that the
stop reason, once sent, is the one of the tools as they are (`EndingReason`).

For `StreamedEqualsBuffered` a second invariant, `Twins`, follows the aggregator. Calls of an
orderly upstream come under the indexes 0, 1, 2, ..., which is why the aggregator, where a
call's index is its position, and the renderer, which searches for it, keep the same calls
(`SameCalls`): id, name and arguments are equal position by position, and a call is announced
exactly when it has both an id and a name. The renderer's finish reason is what
`NormalizeFinishReason` makes of the aggregator's, in view of the calls so far
(`SameReason`), so it stays right only because no call follows a finish reason. `CallTwin`,
`DeltaTwin`, `ChoiceTwin` and `ChunkTwin` carry both over one fragment, the loop over fragments,
a choice and the loop over choices. At the end every named call is announced, so `finish`
adds no placeholder (`FinishNamed`), and `ReasonsAgree` compares the two stop reasons case
by case, for the finish reasons `Regular` admits.

The buffered read's invariant has to know that what was read, with what a read has returned
and the loop has not yet judged, is all that was sent as long as the stream is open, and that
a stream closed under a reader means that the deadline has expired: that is why the loop
looks at the context before it looks at the end marker.

**UsageRollupProofs.** The latest picks are a segment, read backwards from the cursor, of the
list rotated (`Rounds`), and a list without repetitions has no repetition in a segment no
longer than it. `RollInv` is the property with sums over buckets put as cardinalities of sets
of positions, and says that reports are of placed requests. Both rest on what the
loop of `usableCandidates` returns for every list (`WithoutSound`, `WithoutAppended`), which
takes induction: `Counting`, from the least element of a set of numbers (`Least`), a
consequence of the well-foundedness of `<` that needs no operator parameter.

Each inductive invariant was also checked by TLC on the instance of its run before it was
proved.

### Only model-checked

- Liveness (`AcceptedEnds`, `DrainReturns`, `MessageEnds`, `ReadEnds`, `FlowReleased`,
  `FlowAnswered`, `GuardReopens`): beyond the prover.
- `RelayedWhole`: a body's bytes cut anywhere, with the decoder's folds over each cut.

## Disagreements between the code and its documents

Shown by runs:

1. A quiesce closes a client stream that its session closes too
   (`ExecutorStreamDoubleClose`; `executor.go:677` against 161-164).
2. With `api_mode: native` an Anthropic client gets an empty message
   (`AnthropicNative`; `executor.go:529` against 530-532).
3. Two concurrent schedule changes leave a runner that nothing stops
   (`CronConcurrent`; `scheduler.go:150` against 81-83).
4. A host-owned key set between a persist's read and its save is set back
   (`CredentialRaced`; `scheduler.go:673-688` against 693-695 and `quota_test.go:294-295`).

Met while modelling, outside what the runs assume:

- From an interleaved upstream, a call's later fragments are recorded but never sent, and
  the message still stops for tool use (`claude_output.go:366-392`, `476-477`). From an
  empty one the grammar fails: a message may end that never started. With a nameless call
  a block may open after `message_delta`, and with early usage the message ends while
  content is still to come, and content follows `message_stop` (`claude_output.go:195-205`).
- The streamed and the buffered answer differ when the finish reason does not go with the
  calls (`claude_output.go:195-205` with 521-535; `native.go:456-464` with
  `claude_output.go:655`): finish reason `stop` with calls is `tool_use` streamed and
  `end_turn` buffered; none at all with calls is `end_turn` streamed and `tool_use`
  buffered; `tool_calls` without calls is `end_turn` streamed and `tool_use` buffered. A
  call that has a name and never an id is not announced before `finish`: with finish reason
  `tool_calls` it is `end_turn` streamed and `tool_use` buffered. A nameless call has a
  placeholder name streamed and an empty one buffered, and a gap in the indexes becomes an
  empty call in the buffered answer only (`native.go:432-434`). Reasoning that is all
  whitespace is a thinking block streamed and dropped buffered (`claude_output.go:597`).
- A native frame that carries an error has no field the translator reads: the client gets
  an empty answer that ends with `stop`. A frame cut short at the end of an agent body is
  forwarded as it is (`executor.go:577-582`). A frame whose data follows a comment line is
  dropped in agent mode (`executor.go:841`) and accepted in native mode (`native.go:202`); the
  agent bodies of `ReplyPaths` have no such frame.
- On a status other than 200 the error text quotes a body that was never read
  (`executor.go:74`, `693-695`).
- A list of models that some agents failed to give is cached as complete for five minutes
  (`model_discovery.go:93-130`).
- The recent samples are trimmed in order of arrival, though each carries a reconstructed
  time of completion "so recent samples sort sensibly" (`usage_thinking.go:149-150`,
  `180-182`).
- After an error event `finish` still sends `message_delta` and `message_stop`
  (`claude_output.go:150-151` calls the error event terminal).
- When the login timeout is shortened, eviction drops the newest flow, not the oldest
  (`auth.go:223-225`): `NewestSurvives` fails with `Timeouts = {1, 2}`.
- The panel announces that the account was written before the host has it
  (`auth.go:645-646`).
- A failed quota fetch replaces the stored numbers by an error the answer has no field
  for; the host is then told an empty quota for five minutes (`quota.go:138-162`,
  `304-351`).
- A sweep deletes the key it ranged over (`executor.go:679`), also when another stream has
  registered under that id since: with ids used again, `AcceptedIsRegistered` fails with two
  requests and one sweep, and `DrainStopsRegistered` with three requests and two sweeps, since
  a stream without an entry deletes another's when it ends.
- In the same window a deleted account comes back, and one imported over the file is lost.
  `ChangesStand` and `HostKeysPreserved` are about changes at any other moment of a renewal.
- A file that cannot be read while the task looks for the one to write to is skipped, and
  the renewed credential is then dropped as a success (`scheduler.go:669-691`).
- A rotated refresh token is lost when the identity lookup or the save fails
  (`oauth.go:236-242`, `scheduler.go:688`); `StaysRenewable` excludes these accounts. With
  `Rotates = {TRUE, FALSE}`, an upstream that rotates only sometimes, it fails without any.
- Candidate lists that alternate can starve an account in the rotation
  (`scheduler_pick.go:42-45`); `NoneRepeatedInRound` is about lists that stay.
- `record` keeps a result it finds (`scheduler.go:229-233`). A task id that a reconfigure
  turns from `http` into a renewal keeps the old "HTTP 200" after its next success, until a
  run fails. While a task that failed before is between telling and recording, the panel
  reads its new result beside the old error.
- Runs in flight go on past a quiesce: `stop` does not wait for them
  (`scheduler.go:175-180`, `main.go:198-204`).

## What is not modelled

Formats and pure functions: signing, request and header building, credential and
configuration parsing, token counts, wording, the panel page. What an `http` or check-in
task sends and how the answer is judged is a choice of outcome. A crash of the process is
not modelled: all state is in memory, and the auth files belong to the host, which writes
them in one step.

## Plan

The concurrent parts and the data paths are modelled and checked. What is left, in order:

1. A proof for `RelayedWhole`, the relay. Every other invariant and action property of the
   passing runs is proved.
2. `PluginLifecycle`: register, reconfigure, quiesce and shutdown composed from the cron,
   sign-in and stream modules: after a quiesce no background work is left, and what a
   concurrent schedule edit does to that. Each of the three is checked with its own quiesce
   now.
3. The usage rollup's token and latency sums, as the request counts.

One run per group of questions keeps the whole suite within minutes; modules that share no
state share a run (`ReplyPaths`, `AccountQueries`), in which a behaviour takes one of them.
