# TLA+ verification of better-unraid-mcp

better-unraid-mcp is an MCP server that lets an agent operate an Unraid host.
It is a Node.js program: one event loop, no threads, state in objects that live
as long as the process.  What is hard in it is not computation but order: tool
calls overlap at every `await`, timers fire between them, sockets close late,
and requests that were given up on may still take effect.  This directory models
those parts in TLA+, checks them with TLC and proves the central results with
TLAPS.

Paths below are relative to the repository (`src/graphql/client.ts`); the map
from definitions to lines is in `PROJECT.json`.

## 1. Inventory

| part | code | state | operations | what makes it correct |
|---|---|---|---|---|
| SSH executor | `src/shell/executor.ts` | live and pending connection, channel counter, waiter queue, idle timer | `execute`; connection events; idle timer | one connection; slots never lost, doubled or overtaken; never closes a connection in use; every call returns; idle connections are closed |
| GraphQL client | `src/graphql/client.ts`, `execute.ts` | locals of each call | `execute` with retries and a deadline | a mutation takes effect at most once; every call returns |
| Snapshot cache | `src/graphql/snapshot-cache.ts` | map from key to snapshot | `execute`; clear after a mutation | no read is served a pre-mutation snapshot |
| Rate limiter | `src/graphql/rate-limit.ts` | tokens, time of the last refill | `acquire` | overdrawn by no more than the clock is set back; bounds requests per window |
| HTTP sessions | `src/transport/http-sessions.ts` | map from id to server/transport pair, last use, stream flag | `handle` (initialize, POST, GET, DELETE), `sweep` | pairs are always closed; idle sessions end; used ones do not |
| Live resources | `src/resources/live-resources.ts` | per server: active URIs and their stop functions | subscribe, unsubscribe, upstream error, teardown | nothing leaks on the shared feed; a dead resource can be revived |
| Subscription feed | `src/graphql/subscription-feed.ts` | one lazy graphql-ws client | `subscribe`, `dispose` | callbacks reach their subscriber only |
| Flash backup | `src/tools/backup/flash-backup.ts` | archives in one directory of the host | probe, archive, verify, prune | a reported backup exists and is complete; pruning keeps the newest |
| Confirmation gates | `src/tools/_shared/confirm.ts`, `elicitation.ts` | one pending prompt per call | argument check, prompt, fallback | nothing is changed without consent |
| Metrics history | `src/graphql/metrics-history.ts` | ring of 2880 buckets per topic | `add`, `window`, `start`, `dispose` | a window shows its own samples only; gaps are counted |
| Live store | `src/graphql/live-store.ts` | latest sample per topic; docker aggregate | `set`, `get`, merge with eviction | stopped containers disappear |
| Tool registry | `src/tools/registry.ts` | none | offers the tools, without the mutating ones in read-only mode | nothing is changed in read-only mode |
| Tools | `src/tools/**` | none; state is on the host | 67 handlers: validate, gate, read, act, read back | a report says what happened; a change has its consent |
| Share and autostart writes | `src/tools/share/*`, `docker/autostart-set.ts` | none; a configuration on the host | read all, merge, write all, read back | what was not asked for stays; verified means so |
| HTTP transport | `src/transport/http.ts` | a server and transport per request (stateless) | route, authorize, read the body, dispatch | no call without the token; no server outlives its response |
| Stdio, entry point, configuration | `src/index.ts`, `server.ts`, `transport/stdio.ts`, `config/env.ts` | none that changes | start-up | |
| Prompts, resources, rendering | the rest | none | formatting | see section 13 |

Interactions.  Every tool call runs inside a session's MCP server (or the one of
stdio) and uses two process-wide services: the SSH executor, and the caching
executor around the GraphQL client around the rate limiter.  The subscription
feed is process-wide as well, but its operations belong to the `active` map of
one server; a session's end must therefore reach the feed through the server's
`onclose`.  The HTTP server owns the interval timer that sweeps sessions.

## 2. Plan

Order: what every tool depends on first, then what the tools do with it.

| step | modules | proofs |
|---|---|---|
| SSH executor | `ChannelSlots` (abstract semaphore), `SshExecutor` implements it, `SshDeadline` adds time | `SshExecutorProofs` |
| GraphQL path | `GraphqlPath` (cache, client and server composed), `TokenBucket` | `GraphqlPathProofs`, `TokenBucketProofs` |
| Sessions and live resources | `HttpSessions`, `LiveResources`, composed in `SessionFeeds` | `SessionFeedsProofs` |
| Flash backup | `FlashBackup` | `FlashBackupProofs` |
| Tool calls | `ToolSteps`; `ArrayTools`, `DockerTools`, `HostTools`, `ApiTools` in `ToolRegistry`; `ToolCalls`, served by `ServedCalls` | `ServedCallsProofs` |
| Writes of whole configurations | `ConfigWrites` | `ConfigWritesProofs` |
| What the feed leaves in memory | `MetricsHistory` and `LiveStore`, composed in `Telemetry` | `TelemetryProofs` |

Left to do: abstract specifications beside the slots' semaphore (a session store
that is a set of live sessions, an archive directory that always has a whole
archive) and the proof that the detailed modules implement them.

## 3. Conventions

An action is one run of the event loop: the code from one `await`, callback or
timer to the next.  Continuations of resolved promises run before the next timer
or socket event; where that matters (`Quiet` in `SshExecutor`) it is a guard.
History variables and fields (`unclaimed`, `applied`, `settled`, `raced`,
`thrown`, `recent`, `unsettled`, `consent`, `blind`, `samples`, `lastSeen`) are
read by properties and decide nothing.  `effect` and `wanted` of `ToolCalls` are
the state of the server; a handler sees the second when it looks.

*Fault* definitions.  A definition with the comment `\* fault` is not part of a
model.  It is a plausible wrong version of the definition that follows it: a
dropped guard, a missing reset, a wrong order.  Each property is shown to reject
one of them (`mutants` in `PROJECT.json`), so that a property which would hold
whatever the code does is noticed.

An `MC` module instantiates a component for TLC.  `MCFlashBackup` and
`MCConfigWrites` declare a symmetry set: their runs check invariants and action
formulas that name no call; the others check liveness, or are small enough
without.

A run expected to be *violated* checks what a comment or document of the
repository says, where the code does something else; `PROJECT.json`'s
`findings` quote both.  Section 11 collects them, with those that have no run.

## 4. SSH executor

`SshExecutor` has one variable per field of `SshShellExecutor` (`connection`,
`connecting`, `activeChannels`, `waiters`, `idleTimer`), one per local that
survives an `await` (`pc`, `conn`), and the state of each ssh2 connection
(`status`).  `CallLive`, `CallJoin` and `CallOpen` are the three ways through
`acquireConnection`; `ConnectOk` and `ConnectFail` resolve every call that awaits
the same handshake; `ConnectTimeout` is `withTimeout`, which gives up without
cancelling the handshake.  `AcquireSlot` and `AcquireWait` are `acquireChannel`,
`FinishHandOver` and `FinishFree` the `finally` of `execute` with
`releaseChannel`.  `ErrorEvent` and `CloseEvent` are the two registrations of the
close listener, which may run late, for a connection forgotten long ago.

* `ssh` (4 callers, 2 connections, 2 slots), safety: the counter equals the
  number of running commands (`SlotsAccounted`), no wake-up is lost
  (`NoLostWakeup`), every open connection is the one the executor holds
  (`OneConnection`), the timer is pending only when nothing runs or waits
  (`TimerMeansIdle`), a used connection is never idle without its timer
  (`IdleArmedAfterUse`), the executor never ends a connection in use
  (`NoEndInFlight`), and the queue implements `ChannelSlots` (`ImplementsSlots`).
  Four callers over two slots let two wait while two run, so that the order of
  the queue matters; two connections let a new one be live while an old one has
  not closed and queued calls still refer to it.
* `ssh`, liveness: every call returns and an idle connection is closed.
  Fairness: a handshake settles (ssh2's `readyTimeout`); a continuation runs; a
  started exec settles, by `run()`'s deadline once the channel is open and
  before that by the SSH server's answer or the keepalive probes, which is an
  assumption; the idle timer fires.  An exec's settling is strongly fair because
  continuations of other calls take precedence over it again and again.
* `ssh_bounded` (3 callers, 1 slot): in `SshDeadline` timers that are due fire
  before the next tick.  `timeoutMs` is not the overall deadline its comment
  says: connecting and running each get one, and the wait for a slot gets none.
  What does bound a call is one deadline for connecting plus one round of
  channel request and command for as many rounds as the callers need.
  `OpenLimit` is the assumed bound of the server's answer to a channel request;
  `MaxAge`, at which the clock stops, lies above the bound that is checked.

Proved in `SshExecutorProofs` for any finite set of callers, any connections and
any positive number of slots: `TypeCorrect`, `ChannelsBounded`, `NoWakeupLost`,
`AtMostOneConnection`, `TimerOnlyIdle`, `UsedIsArmed`, `NeverEndsInFlight` and
`SlotsRefinement`, and `ConnectionIsCaptured`: a call that need not queue runs on
the live connection.  The inductive invariant `IInv` is the conjunction of the named invariants, and each needs the
others: the counter's bound needs its equality with the set of holders, a
hand-over needs the queue to list exactly the waiting calls so that the resumed
one is no holder yet, the idle disconnect ends no captured connection because
the timer means that no slot is held (`TimerMeansIdle`), that no waiter is queued
and that a call that is about to run is served first (`Quiet`), and "the open
connection is the live one" is preserved because a drop compares identities.

`CallsBounded` proves `BoundedCall` of `SshDeadline`, for any deadline, answer
limit, callers and slots. Time is cut into rounds of `OpenLimit + Deadline`, for
as long as a slot can be held. While a call is queued every slot is held, so
that of the slots held when a round of its wait began, each is handed over
before the round ends, and the call moves up by `MaxChannels` places per round.
`QueueInv` of `TimedInv` says this with the count of those that hold their slot
since the round began; `AgeInv` bounds a call's age by its stage. It rests on
`IInv`, because `SshDeadline` implements `SshExecutor` (`TimedIsExecutor`).

## 5. GraphQL path

`GraphqlPath` composes the caching executor, the client and the server.  The
server is a version number; a mutation that takes effect makes a new one and a
query answers with the version it finds.  A request may be refused without
effect (429, an error), answered with an error after it took effect, lost, or
take effect after the client gave up on it (`ServerAppliesLost`).  `Settle` is
the client's retry decision; `ReadReturns` and `WriteReturns` are what
the caching executor does with the outcome.  A cache hit changes nothing and is
not an action.  One key is enough: the cache's entries do not influence each
other except in `clear`, which removes all of them.  Only three documents are
cached (`snapshot-cache.ts:17-21`: metrics, array status, container list), so
that the read of `docker_autostart_set`, another document, is always fresh.

* `graphql` (2 readers, 1 writer, the code's retry budgets of 2 and 1, TTL 1):
  a mutation takes effect at most once, and a snapshot older than the latest
  returned mutation can only come from a fetch that was in flight when that
  mutation returned.  Two readers let one fetch overtake the other.  Every call
  returns, under weak fairness of the client's own steps; nothing is assumed of
  the server, since a request ends by its answer or its 30-second deadline.
* `graphql_stale` (violated): without the exception for raced fetches the
  comment's promise does not hold.

Proved in `GraphqlPathProofs` for any readers, writers and retry budgets:
`AtMostOnce`, `TypeCorrect` and `OnlyRacedIsOld`.  The inductive invariant
`OnceInv` says where a writer's request may still take effect, it has not yet: in
particular while the client may still retry, and after a 429.  It uses
`DisjointAssumption`: no operation is both a query and a mutation.  `FreshInv`
says of every answer on its way to the cache that it is as new as the last
returned mutation, unless its read is marked as raced, and of the snapshot the
same; it needs that a write returns and clears in one step.

`TokenBucket` counts in units of which one is refilled per tick, so that
fractions of a token are exact.  Timers may fire late, and the clock may be set
back (`ClockSetBack`, by `MaxBack` ticks in all): `refill` then takes away what
the elapsed time lacks, and `lastRefillMs` lies in the future until the next
call.  `bucket` (2 callers, 2 tokens, 3 ticks per token, a window of 6, set back
by up to 5) checks that the count is never lower than what was set back, so that
`acquire` throws no longer than that, and keeps the requests within a window below
the capacity plus one per token time for *each* caller, because a sleeper is
granted on waking whether or not there is a token.  `recent[k]` is the number of
requests within the last k ticks.  A clock that jumps forward
only fills the bucket.

`TokenBucketProofs` proves both for any callers and constants. What makes the
first, `TypeCorrect`, inductive is the conjunct `tokens + elapsed >= -setBack`.
The second, `WindowBounded`, follows a level: what the bucket would hold had the
clock not been set back. Of the last k ticks the bucket bears its capacity and
what was refilled, less that level. A caller it does not bear comes at most once
in a token time, because whoever finds no token leaves the bucket empty and
sleeps until there is one. One caller is always borne by the bucket alone: one
that is awake, or, when all sleep, the last that began to; it is what makes the
bound strict. `WindowInv` says so for every k up to the window at once, so that
a tick, which makes k ticks of k - 1, keeps it.

## 6. Sessions and live resources

`HttpSessions` models the session map, each session's pair, the requests in
progress and the sweep timer.  Of the SDK transport it uses: an initialize
request is accepted or not; a session has one SSE stream and a second GET is
refused; closing a transport ends its responses.  Requests for unknown sessions
change nothing and are left out.  Session ids are used once (`randomUUID`).

`LiveResources` models the `active` map of each server and the upstream
operations behind each resource.  `SocketLost` is the end of the shared socket
after the client's retries: every operation reports an error.

`SessionFeeds` composes the two.  A session's server is a `Servers` element of
`LiveResources`; a POST may carry a subscribe or an unsubscribe, and the closing
of a pair is, in one step, the server's `onclose`.  The set of open servers is
not a variable here: it is the sessions whose pair is not closed.

* `sessions` (2 sessions, 2 requests, expiry 1, interval 1, 1 resource of 2
  upstream operations): an open pair belongs to a session in the map or being
  created, unless its initialize request threw (`thrown`: `handleRequest`
  rejects and the rest of `createSession`, its close included, is skipped); a
  session without a stream flag is gone one sweep after its expiry; every
  running operation can be stopped through the map of a server that is not
  closed; an entry of that map has all its operations; a session that is over
  has nothing running on the feed once it is closed; a pair is closed once,
  also when a DELETE that is still being handled meets the sweep or another
  DELETE (`ClosesOnce`).  Two sessions show that one
  does not keep another alive; two requests let a stream overlap a second GET,
  a DELETE another DELETE, and a POST the sweep; two operations are enough for
  "one failed, the other did not".
* `sessions`, liveness: a session with no request in progress ends or is used
  again.  Fairness: the clock advances and the interval timer fires (the
  process lives), and a close that has begun settles.  Clients owe nothing.
* `live_dead` (violated): an operation that completes leaves an entry that
  blocks later subscribes.

Proved in `SessionFeedsProofs`, for any sessions, requests, expiry and interval:
`PairsAccounted`, `IdleBounded` and `ClosesOnce`, which follows from the same
invariant. The invariant `SInv` adds to the first two that a session in the map,
or being created, has an open pair, and that a session's idle time is at most
the expiry plus what of the interval is over (`SweepInv`): a tick takes from the
one what it adds to the other, and the sweep, which puts the interval back,
leaves only sessions that have not expired.

Proved there too, for any sessions, resources and parts: `NoLeakedOperation`,
`AllOrNothing`, `EndedSessionsAreSilent` and `FeedTypeOK` of the composition.
The composition implements each of its parts: every step is a step of the
session store, and a step or a stutter of the resources, for which one has to
know that nothing but `ClosePair` changes which pairs are closed
(`SessionStepKeepsOpen`, from `SInv`): `FeedIsSessions` and `FeedIsResources`.
So the invariants of both carry over, and with "only a live session has
subscriptions" they give the third property.

## 7. Flash backup

`FlashBackup` has one call of the tool per element of `Calls`, its place in
`runBackup`, and the host: the state of each call's archive, which archive is
newer than which (`newer`, the order of `ls -1t`), tars that are running and rms
that are to run. The host's part is external. It is separate from the calls
because a call may give up on a command (a deadline, a lost connection) that the
host goes on with. A call is used once, so the system stops when all have ended
and their commands are over: deadlock is not checked. Archive names carry the
second of the call; two calls of the same scope within one second, which would
share a file, are outside the model.

* `flash` (3 calls, keep undefined, 1 or 2): a reported backup was written
  completely, and pruning by several calls from listings that may be stale leaves
  a complete archive, provided no listing saw one unfinished (`unsettled`).
  Three calls let two prune, from listings of different ages, while a third
  writes.
  Without that proviso a call with `keep: 1` can delete the archive it has just
  verified (section 11).

Proved in `FlashBackupProofs` for any finite set of calls and any `keep`:
`TypeCorrect`, of which the order of the archives is the interesting part,
`ReportedWhole` and `OneIsKept`.  The invariant `FInv` says how far an archive is
when its call is at some place (`StageInv`); that is all `ReportedWhole` needs.
`OneIsKept` needs a witness (`Spared`): a whole archive that is no victim of any
pruning under way, and older than none of the victims that are still there.  A new
listing may take the witness for a victim; then the newest of all that are there is
spared, which no listing takes (`keep` is at least 1).

The gate before a backup and the words of its result are in `ArrayTools`.

## 8. Tool calls

A tool's handler is a sequence of awaits: it tests for SSH, checks its
arguments, asks for consent, reads, acts, reads back, and returns early from most
of them.  `ToolSteps` is the vocabulary for that: a step has a set of outcomes and
says for each whether the handler goes on or what its result promises (`data`,
`done`, `verified`, "No changes were made.", an error that promises nothing).
`requested` promises no more than acceptance: the API accepts a parity pause
without a check that runs, an unknown notification and an update of an orphaned
container (`parity-check.ts:119`, `notification-archive.ts:63-69`,
`container-update.ts:76-78`), and emhttpd a form that it does not apply.  Steps
of that kind, `Request` for the API and `Submit` for a command, have the outcome
`accepted`, after which the change may have been made, may yet be made, or never
(`EffectsOf`).  `Mutation` and `Execute` are the steps whose success is taken to
mean that it was made: an answer that names the result, and the exit status 0 of
zfs, virsh and tar (of tar, 1 as well).  That is an assumption about these
programs; `flash_backup`'s `done` rests on it, since its verification cannot fail
on a truncated archive (section 7).  A command that fails may not have been sent
(`unreached`: no connection) or may have been (`unopened`: the connection ended
while its channel was opened; `exit`; `lost`: its deadline).
A `look` reads back: it sees whether the server is as the call wants it
(`wanted`), or fails.
`ArrayTools`, `DockerTools`, `HostTools` and `ApiTools` write each of the 67
handlers down, one operator per tool under the tool's name, in the order of its
handler; `ToolRegistry` is `TOOL_REGISTRATIONS` with its `isMutating`.  A tool
whose steps depend on its arguments (a forced stop, an optional prune) has one
flow for each way through.  What a step finds, be it a parse, a lookup or an
answer, is one of its outcomes, chosen freely.

`ToolCalls` interprets such a table: what the registry offers (`Offered`), the two
gates (`FlagsSuffice`, `AskHuman`, `NobodyToAsk`), the prompt with its boxes, its
deadline and its late answer (`HumanAnswers`, `PromptFails`, `LateAnswer`), the
heartbeat that a `finally` stops (`StopHeartbeat`), and the effect of an act: a
command that was given up on may still land (`Lands`).  `wanted` may hold when
the call begins; a change that takes effect may bring it about, or do something
else (`MayFulfil`), so that nothing but a look tells.  It is followed only for
the handlers that look.  `blind` is the set of steps of which the handler took a
failure for an answer.  `ServedCalls` puts the transport around it:
`routeRequest`, the bearer token, the body, and the server that stateless HTTP
builds for each request and closes with its response (`ClosesPair`).  Dispatch,
answers and streams are the SDK's and external.

* `tool_calls` (one call, of every tool, over every transport).  Calls share no
  state but the host, so one at a time shows all that concerns consent and
  replies; calls that meet on the host are in `FlashBackup` and `ConfigWrites`.
  An effect has the consent the tool's description asks for, from the flags or
  from a human, whatever became of the prompt (`ConsentedEffects`); none happens
  in read-only mode, by a tool marked read-only, or over HTTP without the token
  (`PermittedEffects`); "No changes were made." and "not sent" are true although
  commands outlive their calls, what is reported as done was done and what is
  reported as verified is so, unless the failure of the last step was taken for
  an answer (`HonestReplies`, which says nothing of "requested", nor of an
  error); no server of one request is left open when its client leaves
  (`NoStrayServer`); a call that has its result has no heartbeat left
  (`ServedTypeOK`).
* `tool_calls`, liveness: every call is answered (`EveryCallAnswered`), by weak
  fairness of the handler's steps, each of which has a deadline (the requests'
  30 seconds, the commands' timeouts; a channel that is not opened has the
  keepalive probes, section 4), and of the prompt's timeout
  (`ELICITATION_TIMEOUT_MS`).  The human, the client and the network owe nothing.
* `unassigned_mount` (violated): `unassigned_action` mounts although it could not
  read which disks are assigned.

Without the exception of `HonestReplies`, `system_power` says "never sent" of a
command that was (`UnsentMeansUnsent`), and `share_delete` and an unmount report
as verified what they could not read back (`VerifiedMeansSo`): section 11.

Proved in `ServedCallsProofs` for any table that satisfies `TableAssumption`,
any calls and transports: `Consent`, `ServedConsent`, `Permitted`, `NoneStray`,
`RepliesHonest` and `TypeCorrect`. `TableAssumption` says of each flow by
itself: before each act there is a gate of the tier its tool asks for
(`GatedTable`), tiers are 0 to 2, the hint of a tool agrees with the registry,
every outcome leads on or to a result (`EndingTable`), and no step promises what
it and the steps before it do not bear out (`HonestTable`: "no changes" only
where no step so far can have done anything, "done" only after one that was
applied, "verified" only from a look, but for the outcomes `TakenForAnswer`
that `blind` notes). TLC evaluates it
for the table of this repository in every run of `MCServedCalls`, so that the
theorems cover it: a handler written down with a gate too few or a promise too
early is rejected there. What the table cannot say, that prompts, their
deadlines and late answers, commands that outlive their calls, and clients that
leave do not break it, is what the theorems say. The invariant `CallInv` says
that each gate that lies behind a call had its consent (`GatesPassed`): the step
counter is the only witness of a gate that was passed, so a call that has
reached an act has passed the gate the table puts before it. `ServedInv` adds
that a call that has begun came in with the token, of an offered tool. For
`RepliesHonest` the invariant `HonestInv` says what the steps behind a call did
(`Progressing`): nothing when none of them acts, a change when one of them acts
without a way on that leaves the server alone. That "verified" stays true needs
that `wanted` is never undone (`WantedGrows`): a call's own late commands do not
undo it, and what other calls do is the subject of `ConfigWrites`. It uses
`CallInv` for the flow a call follows. Every step of `ServedCalls` is a step or a stutter of `ToolCalls`
(`ServedImplementsCalls`), which carries `CallInv` over (`ServedIsCalls`,
without the fairness).

## 9. Writes of whole configurations

`share_create`, `share_edit`, `share_delete` and `docker_autostart_set` read a
configuration, merge their changes into all of it and write all of it back.
`ConfigWrites` has the share's configuration (a setting of each kind: changeable
in the share's form, carried through it, changeable in the SMB form) and, for
autostart, each container's place in the order, calls at their places in
`runCreate`, `runEdit`, `runDelete` and the autostart handler, and the web UI
beside them. emhttpd may refuse a form, or accept it and change nothing; a call
may give up on a form or a mutation that takes effect later (`LateForm`,
`LateAutostart`). A failed `cat` reads as a missing file, a failed `find` as an
empty share, an unreadable `disks.ini` and `var.ini` as no reserved names: such
calls are marked `blind`. A call is marked `raced` when something else changed
the configuration after it read.

* `config_writes` (2 calls, 3 containers, one change in the web UI): settings and
  containers a call does not name stay as they are, in their order
  (`KeepsTheRest`); a share is deleted only while it is empty (`DeletesOnlyEmpty`);
  "verified" holds until something else changes, and "no changes were made" for
  good (`OutcomesAreHonest`).  Two calls give the lost update and the second form
  that lands on what another call wrote; three containers are needed for an
  order that one change could disturb.  A behaviour is about the share or about
  the list: the two have nothing in common.

Proved in `ConfigWritesProofs` for any finite sets of calls and containers and
any number of changes in the web UI: `TypeCorrect`, `Honest`, `RestKept` and
`EmptyDeletes`, from the invariant `CInv`. Its core is `FreshInv`: as long as
nothing else has changed the configuration, what a call is about to write
agrees, for what it was not asked to change, with what there is, whether it will
write that now, in a second form, or after it gave up. `EffectInv` counts what
of a call took effect, so that "no changes were made" is final; `EmptyInv` and
`ToldInv` are the same idea for the deletion and for "verified". That
`buildEntries` keeps the others in their order is `BuildKeepsOrder`: places are
counted, and a container precedes another exactly when fewer precede it.

The exceptions are part of the result.  Writes that are raced lose the other
change, and blind ones do worse: see section 11.  `raced` and `blind` mark nothing
else, so the run shows that these two are all that can go wrong.

## 10. Telemetry

`MetricsHistory` is the recorder of one metric: the ring (`Add`, which reuses a
slot by position), start and dispose, a feed that dies without the recorder
noticing (`FeedDies`), the window with its gaps, and the rows of the concise table
(`RowsOf`, with `mergePoints`).  `LiveStore` is the container aggregate: a sample
evicts who was not seen for `Eviction`, and `docker_stats` shows the aggregate only
while the topic is fresh.  `Telemetry` runs both under one clock.

* `telemetry` (3 buckets of 2 ticks, 8 ticks, 3 samples, 2 values, 2
  containers): every window, also one that starts before the recorder, after a
  restart or across the wrap of the ring, shows exactly the buckets that were
  sampled, each with the statistics of its own samples; rows neither lose nor
  double a sample; no gap is invented and at most one missed (`WindowIsExact`).
  Eight ticks wrap the ring of six, with a bucket beyond it.  A
  container that stopped is shown for at most the eviction window plus the
  freshness, and one that was told of lately is not lost (`GhostsAreBounded`).

`TelemetryProofs` proves both for any constants. `NoGhosts`: the aggregate is
exactly the containers told of within the eviction window before the last event
(`AggregateIsWindow`), and a later event only moves that window. `WindowsExact`:
each position of the ring holds the latest bucket that was sampled there, with
the statistics of that bucket's own samples, or nothing when none was
(`HistoryInv`). A sample that finds an older bucket at its position replaces it,
one that finds its own is added; two buckets of one position lie a whole ring
apart (`RingApart`), so that a window, which is no longer than the ring, can
miss only the bucket a whole ring back, once the present one has a sample. For
the rows the proof needs that merging the points of disjoint sets of samples
gives the statistics of their union (`MergeIsTruth`), and that the rows
partition the points and are no more than `Rows` (`RowsInRange`, `RowsCounted`).

Both modules take the one clock they read (`Date.now`) as never going back, unlike
`TokenBucket`, where it may: when it is set back, windows and eviction are off by
as much, and nothing is claimed about them.

## 11. Where the code and its documents disagree

With a run:

* `graphql_stale`: "that read must never be served from a pre-mutation cache
  entry" (`snapshot-cache.ts:109-110`); a fetch in flight stores one.
* `live_dead`: "A dead subscription must not block revival"
  (`live-resources.ts:259`); one that completes does.
* `unassigned_mount`: "Refuses partitions of array/pool/flash disks"
  (`unassigned-action.ts:168`); not when `disks.ini` cannot be read.

Stated in a module and refuted by TLC when added to a run, each in seconds:

* `IdleArmed` (`SshExecutor`, 2 callers, 1 slot): the executor is to "disconnect
  after an idle window" (`executor.ts:62-63`).  When the only caller of a slow
  handshake has timed out, the connection it opens has no idle timer until some
  later command ends.
* `NeverThrottled` (`TokenBucket`, 1 caller, 9 tokens of 1 tick, limit 10 in a
  window of 9): "so a chatty agent cannot get the user's key rate-limited"
  (`rate-limit.ts:29-31`).  A full bucket of 90 and 9 tokens per second let one
  caller send about 180 requests in 10 seconds; the API admits 100.
* `OnlyIdleExpire` (`HttpSessions`, 1 session, 2 requests): "Closes every session
  idle past the expiry window (open streams exempt)" (`http-sessions.ts:126`).  A
  request that is still being handled does not protect its session, nor does an
  open stream once a second, refused GET has closed.
* `OwnArchiveKept` (`FlashBackup`, the run `flash`): "`keep: N` prunes older
  archives in that folder beyond N" (`flash-backup.ts:268`).  While another archive
  is being written, a call with `keep: 1` deletes its own.
* `UnsentMeansUnsent` (`ToolCalls`, the run `tool_calls`): only an exec-phase drop
  reads as issued, "every other failure ... means NOTHING was sent"
  (`system-power.ts:57-60`).  The callback of ssh2's `exec` also gets an error
  when the connection ends after the request was sent and before its answer
  (`executor.ts:225-228`); that error lacks the marker, and the reply says "the
  command was never sent".
* `VerifiedMeansSo` (`ToolCalls`, the run `tool_calls`): "copy never claims more
  than verified" (`docs/superpowers/plans/2026-09-17-0.0.14-host-config.md:17`).
  `share_delete` reports "verified: ... is gone" when `cat` failed, and
  `unassigned_action` an unmount "verified with lsblk" when lsblk did.

Seen while modelling, in the code as it is modelled:

* `share_create` takes an unreadable configuration for a missing one and writes
  over it; the check for reserved names passes when the host's files cannot be
  read.
* `run()` starts its timer in the callback of `exec` (`executor.ts:224-236`): on a
  kept-alive connection that is dead, the wait for a channel has no deadline of
  its own and ends when the keepalive probes give up, with an error of the
  callback, which is the case of `UnsentMeansUnsent`.
* A channel that drops while the command runs ends with the exit code -1
  (`executor.ts:250-261`), so that `system_power` answers that the reboot failed,
  although its comment says that an exec-phase drop reads as issued
  (`system-power.ts:57-59`).
* `process_list`, `container-logs` and `gpu_metrics` show a command that failed
  inside a pipeline as an empty answer.
* The recorder's `start` is idempotent and its `onError` is empty: once its
  operation has ended, nothing restarts it.

## 12. What is proved, what is only checked

Proved for every value of the constants: the theorems listed under `theorems`
in `PROJECT.json`.  They rest on the named assumptions of the modules, which TLC
evaluates in each run.  Every safety property of a passing run, invariant or
action property, is stated by one of them.

Only model-checked is what must eventually happen: `EveryCallReturns` of
`SshExecutor` and of `GraphqlPath`, `IdleConnectionCloses`,
`AbandonedSessionEnds` and `EveryCallAnswered`. The prover does not reason about
ENABLED, nor from fairness.

Sums, extremes and first elements of finite sets need induction, and the
library's induction theorems take an operator as a parameter, which the
installed provers cannot instantiate. The proofs use instead that strict
inclusion is well-founded on the finite subsets of a set: were there a
counterexample there would be a smallest one (`SmallestSet`, `FirstExists`).
Definitions by recursion over naturals or sequences would remain out of reach;
the modules that are proved about have none, and define a sum by the fold of the
community modules.

## 13. Not modelled

* Rendering, parsing, redaction, truncation and quoting of text; schemas of
  arguments.  What a parse finds is an outcome of its step.  The thresholds of
  `system_health` are rendering too: a severity is computed from one answer and
  changes nothing.
* Configuration (`config/env.ts`): a validation at start-up whose outcomes are
  the initial states of `ServedCalls`.
* Prompts, resources with static content and the vendored schema: texts.
* Generated GraphQL types.
* Logging and process guards; the command line of `doctor` around the probes of
  `connection_doctor`.
* Of the subscription feed, `dispose` (called by nothing but tests) and the
  reconnects of the graphql-ws client, which is a library: `SocketLost` is their
  end.
* A container row may be older than the age `docker_stats` displays, which is the
  topic's; `GhostsAreBounded` bounds its age, its display is wording.
* Two backups of one scope within one second, which share a file name.
