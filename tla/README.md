# KeiRouter: specifications and proofs

KeiRouter is an LLM gateway. A Go process (`backend/`) accepts chat, streaming
and media requests, checks them against budgets and rate limits, plans an order
of upstream accounts, calls providers with fallback and retries, and meters what
was used. This directory holds TLA+ specifications of the parts of that process
whose correctness depends on the order of concurrent steps, the TLC models that
check them and proofs for TLAPS.

All paths below are relative to `src/backend/internal/` unless they start with
another top-level directory.

## 1. Inventory

### Components

**Limiter** (`limits/limits.go`). State: a switch, one request bucket and one
token bucket per key and window, one counter of requests in flight per key.
Operations: `Acquire`, the release closure it returns, `cleanup`, `SetEnabled`.
Hard: the switch and the clock are read before the mutex; release is called from
defers, error paths and completion functions, some of them twice; plans are
edited while requests carry the old limits. Correct when the counter is exactly
the number of unreleased admissions, no window admits more than its limits, and
the counter behaves like a set of holders. (`limits.Resolver` has no caller; the
gateway resolves limits in `Server.effectiveLimits`.)

**Budget engine** (`budget/budget.go`). State: a cache of budgets per scope, a map
of reservations; it reads budgets and spend from the store. Operations: `Check`
(a sequence of cache lookups, fetches, fills, a spend query and one reading of
the reservations per budget), `Reserve`, `Confirm`, `Release`,
`InvalidateBudgetCache`. Hard: nothing holds a lock from the check to the
reservation; fills race with edits; a reservation does not say whose it is.
Correct when an exhausted budget blocks, overshoot is bounded and no reservation
outlives its requests.

**Usage meter and writer** (`meter/meter.go`). State: a bounded channel, a batch,
a closed flag, one loop. Operations: `Record`, the loop's take, tick and drain,
`Close`. Hard: close while senders run, cancellation that starts the shutdown and
stops the loop, batches that fail half-way. Correct when no row is stored twice,
none vanishes, and no awaited handler sends on a closed channel.

**Application lifecycle** (`app/app.go`). The signal cancels the context, the HTTP
server drains, the writers are closed, the database is closed. It decides in
which order every other component stops.

**Pipeline** (`pipeline/pipeline.go`, `pipeline/media.go`). Per request: budget
reservation, limiter slot, guardrails, semantic cache, plan, attempts with
fallback, rate-limit retries, the stream pump, and at each of a dozen exits its
own sequence of accounting calls. Correct when every exit records one row,
releases the slot, settles the reservation, and when every request ends.

**Dispatcher** (`dispatch/dispatch.go`). State, in the store: per account cooldown,
backoff level and health, per chain and per model a rotation cursor, and session
affinities. Operations: `PlanWith`, `NoteFailure`, `NoteSuccess`, the
sweeper of expired cooldowns. Hard: plans and outcomes of concurrent requests
read and write this state without a transaction. Correct when a plan skips what
was out all the while, misses nothing that was usable, and neither a backoff level
nor a cooldown is left behind or cut short.

**OAuth token manager** (`oauth/manager.go`, `keepalive.go`). State, in the store:
an account's tokens, their expiry and the flag that it must be reconnected; in
memory the singleflight group. Operations: `EnsureFresh` before an attempt,
`ForceRefresh` when the dashboard's account test is refused, the keepalive pass. Hard:
providers that rotate refresh tokens, callers whose copy of the account is old, a
leader whose client leaves between the provider's answer and the store. Correct when
the stored token is the provider's live one unless something was lost, a refusal is due
to an old copy or a real revocation, and every caller comes back.

**Stream path** (`connectors/httpclient.go`, `pumpStream` in `pipeline/pipeline.go`,
`streamChat` in `gateway/handlers.go`, `transform/`). State: two bounded channels, a stall
timer, the outbound scan's window, contexts that are children of one another; then, in the
handler, the tool argument sanitizer's buffers, the think-tag filter and the renderer's state.
Hard: three goroutines and a timer end one stream, and any may be first; a cancelled body looks
like a broken one or like a complete one; dialects differ in how they number and name tool calls.
Correct when each stream settles once and rightly, nothing waits for ever, and text and calls
arrive whole and in the client's protocol.

**API keys and plans** (`identity/identity.go`, handlers in `gateway/admin.go`). State: rows of keys,
their model lists and plans; an authentication cache bounded in size and time. Operations: authenticate,
filter a request's targets, read its limits; create, disable, delete, restrict, edit a plan,
delete a plan. Hard: the handlers work in several statements, the cache is filled after a slow hash.
Correct when revocation takes effect, a restriction binds and a living key has its plan.

**Guardrails** (`guardrails/`). State: policies per scope, a cache of them with a
lifetime. Operations: resolve the layers, judge the prompt and the answer, edit. Hard: fills race with
edits, reads fail, the **semantic cache** (`cache/`) answers in the place of a provider. Correct when
an edit takes effect and a blocking policy blocks. The detectors are pure text, the audit writer has the shape of
the usage writer.

**Provider health telemetry** (`health/`): an event queue, an
aggregator, flushes. **Health checker** (`healthcheck/`): a periodic probe that
writes the health rows the dispatcher reads. **Usage hub** (`usagehub/`): lossy fan-out to
dashboards. **Store** (`store/`): SQL repositories. **Gateway** (`gateway/`): HTTP handlers
and the administration API. The remaining packages (slimmer and its relatives, vault, crypto,
auth, tunnel, update, proxy, cli) carry
no concurrent state of their own, or are I/O and data conversion;
`PROJECT.json` lists each of them with the reason it is left out.

### How they interact

A request passes gateway (authentication, model filter, plan limits) ->
`Pipeline.Chat` or `Stream` -> `budget.Reserve` ->
`limits.Acquire` -> guardrails -> cache -> `dispatch.PlanWith` -> for each attempt
`oauth.EnsureFresh`, the connector, `NoteSuccess` or `NoteFailure` -> `meter.Record`
-> `budget.Confirm` or `Release` -> the limiter's release closure. A stream goes on from there:
connector's goroutine -> channel -> pump -> channel -> handler -> sanitizer, tag filter, renderer -> client.
Components share state only through the store (rows of usage, budgets, accounts, health, keys, plans,
policies), through their own mutex-protected maps and through channels. The administration handlers
write the same store and flush caches by direct calls.

## 2. Modules

| module | models | how |
|---|---|---|
| `SlotPool` | what a concurrency limiter promises | abstract specification: sets of holders |
| `Limiter` | `limits.Memory` | one action per step of `Acquire` that another goroutine can interleave; implements `SlotPool` |
| `Budget` | `budget.Engine` and the rows it reads | one action per read or write of shared state |
| `UsageRows` | the state rows pass through, and what is promised of them | variables and properties of `UsageWriter` |
| `UsageWriter` | `meter.AsyncWriter` and `App.Run`'s shutdown | goroutines: requests, loop, `Run`; extends `UsageRows` |
| `Pipeline` | exits of `Chat`, `Stream`, `streamExec`, `pumpStream` | composes `Limiter` by `INSTANCE` |
| `Dispatch` | planning and outcomes of attempts over one provider's accounts | one action per statement on the store |
| `TokenRefresh` | `oauth.TokenManager` and its callers | one action per statement or call to the provider |
| `StreamPump` | connector's reader, pump, handler | three goroutines, two channels, a timer |
| `ThinkTags` | `transform.ThinkTagState` | recursive functions, with a reference definition |
| `StreamCodecs` | the five stream renderers | operators from a state and a chunk to a state |
| `StreamRender` | stream parsers, sanitizer, `streamChat` | composes `ThinkTags` and `StreamCodecs`; one action per chunk |
| `Keys` | `identity.Service`, key and plan handlers | one action per statement or transaction |
| `PolicyRows` | the policies stored and cached, and what is promised of the two | variables of `Guardrails` and its invariant |
| `Guardrails` | `guardrails.Resolver`, unary path, policy handlers | one action per cache or store access; extends `PolicyRows` |
| `LimiterProofs`, `PipelineProofs`, `DispatchProofs`, `TokenRefreshProofs`, `StreamRenderProofs`, `KeysProofs` | theorems about the module of that name | TLAPS |
| `SpendProofs` | theorems about `Budget` and `UsageWriter` | TLAPS |
| `OutboundProofs` | theorems about `StreamPump` and `Guardrails` | TLAPS |
| `MC*` | constants for TLC | no definitions of behaviour |

Definitions named "Faulty variant" in a comment are mutated forms of the
definition below them, with one plausible mistake each. No specification uses
them; they show that the properties can tell the code from a wrong version.

### Limiter

`Resolve` is the gateway reading the key's plan; `Cancelled`, `Bypass` and
`ReadClock` are the part of `Acquire` before the mutex, `Grant` and the three
`Deny...` actions the part under it, as one step each because the mutex is held.
`DenyTpm` charges the request bucket although it denies, as the code does.
`Release` may happen any number of times once a request was admitted.
Time is counted in windows; `Cleanup(t)` carries its own, possibly old, clock
reading. `granted` is a history variable: what was admitted by callers whose
clock reading was current. It exists because `cleanup` deletes buckets, so the
buckets alone cannot state what a window admitted. A straggler that read the clock in the
previous window is charged to that window's bucket, which may have been deleted
and is created again; `WindowCap` therefore speaks of current readings only.

### Budget

`chk[r]` holds the local variables of `Check` (scope index, clock reading, fetched
list, collected entries, spend snapshot), `pc[r]` the place. `EditBudgets` is the
administration handler's write and `InvalidateBudgetCache` its flush, which follows as a separate
call; an edit without a flush is possible too (the import handler). `Meter`
stores the usage row, or queues it when `async` is set, and `Flush` stores it later.
`Confirm` and `Release` do the same to the map and are one action, `ReleaseAll`:
they delete the whole entry of each scope. `changed` and `sure` are history: when a scope was last
edited, and which scopes had, when the request began, an exhausted hard budget
that nobody had edited for a cache lifetime and nobody edited since.

### UsageWriter

`UsageRows` declares the state and states what is promised of it, `UsageWriter` how it moves; so a proof can speak of the promises beside
another component's. `CheckClosed`, `Enqueue`, `QueueFull`, `SendOnClosed`, `DirectWrite` are the steps of
`Record`; `Take`, `TickFlush`, `SeeCancel`, `Return` those of the loop; the rest is
`App.Run`. A batch write stores any subset of its rows, because a failed batch is
retried row by row. `Detached` rows belong to stream pumps that `server.Shutdown` does
not wait for.

### Pipeline

An exit is a list of accounting calls in `todo[r]`, in the code's order, made one
by one. The release call is the limiter's own action, so releases that repeat, which
several exits do through `defer`, are repeated here. `streamExec` reports
`budgetReleased` as true on every error, so the branches of `Stream` for the opposite
are unreachable and have no action.

### Dispatch

Planning reads four things at four moments: the accounts (`ListAccounts`), the clock
(`KeepOrder` or, with round robin, `ReadRotation` and `WriteRotation`), the cooldowns of the
model (`ActiveCooldowns`) and the health rows (`UnhealthyAccounts`). `loc[r]` holds
what was read, `Resolve` combines it: `Without` leaves the order of an account list as it is and drops those to be skipped, and the backoff's powers are the
function `Pow2`, both defined so that they can be reasoned about. Reading the clock and the rotation row are one
step, because nothing that the clock decides depends on the rotation. A read whose error the code drops yields nothing
(`blind`). Outcomes are noted statement by statement: `ResetBackoffLevel`,
`ClearModelCooldown`, `MarkHealthy`; `ReadLevel`, `SetBackoffLevel`, `SetCooldown`,
`SetModelCooldown`. The code drops the errors of these writes (`WriteFails`), and `End`
covers the client that leaves between two of them. After the failure of an open stream
the code detaches the context, so there `End` allows more than the code does.
`ClearExpiredCooldowns` is the sweeper, `ClearProviderCooldowns` the reconnecting user,
`RecordProbe` the health checker's verdict. Two variables are history: `seen[r]` (which
accounts have been usable, on one cooldown, healthy or unhealthy at every
moment of the planning) and `torn` (accounts whose failure was noted only in part).

### TokenRefresh

`acc[c]` is the copy of the account that caller `c` works on; `Read` takes it, `EnsureFresh` looks at its expiry.
`Enter` is singleflight: lead a flight or join the one under way. A flight is `Exchange` (the provider), then
`UpdateTokens` or `MarkReconnect` (the store), and `Land` returns its result to all aboard; `GiveUp` is the timeout,
the first caller's departure and a failed statement, which all drop what the flight holds. `Probe` and `Retry` are the
account test, the one caller that also works on a flagged account. The provider numbers its tokens and accepts one
refresh token (`live`); it may rotate it or not. `Crash` forgets everything but store and provider, `lost` records that
an issued refresh token was dropped while it was the only one that would have been accepted.

### StreamPump

`reader`, `pump` and `handler` are the places of the three goroutines, `in` and `out` the two channels, `gone` and `stopped`
the two contexts: the upstream call's is a child of the request's. A chunk is its kind. `Settle` stands for the calls
that end a stream (usage row, budget, account), `Leave` for the pump's deferred calls. Every `select` of the code is a choice
between actions. `ending` is what really happened to the body and `sent`, `passed`, `outcomes` are histories. The stall
timer may fire whenever it is armed: time is not modelled, because the properties must hold for any timeout.

### ThinkTags, StreamCodecs, StreamRender

Pure code, written as operators: `ProcessFeed` and `FlushTags` for the tag filter; for each dialect an operator that takes
the renderer's state and a chunk and appends events; `Process` for the sanitizer. `StreamRender` lets a provider of a given dialect
send any stream its parser can produce and passes each chunk through the three, as one action of the handler. The loop over a delta is a recursive
function on the filter's states (`Scan`), so is the loop over the chunks that the sanitizer lets out (`Render`). Text is a sequence of five symbols, two of which
only make a tag together. Arguments are sequences of fragments. The sanitizer's map is a set of buffers, flushed in any order. `Assembled` is what a
receiver makes of the parts of calls: a client of the events it is told (`ToldPart`), Kiro's `Chat` of the chunks it folds (`DrainPart`).

### Keys

`keys`, `access`, `plans` are the tables, `cache` is the authentication cache (an entry has a remaining lifetime; one
that has expired stays until it is replaced, as in the code). A request is `Arrive`, then `Hit` or `Lookup` and `Fill`, then `Filter`, then `Limits`. Handlers
are split where the code makes a statement of its own: `SetDisabled` and `DeleteKey` are followed by
`InvalidateAuthCacheForKey`, `ReadPlan` by `CommitKey`, `ReadForUpdate` by `UpdatePlan`, `CountKeys` by `DeletePlan`. Histories: `free` and
`open` (was the key ever allowed every model, and during this request?), `crossed` (plans deleted while a key was being created under
them), and in requests and entries `outrun`.

### PolicyRows, Guardrails

`PolicyRows` declares the tables, the resolver's cache and the invariant between them; `Guardrails` says how they move. A policy says of one detector: nothing, pass, block. Layers are numbered from the global one to the most specific.
`FetchCached`, `Read`, `ReadFails` and `Store` are the steps of `Resolver.fetch`, `Advance` merges and goes to the next layer. The
prompt is judged, then the semantic cache or a provider answers, then the provider's answer is judged; an answer from the cache is not.
`Create`, `GetForUpdate`/`Update`, `GetForDelete`/`InvalidateForDelete`/`Delete` and `Invalidate` are the handlers' statements in the order of the
code. Each entry carries why it might be stale (`why`), a history.

## 3. Runs

| run | result | instance | what it shows |
|---|---|---|---|
| `limiter` | pass | 2 goroutines, 1 key, 2 plans, 2 windows | accounting, window caps, refinement of `SlotPool` |
| `budget` | pass | 2 requests, key and tenant scopes, clock 0..1, TTL 1 | exhausted budgets block, overshoot is bounded, no phantom reservation |
| `budget_race` | violation | the same | check and reservation are not atomic |
| `usage_writer` | pass | 3 handlers, 1 pump, channel 2, batch 2 | conservation, no panic of awaited handlers, eventual writing |
| `pipeline` | pass | 2 requests, 2 attempts, 1 retry, 2 plans | one row, slots returned, slot held, termination |
| `reservation_leak` | violation | the same, 1 plan | two exits leave a reservation |
| `dispatch` | pass | 2 requests, 2 accounts, clock 0..2, 2 plans | plans skip and miss no account they should not, no backoff level is left behind |
| `token_refresh` | pass | a request, the keepalive pass and an account test, 2 rotations | the stored token is live, refusals are due to old copies, tokens move forward, callers return |
| `stream_pump` | pass | channels of 1, window 3, 5 chunks | settled once and rightly, scan lag, no goroutine left waiting but in one named case |
| `stream_render` | pass | 6 providers, 5 clients, 6 chunks, 2 calls, 3 deltas | calls and text whole, client protocols kept |
| `keys` | pass | 1 key, 1 plan, 2 models, 2 requests, 2 administrators, TTL 1 | revocation, restriction, plans |
| `guardrails` | pass | 2 layers, 3 rows, 1 request, TTL 2 | why a cached policy may be stale, blocking takes effect |

### Bounds

*Limiter.* Two goroutines, each serving one request after another, are the
smallest number that can compete for a cap of one; plans with caps 1 and 2 give
both a full and a non-full limiter, and one plan without a token limit exercises the unlimited branch.
Windows 0 and 1 (`MaxWindow`) contain a window change, stragglers and a cleanup with an old
reading. The theorems remove all of these bounds.

*Budget.* Two requests, one with a key and a tenant scope, one with the tenant
scope, give every sharing of a scope. A limit of one billed request makes "reached" and
"not reached" differ by one row. `TTL = 1` and `MaxTime = 1` contain one expiry. Spend per
scope is bounded by `MaxUsed`: 3 without a buffered writer, which lets both requests overshoot the
limit and serve once more, and 1 with it, where the number of rows under way
multiplies the states and `OvershootBounded` does not apply.

*UsageWriter.* Four rows fill a channel of two and a batch of two with one to
spare on each side. *Pipeline.* Two attempts and one retry contain fallback,
exhaustion, a retry, its re-plan and the end of retrying. The code's
`maxRateLimitRetries` is larger, but the loop's body does not depend on the count.

*Dispatch.* Two accounts let one be out while the other is not, and let the
rotation change their order; two requests are the fewest whose statements
interleave. Only one account has health rows (`Probed`), so that a healthy one exists or is itself
on cooldown. Cooldowns last one unit and the clock runs to 2, the first time at which the
sweeper, which compares strictly, finds anything. The largest backoff level is 1.
Upstreams name no reset time: nothing but the length of a cooldown depends on it.

*TokenRefresh.* The three kinds of caller, one of each, since they differ in what they do; two rotations let a caller present
the token of the last but one. *StreamPump.* Channels of one place are full and empty as larger ones are, and a window of three
fragments has a first, a middle and a last one; five chunks fill a window and leave room for the error, the usage and a start of
the next. *StreamRender.* Six chunks and two calls hold an opening with arguments for each of two calls, interleaved, between text or a finish and usage;
the three deltas cut tags after "<", contain one whole, begin inside and end inside one. *Keys.* One key suffices because
keys only meet in the cache's bound, `AuthMax`, which one key reaches; eviction among several keys is the theorems' matter. Two requests
and two administrators are the fewest of which one can cross another. *Guardrails.* Two layers have an override; the three rows block,
pass and are disabled. One request suffices: requests meet only in the cache, which any request may fill and any later one use. With a lifetime
of two an entry can be fresh, aged and gone.

### Deadlock

Runs over `UsageWriter`, `Pipeline` and `StreamRender` set `CHECK_DEADLOCK FALSE`: the process exits,
all requests end, a stream is over. `StreamPump` says explicitly where it has come to its end (`Over`), so TLC finds any other
state in which it is stuck. The other models never stop, and TLC checks that.

### Fairness

- `UsageWriter`: the loop's own steps only. Its goroutine is
  scheduled and Go's `select` chooses at random among ready cases. Nothing is
  assumed about requests, signals or `App.Run`.
- `Pipeline`: each request's step. Goroutines are scheduled, and every wait in the code (upstream
  call, stream, retry pause) has a timeout, a stall timer or a context; `StreamPump` is where that is shown for streams.
- `TokenRefresh`: each caller's step, which includes `GiveUp` because the token endpoint's client has a timeout of 30 s, but not `Exchange`: the
  provider need not answer.
- `StreamPump`: the three goroutines, the timer, and `Written`: a client reads, or its connection fails. The provider may
  fall silent (`ReadChunk`, `ReadEnd`, `ReadFails` have no fairness).
- `Keys`, `Guardrails`: the steps of requests and the clock; in `Keys` also the second statement of a handler that has made its first. Nobody
  has to send a request or to edit.
- `Limiter`, `Budget`, `Dispatch`, `StreamRender`: none; they carry no liveness property, because clients need not come.

## 4. Findings

Two are violation runs whose property states what a comment says.

1. *Reserve is not atomic* (`budget/budget.go:279`, run `budget_race`). `Check` runs without the
   lock and is not repeated under it, so requests that pass together all reserve.
2. *Reservations leak* (`pipeline/pipeline.go:246` and `464`, run `reservation_leak`): a
   chat that cannot be planned, a stream whose prompt is blocked.

### Deviations without a run

Met while modelling. The models contain this behaviour, and the properties are stated so that they hold with it; each exception
in a property is one of these.

- *A confirmed request is not in the database* (`meter/meter.go:257`): with the buffered writer, `Confirm` deletes the
  reservation while the row waits in memory, so a budget does not see it until the flush.
- *Close does not drain* (`meter/meter.go:412`): the loop stops at the
  cancellation that begins the shutdown; rows of requests finishing afterwards
  stay in the channel. `EventuallyWritten` covers rows accepted before the signal.
- *A retried stream has no slot* (`pipeline/pipeline.go:765`): `streamExec` releases it before the rate-limit loop, which
  does not ask the limiter again. `SlotWhileUpstream` covers the first plan.
- *A reset time is overwritten* (`dispatch/dispatch.go:422`): the comparison with
  the upstream's reset time is made within one failure; `SetCooldown` then replaces whatever
  another request's failure stored.
- *A healthy account is flagged for reconnection* (`oauth/manager.go:109`): singleflight joins only callers that overlap, and a caller with an
  old copy presents a spent token; the comment on `refreshGroup` says this cannot happen. `RefusedIsStale` says when it does.
- *A refresh is lost with its first caller* (`oauth/manager.go:172`): the flight runs under that caller's context.
- *A slow client is a stalled provider* (`pipeline/pipeline.go:971`): the timer also runs while the pump waits for its consumer, and the
  account is put on cooldown. `BlameIsFair` is about the outcome `failed`, not `stalled`.
- *A reader may stay behind* (`connectors/httpclient.go:511`): it sends its error with no regard to cancellation; `ReaderEnds` has
  this one exception.
- *What the outbound scan promises* (`pipeline/pipeline.go:778`): the comment has masked text replace the tail before it is
  forwarded, but the tail has been forwarded; and the rest of a window is never scanned at the end of a stream. `BannedIsCaught` therefore
  bounds the text that follows a fragment, not what is shown.
- *Anthropic clients* (`transform/anthropic_stream.go`): text, thoughts and the first call all use block 0, a thought opens no block, and text after calls goes
  back to block 0, though the comment at the head of the file gives the blocks one after the other.
  `WellFormed` therefore leaves out, for Anthropic clients, streams with both text and calls.
- *Responses clients* (`transform/openai_responses_stream.go:306`): the first usage completes the response, and what is still held by the
  tag filter comes after the completion.
- *Call indexes*: the parsers of Responses and Kiro leave every call at index 0 though `core/response.go:74` calls the index what tells
  calls apart; clients that go by the index, OpenAI's and Responses', then see one call. Gemini's calls of the same function share an id, and so do Ollama's calls without one.
- *An empty object is dropped* (`transform/toolsanitize.go:79`): a fragment of arguments that is exactly `{}` is taken for the placeholder.
  Fragments in the model are never that.
- *Deleting a key frees a request under way* (`store/repo_apikeys.go:105`): the model list goes with the row, and no list means every model.
- *A plan can be deleted under a new key* (`gateway/admin.go:2145`), whose requests then fail; and two edits of a plan lose one of them.
- *A guardrail's failed read is cached* as a scope without a policy (`guardrails/resolver.go:103`), and deletion invalidates before it deletes
  (`gateway/guardrails.go:208`); an update that read a row before its deletion brings it back.
- *The semantic cache skips the outbound check* (`pipeline/pipeline.go:213`): an answer cached under a lenient policy, or by another key, is returned under a
  blocking one. `BlockingLands` excepts it.

## 5. Proofs

`LimiterProofs` proves, for any finite set of requests, any keys, plans, estimates
and number of windows, from `LimiterAssumption` alone:

- `Typing`: `Spec => []TypeOK`. The invariant is strengthened by `Fresh`, which says
  that a request that has not been decided has no slot and an unused release
  closure, so that `Grant` starts from a clean state.
- `SlotsAccounted`: `Spec => []SlotAccounting`. The inductive invariant is
  `TypeOK /\ Fresh /\ SlotAccounting`. Each action either leaves every set of holders
  alone, or adds one request that was not in it (`GrantHolders`) or removes one that was
  (`ReleaseHolders`); the cardinality lemmas then give the counter's change.
  The floor at zero in the code is harmless because the counter is at
  least one when a holder releases.
- `WindowsCapped`: `Spec => WindowCap`. The key lemma is the invariant `Charged`: the bucket of the
  current window holds at least what was granted in it. Cleanup preserves
  it because a reading of the clock never lies in the future.
- `LimiterImplementsPool`: `Spec => ImplementsPool`. Each step maps to a step of `SlotPool` or a stutter,
  with `SlotAccounting` turning the counter comparison into one of cardinalities.

`SpendProofs` is about the two halves of spend. Of `Budget` it proves, for any requests, scopes, budgets, costs, lifetimes and amounts, from
`BudgetAssumption` alone:

- `Typing`: `Spec => []TypeOK`, with `Placed` beside it: a request that collects has a scope to look up, one that evaluates an entry to look at.
- `NoPhantom`: `Spec => []NoPhantomReservation`. A scope with a reservation has a request that is
  running on it, or has been metered and not yet released.
- `ShutOut`: `Spec => []Shut`, the promise of a hard budget. It speaks of the end of a check, and everything it rests on happens earlier, so the
  invariant follows the check: `Clock` (nothing is remembered of a time that has not come), `Coherent` (a cache entry, or a list that
  was fetched and is not cached yet, that is younger than the last edit is what the store holds), `Complete` (the scopes a request is past
  have all their budgets among its entries, if no edit can have misled it), `Own` (entries are of its own scopes) and `Barred` (a scope that must
  keep the request out is exhausted, was edited a lifetime ago, and, once the spend has been read, has an entry yet to be evaluated that will deny it).
  `Barred` is what makes it inductive: spend never falls, so exhausted stays exhausted (`StaysExhausted`), and
  an entry that denies is never passed.
- `Overshoot`: `Spec => []OvershootBounded`. The bound counts requests, so the invariant is about a cardinality: `Margin` says that the
  spend, plus one cost for each request that may still be metered on a reading below the limit (`Armed`), stays below the limit plus one cost for
  each request there is. A row moves one cost from the second term to the first, and a request is armed only by a reading that is
  below the limit, by `Evaluated` and `Complete`. `Unbuffered` excludes rows that wait.

Of `UsageWriter`, for any rows, capacity and batch size, from `Sized`, which is that module's assumption about its constants:

- `WriterTyping` and `Conserved`: `W!Spec => []W!TypeOK` and `W!Spec => []Conservation`. The inductive invariant adds
  `NoRepeats`: `Conservation` counts whether a row is in the channel, and if the channel held it
  twice, taking one would leave the other behind. A row enters the channel only from a call that
  has not answered, so `Conservation` itself shows that it was nowhere before (`AppendOnce`, `TailOnce`
  are the facts about sequences, `WriteMoves` the one about a batch write).
- `NoAwaitedPanic`: `W!Spec => []AwaitedNeverPanics`, from `Awaited`, which also covers the moment between the
  server's return and the close.

`DispatchProofs` proves, for any requests, accounts and durations, from `DispatchAssumption` alone:

- `Typing`: `Spec => []TypeOK`, with the facts that a call or a note always has an account (`plan[r] # <<>>` when busy) and that planning works on a
  permutation of the accounts. The cursor stays within the accounts and the hits below the sticky limit although the row of the rotation is read
  and written in two statements.
- `Avoids`: `Spec => PlanAvoids`, and `Completes`: `Spec => PlanComplete`, the two sides of planning: what was out of use at every moment of
  the planning is not tried, and what was in use at every moment is. Both are about the step that resolves a plan, from the same invariant `Knows`, which
  relates what a request has read to what it has seen, read by read: `Listed` (after the accounts), `Spared` and `Skipped` (after the cooldowns;
  `Skipped` excepts a planner whose read failed), `Sorted` (after the health rows). An account that stayed on one cooldown has
  the deadline that was read, and the clock only moves on; other requests' writes end the sight of an account, they never start it (`OthersKeepKnows`).
  `RanksAreUnique`, `WithoutKeeps` and `Rotated` say that filtering and rotating a list lose and repeat no account, which gives
  the content of a plan (`AttemptsAre`).
- `LevelsCovered`: `Spec => []LevelCovered`. It is not inductive: that `SetCooldown` covers the level needs a
  positive cooldown, so the invariant adds `Priced`, which follows a failure from
  `Fail` through `ReadLevel` to `SetCooldown` and says that nothing is remembered of a
  failure otherwise. That the backoff is positive (`PowersAreTyped`) is a fact about a recursive function. Its induction goes over a set of
  numbers, which needs no operator parameter: `Least` and `Inductively` come from the library's theorem on well-founded relations, and `Iterated` shows
  that a start and a step define a sequence, so that `Pow2` is what its definition says.

`PipelineProofs` builds on `LimiterProofs`. `DrivesLimiter` is a refinement: every step of the pipeline is a step that `Limiter` allows
its callers, or leaves it alone, so that module's theorems hold of the composition, and its invariants `TypeOK` and `Fresh` are used in
the rest. `OneRowEach`, `SlotsReturned` and `SlotsKept` follow from one inductive invariant: `Rows`, which lists what an exit may still
have to call (`Before`, `After`, `Retry`) against the rows recorded, and `Slot`, by which a request whose remaining calls have no
release has nothing to give back. A new exit in the code would be a new sequence in these sets, or break the proof.

`TokenRefreshProofs` proves `TokenStaysLive`, `RefusalIsStale`, `TokensMoveOn` and `Typing` for any callers and any number of tokens. The invariant
adds `Flights` (at most one flight, and all who wait are aboard it), `Newest` (the provider accepts one refresh token, and no
copy is newer) and `Held` (what a flight holds is the newest; what it was refused for is spent or revoked). `NeverBackwards` needs all three.

`OutboundProofs` is about the two guards of an answer. Of `StreamPump` it proves `SuccessWasWhole`, `BlameWasFair`, `SettlesOnce`, `CatchesBanned` and `Typing` for any
capacities, window and length. The invariant has `Settled` (outcomes agree with the pump's place), `Endings` (what the connector's state says
of the body), `Blame` (an error in the channel stands for a broken body or a cancellation) and `Whole` (what was sent is what was passed on, what is
held and what is in the channel, in this order, unless there was a cancellation). `CatchesBanned` adds `Windowed`: as long as the pump works, a fragment that
breaks the policy is still in the window, and with it all the text that followed, so the window fills, and is scanned, before more than its length has passed.
`BannedIsCaught` counts that text as a cardinality, and the fact that one more fragment is one more element is a lemma on finite sets.

Of `Guardrails` it proves `StaleIsExcused` and `PoliciesTyped` for any layers, rows and requests, from `InFlight`: a row that has been read and not yet
cached is the stored one, unless an edit or a failed read says otherwise.

`StreamRenderProofs` proves `TextIsWhole`, `CallsAreWhole`, `RendersWellFormed`, `FoldIsWhole` and `Typing` for any dialects, any deltas, and any number of chunks and calls, from
`StreamRenderAssumption` alone. What text and calls amount to is recursive, and it is reached without a rule of induction: `Least` and `Inductively` come from the
library's theorem on well-founded relations, as in `DispatchProofs`, and `Recursion` shows from them, for any measure, that a recursive function whose
calls go down in it is what its definition says (`ScanIs`, `VisibleIs`, `FlattenConcat`, `RenderIs`). On these rest five arguments.

- *The filter* (`FeedShows`, `FlushShows`): whatever comes after a delta, what the filter puts out followed by what it will make of the rest is what it would make of
  all of it at once; the cuts do not matter. So `TextInv` speaks of every continuation: the text outside thoughts of what was sent and any further text
  is what the client was shown, and what the filter, as it stands, makes of the held symbol and the further text. The statement about the text so far
  alone is not inductive, since a held "<" may or may not turn out to be a tag.
- *The renderers* (`TextRendered`, `AsideRendered`, `ToolRendered`, `DoneRendered`): each dialect adds to the client's text exactly the text of the chunk, and
  to the parts of calls exactly the call (`TellsCall`), whatever state it is in. Here the five dialects with their blocks, indexes and items are gone through, once.
- *The receivers* (`AssembledConcat`, `TellsAside`): parts with a new key are a new call and change none of those told before; other events change no call. `Tells` relates the
  calls that have been told to what the renderer remembers of them (`Knows`: Anthropic's next block, the ids of Responses' items).
- *The sanitizer* (`ProcessIs`): `Steps` shows that each action is a chunk without a call (`Quiet`), a call that begins (`Calling`), arguments for one (`Adding`), the end or the
  failure. `Holding`, in `CallInv`, says that the buffers are exactly the calls the client has not been told, as far as they have come, and that each call that may
  still get arguments is among them: all of an OpenAI provider's, the last one of the others'. That last part is what makes it inductive.
- *The order of the events* (`ShapeText`, `ShapeThinking`, `ShapeTool`, `ShapeFinish`, `ShapeUsage`, `UsageCompletes`): `WellFormed` speaks of a log that is over, and of pairs of
  events and all that lies between them. `Log` says the same of a log that is still written (`Lawful`), and which of its items are open (`Items`); one more event keeps it if it
  `Fits` the open items (`LogAdds`). `Shape` ties the open items to the renderer's state: Anthropic's open block and tool block, the message and the calls that Responses has added. Each
  renderer keeps it, chunk by chunk, the finish closes all (`ShapeFinish`), and the terminal event comes last (`SoundLog`, `DoneSound`). `WellInv` adds what brings a chunk to a renderer only
  when it is fit for it: the sanitizer holds a call at each index for which arguments may still come (`Expecting`), so none passes by; the filter holds a symbol back only if the text so far ends
  with it (`FeedHolds`), so no text comes after the finish; and the renderer knows of text or of a call only if the provider has sent one, so that Anthropic's block 0 is not shared.

`FoldInv` follows the fold of Kiro's stream: the parts with key `j` are those of the `j`-th call, and make up its arguments.

`KeysProofs` proves `RevokedStaysOut`, `RestrictionHolds`, `OnlyCrossedFail` and `Typing` for any keys, plans, models, requests, administrators and cache size.
The invariant extends each property to records under way: `Known` (ids are fresh), `Clean` (a record
on its way to the cache is excused like one that is there), `Restricted` (a living key without a list was granted every model) and `Planned` (a key
keeps its plan, and the plan exists unless its deletion crossed a creation). The cache's bound needs the cardinality of finite sets, which is why `Keys` is assumed finite.

## 6. Only model-checked, and not modelled

With TLC only: liveness (`EventuallyWritten`, `EveryRequestEnds`, `EveryCallerReturns`, `StreamEnds`, `ReaderEnds`, `RevocationLands`, `BlockingLands`): fairness and ENABLED are
outside what the provers treat.

Every other property of a passing run is also a theorem. `TypeOK` of `UsageWriter`, `Pipeline`, `TokenRefresh`, `StreamPump`, `Keys` and
`Guardrails` is proved and in no run. That `Scan` and `Visible` agree is proved as well as checked. The theorems trust nothing but the assumptions on constants that the component modules state,
which TLC evaluates in each run.

Left out of the models: the period a budget covers (one period, in which the
clock only matters to the cache); budget alerts, which never block; prices (a
request costs a constant); in `Dispatch`, accounts that cannot be opened or refreshed, several
providers in one chain, and session affinity; what guardrails decide (any decision), masks in a stream and the
audit log; the ring and the embeddings of the semantic cache; media requests beyond the budget check; names, cleaning and counts in streams;
HTTP and SQL detail; and the contexts under which a synchronous usage write can fail, except
that it may fail.

Components that are not modelled at all are listed in `PROJECT.json` with the reason. Most of the code by size is of this kind: request and
response translation between dialects, provider connectors, login flows, prompt rewriting, administration
CRUD with statistics and imports, tunnels, updates and configuration. It is sequential transformation or I/O with no state whose
order of changes matters, and a model of it would repeat it line by line.

## 7. Plan

What would come next:

1. `Dispatch`, extended: session affinity, the chain's own rotation, and token refresh by
   composition with `TokenRefresh`.
2. `Pipeline`'s stream step as a refinement of `StreamPump`, whose outcomes it lists.
3. The telemetry aggregator and the audit writer at shutdown, with `UsageWriter` as the common abstract module; the ring of the semantic cache.
4. Pure operators with reference definitions over bounded inputs: `PeriodStart`,
   `exponentialCooldown`, `advanceRotationState`, cost from usage.
5. Proofs: that `Pipeline`'s stream step refines `StreamPump`, once item 2 states it.
