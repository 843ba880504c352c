# channel-adapter-gateway in TLA+

The gateway stands between NewAPI, which speaks the OpenAI image API, and
third-party providers, which do not. Administrators keep providers and mapping
rules in PostgreSQL; a request is routed by an in-memory copy of them,
rewritten, sent upstream, and its answer is written back; a row about every
forwarded request goes to the table `request_logs`. This directory holds
specifications of those parts, the TLC runs that check them, and proofs that
TLAPS checks.

## The system

| Component | State | Operations | Talks to |
|---|---|---|---|
| request logger (`service/request_logger.go`) | bounded channel, `stopped`, `stopCh`, a batch per worker | `Enqueue`, workers, `writeWithRetry`, `Shutdown` | called by the proxy on request goroutines and by `main`; writes `request_logs` |
| mapping cache (`service/cache.go`) | two maps under a `RWMutex` | `Refresh`, `Find`, `Models` | refreshed by admin handlers and `main`, read by the proxy |
| provider and mapping administration (`handler/admin.go`) | the tables `providers`, `mapping_rules` | create, update, delete, each followed by a refresh | database, cache |
| accounts (`handler/admin.go`, `service/admin.go`, `database/database.go`) | the table `users` | login, create, update, delete, seeding | database |
| sessions (`service/auth.go`, `middleware/auth.go`) | none; signed tokens | issue, parse | admin routes |
| proxy (`service/proxy.go`) | per request only | two forwarding handlers, `forward`, `logRequest` | cache, transform, upstream, logger |
| transform (`internal/transform`) | none | request and response mapping, error bodies, usage, log sanitising | called by the proxy |
| lifecycle (`cmd/server/main.go`) | the process | start, serve, two shutdowns with deadlines | all of them |
| configuration, official catalog, routes, console | none at run time | | |

What is hard in it:

- **Concurrency.** Every request has its goroutine. Admin requests interleave
  between their statements, and refreshes are ordered by nothing. Request
  goroutines, workers and `main` meet in the logger without a lock.
- **Failure.** A commit succeeds and its refresh fails; a write commits and
  its acknowledgement is lost; a body cannot be encoded after its mapping; one bad row fails a batch; an upstream stalls in
  the middle of a body; the process ends at any point.
- **Timeouts.** The enqueue timer, the ticker, the retry limit, the upstream
  deadline, and two shutdown deadlines one after the other.
- **Order.** Go's `select` picks any ready case and its maps have any order;
  the log row is built before the answer is written.

What makes each part correct: the logger never forgets a row, gives it one fate
and never hangs; the cache routes by what the tables say; an administrator's
write changes what it names; every upstream call leaves one true row and every
client gets one well-formed answer, a success only for a success; a mapping
delivers what the rule says whatever the order of its loops; the log row shows
both bodies with the images' texts blanked and nothing else; a deleted row comes
back only by an update that was under way; an account that was
disabled or deleted has lost its power within a day; and a signal ends the
process, without losing a row when it ends in time.

## The modules

| Module | Models | Spec |
|---|---|---|
| `RequestLogger` | `request_logger.go` and the end of `main` | safety and fair |
| `LogSink` | what `RequestLogger` promises, with no queue or worker | abstract |
| `Gateway` | `main.go`: server, handlers in flight and logger together | safety and fair |
| `Config` | the defaults of `config.go` | operators |
| `MappingCache` | `cache.go`, the provider and mapping handlers, the tables under gorm | safety and fair |
| `AdminUsers` | account handlers, `Login`, `seedAdmin` | safety |
| `Sessions` | tokens and the middleware in front of `AdminUsers`, over time | safety |
| `Proxy` | the handlers and `forward` of `proxy.go` | safety and fair |
| `JsonValues` | decoded JSON values | operators |
| `Json` | `getByTokens`, `setByTokens` | operators |
| `OfficialSpec` | the catalog's fields of answers and errors | operators |
| `LogSanitize` | `SanitizeLogPayload`, the columns of a row | operators |
| `ResponseMapping` | `MapResponse` | safety |
| `Usage` | what becomes of the usage of an answer | operators |
| `Answer` | `ResponseMapping`, then error body, usage and row, as `forward` puts them together | safety |
| `RequestMapping` | `BuildJSON`, `BuildMultipart` | safety |
| `Snapshots` | what of a request gets into its row | operators over `RequestMapping` |
| `Recursion` | recursion over ranked data, for any definition | principle |
| `JsonProofs` | lemmas about the functions of `Json` and `LogSanitize` | |
| `AnswerProofs` | theorems about `ResponseMapping`, `Answer` and `Usage` | |
| `GatewayProofs` | theorems about `RequestLogger`, `LogSink`, `Gateway` and `Config` | |
| `SessionsProofs` | theorems about `AdminUsers` and `Sessions` | |
| `RequestMappingProofs` | theorems about `RequestMapping` and `Snapshots` | |
| `MappingCacheProofs`, `ProxyProofs` | theorems about the modules of those names | |
| `MC*` | constants for TLC | |

Modules compose by extension: `Gateway` adds the server and the handlers to
`RequestLogger`, whose actions it takes as they are, with `Config` giving the
sizes; `Sessions` puts tokens in front of the actions of `AdminUsers`; `Answer`
and `Snapshots` go on where the mappings end. That the inner component keeps its
specification inside the outer one is proved for the first two (see below).
`RequestLogger` is related to `LogSink` by a refinement mapping.

### RequestLogger

A row names its `Enqueue` call. `call[r]` is where the call is: before it,
inside the `select`, inside `writeWithRetry`, or returned. `EnqueueDirect` and
`EnqueueSelect` are the two outcomes of the tests at lines 46-53; `SelectSend`,
`SelectTimer` and `SelectStop` are the cases of the `select`, and none has
precedence, as in Go. A send to a worker that waits goes through the queue in
the model, which has the same effect. `mode[w]` is `"loop"`, `"drain"` (the inner loop of
the stop case), `"final"` (the last flush) or `"exited"`. `Flush` moves the
batch into `job[w]`; while `job[w]` is not empty the worker is inside
`writeWithRetry`, which is three actions: an attempt that succeeds, one that
fails with attempts left, one that fails as the last. An attempt can fail since
the table refuses a row (`BadRows`; the columns have sizes), since the database
is away, or since the acknowledgement of a commit is lost. `shutdown` is the
program counter of `main`. `ProcessExit` may come at any time: a return of
`main`, `log.Fatalf`, or a kill. `accepted` is history: the rows sent before
`stopCh` was closed.

`LogSink` knows for each row whether it is new, held, stored, failed, dropped or
gone with the process, and lets at most `BatchSize` rows settle at once. The
refinement mapping computes that from the queue, batches and jobs. A row whose
acknowledgement was lost can be both stored and reported as failed: for the sink
it is stored.

### Gateway and Config

`request[r]` is a connection with at most one request: connected, in its
handler, answered, or closed without a request. `server` is where `main` is
with `http.Server`: `"draining"` is inside `server.Shutdown`, which returns nil
(`Drained`) when no connection is left, or the error of its ten seconds
(`Overdue`); both lead to `requestLogger.Shutdown`. net/http is external and
modelled from how `main` uses it: after `Overdue` handlers go on, and a
connection that was accepted before may still bring a request. `Log` is the
handler inside `logRequest`; a handler that is stuck simply does not take its
next step. `MainReturns` and `Die` end the process with whatever is in memory.
The sizes in the run come from `NumbersWithDefaults` applied to a file that
leaves most of them out.

### MappingCache

A row is its code or key, its `enabled`, whether it is soft-deleted, and one
value for all other columns. What gorm does is modelled from how the handlers
use it and marked external: `Create` writes a column's default in place of a
zero value, `First` and `Find` see no deleted rows, `Save` updates every column
and upserts when it finds no live row, unique indexes cover deleted rows.
An update is two actions, `Load...` and `Save...`; a refresh is
`QueryProviders`, `QueryRules` and `Install`, with no transaction around the
queries. `Commit` is followed by a refresh, unless the database's word of the
commit is lost: then the handler answers with 400 and refreshes nothing, though
the table has changed. `Restart` is the end of the process and `main` filling the
cache again. The history variables say whether the cache was built by a refresh
that began after the latest commit, whether one has failed or been left out since,
whether an older refresh replaced a newer cache, and which updates had their row
deleted after they loaded it (`overtaken`).

### AdminUsers

`LoginLoad` and `UpdateLoad` copy the row into `loaded`; `LoginSave` and
`UpdateSave` write it back. `stale` is history: the requests whose row was
written by another one meanwhile. `StartSeeding` is `seedAdmin` with no live
account in the table; when the seeded name is taken by a deleted one the start
fails for good (`"fatal"`), as `main` does.

### Sessions

`tokens` are all tokens ever issued; they are signed with a configured secret,
so a crash takes none away. `Enter` is a request that passes `AdminAuth`, which
compares the expiry with the clock and never asks for the account; `GoOn` is a
request that is past it. A login needs no token and `LoginEnds` issues one, with
its `Save` done or failed. It joins two steps of the code: what another request
does between the `Save` and the token, it does in the model before a `Save` that
fails, with the same token as a result. `ended` and a token's `overtaken` are history. Time
passes between any two steps.

### Proxy

`pc` follows a request through the handler. A body keeps whether it is JSON, the
code in `base_resp.status_code` in tenths (so that rounding is visible), the
state of its `usage`, and whether it has an error object. One state of a usage is
that its sum is no float64: then `NormalizeFails`, the third of the failures after
the reply, logs the upstream's status with the body that was to be sent, and
answers with 502. What a configured
mapping makes of a body is any object (`MapResponse`), or a failure
(`MappingFails`); the mappings themselves are `ResponseMapping`. `Expire` is the
context's deadline or the client's leaving; `Do` and the read of the body may
also fail without it. `row` is what `logRequest` built and `rows` how often it
ran. The row's bodies are compared before sanitising and truncation. Statuses
204 and 304 come and go without a body.

### JsonValues, Json, ResponseMapping, RequestMapping, OfficialSpec

Numbers are in tenths, and a string is either the digits of a number or any
other: this is what the conversions tell apart. `Largest` is the largest float64;
a numeral beyond it does not decode, so a body that has one is no JSON here. An object has a value under
every name of `FieldNames`, `Missing` under those that are not in it, which is
the second return value of a Go map. `Json` is built up from the scalars, level
by level, to `MaxDepth`; encoding/json has such a limit itself, of 10000. The
functions that recurse on values and paths are recursive functions with these
sets as domains, not `RECURSIVE` operators, so that they can be proved about.
`getByTokens` and `setByTokens` are the functions of `response.go`; `setPath` of `transform.go` is the second on
paths without arrays. The loops over Go maps take their keys in any order, one
action per round. The types and the required fields of the mapping are those of
the catalog; a path that the catalog does not have has no type and takes any
value.

In `RequestMapping` a field stands for its values, so that a property can say
where they went and how many arrived, and a JSON body is its leaves: a function
from the paths that something was written to, to what was written. `setPath`
then needs no recursion, and the module can be proved about: a write takes away
what is below its path, and above it what is no object (`Objectual` are the values
that are objects, into which a deeper write goes). A value of a JSON field is a
text, an object, or a list of either (`Kinds`), since the log treats these
differently; what is nested deeper is treated as these are. `MCSnapshots` compares the
leaves with `setByTokens` on the JSON itself for any three writes
(`LeavesAreJson`), and `Snapshots` makes the JSON of the log columns from them
(`Body`, a recursive function over the paths above the leaves).

### Answer, Usage, LogSanitize, Snapshots

`Reply` is `forward` from the end of the mapping to `c.Data`: the body, mapped
or as it came, or the error body that `MapErrorResponse` makes of it; the usage
(`Usage`), when the rule asks for it; and the body columns of the row. `received`
is the body as it came and `Decoded` what encoding/json makes of it: every numeral
becomes the float64 nearest to it (`Float`, any rounding that rounds once). A body
without a mapping is sent as it came, unless the rule asks for the usage: then all
of it is decoded and encoded anew, and the sum of the tokens is rounded likewise.
A sum beyond `Largest` is an infinity, which cannot be encoded: the client gets an
error in place of the body (`Withheld`), and the row the body. `Proxy` has the
control flow around this with any outcome of each step, and `Answer` has the
outcomes. `LogSanitize` works on decoded JSON, by the names of fields: scalars
with such a name are replaced, alone and in lists, and objects with such a name
are copied as they are.
`Snapshots` takes the two request columns from a finished `RequestMapping`. A
value is shown there by its own text, so that one can see which client's field a
scalar of a column came from (`Shown`).

## The runs

| Run | States | Shows |
|---|---|---|
| `logger_faults` | 147 k | types, one fate, nothing forgotten, graceful flush, and every step a step of `LogSink`, with refused writes and lost acknowledgements |
| `logger_live` | 14 k | calls return, accepted rows settle, shutdown ends |
| `cache_overlap` | 273 k | two admins: a quiet cache is fresh unless a refresh failed, was left out or was overtaken, and the last refresh lands; a deleted row comes back only by an update that had loaded it before |
| `cache_serial` | 191 k | one admin, so that nothing overlaps: every handler leaves the cache fresh, and competing rows are routed as configured |
| `users_overlap` | 900 k | only overlapping requests lose a column or revive an account; a token's power ends a day after its account |
| `proxy_paths` | 83 k | one true row per upstream call, errors shaped, no failure masked, always an answer |
| `response_values` | 337 k | the answer has what the rule says, in every order; fields of one array stay with their items; the usage adds up, as float64s do, and is the row's; errors have the official fields; the row blanks the scalars of images and nothing else |
| `request_bodies` | 3.4 M | model wins, ignored not sent, every value of the rest sent, defaults sent in JSON; the request columns hide an image, alone or in a list, unless a rule moved it |
| `gateway_stop` | 262 k | a stop within both deadlines loses no row; no handler waits for the database before the server's deadline has passed; a signal ends the process |

Three runs are expected to find a violation, each of a statement of the
repository:

| Run | The statement | What happens |
|---|---|---|
| `cache_stale` | `README.md:37`, a change refreshes the cache immediately | an older refresh lands last |
| `users_restart` | `configs/config.yaml:46`, not created again | after the last account is deleted no start succeeds |
| `request_defaults` | `main.jsx:448`, a default is always sent | not in multipart |

### Bounds

- Logger: three calls fill a queue of two and leave one waiting; batches of two
  are both filled and flushed half full; two workers, as configured by default,
  share the drain; one retry tells a first failure from the last. A third worker or row
  adds no new kind of meeting: each property relates a row to the worker or the
  caller that has it, and two others. The proofs remove these bounds.
- Cache: two admins are what one overtaking takes, and what a save after another's
  delete takes. One provider and one rule, each with two settings, are enough for
  it. The serial run has one admin, two of everything else, so that rules compete
  for a key: nothing in the code makes requests wait for one another, and what the
  run shows is each handler on its own. Interleavings are in `cache_overlap`, and
  in `cache_stale`, which refutes the same `FreshWhenQuiet`. Primary keys bound the rows ever
  created.
- Gateway: two requests, so that one is in its handler while the other's row is
  queued or being written; a queue of one, which is full at once; two workers
  and three retries, the defaults. The other sizes are in the logger's own runs,
  and the proofs have none.
- Sessions: a day is one tick and the clock stops at two, so that a token issued
  at the first tick expires and one issued later does not; two tokens, so that
  each account has one.
- Accounts: two requests, two accounts and two names, so that a deleted account
  can hold the name another one wants.
- Proxy: requests share no state in this module, so one shows all paths. The
  codes 0.4, 200, 399.5, 400, 599.5, 1002 and -1 lie on both sides of each
  bound.
- Mappings: four official paths of an answer and two of an error, and four
  upstream paths, in every combination, two of each through an array; bodies
  that are complete, ragged, empty, of other types and no object, with usages,
  errors and images in several places, these alone, in lists and in objects. As
  beyond 2^53 only every other integer is a float64, so in the run beyond 10, and
  20 is the largest: one usage has a sum that is rounded, one a sum that is none.
  Requests of up to two fields and a file name, with one value or two, in JSON of
  each of the four kinds, against every rule over three targets that collide with
  the model field, an object, and a field inside it. The proofs about requests have no bounds; `MaxDepth`, in those about
  columns, is any.
- Statuses of errors: one that `http.StatusText` knows and one it does not.
- Symmetry is used in safety runs only, over interchangeable model values.
- `CHECK_DEADLOCK FALSE` only in the runs of `AdminUsers` and `Sessions`: a failed start-up
  ends the process.

### Fairness

- Logger: weak fairness of each call's `select`, each worker, each write and
  the steps of `Shutdown`. The Go scheduler runs every goroutine that can run,
  timer and ticker fire, and retries are counted. Nothing is assumed of
  arrivals, of signals, of the deadline, or of the database's success.
- Cache: a refresh that has begun goes on; it may fail.
- Gateway: only `main` is sure to go on: its two waits end, at the latest with
  their timers, and then it returns. Nothing is assumed of handlers, workers or
  the database, which may all hang for ever.
- Proxy: the handler goes on, the deadline comes, and once it has come, `Do` or
  the read returns. The upstream owes nothing.

## The proofs

All theorems hold for every value of the constants under the modules' named
assumptions, and are of the form `Spec => []Inv` or `Spec => [][A]_vars`, or
say that one specification implies another. None assumes that requests come one
after another.

- `GatewayProofs`, the logger. `LoggerAssumption` says that the sizes are at least
  one, as `applyDefaults` in `config.go` leaves them. `TypeOK` is inductive.
  `NoRowForgotten` is not: a caller in `"write"` must be known to have its row
  in its own job, so `Custody` adds where rows are. `GracefulFlush` needs
  `DrainOrder`: once one worker has found the queue empty with `stopCh` closed,
  no accepted row is in the queue, since accepted rows are sent before; a worker
  past its drain has no batch, and one that returned no job. `OneFate` needs
  `SoleCustody`: the queue has no duplicates, and queue, batches and jobs are
  disjoint, so that a row is inserted by one job only and at most
  `MaxRetries + 1` times.
- `GatewayProofs`, the sink. `LoggerIsSink` is the refinement, step by step: an action of
  the logger changes the fate of no row, of one row that is taken or dropped, of
  the rows of one job that are stored or given up together, or of all that are
  held when the process ends. It needs `Batching` beside `Custody` and
  `SoleCustody`: batches and jobs are never larger than `BatchSize`, also in the
  drain, and the rows of a job have the same fate, since an insert stores all or
  none and a retry has the rows it had before (`JobTogether`).
- `MappingCacheProofs`. `FreshUnlessOvertaken` speaks of quiet states only, so
  `Bookkeeping` says at all times that a refresh begun after the latest commit
  holds maps that are still right, and that until one has landed one is on its
  way or the history tells what went wrong. `FreshRoutes` turns a fresh
  cache into what a client sees: the cached rule of a key is an enabled one, and
  the provider it names is cached exactly when an enabled one has that code.
  `RevivedOnlyByOverlap` needs `UpdatesKnown`: until an update saves, the row it
  loaded is in the table, and live unless the update is in `overtaken`.
- `SessionsProofs`, the accounts. A request that is not `stale` holds the present row
  (`LoadedIsCurrent`); the two action properties follow.
- `ProxyProofs`. `Trace` counts the row at every stage, `Stage` says what each
  stage has to go on with, and `Tells` carries the status and the body from the mapping
  through the row to the answer; on the failing branches it says what the row may
  hold beside the 502.

- `GatewayProofs`, the process. `LoggerInside` shows step by step that `GatewaySpec` implies
  the logger's `Spec`, so `Custody` and `DrainOrder` can be taken over.
  `CleanStop` needs `Quiet`: the logger is stopped only after the server; a call
  to it is made in a handler; while the ten seconds are kept, every row in the
  queue was sent before `stopCh` was closed. `DefaultsSuffice` shows that
  whatever a file says, the numbers satisfy `LoggerAssumption`.
- `SessionsProofs`, the tokens. `SessionsKeepAccounts` is the same for `AdminUsers`, which
  gives the types and `LoadedIsCurrent`. `AuthorityFades` needs `Fading`, which
  speaks of tokens that have expired as well: a token that was not overtaken
  ends at most a day after its account; and `LoginsLoadEnabled`: a login that
  runs has loaded an enabled account, so one that is not overtaken issues its
  token for an account that is usable at that moment.

- `RequestMappingProofs`. The properties of `RequestMapping` speak of finished bodies;
  the invariant says the same of what the loops have been through (`Visited`).
  In JSON the place of a field that was written is disturbed only by a write that overlaps
  it (`WrittenLeaves`), so by another field, a default or the model
  (`FieldsAt`, `DefaultsAt`, `ModelIn`). In a multipart body the old parts stay
  where they were, so the model stays the first, and a visit adds as many copies
  of its field as it had values, none of any other (`PartAdds`, `PartCopies`,
  `PartsCounted`). `OnlyKept` says that no step writes a field that is not kept.
  `MappingAssumption` says no more than that names are sequences of tokens.
- `RequestMappingProofs`, the columns. `RequestColumnsHideImages` needs `InPlace`
  beside the types: what the client sent is at its place or nowhere. `NodeShows`
  goes up from the leaves of a body: what the object at a path shows is the text
  of a leaf under that path, so the fields of the body tell what is under their
  names (`BodyFields`). `RequestColumn` does the same for a column of any object:
  it shows a scalar only if a field does, and under a name of images only if that
  field still shows it when its scalars are blanked (`redactValue`); without the
  image fields it is the object, up to what is large (`Rest`). By `ValueShows` a
  text, or a list of texts, shows nothing then. Together: an image of these kinds
  that is shown lies under a name that is not blanked. Objects may be anywhere, as
  values of image fields too; no theorem says that they are hidden, for they are not.
  `SnapshotAssumption` has the names of the client's fields without dots and all
  paths shorter than `MaxDepth` by two.
- `Recursion` and `JsonProofs`. What a recursive function does for values of any
  depth needs two things. That it satisfies its definition: `Recursive` proves it
  of any definition that looks only at elements of a lower rank, and an instance
  of the module, with the definition in place of the constant `Def`, says it of
  one function; the rank is the depth of a value, or the length of a path. And
  induction: here it is over sets, not predicates (`NatSets`, `JsonInduction`,
  `PathInduction`): a set that holds a value whenever it holds its parts holds
  all values. On these rest what reading and writing at paths do to each other:
  `KeysOwn`, what was written is found there; `KeysApart`, what is at a path that
  parts from it at a name stays, provided that no array is on the way (`clear`).
- `AnswerProofs`. `Delivered` speaks of the end, so the invariant `MapInv` says of
  every round what each official path holds by then (`Built`, with `MappedNow` and
  `ConstantNow` for what the rounds so far have to do with it), and that what was
  found could be converted. `Holds` is stronger than what a reader of the path
  sees: the items of an array are objects all, and hold the list's values in
  order, so that a default written later, and the fields of other paths through
  the same array, fall into the right items. `Aligned` follows for what is in
  each item, with `AlignedAlone` about the lists themselves. `Replied` says what
  the answer is made from once there is one; the rest are lemmas about functions:
  `OnlyTotalIsFilled` (the usage, with `DecodedTwice`: what has been rounded once
  stays), `DefaultErrorAgain`, `EnsuredError` and `WithheldError` (the
  error body), and `SanitizeHides`, `SanitizeKeeps`, `SanitizeKeepsObjects` and
  their likes for `redactPath` in
  `JsonProofs` (the row, for every value of any depth). The assumptions: rounding
  is any function on the numerals up to `Largest` that changes nothing the second
  time (`FloatAssumption`); official paths part at a name
  and only their first token is an array, as in the catalog; the texts the code
  writes are texts and the names it looks for are names; and sources and values
  leave room below `MaxDepth` for what is built from them.
  TLC has checked `MapInv` on the states of `response_values`, and the invariant
  `IInv` of `RequestMappingProofs` on those of `request_bodies`.

`LoggerInside` carries all of this into the process: `GatewayIsSink` says that
the gateway, with its signals, deadlines and crashes, implements `LogSink`.

The theorems about the logger hold for the synchronous one too (`Async` is a
constant); TLC runs the asynchronous one.

Only model-checked: liveness (`EnqueueReturns`, `AcceptedSettle`,
`ShutdownReturns`, `RefreshLands`, `AnsweredInTheEnd`, `SignalEnds`), since it
needs `ENABLED`, which is beyond TLAPS here; and `FreshWhenQuiet` and
`RoutedAsConfigured`, which hold only when requests come one after another. What
holds of them in general is proved (`FreshUnlessOvertakenHolds`,
`RoutedUnlessOvertaken`). Every other invariant and safety property
of the passing runs has its theorem. What the theorems about the columns take for
granted is that the leaves stand for the JSON of a body: that is `LeavesAreJson`,
which TLC evaluates for small bodies. Multipart snapshots are in the states of the
runs, but `RequestColumnsHideImages` does not speak of them.

## What is not modelled

- Text: trimming and normalising of columns, snapshots, truncation, headers.
- Response mapping with official paths inside one another (`usage` and
  `usage.total_tokens`): its result depends on the order of a Go map, and a
  write through the first one changes the decoded source. The conversions to
  number, boolean and array: no field of the catalog has such a type.
- The URL and the method of the upstream request.
- The usage of endpoints other than those for images
  (`normalizeOpenAILegacyUsage`): no route leads to one.
- Bodies that are no JSON, or above `max_payload_bytes`, in the columns of the
  row: they are stored as cut text, unsanitised in the first case. A body with a
  numeral beyond the float64s counts as no JSON.
- The digits of a float64: a sum is exact to a tenth and then rounded by any
  function, as is each numeral. The int64s of `toIntValue` have the range of
  `Numbers` and not one of their own.
- In a request's JSON, numbers, and objects in more than one list or object: a
  text, an object and a list of these are what the log columns tell apart.
- The steps of the start one by one in `Gateway`: they succeed or the process
  dies.
- The signatures of tokens and the hashes of passwords: a token is what the
  process issued, and a password matches or does not.
- Informational statuses of an upstream, and statuses above 599.
- The request parameters of the catalog, routes, listings, console.

Seen while modelling, and shown by the models although no run is spent on it:

- A request past the test of `stopped` can send its row after the last worker
  has returned: `Shutdown` does not time out and the row is lost
  (`GracefulFlush` is about rows sent before `stopCh` was closed).
  `configs/config.yaml:42` speaks of waiting for the flush.
- During a shutdown, request goroutines write and retry on their own
  (`SelectStop`, `EnqueueDirect`), although `configs/config.yaml:22` says that
  the asynchronous log keeps forwarding from being blocked by the database.
- The timer's case of the `select` may win although there is room, and
  `request_logger.go:63` then reports a full queue (`SelectTimer`).
- A provider created with `enabled` off is stored enabled, since gorm writes the
  column's default for a zero value (`Inserted`); `docs/ARCHITECTURE.md:46`.
- An update with a blank password sets back a password changed while it ran
  (`LostOnlyToOverlap` names the overlap); `web/src/main.jsx:513`.
- An update of a provider, a rule or an account that loaded its row before another
  request deleted it brings it back (`RevivedOnlyByOverlap`, in both modules), and
  both requests are answered with success.
- A change whose commit is not confirmed is answered as an error and not routed
  until some later change (`refreshMissed`).
- The row of a request answered with a 502 lacks the final response, and after a
  failure to normalise has another body in its place, with the upstream's status
  (`LogTellsAnswer`, first case); `docs/ARCHITECTURE.md:75`.
- `MapResponse` misses a required field that the rule does not map
  (`openai_spec.go:68`), and nothing reads a rule's `body_mode`
  (`docs/ARCHITECTURE.md:66`).
- A list through an array that is empty at the upstream is answered as a null,
  not as an empty list (`setByTokens`); without items there is nothing to write.
- A default for an array path replaces the first item only; a multipart field
  with the model field's name is skipped even when the rule sets no model; a
  field map onto the model field sends a second part of that name; with a
  mapping configured, an upstream 204 is answered with 502; a row counted as
  failed can be in the table.
- Deleting or disabling an account leaves its tokens valid for up to a day
  (`AuthorityFades` is what does hold), and a login that was under way gets its
  whole day even later.
- An image that the rule renames, or that comes as a text part of a multipart
  request, is stored in full (`RequestColumnsHideImages` has the exception); an object of a blanked name, alone or in a list such as `images`
  (`openai_spec.go:44`), is stored as it is, with what is in it
  (`RowShowsAllButImages` says so).
- An error mapping that maps the message to a field that the upstream's body
  lacks fails, since the catalog requires the message, and the client gets the
  gateway's own 502 (`Required`); an error mapping without a message gets the
  text of the status, which is empty for an unknown one
  (`ensureOpenAIErrorDefaults`).
- A total of usage is computed from the numbers alone: tokens given as strings
  count as none (`Sum`). To add it, the whole body is decoded and encoded, and
  integers beyond 2^53 in it are changed (`Decoded`); two numbers of tokens whose
  sum is no float64 cost the client its answer, with a 502 (`Withheld`).

## Plan

1. `RoutingTable`: an abstract table with routing that may lag behind by what
   `FreshUnlessOvertaken` allows, implemented by `MappingCache`; requests holding
   copies of old routes.
2. Mapping with overlapping official paths, once aliasing is modelled.
