# TLA+ models of c2a

c2a relays OpenAI API requests from local Unix sockets to three upstreams
(Codex, GitHub Copilot, Sign in with ChatGPT). It keeps one credential file per
provider and one audit log that all its processes share. This directory models
the parts of it where several actors, failures and time meet, checks them with
TLC, and proves the central invariants with TLAPS.

    tlc -workers 2 -config ChatgptRefresh.cfg MCChatgptCredentials
    tlapm ChatgptCredentialsProofs.tla

## The system

| Component | Source | State | Operations |
| --- | --- | --- | --- |
| ChatGPT credentials | `chatgpt.rs`, `storage.rs` | `chatgpt.json` (host ID, client ID, subject, session, pending refresh), its flock, the server's view of the refresh tokens | `credentials` (before every ChatGPT request), `login`, `logout` |
| Codex, Copilot credentials | `refresh.rs`, `copilot.rs`, `storage.rs` | `codex.json`, `copilot.json`, flocks, the process's `credentials` mutex, endpoint cache | `credentials` with an optional rejected token, `login`, `logout` |
| Upstream call | `relay.rs` (`send`, `send_authenticated`) | none of its own | one request, one retry after a 401 (not for ChatGPT) |
| Relay | `server.rs`, `relay.rs`, `images.rs` | connections, service futures, spawned tasks, a oneshot and a body channel per request, two semaphores | `handle`, `handle_inner`, `Relay::start`, `images::start`, `observe_stream` |
| Shutdown | `server.rs` (`serve`) | stop flag, the set of connection tasks, a watch channel | drain 30 s, signal, wait 5 s for permits, abort |
| Audit | `audit.rs` | `RequestAudit` per request, `audit.jsonl`, a mutex per process, a flock | `finish`, `drop`, `append` |
| Stream relaying and observer | `relay.rs`, `audit.rs`, `sse.rs` | event buffer, observation, body channel | `observe_stream`, `feed_at`, `finish` |
| Image responses | `images.rs` | buffer, staged outcome, body channel | `interrupt`, `read_response`, `observe` |
| ChatGPT browser login input | `chatgpt.rs` | listener, terminal, one-slot channel | `wait_callback`, `CallbackInput` |
| Device logins | `device.rs`, `copilot.rs` | a deadline and an interval | polling loops |
| CLI, validation, paths | `main.rs`, `claims.rs`, `paths.rs`, `images.rs` | none | sequential |

How they interact: every request of a ChatGPT relay calls `chatgpt::credentials`
on a blocking thread, where it takes the flock that `c2a chatgpt login` and
`logout`, other processes, take as well. A relay's handler owns the request's
`RequestAudit` until it hands it, with the semaphore permits, to a spawned task;
the two then share only a oneshot (whose receiver disappears with the handler)
and the body's channel. Finishing or dropping a `RequestAudit` spawns an
`append`, which competes with the appends of its own process (mutex) and of
others (flock). `serve` sees the relays through its connection tasks and through
the permits.

What is hard in it:

- **rotation.** A refresh token is good for one use. Between the server's
  rotation and a complete store there are a network reply, a truncation, a write
  and a key fetch, each of which can fail, and a caller that can disappear.
- **in-place writes.** A store truncates and then writes; a crash in between
  leaves an empty or a partial file for every later reader.
- **unlocked windows.** A login holds no lock while the user signs in and while
  it exchanges the code; refreshes, logouts and other logins run meanwhile.
- **cancellation.** hyper drops a service future at any await when the client
  goes away. Ownership of the audit and of the permits decides what that loses.
- **shutdown.** Draining, the signal, the wait for permits and `abort_all` race
  requests in every stage.
- **bytes and chunks.** Upstream's chunks end anywhere: inside an event, a
  separator, at a limit. Relaying and observing share each chunk, and the outcome
  that is recorded depends on which of the two stopped first, and why.
- **several ways in.** A pasted URL, up to 16 loopback connections, a deadline and
  signals race for the one callback a login goes on with; a device login races its
  own deadline against the user.
- **a shared file.** One flock per process does not exclude the process's tasks
  from one another, and one mutex per process does not exclude other processes.

## Modules

| Module | What it is |
| --- | --- |
| `ChatgptCredentials` | the file, the store's two halves, refresh, login, logout, the OAuth server |
| `MCChatgptCredentials` | the replies of the server and the symmetries for TLC |
| `ChatgptCredentialsProofs` | `TypeCorrect`, `OneHolder`, `FileStaysValid` |
| `ChatgptGrantsProofs` | over it: `RegistrationSurvives`, `LoginsReplaceWhatTheySaw`, `SpentTokensAreLost`, `SessionsAreTheSubjects`, `AnswersStored` |
| `AtomicLog` | abstract: records appended atomically and in an order, as lines of their own or damaged behind a torn end, or given up |
| `AuditLog` | `audit::append` call by call; implements `AtomicLog` |
| `MCAuditLog` | three tasks in two processes |
| `AuditLogProofs` | `TypeCorrect`, `RecordsContiguous`, `DamageIsLocal`, `Refines` (it implements `AtomicLog`) |
| `RelayLifecycle` | handler, task, record and permits of each request, and `serve`'s shutdown |
| `MCRelayLifecycle` | its module for TLC |
| `RelayLifecycleProofs` | `TypeCorrect`, `AtMostOneRecord`, `StatusRecorded`, `OutcomesReal`, `BoundedUpstream`, `PermitsCoverRecords` |
| `RelayBody` | what a task shares with upstream, hyper, the client and `serve`: body, channel, departure, shutdown |
| `SseObserver` | the event splitter and its observation, as operators on an observer and bytes |
| `RelayStream` | `observe_stream`: extends `RelayBody` and `SseObserver` |
| `ImageRelay` | `images::start` with `interrupt`, `read_response` and `observe`: extends `RelayBody` |
| `RelayTask` | a task of either operation, composed of the two |
| `MCRelayTask` | event streams and image responses for TLC |
| `SseObserverProofs` | lemmas: what the observer's loop does to any bytes in any chunks, and induction |
| `RelayTaskProofs` | over it: `TaskTyped`, `StreamsUnchanged`, `StreamsObserved`, `ObserversHaveCause`, `OutcomesAreWhole`, `ImagesAreChecked`, `ImageOutcomesFit`, `TaskImplementsLifecycle` |
| `TokenRefresh` | Codex and Copilot: credentials, the 401 retry, the endpoint cache, login, logout |
| `MCTokenRefresh` | processes of its requests, symmetry |
| `TokenRefreshProofs` | `TypeCorrect`, `FileFollowsUser`, `OneRefreshes`, `AnswersStored`, `RetryHasAnotherToken`, `EndpointOfToken`, `SpentMeansLost` |
| `DeviceLogin` | `c2a codex login` and `c2a copilot login`, in time |
| `CallbackRace` | `c2a chatgpt login` while it waits: listener, connections, stdin, channel |
| `LoginCommand` | the login command of any provider, composed of the two |
| `MCLoginCommand` | URLs and typed lines for TLC |
| `LoginCommandProofs` | `LoginTyped`, `FirstWins`, `Bounded`, `NotOverlooked`, `Spaced` |

Operators whose comment begins with "Fault:" are not part of the models. Each is
a wrong version of the definition after it (a missing check, a wrong order), and
some property fails when it takes that definition's place; `PROJECT.json`
("mutants") says which. They show that a property depends on what the code does.

### ChatgptCredentials

An *actor* is one run of `chatgpt::credentials` at a time (a refresher), of
`login_inner` or of `logout`. `pc` says where it is, `saved` is the local variable
of that name, `out` and `then` are the argument of the `store` in progress and
what follows it. A *grant* is one reply of the token endpoint, identified by a
number; a session in the file is the grant it was made from, in `session` or, as
long as its ID token is unchecked, in `pending`. Token strings, scopes other than
the sharing scope, clock values and PKCE are abstracted: a grant keeps what its
ID token will prove (`id`: a subject, nothing, or invalid), whether it carries the
sharing scope, whether the server forbids refreshing it yet (`hold`), and its
`age` relative to the two thresholds the code compares with (60 s before expiry,
and expiry).

| Code | Actions |
| --- | --- |
| `CredentialLock::store` | `Store` begins it; `Truncate`, `Write`; `StoreFails`, `Crash` with `Tear` |
| `credentials`, `credentials_locked` | `RefreshLoad`, `Checkpoint`, `Reauthenticate`, `RequestFails`, `Promote`, `KeysUnavailable`, `RejectIdentity`; `CallerLeaves` drops the awaiting future |
| `login_inner` | `LoginStart`, `LoginRegister`, `LoginExchange`, `LoginCommit` |
| `logout` | `LogoutLoad`, `LogoutRevoke` |
| time and the server | `Tick`, `Rotate` |

A path that takes the flock, reads and returns is one step, because nobody else
can see the inside of it. A torn write leaves an empty or an unparsable file. A
grant nobody stored does not age: nothing reads its age.

### AuditLog and AtomicLog

A record is written in `Parts` write calls, the last of which carries the newline.
The flock belongs to the open file, one per process, so a task is granted it when
its process has it already; only the mutex stops the second task. A write may fail
after any number of parts; a process may die at any point, which closes its
descriptor and releases its flock. `AtomicLog` knows only the `fate` of each record
(pending, a line of its own, damaged, or dropped), which records were there `before` it,
and whether the file's end is `torn`. A record becomes `"line"` or, if the end is torn,
`"damaged"`; one that is given up may leave the end torn.

The refinement reads all of this off the file. A record is there only if its parts, from
the first to the last, are adjacent (`Whole`), and is a line only if its first part is
also behind a line end (`OwnLine`). The end is torn if the file ends in the middle of a
line after the parts of a record still in progress are left out (`InProgress`). A record
whose parts were all written but are not together is mapped to `"lost"`, which no
abstract step produces: so the mapping fails for an interleaving, whether it is the mutex
or the flock that is taken away, and for a remnant that no failed append accounts for. The
damaged fate is not hypothetical: `audit_lines` exhibits it. The mapping is made of sets
and functions only, without recursion, so that it can be proved.

### RelayLifecycle

Each request has a connection of its own. `handler` is the service future,
`task` the spawned task, `reply` the oneshot, `got` the response hyper was given,
`audit` the place of the `RequestAudit` or the fate of its record, `outcome` and
`status` two fields of that record, `appends` a history of appends spawned.
`ClientLeaves` and `Abort` drop handlers, with all that Rust drops with them
(`DropHandlers`). `Responses` and images tasks share their actions where the code
does the same; the deadline and the outcomes that only images have are guarded by
`Images`. The result of the upstream call is a choice among the outcomes the code
can give it (`Failures`, `Observed`); `TaskOfLifecycle` of `RelayTask` shows that it can
give no other, nor in another order. `Exit` is `main` dropping the runtime.

While `acquire_many_owned` waits it takes every free permit, so nobody is admitted
in state `"waiting"`; before and after that, admission goes on while `serve`
shuts down, which is why `"forced"` and `"aborting"` are states of their own.

### RelayBody, SseObserver, RelayStream, ImageRelay, RelayTask

`RelayLifecycle` takes the result of a task's work from a set of outcomes
(`Failures`, `Observed`). These modules open that box for one request. `RelayTask`
has an `operation`, as `RequestMetadata` has, which chooses `RelayStream` or
`ImageRelay`; both extend `RelayBody`, whose variables they share.

`body` is all that upstream will send, `ends` the history of the chunk borders so far
(so any cutting of any body is a behaviour), `channel` the frames hyper has not taken,
`taken` what it took, `at` the task's place, `reason` a history of what ended it. A byte
is a symbol: `LF`, `CR`, something that is not UTF-8, the field name `data:`, or a
token; parsing a text as JSON is looking it up in `Documents` or `Images`. Service tier,
effort, response ID and the five usage counts are handled by the code like `model` and
`tokens`, which stand for them.

| Code | Definitions |
| --- | --- |
| `SseObserver::feed_at`, `finish` | `Feed`, `TakeEvents`, `TakeEvent`, `FinishFeed` |
| `find_event` | `FindEvent` |
| `event`, `observe`, `set_u64` | `Event`, `Readable`, `Observed`, `Observe` |
| `observe_stream` | `ReadChunk`, `Send`, `SendFails`, `UpstreamEnds`, `UpstreamFails`, `Over`, `Outcome` |
| `next_or_shutdown`, the `select!` around `send_data` | `StopsForShutdown` |
| `images::start` | `CallFails`, `Interrupts`, `Reply`, `ReplyUnwanted`, `SendPiece`, `SendStops` |
| `interrupt` | `WorkShutdown`, `WorkCancelled`, `WorkTimesOut`, `SendShutdown`, `SendUnwanted`, `SendTimesOut` |
| `read_response`, `limited_observed` | `Answered`, `ReadError`, `ErrorRead`, `ReadImage`, `ImageRead`, `BodyBreaks` |
| `images::observe` and its serde types | `Acceptable`, `Report`, `Lenient` |
| hyper, the client, `serve` | `ClientReads`, `ClientLeaves`, `Shutdown` |

The observer is not compared with itself: `EventsOf` finds the separators in the body as
a whole, left to right, and `ObservationOf` takes first and last occurrences from sets of
events; neither knows of chunks or of a buffer.

`RelayTask` implements the task of `RelayLifecycle`: `Lifecycle` is an instance with this
operation's request and an idle one, in which `at` maps to `task` (`"send"`, and all of a
stream, to `"stream"`, `"over"` to `"finish"`), the images `status` to `reply` and the
recorded status, and `shutdown` to the stages of `serve` in which tasks see it. What the
staged outcome is while the upstream call is under way is not compared: there
`RelayLifecycle` looks at none, and `ImageOutcomeFits` does.

### DeviceLogin, CallbackRace, LoginCommand

`LoginCommand` is `main::login`: its `provider` chooses `DeviceLogin` (Codex, Copilot) or
`CallbackRace` (ChatGPT). What follows the callback is `ChatgptCredentials` (from
`LoginRegister` on), what follows the device logins is `TokenRefresh!LoginStore`.

In `DeviceLogin` time passes in units: a request takes 0 to `RequestTimeout` of them, a
sleep what the code computes. The user decides at a time of their own (`decidedAt`); the
server may answer from before or after that. `asked` and `answered` are history.

`CallbackRace` keeps no clock: the 15 minutes, the 5 seconds of a connection and the
second of the drain may pass at any step. A URL is the record of what
`Attempt::callback` looks at (the exact redirect with no parameter twice, the state,
`error`, `code`, `client_id`). A connection goes from the kernel's backlog to `"open"`,
when it is spawned, and to what its browser was told.

| Code | Actions |
| --- | --- |
| `device::login`, `copilot::login` | `RequestCode`, `TimedOut`, `Continue`, `Sleep`, `Pending`, `Approved`, `Refused`, `Exchange`, `LookUpUser`, `DiscoverEndpoint`, `RequestFails` |
| `main::login` | `StoreCredentials` |
| `wait_callback`'s `select!` | `Receive` and `Drained`, `LookAtLine`, `Accept`, `Join` |
| the connection's task | `Serve`, `ConnectionFails` |
| `CallbackInput::read_line` | `ReadInput`, `LookAtLine` |
| `login`'s signals, `login_inner`'s timeout | `Interrupt` |

### TokenRefresh

One module for both providers, chosen by the constant `Copilot`; they differ in the
second look (`Replaced`), in the account check (`SameAccount`), in refresh tokens that
may be missing or lapse, and in the endpoint. `pc` follows a request from `"mutex"`
(waiting for `Relay::credentials`) through `"load"`, `"lock"` (waiting for the flock),
`"post"`, `"truncate"`, `"write"`, to `"endpoint"`, `"discover"` (Copilot) and `"send"`.
`saved` is `current` and then `latest`, `rejected` the argument
`rejected_access_token`, `token` the access token in use. Tokens are the numbers of the
grants they came in; a clock value is an `age` relative to the thresholds (300 s before
expiry, and expiry). `Drop` is what Rust drops with a request's future: its place in
each queue, its guards, its descriptor with the flock. `Cancel` does so at every await,
and the token endpoint may or may not have rotated the token by then.

`lost` and `owner` are history: the refresh tokens whose replacement was never stored,
and the account of the user's last login (`NONE` after a logout). A `c2a ... quota` or
`status` is a request alone in its process that is not retried.

| Code | Actions |
| --- | --- |
| `send`, `send_authenticated` | `Begin`, `TakeMutex`, `Return`, `Unauthorized`, `Answered` |
| `refresh::credentials`, `copilot::credentials` | `Load`, `Reload`, `Refresh`, `RefreshFails` |
| `CredentialLock::store` | `Truncate`, `Write`, `StoreFails` with `Tear` |
| `copilot_endpoint`, `discover` | `FindEndpoint`, `Discovered`, `DiscoveryFails` |
| `login`, `logout` | `LoginGranted`, `LoginStore`, `Logout` |
| time, dropped futures, processes | `Tick`, `Cancel`, `Crash` |

## Runs

| Run | Instance | Checks |
| --- | --- | --- |
| `chatgpt_refresh` | 2 refreshers, 1 login, 1 logout, 2 grants, 2 host IDs, 5 kinds of replies; 760,000 states | `TypeOK`, `NoSpentToken`, `OneValidSession`, `SessionIsSubjects`, `AnswersAreStored`, `RegistrationKept` |
| `chatgpt_logins` | 1 refresher, 2 logins, 1 logout, 2 accounts, 2 grants, with fairness; 708,000 states | `LoginReplacesWhatItSaw`, `LockReleased` |
| `chatgpt_host_id` | 1 of each, 2 host IDs | `HostIdStable` is violated |
| `audit_log` | 3 tasks, 2 processes, 3 parts, with fairness; 3,000 states | `Contiguous`, `LinesAreClean`, `AppendsAtomically`, `AppendsEnd` |
| `audit_lines` | the same | `EachRecordIsALine` is violated |
| `relay_stop` | a Responses and an images request, 1 permit, with fairness; 197,000 states | `OneRecord`, `RecordedStatus`, `OutcomeIsReal`, `UpstreamBounded`, `PermitCoversRecord`, `GoneIsReleased`, `StopExits` |
| `relay_drain` | a Responses and an images request | `DrainKeepsRecords` is violated |
| `relay_task` | 84 event streams in up to 3 chunks, 7 image responses with 3 kinds of heads; 319,000 states | `TypeOK`, `ObservedIsBody`, `GivesUpForCause`, `CompletedIsWhole`, `RelayedUnchanged`, `OnlyCheckedImages`, `ImageOutcomeFits`, `TaskOfLifecycle` |
| `token_codex` | a request in each of 2 processes, a login, 2 accounts, 3 grants; 1.3 million states | `TypeOK`, `SpentOnlyIfLost`, `OnlyStaleIsRefreshed`, `RetryDiffers`, `FileIsOwners`, `AnswersAreStored` |
| `token_copilot` | 2 requests of a process, a login, 2 accounts, 2 grants; 196,000 states | `EndpointIsTokens` |
| `token_liveness` | Codex, 2 requests of a process, a login, 2 grants, with fairness; 22,000 states | `CredentialsAnswer` |
| `login_command` | 3 connections, 2 at a time, 2 typed lines; device logins with a deadline of 6 units; with fairness | `TypeOK`, `PollsSpaced`, `ApprovalNotMissed`, `FirstCallbackWins`, `AcceptedIsUsed` |

**Bounds.** `MaxGrants`, `MaxHosts` bound the replies and host IDs; each actor can
run again and again within them. Two grants are a session and its replacement, so
every rotation, its loss, and its meeting with a login's grant occur, and two logins may
both succeed. Two refreshers are enough to meet each other's
checkpoint, and their locked sections are exclusive (`OneHolder`, proved for any
number). The five replies of `MCOffers` are one for each path of verification and
`permitted`. Three parts give a beginning, a middle and an end; three tasks in two
processes give both kinds of neighbours and a successor. In the relay, requests
touch each other only through the permits and `serve`; two requests with one permit
already contend, and 16 and 2 in the code are those numbers (for any numbers and any set
of requests: `RelayLifecycleProofs`). With one images request the run cannot exceed the
images permits; that they bound what runs upstream is the theorem `BoundedUpstream`.
In `RelayTask` a stream has up to two events of 6 and 3 forms, a rest, both separators and
what is not quite one; 3 chunks put a border inside every event and separator and still
leave one chunk with two events. `EventLimit` 5 is met exactly, exceeded by an event
that is complete in its chunk, and exceeded by one that is not; `ResponseLimit` 4 is the
length of one good image and exceeded by another; `ErrorLimit` and `PieceSize` 2 cut both.
`Capacity` 1 fills the channel at once (4 frames in the code).
In `LoginCommand` the intervals 0, 1, 4 are none, one that divides the deadline and one
that is clipped by it, the lifetimes are expired, shorter and longer than the login's
own 6 units, and decisions fall before, at and after the last poll. Three tabs and two
places show a connection that has to wait, and a third callback in the drain.
In `TokenRefresh` two processes contend for the flock, two requests of one for the
mutex and the cache; three grants are a login, a refresh and another login or refresh
in any order, and every actor goes round again as long as there are grants.
`CHECK_DEADLOCK FALSE` stands where everything ends by design: all appends are over,
the process has exited.

**Fairness.** `ChatgptCredentials!FairSpec`: a lock holder's next step happens, since
requests have 30 s timeouts and file operations return; no fairness for getting the
flock, for users, crashes or failures. `AuditLog!FairSpec`: a running append goes on,
and a waiter for the mutex or the flock is granted it in the end (both queue), hence
strong fairness there. `RelayLifecycle!FairSpec`: tasks that can finish do, one whose
client left is woken (by the oneshot, or by the next chunk or the 600 s idle timeout),
appends return, and `serve`'s own timers fire. `CallbackFairness`: `select!` starts at a
random branch and the interval keeps ticking, so stdin, the buffered line, the channel
and the end of the drain are each looked at in the end; nothing is assumed of browsers,
users and timers that may end the wait earlier. `TokenRefresh!FairSpec`: tokio's mutex
and the flock serve waiters in turn (strong fairness), a Codex refresh ends within its
30 s, a store ends. Copilot's refresh has no request timeout in a relay, so no liveness
is claimed for it. `token_liveness` has one serving process, so there only the login
contends with it for the flock. A task that is to notice its client's departure
(`GoneIsReleased`, `StopExits`) has to be at an `await`: the blocking `flock` in
`storage.rs:187` is not one, and holds a task up while another process has the file. Nothing is assumed of upstream, of
connected clients, or of when a stop comes.

### What the properties say

- `NoSpentToken`: with the flock free, a token the server has consumed is in the file
  only if the reply was lost or its store broke off. This is why the checkpoint comes
  before the key fetch.
- `OneValidSession`: whatever is stored loads again, and `session` and `pending` are
  never both set, so that logout's single revocation covers what is there.
- `SessionIsSubjects`, `AnswersAreStored`: no session of another identity gets in use,
  and the relay only gets sessions that are current in the file and permitted.
- `RegistrationKept`: outside interrupted stores, host, client and subject never change
  once stored. `HostIdStable` drops the exception, and fails (below).
- `LoginReplacesWhatItSaw`: a commit overwrites exactly the session of its registration.
- `SpentOnlyIfLost`: the same as `NoSpentToken` where a refresh has no checkpoint and is
  dropped with its request: what is lost is only what was dropped, refused or unstored.
- `OnlyStaleIsRefreshed`, `RetryDiffers`: of all requests, in all processes, that find
  one token stale or rejected, one refreshes it; no retry repeats the rejected token.
- `FileIsOwners`: the file follows the user's last login or logout, of whatever account,
  although refreshes that began before are still in flight.
- `EndpointIsTokens`: while requests with old and new tokens replace the cache in turn,
  each goes to the endpoint discovered with the token it sends.
- `CredentialsAnswer`: a wait for credentials ends, however the holders end.
- `Contiguous`, `LinesAreClean`: no interleaving; a broken record damages the line of its
  successor at most.
- `AppendsAtomically`: for a reader each record appears at once, whole, behind all that
  are there and for good; it is a line of its own unless it is the first one behind a
  torn end, and only records that were given up tear the end.
- `OneRecord`, `RecordedStatus`, `OutcomeIsReal`: one record per request whatever is
  cancelled when; its status is the one delivered; its outcome did happen.
- `UpstreamBounded`, `PermitCoversRecord`: the permits bound what runs upstream even
  when clients disconnect and retry, and are free only after the record is appended.
- `ObservedIsBody`, `GivesUpForCause`: however a stream is cut, the observer finds the
  events of the whole body, at the times of the chunks that completed them, or stops at a
  named cause.
- `CompletedIsWhole`: an outcome of the model's is recorded only for a response that ended
  by itself, whole and readable. `RelayedUnchanged`: observing never alters or delays away
  what the client gets.
- `OnlyCheckedImages`: nothing of an image response leaves before all of it was checked,
  and `completed` means delivered to the channel in full. `ImageOutcomeFits`: at each await
  of the images task the staged outcome is the right one for whatever ends it there.
- `TaskOfLifecycle`: what the open box does to the reply, the outcome and the recorded
  status is among the choices the properties of the life cycle were checked for.
- `PollsSpaced`, `ApprovalNotMissed`: polls keep the server's distance, also after
  `slow_down`; a login that timed out had no approval it could have seen. (Codex does not
  poll at its deadline, so it may miss one in its last interval; Copilot does.)
- `FirstCallbackWins`, `AcceptedIsUsed`: the browser that was told to return to c2a is the
  one whose callback is used, and it, or a pasted URL that fits, ends the wait.
- `GoneIsReleased`, `StopExits`, `LockReleased`, `AppendsEnd`: nothing is held for ever.

### Where code and README disagree

1. `chatgpt_host_id`: a store stopped between truncating and writing leaves an empty
   file. `read_json` takes that for no file, and the next login silently makes a new
   host ID and drops the registration, which the README says login protects. Only a
   nonempty remnant is refused.
2. `audit_lines`: a record cut short leaves no newline, so the next record, appended
   without error, is not a line of its own, though the README promises each request one.
3. `relay_drain`: a stop whose connections drain is not forced, yet `serve` does not
   wait for relay tasks or spawned appends, and their records can be lost when `main`
   drops the runtime. The README excepts only forced termination and crashes. (The
   forced path does wait, through the permits: `PermitCoversRecord`.)

## Proofs

Assumptions: the named `ASSUME`s of the modules, which say that the sets of actors
are disjoint, that bounds are naturals and that the special values differ.

`ChatgptCredentialsProofs`, from the inductive invariant `Inv`:

- `TypeOK`;
- `Exclusion`: an actor at a place between taking and releasing the flock is its holder;
- `ActorSound`, `StoreSound`: what an actor has loaded, and what it is about to
  store, is valid and holds at most one session, and at each place the fields the next
  step relies on are set (a session at `"request"`, a checkpoint at `"verify"`);
- `FileSound`: so is the file.

`OneValidSession` alone is not inductive: a step that stores takes its contents from
`saved` or `out`, so these must be sound too, and exclusion is needed so that what the
holder loaded is still what it goes on with. There is a lemma per action. It gives
`TypeCorrect`, `OneHolder` (mutual exclusion) and `FileStaysValid`.

`AuditLogProofs`: at most one task of all processes is at a place where it writes
(`OneWriter`), because the flock names its process and the mutex names it in that
process; what the writer has written is together at the end of the log (`Run`), and the
last part in the log is the writer's, or ends a line, or belongs to a record that is cut.
This gives `RecordsContiguous` and `DamageIsLocal`. `Refines` is the refinement:
`NewRecord` shows, from `Run` and `OneWriter`, that the last part of a record puts all its
parts together in the file, on a line of their own exactly if the end was not torn
(`TornWhileWriting`), `LastPartLogs` that this is the abstract append behind exactly the
records that are there, `FailureGivesUp` and `CrashGivesUp` that a record cut short is
dropped and nothing else tears the end (`MayTear`, `SameEnd`), and the other steps leave
the mapped state alone (`SameFile`, `PartIsInvisible`, `LockingIsInvisible`).

`RelayLifecycleProofs`: `Inv` is `TypeOK` (proved only; no run repeats it), `Counted` (the permits taken are finite in
number and within their bounds) and, for each request, `Sound`: `Owned` says who has its
`RequestAudit` and how many appends that has led to, `Told` that the reply on its way, the
one given and the one recorded are the same, `Caused` that an outcome has its cause, and
`Holds` that a task which has not recorded holds its permits. `OneRecord` is not inductive
by itself: that `DropHandlers` and `TaskFinish` never both append is the ownership in
`Owned`. A step of one request leaves the others `Still`, and `StillSound` carries their
part, so each action's lemma is about its own request.

`TokenRefreshProofs`, for both providers: besides `TypeOK`, whose last conjuncts say
who holds which lock, `Inv` has `RequestSound` (what a request read under the flock is
still the file until it truncates it, was stale when read, and is the owner's; what it is
about to store is the owner's too), `ActorSound` and `FileSound` (access and refresh token
of any credentials are issued and of one account). `FileIsOwners` alone is not inductive:
a write takes its contents from `out`, which the account check, or GitHub, ties to
`saved`, which the flock ties to the file. `Grown` says what every step leaves alone in
the grants; `RequestKept`, `ActorKept` and `FileKept` carry it to whoever does not move,
so each action's lemma is about its own actor; `DropInv` covers all ways a request ends.
Assumed beyond the named `ASSUME`: nothing; that GitHub renews a token for the same user
is a conjunct of `Refresh`.

`ChatgptGrantsProofs` goes on from that `Inv` with two more invariants. `DurableInv`: what
was stored last is what is in the file, but for a store in progress or one that broke off;
a login about to store has `saved` what was stored last, and whatever is about to be stored
continues its registration. This gives the action properties `RegistrationKept` and
`LoginReplacesWhatItSaw`. `GrantInv`: the grants a file names are issued; one of them is
used up, and not lost, only while somebody is about to replace it (`Replacing`); nothing
that is about to be stored is used up, or another subject's; and nobody else knows the
grant of a login before its commit (`Private`). `NoSpentToken` and `SessionIsSubjects` need
all of it: a login writes without having held the flock while it was granted its session,
so only privacy says that no refresh can have used that up meanwhile.

The second half of `TokenRefreshProofs` does the same for `TokenRefresh`. `AccessInv`: an access token that is
about to be stored was never seen, in the file or by a request, so no rejected token
returns to the file, and a request that waits for the flock after the rejected token was
replaced does not meet it again (`RetryDiffers`, `EndpointIsTokens`). `RenewalInv`, like
`GrantInv`, says the file's refresh token is used up only on the way to its replacement
(`SpentOnlyIfLost`).

`RelayTaskProofs`: `TaskInv` is `StreamInv` for an event stream and `ImageInv` for an
image response. `StreamInv` says that the channel has been handed all that was read, but
for the chunk at hand (`Delivers`, with `Before` the end of the chunk before it); that the
observer stays within its limit is `FeedTyped`. `ImageInv` has `Progress` (what has been
read and staged at each await), `Checked` (an image reply stands for a body that was read
in full, within the limit, and has images) and `Fits` (what the staged outcome says of
upstream's head and of the body). `TaskImplementsLifecycle` is the refinement: there is
one lemma per group of steps (`ImageStepMaps`, `StreamStepMaps`, `DepartureMaps`,
`ShutdownMaps`) which shows that each maps to a step of the life cycle's task or to none.
An attempt at it found that the mapping's `TaskAt` had been a `CASE` with two guards that
overlap, whose value the language leaves open; TLC takes the first. It is an
`IF ... ELSE` now.

That the operators on sequences do what their names say takes induction: `FlattenSeq` and
the observer's loop are recursive functions. The library's induction theorems cannot be
used, since they take an operator. `LeastNatural` (every nonempty set of naturals has a
least element, from `WellFoundedInduction`), `SetInduction` (induction with a *set* of
naturals in the place of a predicate) and `Recursion` (a function defined by recursion
over `0..n` from a step *function* exists, and what it satisfies) replace them; from them
follow `Flattens`, `FlattenAppend`, `FlattenCons` (what was relayed, chunk by chunk) and
`Rounds` (the rounds of the observer's loop).

That the observer finds what the body holds (`StreamsObserved`) compares two definitions
that share nothing but `Observed` and `Readable`: a loop over a buffer, and a reading of
the whole body. `SseObserverProofs` brings them together in five steps.

1. `CutsExist` to `CutPrefix`: `LastCut` only moves forward, each time to where it is, and
   what is cut of a prefix is what is cut of the body.
2. `FoundNone`, `FoundFirst`, `NextEvent`: behind a cut the loop finds a separator exactly
   if `LastCut` moves once more; the *first* one it finds, of the two forms and counted by
   their beginnings, is the one that *ends* first, and the bytes it drains are the event
   that ends there. This is where `LF # CR` is needed: the two forms cannot overlap.
3. `SummaryAdds`: observing one event more is reading a body with one event more, for each
   of the eight fields, by first and last occurrence. `SummaryKeeps`, `ArrivalAppends`: one
   chunk more changes nothing for what had arrived.
4. `TakeOne`, `TakeAll`: the loop's invariant. After every round either everything up to
   some cut is observed and the rest is kept (`Observes`), or an event could not be read and
   those before it are observed (`Rejects`); it ends at the last cut, since every round moves
   it and there are as many rounds as bytes.
5. `FeedFollows`, `CauseStays`: so a chunk leaves the observer `Faithful`, or it gives up for
   a cause, which no later chunk overtakes.

`ObservedInv` (of `RelayTaskProofs`) adds to `TaskInv` what the tasks know of their
observer: `Faithful` and, while the task reads, `Keeps`, or `Caused`; and of a record with
an outcome of the model's, that upstream ended behind a separator. `ObservedIsBody`,
`GivesUpForCause` and `CompletedIsWhole` are not inductive alone: they say nothing of the
buffer of an observer between chunks, nor which cause was the first when it gave up.

`LoginCommandProofs`: for the device logins, `InTime` bounds the clock at each place by
the requests still to come, `NotMissed` says that an approval not yet seen is later than
the last poll could see, `Waiting` that the interval is what was asked for. `Bounded` says
that a login is over three requests after its deadline; it is only proved, since no run
asks more. For ChatGPT's, `CallbackInv` relates the channel, the result and the history of
callbacks at each place of the wait (`Raced`), and counts the browsers that were told to
return; `LoginInv` puts the two together.

Besides these invariants the proofs assume `ImagesTyped`, `BodyTyped`, `BodiesTyped`,
`ObserverTyped`, `TimesTyped` and `CallbacksTyped`: bodies are finite sequences, limits
and capacities are naturals, the models' special values differ from each other, and what
`callback()` returns is not the value for "nothing". `ObserverTyped` also says that LF is
not CR and that no time or position is the value for "nothing".

Only model-checked: liveness (fairness is beyond the prover). Every safety property of a
passing run that holds is proved. `HostIdStable`, `EachRecordIsALine` and
`DrainKeepsRecords` do not hold (see above).

## Not modelled, and the plan

Next: an abstract `SerializedRefresh` that `ChatgptCredentials` implements, a single
current session that changes by rotation, login and logout, stated, checked and proved.

Left out for good: request validation and JWT claims, header and JSON syntax, printing,
path and permission checks, which are sequential and without state that outlives a call
(their verdicts are choices in the models); terminal modes, and single keys, which
`CallbackInput` turns into lines; the bytes of JSON texts, which are symbols. Also left out
are the quota and status commands, whose only shared state is covered: they append one
audit record and call `credentials`.
