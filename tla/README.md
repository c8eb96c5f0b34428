# mailcow-dockerapi: specification, model checking and proofs

The service answers mailcow's questions about containers (statistics, process
lists, inspection), runs a fixed set of commands in them, and takes the same
commands over a Redis channel. It is a Go port of a Python service. This
directory holds TLA+ modules translated from the Go source, the TLC
configurations that check them on small instances, and theorems checked by
TLAPS.

## 1. Inventory

| Part | Source | State it keeps | Operations |
|---|---|---|---|
| Statistics collector | `internal/stats/collector.go`, `internal/api/stats_handlers.go`, `internal/store/store.go` | `inflight` (key to refresh cell), the cells, the cached values and ring buffers in Redis with their expiry | `HostStats`, `ContainerStats`; one goroutine per collection |
| Peer resolver | `internal/peers/peers.go`, `errorlog.go` | `entries` (address to peer, with age), the mutex of the server's error log | `Lookup`, `Write` |
| Start and shutdown | `cmd/dockerapi/main.go`, `internal/obs/obs.go` | stage of `run`, readiness, listener, observability server, clients | `run`, `connect`, `waitFor`, `build`, `waitForObs`, `Server.Run` |
| PubSub subscriber | `internal/pubsub/pubsub.go` | the subscription | `Run`, `Handle` |
| HTTP container routes | `internal/api/api.go`, `handlers.go` | none of its own | get, list, post |
| Actions | `internal/actions/*.go` | none; they change containers, mail queues, mailboxes, the rspamd password, ACLs, MySQL tables | 30 registered actions |
| Docker client | `internal/dockerclient/moby.go`, `demux.go` | none; a stream per exec | list, inspect, start, stop, restart, top, stats, exec, interactive exec |
| Certificate store | `internal/tlsgen/tlsgen.go` | two files | `Ensure` |
| Configuration | `internal/config` | none; read once from the environment | `Load`, `validate` |
| Logging, metrics, host figures | `internal/logging`, `internal/metrics`, `internal/stats/host.go` | nothing that decides anything | |

How they interact. Every HTTP request runs in a goroutine of its own and calls
the collector or an action. The subscriber handles one message after the other
in its receiving loop, with the same actions. Actions call Docker. The collector
calls Docker (or reads the host's figures) and Redis, from goroutines that
outlive the requests that started them. The HTTP server's error log calls the
peer resolver, which calls Docker and DNS. `run` starts the listener, the
subscriber and the observability server, and on a signal shuts the first and the
last down with deadlines of their own.

What is hard about each part, and what makes it correct:

- **Statistics collector.** Concurrent requests join or start a collection under
  a lock, wait on a channel with a deadline, and read the collection's error
  without the lock. A collection measures twice, a pause apart, and closes the
  channel after the first. Its read and write of the ring buffer in Redis are two
  calls. Docker may hang, Redis may fail or apply a write whose answer is lost,
  keys expire. Correct: one collection per key; no waiter stranded; no sample
  lost or reordered; each request answered; the cause of a failure not hidden.
- **Peer resolver.** A check of the cache and a later store without a lock in
  between; misses cached like hits; addresses reassigned while a listing is under
  way; one deadline over two calls; all of it under the mutex of a logger.
  Correct: a line names a recent holder; Docker is asked once in a TTL; every
  line is written.
- **Start and shutdown.** A signal at any stage; a listener that fails when the
  signal arrives; two shutdowns side by side; requests and scrapes that never
  end. Correct: nothing is served before Redis has answered; after a signal the
  requests get their time before the clients are closed, unless a listener fails; the
  process ends in time; failures reach the exit status.
- **Dispatch and actions.** A listing that is stale when it is used; the failure
  of one call among several; two callers changing one thing; a job cut by the
  shutdown. Correct: an action touches only containers its target selects;
  success is answered only when all was done; messages take effect in order.
- **Actions of several calls.** Between the calls others change the same file,
  list, directory or table, and what an action has begun goes on in the container
  when the action has gone. Correct: a change that was answered with success is
  loaded as long as nobody touches it; an answer is what was in force; garbage mixes
  only under one name in one second; an upgrade is not left half made without an error.
- **Interactive exec, demultiplexer.** Output collected until nothing arrives for
  a while, and frames cut anywhere. Correct: what has arrived is kept, and nothing
  else is taken for output.
- **Configuration and certificate store.** A crash between the two files, or in
  one; disks that cannot be written; files and variables that operators change.
  Correct: the certificate that is served belongs to the key; a stored pair stays;
  errors lead the operator to a service.

## 2. Modules

| Module | What it is |
|---|---|
| `StatsBuffer` | the ring buffer: `Extend`, `Newest`, `Ascending` |
| `StatsPromise` | abstract: what the collector promises a caller; no goroutines, lock or channels |
| `StatsCollector` | the collector, the statistics handlers and Redis as the collector uses it |
| `MCStatsCollector` | its instances for TLC |
| `StatsCollectorProofs` | its theorems |
| `PeerResolver`, `MCPeerResolver`, `PeerResolverProofs` | the resolver and the error log |
| `Lifecycle`, `MCLifecycle`, `LifecycleProofs` | `run` and the observability server |
| `DispatchPromise` | abstract: what the service promises whoever asks it to do something with containers; no listings, plans, contexts or channel |
| `Dispatch`, `MCDispatch`, `DispatchProofs` | the container routes, the subscriber and the actions of one kind of call |
| `AttachStream`, `AttachStreamProofs` | the framing of an exec's output and the demultiplexer, as functions; what a stream that was cut yields |
| `WorkerPassword`, `MCWorkerPassword`, `WorkerPasswordProofs` | the rspamd password over the interactive exec; EXTENDS `AttachStream` |
| `Config` | `Load` and `validate` as operators on an environment |
| `Startup`, `MCStartup`, `StartupProofs` | starts of the service: configuration, then certificate; EXTENDS `Config` |
| `Doveadm`, `Maildir`, `Upgrade` | the actions on access lists, mailboxes' directories and database tables |
| `Actions`, `MCActions` | the three of them side by side, and for TLC in one run; they share no state |
| `ActionsProofs` | their theorems |

Operators named `...Unchecked`, `...Never`, `...Twice` and so on, marked
"Variant" in their comment, are mistaken forms of the operator below them. No
specification uses them; each is there to show that some property is violated
when the code is changed so.

### StatsCollector

A request is a record in `request` (the locals of `cachedOrRefresh`), a
collection is a cell in `refresh` (the `refresh` struct with the locals of its
goroutine). The heap of cells is finite: a cell is free again once its goroutine
has ended and no request points to it. Since at most one collection per key is
alive and each request holds at most one cell, |Key| + |Request| - 1 cells are
always enough when the last request needs one; TLC would report a request that finds
none as a stuck waiter in the liveness run.

| Code | Action |
|---|---|
| `HostStats`, `ContainerStats` called | `Arrive` |
| first `Get` | `GetHit`, `GetMiss` (an error counts as a miss, 119-121) |
| `startRefresh` under the lock | `JoinRefresh`, `StartRefresh` |
| the `select` | `DoneClosed`, `Cancelled`, `TimedOut`; all that are possible |
| second `Get` | `RegetFails`, `RegetHit`, `RegetMiss` |
| goroutine: `collect` | `Sampled`, `SampleFails`, `Load`, `Store`, `StoreFails` |
| goroutine: the rest | `CloseDone`, `SecondMeasurement`, `BudgetSpent`, `Forget` |
| time, expiry, restart | `Tick`, `Restart`, `HangUp` |

A sample is the number under which it was taken. Its contents, JSON, and the
retries inside one call of the Redis client are left out. A restart loses cells
and requests and keeps Redis. `kept` is a history variable: what was last
written under a key, expired or not.

### PeerResolver

Times are relative: the age of an entry, of the last listing that asked for an
address or named it (`asked`), and how long ago each container held an address
(`since`). Ages stop at the value beyond which nothing looks at them, which
makes the state space finite without a bound on the run. `log.Logger` holds its
mutex around `Write`, so one lookup runs at a time; `holder` is that mutex. The
resolver's own mutex guards single steps and needs no variable. A container's
name from Docker, a name from DNS and a bare address differ in what is logged;
the last two are one (`Unlisted` or `Nobody`) here, except that the model keeps
apart "Docker says nobody has it" and "Docker was not heard".

### Lifecycle

`pc` is the stage of `run`; `listener`, `obs` and `serving` are the goroutines.
Ticks are five seconds: shutdownTimeout 15 s, obsShutdownTimeout 10 s and
shutdownGrace 5 s are 3, 2 and 1. A step that waits for nobody takes no time
(`Prompt`); waiting for Redis, for requests and for scrapes takes any time.
The subscriber is not in it: `run` neither waits for it nor stops it other than
through the context.

### Dispatch

A job is what an HTTP request or a message makes the service do: list the
containers of a target, then call Docker for all of them (start, stop, restart,
the query of all) or for the first (everything else). `job` holds the jobs, one
per request slot and one for the subscriber, which handles messages in its
receiving loop. `Registry` gives the shape of each kind; command lines and the
wording of answers are left out, as are actions of several kinds of calls.

| Code | Action |
|---|---|
| `handleContainerPost`, `handleGetContainer`, `handleListContainers` | `Accept` |
| `Run`, `Handle` | `Take`, `Drop`, `Leave` |
| `Docker.List`, `firstContainer` | `List`, `ListFails` |
| `op(ctx, c.ID)`, `Docker.Exec` | `Give`, `Attach`; `Perform` or `Refuse` is the answer |
| the return of the action | `Finish` (success); everywhere else an error |
| the end of the context | `HangUp`, `Shutdown`; `GiveUp` |

Docker is environment: an order is carried out some time after it was given, also
when its giver is gone. What a client has left behind is not kept, since others
start and stop containers at any time (`Elsewhere`); what a message has left
behind is, because its place in the order of messages matters. A plain exec
takes the context until it is attached and then reads its output to the end.
Messages are numbers and may be lost.

`DispatchPromise` keeps of a job only what it is about (`About`): kind, target, message,
which containers could have been dealt with ever since (`stayed`) and which have been
(`hit`). To it, a listing, a cut context, an attached command and the channel are
stutters. It allows a job one order at a time, of its own kind and target; success only
when all is done and nothing is owed; an order of a message that failed stays, in its
place among the messages, and one of a request is given up, since it is like anything
done elsewhere. `PromiseKept` says besides that a `Finish` is the promise's `Succeed`,
which a step that is allowed as `Fail` would not have to be: `SuccessMeansAll`, the
same in terms of `Dispatch` alone, follows.

### AttachStream and WorkerPassword

A stream is a sequence of numbers, a header two of them: kind and length.
`Frames` is the loop of `demux` and `demuxCombined`, written as a recursive function over
the position; `Encode` is what the daemon sends.

| Code | Action |
|---|---|
| `ExecInteractive` up to the write of the command | `Exec` inside `Begin` and `Write`; a failure is `BeginFails`, `WriteFails` |
| `conn.Read` | `Receive`, any amount that has arrived |
| the end of `readUntilIdle`, `demux` | `ReadEnds`, at any moment |
| `applyRspamdHash`: the lines with a hash | `Generated` |
| `strings.Contains(verify, hash)` | `Verified` |
| `Docker.Restart` | `Restart`, `RestartFails` (the restart may have happened) |
| `return matched` | `Finish` |
| the container | `Rspamadm`, `Open`, `Echo`, `Cat`, `RestartedElsewhere` |

A shell goes on when its reader has left, so `shells` and `pc` are apart. The
shell opens the file, which empties it, before `echo` writes it, over what is
there by then. `applied` is a history of the changes whose restart was answered.

### Config and Startup

Texts are named members of the classes the code tells apart: blank, a number, a
negative one, a URL where an address belongs, a host in the brackets of a URL, and so
on; `Checks` is `validate` in its order, with what each error names: variables, or the
Redis endpoint as it was joined (`Endpoint`). `Startup` is a life of the service: an
operator edits variables while it is down, clears those an error names, or that an endpoint it quotes comes from (`Repair`), puts
files in place or removes them at any time; the service reads one file, then the
other (`tls.LoadX509KeyPair`), generates, writes the key, then the certificate, and
may die in each of these steps, leaving a torn file. `kept` is a history
variable: the pair that was stored and where.

### Doveadm, Maildir, Upgrade

| Code | Action |
|---|---|
| `DoveadmSetACL`, `DoveadmDeleteACL` | `Set`, `Delete`, `Refuse` |
| `DoveadmGetACL`: the listing | `Get`, `List`, `ListFails` |
| the loop over the listing: `aclEntries`, `appendOwnACLs`, `appendSharedACLs` | `Query`, `QueryFails` |
| `JSON(formatted)` | `Answer` |
| `MaildirCleanup`, `MaildirMove`: the script is begun | `Cleanup`, `MoveTo`, `RefuseScript`, `AnswerLost` |
| `[[ -d ]]`, `/bin/mv` | `Test`, `Move`, `MoveFails`; a step each |
| `MySQLUpgrade` | `Start`, `OutputRead`, `Fail`, `Restart`; the command itself is `RunUpgrade` |

Lists give rights to identifiers, of which the code reads what follows the first `=`
(`Cut`): `user=x`, `group=x` and `-user=x` are told as `x`, lines of `anyone` and `owner` are
skipped (`Lines`). An entry is in force for an identifier (`Entry`) and told of a name
(`Told`, `Tell`). What dovecot lists of others' folders is its own choice (`Listings`), and
so is the order of a list's lines: of somebody else's folder the code takes the first line
with the user's name (`Gathered`). Lists are changed by others between a listing and its
queries (`ChangedElsewhere`). Directories keep their identity wherever they are moved, and
a `mv` whose target is a directory moves into it; mailboxes may share an index
(`IndexName`), and the name an index gets in the garbage may be that of a mailbox
(`Suffixed`). The container of the database is replaced by one of a
newer image, with tables of the old one. Histories: what has been in force in
a call (`was`, `always`), which directories a script was to move and which were
moved, who has upgraded last.

## 3. Runs

| Run | Instance | States | Shows |
|---|---|---|---|
| `stats_container` | one container, two requests, two cells, buffers of 2, three samples | 1.5 M | types, one collection per key, no lost update, ordered buffers, no stranded waiter, a settled error, no swallowed cause; the collector implements `StatsPromise` |
| `stats_live` | the host, one request, two cells | 43 k | every request is answered although Docker may hang; every collection ends if its calls do |
| `stats_timeout` | the host, real spans in ticks of 5 s | violation | see findings |
| `peers` | two addresses, one container, two connections | 631 k | recent attribution, one listing per TTL, no lookup beyond its deadline; every line is written although nothing answers |
| `peers_held_up` | two connections | violation | see findings |
| `lifecycle` | two requests | 1.1 k | all of start and shutdown, and that a signal ends the process |
| `lifecycle_obs` | two requests | violation | see findings |
| `dispatch` | one client, two containers, one target, stop and a command, two messages | 614 k | types, `DispatchPromise` implemented, with success only when all was done; messages in their order; the end of the subscriber |
| `dispatch_context` | the same | violation | see findings |
| `worker_password` | two changes, hashes of three bytes | 183 k | success only for a change that was read back and restarted on; it stays loaded until the file is opened; the file has its hash; what has arrived of a stream is kept |
| `startup` | one to three texts per variable, three moves of the operator or the world | 19 k | the pair matches, a stored pair is served again, errors are exact, repairs lead to a service |
| `actions` | two calls; two users with two folders each, four identifiers; three mailboxes, three directories, two seconds; two replacements | 2.7 M | answers were in force, are the user's, and pass over the known cases only; success vacates; garbage mixes only under one name in one second; upgrades are loaded |

### Bounds, and why they are enough

- *Two requests, one key* (`stats_container`): every race of the collector is
  between two requests of a key, a request and the key's collection, or a
  collection and its successor. Keys share only the lock, which is one step, and
  `taken`. The theorems have any number of keys of both kinds.
- *Ticks*: what counts is the order of the spans. Container: interval 1 = timeout
  1 < TTL 2 = budget 2, where the code has 5 s < 30 s < 60 s < 65 s; the
  equalities only allow more interleavings, since a timer says when a goroutine
  may continue and not when it must. `stats_timeout` has the real ratios, so that
  its counterexample is a real one.
- *`SampleCap`*: how many samples Docker takes in a behaviour. Three fill a buffer
  of two and push one out. It bounds the state space, nothing else.
- *Peers*: DefaultTTL : DefaultTimeout is 30 s : 2 s, here 2 : 1; ages are capped,
  not bounded. `Patience` limits only how far a history variable counts, and is 0
  where no property reads it.
- *Lifecycle*: nothing is bounded but the request slots.
- *Dispatch*: two containers tell "all" from "first" and leave a job stopped between
  the two; two messages are an order. One client is enough, as others see of
  it only what happens to the containers, which `Elsewhere` does as well. stop
  stands for the kinds that take every container, the command (`exec`, whose exit
  code counts) for those that take the first.
- *Password*: two requests race for one file; a third adds nothing that a shell
  left behind by one of the two, or `RestartedElsewhere`, does not do. Hashes have
  to differ and to be long enough to be cut. A change of one request may be
  followed by late shells of the other, and both are cut at every byte.
- *Startup*: each variable has a good text and the bad ones the repository's tests
  use, and `REDIS_SLAVEOF_IP` one in brackets. `MaxMoves` bounds edits, files put in place and crashes together; three are
  a stored pair, a touched half of it and a crash. When they are used up and the service
  serves, nothing more happens: that run has no deadlock check.
- *Actions*: two users own folders of one name, which is what `seen` mixes up. The
  identifiers are both users, a group with the name of one of them, and anyone. Two rights
  are available, so that the group's differ from the user's, and one is not. `MaxOthers`
  bounds what others do to the lists: one change, and one of the other call, are a user's
  and a group's right on one folder, or two owners' folders of one name, or a change
  between listing and query. `MaxSecond` bounds the clock: two clean-ups in one second and one in the
  next. The mailboxes `a/b/x` and `abx` become one name in the garbage, the index of
  `a/b/x` gets the name that `a/b/x_index` has there, and the two have one index. Each call is made once, so
  behaviours end: that run has no deadlock check either.
- *Symmetry* is used in runs without liveness only.

The theorems below drop the bounds of nearly all of these.

### Fairness, and why the code justifies it

- Weak fairness of each goroutine's steps: the Go scheduler runs what can run.
- Weak fairness of the clocks.
- Redis calls come back, as the client has timeouts of its own (`store.go`).
- Docker's answers are never assumed. `SampleGivesUp` and `GiveUp` say that a call
  returns once its context is over, which is what a context is for;
  `EveryCollectionEnds` states this as its premise (`RefreshFairness`) and
  `EveryRequestAnswered` does without it.
- Strong fairness of taking the logger's mutex: a `sync.Mutex` hands itself to a
  goroutine that has waited for a millisecond.
- In `Dispatch` nothing is assumed of Docker: a call that has a context comes back
  when that is over, and a command may run for ever. Leaving the subscriber's loop
  is strongly fair, because a `select` with two cases ready picks at random.
- In `Lifecycle` nothing is assumed of Redis, of requests, of scrapes or of the
  signal.
- In `Startup` the service is started again and runs (`ServiceStep`), and the
  operator clears what an error leads to (`Repair`): the premise of `RepairConverges`.
  Nothing is assumed of the disk, so a service whose files can never be written is
  included.
- `WorkerPassword` and the modules of `Actions` are checked for safety only.

## 4. Findings

1. **ErrTimeout without a wait** (`stats_timeout`). `collector.go:31` says that
   ErrTimeout means no measurement arrived within the deadline. A request that
   misses while a collection is in its pause or its second measurement joins it,
   finds `done` closed, misses again and gets ErrTimeout at once. The host's value
   lives 10 s and the second measurement may take up to a minute.
2. **A line of the error log can wait for others** (`peers_held_up`).
   `timeout_test.go:105-107` wants the call net/http makes to be bounded by the
   timeout. It goes through `log.Logger`, whose mutex is held during the lookup:
   n connections that fail together wait up to n timeouts.
3. **A failure of the metrics server can be lost** (`lifecycle_obs`).
   `main_test.go:88-89` wants a failed listener to reach run's caller. It does
   after an orderly shutdown only.
4. **The subscriber outlives its context** (`dispatch_context`). `pubsub.go:64` says
   that Run receives until the context ends. Run handles a message in its loop,
   and `Exec` reads a command's output to the end from a connection that the
   context no longer governs (`moby.go:210`): a command that hangs keeps Run. The
   process exits all the same, as `run` does not wait for the subscriber.

Seen while reading, and in no run:

- The handlers label every success "hit" (`stats_handlers.go:26, 51`), while
  `metrics.go:121` describes the label as whether the cache had the value.
- `README.md:272-275` says that an address logged without `peer_container` belongs to
  no container, while a failed listing leads to the same line and is cached for a TTL.
- `moby.go:271-272` says that the interactive exec reads until nothing arrives for a
  while "or until twice that span has passed in total". The deadline is moved with
  every read (line 298), so a command that keeps printing is read as long as it does.
- `config.go:97`, `config.go:167` and `README.md:142` say that an empty
  DOCKERAPI_METRICS_LISTEN disables the endpoint. `env.str` takes a blank variable for one
  that is not set (`load.go:123`) and the default is used: it cannot be disabled.
- A `REDIS_SLAVEOF_IP` such as `[fd00::1]` is joined to `[[fd00::1]]:6379` (`load.go:76`)
  and refused, by an error that quotes this and names no variable (`config.go:128-130`).
  `RepairConverges` needs an operator who knows where the endpoint comes from.
- A silence in the middle of the hash makes rspamd's password the hash's beginning:
  the line ends where the reading did, and the file read back contains it.
- "Success" of a password change does not say that the change was ever loaded: between
  the read-back (`rspamd.go:98`) and the restart (102) another change, also one that is
  answered with danger later, may empty and write the file, and any restart, this one too,
  loads it in that state. `AppliedStaysLoaded` says what is left: it is loaded if nobody
  has opened the file since.
- A listener that fails ends the service under the requests it serves, also when the
  signal has arrived in the same moment: `run` returns at once (`main.go:137-139`) and its
  deferred cleanup closes the clients. `DrainedBeforeClosed` names this exception.
- A second `mysql_upgrade` is told that all is current while the server has not been
  restarted since the first one failed; `UpgradeIsLoaded` says only that somebody was told
  of an error.
- `DoveadmGetACL` ignores exit codes: a listing that fails is answered with an empty
  list; of two owners' folders of one name, one is left out. Rights of `anyone` and of
  `owner` are in force and never answered (`doveadm.go:171-174`); those of a group, and rights
  that `-user=x` takes away, are answered like a user's, and on another user's folder only
  the first line of that name is.
- Garbage is named after the second, and the index gets `_index` behind that name
  (`maildir.go:54`, 62), which `sanitizeName` leaves in a mailbox's name: the index of
  `a/b` and the mailbox `a/b_index`, cleaned in one second, come to lie one in the other.
  `AsideBySecond` says that this, and two mailboxes of one name, is all.

## 5. Proofs

For every value of the constants that satisfies the modules' assumptions:

**StatsCollectorProofs.** The inductive invariant is `Typed /\ Flight /\ Buffers`,
with a few more facts for the refinement. *Flight* says that `inflight` and the
cells that are alive name each other, that the flags of a cell agree with its
step (closed exactly after the first measurement, an error only from the first),
and that a request in its wait points to a cell of its key that is closed or
alive. *SingleFlight* alone is not inductive: that a cell is not reused while a
request waits for it is what keeps waiters and keys together. *Buffers* says that
the cache holds what was last written or nothing, that it is ordered, and that
the sample in a collection's hand is newer, which holds because only one
collection of the key is alive. From these: `TypeCorrect`, `OneCollectionPerKey`,
`WaitersAreReleased`, `ErrIsSettled`, `UpdatesAreNotLost`, `BuffersAreOrdered`,
`CauseIsNotSwallowed`; and `KeepsPromise`, the refinement of `StatsPromise`, step
by step.

**PeerResolverProofs.** `TypeCorrect` includes that no call outlasts its deadline.
`DockerIsSpared` rests on the mutex: the holder is the only one between the look
into the cache and the store, so an address that is not fresh was not asked about
for a TTL. `AttributionIsRecent` follows the age of what is known through the
listing, the entry and the line: an entry's age plus the time its listing took
bounds how long ago the holder held it.

**LifecycleProofs.** `ServesOnlyConnected`; `DrainsBeforeClosing` (of the ways to the
deferred cleanup only two leave requests behind, the failed listener and the end of a whole
ShutdownTimeout; *Stop* and *Time* keep what is known of each way until the cleanup runs);
and the two that speak of time: `ObsIsInTime` (the grace of the observability server, started at
the signal, is over before `waitForObs` gives up, since both clocks advance
together and ObsGrace < ObsTimeout) and `ExitIsInTime` (the process has ended
ShutdownTimeout after the signal; needs ObsGrace <= ShutdownTimeout).

**DispatchProofs.** `Typed` includes that a job has an order exactly while it waits,
and only one. `SuccessIsThorough` needs two parts: what has stayed since the job
began is in any listing made now (`Present`), so the plan covers it; and it is
dealt with or has a call left (`Planned`). `MessagesInOrder` is the more delicate
one: a job cut by the shutdown leaves an order behind, and the subscriber may
still take the next message. That one gives no order, because its context is over
from the start: an order nobody owns exists only after the shutdown (`Roles`),
so all orders for messages are for one message, and whatever waits is newer
(`Sequenced`). `KeepsPromise` is the refinement of `DispatchPromise`, one lemma for
each of its actions. It needs one invariant more (`Founded`): the calls that are left are
on containers of the target and no more than the kind asks for, a job that does not run is
about nothing, and messages are numbered up to `MaxMessages`. That a success is the promise's rests
on `Planned` again, that an order is done in the order of messages on `Sequenced`, and that
a job tells Docker one thing at a time on `Typed`.

**AttachStreamProofs.** `CutStreamIsKept`: of the first `n` bytes of what the daemon
sends, `Payloads(Frames(...), kinds)` is what has arrived of the payloads of those kinds,
in their order, whatever the frames and wherever the stream is cut. `Arrived` says so
frame by frame (`Clipped`), with no loop. The proof is an induction over the
position. The library's induction theorems cannot be used here (they take an operator);
the module proves one that speaks of a *set* of numbers (`SetInduction`, from the
well-foundedness of `<`), and characterises a recursive function first: a function
that obeys the equations exists (`FlattensExists`, `ReadsFromExists`), any two agree
(`FlattensUnique`), so the function `CHOOSE`n by its definition is it (`FlattenIsLast`,
`FramesIsFirst`). From there on, cutting one frame off a stream is a fact about
`SubSeq` and `\o` (`FrameOfCut`, `TakesOneMore`, `FramesOfCut`).

**WorkerPasswordProofs.** `SuccessStaysLoaded`. A change is opened and written by one
shell only, and that shell is gone once a restart has been answered for the change:
the restart has killed it (`ShellNotApplied`), and the loop does not take the same hash
again (`TodoNotApplied`, `WritingNotTodo`, `FreshApplied`). So nobody touches the file on
behalf of a change already applied, and whatever else touches it gives it another
name (`IInv`). Nothing is used there of the stream or of what a shell prints.
`WhatArrivedIsKept` does: a shell prints once, to a reader that was given nothing before, so
what has been read is a beginning of what was sent (`SInv`), and `CutStreamIsKept` says
what the demultiplexer makes of a beginning. `AppliedIsInTheFile`: what a request can
read back of its change was shown by its own `cat`, which ran after its own `echo`;
nobody repeats that `echo`, so as long as the file is in the name of the change its hash is
in it (`EInv`). It uses that a hash is a sequence of numbers, which `ConstantsAssumption` says.

**StartupProofs.** `TypeCorrect` includes that an error names variables, or the Redis
endpoint.
`ServedPairBelongs`: what is in memory when the service serves was read and compared,
or generated by this start. `StoredPairIsServed`: `Load` accepts no environment in
which both paths are the same (`AcceptedPaths`), so the second write leaves the first
one alone; a pair is complete when both have succeeded in one start, and from then on the
files hold it, each start on these paths reads it back and so comes to no write.
`FailuresAreNamed` (`ReportIsExact`): a failed start has named what is wrong with the
environment as it still is (`Named`, since whoever edits it leaves that state); it names
exactly the texts that do not parse, if there are any, and otherwise nothing that is left
blank, because no default fails a check of `validate` (`ProblemIsSet`, check by check). The
exception are the two paths, of which one may be the other's default. An error that quotes
the endpoint is the fifth check's alone, and only a host in brackets fails it (`EndpointAlone`).

**ActionsProofs.** `AnswersWereInForce` and `AnswersAreHis` need that entries are gathered
for names that have none yet (`seen` is the set of the entries' names).
`NothingIsConcealed`: what is in force on a listed folder since the listing is to be
asked about, or was answered, or is hidden by a name, the folder's or the identifier's,
or its query failed (`Kept`). `GatheredFacts` says what one query adds and leaves out: a list has
one line per identifier, so what is passed over on somebody else's folder has another.
`SuccessHasVacated`: a script that has passed a part has found nothing there or has
moved it, or somebody else has. `AsideLiesApart`: garbage is named after its second and
mailbox, an index with a suffix, so whatever lies inside a directory put aside has come
there under the same name in the same second; whose name it was is not said. `UpgradesAreLoaded`: a command that has changed tables belongs to a call that has
still to read its output or has gone with an error. These are theorems of the three
specifications; `FamiliesAreApart` says that `Actions` implements each of them, a step of
one family being a stutter of the others, so they hold of what TLC checks;
`TypeCorrect` is about all three.

**LifecycleProofs** also has `CleanExitIsBound`: a failed bind of the metrics endpoint
is collected before an exit status of 0.

Only model-checked: the liveness properties (`EveryRequestAnswered`,
`EveryCollectionEnds`, `EveryLineWritten`, `ExitsAfterSignal`,
`OnlyReadingOutlivesShutdown`, `RepairConverges`), which are out of the prover's reach.
Every safety invariant and action property that a passing run checks is a theorem.

## 6. What is left

`Upgrade` and the password change over `Dispatch`'s jobs, so that the subscriber's context
cuts them. It would join what is checked apart now: each of the two is modelled with its
failures, and a context that ends is one of them.

## 7. Not modelled, and why

- *Observability endpoints and metrics*: the server's start and stop, and readiness, are in
  `Lifecycle`; the counters are written and never read.
- *Logging*: formatting and output.
- *Host figures*: read from the kernel; a collection of them is one sample.
- *Docker fake, scripts, packaging*: not part of the service.
- *Inside the modelled parts*: command lines and the wording of answers, JSON, the
  fields of a certificate, the spelling rules of numbers, durations and addresses
  (classes of texts stand for them), the clean-up of the hash's line, retries inside one
  call of the Redis client, the growth of the resolver's cache; mailboxes that lie one
  inside the other, or are named like the garbage directory; own folders three levels deep
  with `Shared` in their names, which the code asks about as somebody else's.
