# Verification of Vili

Vili is a chat server in Go (REST and websocket over PostgreSQL) with a terminal
client. This directory holds its TLA+ modules, the TLC configurations that check
them on small instances, and TLAPS proofs of the properties that matter most.

## The system

| component | state | operations | talks to |
|---|---|---|---|
| hub and connections (`internal/ws`) | rooms -> clients, connections per user, closed; per client a bounded queue, done, a context, the socket | upgrade, join, leave, broadcast, presence, close; read and write pump | posts broadcast into it; main closes it |
| refresh tokens (`internal/user`, `refresh_tokens`) | one row per token: family, consumed_at, expiry | login, refresh, logout, each several statements without a transaction | the CLI's renewal |
| registration, profile, access tokens (`internal/user`, `internal/auth`) | users; signed tokens hold their own state | register, me, the auth middleware | every protected route |
| rooms (`internal/room`) | rooms, room_members | create (two statements), join, leave, list | messages and sockets check membership |
| messages (`internal/message`) | messages | post (store, then broadcast), page of history before a cursor | the hub |
| CLI session (`internal/cli` client, session) | token pair in memory, `session.json` | login, logout, renewal before expiry and on 401 | refresh tokens; other CLI processes through the file |
| CLI chat (`internal/cli` chat, chat_ws, ws) | cursor | history, live view, polling view | history, hub |
| rate limiter (`internal/ratelimit`) | key -> bucket, last use | Allow, RetryAfter, sweep, eviction | the request pipeline |
| pipeline, metrics (`internal/httputil`, `internal/metrics`) | in-flight gauge, counters | Recover, Observe, limits, CORS, headers | every request |
| server (`cmd/server`, `internal/server`) | listener, signal | start, drain, deferred closes | hub, pool |
| migrations (`internal/store`) | schema_migrations | apply one file per transaction | the database |

Concurrency is everywhere in the server: a goroutine per request, two per
connection, `main` at shutdown. The hub is guarded by one lock, but every send to a
client, and every close of one, happens outside it. The database handlers use
single statements, so two requests interleave between any two of them, and any
statement may fail after or before taking effect.

### What makes each component correct

- **Hub**: counts match the registry, the cap holds, a closed hub stays empty, an
  ended connection gave back its place, its context and its socket (but for one that
  panicked while it announced itself), a queue that is full drops the client and never
  an event, every dropped client ends.
- **Refresh tokens**: a token is exchanged once and a session has at most one usable
  token, whatever interleaves or fails; a revoked session has none but what was
  inserted while a revoking DELETE ran, or descends from it.
- **Rooms and messages**: a creator told of success owns the room; what a reader is
  shown is stored; a poll, a live view and a walk back miss or repeat only what the
  properties spell out (messages of the second in which a page ended, stored late,
  pushed out of a page, or broadcast before the view joined).
- **CLI session**: a renewal of a session that nothing happened to never presents a
  token already exchanged; the file holds a token that works unless a save was lost.
- **Rate limiter**: a key is admitted no faster than its rate but for what buckets
  thrown away, or used after they left the map, bring it; nobody pays for another; the
  map passes its size only by what `RetryAfter` puts back.
- **Pipeline**: the gauge is the requests in handlers and those that panicked, and every
  request is counted once, unless its handler panicked.
- **Server**: no handler runs on an incomplete schema, a clean shutdown cuts nobody
  off, no socket outlives the hub, a signal ends the process.
- **Migrations**: each applied once, in order, by one of the instances, and those that
  lose the race serve after a restart.

## Modules

| module | what it is |
|---|---|
| `Admission` | what the hub promises of its connections: an abstract specification |
| `WsHub` | the hub, its connections and the posters that broadcast into it |
| `MCWsHub` | its instance: Alice with two connections in two rooms, Bob with one, taking turns |
| `WsHubProofs` | the inductive invariant of the registry, the theorems and the refinement |
| `WsHubStreamProofs` | the inductive invariant of what connections get and give back, and the theorems |
| `TokenFamily` | what rotation promises: an abstract specification |
| `RefreshTokens` | login, refresh and logout, statement by statement |
| `MCRefreshTokens` | its instance: two sessions, four requests |
| `RefreshTokensProofs` | its inductive invariant, the theorems and the refinement |
| `CliSession` | the CLI's token pair, session file and renewal, over `TokenFamily` as the server |
| `MCCliSession` | its instance: two processes, three goroutines, two sessions |
| `CliSessionProofs` | its inductive invariant and the theorems |
| `RoomChat` | a room's membership and messages, and the CLI's chat view and history |
| `MCRoomChat` | its instance: Ann creates and posts; Bob chats and pages back |
| `RoomChatProofs` | its inductive invariant and the theorems |
| `RateLimiter` | the map of token buckets and the requests that use it |
| `MCRateLimiter` | its instance: three requests of Ann, one of Bob, a map of one bucket |
| `RateLimiterProofs` | its inductive invariant and the theorems |
| `Migrate` | the migrations, statement by statement, as every instance runs them |
| `Server` | the process around them: start, requests, drain, deferred calls, restart |
| `MCServer` | its instance: a rolling deploy from one migration to two |
| `ServerProofs` | the inductive invariant of both and the theorems |

Operators commented "Wrong variant" are not part of a specification: each is a
plausible bug in the operator that follows it, and replacing that operator by it
must make a property fail.

### `WsHub`

A thread is a goroutine: the handler of each connection (named by its `Client`), a
poster, and `Main`. `pc` says where it is in its own code; a thread inside
`Broadcast`, `sendNow` or `close` has a frame in `call`: the event, the clients still
to serve, the client being closed and the place it returns to. A client's write pump
has its own state in `pump`.

`Client.close` tests `done` and closes it in two steps that no lock joins. Closing a
closed channel panics in Go, so a second thread between the two steps panics
(`ClosePanic`), and what the panic unwinds is in the model: `Recover` ends the
request, the deferred `Leave` runs if it was registered (it is not while the
connection announces itself, client.go:73), a panic in `Main` ends the process.

| code | actions |
|---|---|
| `serveWS` (ws/handler.go) | `Upgrade` |
| `Client.run` | `Join`, `SendPresence`, `Announce`, `Serve`, `ReadError`, `Leave`, `Farewell`, `Finish` |
| `readPump` | `Typing`, `ReadError` |
| `writePump`, `write` | `PumpWrite`, `PumpFail`, `PumpStop` |
| `Hub.Broadcast`, `sendNow` | `SendNow` (`Enqueue`, `DropSlow`), entered by `Broadcast` |
| `Client.close` | `CloseSelect`, then `CloseDone` (`CloseOk`, `ClosePanic`) |
| `message.create`, after the insert | `Post` |
| `Hub.Close` | `HubClose`, then `CloseEach` per client |

What connection `c` got is `Got(c)`: the events queued for it and, of those written to
its peer, the last of each sender (`last`), all that its properties need of the past.

Abstracted: the payload of a message is its poster and number; an event counts as
queued until its write returns, so `SendBuffer` is the channel's capacity and the one
in flight; the throttle of typing frames is only their bound.

What a step takes together: the end of `Client.close` (the cancel and the close of the
socket) goes with the arm of the select before it, or with `close(done)`. `done` is
read by nothing but the selects of other closes, which stay steps apart from it; the
cancel and the closed socket only unblock the two pumps, which react in steps of their
own, at any later time. A full queue is found and the select reached in one step: in
between lies a log line, and a write or a close of another thread at that instant is
modelled before it or after it only. A typing frame is read and the room's clients
copied in one step: the goroutine changes nothing shared in between.

`Admission` is the promise: a connection is out, in or gone, is let in once, under the
cap and before the hub is shut, and shutting it empties it. `WsHub` implements it
(`ImplementsAdmission`) with `place` read off the registry and, for a connection not
in it, off its phase: before its `Join` it is out, after it gone. A connection whose
deferred `Leave` was lost to a panic stays in.

### `RefreshTokens`

A request is a goroutine; `pc` is its next statement. `row` is the table, `granted`
the tokens that a 2xx answer carried to a client, and only those are ever presented.
A failed statement may or may not have taken effect (a cancelled request, a lost
connection), and the three places where the handlers drop an error (a lost consume
race, and logout's lookup and family revocation) go on as the code does.

`DELETE ... WHERE family_id` is two steps, as PostgreSQL runs it under READ COMMITTED:
`BeginRevoke` takes its snapshot, `Revoke` removes the rows of the snapshot, also those
updated since, and none inserted since. So a rotation whose insert falls in between
survives the revocation: handler.go:178-179 promises that nothing does, and
`NoSurvivor`, that sentence, is violated. What does hold is `SurvivorsRaced`: such an insert, or
what is rotated out of it (`escaped` has them all), is the only survivor; an insert
after the DELETE, by a request long past its lookup, is not one, since its consume
finds the presented token gone.

`TokenFamily` is the promise: per session a set `usable` of at most one token, that
`Login` fills, `Rotate` replaces and `Revoke` empties for good. `RefreshTokens`
implements it with `usable` the granted live tokens.

### `CliSession`

A process runs one command and has a `Client`; its threads are the goroutines that
make requests with it. The shipped commands make requests from one goroutine at a
time, but `renewMu` promises more and the model takes it at its word. A token stands
for the pair of an access and a refresh token, which the client stores and replaces
together; when the access token looks old, or the server rejects it, is
nondeterministic. Reading the expiry and reading the token it is asked to replace are
two steps outside the mutex (`Begin` or `Send`, then `Stale`), as in the code; that a
string may be torn by such a read is not modelled.

| code | actions |
|---|---|
| `Run`, `LoadSession` | `Start`, `StartLogout` |
| `cmdLogin`, `Client.Login` | `Login`, `SaveLogin` |
| `cmdLogout`, `Client.Logout`, `ClearSession` | `Logout`, `Clear` |
| return or death of a process | `End` |
| `do`, `doOnce`, `ensureFreshToken` | `Begin`, `Send`, `Stale`, `Resend` |
| `renewIfStale` | `Lock`, `Renew` (`Renewed`, `AnswerLost`, `Refused`) |
| `applySession`, `Session.Save` | `Apply`, `Save` |

The server is `Server == INSTANCE TokenFamily`, the specification that
`RefreshTokens` is proved to implement. It revokes a family when a spent token is
presented (`Refused`). Four history variables say what happened: the last login saved,
the families logged out, the families that something happened to (an answer or a save
lost, or two running processes sharing them), and those revoked though they worked.

### `RoomChat`

One room, since every statement names its room. `role` is room_members, `stored` the
messages table; a message is named by the request that posts it, and has the
`created_at` that the handler took before the insert. Statements of one request are
separate steps, and a write may fail with or without effect.

| code | actions |
|---|---|
| `room.create`, `join`, `leave` | `CreateRoom`, `AddOwner`, `JoinRoom`, `LeaveRoom` |
| `message.create` | `CheckPost`, `Stamp`, `Insert`, `Broadcast`, `Answer` |
| `Hub.Broadcast`, `sendNow` | `Broadcast` copies the list; `Send` to each connection, queued or dropped |
| `cmdChat` | `Open`, `OpenPage`, `Dial`, `JoinHub`, `FallBack`, `Close` |
| `runRealtimeChat`, `readEvents` | `ShowLive` |
| `runPollingChat`, `handleChatLine`, `pollAfter` | `Poll`, `PollPage` |
| `cmdHistory --before`, `Client.History`, `list` | `Ask`, `PageBack` |

`Pages` is the SELECT: any of the pages that ORDER BY created_at DESC LIMIT may return
when messages share a created_at. A broadcast copies the connections of the room, then
queues to each or drops it, while views join, print and leave and other posts go on;
the post is answered when it has sent to all, or by a 500 when a close on its way
panics. The queue is a set: its bound, its order and the closing are `WsHub`'s,
here a send may find it full at any time, and a dropped view (`cut`) prints what was on
the wire and no more. A line that a view sends is a post of its user. The CLI cuts its
cursor to a second; the same walk with `Second` one tick is that of a client of the
REST interface.

History variables: `opened`, the page a view opened with; `twice`, what it printed
twice; `late`, messages stored when it had printed one no older, with a created_at taken
before; `had`, what was broadcast before its socket joined; `begun` and `edges`, what was stored as a
walk began and the seconds in which its pages ended; `ownerLeft`.

### `RateLimiter`

A step is one critical section: of the limiter's mutex, or of one bucket's. Between
them a request holds a bucket (`held`) that may have left the map. `tokens` is the
level of a bucket as of now, in ticks of the clock, `Period` of them to a token; what
golang.org/x/time/rate does (advance, reserve, cancel) is taken from its
documentation and marked external in the map.

| code | actions |
|---|---|
| `Allow` | `AllowLookup` (`Find`, `InsertAllow`), then `Take` (`Admit`, `Refuse`) |
| `evictOldestLocked` | `MakeRoom` |
| `RetryAfter` | `RetryLookup` (`Find`, `InsertRetry`), `Reserve`, `Cancel` |
| `sweeper`, `evictIdle` | `Sweep` |
| `maybeLimit` | the order of all these: RetryAfter follows a refusal |

`MakeRoom` throws out any batch, as Go's map iteration has no order. The sweep uses
the ticker's time, which may be older than the moment it gets the mutex. A request may
sit on its bucket between the unlock and its use for as long as it likes
(ratelimit.go:78): the bucket may be thrown away meanwhile, or swept, while its key
goes on with a fresh one. `WindowRate` counts all such requests, and what they may
bring: one bucket's worth, a burst and the rate, for each bucket used too late, however
many requests hold it. Nothing in the code makes the ttl longer than a burst takes to
refill, and neither does an assumption: `TooLate` holds of every use that comes so late
that the bucket might be swept before it is full.
Two readings of the clock within a tick are taken to differ. Not modelled: how an
address or a user becomes a key (a request without one is not limited), `Stop`.

Three things a reader of the code should know. `RetryAfter` does not always leave the
bucket as it was ("advisory only", ratelimit.go:126): `Cancel` gives back nothing once
the reservation is due, and less under a later one, so refusals that overlap delay
the key, though never before it had a burst (`OwnBurstFirst`). `RetryAfter` inserts
without the size check of `Allow`, so the map may pass its size by the requests in
that place (`BucketsBounded`). And httputil/ratelimit.go:94-96 says that it rounds the
wait up while it rounds to the nearest second.

### `Migrate` and `Server`

`Server` extends `Migrate`: `pc[i]` is the statement at which the main goroutine of
instance `i` stands, from `open` to `exit`; `down` is a process that ended of itself and
is started again, `stopped` one that the platform stopped. The database is
`table`, `schema` and `recorded`; an open transaction is `made` and `rows`. Instances
may embed different numbers of migrations, as the two binaries of a rolling deploy do.

| code | actions |
|---|---|
| `main`, `run`, `store.Open`, `NewTokenService` | `Open`, `OpenFails`, `SetupFails`, `CloseHub`, `CloseDb`, `Exit` |
| the platform (fly.toml) | `Start`, `Wake`, `Crash` |
| `Migrate` | `EnsureTable`, `CreateTable`, `ReadApplied`, `Migrated` |
| `applyOne` | `Begin`, `Create`, `Record`, `Commit`; `Return` on any error |
| `server.Run` | `Listen`, `ServeFails`, `Signal`, `Drained`, `DrainTimeout` |
| `Observe`, `IncInFlight`, `Registry.Observe` | `Arrive`, `Answer`, `Release`, `Count` |
| `Recover` | `Panic` |
| `serveWS`, `Hub.Join`, `Client.run` | `Upgrade`, `Join`, `Leave` |

Faults, `MaxFaults` of them, are a failed statement, a commit whose answer is lost
(`CommitUntold`), a listener that fails, a signal, and a crash anywhere; a database
that rolls back a dead instance's transaction does so at once. Of Postgres it is
assumed that DDL is part of the transaction and that `CREATE TABLE IF NOT EXISTS`
waits for an open transaction that creates the same table and fails if that one
commits, which is why a race of two first starts makes one instance fail. A migration
file is its first CREATE; what follows it in the file meets nothing else.

A handler answers, upgrades, panics or hangs for ever; what it does is in the other
modules. Requests may arrive while the server drains, on connections accepted before.
`HubClosed` is what `WsHub` shows of the hub: closed, it refuses every join.
A panic skips the release and the count, as observe.go:71 does not defer what
metrics.go:53 asks to be deferred, and `GaugeAccounts` says by exactly how much.
Not modelled: the ping of `/ready`, the histogram, its labels and the rendering of
`/metrics`, the pool's limits, requests served in the moment after `Serve` failed.

## Runs

| run | instance | shows |
|---|---|---|
| `hub_registry` | 2 connections of one user in 2 rooms, and 1 typing frame or 1 post, and shutdown; or 1 connection each of 2 users in one room; cap 1, queue of 2 | the registry's invariants, what an ended connection released, two served connections know of each other, and the refinement |
| `hub_delivery` | 1 connection, a poster with 3 posts, queue of 3, shutdown; fairness | no gap in a stream; delivered or dropped; dropped and shut down connections end |
| `hub_close_twice` | 1 connection, 1 poster | violated: `close` is not idempotent under concurrency |
| `refresh_rotation` | 4 tokens of 2 sessions, 4 requests, any statement failing | the rotation's invariants, what a revocation can leave, and the refinement |
| `refresh_snapshot` | the same | violated: a rotation inside a revoking DELETE survives it |
| `cli_session` | 2 processes, one with 2 goroutines, 4 tokens of 2 sessions | no false alarm, and a file that works |
| `cli_last_login` | the same | violated: an older process saves its session over a later login's |
| `room_chat` | 2 users, 3 posts, a chat view or a walk back, pages of 2, 3 ticks of 2 a second | what a view prints, repeats and misses, what a walk sees and skips, who owns the room |
| `room_poll` | the same | violated: a poll does not catch up with all that arrived |
| `room_create` | the same | violated: a room is created and its creation answered 500 |
| `rate_limiter` | 3 requests of one key, 1 of another, one bucket, burst 1, 2 ticks a token, ttl 3, 4 ticks | the limit in every window, nobody pays for another, the size of the map |
| `server` | 2 instances (1 and 2 migrations), 1 plain request, 1 websocket, 2 faults; fairness | order and completeness of migrations, drain, sockets, gauge; all serve that are not stopped, a signal ends |

Why the bounds are enough: a connection queues its own presence.state and
presence.join before its write pump starts, so a queue of two serves it and overflows
on the next event, and a queue of three leaves room for one message, which the next
skips or drops: a gap needs the third. A poster and the connection itself, or two
connections, are the two closers; the cap of one is reached by the second connection
of a user, and two users who learn of each other need one each. The constraint
`BobOrBoth` explores the two cases one at a time, and of what connections and posters
may say on top of joining and leaving, one thing: Bob's presence beside Alice's second
connection, two speakers, or a shutdown while the two meet, repeat what the cases
show apart, and are covered by the proofs. A rotation race needs two requests on one token, reuse a third on the next
token, and a login, or the logout that a rotation escapes, a fourth. A double renewal needs two
goroutines and three tokens; sharing, and a save over another login's, two processes
and two sessions. A poll that finds more than its page needs a page of two and three
messages, and a message stored behind a cursor two ticks; a walk that skips, two
messages in one second, and one that goes on, a third in the next. The view and the
walk only read, and read nothing of each other's, so `OneReader` lets one or the other
be open; what either does depends on who is a member and not on how the creation of
the room went, so `RoomSettled` has them start in a room whose creation succeeded. An eviction
between an unlock and a use needs two keys on a map of one bucket; reservations that
stand on each other, three requests of one key with a burst of one; a bucket that
expires and is used again, a clock past its ttl, and one used too late without having
left the map a ttl not much longer than a refill. A race of migrations needs two
instances, one that goes on past the other's work a second migration, and a recovery
that itself fails a second fault. Deadlock is not checked: all
posts may be made, all connections ended, all requests answered, the clock at its
bound, all faults used up and every instance serving.

**Fairness** (`hub_delivery`): weak fairness of each connection's own code, of each
call in progress, of each write pump and of the closing loop. The Go scheduler runs
every goroutine that can run, locks are held for bounded work, and socket writes and
closes carry timeouts. No fairness on what users do: connecting, typing, posting,
disconnecting, shutting down. The liveness properties end in "or the process crashed",
as a panic in `Main` ends it.

**Fairness** (`server`): weak fairness of each instance's main goroutine, and of the
restart of one that ended of itself: its statements end, `Shutdown` has a timeout, and
"the process exits and fly restarts it" (fly.toml:19-20). None on a process that the
platform stopped, by a signal or by killing it: machines stop when idle and none need
run (fly.toml:27-29), so `Wake` may come or not, and `AllServe` promises that an instance
serves for good or is stopped. A process that ends after a signal counts as stopped also
when its drain timed out and it exits with an error. None on requests, which may hang, nor on faults,
which are finite: while they go on, nothing can be promised.

## What is proved

For every value of the constants under the modules' named assumptions.

`WsHubProofs`: `Invariant` proves `IInv == TypeOK /\ HubInv`; `TypeCorrect`,
`CountsCorrect`, `CapCorrect` and `ShutdownCorrect` follow, and `Implements`. `CountsMatchRegistry` is
not inductive alone: `Leave` decrements without looking whether the client is
registered, so it is right only if a connection is registered from its join to its
leave, wherever it is in a call and whatever has panicked, unless the hub is closed
and empty. `JoinToLeave` says so over the phase of a thread, the place in its own code
with the calls taken away; a call never changes the phase, and each panic leads to a
place the phase allows. Every step lemma also says what its step is to `Admission`
(`Maps`): a join that is admitted is `Admit`, a leave, a refusal and a failed upgrade
are `Go`, `Hub.Close` is `Shut`, and nothing else is seen.

`WsHubStreamProofs`: `StreamInvariant` proves `StreamInv` beside `IInv`;
`NoSilentGapCorrect`, `PresenceCompleteCorrect`, `EventsStayInRoomCorrect` and
`EndsReleasedCorrect` follow. None of the four is inductive: each speaks of what was
delivered, and a delivery is made by a thread that chose its clients long before.

- `FrameInv` says what such a thread carries: clients of its own room, and the event it
  is sending, of which a poster's is the message it posted last.
- `GapInv` adds to `NoSilentGap` how far a stream has come. A registered connection has
  got all that the poster posted since it joined, up to the last message, or up to the
  one before while it is still `Due` the last; so the message appended next follows
  without a gap, and a client that is dropped instead is due it until its socket is
  closed. A write takes away only the sender's last event, which is its least.
- `LearnInv` says why the presence of each other is known: a connection that has not
  read the list will see who is registered, one that has it in its frame is about to
  send it, and one that joins later has yet to announce itself or is due to announce
  itself to the other. `GotInv` says that presence.state comes once, so nothing
  overwrites it.
- `SettledInv` says what a connection has given back in each phase, as `close` leaves
  `done` open until its second step, and `UpgradedInv` that a thread is never due to
  deliver to a connection outside the hub. Closing a client whose `done` is closed
  changes nothing (`SelectStream`), which is why any thread may do it at any time.

A step of one thread leaves the frames and phases of the others (`Sole`), so each
conjunct has one lemma that says what else it needs (`FrameByOne`, `GapByOne`, ...),
and each action proves that. What a panic does to these is in the properties
themselves: a broadcast that it cuts short, or a connection that it unwinds, is
promised nothing more. `StreamInv` was model-checked, too, on the
instances of `hub_registry` and `hub_delivery`.

`RefreshTokensProofs`: `Invariant` proves `TypeOK /\ FamilyInv`; `TypeCorrect`,
`OneUsableCorrect`, `SingleUseCorrect` and `SurvivorsRacedCorrect` follow. The
strengthening is `Minting`: the token a request is about to give out is of the
family, known to no one, distinct from every other request's, and alive as long as
the presented one, as no DELETE takes the one without the other. For the survivors
`Unseen` says that what a running DELETE does not see has escaped it, and `Descent`
that a rotation of an escaped token mints an escaped one. `Implements` proves
the refinement: a login, a consume that succeeds and a delete are `Login`, `Rotate`
and `Revoke`; every other step changes nothing a client could tell.

`CliSessionProofs`: `Invariant` proves `TypeOK /\ SessionInv`; `NoFalseAlarmCorrect`
and `FileWorksCorrect` follow. A token is presented long after it was read, so the
invariant says who can hold one: a session that nothing happened to is in use by at
most one process (`Alone`), whose pair works or is about to be replaced by one that
does (`HolderWorks`, `GotWorks`), and is in the file or saved next (`FileKept`). A
refusal of such a session is then of one that no token worked for any more, which is
why a goroutine that renews again, as client.go:84 lets it, trips nothing.

`RoomChatProofs`: `Invariant` proves `TypeOK /\ ChatInv`, from which each property of
`room_chat` follows. A polling view is right because its cursor is
the newest message printed, so the messages it will not look at again are those the
cursor has passed; a page leaves out only messages older than all of it, so moving the
cursor passes them too (`PollPageKeeps`). A live view is complete because of `Sent`: a
message being broadcast is, for each view that was live as the broadcast began, still
to be sent, on its way or printed, and once only. A walk is right because a cut cursor is no
newer than the message it came from, and all that lies between is of the same second
(`CutSame`, by the division theorem over any number of ticks).

`RateLimiterProofs`: `Invariant` proves `IInv`, from which all four properties of
`rate_limiter` follow. `WindowRate` counts the past of a key and is not inductive;
`Rates` adds what its bucket holds now and what a pending `Cancel` may still give back
to what it had since any moment, and bounds the sum. `Debts` is why a cancel gives
back no more: reservations on one bucket stand a period apart, and the bucket owes at
least the time until each. A bucket swept away brings its key nothing, because it was
idle for longer than it takes to fill. A bucket used too late is bounded on its own
(`BucketRate`), as no bucket, in the map or out of it, gives more than a burst and the
rate; one used in time and swept since was full again by then. The proof assumes
nothing of the ttl, the "several burst-refill windows" of ratelimit.go:20: a short one only
makes more uses late.

`ServerProofs`: `Invariant` proves `IInv`, from which the seven invariants of `server`
follow. What an instance still has to do covers what is missing of its own migrations
(so a loop that ends leaves a complete schema), what it is applying is the least of
it, what its transaction holds is nobody else's, and an instance that lost a
migration lost one that was committed.

Only model-checked: the liveness properties (`DroppedEnds`, `ShutdownEndsAll`,
`DeliveredOrDropped`, `AllServe`, `SignalEnds`), as liveness under fairness is out of
the prover's reach. Every other property of a passing run is a theorem.

## Plan

In this order; a module is written to be proved about as well.

1. `WsHub`, done.
2. `RefreshTokens` over `TokenFamily`, done.
3. `CliSession` over `TokenFamily`, done.
4. `RoomChat`, for rooms, messages, history and the chat view, done.
5. `RateLimiter`, done.
6. `Migrate` and `Server`, done; they take the place of separate modules for the
   pipeline and the lifecycle.
7. The safety of every module proved, done.

## Not modelled

Access tokens, passwords and the middleware (stateless checks), registration (one
INSERT), CORS, headers, responses and pprof, configuration and wiring (before anything
runs), rendering.

Known behaviours that no run checks: `logout` ignores a failed lookup or revocation
and answers 200 (`RefreshTokens` lets it happen); a user who leaves a room keeps the
sockets opened before, which go on receiving its messages (`RoomChat` likewise); a
message whose author left after the membership check is stored; presence.leave is
broadcast for a user who has another connection; a live view never prints what was
broadcast between its opening page and its join; a client that retries a refresh whose
answer was lost loses its session to the reuse detection; a panic in the broadcast of
presence.join leaves the connection registered and its cap slot taken; metrics.go:53
asks for the release of the gauge to be deferred, and observe.go:71 does not defer it.

Where the repository says something else than the code does, a run shows it:
`hub_close_twice` (client.go:160-161), `refresh_snapshot` (user/handler.go:178-179),
`cli_last_login` (session.go:13-15), `room_poll` (chat.go:152-153) and `room_create`
(room/handler.go:77-78).
