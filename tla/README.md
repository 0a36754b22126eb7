# TLA+ specifications of centrifugo-rust

Models of the parts of this server where steps of several actors meet - the hub and its fan-out, the history streams
of both engines, recovery, the session of a connection, the SockJS transport, the nodes of a cluster, the keys tokens
are verified with, the API's batches - checked with TLC on small instances, and theorems about the hub, the streams,
recovery, the session, SockJS, the cluster, the keys, the API and the origin check proved with TLAPS for every
instance.  Paths are relative to `src/`; `core` stands for `crates/centrifugo-core/src`, `server` for
`crates/centrifugo-server/src`.

To check a run: `tlc -config HubSafety.cfg MCHub.tla`.  To check the proofs: `tlapm HubProofs.tla`.
`PROJECT.json` has every run with its properties, a slip of the code each property catches, and for each
definition the source lines it stands for.

## 1. Inventory

| component | state | operations | meets | what is hard | what makes it correct |
|---|---|---|---|---|---|
| Hub (`core/hub.rs`) | `conns`, `users`, 16 shards of `subs`, one lock each | add, remove, subscribe, unsubscribe, user_clients, subscribers | readers, broadcasts, API | two tasks remove one connection; broadcasts use handles snapshotted before | nothing of a finished connection is left; the indexes agree; Close 3008 is sent once |
| Fan-out (`deliver_push` in `core/node.rs`) | the snapshot; a detached task per slow consumer | try_send, remove + Close | hub, queues | full queues, wedged sockets | a broadcast ends whatever sockets do; a dropped consumer is told |
| Memory engine, history (`core/memory.rs`) | per channel: epoch, offset, ring, two deadlines | publish, history, history_since, remove_history | publishers, subscribers | lazy expiry in any order | a position names one publication; the ring has no holes |
| Memory engine, presence | map channel -> client -> entry | add, remove, read, stats | session | entries have no lifetime: only a removal ends them | presence names who is subscribed |
| Redis engine (`crates/centrifugo-redis`) | list + meta hash, presence zset + hash, pub/sub tasks | Lua scripts, publish, (re)subscribe | other nodes | keys expire each on its own; messages are lost while a connection is down | the same promise as the memory engine |
| Recovery (`on_subscribe` in `core/client.rs`) | position of the client | join, read, reply | publishers, engine, pub/sub task | publications between join and read, two publishers, lost streams, failed reads, broken links, positions that outgrow 32 bits | "recovered" means nothing was missed |
| Session (`core/client.rs`, `server/ws.rs`) | user, expiries, subscriptions, deferred Joins | 12 commands, control signals, timers | hub, engine, proxies | batches, refresh against expiry, forced unsubscribe, on_disconnect | node tables follow the session; limits and deadlines hold |
| SockJS (`server/sockjs.rs`) | session map, two queues per session | xhr, xhr_send, run_session | session, fan-out | racing polls, late polls, hidden Close | sessions end; clients are told |
| Node registry and control bus (`core/node.rs`, Redis) | uid -> info, last seen; control channel | ping 3 s, clean 9 s, apply_control | all nodes | one task pings, waits for Redis and prunes; lost and late pings | live nodes are listed, dead ones go |
| Wire protocol (`crates/centrifugo-protocol`) | none | encode, decode, framing | transports | malformed frames | decode inverts encode |
| Tokens (`crates/centrifugo-auth`, `server/main.rs`) | static keys, a copy of the JWKS | verify, set_jwks, the refresh task | session, JWKS endpoint | an endpoint that is slow, wrong or silent; keys withdrawn while in use | the accepted keys follow the published ones |
| API (`server/api.rs`, `server/grpc.rs`) | none | decode, validate and execute a batch | node, caller | an error in the middle, a caller that hangs up | each command is done whole or not at all, in order |
| Origin check (`server/origin.rs`) | patterns | glob_match | HTTP | backtracking | it matches what the pattern means |
| Proxies, config, admin, metrics | configuration, counters | HTTP calls | node, session | - | an answer has its documented effect |

## 2. Modules

| module | models | step |
|---|---|---|
| `Hub` | `core/hub.rs`, `deliver_push`, the reader and writer of `server/ws.rs` as far as they touch the hub | what happens under one lock, or one queue operation |
| `MCHub` | instances of `Hub` | |
| `StreamSpec` | abstract: what a stream promises its readers, engine aside | |
| `StreamBase` | channel options and clock both engines share | |
| `MemoryStream` | the stream of one channel in `core/memory.rs` | an operation under the engine lock |
| `RedisStream` | the same stream in Redis: the two history scripts, DEL, the expiry of both keys | a Lua script |
| `Engines` | the history half of the trait `Engine`, over the engine the node chose | an operation |
| `Recovery`, `MCRecovery` | publish, on_subscribe and the fan-out over `Engines`; the pub/sub connection of Redis; the client library is external | append; route; join; read; reply |
| `Session`, `MCSession` | one connection: commands, batches, Joins, signals, timers, on_disconnect | a handler |
| `SockJs` | the session map, polls, sends and `run_session` | one lock, one queue operation |
| `Links` | the nodes' connections to Redis: manager, pub/sub task, Sentinel watchdog; masters that crash | an await of the task |
| `Members` | NODE pings, the registry, unsubscribe_user / disconnect_user between nodes | a message, a timer tick |
| `Presence` | the presence hash and expiry set of one channel, renewed by timers | a Lua script |
| `Cluster`, `MCCluster` | the last two over `Links` | |
| `Tokens` | the JWKS copy of `TokenVerifier` and the task that refreshes it; the endpoint is external | an await of the task |
| `Api` | a request of the server API | a command's decoding and validation; a call on the node |
| `Origin` | `glob_match` | an iteration of its loop |
| `Services`, `MCServices` | `Engines`, `Tokens`, `Api` and `Origin` side by side | |
| `HubProofs`, `StreamProofs`, `RedisProofs`, `RecoveryProofs`, `SessionProofs`, `SockJsProofs`, `ClusterProofs`, `ServicesProofs` | theorems | |

Correspondences worth knowing:

- **Hub.** `conns`, `users`, `subs` are the tables of the same names; a channel stands for a shard.  `rm[a]` is
  `Hub::remove` in progress: `Remove` takes the handle, `RemoveUser` the index entry, `RemoveShard` one shard at a
  time.  `fan[a]` is the snapshot a broadcast still has to serve; `closers` are the tasks spawned to send
  Close 3008.  The reader's phases are `new`, `admitted` (limit passed), `adding`, `live`, `leave` (inside an
  unsubscribe), `closing`, `removing`, `gone`.
- **MemoryStream.** `evict_if_expired` runs first in each operation and is part of it.  The random epoch of a new
  stream is a number never used before; the code's 4-letter epochs make that true with overwhelming probability
  only, which the model leaves out.
- **RedisStream.** The epoch is the second the hash is created in.  An expired key is an absent key, so `List` and
  `Meta` are what a command finds.  A list element is an offset; `epoch` and `id` of a `Publication` are for the
  properties and no code sees them, which is how the model tells what an earlier stream left in a list (`Stale`) from the
  current stream's.
- **Recovery.** `routing[p]` is a publication appended and not yet routed: the memory engine's `publish` drops the
  lock in between.  On Redis the script publishes too: `inbox` is what the node's pub/sub connection has not brought
  yet, `linked` whether it stands.  A position is `seq` and `gen`, numbers below `radix` each; `Meant` is what the client
  means by one, `pack_offset` what the server takes it for.  `log`, `overtook` and `lost` are history variables.
  `recovered` looks at offsets only, in the order `read_history` sorts them into.
  `Read` is a `history` or `history_since` that succeeded, `ReadFails` one that did not (`core/node.rs` answers with
  the default position then).
- **Tokens.** `fetch` is the place of the task: `asking`, `answered` (a body to install), `sleeping`.  A key stands for
  its `kid`; `Usable` are the ones `set_jwks` does not skip.  `since`, `failed` and `applied` only record, per key,
  what happened since the endpoint last changed its mind about it.
- **Api.** `readable` says whether a JSON body is text; `RejectBody` answers one that is not before anything of it
  runs.  `todo` is what is left of the body, `doing` what is left of the command in hand.  JSON, protobuf and gRPC
  validate in the same order (a gRPC call is a batch of one), so the model has one `validate`.
- **Services.** The four parts share no variable and no step of one enables another, so a behaviour shows one of them
  (`part`) and leaves the others as they were.
- **Session.** Private state of the reader, so a handler is one step.  What a frame holds, what a token or a proxy
  answers and which check fails first are inputs.  `seen[ch]` is the last membership event other subscribers got.
- **SockJs.** A session lives while the map, a poll or a send holds its `Arc` (`Held`); with it go the receiver and
  the incoming sender, and that is the only way its task learns that nobody polls any more.  The async mutex of
  the receiver is not a variable: everything done with it in hand is one step.
- **Links.** Servers are numbered in the order Sentinel promotes them.  `watch[n]` is the place of the task that
  reads the pub/sub connection: `listen`, then for a node of `connect_sentinel` `sleep`, `manager`, `subscribe` and
  back, for a node of `connect` `ended`.  `inbox[n]` is what Redis sent and the task has not read; a break of the link
  keeps any prefix of it.
- **Members, Presence.** `spawn_node_pings` is one task: `Ping` is its ping arm up to the await of `publish_control`,
  `PingPublished` what Redis does, `PingAnswered` the return; while `ping[n]` is not `None` neither `clean` nor the
  next `Ping` happens, and `pingIn`, `cleanIn` fall below 0, for how long depends on Redis alone.  A tick that came
  late does not move those after it (tokio's `Burst`).  `age[n][m]` is the time since n's registry saw m; ages and
  lifetimes are counted in units and saturate, so that time has no bound.  The two parts and the requests share
  nothing but the links, and `Cluster` looks at one of them at a time (`part`); each has its own clock.  What a
  promoted replica or a restarted server lost or brings back is `Rewound`.

## 3. Runs

| run | instance | what it shows |
|---|---|---|
| `HubSafety` | two connections of one user, one channel with join/leave, one publisher, queues of 1, limit 1 | no interleaving of reader removals and fan-out removals leaves a trace of a finished connection, sends Close 3008 twice, drops a consumer silently, or loses a subscription of a registered one |
| `HubLive` | one connection, two channels, two publishers, no limit | a broadcast ends without any writer moving; a dropped consumer is closed and every writer task ends where sockets move |
| `HubLimit` (violated) | as `HubSafety` | the connection limit is read in one step of on_connect and used in a later one: two connections arriving together both pass |
| `Services` | *streams*: history of 2, lifetime 2 s, meta TTL 3 s (memory) and 1 s (Redis), 8 s, 5 publications, either engine; *tokens*: a signing key and one for encryption, refresh of 2 units, answers within 1; *api*: all batches of two commands over four channels, broadcasts of two, bodies that are not text; *origin*: all patterns of up to 5 and origins of up to 4 characters over two letters | both engines implement `StreamSpec`, Redis also where a list meets the hash of a later epoch, and the memory engine's positions live as long as the meta; the keys follow the endpoint within a refresh and two answers, and in the end unless a request hangs; a request has done a prefix of what its proper commands ask for, all of it when it is answered; `glob_match` agrees with the declarative definition |
| `RecoverySafety` | either engine, two publishers, history of 2, lifetime 2 s, meta TTL 1 s (memory) and 2 s (Redis), queue of 2, 3 publications, 3 s, seq and gen of two values each | a reply that says recovered is complete and holds nothing of another stream; nothing published after any reply is lost but by the pub/sub connection; end to end no publication is skipped while publishers route in order and the stream lives, also beyond the radix; on Redis nothing else reorders |
| `RecoveryOrder` (violated) | the same with two publications, nothing expires | offsets reach a subscriber out of order and nothing checks it, against the design's position check |
| `SessionSafety` | batches of 2, two channels (private, server-side), limit 1, tokens of 1 s, timer 2 s | hub and presence follow the session between frames and are empty after it; limit and grace period hold; a reply precedes its own Join |
| `SessionControl` | one command per frame, refresh proxy, a server-side channel listed twice | the Join and Leave others see agree with the subscription; an accepted disconnect takes effect although frames keep coming |
| `SessionUser` (violated) | two users | a REFRESH with another user's token changes the session's user, the hub's index keeps the old one: disconnect_user looks in the wrong place |
| `SockJs` | two sessions of one id, two polls, one send, queues of 1 | a client with one poll at a time keeps the session it was told is open and hears nothing from a closed one; a session out of the map ends, also one replaced in a race |
| `SockJsClose` (violated) | queue of 2 | the poll that coalesces frames swallows a Close behind a frame |
| `Cluster` | two nodes, one with a watchdog; pings, pruning and greatest age of one unit each (3, 9, 7 s in the code); presence ping 1, expiry 3 units (25, 60 s); two troubles, one beside the registry's timers; one node at a time that lags; two requests | registries list the living, and drop the dead within the timers wherever no ping waits for its answer; a request is applied once at each node that could hear it and at its own even without Redis; presence survives one lost update and forgets what is gone; a watchdog ends up listening to the last master |

**Bounds.**  Two connections and one publisher are what the hub's races need: a removal involves one connection and at
most three actors (reader, another connection's broadcast, publisher), and a full queue is a queue of one.  The hub is
unbounded in nothing: its state space is finite as it is.  Streams (`Services`, part *streams*) are cut by a clock
(`MaxNow`) longer than a lifetime and the meta lifetime together and by a number of publications (`MaxPubs`) more than
twice the ring, so that each deadline passes with and without operations in between, some of them several times;
`MaxEpochs` only limits history_remove.  In Recovery three publications fill the ring of 2 and evict one, which is
what makes a recovery incomplete; a clock of 3 lets the window and the meta expire.  A radix of 2 puts the wrap of
`seq` at offset 2 and so among these three publications; the code's is 2^32, and the only thing the model asks of it
is that offsets fit into both numbers (`RecoveryAssumption`).  `RecoveryOrder` has a radix of 4, where nothing wraps.
Publishers are symmetric: nothing tells them apart but what they hold.  Of keys it takes one that may be used and one
that is skipped: keys do not influence each other, and each has its own record of what happened to it.  Two commands
and a broadcast of two are the least where an error can follow something that was done, inside a command and between
commands.  A pattern of 5 has two stars with text on either side, which is what backtracking to the last star must get
right.  Sessions have a clock that outlasts a token, its grace and a check.  Two SockJS sessions are one to replace
another; a queue of one makes every enqueue a possible wait, and the run that needs two items in the queue has two.
MaxMessages is one per send: sends follow one another, so the queue fills all the same.  In Cluster a trouble is a
crash of the master or a lost link; two of them let the master crash while a watchdog is on its way.  The registry's
intervals are one unit each, the least that `MembersAssumption` allows: a ping that fails or is late makes a node as
old as it may become, and every tick is a pruning.  Two presence pings fit into an expiry, as in the code.  In both of
the registry's parts one node (`MaxLagging`) may wait a unit longer than its timers allow (`MaxLate`).  In *pings*
that is a node whose ping is on its way to a master that crashed, the one trouble there is (`PingTroubles`); in *lags* there
is no trouble (`LagTroubles`) and it may also be one whose ping Redis took and did not answer, or with a message
unread (`MaxUnread`).  One unit is enough to leave a node that is dead in a registry for too long: without `cleanIn[n]
>= 0` `RegistryTruthful` is violated.  The theorem takes any values of these bounds, all of it together.  Deadlock
checking is off where clocks, connections or sessions are used up, or a request is answered.

**Fairness.**  `TasksRun` (Hub): tokio runs a runnable task, and a broadcast or a removal never waits.
`ReadersFinish`: a reader that has started to leave is carried to its end - its awaits there are engine calls.
Nothing is assumed of sockets except as the antecedent `SocketsMove` of the two properties that need it; it has
strong fairness for the waiting Close because tokio hands free slots to waiters in order.  Session: the reader
proceeds, and `select!` picks at random among ready branches, hence strong fairness of `Signal`.  SockJs: tasks run,
a poll is answered after `HEARTBEAT` at the latest, and a client gives up a send that is not answered (without that
assumption a send and a loop with two full queues wait for one another for ever).  Cluster: a master that crashed comes
back or is replaced, its crash closes the connections to it, tasks run, and a subscription tried again and again
succeeds some time (strong fairness); nothing is assumed of the manager, of the answer to a ping, or of a node without a
watchdog.  Tokens: time passes, the task runs, and an
endpoint that is asked again and again answers properly some time (strong fairness of `Respond`) unless it leaves a
request unanswered, which `PublishedIsAccepted` excludes itself.

## 4. Proofs

*Assumptions* are the constants' own: `HubAssumption` (capacity at least 1, every connection has a user),
`StreamAssumption` (history size and lifetime at least 1, which is what `history_enabled` tests), `TokensAssumption`
(the refresh interval is at least a unit), `RecoveryAssumption` (a queue of at least 1; every offset fits into `seq`
and `gen`, whose radix is at least 2), `ApiAssumption` (an unknown channel is none of the channels, those with an
option are), `OriginAssumption` (a letter of a pattern is neither of its two signs), and those of the cluster:
intervals of at least a unit, a ping within the greatest age, two presence intervals within an expiry.

`HubProofs`: `TypeCorrect`, then `Invariance` of `IInv`.  None of the properties is inductive.  `IInv` adds
`Unborn` (a connection before its AddConn is in nobody's snapshot, so a stale handle cannot precede it),
`OneRemoverFinds` (the handle decides: while it is in `conns` nobody removes the connection, and at most one remover
ever found it), `OwnRemoval` (shards the reader's own remove has visited stay clean, as it unsubscribed nothing new)
and `Routed` (the hub drops a subscription only after the reader has forgotten it).  The proof goes action by action
in four lemmas - registration, reader, fan-out, removal - and from `IInv` follow `NoGhost`, `UsersIndexAgrees`,
`SlowCloseOnce`, `DroppedIsTold` and `SubscribedIsRouted`, for any number of connections, users, channels,
publishers and any queue capacity.

`StreamProofs`: `StreamInvariance` (type and `RingContiguous`, with `EpochKnown`: no epoch is served before it was
generated), `Refinement` (every step of `MemoryStream` is a step of `StreamSpec` or a stutter, mapping an absent
entry to the stream its next visitor creates) and `PositionTheorem`.  The ring is handled by index: `KeptIsTail`
says what trimming keeps, `SlideByIndex` turns equal elements into the abstract `Slide`.

`RedisProofs`, for any lifetime and meta TTL: the two keys expire each on its own, and `redis_history_meta_ttl` may be
shorter than `history_lifetime`.  `RInv` is `EndsAt` (the list ends with the publications of the hash's epoch, up to
its top offset and without holes; what lies before the first of them is of earlier epochs) and `LiveMeta` (a hash is
older than its deadline, so that the next one has a later epoch: a second names one stream).  `RedisInvariance` proves
what a reader finds, `ListTellsStreams`; `RedisRefinement` maps the list without what is `Stale` to the abstract
window: ADD_HISTORY is the abstract publish, a HISTORY a stutter, the passing of a deadline forgets.  `OwnList` -
nothing is stale - is an invariant where the hash lives as long as the list, and only `FreshTheorem` uses it.

`RecoveryProofs` stands on the two modules before it: `RecoveryInvariance` proves `RecoveryInv`, for any number of
publishers, publications and reconnections, any history options, queue and radix.  Its parts are proved one after the
other, each from those before it:

- `EnginePart` (types, the invariants of both engines, and that the number of appends bounds the offsets) and what an
  operation makes of the stream the *next* one finds: an append gives `Grown` (the next offset, a ring of old entries
  and the new one), everything else `Rested` (the position stays, or a later stream begins at 0).  From there on the
  two engines are one, and lazy expiry is out of the way.
- `LogPart`, `RingPart`: every publication of the log lies at or below the top of its stream, numbers and offsets agree
  within one, and what the ring holds was published.
- `ShapePart`: who holds a publication between the append and the hub, and in which order.  `WayStep` reduces all
  of `Next` to three kinds of step: a publication sets out, the earliest one under way is handed to the hub, or neither.
- `ReplyPart`, `Answered`, `JoinedIsComplete`, `PushPart`: the reply lies within its stream, holds what was asked for,
  and whatever lies past it is pushed, under way or lost.  `PushPart` (nothing is pushed past a publication of the reply's
  stream that was not) is what `JoinedIsComplete` gives the moment the hub gets the earliest one (`OrderPart`).
- `QueuePart`, `ClientPart`, `GapPart`: what was pushed is in the queue in its order or was taken from it, the client's
  position lies within its stream, and `KnownUp`: a subscribed client has everything up to its reply, whatever its
  position is now - a push enqueued before the reply moves it back, so that `NoGap` alone is not inductive.

Nothing in it depends on which key of Redis expires first: where a list meets a later hash, the ring begins with
publications of earlier epochs, whose offsets may repeat those of the current stream, and `Answered` counts only the
current stream's (`EndsAt` says where they are).  What does depend on it is `RecoveredIsFresh`, which therefore has
the condition in its statement.  `NoGap` has its two in its statement as well: no publisher routed ahead of an earlier
publication, and all publications are of one stream.

`SessionProofs`: `Invariance` of the typing, `Wired` (hub and presence follow the session at every step, not only between
frames), `Bounded`, `Timely` (the reader is never later than its timer, the timer never more than a period past the grace
of anything that has lapsed) and `Ordered` (a deferred Join belongs to a channel the replies of its frame subscribe), from
which follow `Settled`, `LimitHolds`, `LapsedIsClosed` and `ReplyFirst`; `MembersAgree` for a batch of one command with
`Announced`.  `Deferred` is a recursive function of a sequence: `DeferredJoins` proves by induction what it keeps - as
induction over a set of numbers (`SetInduction`), because the library's theorems take the predicate as an operator.

`SockJsProofs`: `OpenIsReachable` and `ClosedStaysClosed` for any number of sessions, polls and sends and any queues.  The
typing needs `Shapes` (a poll that waits holds a session, a send with a session has messages left); the promise to
an orderly client needs that its only poll is the only one that touches the map (`Alone`) and that it was told what
the map says (`Informed`).  `HeadFrames` chooses a longest run; `FramesAtHead` shows by a least number that there is one.

`ClusterProofs`: `RegistryTruthful`, `ExactlyOnce` and `PresenceTruthful` for any number of nodes, connections,
requests and troubles and any intervals within the assumptions; each has an inductive invariant of its own.

- `PInv`: the score of a connection that missed `k` updates outlasts its timer by the expiry less `k + 1` intervals
  (`Renewed`); score and time away of one that left add up to no more than an expiry, which a rewound replica only
  lowers.
- `RInv`: a request that is not published yet is known to its own node alone (`Unsent`); a published one is on a link
  at most once (`Single`) and, its own node's aside, only on links to nodes that have not applied it (`InFlight`).
- `AInv`: if both ends have worked for longer than the sender's last ping is ago, it has arrived or is on its way
  (`Arrived`), and what came before is not yet old enough to prune (`Remembered`); a dead node is at least as old as
  it is dead, and its pruning no further than what is left of an interval, unless its tick is overdue (`Pruned`).  `Silent`
  says what a node that is not up cannot hold, and `Connected` that a link counted as working really is.  Time never
  waits for Redis there: an answer may take any number of intervals.

`ServicesProofs`: `KeysFollow` for any keys, refresh interval and latency.  The property counts the age of a change; what
makes it inductive is a bound on that age for each phase of the task (`Young`): a document that is out of date about
a key was overtaken by a change younger than the fetch, the sleep adds its own length, the next fetch again.  `InEffect`
says that a document under way never undoes what was installed (fetches follow one another), `Hanging` that a
request left unanswered is the only thing going on.

`GlobAgrees` for every pattern and every origin of letters.  `Matches` is what the pattern means: the lengths of text its
first `i` characters may stand for (`Reach`).  `GlobInv` says that the loop stands where a reading can be, and, of *every*
reading (`Fits`), that it gives the last star at least what the loop gives it and what follows that star as much.
Where the loop is stuck a reading must therefore give that star more (`StuckMisses`): going back to it loses none, and
where there was no star there is no reading.  Lower bounds alone would not do, the loop's length after the star is exact.

`BatchIsPlanned` for requests of any length.  `Validation` compares `validate` with `Proper`, which names the same
demands in no order; `ApiInv` has the calls made and the calls left add up to what the commands taken ask for, the
last of them included while it is executed; `PlanGrows` and `TakenDecodable` carry that to all decodable commands.
`Reach` and `Plan` are recursive functions: `Iterates` shows that a function may be defined step by step, by
`RangeInduction`.

*Only model-checked:* everything under fairness (`HubLive`, `OrphanEnds`, `DisconnectTakesEffect`, `ListensAgain`,
`PublishedIsAccepted`), which the provers do not reach.  Every invariant and every action property that a passing run
checks is also a theorem.

## 5. What the checks brought up

Recorded as findings, each with the run that shows it: the connection limit is not atomic (`HubLimit`), offsets are
not checked on delivery (`RecoveryOrder`), REFRESH changes the user behind the hub's back (`SessionUser`), a SockJS
poll drops a Close (`SockJsClose`).

Known, and in no run of their own.  Three of them differ from what a document says:

- The design has more than the position check of `RecoveryOrder`: design spec 45 has the history "merges with
  live-buffered pubs (PubSubSync)", and line 104 "buffers live pubs during history fetch, merges+dedupes by offset,
  verifies contiguity or `DisconnectServerError`".  The code does neither: a publication made while a client recovers
  may be both in the reply and pushed, and nothing checks contiguity, so publications that a broken pub/sub connection
  did not bring are not made up for: a live subscriber is pushed past them, and a later recovery starts behind them
  (`lost` in `JoinedIsComplete`, `NoGap`, `InOrderOnRedis`, which show that nothing else is).
- The watchdog subscribes to a new master although it could not make a manager for it, and then reads on: the node
  hears the new master and sends its commands to the old one until the link breaks again (`ListensAgain` with
  `mgr` in place of `sub` fails, by a `SwapManager` that leaves the manager alone).  The comment on
  `connect_sentinel` (redis `lib.rs` 475-478) speaks of "rebuilding the pub/sub subscription AND swapping the command
  manager".
- The comment on `spawn_node_pings` (`core/node.rs` 423-425) has remotes that were "not seen within 7s" pruned "every
  9s".  The same task waits for the answer to each ping, and a command has no time limit of its own: while Redis
  accepts a ping and does not answer, nothing is pruned, and a node that is dead stays in the API's `info`.
  `RegistryTruthful` promises pruning only where no tick is overdue.

Of the others no document says otherwise:

- A frame that subscribes and unsubscribes a channel publishes its Leave before its deferred Join
  (`MembersAgree` is therefore stated for one command per frame).
- A failed read is answered with an empty epoch and offset 0, and the client stores it.  If it comes back while Redis
  is still away, another failed read confirms it: "recovered", with nothing in the reply.  `RecoveredIsComplete` is about
  a position that names a stream; no publication has the empty epoch.
- `pack_offset` multiplies by 2^32 - 1, on purpose (the comment says so), so from offset 2^32 on a position is taken
  for a smaller one: the client may get publications again that it has, but never misses one (`NoGap` holds
  everywhere) - it would with a factor larger than 2^32 (the slip `pack_beyond`).
- Neither the initial JWKS fetch nor a refresh has a timeout.  When the initial one fails the server starts without
  keys and does not ask again for an hour, although the comment in `server/main.rs` wants tokens to verify "as soon as
  the server is healthy"; one that hangs keeps the server from starting, and a refresh that hangs is the last
  (`hung` in `PublishedIsAccepted`).
- An API request that cannot be decoded from some command on is answered 400 after the commands before it were
  executed, and the caller is not told which.  Engine errors are only logged, so 200 does not say that a
  publication was stored.
- `glob_match` compares characters before it looks for a star, so a literal `*` in an origin would be taken for the one
  of the pattern; no origin has one (`GlobAgrees` is over letters).
- A push from a stream that was lost meanwhile carries an offset of the old epoch (`NoGap` is stated for one epoch).
- With `0 < redis_history_meta_ttl < history_lifetime`, which the configuration does not prevent, a Redis list
  outlives its hash, and the next visitor begins a stream over it.  The current stream is whole all the same
  (`RedisPromise`, `RecoveredIsComplete` and `NoGap` hold), but `history` and a recovery also hand out what an earlier
  one left, among the new publications and under offsets that are not the current stream's: a client that recovers
  from the start of the new stream is told "recovered" with publications in the reply that its epoch never had.
  `RecoveredIsFresh` leaves that case out, and is violated without the exception.
- Without Sentinel nobody subscribes again after the pub/sub connection was lost: the node is deaf until restarted,
  while its commands work (`watch = "ended"`).
- Presence tolerates one lost update because the defaults leave two presence pings within an expiry
  (`PresenceAssumption`); the configuration does not require it.
- A SockJS session nobody polls any more stays in the map: only a poll removes it.

## 6. Not modelled

- *Wire protocol.*  Encoding and decoding are functions of bytes, which every model abstracts from: a frame that cannot be
  decoded is an input of `Session`, a command that cannot be of `Api`.
- *Signatures and claims.*  `jsonwebtoken` verifies; what a verified, expired or foreign token does is in `Session`.
- *Namespaces and options.*  The configuration is read once; the models take its outcome as constants.
- *Proxies.*  The HTTP exchange is I/O; its answers are inputs of `Session`.
- *Command line, admin page, metrics.*  No state of the protocol.  `server/web/bundle.js` is a third-party build (the
  original's admin page with jQuery, React and Bootstrap, minified) that `webui.rs` serves as bytes.
- *Authorization and HTTP framing of the API.*  They decide before the first command and after the last one.

Presence entries of several clients do not touch each other, so `Session` has one connection's.  A node's other channels
and connections are not in `Recovery` and `Session` for the same reason.  `Recovery` has Redis keep what it
acknowledged: a failover to a replica that lags behind, which takes back offsets that clients saw, is in `Presence` (the
`Rewound` of `Cluster`) but not in the streams.

The type invariants `SessionTypeOK` and `SockTypeOK` are in no run: `TypeCorrect` of `SessionProofs` and
`SockJsProofs` proves them; `TokensTypeOK` is part of what `TokensInvariance` proves.

## 7. Plan

1. *Failover in the streams*: `RedisStream` with a master that comes back with an older list and hash.
2. *Personal channels and namespaces* as a component of `Session` and `Api`, where a wrong resolution would let a channel
   through.
3. *The session's queue and its timers*: a reader that waits for room in its own queue serves its timers late, as the
   task of the registry does while it waits for Redis; `LapsedIsClosed` takes the reader to be in time.
