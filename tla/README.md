# Verification of geektutu

The repository holds four small Go frameworks, written after a series of
tutorials: **geerpc** (RPC over one connection, with a registry and a load
balancing client), **geecache** (a distributed cache), **geeorm** (an ORM over
database/sql) and **geeweb** (a web framework). This directory models them in
TLA+, checks the models with TLC, and proves the properties that matter most
with TLAPS.

The code is the reference. Line numbers are those of `src/`. Where a comment,
a test and the code disagree, the models follow the code; the disagreements are
listed under *Where code and comments disagree*.

## 1. Inventory

### geerpc

| Part | State | Operations | What makes it correct |
|---|---|---|---|
| client (`client.go`) | `seq`, `pending`, `closing`, `shutdown` under `mu`; the shared request header and the encoder under `headMutex`; per `Call` its `Seq`, `Reply`, `Error`, `Done` | `Go`, `Call`, `send`, `registerCall`, `removeCall`, `receive`, `terminateCalls`, `Close` | a response reaches its own call only; no waiter is forgotten when the connection fails; a timed-out call leaves nothing behind; a call is completed once; the two gob streams stay framed |
| server (`server.go`) | per connection: the `sending` mutex, the wait group, the handlers' goroutines | `ServeConn`, `ServeCodec`, `readRequest`, `handleRequest`, `sendResponse` | a request is answered once, truthfully, before the connection is closed; a method that never returns does not stop the others; goroutines end with the connection |
| codec (`codec/`) | a buffered writer with a sticky error, a gob encoder and decoder on the connection | `ReadHeader`, `ReadBody`, `Write`, `Close` | header and body stay together; after an encoding error the connection is closed, so that the other end does not wait |
| service (`service.go`) | methods found by reflection, a call counter | `newService`, `call` | what the server assumes of it: a method runs, may fail, may never return |
| registry (`registry/`) | `servers`: address to time of the last heartbeat, under a mutex | `putServer`, `aliveServers`, `ServeHTTP`, `Heartbeat` | a server that beats in time stays listed; one that died expires |
| discovery (`xclient/discovery*.go`) | server list, round-robin `index`, `lastUpdate` | `Refresh`, `Update`, `Get`, `GetAll` | a chosen server has been alive recently; round robin takes turns |
| xclient (`xclient/xclient.go`) | a map of open clients under a mutex; per Broadcast `e`, `replyDone` and a context | `Call`, `Broadcast`, `dial`, `Close` | one connection per server and none lost; the first failure is reported and cancels the rest; Broadcast returns |
| debug page (`debug.go`) | none | renders HTML | - |

Interaction: a user goroutine calls `Client.Go`/`Call`; `send` writes to the
connection; the server's loop reads, one goroutine per request runs the method
and writes the response; the client's `receive` goroutine matches it by sequence
number and sends the `Call` on its `Done` channel. An `XClient` shares one
`Client` per server among its users and asks the `Discovery` for servers, which
asks the registry over HTTP, to which the servers send heartbeats.

Hard: every line of `client.go` runs beside `receive` and `terminateCalls`;
deadlines race late responses; writes fail while the reader fails; handlers race
their timeout for the same header; mutexes are held across blocking operations
(`headMutex` across a channel send, `grd.mu` across an HTTP exchange).

### geecache

| Part | State | Operations | What makes it correct |
|---|---|---|---|
| singleflight | `m`: key to the call under way; per call a wait group and the result | `Do` | one `fn` per key; a caller shares a flight that overlaps its own call; nobody waits for nothing |
| lru | a list, a map, `nBytes` | `Add`, `Get`, `RemoveOldest` | `nBytes` is what the entries take |
| consistenthash | sorted positions, position to node | `Add`, `Get` | nodes with the same pool agree on the owner of a key |
| Group, HTTPPool (`geecache.go`, `http.go`) | one cache and one singleflight per node, the ring of each pool | `Get`, `load`, `getLocally`, `getFromPeer`, `Set`, `PickPeer`, `ServeHTTP` | a Get returns a value of its key and returns |
| protobuf message | - | generated code | - |

Hard: nodes call each other inside a flight; pools are set on each node
separately, so that two nodes may disagree; data behind the getter changes while
loads run beside each other.

### geeorm

| Part | State | Operations | What makes it correct |
|---|---|---|---|
| engine (`geeorm.go`) | a `*sql.DB`, a dialect | `NewSession`, `Transaction`, `Migrate` | a transaction commits or rolls back, also after a panic; a migration keeps the data |
| session (`session/`) | pending SQL, its values, the clauses of the statement being chained, the transaction, the table's schema | `Insert`, `Find`, `First`, `Update`, `Delete`, `Count`, `Where`, `OrderBy`, `Limit`, `Raw`, the table operations, hooks, `Begin`, `Commit`, `Rollback` | a statement uses exactly the clauses chained for it |
| clause, schema, dialect, log | none worth the name | text, reflection, logging | - |

Hard: the pending clauses are cleared by whoever executes a statement, hooks
included; `tx` outlives its transaction; anything may fail or panic in the middle of
a transaction or of a migration of several statements.

### geeweb

| Part | State | Operations | What makes it correct |
|---|---|---|---|
| engine and groups (`gee.go`) | prefixes, middleware slices | `Group`, `Use`, `ServeHTTP` | a request passes the middlewares of its groups, and those of no other group |
| context (`Context.go`) | handlers and `index` of a request | `Next`, `Fail` | every handler runs at most once, in order |
| router, trie | one trie per HTTP method | `addRoute`, `getRoute` | the pattern found is one that matches, whatever the order of registration |

Hard: slices share arrays; the trie depends on insertion order; handlers may call
`Next`, return early or panic.

Everything in this code that is hard to test is listed, at its line, in
`PROJECT.json` under `hazards`, with the properties that cover it.

## 2. Modules

| Module | Models | Uses |
|---|---|---|
| `RpcWire` | the two directions of a connection as logs of header and body values, and closing it (`codec/`) | |
| `RpcClient` | one `Client`: users, `receive`, `terminateCalls` | `RpcWire` |
| `RpcServer` | the server's goroutines for one connection | `RpcWire` |
| `RpcCalls` | abstract: what the user of a call is promised | |
| `RpcConnection` | both ends on one connection, refining `RpcCalls` | `RpcClient`, `RpcServer`, `RpcCalls` |
| `XClient` | `Call`, `Broadcast`, `dial`, `Close` over one pool; `XDial` and `dialTimeout` of `client.go` below it | |
| `Discovery` | registry, heartbeats, discovery, with time | |
| `SingleFlight` | `Do` | |
| `Lru`, `ConsistentHash` | the data structures, as operators | |
| `GeeCache` | a group on several nodes | `Lru`, `ConsistentHash` |
| `Session` | a geeorm `Session` and the database behind it: chained calls, operations, hooks, panics | |
| `GeeOrm` | an `Engine`: `Begin`/`Commit`/`Rollback`, `Transaction`, `Migrate` | `Session` |
| `Trie` | the router's trie as operators, and what a pattern means without one | |
| `GeeWeb` | an `Engine`: groups, middlewares, routes, and one request through `Next` and `Recover` | `Trie` |
| `RpcClientProofs`, `RpcServerProofs`, `XClientProofs`, `DiscoveryProofs`, `GeeCacheProofs`, `GeeOrmProofs`, `GeeWebProofs` | theorems about the module each is named after; `GeeCacheProofs` also those about `SingleFlight`, `GeeWebProofs` those about `Trie` | that module |
| `RpcConnectionProofs` | theorems about both ends together, with the refinement of `RpcCalls` | `RpcConnection`, instances of `RpcClientProofs` and `RpcServerProofs` |

`MC`*x* instantiates module *x* with small sets of model values; *x*`.cfg` gives
the constants their values. Operators marked `Mutant:` in a comment are
plausible bugs of the definition that follows them; `PROJECT.json` pairs each
with the property that must notice it. They are used nowhere else.

### How state and actions correspond to the code

**RpcWire.** `c2s` and `s2c` are append-only logs of `Unit`s, a header (sequence
number, call, failed?) or a body (whose call). A reader has a position in the
log of its direction. A log that is never shortened lets the properties talk
about what has been sent. Encoding is abstracted to "which call does this value
belong to"; that a header can be encoded and its body cannot is kept, as is
the sticky error of `bufio.Writer`, because the control depends on them.

**RpcClient.** `pc[c]` walks through `send` for the goroutine of call `c`: `lock`
(`headMutex`), `register` (`registerCall`), `header` and `body` (`GobCodec.Write`),
`remove` (the error path), `done` (the channel send, which may block), `sent`
(waiting), `cancel` (context done). `rcv` walks through `receive` and
`terminateCalls`. A critical section of `mu` is one step, except the one of
`terminateCalls`, which blocks on channels with `mu` held: `MuFree` guards the
others meanwhile. The reads of a header and of a body are steps apart from the
look-up in `pending` between them, since the map may change there. The peer is
three actions: it answers any request in any order (some calls twice), truncates
after a header, or closes.

**RpcServer.** `srv` is the loop of `ServeCodec`, `hst[c]` the handler of a
request up to `wg.Done`, `inner[c]` the goroutine that runs the method under a
`HandleTimeout`. The option is read by a decoder that may read ahead: `OverRead`
bounds how many values of the request stream it swallows (`garbled` then stands
for a gob stream without its beginning). `starts[c]` is history: how often the method
of call `c` has been started.

**RpcConnection** joins the two through the shared logs and close flags. A step
belongs to one end, or is `Drop`, after which neither end can read or write. `Exec`
is what `RpcCalls` sees of a method, from `starts` and how it ended: a second start is a
value of its own that no step of `RpcCalls` leads to.

**XClient.** A *task* is a goroutine of Broadcast (named by its server) or a user
of `XClient.Call`. `xmu` is the mutex of the map of clients, held across `XDial`:
`Connect` opens the connection and starts the goroutine that makes the client
(`maker`: the result it has to send on its unbuffered channel), then the task awaits
either that result (`DialReturns`) or `ConnectTimeout` (`DialTimesOut`); the deferred
close of `dialTimeout` is part of both. `open` counts connections not closed. `mu` is the one of Broadcast, held at most by one goroutine. `Client.Call` is two
intervals: `sending`, which only `Sent` ends, since `send` looks at no context, and
`waiting`, its select, which ends with the reply, with an error (of the service, of a dead
client, of the caller's context), or, in a goroutine of Broadcast, with the error that
`cancel` causes: `outcome` tells these apart (`ok`, `error`, `cancelled`). A
call of `XClient.Call` for which the discovery has no server ends at once (`Choose`).

**Discovery.** `now` is a clock; `Tick` is not allowed past a due heartbeat, or
past `MaxDelay` for an answer under way. `start` is the registry's map with its
expiry; `servers`, `index`, `lastUpdate` are the client's. `dmu` is `grd.mu`, held
during the HTTP exchange. A process that restarts loses `start`.

**SingleFlight.** Its specification is `FlightSpec`, of goroutines that call `Do`. `m[k]` is the leader of the call registered for `k`; `done` the
leaders whose wait group is released; `val` what `fn` read. A panic of `fn`
leaves `m` and the wait group as they are, as the code does.

**GeeCache.** `stack[c]` is the chain of `Group.Get`s that work for caller `c`,
one frame per node the request has reached; the top one is active. A frame
goes through the cache look-up, `load`, the flight, `PickPeer`, the HTTP request
or the getter, `mainCache.add`. `cache[n]` is an `Lru` record; `Rings` are the
owners according to `ConsistentHash`; `split` is history: two of the rings made so
far have disagreed about an owner. `HTTPPool.Set` is two steps, a new ring and
the nodes added to it: PickPeer waits for both (the pool's mutex), the log
statement at `geecache.go:100` does not, and panics on the empty ring
(`LeadPanics`). `Answer` is the end of `http.Get` when the handler has answered, when the
exchange broke afterwards, or when the request was refused before a handler took it.
`Break` is the end when the connection breaks while the handler works: the handler
does not learn of it and goes on, with the flights it leads at nodes further on. Its frames
then need a stack of their own, for which the model takes an idle caller: how many
such handlers there can be at a time is bounded by the number of callers.

**Session, GeeOrm.** One goroutine uses a session, so that its call stack is the
state: `stack` holds frames of code (`user`, `tf`, `hook`), which call the session
at will, and of operations under way, which go through their hook before, their
statement and their hook after (`at`). A hook is handed the same session with
whatever clauses are pending. `sess[s].clause` is the `clause.Clause`;
`sess[s].tx` is `nil`, an `open` transaction, or one that is `done`. `chain` is
history: what the frame's code has asked for since its last statement; `meddled` says
that another frame has touched the session's clauses since. `db` is the committed
database, `work` the one the open transaction sees; a table is a set of columns and
rows by key, and whether it has its PRIMARY KEY. Every statement, `Begin` and `Commit`
may fail (a locked database, a constraint), every hook and function may panic;
`Unwind` takes a panic through operations, which defer nothing, to `Transaction`'s
deferred function or to the user, who recovers it as net/http does. `Migrate` is a
frame of its own that goes through its statements.

**Trie, GeeWeb.** A text (of a prefix, a pattern or a path) has one item for each slash,
what stands behind it, which may be nothing: `//v1/b` is `<<"", "v1", "b">>`, `/v1/` is
`<<"v1", "">>`. `ParsePattern` makes parts of it as `parsePattern` does: items that are empty are
dropped, and all that follows a part with an asterisk. The engine works on texts (`Group`
joins them, `HasPrefix` compares them, letter by letter as far as `Begins` tells), the
router on parts. The code registers the text of a pattern and a handler under it, the
model its parts: two texts with the same parts lead to one node, and the last one counts in
both. `nodes` is the trie
in the order its nodes were made. The recursion of `insert` and of `search` is over the
height, so that both are recursive functions: `Insert` goes `Down` once for every part,
`Search` gives for every height and node what the branch below it finds. `arrays` are the arrays behind the slices
of middlewares, because `Group` copies a slice and `append` writes behind it if
there is room; `clash` is history: an append has written over another group's entry.
`active` is the stack of handlers running, each started by the `Next` of the one
below; `index` is the `Context`'s, shared by all of those loops.

## 3. Runs

| Run | Question | Instance | Distinct states |
|---|---|---|---|
| `client` | are calls matched, framed, never orphaned, released? | a synchronous call with a deadline that may be answered twice, an asynchronous call with unencodable arguments; `Close`, close by the peer, truncation | 145 thousand |
| `client_doubleDone` | is a call completed once? (violated) | two synchronous calls, no other fault | |
| `server` | is every request answered once and truthfully, before closing? | three requests: one failing method, one with arguments of a wrong type, one with an unencodable result; handle timeout; client closes or truncates, bad option | 45 thousand |
| `connection` | do both together implement `RpcCalls`, do calls return? | two overlapping calls, one with a deadline, one whose method may fail; the network may drop | 190 thousand |
| `connection_overread` | ... when the option arrives with the first request? (violated) | the same without drops, up to 2 values read ahead | |
| `xclient` | connections, failures and cancellation | Broadcast to two servers, one user of `Call`, dying clients, dials that fail, hang and time out, sends that block, `Close` | 32 thousand |
| `xclient_hang` | does Broadcast return? (violated) | three servers that always answer | |
| `discovery` | staleness, expiry, round robin | two servers of which one may crash, two getters, restarts of the registry, a manual update | 3 million |
| `singleflight` | one flight, no stale sharing, no lost waiter | three callers of one key, two changes of the data, panics | 41 thousand |
| `geecache` | byte count, right value, deadlock | two nodes, two keys, two callers, colliding hashes, one later `Set`, eviction, refused and broken requests | 220 thousand |
| `geeorm` | are statements what was chained, transactions all or nothing, migrations lossless? | two rows, no table or one of four shapes, five calls, hooks before and after, any statement failing, any hook panicking | 1.5 million |
| `geeweb` | does the trie agree with the patterns, does each handler run once, with the right middlewares? | up to four routes of seven kinds, or up to three groups and five middlewares; nine paths, with doubled and trailing slashes and an asterisk among them; handlers that return, call `Next` twice, panic, recover | 5 million |

### Bounds, and why they are enough

- *Calls and requests.* Interactions in `client.go` are between one call and
  `receive`/`terminateCalls`, or between two calls over `headMutex`, `pending` or
  a shared `Done` channel: two calls show both. The server has a mutex among
  handlers and a loop beside them: with three requests one writes, one waits for
  the mutex and one has been rejected. That the client's invariants do not depend
  on these numbers is proved (section 5).
- *Done channels* have capacity 1, the least that `Go` accepts, so that
  they do fill up.
- *SingleFlight* needs a leader, a waiter, and one who comes after the leader
  has finished and before it has deleted the entry: three callers. Version 2 makes
  a value that is one change old distinguishable from an older one. Independent of
  the numbers by proof.
- *XClient.* Two servers show cancellation of one by the other; the hang needs a
  third goroutine after the one that returns with `mu`, hence three servers there.
- *Discovery.* The heartbeat's period and the client's timeout (1 each) are below
  the registry's timeout (2), as the defaults are (4 minutes and 10 seconds, 5
  minutes). The clock goes to 5 so that a server can beat, crash and expire, and a
  list be fetched, grow stale and be fetched again. An answer travels for up to 1
  unit.
- *GeeCache.* Two nodes and two callers are what a deadlock between nodes takes; one
  caller and a handler that has lost its connection show what `Break` adds.
  The cache has room for both keys only while the smaller is at its first version,
  so that a replacement evicts. `MCHash` lets virtual nodes of both nodes collide:
  the order of `Set`'s argument then decides, so that one node that is given the
  same nodes in another order disagrees with the other.
- *GeeOrm.* Five calls are a chained condition, an operation, a hook that uses
  the session during it, and what comes after; or `Begin`, two statements, `Commit`
  and one more. Stacks go four deep: code, operation, hook, operation. The tables
  are one as the model wants it, one without a column the model has, one with a
  column the model lacks, one that differs both ways, and none.
- *GeeWeb.* An append that overwrites another takes a slice of three in an array of
  four, and two that append to it: five middlewares. Four routes are enough for a
  branch that has to be left again beside one that catches everything. The
  budgets (`Budgets`) keep the two apart, since requests do not relate them; a third
  and a fourth have some of each. One prefix ends in a slash, patterns and paths have slashes
  doubled at the beginning, in the middle and at the end, and one path has an asterisk in
  the middle, so that text and parts differ in all the ways they can.
- `MaxTime`, `MaxVersion`, `MaxDelay`, `MaxSets`, `MaxDepth`, `MaxCalls`, `Budgets`,
  `MaxNext` and the single deadline per call are the only bounds in guards, and are
  all constants of the modules.

`CHECK_DEADLOCK FALSE` everywhere: all calls returned, or a connection closed, is
a proper end; the liveness properties say which stops are not.

### Fairness

Weak fairness for goroutines: the Go scheduler runs whoever can run. Strong
fairness only for taking a mutex that others keep taking and releasing: Go's
mutex hands over to a waiter after a millisecond (starvation mode). No fairness
for users starting calls, for closing, crashing, dropping, for deadlines, for the
peer (`client`), for a service method (`server`, `connection`) or for data
changing. Fair are, because the code or a stated assumption provides them:

- the timer of `handleRequest` and of `ConnectTimeout`: `time.After` fires. The
  goroutine that makes a client need not get anywhere. With `ConnectTimeout` 0
  (`Bounded = FALSE`) `FailFast` would not hold: a server that accepts and is silent
  then keeps `xc.mu` locked;
- in `client`, that users of `Go` keep receiving from their channel. If one stops,
  `receive` blocks at `client.go:226` and the whole client with it; this is how
  the API is documented to be used (a buffered channel), not something checked;
- in `xclient`, that a goroutine of Broadcast comes out of the select of `Client.Call` once
  the context is cancelled: `removeCall` then needs `Client.mu`, which `terminateCalls` keeps
  only while it sends to a full `Done` channel, and those of `Client.Call` have room.
  (With finding 1 a channel is full, but then the caller that is stuck is inside `send`.)
  Nothing is assumed of `send`: it waits for `headMutex` and writes without looking at the
  context, and finding 1 shows that it may never return. `FailFast` therefore has a premise of
  its own, `SendsEnd`, that no goroutine of this Broadcast stays in `send` for ever;
- in `xclient_hang` and only there, that sends end and services answer, which makes the
  finding the code's own;
- in `geecache`, that getters return and a peer that has taken a request answers or
  breaks the connection. `http.Get` has no timeout in `http.go`, so nothing weaker
  would do.

`Discovery` states no liveness: `http.Get` under `grd.mu` has no timeout either.
`GeeOrm` and `GeeWeb` are one goroutine each, whose loops are bounded by their data.

### What the runs show

- **Client.** No interleaving of calls, responses, deadlines, `Close` and a
  failing peer orphans a call (`NoOrphan`): a waiting call is always in its `Done`
  channel, with `receive`, in the list of `terminateCalls`, or in a `pending` that
  will still be looked at. The order in which `terminateCalls` sets `shutdown` and
  walks `pending` under one critical section is what this rests on. Results reach
  their own calls (`MatchedReply`, `SeqAgreement`), late responses are skipped
  whole (`StreamInSync`), requests stay framed and ordered (`RequestFrames`), no
  finished call stays in `pending` (`NoLeak`), a result returned is final
  (`OkIsFinal`), and closing releases all waiters (`WaitersReleased`).
- **Server.** With a handle timeout, one truthful response per accepted request
  (`OneResponse`, `HonestResponse`), well framed (`ResponseFrames`), before the
  connection is closed (`AnsweredBeforeClose`), although methods may never return
  (`EveryRequestEnds`, `ClosesInTheEnd`).
- **Connection.** A method is started at most once per call, and a call ends without an
  error only after its method has ended without one (`CallsPromise`, a refinement; one
  method may fail, and starts are counted); failure tells nothing
  about execution, which is what `RpcCalls` allows. Calls return while the
  connection is up (`EveryCallReturns`).
- **XClient.** Every open connection is the one in the map or one being dialled under
  `xc.mu`; a dial that fails or times out closes what it has opened
  (`NoConnectionLost`). A failure is reported (`FailureReported`), and what is reported
  is the cause: the others fail as well when they are cancelled, and race for the same
  variable, but none of them gets there first, and a success cancels nothing
  (`ErrorIsCause`). After a failure Broadcast returns though calls are never answered and
  clients never made (`FailFast`), unless a `send` blocks for ever.
- **Discovery.** A beating server is always listed, at the latest one period after
  a restart (`StaysListed`). A chosen server has beaten within registry timeout +
  client timeout + travel time (`ChosenIsRecent`). Round robin survives refreshes
  (`TakesTurns`).
- **SingleFlight.** `OneFlight`, `NoStaleFlight`, `NotOlderThanFlight`,
  `WaitersHaveLeader`; all return unless a panic of `fn` strands them
  (`EveryoneReturns`).
- **GeeCache.** `ByteCount`, `RightValue`; a Get that does not return waits,
  directly or through others, for a cycle of flights or for a flight that has
  panicked (`EveryGetReturns`), and cycles need pools that have disagreed
  (`DeadlockNeedsSplit`). They need not have disagreed at one time: section 5.
- **GeeOrm.** An operation is executed with exactly the conditions its caller has
  chained since the caller's last statement, unless another frame has touched the
  session in between (`StatementsAsChained`); that exception is real, see section 4.
  A `Transaction` or `Migrate` that reports an error or panics has changed nothing, one
  that reports success has committed everything, and none stays open
  (`AllOrNothing`). A successful migration keeps every row and every column that
  stays (`MigrationKeeps`), and loses the PRIMARY KEY exactly if it removes a
  column.
- **GeeWeb.** For every order of registration in which no route is led into an earlier
  wildcard's node, the router finds a route exactly if one matches, and its parameters
  put into the pattern give the parts of the path, if their names differ (`RoutedRight`). Whatever handlers do,
  each runs once and in order (`EachOnce`). A route runs with all that was used on
  its groups, before or after it was added, and with nothing from groups whose prefix
  the path lacks (`GuardedRoutes`), as long as no two groups have appended to one
  array and prefix and path are *plain*: the prefix has no wildcard and no empty
  item, the path no empty item as far as the prefix goes. These exceptions are real
  (section 4).

The type is an invariant of the runs `client` and `singleflight` (`TypeOK`,
`FlightTypeOK`). The other modules state theirs beside their properties; all are proved, and
the runs spend their time on the properties, which fail as well when a variable leaves its
type.

## 4. Where code and comments disagree

Shown by a run (`findings` in `PROJECT.json`):

1. `client.go:109-112` and `138-141`: a call whose write fails while
   `terminateCalls` completes it is completed twice; the second send to a `Done`
   channel of capacity 1 blocks with `headMutex` held (`client_doubleDone`).
2. `server.go:113-116`: `json.Decoder` reads ahead, so a first request that
   arrives with the option is lost (`connection_overread`).
3. `xclient.go:114-117`: a return with `mu` locked; Broadcast does not return
   (`xclient_hang`).

Met while modelling, visible in the models, without a run of their own:

- `client.go:222` asserts `call.Reply.(*int)` to log it: any other reply type ends
  the process, though the comment at 182-184 describes an arbitrary reply. Modelled
  (`OddReply`, `rcv = "panicked"`); the runs use replies of type `*int`.
- `server.go:267-270`: without a handle timeout a failing method is answered twice,
  an error and then a result. `HandleTimeout = FALSE` shows it (`OneResponse`).
- `server.go:260`, `274-277`: the goroutine that runs a method whose caller has
  timed out stays blocked on its channel.
- `server.go:156`: a request that cannot be read ends the loop; the comment at
  207-208 has the server go on with the next request.
- `xclient.go:88-90`, `115`: Broadcast is said to call every server; a goroutine
  that starts after the first reply does not call its server.
- `lru.go:68`: `Add` evicts one entry at most, so `nBytes` may stay above
  `maxBytes`.
- `discovery_gee.go:66`: an empty header becomes a list with one empty address,
  which `Get` returns without error.
- `registry.go`: `Heartbeat` stops after its first failure; a server that missed
  one is never listed again. `StaysListed` is about servers whose loop still runs.
- `geecache.go:100` reads the ring without the mutex that `http.go:29` declares, to
  log a name: during a `Set` it may divide by zero in `consistenthash.go:83`, inside
  a flight.
- `geecache.go:97-107`: two nodes whose pools disagree send a key to each other, and
  the request joins, at the node it came from, the flight it belongs to.
- `singleflight.go:55`: neither `wg.Done` nor the deletion is deferred; a panic of
  `fn` strands the waiters and everyone who comes later for that key.

In geeorm:

- `record.go:45-49` shows `Find` on a new session: it panics. `CallMethod`
  (`hooks.go:25`) dereferences the session's schema, which `Find` and `Insert` set
  after their first hook (`RunWithoutModel`, `CallMethod`).
- `record.go:100` promises to delete the records "with where clause", and
  `record.go:131` that `Where` adds a condition: a second `Where` replaces the first,
  and a hook that runs any statement on its session clears them all, after which
  `Delete` or `Update` changes every row. Between two records of an `Insert` it clears
  INSERT INTO, so that `VALUES ...` alone, a query, is executed without an error.
- An error returned by a hook is only logged (`hooks.go:34-36`).
- `table.go:63`: an error of `HasTable`'s query is taken for a table that is not
  there, and `Migrate` goes on to create it. `geeorm.go:102`: an error of the query
  is ignored, `rows` is nil and `rows.Columns` panics (and is rolled back).
- `geeorm.go:92` calls `Migrate` a migration of the table: `CREATE TABLE ... AS SELECT`
  (121) drops the PRIMARY KEY, and `ADD COLUMN` (110) leaves out the field's tag.
  Rows from before an added column hold NULL, which `Find` cannot scan; it then returns
  without closing its rows (`record.go:70-72`).
- `transaction.go`: `tx` stays set; a session used after `Commit` or `Rollback` fails at
  every statement.

In geeweb:

- `trie.go:13-20`: a static part registered after a wildcard sibling goes into the
  wildcard's node and takes its pattern over: with the routes of `router_test.go`,
  `/hello/:name`, `/hello/b/c`, a request for `/hello/x/c` is served as `/hello/b/c`;
  and after `/assets/:x`, `/assets/*f` is never found for deeper paths.
- `gee.go:26`: a new group copies its parent's middlewares, and `ServeHTTP` adds the
  parent's as well, so that those used before `Group` run twice; two groups that share an
  array overwrite each other's entry.
- `gee.go:131` compares prefixes as text, while the router drops empty items
  (`router.go:91`) and knows parameters. The middlewares of `/v1` run for `/v10`; those of
  a group whose prefix has a parameter never run; a request for `//v1/b` gets the route of
  `/v1/b` in the group `/v1` without any of the group's middlewares, and so does one
  for `/v1` if the group is `/v1/`. The comment at 60-61 has the middlewares depend on the
  group's and on the route's handler, not on how the path is written.
- `router.go:93` cuts a path, too, behind a part that begins with an asterisk: what follows
  it in a request is not looked at.
- `recover.go:11-23`: after a recovered panic the loop that has started `Recover` goes on
  with the next handler. `defer Recover()` in `router.go:68` recovers nothing: it only
  makes a handler. `Context.Fail` ignores its code.

## 5. Proofs

TLAPS checks eight modules; between them they prove every safety property that a
passing run checks. Constants are arbitrary: any number of calls, servers, nodes, keys, rows,
routes, handlers, and any value of the bounds. What is assumed is
named and stands in the modules; TLC evaluates it in every run.

| Assumption | Says | Because |
|---|---|---|
| `WireAssumption`, parts of the others | the model values for "nobody", "nothing", "no table" are not callers, values, tables | they are names of the model |
| `ClientAssumption`, `ConnectionAssumption` | channels have a capacity of at least 1; each synchronous call has a channel of its own | `client.go:150-151` panics on an unbuffered channel, `Client.Call` makes a channel of capacity 1 (172) |
| `ServerAssumption`, `FlightAssumption`, `XClientAssumption` | the types of the constants; servers are not users | |
| `DiscoveryAssumption` | a heartbeat's period is at most the registry's timeout, if it has one; the lists set by hand are no longer than there are servers (`N`); the client's timeout fits into the bounded clock | the defaults, 4 and 5 minutes; `N` and `MaxTime` are bounds |
| `ReplicasAssumption`, `GeeCacheAssumption` | hashes are numbers, pools are lists of nodes that are not empty, entries have a size | types of the code; `NewHTTPPool` is given its peers |
| `TrieAssumption`, `GeeWebAssumption` | a part begins with a colon or an asterisk or neither, and is not empty; a text is a sequence of parts and empty items; `GET` is not given the empty text; the handlers include those of a route and of a 404 | every text begins with a slash or is empty; `GET("")` on the engine registers a pattern that `search` takes for no route (`trie.go:51`), in place of the one of `/` |
| `SessionAssumption`, `GeeOrmAssumption` | the model's fields are columns; an `Insert` has one or two records; the table at the start is a table or none | `Cardinality(b) \in 1 .. 2` is a bound, which the proofs do not use |

Three theorems have a hypothesis of their own. `Honest` and `AnsweredOnce` are about a
server with a `HandleTimeout`: without one `handleRequest` answers a failing method
twice (`server.go:267-270`), so that they would be false. `FairTurns` is about lists
set by hand in which no server stands twice; with repetitions "every other server
first" means nothing. The registry's own lists never have any, which is proved.

**`RpcClientProofs`**: first `Spec => []NoOrphan` (`NeverOrphaned`).
`NoOrphan` is not inductive: `removeCall` finds a call by number, so without
knowing who has which number it might take away another call's entry; and a call
registered behind the back of `terminateCalls` would stay in `pending` for good.
The invariant `Accounted` therefore adds that a call has number 0 until it is
registered and then one that no other call has and that has been given out
(`Numbered`), that an entry of `pending` is found under its call's number
(`PendingByNumber`), and that `shutdown` is set before `terminateCalls` looks at
`pending` (`ShutdownFirst`), which keeps `registerCall` out from then on. The step is
proved one action at a time, from lemmas about the map `pending` (put, delete) and
about sequences used as channels (append, tail).

On top of it stands `IInv`, for `FramedRequests`, `InSync`, `OwnReply`, `NothingLeaks` and
`SuccessIsFinal`, an action property. `Sender` says who holds `headMutex` and that at most
the header of its request is in the buffer; `Labels` that each header on the wire has its
call's number and numbers grow along the log; `Pairs` that the peer sends whole
responses under the numbers of requests; `Position` what `receive` has read last, by
where it is; `LeftPending` that a call which ends has left `pending` first, unless
`terminateCalls` is at work, which never lets go of the map again; `Held` that the call
`receive` has taken out is in nobody else's hands. The last two are what makes a success
final: for a late response to touch a call, the call would have to be in `pending` after
it was taken out. Of the peer the step asks only `PeerMoves`, that it appends whole
responses to requests it has got; the connection proof uses that.

**`RpcServerProofs`**: type, `WholeResponses` and `NoneMissing` from `IInv`, and with a
timeout `Honest` and `AnsweredOnce` from `TInv` on top. `Handlers` relates the state of
each handler to its inner goroutine, its header and what it has still to send; `Mutex`
says that the one handler that holds `sending` is the only one with something in the
buffer; `Endings` that an end is closed before a response is lost. `OneResponse` counts:
`Single` says that a header in the log belongs to a handler that has ended and
is the only one for its call, `Decided` that what is to be sent was decided once, when the
timeout and the method raced for the header.

**`RpcConnectionProofs`**: each end's invariant was proved against an environment
(`PeerMoves` for the client, `ClientMoves` for the server). Here the steps of each end are
shown to be such moves for the other, so that both invariants hold of the
composition without being proved again; `C!` and `S!` are the ends as the
connection has them, `CP!` and `SP!` the same with their theorems. What is new is what
only both together know: a response leaves under the number its call has at
the client (`SameNumber`), and one without error, wherever it is on its way, comes
from a method that has returned without error (`Truthful`). `Agreement` and
`KeepsPromise` follow. The latter is the refinement of `RpcCalls`: initial states map to
initial states, and every step to a start, an end of a method, a success, a failure, or to
none of them. `FailedForGood` is needed there for calls of `Go`, whose failure is seen
only when their channel is read.

**`DiscoveryProofs`**: a chain of ages. In the registry a server that beats has beaten
within a period, and the registry knows of that beat unless it was started later
(`Registered`): hence `NeverDelisted`. An answer on its way is as old as its beats
allow plus its travel (`AnswerRecent`), the list as old as the answer it came from
(`ListRecent`), and a getter that is about to choose has asked for a list no older than
`DiscTimeout` (`AskedRecent`): hence `RecentChoice`. It takes `Holder`, that `grd.mu` admits
one exchange at a time, so that no answer is taken for another's. `FairTurns` has an
invariant of its own (`Rotation`): the recorded turns are a window on the list that ends
before `index`, and at most as long as the list.

**`GeeCacheProofs`**, second half: for `SingleFlight` the type invariant, `OneFlight`, `NoStaleFlight`,
`NotOlderThanFlight` and `WaitersHaveLeader` for any callers and keys, panics
included. The invariant says that leaders are exactly the callers registered in
`m`, that `wg.Done` precedes the deletion, and that the history variables mean
what they say.

**`XClientProofs`**: the type invariant, `NoConnectionLost`, `FailureReported` and
`ErrorIsCause` (`CauseReported`) for any servers, users, timeouts and faults. `NoConnectionLost`
counts the connections that are being dialled, and a count is not kept by a step
unless something bounds it. The inductive invariant says that `xc.mu` is held exactly
by the task that dials and that the map has no client for its server then (`Locked`);
so at most one task waits for a client, the count is 0 or 1, and the invariant can
speak of whether there is one (`Counted`). For the errors, `Reported` ties `e` to a
goroutine that has failed and reported, and lets a failed call go unrecorded only
while its goroutine is about to report it. `ErrorIsCause` rests on the order of three steps:
an outcome is `cancelled` only after `cancelled` is set, which is set only with `e`, which
is then kept.

Two more theorems are about the `mu` of a Broadcast. `LeakIsForEver`: the early return with
`mu` locked (finding 3) happens only after a reply or with a nil one, and if another
goroutine has not ended by then, no step ever changes that and `wg.Wait` never returns;
the run `xclient_hang` shows that it happens, the theorem that it is final, for any
number of servers. `FailureSettles` is the safe half of `FailFast`: once a call has failed
and all goroutines are past their first critical section, `mu` stays free for
those that report, the error stays, and the calls are cancelled. Both come from `Held`:
who checks holds `mu`, and `mu` is held by one that checks or that has left it locked.

**`GeeCacheProofs`**: type, `OwnValue` and `CyclesNeedSplit` for any nodes, pools and
hash functions. The invariant is about each caller's chain of frames: a frame under
another is in its HTTP request and the one above it is at its peer, with the same key
(`Chain`); a value that is cached, shared or returned is of the frame's key (`Honest`,
`FlightsHonest`); no ring stays empty unless one is being made (`RingsMade`); and as long
as `split` is false, all rings have the same owners and a frame that goes to a peer goes
to the owner of its key and is not there itself (`Agreed`). A frame that waits is then never
above another, because that one would have sent it to the owner: whoever waits leads no
flight, so waiting makes no cycle. A connection that breaks (`Break`) cuts a chain in two,
and both halves are chains (`CutBelow`, `CutAbove`); who waits for the flight that ends
there is woken with the error (`WokenIs`). What
`PickPeer` gives is `OwnerIs`: the last node added at the one position that answers for a
key; a least position and a last node exist, by the well-foundedness of the numbers.

From `OwnerIs` follow, for any hash function, the two promises that consistent hashing is
used for. A node that is added only takes keys over, no key moves between the others
(`JoinMovesToJoiner`, collisions included, because the node comes last). And peers that
list the same nodes in different orders disagree only where two nodes hash to one position
(`OrderDecidesCollisionsOnly`), which says what it takes for `split` to become true
although all peers know each other.

`ByteCount` (`BytesCounted`) says that a cache's counter is the sum of the sizes of its
entries. That sum is a fold over a set of places, which takes them in an order nobody knows;
so the proof first shows that numbers can be summed in any order with one result
(`PartialSums`, `SetSums`), and that the fold is the sum entry by entry (`TotalCounts`). What
a sum is after an entry is put in front, taken off the end, or taken out of the middle follows
(`TotalCons`, `TotalFront`, `TotalRemove`), and with it that counter and sum change by the same
amount when an entry is touched, added, replaced and evicted (`TouchCounted`, `AddCounted`).

**`GeeOrmProofs`**: type, `Atomic`, `OwnConditions` and `RowsMigrate` for any tables,
conditions, hooks, depth and number of calls. The call stack carries the proof. `Shape`
says in which session each frame works: what runs above a transaction runs in its session,
whose statements go to `work`, so that nothing between `Begin` and `Commit` reaches
`db` (`Transactions`). `Chained` says that a frame that is not known to be meddled with has
chained just what its session holds, or the frame above it is an operation that will
clear the clauses before it hands back control (`Covers`); that is `StatementsAsChained`
one step ahead. `Migrating` says, for each place of `Migrate`, what its statements have
made of the rows so far.

**`GeeWebProofs`**: type, `EachOnce`, `GuardedRoutes` and `RoutedRight` for any routes,
groups, paths and handlers. The invariant has five parts.

`Running` is the one behind `EachOnce`: the handlers started are the first ones, in order, and
whenever a loop of `Next` is about to go on, `index` is one past them or all have been started.

`Slices` and `Inherited` are behind `GuardedRoutes`: slices lie within their arrays, a group's
prefix continues its parent's, and, while no append has written over another group's entry, a
group's slice has all that was used on it and nothing but what was used on it or on a group
with a prefix of its prefix. `Served` says that the request still has what `ServeHTTP` has
given it. The theorem then is about `FlattenSeq`: what a request runs is what stands in
some slice chosen (`FlattenHas`, `RunIs`), and about texts and parts. `ParsePattern` is a
recursive function (`ParseIs`); what it gives has no empty parts and ends with its first
asterisk (`ParseRight`), and it leaves the beginning of a text that is plain as it is
(`ParseHeads`). So a route of a group with a plain prefix begins with the items of the
prefix, a path that it matches and that is plain as far as that does, too, and
`HasPrefix` holds of both texts.

`Routed` is behind `RoutedRight`. Its main part, `TrieFor`, says that there is a way from
the root to each node (`Tree`: a node comes after its parent, and a wildcard after all
its siblings, which differ), that a node with a pattern has one of a route and of its
height (`Stored`), and, if no route has been led astray, that patterns stand at the end of
a way of their own kinds, that every route has such an end and that every node is on the way
of some route (`Placed`). The last of these is what makes the induction work: a new route that
comes to a wildcard not its own has met the route that made it, which is what `Astray` says
(`RightChild`). `Insert` keeps all that (`DownReached`, part by part; `InsertKept`). `Search`
is sound without it, for any trie: what it finds matches by its way (`SearchSound`). It
is complete as well, though it returns the first hit: a matching node is found, or
another one in an earlier branch is (`SearchComplete`, by induction from the node up to the
root). `FilledIs` is about `getRoute`: the parameters, put into the pattern, give the parts of the
path, if their names differ.

**Induction and recursion.** The library states them with an operator as a parameter,
which cannot be instantiated here. `LeastOf`, `Induction` and `Recursion`
state them with sets and functions instead, and follow from the well-foundedness of the
numbers (`NatLessThanWellFounded`, `WFMin`). `Recursion` gives the function that a
recursive definition chooses, so that `Insert`, `Search`, `FlattenSeq` and the fold can be
taken step by step (`InsertIs`, `SearchIs`, `Flatten`, `TotalCounts`).

What the attempts to prove have changed in the models:

- A panic of the function of `Transaction`, or of `Migrate` itself, went past the
  deferred function of `geeorm.go:65-74` in the model (`Raise` of `Session`); the invariant
  about `Shape` could not be shown. It now meets it as every other panic does.
- `split` of `GeeCache` used to say that two pools disagreed at one time. Under that
  reading `DeadlockNeedsSplit` is false when `Set` is called often enough: while every
  pool is between its old and its new ring, none is there to disagree with, yet calls under
  way have picked peers by rings of different times. With two nodes and four calls of `Set`
  TLC gives a cycle in 18 steps. It now compares the rings of all times.
- `Tables` may not contain `NoTable`, a fact the models had used silently.
- `RoutedRight` needs that nothing stands behind an asterisk in a pattern. The instance
  had it so, then an assumption said it; now the model has `parsePattern`, and
  `ParseRight` proves it.
- `Insert`, `Search` and `Ancestors` were written with RECURSIVE operators, about which
  nothing can be proved; they are recursive functions and a least set now.

Only model-checked: all liveness (fairness and ENABLED are beyond the prover), that is
`WaitersReleased`, `EveryRequestEnds`, `ClosesInTheEnd`, `EveryCallReturns`,
`FailFast`, `EveryoneReturns`, `EveryGetReturns`.

## 6. Plan

In this order, the most important behaviour first. All of it is done.

1. `RpcWire`, `RpcClient`: the concurrent heart of the repository, with proofs.
2. `RpcServer`, `RpcCalls`, `RpcConnection`.
3. `SingleFlight`, with proofs.
4. `XClient`, `Discovery`; dialling with its timeout; with proofs for `XClient`.
5. `Lru`, `ConsistentHash`, `GeeCache`.
6. `Session`, `GeeOrm`.
7. `Trie`, `GeeWeb`.
8. Proofs for `RpcServer`, `RpcConnection` (the refinement included), `Discovery`,
   `GeeOrm` and `GeeCache`.
9. Proofs for `GeeWeb` and `Trie`; `ByteCount` of `GeeCache`; the promises of
   `ConsistentHash`.
10. The mutex of a Broadcast in `XClient`.

Left to TLC is what the prover cannot reach, the liveness properties listed above.

## 7. Not modelled, and why

- The bytes of setting up a connection (the CONNECT request, the option as the client
  writes it) are a success or an error of the goroutine that makes the client; the
  exchange of the option is modelled where the server reads it. `Accept` starts
  connections that share nothing but the map of services.
- `service.go`: reflection; the server sees a method that runs, fails or hangs. A
  method that panics ends the process.
- Encodings (gob, JSON, protobuf), URLs, SQL text, HTML, logging: data the
  properties do not tell apart.
- Random selection is a choice; `RandomSelect` and round robin share the list.
- The hash function is an arbitrary function; crc32 itself is not computed.
- Data races: a `Reply` written after a timed-out `Call` has returned
  (`client.go:221`) is modelled as a write to `reply` (it is the call's own value);
  what else the memory is used for by then is outside the model.
- geeorm: schemas (reflection over struct tags), dialects, the logger. Order of rows:
  `OrderBy` is a clause like the others, rows come in any order. Raw SQL is a statement
  that changes nothing. Inserting a key twice into a table that has lost its PRIMARY KEY.
  Other goroutines and connections to the same database: they show as statements that
  fail. Programs that start a transaction within one of their own.
- geeweb: templates, the file server behind `Static`, response writing; items `.` and
  `..` in what `Static` is given, which `path.Join` resolves. Requests share only the engine, which does not change once it
  serves: one request is modelled. `GET` and `POST` have tries of their own that do not
  meet.
