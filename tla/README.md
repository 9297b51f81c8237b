# Verification of Flama

TLA+ specifications of Flama (`src/flama` and the parts of its Rust core that match paths), the TLC
runs that check them on small instances and the TLAPS proofs that hold for every instance.
`PROJECT.json` lists components, runs, mutants, hazards and theorems, and maps every definition that
models code to the lines it models.

    tlc -workers 2 -config ThreadBridge_safety.cfg ThreadBridge.tla
    tlapm ThreadBridgeProofs.tla

## The system

Flama is an ASGI framework. One event loop per process runs every request as a coroutine, so the
interleavings that matter are those at its `await`s, plus the threads that `concurrency.run` and
`concurrency.iterate` hand work to.

| part | state it keeps | operations | talks to | what is hard |
|---|---|---|---|---|
| stream buffers (`models/streams.py`) | per buffer: durable line index, in-flight deque with base and total, token count, stop reason; the registry | `append`, `error`, `load`, `read`, `__aiter__`, `create`, `remove`, the sweep of `CleanupTask` | codec (source of blocks), SSE responses (consumers), file reader (durable tier) | producer and consumers at different indices, a bounded tier that suspends the producer, replay then live tail, removal under way |
| thread bridge (`concurrency.iterate`) | a one-slot queue, a cancel flag, the put in flight | `_produce` in a thread, the async generator, its close | LLM backends, synchronous response bodies | two threads; a client that leaves at any await |
| file reader (`concurrency.FileReader`) | the task, a one-slot queue, bytes remaining | `__aiter__`, `__anext__`, `aclose` | `FileResponse`, `FileStreamsBackend` | end of range against end of file, cancellation at each await, errors before and inside the `try` |
| lifespan (`lifespan.py`) | status of each application, what is up | startup and shutdown messages | modules, middleware, user handlers and context, mounted applications | order of hooks, failure of one of several mounts, one application mounted twice |
| units of work (`ddd/workers`, `resources`) | worker lock, connection, transaction | `async with worker`, the nine CRUD methods | connection managers, the database | one worker object for all requests, failure half way, two-statement updates |
| connection managers (`sqlalchemy.py`) | connections, transactions, client counters | `open`, `begin`, `end`, `close` | workers | counters of shared connections, state published before an await |
| resources (`resources`, `pagination`) | classes made at import, metadata | the metaclass, the CRUD handlers, filters | workers, repositories | inheritance that is not Python's, filters built from strings, slices |
| remote repositories (`ddd/repositories/http.py`) | where a listing stands | one HTTP request per operation, one per page | the resource of another application | a walk over pages while others write, lost answers |
| injection (`injection`) | trees per type, trees per handler, values per parameter and context | `inject`, `value`, change of components | handlers, endpoints, middleware | three caches, a key that changes, components that await |
| routing and URLs (`routing`, `url.py`, `lib/core`) | the route tables | match, mount, reverse | everything | first match, partial matches, nested prefixes, a second resolution |
| middleware, responses, websockets (`debug`, `middleware`, `telemetry`, `http`, `endpoints`) | what each layer remembers of a response; the two states of a connection | `__call__` and `send` of each layer, accept, receive, send, close | the ASGI server | an exception at any point of an answer, a client that leaves, held-back messages |
| schemas and document (`schemas`) | the schema registry | classification of parameters, validation, OpenAPI generation | routing, injection | the same classification made in two places, references followed by name |
| LLM decoder and codec (`models/engine/llm`) | marker buffers, open channels, tool buffers | `decode` of each delta, `flush`, detection | backends, stream buffers | markers split over deltas, blocks that do not close |
| model serving (`models/resources`, `wire`, `transport`) | state of a renderer, of an assembler | parsing, rendering and assembling in six dialects; the handlers | stream buffers, backends | one generation told in two ways; a refusal after a buffer was created |
| model files (`serialize`, `models/_base.py`, `models/components.py`) | header and names read early, model loaded late | `dump`, `load`, `meta`, `manifest`, startup | framework serializers | three readings at three times, a writer that stops half way, two versions |
| MCP server (`mcp`) | registered tools, the task table | JSON-RPC dispatch, tool calls, tasks, elicitation, cancel | tools | a cancel against a result, answers over several rounds |
| background tasks, authentication, cryptography, codecs, configuration, client, CLI, upgrade, templates | little or none | conversions and pure checks | | |

For each, what can go wrong and where is in the `hazards` of `PROJECT.json`, with the properties
that would catch it.

## Modules

Texts are sequences of symbols throughout; payloads are model values or what they are made of. An
optional value is a sequence of at most one element.

### StreamBuffer, Channel, StreamBufferProofs

One buffer from creation to the end of its last consumer. State: `log` is what the line index of
the durable tier covers; `deque`, `base`, `total` are the three dictionaries of
`InMemoryStreamsBackend` at the key; `tokens`, `stop` are attributes of `StreamBuffer`; `prod`,
`held`, `emitted` say where the `load` task is; the rest are the locals of each `_iterate`
generator (`cursor`, `upto` for its `length`, `last` for its `done`, the batch being yielded),
whether the condition has woken it (`notified`), and three histories: `got`, `snap`, and `skewed`,
the generators that read while the producer was suspended.

All coroutines share the loop, and none of the `async with condition` bodies suspends but in
`wait()`. So `Store` is the durable append, the in-flight append and the notification in one step,
unless the tier is full; then the block is in the durable tier and not in flight until `Unblock`.
`Read` pops in flight and, when there is a hole, suspends in the durable read that `Fill` ends. Only
the end of an append notifies (`Admit`): a generator that it wakes reads on (`Wake`) or, having had the
block already, waits again (`Sleep`), and one that waits beside a block in the producer's hands is not woken.
`Take`, `Emit`, `EmitStop`, `Raise`, `Exhausted` are the `async for` of `load` with a source that
yields any kinds of block, stops, raises or ends; `CancelAlongside` is the end of `alongside` when
the single-step client leaves.

`Channel` is what the single-step dialects need: a bounded FIFO channel whose client is served
until it leaves. `StreamBuffer!AsChannel` maps the buffer without durable tier to it: what was sent is
what the tier holds and what was popped, what was received is what the client got.

### StreamRegistry, StreamRegistryProofs

All the buffers of a model and the directory they are written to. An append is its three points
(open, write, index), a removal its two (forget, unlink), and `CleanupTask` its two passes, by age
and by disk usage, each with the snapshot it took before the first await. A write or an unlink may
fail. What a producer suspended on a full tier sees when its buffer goes is here, and what the close
of the application leaves.

### ThreadBridge, ThreadBridgeProofs

`concurrency.iterate` with one thread and one generator. `thread` is the point of `_produce`,
`future` the concurrent future of its last `run_coroutine_threadsafe`, `itemPut` and `endPut` the
tasks of the two kinds of put in the loop, `queue` the one slot. A put that finds the queue full
waits and is *woken* when a slot frees, and only later runs: the step in which the release race
lives. `Leave` is the `finally` of the generator at any of its awaits.

### FileReader

The task and its reader, over every file, range and chunk size within `MaxSize`; a chunk is the
pair of its offsets. `Aclose` is allowed at every await; `Cancelled` says where the cancellation
takes the task, before, inside and after the `try`. `ThreadBridgeProofs` proves about it too.

### Lifespan, MC_Lifespan, LifespanProofs

One `Lifespan.__call__` per application in the tree: `pc` walks the phases of `_startup` and
`_shutdown` in the order of the code (`AfterStartup`, `AfterShutdown`), `_child_propagation`
starts the calls of the mounts and `Join` ends them. Both versions of `run_task_group` are here:
`grouped` is the TaskGroup of Python 3.11, which raises and of which `Cancel` is the cancelling of a
sibling of the one that failed; without it `asyncio.wait` (3.10) waits for all and looks at no outcome.
`mounted`, one of `Trees`, is what the root mounts and `AppOf` the application a mount leads to, so that
one application may be mounted twice: its second call is refused by its status, so that under a
TaskGroup its root never gets ready. What the status of a root says of its mounts (`Follows`) depends
on the version: the same status, or on 3.10 the same or FAILED.

### UnitOfWork, Collection, MC_UnitOfWork, UnitOfWorkProofs

Requests on a resource. A unit goes through lock, `open_connection`, `begin_transaction`, the
statements of its method, `end_transaction`, `close_connection`, unlock. Both connection managers
are here (`single`), with their sets, attributes and counters. The database is external: what a
transaction changed is kept apart until its commit, reads see committed rows and their own, and a
write waits for conflicting writers. It may fail at any await when `MayFail`; a commit that fails
takes no effect. `Collection` is what a resource promises: a request takes effect as a whole at one
instant or not at all, and its answer says which; `AsCollection` maps the units to it.

### Filtering, Resources, RemoteResource, BothSides

`Resources` is what a class becomes: `ResourceType` looks a model, schemas, filters and methods up
in the body and then in the bases in its own order (`AttributeOrder`), and takes some out of the
body as it goes (`Left`). `Filtering` parses the raw values of a query into clauses and says which rows
each keeps, SQL's unknown included. `RemoteResource` is the HTTP repositories of several clients against
the CRUD handlers of one such class: a walk sends one request per page, another client may write
between two, and an answer may be lost. A page is cut from the
rows in the order of `order_by` (`InOrder`). `CallsMakeSense` is what a caller of the repositories may send:
keys of the table, values for columns that are no argument of the handler, and a class whose column is a
number, so that it grants no operator on texts. Each request is served at one instant, as `UnitOfWork`
implements `Collection`; `BothSides` has the two sides of a resource next to each other, `MC_UnitOfWork`
checks them in one run, a behaviour being of one side, and `UnitOfWorkProofs` proves about both.

### Events, ToolParsers, Decoder, Generation, MC_Generation

`Decoder` has the marker scanners, the known tool parsers being in `ToolParsers`, the state machine of the
codec (`Feed`, `Transition`, `Flush`), and the detection of a decoder from a template and a sample
(`Detected`). `Generation` is `LLMCodec.decode` around it: an engine yields deltas cut anywhere, with or
without counts, and may raise; what comes out is compared with
`Whole`, the same text fed at once.

### Wire, Dialogue, Serving

`Wire` has the renderers and the assemblers of the native, Anthropic, OpenAI (chat, completions,
responses) and Ollama dialects, with the `EventBuffer` between events and frames. `Dialogue` goes the other
way: raw messages of a request through the parser of its dialect, the three transports and the
chat template of a backend. `Serving` composes them in the handlers: a request is parsed, a stream
or a query is begun, refused or fails, and the answer comes back as the history of the next request.

### Mcp, MC_Mcp, McpProofs

An application's servers with their tools, templates and tasks. `Serve` is the order of checks of a
JSON-RPC request against its routing headers; a tool call runs inside its request or as a task, asks
its client questions over several rounds, and is cancelled at any of its awaits. A stubborn tool
swallows the cancellation.

### Url, Routing, RoutingProofs, Requests, RequestsProofs, MC_Requests

`Url` parses, joins, matches and builds paths as `url.py` and the matcher of the Rust core do.
`Routing` registers routes and mounts in tables, takes a request through them with the rewriting of
`root_path` and `path`, and resolves it again from the rebuilt path, as the wrapper of a handler does.
`Requests` is the answer's way out: layers of error, exception, compression, telemetry, CORS and hook
middleware, each with its `send` wrapper, a response that is sent whole, in chunks or as a stream, an
exception at every point, the client that leaves, background tasks, and the WebSocket endpoint with both
of its connection states.

### Injection

The one injector of an application. A tree is the sequence of its steps (`Build`); trees are kept by
type (`KeepsTree`), by handler, and values by parameter and context. A context is both key and changed in
place: an entry remembers the hash its context had when it was stored, and is compared with what it
holds now (`Cached`). `loop` says which coroutine runs: others get their turn only where a component
awaits, as in the code. `Worth` is the reference, what a parameter is worth without any cache.
`MC_Requests` checks it in the run of `Requests`.

### Handlers, Document, MC_Routing

`Handlers` classifies the parameters of a handler as of the path, of the query or of the body, once as
`ParametersDescriptor` does for the document and once as the validating components do for a request.
`Document` gathers the endpoints of a tree of routers, the schemas they register, the operations and the
references, and the schemas that are used. `MC_Routing` builds the document of every table of `Routing`.

### ModelFile, Serializer, Packaged, MC_Packaged

`ModelFile` is a model file cell by cell, `Serializer` both protocols over it: header, model
section, artifacts, codecs, tar streams. `Packaged` dumps at a path that may hold an older file and
stops half way, copies end early, and meanwhile an application registers, inspects and loads the
model at three different times. What a codec makes of a frame that was cut is the codec's: `bz2`,
`zstd` and `lzma` raise, and `Lenient` names those that give what there is, here `zlib`, whose decoder
in `flate2` takes the end of its input for the end of the frame (an assumption on that library).
A bundle is untarred while it is read and no further than its zero blocks (`Untar`,
`compression.rs:554`), so one whose frame was cut behind them loads whole, and a raw one cut between
two members loads without the rest.

`ReadsBack` therefore tells three cases apart. A dump that failed, died or is being written is never
loaded. A finished file, cut or not, is the model that was dumped or is refused, when the codec of
what it ends with tells its end (`Sealed`). Without such a codec a cut one may be a beginning of that
model, of which only the part written last is short; that `CutsRefused` fails is a finding.

## Runs

| run | bounds | shows |
|---|---|---|
| stream_ephemeral | 1 consumer, capacity 2, 6 blocks | a buffer without durable tier implements the channel, in exact order, and always serves its client |
| stream_durable | 2 consumers, capacity 2, 3 blocks and the end, of one kind | the tiers stay aligned; a read is the durable slice, and what it is while the producer is suspended (`ReadsTold`); the end sums up what was recorded and a consumer has one gap at most, at the replay boundary (`RecordTold`); a stream that is done frees everybody |
| registry_sweep | 2 buffers, capacity 1, disk limit 1, 2 blocks, 1 fault, 1 sweep | a removal is whole: the index describes the file, nothing is left, a waiting producer is woken; a pass of the sweep settles what it set out to |
| bridge | 4 items | order, backpressure, promptness; the generator returns |
| file_ranges | files and ranges up to 5 bytes, chunks up to 3 | the reader delivers the range exactly, ends once opened, and its close always returns |
| lifespan_tree | root and 2 mounts, on 2 applications or on 1, either `run_task_group`, 2 modules, 4 messages, any hook raises | status tells the truth, lifetimes nest, every message is answered |
| units | 2 units, 2 workers, 2 keys, the database may fail; 3 remote clients, page size 1, 4 rows listed | bodies use their own connection, a unit that returns leaks nothing, requests are atomic and end unless one of their worker broke; a remote listing, its errors and its filters agree with the resource, and a class is made as it declares |
| generation | texts of up to 3 pieces, up to 3 cuts | how a text is cut does not matter, blocks bracket, a resumed stream is exact, a stream and an answer say the same, a refusal leaves no buffer, an answer sent back is the history it was |
| mcp | 2 servers, 1 handle, 2 questions, 2 values | a working task is driven, answers are kept, what is asked is vouched for, a cancelled task stays so |
| routing | an application of 2 routes, a child and a grandchild of 1, 14 paths with their methods | both resolutions agree and `Allow` is exact, the document is true, built URLs match, what was served stays served |
| requests | 5 stacks, 2 chunks, 2 WebSocket messages; 2 connections, 2 messages, 3 receptions, 4 cache entries, 4 handlers | one answer per request, connections settle, and injection through its caches equals injection without |
| model_file | 2 dumps of 18 requests, 8 of which fail, cut anywhere | what was not finished is not loaded, what is loaded is what was dumped or, unsealed and cut, its beginning; the readings of a file agree, a loaded model is one model |

A property that is a conjunction names its parts where it is defined, and each part has its comment.

Why the bounds are enough. A buffer of capacity 2 with three blocks and an end fills, suspends, is
popped from the head, from behind the head and past the end, and leaves room for a replay, a gap and a
tail after it; a second consumer is what makes one pop what another one counts on, a third adds no new
relation. The kind of a block matters only to the token count, which `EndIsTrue` proves for every
kind. Two buffers are the one a sweep takes and the
one it leaves, and one fault at every point shows what each step leaves. A queue of one slot shows
all there is with one item in hand, one queued, one delivered and the sentinel. Five bytes in chunks
of up to three meet every order of chunk end, range end and end of file. Two mounts are one that
fails and one that is at any other phase, or two calls for one lock; a second module makes a
half-started application. Two
units on two workers are both sharing and not sharing a lock; four methods use every statement of
the repository and every way to combine two. Pages of one row are what a concurrent write shifts by
a whole page. A marker of two or three symbols can be cut at each of its inner places by up to three
cuts, a false start of one included. A child and a grandchild are the nested prefixes that a
resolution must peel one at a time. A tree of a handler has a component over a component, shared by
two parameters, and four entries are fewer than the messages and connections want, so that the cache
is full when the next value comes. Two dumps at one path are an old file and its overwriting.

The mutants of `PROJECT.json` change one definition each the way a bug would (a block dropped, a
lock not taken, a part of a key forgotten, a check after what it guards), and each is caught by the
property it is listed with.

## Findings

What the models show the code to do that its documentation, tests or names say otherwise. A property
in parentheses is defined in the module and named in no run: it is violated when it is named in a cfg
of that module, with the constants given here.

Streams and concurrency:

- Blocks recorded while a consumer replays the log may be skipped when it turns to the live tail
  (`streams.py:537`, against `streams.py:524`; `StreamBuffer!ReplayComplete`, one consumer, durable, no capacity).
- While the producer is suspended on a full tier the durable tier is a block ahead, and `read` takes the
  blocks in flight for the end of the range: the first of them is read twice and the block in the
  producer's hands not at all (`streams.py:628-630`, against "consumers reconnecting see no gap", `:481-484`,
  and "absolute indices align across both stores by construction", `:626-627`; `StreamBuffer!ReadsAligned`).
  The cursor then goes past that block, and its consumer never has it. `ReadsTold` says exactly what is
  read, and `ReplayThenTail` is about the consumers none of whose reads fell in a suspension.
- A bounded tier may keep its producer suspended for ever, with one consumer too: the cursor jumps at the
  end of the replay over blocks that stay in flight, and a suspended append notifies nobody
  (`StreamBuffer!BackpressureReleases`).
- A put on its way when the client leaves fills the slot that the release emptied, and the thread
  waits for as long as nobody reads (`concurrency.py:193`, against `:191`; `ThreadBridge!LeavingReleases`).
- A reader of a file that does not open waits for ever (`FileReader!AlwaysEnds`, `MayFail = TRUE`).
- An append suspended in its write when its buffer is discarded finds no index, so `load` ends without
  the stop reason it promises (`streams.py:195`, `:581`; `StreamRegistry!LoadEndsWithStop`).
- A server that sends both messages in one lifespan call can never shut the application down: the
  shutdown waits for the lock of the startup (`Lifespan!ServerCanStop`, `OneCall = TRUE`). The first
  module whose `on_shutdown` raises leaves those after it up (`modules.py:65`), and a FAILED
  application admits requests (`applications.py:150`).
- On Python 3.10 (`requires-python` is `>=3.10`) `run_task_group` neither raises what a task raised nor
  cancels the others (`concurrency.py:276-284`): a root is READY over mounts that failed to start and
  SHUT_DOWN over mounts that failed to stop, and an event handler that raises is not noticed, where
  from 3.11 on both fail the root (`Lifespan!ReadyMeansAllReady`; `GroupedReady` proves it for a TaskGroup).
- With a single connection, the second worker may get one that is not started
  (`sqlalchemy.py:127`, against `:120`; `UnitOfWork!SharersWork`).

Requests:

- A plain ASGI application mounted under a path is called with path `/`: `Mount.__call__` applies
  `route_scope` twice (`routing/routes/mount.py:30-34`; `test_router.py` expects the rest of the path;
  `Routing!MountedAppSeesRest`). A mount has no segment boundary, the bare path of a mount is resolved
  again as the path with a slash, and the built URL of a child route of empty path is not served.
- Content is announced as compressed when a skipped stream is sent as it is
  (`compression.py:57`; `Requests!CodedAsAnnounced`).
- A second `websocket.close` follows the client's disconnect (`debug/middleware.py:179-183`); a handler
  that closes in `on_receive` ends with `RuntimeError` (`endpoints/websocket.py:64-66`, `89`); an
  `OSError` of the content of a response is swallowed (`response.py:111-115`); a 405 loses its `Allow`
  header (`debug/middleware.py:208-213`, against `:172`).
- `LRUCache` keeps "the N last recent used items" (`injection/cache.py:11`) and evicts the newest
  (`:22`), so that, once full, a component two parameters share is resolved twice. A cached value is
  a shared object, and stays when a component is added (`injection/injector.py:56-58` drops trees and
  handlers and not `cache`): a connection open then may be given a value the old components made, and
  `InjectionTransparent` speaks of connections opened since (`Injection` without `settled`). When an
  `on_receive` handler changes `data.data`, an equal message arrives changed (without `spoiled`).
- The document: a field `list[X] | None` leaves a dangling reference; `list[int]` is documented both
  in the query and as body; a docstring that is not YAML drops its operation; the paths of a mount
  replace earlier ones, and a later duplicate is documented while the earlier is served; placeholders
  of the path of a mount are documented as query parameters of the child. `Handlers` and `Document`
  model these, and the tables of `MC_Routing` avoid them.

Resources:

- The remote page walk sends `page_number` (`ddd/repositories/http.py:145`) where the paginator reads
  `page`: every page is the first and the walk never ends. `offset` is ignored by the default list, so
  that only a resource paginated by limit and offset can be walked (`RemoteResource!Walks` is the
  condition). Errors of a list are never raised; invalid input is reported as an integrity error.
- A unit whose `begin_transaction`, `end_transaction` or `close_connection` raises keeps the lock of its
  worker (`ddd/workers/_base.py:72-83`, no `try`), and mostly a connection that stays open
  (`ddd/workers/sqlalchemy.py:82-95`): every later request of that worker waits for ever
  (`UnitOfWork!BrokenReleases`). `NothingLeaks` is about units that returned and `UnitsEnd` about
  the workers none of whose units broke; neither covers this.
- `order_by` of an unknown column is a server error; negative pages slice from the end; a bare filter
  is an `eq` even when `eq` is not granted; a child with a model of its own keeps the filters of the
  base's table; of two resources of one name the later repository serves both (`workers.py:44`); in a
  diamond the farther ancestor comes first.

Models:

- A streaming handler leaves its buffer registered when the model raises what it does not expect
  (`openai.py:87` and its like; `Serving!FailedLeavesNothing`). `system` on `/ollama/api/generate` is
  always refused (`Serving!SystemAccepted`). An answer of nothing but reasoning is refused when it
  comes back (`message.py:534`); an empty generation is an error when it is buffered and an empty answer
  when it is streamed; Ollama answers carry `thinking` and its parser reads `reasoning_content`; the
  items of a Responses answer cannot be parsed as input; the index of a tool item may be that of a
  reasoning item (`openai/renderer.py:130-131`).
- Names of artifacts are measured in characters and written in bytes (`serialize/.../v1.py:200`,
  `v2.py:200`): a name with a wide character makes a file that cannot be read. `MC_Packaged!Unreadable` has
  this and the other dumps that finish and do not load, v1's live pipelines and knobs given as a wire
  byte. A finished file that was cut loads as a shorter model when what it ends with has no codec or a
  lenient one (`v2.py:369-372`, `v1.py:177`: nothing compares what was read with the recorded size;
  `Packaged!CutsRefused`). The old model is truncated before the codec of the new one is validated; the
  manifest of a registered model is that of the file it was registered with
  (`Packaged!ManifestDescribes`, `Packaged!FamilyStays`).
- MCP: a JSON body that is not an object is a server error; tasks are never deleted (`mcp/tasks.py:98`);
  a tool that swallows its cancellation turns a cancelled task into a completed one.

## Fairness

- `StreamBuffer!FairSpec`: the load task and each consumer that started are run by the loop, and
  an ASGI server takes what is yielded. Nothing forces a client to come, to leave or a source to
  raise, so those actions are not fair. `Channel!Spec` has the same of its two obligations.
- `ThreadBridge!Spec`, `FileReader!Spec`: the thread pool and the loop make progress; a consumer
  asks for the next item, because its ASGI server does, and is never forced to close.
- `Lifespan!Spec`: every call runs, which assumes that hooks return or raise. A server stops an
  application it started in one call.
- `UnitOfWork!Spec`, `MC_UnitOfWork!MCSpec`: units are run and the driver answers or raises.
- The other specifications state what may and may not happen, and assume no fairness.

## Proofs

TLAPS proves these for every value of the constants that meets the named assumptions of the modules.
Each rests on an inductive invariant that TLC checked on the instance of a run before it was proved.
`PROJECT.json` lists the theorems with the properties of the runs that they state.

- `StreamBufferProofs`, for every capacity, either storage mode and any number of consumers and blocks.
  - `TypeCorrect`, `TiersStayAligned`, `CapacityIsRespected`, `ReadsAreTold`. `StoresAligned` is not
    inductive alone: that a suspended producer holds the last line of the log (`HeldIsLogged`) is what
    makes `Unblock` keep it, and the range of a durable read in progress (`FillInRange`) is what keeps
    `Fill` inside the log. What `Pop` returns, drops and leaves are lemmas about sequences
    (`PopIsResident`, `DropKeepsTheRest`), and what a read is follows for either state of the producer
    (`ReadIsSlice`, `ReadIsShifted`).
  - `EndIsTrue`: `EndInv` relates the token count of the buffer to the trace blocks in its log, whatever
    `load` has in hand, so that the StopEvent of `error` sums up what is there. The count is a
    cardinality, one block at a time (`TracesCount`).
  - `RecordIsTold`: `TailInv` says of each consumer at each of its points what `got` is made of: a prefix
    replayed, then a range of the log from the cursor it took to where it stands (`Told`), unless it is
    `skewed`. Lines that were recorded stay where they are (`SlicesStay`).
  - `ChannelSafely`: the buffer without durable tier and with one client refines `Channel`, step by step.
    `ClientInv` has three parts: what was sent is numbered without a gap (`Feed`), what the producer holds
    is the next block (`Source`), and the client takes all that is resident from where it left off
    (`Drain`). It is the safety part of `ImplementsChannel`; `Ephemeral` is its hypothesis, that the buffer
    is of this kind, and the constants of `stream_ephemeral` meet it.
- `StreamRegistryProofs`: `Removal`, that a removal is whole, and `TypeCorrect`, for any buffers, capacity
  and disk limit. The invariant is about one buffer at a time (`Whole`): its descriptor, index and file
  come together until the sweep takes it (`Sound`), a removed buffer is what the steps of the removal have
  not got to (`Gone`), and a producer that was removed while it waited holds the same block until it has
  appended it (`Woken`). `Shut` is for the whole registry, once closed. A step is about one buffer and
  leaves the others as they are (`OthersKept`). `Settled` is the action property `PassSettles`: a pass for
  the budget that ends has been through every finished buffer or leaves the logs it counted within it. Its
  invariant (`Pass`) says that a pass lists done buffers of the pool, each once, that the total it keeps is
  never below the logs of it that are left, whatever producers append and others remove, and that a buffer
  that is done is not opened again. The budget is a sum over a finite set; what it loses with one entry is
  proved from a smallest counterexample. The order of the pool is filtered by a recursive function (`Among`),
  which the prover can expand.
- `ThreadBridgeProofs`: `Faithfulness` and `Restraint` with their parts (`OrderKept`,
  `SentinelIsLast`, `Backpressure`, `Promptness`), for sources of any length. The inductive
  invariant relates the point of the thread to the two puts and the future (`Phase`), the number of
  items taken to those delivered and queued (`Count`) and the flag to what the thread may still do
  (`Prompt`).
  - `RangeIsWhole`, with `ReaderTyped`: a reader of a file that comes to its end without an error has the
    range it asked for, for files, ranges and chunks of any size. It is the safety part of `ReaderSettles`. The
    invariant says that the chunks follow one another (`Follow`), that the slot goes on from them and holds
    the sentinel only when the task has ended (`Offered`), and that the file object stands behind both,
    at the end of the file or the range once the loop is left (`Stands`). `Sized` is the assumptions of
    `FileReader` on its constants.
- `LifespanProofs`, for any number of modules and any set of mounts on any applications: `LockExcludes`
  and `FailureIsFinal`, from the invariant that a call in a phase holds the lock of its application, and
  `StatusIsTrue`, `GroupedReady`, `Nesting` and `TypeCorrect` from `Life`, for both versions of
  `run_task_group`. A status alone says too little to be inductive: `Staged` adds what is up at each
  phase of the call that is at work, `Settled` that a passing status has a call at work, and `Family`
  that no mount moves before its parent has come up or after it is going down, and what the statuses
  of the mounts are when the parent relies on them.
- `UnitOfWorkProofs`, both sides of a resource.
  - `Isolation`, `NoLeak` and `TypeCorrect`, for any number of requests, workers and keys, with the
    database failing anywhere, under `NotShared`: a single connection serves one worker (what happens
    otherwise is `SharersWork`; several connections need no such condition). The invariant is mutual
    exclusion by the lock of the worker (`Locked`), what a unit owns at each of its awaits (`Stage`) and an
    empty manager when nobody is inside (`Idle`). Each step is shown to stay in its `Frame`, which leaves
    the other units alone (`FrameKeeps`), and to bring its own unit to its next stage.
  - `Atomic`: the units refine `Collection`, under `NotShared`. `Effects` says what the changes a
    transaction holds are at each point of its program (`Proper`), and that two transactions at work have
    none in common (`Apart`). From it each step is an effect, an answer or a stutter of `Collection`
    (`StepSimulates`).
  - `CallersAreTold`: what the caller of a remote repository is told happened. Each handler is shown to
    answer honestly for the table it found (`Honest`), and the invariant that the answers on their way are
    (`Promised`). `CallsAssumption` is `CallsMakeSense`; TLC evaluates it on the instance.
  - `WalksFaithful`, that a listing is faithful (`ListingFaithful`), whatever others write between two
    pages. The invariant (`WalksKept`) is of the walks under the condition `Walks`: what is listed or on its
    way was there at some time; as long as nothing is created its keys are in order and none is further down
    the table than its place in the walk; as long as nothing is deleted, what was there all along is listed or
    at least as far down as the walk is long. A page is related to ranks by `Ranks`: in a finite ordered set
    the number of those before an element tells it apart.
  - `SearchesAnswered`, that a search finds what its values say (`SearchAnswers`): the clauses read from a
    query keep a row exactly when its values do, NULL and negation included (`SearchKeeps`), and the page is
    the one asked for in the order asked for (`PageHolds`, from `SortedOrders`, `SliceIs` and `Blocks`, the
    last on the quotient that tells the page of a row). The invariant (`SearchesKept`) is that an answer on
    its way, and what the caller has of it, is that page of the table as it was served.
- `RequestsProofs`, for stacks of any depth, any order of the layers between `ServerErrorMiddleware` and
  `ExceptionMiddleware`, any number of chunks and of messages. `OneAnswerOnly` needs what every layer
  remembers: a layer that tracks the start and has not seen one has a clear way to the server (`Guarded`),
  and what is on its way, held back or delivered is one start and then bodies (`Positions`). `Settled`
  adds how far each kind of connection is (`Settling`).
- `RoutingProofs`, for any routers, routes and requests: `ServedIsKept` and `AllowTellsTruth`. Both rest on
  the first of a set of routes being well defined (`FirstIsLeast`), from the well-founded order of the
  natural numbers.
- `McpProofs`: `Driven`, `Answered` and `Cancellation`, for any servers, entries, handles, questions and
  values. The invariant (`Sound`) is that the status of a task and the point of its runner agree, and
  that a call that runs or waits has every answer it was given; a step touches one call, so it is
  preserved one call at a time. `Checked` needs the request a plain call was accepted for to be the one its
  result is given to (`Trusted`).

Only model-checked, and why:

- Liveness, under fairness: `GeneratorReturns`, `ReaderSettles`, `EveryMessageAnswered`, `UnitsEnd`,
  `DoneEndsConsumers` and the fairness of `ImplementsChannel`.
- `ChunkingIrrelevant`, `ProtocolKept`, `StreamMatchesAnswer`, `RefusedLeavesNothing`, `HistoryKept`,
  `DocumentIsTrue` and `InjectionTransparent`: they are about recursive operators over texts, schemas and
  trees (`Decoder`, `ToolParsers`, `Document`, `Injection`), which the prover does not take.
- `MadeAsDeclared` goes through the ancestors of a class, `BuiltUrlsMatch` and `ResolutionsAgree` through
  folds over the text of a path, `ReadingsAgree` and `TiersTogether` through the layout of a file: what each of
  these computes is an induction over data. `MadeAsDeclared` does not hold of every hierarchy either (in a
  diamond the farther ancestor comes first), and the second resolution agrees with the first under routers
  that are mounted in an application, not in one another; the instances are such. The part of
  `ResolutionsAgree` that is about the routes alone is proved (`AllowTellsTruth`).

One hazard has no property that a run checks: the client counter of a connection that workers share
(`sqlalchemy.py:127`), because `SharersWork` does not hold.

## Plan

Done: the modules above, their runs, and for each component whose steps the prover can reason about the
safety properties that its run checks. What is left:

1. *Serving*: `RefusedLeavesNothing` proved, once the decoding of a text is a parameter of the module
   and no recursive operator is in its reach.
2. *Routing*: the second resolution under routers mounted in one another, from a lemma about what `Template`
   makes of two joined paths, which is an induction over their text.
3. `worker.commit` and `rollback` inside a body, the life of the HTTP worker, and `with_heartbeat`
   around a source that is cancelled while a value is ready.

## Not modelled

- Authentication, cryptography, codecs and configuration are pure conversions and checks that keep
  nothing between two calls; their tests compare inputs and outputs well. The client adds to its HTTP
  library the lifespan calls, and those are the server of `Lifespan`.
- The command line and the upgrade tool are batch programs over files and arguments.
- `with_heartbeat` adds frames between events; `is_async`, `run` and `AsyncProcess` keep no state.
  `alongside` and `run_task_group` are modelled where they are called.
- CORS, sessions, trusted hosts, HTTPS redirect and the data of telemetry are header work on one message.
- The adapters of the schema libraries are whether a value is accepted; framework serializers, engines,
  the database, the ASGI server and asyncio are external and enter the modules as what they may do.
- Parts that are modelled only in part say what is missing in their note in `PROJECT.json`.
