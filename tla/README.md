# Feedback Ingest: specifications and proofs

Feedback Ingest is one process with one thread: `main()` (src/src/main.cpp)
reads four loader files, spawns a coroutine for every subscription of a tenant
to a data source, spawns the accept loop of an HTTP server, and runs them all
on one `boost::asio::io_context`. Coroutines interleave only where they
`co_await` something that suspends, so the questions worth asking are about
what changes between two such points: who has been answered, what has been
written, how much time has passed, which failure ended whom.

## Inventory

| part | code | state | operations |
|---|---|---|---|
| registry | `registry/in_memory_registry.hpp` | next key, free list, map | `register_value`, `get`, `has`, `remove` |
| startup and loaders | `main.cpp`, `tenant/read_tenant_file.hpp`, `data_source/data_source_loader.hpp`, `*/load_*_file.hpp` | the map from a loader file's tenant numbers to keys | read the tenants; register and spawn every subscription |
| operation states | `data_source_operation_state_registry.hpp`, `any_operation_state.hpp` | the object each coroutine runs in, and what refers to it | `register_value` (spawns `start()`), `remove` (no caller) |
| HTTP server | `rest_server.hpp`, the `send_*` of `http_ops.hpp` | route table, acceptor, a coroutine per session | `register_route`, `start_server`, `session`, `handle_request` |
| notifyu source (push) | `data_source/notifyu/` | its ids and route | `start` (registers the route), the request handler |
| discourse source (pull) | `data_source/discourse/`, `timer/asio_timer.hpp` | start time of the last sleep | `start`, a fetch per day |
| filepp source (pull) | `data_source/filepp/`, `timer/asio_timer.hpp` | none | `start`, a re-read of its file every 30 minutes |
| HTTP client | `http_get` in `http_ops.hpp` | a socket and a timer per call | resolve, connect, handshake, write, read or time out |
| sink | `sink/json_sink.hpp`, `write_file` | the dump directory | `write` |
| transforms | `*/algorithms.hpp`, `schema_serializers/` | none | raw JSON to schema to JSON |
| optional | `optional.hpp` | a flag and a union, or a pointer | every constructor, assignment and function of `optional<T>` and `optional<T&>`, the comparisons |

How they interact: loaders fill the registries and spawn the coroutines;
notifyu sources register a callback with the server; its sessions call that
callback; discourse sources call `http_get`; all sources write to the one
sink, which nobody else reads. All share the thread and its queue. Nothing is
persisted but the dump, so a restart begins with empty registries and routes.

What is hard about it: the answer to a client is sent before its reviews are
written; every exception ends the coroutine that meets it, and nobody starts it
again; the thread stands still during a TLS handshake, and with it every other source and the server; the day a window ends
and the time a timer starts are read at different moments; an HTTP error is read as if it were an answer; the process may die
anywhere. In `optional.hpp`, which builds and destroys objects by hand, it is the exception of a member of `T`
between a change of the object and the change of the flag.

What makes each part correct is stated under "Runs" with the properties.

## Modules

| module | what it is |
|---|---|
| `KeyAllocator` | what a registry promises: a new key is not in use |
| `InMemoryRegistry` | the registry, with a history variable for what its clients were told |
| `OperationStates` | the registry of operation states, with the coroutines, routes and sessions that refer to them |
| `ReviewDelivery` | what the push side promises its clients |
| `JsonSink` | the sink: operators that other modules conjoin to their actions |
| `PushIngestion` | the event loop with the accept loop, sessions, notifyu sources and the sink |
| `DiscoursePolling` | one discourse source with its timer and the sink |
| `FileppPolling` | one filepp source with its timer, its file, and the sink |
| `HttpGet` | concurrent calls of `http_get` on the one thread |
| `LoaderStartup` | `main()` before `ctx.run()`, over several runs of the program |
| `FeedbackTransforms` | a batch on its way from raw data to the content of a dump file |
| `FeedbackIngest` | the program: instances of `PushIngestion`, `DiscoursePolling`, `HttpGet`, `FileppPolling` on one thread with one sink |
| `OptionalValue` | what the comments of `optional.hpp` promise of each call |
| `OptionalStorage` | `optional<T>`: flag, object, exceptions of `T`'s members, specialisations |
| `OptionalReference` | `optional<T&>` |
| `OptionalCompare` | the comparison operators |
| `Optional` | the three parts of `optional.hpp` side by side |
| `MC*` | instances for TLC where a constant needs a definition |
| `*Proofs` | theorems about the module they are named after; `DiscoursePollingProofs` also those about `HttpGet`, whose calls the source makes, `InMemoryRegistryProofs` those about `OperationStates` |

Each module opens with the code it models; its actions carry the names of the
functions where they have one. Faulty variants of some operations stand beside
them, marked as such; nothing refers to them: they are the mistakes each run has to detect.

### Registry

`cur_key`, `unused` and `registry` are the fields of the class; `RegisterValue`
takes the last key of the free list or draws a fresh one, `Remove` does
nothing for an unknown key. `emplace` is modelled as what it does for a key that is
there already (nothing), so that `GetReturnsRegistered` is a property of the
allocation and not of the map. `get` and `has` change nothing.

### Operation states

`register_value` registers the object, takes its address and spawns its `start()`; `remove`
destroys it. Three kinds of pointers may be left over: the suspended coroutine, the callback in the route
table, and the sessions suspended in that callback. `Use` records in `misused` a step that goes through
such a pointer when the object is gone. No caller of `remove` exists, so the
module lets anybody remove at any time, and whoever removes a state that is in use has its freed memory read, in the model as in
the code: that is not ruled out. What `StartedOnceAndKept` rules out is that anybody else is hit. `register_value` starts not the object it was given but what
`get` returns for the key it just drew, and a `remove` destroys what the key stands for now; `starts` and `fate` count the calls of `start()`
and record what the clients did, and the property says that every registered state was started once and is there until
its own client removes it, however many others are removed, twice or while in use, and their keys drawn again.
A state is registered once, since the loaders make a new object for each subscription.

### Startup

A loader file is the sequence of its lines that are not blank; a line is what it says
of the source (name, topic, path or route: one value) and the numbers behind that. A word where a
number should be reads as 0 and ends the line, as `stream >>` does it. Reading on
past the end of the line leaves an `int` uninitialised: any value of `Garbage`.

| action | code |
|---|---|
| `Start`, `RegisterTenant` | `load_tenant_file`, `register_all_tenants`, `register_entry` |
| `OpenFile`, `ReadLine` | `load_from_file` and the `get_loader_entry` of the file; `entry_map.at` of an unknown tenant aborts `main()` |
| `RegisterSource` | `load_into_application` for one entry, with `register_value` of the operation state registry for each subscriber |
| `Run` | the rest of `main()` |
| `Write` | any source writes: all that matters here is into whose directory |
| `Edit`, `Stop` | the operator; lines are only added at the end of files |

All lines of a file are read before any of its sources is registered, as in
`load_from_file`. `register_value` is modelled by what it does while nothing is removed, which
nobody does at startup: it returns the number of values it has.

### Push side

`ready` is the queue of the `io_context`. A coroutine runs from the `co_await`
that resumed it to the next that suspends it, in one action, taken by the task at
the head of the queue; completions (`AcceptReady`, `Receive`, `SendDone`, ...)
put a task at its tail in any order. `at[c]` is where the session of client `c` is suspended.

| action | code |
|---|---|
| `StartSource` | `notifyu_operation_state_t::start` |
| `StartServer`, `AcceptReady`, `Accept`, `AcceptFails` | `rest_server::start_server` and its detached completion |
| `Receive`, `Disconnect`, `ReadFails` | `async_read` in `session` and its exception |
| `Handle` | `handle_request` with the handler up to its first suspension: parse, check the token, begin to send 403, 200 or 404, or end without an answer when parsing throws |
| `SendDone`, `SendFails`, `Finish` | the `async_write` of a response, and the end of a session that stores nothing |
| `Store` | from the sent 200 to the end: `sink.write` never suspends |
| `Crash` | the process dies, perhaps with a file created and not written, and starts again |

A body is one of five kinds. `"lacking"` is a review without one of its fields:
`operator[]` of a const `nlohmann::json` is then undefined, and the model lets
it throw or go through; dying is `Crash`. Reviews are abstracted to the request
they came in. Two sources may ask for the same route: the README of the
repository leaves that undefined, the code gives it to the last one, and so does the model.

### Sink

`files` maps file names (tenant, source, stamp) to contents. `Write` includes the
silent failures of `std::ofstream`: no file, or an empty one, and `write`
returns. `WriteThrows` is `create_directories`. `clock` counts readings
of the system clock: two readings with a file write between them are taken to
differ, which holds for the nanosecond clock of the supported platforms unless
it is set back.

### Discourse

Time is counted in ticks, `DayLength` of which make a day. The window of a fetch
is sent as two dates; `Days(w)` are the days Discourse returns for it, when it
reads a date as its midnight: from the first date up to the one before the
last. That reading of a service outside this repository is an assumption, and so is that it returns no posts
when asked for no ids. `http_get` looks at no status, and `operator[]` of a json that is not const adds the key
that is missing, so that an error in JSON (`"reply"` in `Faults`) is an answer without posts (`Schemas`).
`loaded` is a history variable with the windows handed to the sink, and whether Discourse had answered. `Sleep` is the part of
`execute_every` between two callbacks: `start_time` is taken after the callback
returned, while the window's end was taken when it began.

### filepp

`Load` is a whole call of `extract_transform_and_load`: neither `read_file` nor the sink
suspends, so that nothing of this process comes between the read and the write. The supplier of the file
is another process, which puts a new version in the place of the file at once (`EndVersion`) or truncates the file and writes over it
(`BeginVersion`, `EndVersion`), so that a part of it can be seen; a part of a JSON array does not parse. `read_file` streams the
file buffer by buffer, and a writer may pass it: `ReadOvertaken` reads the beginning of one version and the end of the next
(`Splices`), with a conversation lost or made into another one at the cut, if what comes out parses at all. One read is overtaken
once at most, which is an assumption. `spliced` has the stamps of such reads, and what the dump may hold under them is a part of `DumpsFollowVersions`.
A version with a malformed conversation parses, and `to_schema` throws (`HasSchemas`). `Fail` ends the source, like every
exception in the code.

### Transformations

A batch of `FeedbackTransforms` passes the stages of the code: raw elements come in
(`Supply`), for Discourse after a search and a request for the ids it found (`Find`, `Search`,
`Answer`), are turned into schemas all at once or not at all (`Transform`) and into JSON
(`Serialize`). Objects are functions from their keys, so that a key left out is
a key not in the domain. `AsInt` keeps the width of an `int`. An
element with a field of the wrong type is the value `Malformed`, at which
nlohmann::json throws. `Lacking` is an element without one of its fields: `operator[]` of a const json is then
undefined, and the model lets the transformation throw or read any element's values in its place, and the choice of the posts to ask for
take it for a post of the topic or not (`Reading`); nothing is asked of what
becomes of the element itself, only that it takes nothing from the others. That the process dies of it is the end of the batch,
and `Crash` in the push model. An error reply is an `Answer` without elements. What a reader of the dump can know is stated by operators of their own
(`ReadSchema`, `TellsReview`, ...), written from the format and not from the serializer.

### HTTP client

A call waits for a resolver, a connection, with TLS a handshake that blocks the
thread (`Blocked`), a write, and then for `async_read || timer`. The operator `||`
waits for one side to *succeed*: a read error leaves the call waiting for the
timer. After the wait the code looks at the timer's expiry and not at which
side ended, which `Resume` follows. A call counts its ticks up to `Timeout`.

### Composition

`FeedbackIngest` instantiates the components with a shared sink and adds what they cannot say alone.
A fetch begins two new calls of `http_get`, and goes on in the step in which the awaited call returns or throws
(`GoesOn` after a step of `Http`), or does not go on at all. While a handshake runs (`Http!Blocked`)
no coroutine runs: `Free` guards the steps of the fetch, of the filepp source and of the server, but not those of the network, of the clients, of
timers and of the operating system. `main()` spawns the sources in the order discourse, filepp, notifyu and then the accept loop, and so do
the guards of `Poll` and `Dispatch`. The seconds of a call are counted apart from the days of the source.

### tl::optional

`storage` is, for each optional a caller may have, its flag, the object in the union, and `lost`: an object was
overwritten without its destructor, destroyed when there was none, or copied as bytes though its type has a constructor for that.
`traits` says which special members `T` has, which are trivial and which cannot throw; `Selected`, `TrivialCtor` and
`TrivialAssign` are the choice among the storage, copy, move and assignment bases of the header. Every call
has a branch for each place where a member of `T` may throw, with what that leaves of the objects (a swap of two values that fails in its last
assignment has one of them twice). An optional of another type is never `*this`. The standard's
traits call no constructor trivial whose type has a destructor of its own, so that the kind with the one and the other exists only for the
traits of older compilers (lines 52-60). `lastCall`/`call` and `outcome` are what the caller sees.
`OptionalValue` is translated from the comments of the same header, over the contents alone; `KeepsPromises` maps an
optional's content to its object if the flag is set. `OptionalReference` keeps a pointer and ends the program (`running`) where an exception meets a
`noexcept`. `OptionalCompare` is the thirty comparison operators as written, over a `T` with a NaN.

## Runs

| run | instance | shows |
|---|---|---|
| `registry` | 2 push sources with one route, 2 pull sources, 1 client, 4 keys, any order of register and remove | the free list and the map partition the keys drawn; `get` returns what was registered; implements `KeyAllocator`; every state is started once and there until its own client removes it |
| `push` | 2 tenants, 3 sources, 3 routes (one shared, one unregistered), 2 clients, 1 crash, all faults | no 404 on a configured route, tenants isolated, no request stored twice, implements `ReviewDelivery`, sessions end |
| `push_dump` | the same | **violated**: a client that leaves during its 200 |
| `polling` | 3 ticks a day, 14 ticks, 1 restart, failing requests and error replies | no day fetched twice by a process, no day in the dump more than once per process; days are missed only when midnight falls into a fetch; no unfinished day fetched; what Discourse answered is in the dump |
| `filepp` | 5 versions, one of them malformed, 2 polls, a failing disk, 1 restart | a file of the dump is one whole version, or torn, or was read while the input was written over, and then mixes no more than two versions; time stamps follow the versions |
| `loader_startup` | 4 lines, 2 tenants, 2 runs, 3 values of garbage | exactly the stated subscriptions are started; a push source has one subscriber; a directory has one tenant |
| `transforms` | 3-bit ints, 3 texts, 3 elements, 3 posts on 2 topics, elements malformed or without a field | schemas can be read back; the dump says what was sent; only posts of the topic, and all of them that the search found |
| `http_get` | 2 calls, one with TLS, a timeout of 2 ticks | only whole responses that came in time are returned; a wait ends or the thread is blocked for ever |
| `ingest` | 1 source of each kind, 1 client, 1 day, 2 polls, a timeout of 1 tick | what was acknowledged is stored and a version that stays is dumped, whatever the other sources do, unless a handshake never ends; a fetch ends; what was fetched had two whole answers |
| `optional` | 3 optionals, 2 values, 6 kinds of `T`; 3 references to 2 objects; 4 numbers and a NaN | flag and object agree, every object ends once, every call does what its comment says, references are bound and not written, one order in thirty operators |
| `optional_reference_convert` | the references | **violated**: an empty optional of another type assigned to an `optional<T&>` |

`CHECK_DEADLOCK FALSE` is used where the system does stop: all clients are served
and the bounds are reached, a source has crashed, or an `optional<T&>` has ended the program.

Bounds. Two clients and three sources suffice for every interaction the push side has:
sessions share nothing but the queue, the routes and the sink, so a violation
needs a session, one that interferes, and a source that takes over a route.
One crash: a second restart begins in the same state up to the dump.
Four registrations let the free list hold keys while others are in use, and two push sources with one route are what it takes for
one to take the other's callback away; a third would meet the same three kinds of pointers. The
polling run covers four midnights (ticks 3, 6, 9 and 12), so that a window with none, one and two of them follows
each other kind. Four lines are a tenant that comes twice and two sources, or two tenants
and a source that is cut short next to one that is not; garbage of 0, 1 or 2 is a count of none, one or two, and a known
or an unknown tenant. Five versions of an input file are one conversation, another in its place, none, which the sink does not write,
both, and one with a malformed conversation, so that a dump that mixed two versions or put one in place of another would show. A batch of three malformed and good elements has every order of the two.
The HTTP runs need one call that blocks and one that is blocked.
The composition has one of each part, because what it asks is what parts of different kinds do to each other; its day of one tick lets a second fetch meet
a poll and a session, and two polls let one meet what the first left. The tags of the sources differ, so that a file tells whose it is.
Three optionals are a source, a target and the result of a call that makes one; the six kinds of `T` are a string, a
double, one that only moves, one that only copies, and two that mix trivial and hand-written members, which is where the header's
bases are chosen apart. No run with a failing disk is made of the composition: `push` and `filepp` have it.

Fairness. `ctx.run()` takes the next handler whenever there is one
(`WF(Dispatch)`); the operating system reports a waiting connection
and what became of a write. Nothing is assumed of clients: `Served`
speaks of requests that are in, since a session waits for a slow client without
a timer. For `http_get`, time passes and the loop runs; a handshake
need not end, and `WaitEnds` says so. In the composition the loop runs what is ready whenever no handshake
holds the thread, timers expire, and lookups, connections and writes end one way or the other. Weak fairness of each is enough: a fetch
keeps the thread for its steps only, the days of a run are bounded, and nothing but a handshake disables what is ready again and again.
Nobody has to answer, to finish a handshake or a request, or to replace a file: each conclusion that needs the thread says
"unless a handshake holds it for ever" (`[]Http!Blocked`).

### Findings

- `SchemaDumped`: README.md of the repository says "At the last the new schema
  created should be dumped to a sink" (216-217). The handler writes only after its 200 was
  sent; when that send fails, its exception skips the sink.
- `ConvertingAssignReturns`: "Otherwise resets the stored value in `*this`" (optional.hpp:1994-1995) is said of
  assigning an optional of another type to an `optional<T&>`; the operator is `noexcept` and calls `rhs.value()`, which throws for an
  empty one, so that the program ends.

## Proofs

All for every value of the constants under the named assumptions.

| theorem | module | states |
|---|---|---|
| `KeysNeverShared`, `GetCorrect`, `Refinement` | `InMemoryRegistryProofs` | `KeysPartitioned`, `GetReturnsRegistered`, `ImplementsAllocator` |
| `StatesTyped`, `OthersKept` | `InMemoryRegistryProofs` | `StatesTypeOK`, `StartedOnceAndKept` |
| `StatesKeepRegistry` | `InMemoryRegistryProofs` | `OperationStates` keeps the specification of the registry, so the theorems above hold there too |
| `TypeCorrect`, `RoutesReady`, `TenantsIsolated`, `StoredOnce`, `DeliveryRefined` | `PushIngestionProofs` | `TypeOK`, `ConfiguredRouteNever404`, `TenantIsolation`, `ReviewsStoredOnce`, `ImplementsDelivery` |
| `TypeCorrect`, `DaysFetchedOnce`, `DaysMissed`, `DaysFinished` | `DiscoursePollingProofs` | `TypeOK`, `NoDayTwice`, `MissedOnlyAcrossMidnight`, `OnlyFinishedDays` |
| `DaysCounted` | `DiscoursePollingProofs` | `DumpedOncePerProcess` |
| `DaysDumped` | `DiscoursePollingProofs` | `LoadedIsDumped`, if the disk works (`"disk" \notin Faults`) |
| `CallsTyped`, `WholeResponses` | `DiscoursePollingProofs` | `HttpTypeOK`, `ReturnsWholeResponse` |
| `TypeCorrect`, `PushSourcesSingle`, `DirectoriesStable`, `SubscriptionsRight` | `LoaderStartupProofs` | `TypeOK`, `OneSubscriberPerPushSource`, `DirectoryKeepsItsTenant`, `SubscriptionsMatchFiles` |
| `TypeCorrect`, `VersionsInOrder` | `FileppPollingProofs` | `TypeOK`, `DumpsFollowVersions` |
| `TypeCorrect`, `DumpsReadable`, `NothingGarbled`, `TopicKept` | `FeedbackTransformsProofs` | `TypeOK`, `DumpDeterminesSchemas`, `DumpTellsWhatWasSent`, `OnlyTheTopic` |
| `TypeCorrect`, `FlagTrue`, `ObjectsEnd`, `PromisesKept` | `OptionalProofs` | `TypeOK`, `FlagTellsTruth`, `ObjectsEndOnce`, `KeepsPromises` |
| `Compared`, `Rebound` | `OptionalProofs` | `ComparisonsAgree`, `ReferencesRebind` |
| `StorageAlone` | `OptionalProofs` | beside the other two parts `optional<T>` keeps its own specification, so the theorems about it hold there too |
| `ComponentsKeep` | `FeedbackIngestProofs` | in the program hold, each of its component's part of the dump, `ConfiguredRouteNever404`, `TenantIsolation`, `ReviewsStoredOnce`, `NoDayTwice`, `MissedOnlyAcrossMidnight`, `OnlyFinishedDays`, `DumpedOncePerProcess`, `DumpsFollowVersions` and `ReturnsWholeResponse` |
| `DeliveryKept` | `FeedbackIngestProofs` | in the program, too, the server implements `ReviewDelivery` |
| `DaysReachDump` | `FeedbackIngestProofs` | `LoadedIsDumped` holds in the program, if the disk works |
| `AnswersLoaded` | `FeedbackIngestProofs` | `OnlyAnswersLoaded` |
| `DumpLabelled`, `NothingOverwritten` | `FeedbackIngestProofs` | whichever sources share the sink, a file holds lines of the one source and tenant in its name, and stays as it was written |

Each proof module defines an inductive invariant `IInv`, shows `Init => IInv` and
one lemma per action, and derives its theorems from `Spec => []IInv`. What `IInv` adds, and why:

- Registry: the two properties and the types are inductive together. Without
  `KeysPartitioned` a registration could meet an entry of the map, which `emplace` would keep.
- Operation states: only what has been registered is referred to by a key, a coroutine, a route or a session (`OnlyKnownInUse`), so that a new state
  meets nobody who holds an old pointer to it; with `KeysPartitioned` and `GetReturnsRegistered`, that a client's key stands for no state but its own.
- Push side: until the accept loop first runs, the queue is what is left of the initial one and
  the routes are those of the sources already taken from it (`Booting`, `RoutesUpTo`); from then on all have
  started (`Serving`). `ConfiguredRouteNever404` rests on that. A session's code agrees with its request and
  its route's owner (`SessionOK`, for `TenantIsolation`), and only a session that has ended has its
  reviews in a file (`HeldOnlyIfClosed`, for `ReviewsStoredOnce`).
- Discourse: the next window begins where the last one handed over had
  ended or later (`WindowsOrdered`), for which of `start_time`, `window` and `loaded`
  counts depends on the phase. For `DaysDumped`: files are only added, at stamps not used before, so that what is in the dump stays.
  For `DaysCounted`: in each life a day that has not been handed to the sink is in no more files than there were restarts, and one that has is in one more
  at most (`CountInv`); the next window has none of the days handed over before, so that a write adds the second file of no day.
- HTTP client: what ended a wait can be told from the network and the clock (`WaitOK`): a read is
  complete only if an answer came, and a late answer or a fired timer means that the deadline is over.
- Startup: the tenant registry is a prefix of the tenant file (`TenantsRead`), so that
  a directory stands for a line of the file (`DirectoriesAreLines`), which lines added at the end leave alone.
  For `SubscriptionsRight`: `entry_map` has the last key of each tenant number (`KeysAreLast`), what has been read and registered of a file
  is what is no longer left of it (`InOrder`), and every source with a key has its subscribers (`StartedSoFar`).
- filepp: `TypeOK`, which has every file stamped before the clock, so that a new file meets none and no stamp of an
  overtaken read stands for an older file, and the property
  itself, which bounds every version in the dump by the input's.
- Composition: the components are instantiated with their own variables and with their own part of the dump (`FilesOf`), the files
  whose name has one of their ids. Each step is then one of a component as if it were alone, or leaves the component's variables and
  files as they are while at most the clock goes on (`ServerSteps`, `SourceSteps`, `FileppSteps`); for the calls of a fetch there is a third case,
  that it makes them anew (`CallSteps`). For that the batches must be of one source each (`ServerBatch`, `SourceBatch`, `FileppBatch`), and
  what a source writes must be no file of another (`OthersWrite`). So the components' invariants are
  kept by the components' own lemmas, taken from their proof modules by `INSTANCE`, and survive a clock that others move on.
  `IdsCame` ties the two calls of a fetch together. `FilesLabelled` is of the dump as a whole: every file belongs to one of the parts.
- optional: flag and object agree and nothing is lost, of every storage, in every state; with that each call's
  step is computed once for every combination of traits, and is a step of `OptionalValue` or a stutter. The steps are lemmas,
  one for each call, and most of what they rest on is one of an operator on a single storage. Of a reference the types
  suffice, and again each call has its lemma. The comparisons have no invariant: they are unfolded, for two numbers,
  a number and NaN, and nullopt.
- Transformations: the stage of the batch fixes `schemas` and `json` as functions of
  `raw`; the rest are lemmas about the operators, of which `AsIntRange` is the
  arithmetic of the conversion and `SchemaRead` that reading inverts writing. For `TopicKept`, `IdsAt`, a recursive
  function, is shown to list the ids of the required posts and no others; where it takes an induction over the posts, the proof looks at the
  least number for which the claim fails (`LeastNat`), since a rule of induction cannot be instantiated.

The assumptions are those named in the modules: constants that are numbers have a sign, lines and raw data have
their fields, versions of a file differ, special values are not ordinary ones, there is an object to refer to (`ReferenceAssumption`), NaN is no
number (`NumberAssumption` of `Optional`). `FeedbackIngest` assumes what its components assume of the constants it hands on
(`ServerAssumption`, `VersionAssumption`, `TimeAssumption`), so that their lemmas may be used, and that the sources have different keys
(`KeysAssumption`): they come from the one registry of `application_state_t`, and `KeysNeverShared` is proved of it.
TLC evaluates all of them.

Only model-checked is liveness, which under fairness the prover cannot do: `Served`, `WaitEnds`, `AckedThenStored`,
`VersionReachesDump` and `FetchEnds`. Every safety property of the passing runs has its theorem; the two
properties of the runs that expect a violation are refuted by TLC's counterexamples.

## What the properties leave out

Nothing in the repository says what should happen in these cases. The models have them, and the properties exempt them or
take what the code does as right:

- A write that fails silently (`file_ops.hpp:43`): the properties of the dump hold beside lost and empty files and
  allow them; that what was answered or fetched is in the dump is claimed of a disk that works.
- An error of Discourse in the place of an answer: no dump, and the days of its window are lost. `LoadedIsDumped` is about
  answers, and `OnlyTheTopic` about dumps.
- A read of the filepp file that a writer passes: `DumpsFollowVersions` bounds the mixture and does not exclude it.
- An accept loop that an exception has ended: `Served` is about one that lives. A handshake that never ends: see Fairness.
- A response that the thread notices after its deadline is thrown away as timed out.
- Two sources with one route: it belongs to the last one. A tenant number that comes twice means the last line; a line of fewer tenants than it counts
  has garbage for the others, and of more its first ones; an unknown tenant ends the program.
- An edit of the tenant file elsewhere than at its end puts two tenants into one directory.
- The removal of an operation state that is in use.

## Not modelled

- Texts: URLs, request headers (`make_http_get_header`), escaping, UTF-8, numbers in decimal. The one format that a
  property is about is the date in a search URL, modelled by its rounding.
- The page limit of `search.json`: the size of a page and the order of posts in it are Discourse's, and nothing in the
  repository says what the code relies on. Listed as a hazard without a property.
- The restart of the whole composition: the process is killed in `push`, `polling` and `filepp`.
- `std::hash` of optionals, which changes no state; the spellings of `optional.hpp` for older compilers, which say the same.
- `coro.hpp`, `meta.hpp` and the concepts: aliases and traits without state, and `sleep`, which has no caller.
- The overloads of `execute_every` without a deduplication id, which have no caller, and the id itself, which `execute` ignores.
- Build files and tests. The tests were read for what they expect.

## Plan

1. An abstract specification of a polling source, which `DiscoursePolling` and `FileppPolling` both implement.
2. A second discourse source in the composition, with its own calls of `http_get`, so that one handshake can hold up another's answer there too.
