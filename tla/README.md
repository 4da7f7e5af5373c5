# SOMA in TLA+

SOMA is a Mochi-style microservice in C: a *provider* in a server process
manages *collectors*, each served by a *backend*; *admins* create, open, list,
close and destroy collectors through RPCs, and *clients* call them through
handles. These modules specify its core as the code has it, check it with TLC
and prove its safety properties and refinements with TLAPS. Paths below are
relative to the repository (`src/provider.c` and so on).

## 1. The system

| Component | Code | State it keeps | Operations |
|---|---|---|---|
| Provider: handlers, collector hash | `src/provider.c`, `src/provider.h` | uthash of collectors (backend, context, uuid), `num_collectors`, token | the seven RPC handlers |
| Provider: life, backend table | `src/provider.c`, `soma-server.h`, `soma-backend.h` | growable array of backends, seven RPC ids, finalize callback | register, register_backend, destroy, finalize |
| Client library | `src/client.c`, `src/client.h` | client with a count of its handles, reference-counted handles | init, finalize, handle create/ref_incr/release, hello, sum |
| Admin library | `src/admin.c`, `src/admin.h` | RPC ids only | init, finalize, five blocking calls |
| RPC types | `src/types.h`, `soma-common.h` | none | encode, decode and free of inputs and outputs; `list_collectors_out_t` by hand |
| Bedrock module | `src/bedrock-module.c` | provider handles | adapters over the above |
| Dummy backend | `src/dummy/dummy-backend.c` | a parsed JSON object per context | create, open, close, destroy, hello, sum, none of which blocks |
| uthash | `src/uthash.h` | list of collectors in application order, table of buckets | find, add, delete, iterate, expand |
| munit, examples, tests | `tests/`, `examples/` | | third-party code and straight-line uses |

How they interact. A stub in the admin or client library builds an input, calls
`margo_provider_forward` and blocks its own ULT until the reply (hello is
one-way: the forward returns when the request is sent). Margo creates a ULT
for each request in the provider's pool and that ULT runs the handler. The
handler reads the provider's tables, calls the backend through the function
table of `soma-backend.h`, updates the tables and calls `margo_respond`.
Finalisation is a callback margo makes when it is finalized, or that
`soma_provider_destroy` makes.

What is hard here:

* **Interleaving without locks.** ULTs are cooperative, so a handler is atomic
  up to the next call that yields. A backend function may yield: a provider is
  given an ABT-IO instance to hand to its backends, and a backend may make RPCs
  of its own. Across that call handlers keep pointers (`remove_collector`,
  `provider.c:617`), leave a collector visible whose context is being freed
  (`provider.c:433`), or have a collector not yet visible (`provider.c:250`).
* **Two representations of one fact.** `num_collectors` sizes the array that
  `list` fills from the hash; the hash, the counter and the backend's contexts
  must agree at each point where another handler can run.
* **Partial failure.** A backend that refuses to create leaves nothing; one
  that fails to close loses its collector all the same; what `destroy` returns
  is not looked at. Every early return of a handler must pass where its input is
  freed, and hello's does not.
* **Shutdown** with collectors open and backends that block in close.
* **Reference counting** of handles that outlive, or not, their client, with
  calls through them in flight.
* **RPCs that fail.** A forward that fails does not say whether the request was,
  or will be, served; the reply that tells a new collector's id may be the one
  that is lost. Each error path must give back what the call took so far.
* **Registration and finalisation in seven steps each**, against requests,
  against each other for the same provider id, and against `margo_finalize`.
* **A hash taken apart while it is walked**, with a backend's close between one
  item and the next.

What makes each component correct: *the provider* - collectors reachable if and
only if their context is open, each context ended once and used by nobody
after, the counter exact, removals only for those with the token, every request
answered, everything released at shutdown; together, that it is an atomic
collector service. *The client library* - counts equal to what they count, and
nothing used after it was freed. *A call through both libraries* - it
returns, says what happened, and frees what it got. *A Margo instance* -
requests reach the provider they name and no provider is finalised twice or
never. *The hash* - it is the list of its items, however it was added to,
deleted from and expanded.

## 2. Modules

| Module | What it is |
|---|---|
| `SomaCommon` | result codes and RPC inputs |
| `SomaProvider` | the provider: state, one operator per handler, life cycle, properties |
| `SomaProviderInv` | its inductive invariants and the disciplines they need |
| `SomaProviderProofs` | theorems about it |
| `CollectorService` | abstract specification: requests take effect one at a time |
| `SomaProviderService`, `SomaServiceProofs` | refinement mapping from `SomaProvider` to `CollectorService`, and its proof |
| `DummyProvider`, `DummyProviderProofs` | the provider with the dummy backend and its contexts on the heap, and theorems |
| `SomaClient`, `SomaClientProofs` | clients, handles and calls through them, and theorems |
| `SomaLibraries` | how clients and admins come to their RPC ids, step by step |
| `SomaClientProcess`, `SomaClientProcessProofs` | composition of the two: a process with clients, handles and admins, and theorems |
| `SomaSystem`, `SomaSystemProofs` | all calls of both libraries, the RPCs in flight and their faults, composed with `CollectorService`, and theorems |
| `SomaLifecycle`, `SomaLifecycleProofs` | the providers of one Margo instance: registration, destruction, `margo_finalize`, and theorems |
| `CollectorList` | abstract specification: a list of collectors in order of creation |
| `CollectorHash`, `CollectorHashProofs` | uthash as the provider uses it, which implements `CollectorList`, and theorems |
| `MCSomaProvider`, `MCDummyProvider`, `MCSomaClient`, `MCSomaSystem`, `MCSomaLifecycle`, `MCCollectorHash` | instances for TLC |

### `SomaProvider`

| Variable | Code |
|---|---|
| `provider` | whether the `soma_provider` exists and is registered; `"closing"` while inside `soma_finalize_provider` |
| `backend_types`, `backend_bytes` | the array of backends and the size of the block it is stored in |
| `collectors`, `num_collectors` | keys of the hash, and the counter |
| `ctx[id]` | the backend's context of a collector: unborn, being created, failed, live, being closed or destroyed, ended |
| `cur`, `tmp` | the collector `remove_all_collectors` is closing, and the one `HASH_ITER` saved to go to next |
| `pc[u]`, `req[u]`, `held[u]`, `out[u]` | a handler's control state, request, collector pointer, output |
| `input[u]` | what became of the handler's input: not got or freed (`"none"`), decoded, or freed without having been got (`"stray"`) |
| `dangling`, `misuse` | history: freed memory of the provider was used; a backend was in an ended context |

A handler is cut into steps where it can be interrupted and nowhere else:
from its start to the backend call (or to `margo_respond` on an early error),
from the backend's return to `margo_respond`, and the clean-up after it.
`StreamFree(u)` says that no other ULT is on the single execution stream: a
handler inside a backend function lets others run only if that function is in
`Blocking`. Two dereferences are recorded rather than assumed good: `Uses`
notes in `dangling` a provider that is gone, a collector freed since it was
looked up, or `list` writing past its array, and in `misuse` a backend function
that runs on a context which is not, or no longer, live. After a `dangling` the
state stands for undefined behaviour; no property says anything about it but
that it is not reached.

`close` follows the pointer it looked up before the backend call;
`destroy` looks the id up again, with its result ignored. `list` copies the
hash to an array of `num_collectors` entries and replies with the first
`min(num_collectors, max_ids)` in hash order, which is any subset of that size.
`hello` has no reply, whatever happened. `soma_finalize_provider` unlinks and
closes one collector at a time and can be interrupted in each close. Its loop is
that of `HASH_ITER`: it saves the next item, deletes and closes the one it is at,
goes to the saved one, and ends when that is NULL, whatever the hash holds by then;
the order of the hash is left open here (`HeadOf`) and is `CollectorHash`'s subject.
A saved item that was freed meanwhile is a dangling use, with any item next.
A request whose input cannot be decoded is a branch of each handler; as in the
code, only create touches the provider on that path.

The clean-up of the answering handlers calls `margo_free_input` on every path, also
when decoding failed and there is no input (`provider.c:222` to `274`): `Finish`
with `FreesInput`, `"stray"`. Hello's (`provider.c:537-538`) destroys the handle and
never frees the input: its handlers end with `input` still `"decoded"`.
`InputsReturned` says that these are the only two exceptions.

External, modelled from their use: margo creating a handler (`Arrive`),
Argobots' scheduling (`StreamFree`, `Starts`, `Resumes`, `OwnerRuns`) and
libuuid, which is taken never to return a uuid twice.

### The conditions on backends and callers

The repository states no rule for either, and without one the provider is not
safe with a backend that yields. The specification takes three parameters:

* `Blocking`: the operations whose backend function may yield;
* `Serialised`: callers do not overlap a close or destroy with another request
  that names the same collector;
* `Drained`: the owner finalises a provider only when no handler exists.
  `margo_finalize` drains; a call of `soma_provider_destroy` with requests in
  flight is outside this condition.

`MemoryDiscipline` = `Drained` and (`Serialised` or close does not block) is
enough for the provider's own memory; `ContextDiscipline` = `Drained` and
(`Serialised` or only create and open block) for the backend's contexts. The
dummy backend blocks nowhere and so meets both. Note that
`Serialised` is beyond a client that uses hello: it learns nothing of when its
hello has been served.

### `CollectorService` and the refinement

The abstract service has a set of live collectors and callers whose request
takes effect at one instant between asking and being answered: ids are given
out once, an error changes nothing, "no such collector" is said only when it is
true at that instant, a removal is reported by one call only, a list is of
collectors that all exist at once. `SomaProviderService` maps the hash to the live
set, contexts that exist or existed to the ids given out, and handlers to
callers. The instant of a create is when its backend returns, of a close or
destroy when the collector is unlinked.

### `SomaClient`

`client`, `handle` (none, live, freed), the counters, `owner` (the
`handle->client` pointer), `ref` (who holds a reference to what) and `call`
(threads blocked in a forward). Every function is one step but the two
calls, which read handle and client, wait, and then touch neither. Uses of a
freed handle or client are recorded in `dangling`. `Orderly` is the condition
that applications finalize a client after its handles; `soma_client_finalize`
itself only prints a warning otherwise. Failed calls (no memory, no address,
NULL arguments) change nothing and are stutters.

### `DummyProvider`

`SomaProvider` with each backend result replaced by the dummy's: a create or
open parses its configuration (`config[u]`, or the default when there is none)
and allocates a context (`heap[id]`) or refuses a malformed one; close, destroy
and the finaliser free it. `wild` records a context freed that was not
allocated.

### `SomaLibraries` and `SomaClientProcess`

`names` are the RPC names registered in the process' Margo instance, `silent`
those without a response, `doing` the initialisations under way. An
initialisation looks for its first name and then either looks up the others
(`Finds`) or registers all, one call into Margo after the other (`Misses`,
`RegistersName`, `InitReturns`). Finding the first name proves nothing about the
others while another initialisation is between the two: `Serial` is the
condition that initialisations of one library do not overlap, which nothing in
`admin.c` or `client.c` ensures. Without it TLC finds an admin with an id that
was never registered. `SomaClientProcess` makes a client of `SomaClient` with the
last step of its initialisation and has everything else of both modules; the
Bedrock adapters for clients are these functions.

### `SomaSystem`

A call creates an RPC handle, forwards and blocks (`asked`), and does the rest
in one step. `rpc[s]` is the RPC in slot `s`: sent, served by the provider, refused
because nothing of that id is registered, or replied, with who waits for it.
The provider is `CollectorService`, which `SomaProvider` implements, with one
caller for each RPC. Each failure branch of the C functions is an action:
`NoHandle` (`margo_create`), `ForwardFails` and `NoProvider`
(`margo_provider_forward`), `NoOutput` (`margo_get_output`). An RPC whose
forward failed is *abandoned*: its request may be delivered and served after
the caller has gone on, even called again, and its reply is dropped. `refs[c]` is
the number of references the call of `c` has on its RPC handle: one from
`margo_create`, one more for an output while it is not freed; `margo_get_output`,
`margo_free_output` and `margo_destroy` are what these do to it, and `answer.left` is
what is left when the call returns. `Unanswered` are the operations whose response
the client library disabled: their forward does not wait for one. `StrayCount` is
the reply to a refused list, whose count nobody set. The history variables `stayed`,
`known` and `gone` are what the properties compare answers with.

Transports are taken to be reliable: a message somebody waits for arrives or
fails the wait. The code sets no timeout of its own.

### `SomaLifecycle`

`route` maps provider id and RPC to what `margo_register_data` attached:
nothing registered, registered without data (`NULL`), or a provider.
`callbacks` is Margo's stack of finalize callbacks (`PopCallback` takes out the
last one that was pushed for a provider), `heap` the allocated
providers with the number of their collectors, `silent` the ids whose `soma_hello`
was registered to have no response, `doing[t]` where a thread of the
application is in a registration, destruction or `margo_finalize`. Every call
into Margo and every backend close is a step. `left`, while a provider is being
finalised, is how far the `HASH_ITER` loop is from the end of the hash it started
through: it ends when that is 0, not when the hash is empty (that these agree is
proved). With one execution stream
(`one_stream`, chosen by `margo_init`) a thread gives way only in a close;
with several everything interleaves. Conditions on applications, which are
guards: registrations of one id do not overlap; a provider is destroyed once and
without requests in flight to it; `margo_finalize` starts with no registration
or handler under way and waits for destructions; with several streams requests
go to complete providers only.

### `CollectorHash` and `CollectorList`

`head`, `next`, `prev` are the list threaded through the collectors, `tbl` the
table: buckets (a chain and its `expand_mult`), item count, tail and the two
fields that end expansion. A chain is the *set* of its items: a lookup compares
keys, an expansion distributes the items of a chain over two buckets and counts
them, and no result depends on the order they are met in. `Expand` computes the
multipliers from the ideal chain length. `remove_all_collectors` is in steps, with `el` and
`tmp` of `HASH_ITER` kept across the backend's close. `Hash` is a constant, the
value of the hash function for each key; masks are remainders, the numbers of
buckets being powers of two. Running out of memory is fatal in uthash and left out.
`AppOrder`, the list walked from the head (`Walk`, as many steps as there are keys),
is the refinement mapping to `CollectorList`, which only appends and deletes.

## 3. What the runs check

| Run | Question | Instance |
|---|---|---|
| `provider_relookup` | Do the hash, its counter and the memory survive overlapping requests when every backend function but close blocks? What becomes of the inputs? | 3 handlers, 2 ids, 2 backends, lists of 1, no serialisation |
| `provider_serialised` | Is serialising closes and destroys enough when everything blocks? Is the provider then the atomic service, is every request answered, does finalisation end? | 2 handlers, 2 ids, fair, no symmetry |
| `provider_dummy` | Is the provider as shipped (dummy backend, an empty token) the atomic service, and is its heap right? | 2 handlers, 3 ids, nothing serialised |
| `client_handles` | Are handle and reference counts exact, their memory safe and the RPC ids complete? | 2 clients, 2 admins, 3 handles, 4 references, 2 threads |
| `system_faults` | What can callers rely on when RPCs fail, are abandoned or arrive late? | 2 callers (create, close, list, sum), 2 RPCs, 2 ids, 2 faults |
| `system_live` | Does every call of either library return? | 1 caller, all calls, both tokens, 2 RPCs, 1 id, 1 fault, fair |
| `lifecycle` | Do requests reach the right provider, and is each provider freed once, whoever registers and destroys when? | 2 threads, 1 handler, 2 providers at a time with up to 2 collectors, 2 ids, fair, no symmetry |
| `collector_hash` | Is the hash the list of its collectors, through deletions, expansions and the sweep? | 6 keys in 1 bucket, expansion at 2 |
| `backend_array` | Does the block of `backend_types` hold its pointers? **No** | 2 backends |
| `list_refused` | Does a list with a wrong token return SOMA_ERR_INVALID_TOKEN? **Not always** | 1 caller, no faults |
| `sum_fails` | Does a sum that fails give back no more than it took? **No** | 1 caller, no faults |

The properties of the provider: `NoDanglingUse`, `NoMisuse` and `CountMatches`
are about a handler coming back from a backend to a world that changed;
`OneEnderWins` is what `destroy`'s second lookup is for; `ContextsAccounted` and
`ShutdownReleasesAll` say that nothing leaks and nothing is ended twice;
`RemovalAuthorised` is an action property over the whole life of a
request; `InputsReturned` one over each end of a handler, whichever way it came
there; `Answered` and `ShutdownCompletes` are liveness; `ImplementsService`
is refinement. `ContextInv` is the inductive invariant of the proofs about contexts, checked
here on reachable states. `provider_relookup` keeps close from yielding, and
`provider_serialised` overlapping requests for a collector apart: with a close that
yields and neither, TLC finds `remove_collector` (`provider.c:617`) with a collector
that another close has freed.

Of a call end to end: `EndReported` - a close or destroy reported as done, or
refused for a collector that is not there, is final, although abandoned
requests are still on their way; `AnswersCurrent` - "no such collector" and
lists are true of some moment of the call; `OrphansAreFaults` - collectors that
nobody knows of are as many as there were faults at most; `CallsReturn` - a caller is
not left blocked by a provider that is not there or goes away, nor by a hello, for
which it depends on both ends: the handler never answers and the client must not
wait (`client.c:27`). A provider is stopped here when it serves nothing; who destroys
it with requests in flight is outside of what is modelled.

Of a Margo instance: `ServedByOwner`, `OwnRoutes` and `NoStaleRoute` - no request
meets a provider that is incomplete, freed or another's, also when an id is used
again while its former provider is still closing collectors, which is right only
because `soma_sum` is both the RPC that tells whether an id is taken and the last to
be deregistered, and hello's response is disabled as long; `FinalizedOnce` and
`InstanceReleasesAll` - no provider is finalised twice or never;
`FinalisationsAdvance` - a provider that is being finalised gets no more collectors
and is freed by nobody else, so that the loop that closes them comes to the end of
the hash; `ThreadsReturn` - what begins, ends.

Of the hash: `HASH_FSCK` is uthash's own consistency check, `FindExact` and
`ImplementsList` say it is the list, `ChainsBounded` that expansion keeps its
promise (for as many keys as section 4 says), `SweepComplete` that the sweep
follows no freed item and forgets none.
The last needs `Drained`: with deletions during a close TLC finds the saved next
item freed.

Of the dummy backend and the libraries: `ContextsFreedOnce`, `ConfigsParsed`,
`IdsComplete`, `HelloSilent`.

Each property of a passing run has a mutant of the code (kept beside the
definition it alters, commented "Mutant of") under which TLC finds it violated.

**Bounds.** `Ults` bounds the requests in flight: a conflict takes two, and a third
one sees what two leave (`provider_relookup`; what `provider_serialised` checks with
two is proved for any number). `Ids` bounds the collectors ever made: two give a
collector that is interfered with and one that must not be, and a list with more
entries than its limit (`ListSizes` = 1, 2; only 1 in `provider_relookup`, where no
property looks at a list's length). A create is sent only while a uuid is left, so
that the bound never blocks a handler. `MaxBackends` bounds
`soma_provider_register_backend`. Tokens are a good and a bad one; backends return
success or one error. Providers may be finalised and registered again without bound.
`PtrSize` is 8. In `SomaSystem`, `Slots` bounds the RPCs in flight - one that is
waited for and an abandoned one, or two that are waited for - and `MaxFaults` the
failures. In `SomaLifecycle`, `Blocks` bounds the providers allocated at a time (the
two of one id that a reuse of it needs) and `MaxCollectors` the collectors of each
(two, so that the loop that closes them goes on from one to a next). In
`CollectorHash`, keys collide in groups of four and two that no expansion separates,
which makes expansion ineffective twice and so reaches `noexpand` as well as an
`expand_mult` of 3; `MaxBuckets` keeps adds from doubling the table for ever.
Handlers, ids, clients, admins, handles, references, threads, callers, slots and keys
of the same hash value are interchangeable, so runs without liveness use symmetry.

**Fairness.** In `SomaProvider`, Argobots runs each ULT of a pool in turn, and
backend functions return: strong fairness of each handler (it competes for one
execution stream) and of the finaliser. In `SomaLifecycle`, the same for threads that
have begun something and for handlers. In `SomaSystem`, weak fairness of each RPC
(messages arrive, handlers answer, which is `Answered` of `SomaProvider`) and of
each call after its beginning. Nothing is assumed of those who begin: requests
need not be made, a provider need not be finalised.

### Disagreements between code and comments

* `provider.c:655` sizes the array of pointers (`provider.h:31`) in bytes:
  `realloc(..., num_backend_types)` (run `backend_array`).
* `provider.c:478-482` refuses a list without setting its count (set first at line
  486), and the encoder sends, the decoder allocates by, whatever is there
  (`types.h:70,75`): the caller may get
  SOMA_ERR_FROM_MERCURY for a wrong token, where `test-admin.c:134` and
  `soma-common.h:27` have SOMA_ERR_INVALID_TOKEN (run `list_refused`).
* `client.c:158` frees the output also when there is none, as on the path that
  `test-client.c:213` takes (run `sum_fails`).

The input that hello never frees and the one freed though it was never decoded
(`InputsReturned`) contradict no statement in the repository and are described, not
reported as disagreements.

Not a run, since no state of the code could be expected to keep it:
`soma-collector.h:59` says of `soma_say_hello` that it makes the collector
print, and it returns success when the request has left, whatever becomes of
it.

## 4. What is proved

The theorems hold for every value of the constants that meets the assumptions
named in the modules that declare them (`UltsAssumption` and the others of
`SomaProvider`, `DummyAssumption`, `ClientAssumption`, `ProcessAssumption`,
`SystemAssumption`, `LifecycleAssumption`, `HashAssumption`). These say that sets
that are counted are finite, that the values which mark an absence are not values
of what may be absent, and what type the others have. No theorem bounds the
handlers, collectors, callers, RPCs or threads.

| Theorem | Statement |
|---|---|
| `TypeCorrect` | `Spec => []TypeOK`, which includes that a handler in a backend has decoded its input and holds a collector, and that one that responds has set a result |
| `InputsAccounted` | `Spec => InputsReturned`, with no discipline at all |
| `MemoryInvariant` | `MemoryDiscipline` gives `[]MemoryInv` |
| `MemorySafe`, `CounterExact` | and so `[]NoDanglingUse`, `[]CountMatches` |
| `OneEnder` | `MemoryDiscipline` gives `[]OneEnderWins` |
| `ContextInvariant` | `ContextDiscipline` gives `[]ContextInv` |
| `ContextSafe`, `NothingLeaks`, `ShutdownComplete` | and so `[]NoMisuse`, `[]ContextsAccounted`, `[]ShutdownReleasesAll` |
| `OnlyAuthorisedRemovals` | `Spec => RemovalAuthorised`, with no discipline at all |
| `ServiceImplemented` | `ContextDiscipline` gives `ImplementsService` |
| `DummyIsProvider` | `DummySpec => Spec`: the dummy backend is one that does not block |
| `DummyImplementsService` | `Drained` gives `ImplementsService` of the provider as shipped |
| `DummyOverlapsSafely` | `Drained` gives `[]` of `NoDanglingUse`, `CountMatches`, `NoMisuse`, `OneEnderWins`, `ContextsAccounted`, `ShutdownReleasesAll` of the provider as shipped |
| `DummyFreesOnce`, `DummyConfigsParsed` | `Drained` gives `[]ContextsFreedOnce`, `[]ConfigsParsed` |
| `RefcountsExact`, `HandleCountsExact` | `[]RefcountExact`, `[]HandleCountExact` |
| `ClientMemorySafe` | `Orderly` gives `[]NoDanglingUse` of the client library |
| `ProcessIsClient` | `ProcessSpec => Spec`: a client process keeps what is proved of handles |
| `ProcessCountsHandles` | `ProcessSpec` gives `[](RefcountExact /\ HandleCountExact)` |
| `ProcessMemorySafe` | `Orderly` gives `[]NoDanglingUse` of a client process |
| `LibrariesComplete`, `HelloNeverWaits` | `Serial` gives `[]IdsComplete`, `[]HelloSilent` |
| `SystemTypeCorrect` | `Spec => []TypeOK` of `SomaSystem` |
| `EndsAreFinal`, `AnswersAreCurrent` | `[]EndReported`, `[]AnswersCurrent`, whatever fails |
| `OrphansAreOnlyFaults` | `[]OrphansAreFaults` |
| `RequestsServedByOwner`, `ProvidersKeepTheirRoutes`, `RoutesAreNeverStale` | `[]ServedByOwner`, `[]OwnRoutes`, `[]NoStaleRoute` |
| `ProvidersFinalizedOnce`, `InstancesReleaseAll` | `[]FinalizedOnce`, `[]InstanceReleasesAll` |
| `FinalisationsEnd` | `Spec => FinalisationsAdvance` |
| `HashIsTheList` | `Drained` gives `ImplementsList` |
| `HashIsConsistent`, `LookupsAreExact`, `SweepFreesAll` | `Drained` gives `[]HASH_FSCK`, `[]FindExact`, `[]SweepComplete` |
| `ChainsStayShort` | `Drained` and `FewKeys` give `[]ChainsBounded` |
| `ChainsStayWithinTwice` | `Drained` gives `[]ChainsWithinTwice`, for any number of keys |

**The provider.** `CountMatches` alone is not inductive: the decrement of a close
is right only if the collector it unlinks is still in the hash. `MemoryInv` adds
why it is: the handler holds the collector its request names (`HeldIsNamed`), that
collector is in the hash while a close is in its backend (`CloserHolds`), which
nobody else may take away, because either close does not yield - then nobody ran in
between - or requests for one collector are apart (`RequestsApart`). Once handlers
are gone (`HandlersDrained`) nobody takes away the item the finaliser saved, so that
it is in the hash, and NULL only when the hash is empty (`LoopInHash`): that is why
the loop, which never looks at the hash as a whole, leaves nothing in it
(`GoneEmpty`).

`ContextInv` ties each context to whoever is inside the backend with it: the
handlers in create hold distinct contexts in state creating (`CreatorHolds`),
those in close or destroy hold one that is ending and still in the hash
(`EnderHolds`), those in hello or sum a live one (`UserHolds`), and conversely
a context being made or ended has its handler (`MadeBySomebody`,
`EndedBySomebody`) or is the finaliser's (`FinaliserOwns`). The last two
are what makes an empty set of handlers mean that no context is half-way, and
so shutdown complete.

`EnderInv` adds to `MemoryInv` what a removal needs to be final: a handler that
reports one left its collector out of the hash (`RemovedForGood`), and a collector
whose context was made once is never made again (`MadeOnce`, `CreatorHolds`), so
that a second close or destroy cannot find it there.

`InputInv` needs no discipline either: a handler that is about to answer has its
input, unless it answers SOMA_ERR_FROM_MERCURY (`AnswersWithInput`). `TokenInv` needs
only that a close or destroy that got as far as the backend had passed the token
check (`AdminsAuthorised`).

**The refinement of the service** is a step simulation from `ServiceInv`, which is
`ContextInv`, `MemoryInv` and `TokenInv` together. `ServiceStep` lists the steps
of a handler and each is mapped by a lemma of its own: a refusal answers with
nothing changed; a call of the backend is a stutter, also that of a close or
destroy, whose collector stays in the hash; the return from create makes the
collector live, and its id was not given out before, by `CreatorHolds`; the return
from close or destroy takes out a collector that is still there, by `EnderHolds`; a
list has as many entries as the live set allows, by `CountMatches`.

**The dummy backend.** `DummyInv` adds that the heap has a context exactly where
`ctx` has one (`HeapMatches`), and that a configuration that did not parse left
none (`RefusedFailed`). As no function of it blocks, both disciplines come down to
`Drained`.

**Client processes.** The steps of `SomaClientProcess` are steps of `SomaClient` or
stutters. `ProcessInv` says that the sign of a library - its first name - stands
for all its names and for the disabled response to hello, unless an
initialisation of that library is under way (`SignsOK`), which has registered
all the names before the one it is at (`ObjectsOK`); `Serial` keeps any other out
meanwhile.

**Calls with faults.** `SystemInv` ties each RPC to its caller: who waits for an RPC
waits for no other (`OneRpcEach`), and that one carries the call its caller is in
(`AwaitedOK`). A reply on its way is true of the provider (`Truthful`, in
`AwaitedOK`) when it is given and stays so: calls name only ids that were given out
(`RpcOK`, `CallersOK`), those are never given out again and a collector that ended
does not come back (`Served`), and `stayed` only shrinks. None of this asks anything
of abandoned RPCs but which ids they name, so that they may be served at any time.
`OrphanInv` is an account: the collectors that nobody can know of any more (`Lost`)
and the abandoned creates that may yet be served (`Loose`) are together at most the
faults so far. A fault pays for one of either, and serving a loose create turns one
into the other.

**Lifecycle.** `LifecycleInv` says what the route of every provider id and RPC is,
by who has that id to itself: nobody and all is unregistered, a provider that is
up and all lead to it, or one thread in a registration or destruction, and then
as far as that has come (`RouteMade`). That two threads never have the same id is
where `soma_sum` being registered and deregistered last comes in: until it is gone
a new registration finds the id taken. `BlocksOK` says that the callbacks are
those of the providers that are up, each once, which with `MidOK` gives that
`margo_finalize` leaves none and calls none twice. `FinalisationsAdvance` follows
from two parts of it: requests are served for providers that are up (`CallsOK`), and
no two threads have one provider in hand; `NextOK` says that the items the loop still
goes to are those left in the hash, and `SilentOK` follows hello's registration for
`OwnRoutes`. `StepsLeft` is thus a variant of each
finalisation that nothing else can raise; that the steps are taken is fairness.

**The hash.** `HashInv` is `HashState(AppOrder)`: the links forth and back are that
list, without duplicates (`Linked`); each chain has exactly the listed collectors
that hash to its bucket, and the count and the tail are the list's (`TableOf`,
`Filed`); and `el` and `tmp` are the first of the list and the one after it, or the
one just taken out and the first of the rest (`Swept`). That the walk along links
that are a list is that list (`WalkIs`) goes by the least number of steps for
which it is not. `MaskSplits` is why an expansion files every item where the
new mask looks for it. The hash function and the size of the table are arbitrary.

**How long the chains get.** `ChainsBounded` - a chain is at most `expand_mult + 1`
thresholds long while expansion is on - is inductive only with an account of the
whole table, because what an expansion grants a bucket depends on the average over
all. The *weight* of a bucket is what it may grow to, or its length if that is more,
and `BoundsInv` says that the weights sum up to less than four thresholds per bucket.
There are no more items than that, so that the ideal length of the next, doubled
table is at most two thresholds. A chain fits in `expand_mult + 1` ideal lengths, and
`expand_mult` of them exceed it by less than one (`Multiplied`); the chains sum up to
the items, and the weights of the new table stay within the bound, whether the ideal
length is below the threshold (`SpreadThin`) or above (`SpreadThick`). Between
expansions an add lengthens one chain that is still below its limit, a delete
shortens one. `ChainsBounded` itself needs the ideal length to stay within the
threshold, which `FewKeys` ensures: at most `4 * InitialBuckets * Threshold` keys,
1280 collectors with the 32 and 10 of `uthash.h`. It is not true of every number of
keys: the multiplier counts ideal lengths and the limit thresholds, so when the ideal
length passes the threshold a chain can come out of an expansion above its limit.
Twice the limit is never passed.

The proofs have one step per action; facts about cardinalities, sequences and
remainders are lemmas.

**Only model-checked:**

* liveness - `Answered`, `ShutdownCompletes`, `CallsReturn`, `ThreadsReturn` - which
  rests on fairness and is out of reach of the prover. Of the last the part
  that is safety is proved, `FinalisationsEnd`.

The three disagreements of section 3 are counterexamples and have no theorems.

## 5. Not modelled, and the plan

Not modelled:

* Bedrock's provider handles (`bedrock-module.c:66-87`): their address is freed
  through a `mid` that is never set, and nothing in the repository says what
  the two adapters promise to their caller, which is outside of it.
* The parts of uthash that the provider does not use (sorting, selection, replacement,
  ordered insertion, Bloom filter), and its hash functions, which are the constant
  `Hash`.
* Several execution streams running handlers of one provider in parallel, under
  which the unlocked hash and counter race; `SomaLifecycle` has several streams, but
  its handlers change only a number of collectors.
* Failures of memory allocation in handlers, whose results `provider.c:258` and
  `provider.c:487` do not check. (That of a provider's own block is a branch of
  its registration.)
* Logging, what the dummy backend prints, the number it computes and the
  contents of configurations beyond whether they parse: no control depends on
  them.
* Tests, examples and munit.

What is left of the plan:

* Several execution streams: the hash and counter of one provider updated in
  parallel.
