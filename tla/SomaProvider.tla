---------------------------- MODULE SomaProvider ----------------------------
(***************************************************************************)
(* The SOMA provider (provider.c): the hash of collectors, the table of    *)
(* backends, the seven RPC handlers and the provider's finalisation.       *)
(*                                                                         *)
(* Every RPC is served by a user-level thread (ULT) that margo creates for *)
(* it.  All ULTs share one execution stream and are scheduled              *)
(* cooperatively: a handler runs until it calls something that yields.     *)
(* Inside the provider that is the call into the backend, when the backend *)
(* blocks (ABT-IO, or an RPC of its own), and margo_respond.  The provider *)
(* takes no lock, so what a handler read before a blocking call may be     *)
(* stale after it.                                                         *)
(*                                                                         *)
(* A handler is a control state pc[u]:                                     *)
(*   idle    no request; the ULT does not exist                            *)
(*   ready   created, not yet run, nothing of the provider read            *)
(*   backend inside the backend function its request asks for              *)
(*   respond inside margo_respond, with nothing left to do but clean up    *)
(***************************************************************************)
EXTENDS Integers, Sequences, FiniteSets, SomaCommon

CONSTANTS
    Ults,        \* handler threads: a bound on the requests in flight
    Ids,         \* the uuids uuid_generate will return
    NilId,       \* the all-zero uuid, which names no collector
    Types,       \* backend names
    Dummy,       \* the name of the backend compiled into the provider
    Tokens,      \* security tokens an admin may send
    NoToken,     \* a NULL token argument
    EmptyToken,  \* "" as the token argument
    ArgToken,    \* the token given to soma_provider_register
    ListSizes,   \* values of max_ids in list requests
    BackendRets, \* what backend functions return
    MaxBackends, \* bound on the backends registered
    PtrSize,     \* sizeof(soma_backend_impl*)
    Blocking,    \* the operations whose backend function may yield
    Serialised,  \* callers never overlap a close or destroy with another
                 \* request naming the same collector
    Drained      \* the provider is finalised only when no handler exists

ASSUME UltsAssumption == IsFiniteSet(Ults)
ASSUME IdsAssumption == IsFiniteSet(Ids) /\ NilId \notin Ids
ASSUME TypesAssumption == Dummy \in Types
ASSUME TokensAssumption == ArgToken \in Tokens \cup {NoToken, EmptyToken}
ASSUME SizesAssumption ==
    /\ ListSizes \subseteq Nat
    /\ MaxBackends \in Nat
    /\ PtrSize \in Nat
ASSUME BackendAssumption ==
    /\ "SOMA_SUCCESS" \in BackendRets
    /\ BackendRets \subseteq soma_return_t
    /\ Blocking \subseteq Ops \ {"list"}
ASSUME DisciplineAssumption == Serialised \in BOOLEAN /\ Drained \in BOOLEAN

VARIABLES
    provider,       \* "absent", "up", or "closing" (inside finalize)
    backend_types,  \* provider->backend_types, the names
    backend_bytes,  \* size of the block provider->backend_types points to
    collectors,     \* provider->collectors, the keys of the hash
    num_collectors, \* provider->num_collectors (below zero, after "dangling"
                    \* only, it stands for the size_t it wraps to)
    ctx,            \* what has become of each collector's backend context
    cur,            \* collector whose close the finaliser is inside
    tmp,            \* the item its loop over the hash goes to next
    pc,             \* control state of each handler
    req,            \* the request it was created for
    input,          \* that request's input: "none", not got or freed again;
                    \* "decoded", to be freed, or left behind when the handler
                    \* is gone; "stray", freed though never got
    held,           \* the collector it keeps a pointer to, or is making
    out,            \* its output
    dangling,       \* the provider used memory of its own it had freed
    misuse          \* a backend was inside a context already ended

vars == <<provider, backend_types, backend_bytes, collectors, num_collectors,
          ctx, cur, tmp, pc, req, input, held, out, dangling, misuse>>
table == <<backend_types, backend_bytes>>
hash == <<collectors, num_collectors>>
handlers == <<pc, req, input, held, out>>

\* Everything about the provider but the contexts and the handlers.
soma_provider == <<provider, table, hash, cur, tmp>>

Request == Requests(Tokens, Types, Ids \cup {NilId}, ListSizes)
NoRequest == [op |-> "none"]
NoReply == [ret |-> "none", ids |-> {}]

\* provider->token: NULL unless a non-empty token was given.
ProviderToken == IF ArgToken = EmptyToken THEN NoToken ELSE ArgToken

CtxStates == {"unborn", "creating", "failed", "live", "ending", "ended"}

-----------------------------------------------------------------------------
(* The functions over the provider's tables. *)

\* find_collector; a handler that finds nothing has a NULL pointer.
find_collector(id) == id \in collectors

\* Mutant of add_collector: the counter is forgotten.
AddUncounted(id) ==
    /\ collectors' = collectors \cup {id}
    /\ UNCHANGED num_collectors

\* add_collector: the caller ignores that an id already there is refused.
add_collector(id) ==
    IF find_collector(id)
    THEN UNCHANGED hash
    ELSE /\ collectors' = collectors \cup {id}
         /\ num_collectors' = num_collectors + 1

\* Mutant of unlink_collector: no decrement.
UnlinkUncounted(id) ==
    /\ collectors' = collectors \ {id}
    /\ UNCHANGED num_collectors

\* The second half of remove_collector: HASH_DEL, free, decrement.
unlink_collector(id) ==
    /\ collectors' = collectors \ {id}
    /\ num_collectors' = num_collectors - 1

find_backend_impl(name) ==
    \E i \in 1 .. Len(backend_types) : backend_types[i] = name

\* realloc is asked for num_backend_types bytes, not pointers.
add_backend_impl(name) ==
    /\ backend_types' = Append(backend_types, name)
    /\ backend_bytes' = Len(backend_types) + 1

\* Mutant of check_token: the result of strcmp is not negated.
TokenDiffers(token) == ProviderToken = NoToken \/ token # ProviderToken

check_token(token) == ProviderToken = NoToken \/ token = ProviderToken

-----------------------------------------------------------------------------
(* Scheduling on the one execution stream. *)

\* Nobody else is on the stream: every other handler, and the finaliser, is
\* outside the provider or inside a backend function that yielded.
StreamFree(u) ==
    /\ \A v \in Ults \ {u} : pc[v] = "backend" => req[v].op \in Blocking
    /\ provider = "closing" => cur # NilId /\ "close" \in Blocking

Starts(u) == pc[u] = "ready" /\ StreamFree(u)
Resumes(u) == pc[u] = "backend" /\ StreamFree(u)

\* A handler follows its provider pointer on all paths but one, and that
\* pointer is good only while the provider is up.  "freed" says that it
\* follows another pointer to freed memory, "ended" that the context it is
\* about to hand, or has just handed, to the backend is not (any longer) live.
Uses(freed, ended) ==
    /\ dangling' = (dangling \/ provider # "up" \/ freed)
    /\ misuse' = (misuse \/ ended)

\* The handler has its output and calls margo_respond.
Respond(u, ret, ids) ==
    /\ pc' = [pc EXCEPT ![u] = "respond"]
    /\ out' = [out EXCEPT ![u] = [ret |-> ret, ids |-> ids]]
    /\ UNCHANGED req

\* The handler starts, and margo_get_input gives it its input.
Decodes(u) == Starts(u) /\ input' = [input EXCEPT ![u] = "decoded"]

\* margo_free_input.
FreesInput(u) ==
    input' = [input EXCEPT ![u] = IF @ = "decoded" THEN "none" ELSE "stray"]

\* The handler destroys its handle and ends.
Leave(u) ==
    /\ pc' = [pc EXCEPT ![u] = "idle"]
    /\ req' = [req EXCEPT ![u] = NoRequest]
    /\ held' = [held EXCEPT ![u] = NilId]
    /\ out' = [out EXCEPT ![u] = NoReply]

\* The handler enters a backend function for collector id.
Call(u, id) ==
    /\ pc' = [pc EXCEPT ![u] = "backend"]
    /\ held' = [held EXCEPT ![u] = id]
    /\ UNCHANGED <<req, out, soma_provider>>

-----------------------------------------------------------------------------
(* The steps handlers are made of. *)

\* margo_get_input failed: only create's log line reads provider->mid.
InvalidInput(u) ==
    /\ Starts(u)
    /\ dangling' = (dangling \/ (req[u].op = "create" /\ provider # "up"))
    /\ UNCHANGED misuse
    /\ Respond(u, "SOMA_ERR_FROM_MERCURY", {})
    /\ UNCHANGED <<soma_provider, ctx, held, input>>

\* Mutant of Refuse: the error path skips margo_respond.
RefuseSilently(u, error) ==
    /\ Decodes(u)
    /\ Uses(FALSE, FALSE)
    /\ Leave(u)
    /\ UNCHANGED <<soma_provider, ctx>>

\* An error found before any backend is called.
Refuse(u, error) ==
    /\ Decodes(u)
    /\ Uses(FALSE, FALSE)
    /\ Respond(u, error, {})
    /\ UNCHANGED <<soma_provider, ctx, held>>

InvalidToken(u) ==
    ~check_token(req[u].token) /\ Refuse(u, "SOMA_ERR_INVALID_TOKEN")

UnknownBackend(u) ==
    /\ check_token(req[u].token)
    /\ ~find_backend_impl(req[u].type)
    /\ Refuse(u, "SOMA_ERR_INVALID_BACKEND")

\* Mutant of UnknownCollector: the error is not reported.
UnknownTolerated(u) ==
    ~find_collector(req[u].id) /\ Refuse(u, "SOMA_SUCCESS")

UnknownCollector(u) ==
    ~find_collector(req[u].id) /\ Refuse(u, "SOMA_ERR_INVALID_COLLECTOR")

\* Mutant of CallCreate: the collector is registered before its context exists.
RegisterFirst(u, id) ==
    /\ Decodes(u)
    /\ check_token(req[u].token)
    /\ find_backend_impl(req[u].type)
    /\ ctx[id] = "unborn"
    /\ ctx' = [ctx EXCEPT ![id] = "creating"]
    /\ Uses(FALSE, FALSE)
    /\ add_collector(id)
    /\ pc' = [pc EXCEPT ![u] = "backend"]
    /\ held' = [held EXCEPT ![u] = id]
    /\ UNCHANGED <<req, out, provider, table, cur, tmp>>

\* A uuid is drawn (never one drawn before) and the backend asked for a
\* context.
CallCreate(u, id) ==
    /\ Decodes(u)
    /\ check_token(req[u].token)
    /\ find_backend_impl(req[u].type)
    /\ ctx[id] = "unborn"
    /\ ctx' = [ctx EXCEPT ![id] = "creating"]
    /\ Uses(FALSE, FALSE)
    /\ Call(u, id)

\* The backend made the context: it is registered and its id returned.
CreateSucceeds(u) ==
    /\ Resumes(u)
    /\ ctx' = [ctx EXCEPT ![held[u]] = "live"]
    /\ add_collector(held[u])
    /\ Uses(FALSE, FALSE)
    /\ Respond(u, "SOMA_SUCCESS", {held[u]})
    /\ UNCHANGED <<provider, table, cur, tmp, held, input>>

\* The backend refused, with the error that becomes the reply.
CreateFails(u, ret) ==
    /\ Resumes(u)
    /\ ret # "SOMA_SUCCESS"
    /\ ctx' = [ctx EXCEPT ![held[u]] = "failed"]
    /\ Uses(FALSE, FALSE)
    /\ Respond(u, ret, {})
    /\ UNCHANGED <<soma_provider, held, input>>

\* The collector is found and its backend's close or destroy called; the
\* context must not have been given to one of these before.
CallEnd(u) ==
    /\ Decodes(u)
    /\ check_token(req[u].token)
    /\ find_collector(req[u].id)
    /\ Uses(FALSE, ctx[req[u].id] # "live")
    /\ ctx' = [ctx EXCEPT ![req[u].id] = "ending"]
    /\ Call(u, req[u].id)

\* Mutant of CloseReturns: a failing close leaves the collector in the hash.
CloseKeepsOnError(u, ret) ==
    /\ Resumes(u)
    /\ Uses(~find_collector(held[u]), ctx[held[u]] = "ended")
    /\ ctx' = [ctx EXCEPT ![held[u]] = "ended"]
    /\ IF ret = "SOMA_SUCCESS" THEN unlink_collector(held[u]) ELSE UNCHANGED hash
    /\ Respond(u, ret, {})
    /\ UNCHANGED <<provider, table, cur, tmp, held, input>>

\* The backend's close returned: remove_collector goes on with the pointer
\* it looked up before the call, and returns whatever close returned.
CloseReturns(u, ret) ==
    /\ Resumes(u)
    /\ Uses(~find_collector(held[u]), ctx[held[u]] = "ended")
    /\ ctx' = [ctx EXCEPT ![held[u]] = "ended"]
    /\ unlink_collector(held[u])
    /\ Respond(u, ret, {})
    /\ UNCHANGED <<provider, table, cur, tmp, held, input>>

\* Mutants of DestroyReturns: the collector is not looked up again; it is not
\* removed.
DestroyWithoutLookup(u) ==
    /\ Resumes(u)
    /\ Uses(FALSE, ctx[held[u]] = "ended")
    /\ ctx' = [ctx EXCEPT ![held[u]] = "ended"]
    /\ unlink_collector(held[u])
    /\ Respond(u, "SOMA_SUCCESS", {})
    /\ UNCHANGED <<provider, table, cur, tmp, held, input>>
DestroyWithoutRemove(u) ==
    /\ Resumes(u)
    /\ Uses(FALSE, ctx[held[u]] = "ended")
    /\ ctx' = [ctx EXCEPT ![held[u]] = "ended"]
    /\ Respond(u, "SOMA_SUCCESS", {})
    /\ UNCHANGED <<soma_provider, held, input>>

\* The backend's destroy returned, its result ignored: remove_collector looks
\* the id up again.
DestroyReturns(u) ==
    /\ Resumes(u)
    /\ Uses(FALSE, ctx[held[u]] = "ended")
    /\ ctx' = [ctx EXCEPT ![held[u]] = "ended"]
    /\ \/ /\ find_collector(req[u].id)
          /\ unlink_collector(req[u].id)
          /\ Respond(u, "SOMA_SUCCESS", {})
       \/ /\ ~find_collector(req[u].id)
          /\ UNCHANGED hash
          /\ Respond(u, "SOMA_ERR_INVALID_COLLECTOR", {})
    /\ UNCHANGED <<provider, table, cur, tmp, held, input>>

\* hello or sum is called on the context of a collector found in the hash.
CallUse(u) ==
    /\ Decodes(u)
    /\ find_collector(req[u].id)
    /\ Uses(FALSE, ctx[req[u].id] # "live")
    /\ UNCHANGED ctx
    /\ Call(u, req[u].id)

\* It returned: the context was the backend's to use all along only if it is
\* still live.
UseReturned(u) == Resumes(u) /\ Uses(FALSE, ctx[held[u]] # "live")

\* margo_respond returned: the input is freed, whether or not there is one.
Finish(u) ==
    /\ pc[u] = "respond"
    /\ StreamFree(u)
    /\ FreesInput(u)
    /\ Leave(u)
    /\ UNCHANGED <<soma_provider, ctx, dangling, misuse>>

-----------------------------------------------------------------------------
(* The RPC handlers. *)

soma_create_collector_ult(u) ==
    /\ req[u].op = "create"
    /\ \/ InvalidInput(u)
       \/ InvalidToken(u)
       \/ UnknownBackend(u)
       \/ \E id \in Ids : CallCreate(u, id)
       \/ CreateSucceeds(u)
       \/ \E ret \in BackendRets : CreateFails(u, ret)
       \/ Finish(u)

soma_open_collector_ult(u) ==
    /\ req[u].op = "open"
    /\ \/ InvalidInput(u)
       \/ InvalidToken(u)
       \/ UnknownBackend(u)
       \/ \E id \in Ids : CallCreate(u, id)
       \/ CreateSucceeds(u)
       \/ \E ret \in BackendRets : CreateFails(u, ret)
       \/ Finish(u)

soma_close_collector_ult(u) ==
    /\ req[u].op = "close"
    /\ \/ InvalidInput(u)
       \/ InvalidToken(u)
       \/ check_token(req[u].token) /\ UnknownCollector(u)
       \/ CallEnd(u)
       \/ \E ret \in BackendRets : CloseReturns(u, ret)
       \/ Finish(u)

soma_destroy_collector_ult(u) ==
    /\ req[u].op = "destroy"
    /\ \/ InvalidInput(u)
       \/ InvalidToken(u)
       \/ check_token(req[u].token) /\ UnknownCollector(u)
       \/ CallEnd(u)
       \/ DestroyReturns(u)
       \/ Finish(u)

\* Mutants of ListCollectors: max_ids is ignored; out.ret is not set on success.
ListEverything(u) ==
    /\ Decodes(u)
    /\ check_token(req[u].token)
    /\ Uses(Cardinality(collectors) > num_collectors, FALSE)
    /\ Respond(u, "SOMA_SUCCESS", collectors)
    /\ UNCHANGED <<soma_provider, ctx, held>>

ListWithoutRet(u) ==
    /\ Decodes(u)
    /\ check_token(req[u].token)
    /\ Uses(Cardinality(collectors) > num_collectors, FALSE)
    /\ Respond(u, "none", collectors)
    /\ UNCHANGED <<soma_provider, ctx, held>>

\* The array has num_collectors slots and receives one id per member of the
\* hash; the reply carries the first count of them.
ListCollectors(u) ==
    /\ Decodes(u)
    /\ check_token(req[u].token)
    /\ Uses(Cardinality(collectors) > num_collectors, FALSE)
    /\ \E ids \in SUBSET collectors :
          /\ Cardinality(ids) = IF num_collectors < req[u].max_ids
                                THEN num_collectors ELSE req[u].max_ids
          /\ Respond(u, "SOMA_SUCCESS", ids)
    /\ UNCHANGED <<soma_provider, ctx, held>>

soma_list_collectors_ult(u) ==
    /\ req[u].op = "list"
    /\ \/ InvalidInput(u)
       \/ InvalidToken(u)
       \/ ListCollectors(u)
       \/ Finish(u)

\* hello is one-way: the handler never responds, whatever it found, and its
\* clean-up does not free the input.
HelloInvalidInput(u) ==
    /\ Starts(u)
    /\ Leave(u)
    /\ UNCHANGED <<soma_provider, ctx, dangling, misuse, input>>

HelloUnknownCollector(u) ==
    /\ Decodes(u)
    /\ ~find_collector(req[u].id)
    /\ Uses(FALSE, FALSE)
    /\ Leave(u)
    /\ UNCHANGED <<soma_provider, ctx>>

HelloReturns(u) ==
    /\ UseReturned(u)
    /\ Leave(u)
    /\ UNCHANGED <<soma_provider, ctx, input>>

soma_hello_ult(u) ==
    /\ req[u].op = "hello"
    /\ \/ HelloInvalidInput(u)
       \/ HelloUnknownCollector(u)
       \/ CallUse(u)
       \/ HelloReturns(u)

SumReturns(u) ==
    /\ UseReturned(u)
    /\ Respond(u, "SOMA_SUCCESS", {})
    /\ UNCHANGED <<soma_provider, ctx, held, input>>

soma_sum_ult(u) ==
    /\ req[u].op = "sum"
    /\ \/ InvalidInput(u)
       \/ UnknownCollector(u)
       \/ CallUse(u)
       \/ SumReturns(u)
       \/ Finish(u)

Handler(u) ==
    \/ soma_create_collector_ult(u)
    \/ soma_open_collector_ult(u)
    \/ soma_close_collector_ult(u)
    \/ soma_destroy_collector_ult(u)
    \/ soma_list_collectors_ult(u)
    \/ soma_hello_ult(u)
    \/ soma_sum_ult(u)

-----------------------------------------------------------------------------
(* Requests arriving. *)

Conflict(r, s) ==
    /\ {r.op, s.op} \subseteq IdOps
    /\ {r.op, s.op} \cap EndOps # {}
    /\ r.id = s.id

\* Ids a caller can have learned, from a reply to create, open or list.
KnownIds == {NilId} \cup {id \in Ids : ctx[id] \in {"live", "ending", "ended"}}

Unborn == {id \in Ids : ctx[id] = "unborn"}
Creators == {v \in Ults : pc[v] = "ready" /\ req[v].op \in CreateOps}

\* Margo receives a request for a registered RPC and creates a ULT for it.
\* A create is sent only while the model has a uuid left to give it.
Arrive(u, r) ==
    /\ provider = "up"
    /\ pc[u] = "idle"
    /\ r.op \in IdOps => r.id \in KnownIds
    /\ r.op \in CreateOps => Cardinality(Unborn) > Cardinality(Creators)
    /\ Serialised => \A v \in Ults : pc[v] # "idle" => ~Conflict(r, req[v])
    /\ pc' = [pc EXCEPT ![u] = "ready"]
    /\ req' = [req EXCEPT ![u] = r]
    /\ input' = [input EXCEPT ![u] = "none"]
    /\ UNCHANGED <<soma_provider, ctx, held, out, dangling, misuse>>

-----------------------------------------------------------------------------
(* The provider's life. *)

\* The application's own ULT can run.
OwnerRuns ==
    \A v \in Ults : pc[v] = "backend" => req[v].op \in Blocking

\* A provider for the same id after an earlier one is gone; handlers that
\* were blocked inside the earlier one have left.
soma_provider_register ==
    /\ provider = "absent"
    /\ OwnerRuns
    /\ \A u \in Ults : pc[u] # "backend"
    /\ provider' = "up"
    /\ collectors' = {}
    /\ num_collectors' = 0
    /\ add_backend_impl(Dummy)
    /\ UNCHANGED <<ctx, cur, tmp, handlers, dangling, misuse>>

soma_provider_register_backend(name) ==
    /\ provider = "up"
    /\ OwnerRuns
    /\ Len(backend_types) < MaxBackends
    /\ add_backend_impl(name)
    /\ UNCHANGED <<provider, hash, ctx, cur, tmp, handlers, dangling, misuse>>

\* The item a loop over the hash finds at the head of items, NilId for NULL:
\* in which order collectors were added is left open.
HeadOf(items) == IF items = {} THEN {NilId} ELSE items

\* soma_finalize_provider starts: the RPCs are deregistered, and HASH_ITER
\* begins at the head of the hash.
FinalizeBegin ==
    /\ provider = "up"
    /\ OwnerRuns
    /\ Drained => \A u \in Ults : pc[u] = "idle"
    /\ provider' = "closing"
    /\ tmp' \in HeadOf(collectors)
    /\ UNCHANGED <<table, hash, ctx, cur, handlers, dangling, misuse>>

\* Mutant of FinalizeClose: the loop does not unlink the collector, and looks
\* for the next one at the head of the hash.
FinalizeCloseHead ==
    /\ provider = "closing"
    /\ cur = NilId
    /\ tmp \in Ids
    /\ cur' = tmp
    /\ tmp' \in HeadOf(collectors)
    /\ misuse' = (misuse \/ ctx[tmp] # "live")
    /\ ctx' = [ctx EXCEPT ![tmp] = "ending"]
    /\ UNCHANGED <<provider, table, hash, handlers, dangling>>

\* remove_all_collectors goes to the item it saved, saves the one after it,
\* unlinks the item and calls its backend's close.  An item that a handler
\* freed meanwhile may have any next.
FinalizeClose ==
    /\ provider = "closing"
    /\ cur = NilId
    /\ tmp \in Ids
    /\ cur' = tmp
    /\ tmp' \in IF tmp \in collectors THEN HeadOf(collectors \ {tmp})
                                     ELSE Ids \cup {NilId}
    /\ collectors' = collectors \ {tmp}
    /\ dangling' = (dangling \/ tmp \notin collectors)
    /\ misuse' = (misuse \/ ctx[tmp] # "live")
    /\ ctx' = [ctx EXCEPT ![tmp] = "ending"]
    /\ UNCHANGED <<provider, table, num_collectors, handlers>>

\* That close returned; its result is not looked at.
FinalizeReturn ==
    /\ provider = "closing"
    /\ cur # NilId
    /\ OwnerRuns
    /\ ctx' = [ctx EXCEPT ![cur] = "ended"]
    /\ cur' = NilId
    /\ UNCHANGED <<provider, table, hash, tmp, handlers, dangling, misuse>>

\* Mutant of FinalizeEnd: the collectors are not closed first.
FinalizeEarly ==
    /\ provider = "closing"
    /\ cur = NilId
    /\ tmp' = NilId
    /\ backend_types' = <<>>
    /\ backend_bytes' = 0
    /\ provider' = "absent"
    /\ UNCHANGED <<hash, ctx, cur, handlers, dangling, misuse>>

\* The loop has no next item: the counter is reset, the table and the
\* provider are freed.
FinalizeEnd ==
    /\ provider = "closing"
    /\ cur = NilId
    /\ tmp = NilId
    /\ num_collectors' = 0
    /\ backend_types' = <<>>
    /\ backend_bytes' = 0
    /\ provider' = "absent"
    /\ UNCHANGED <<collectors, ctx, cur, tmp, handlers, dangling, misuse>>

soma_finalize_provider ==
    \/ FinalizeClose
    \/ FinalizeReturn
    \/ FinalizeEnd

-----------------------------------------------------------------------------
Init ==
    /\ provider = "absent"
    /\ backend_types = <<>>
    /\ backend_bytes = 0
    /\ collectors = {}
    /\ num_collectors = 0
    /\ ctx = [id \in Ids |-> "unborn"]
    /\ cur = NilId
    /\ tmp = NilId
    /\ pc = [u \in Ults |-> "idle"]
    /\ req = [u \in Ults |-> NoRequest]
    /\ input = [u \in Ults |-> "none"]
    /\ held = [u \in Ults |-> NilId]
    /\ out = [u \in Ults |-> NoReply]
    /\ dangling = FALSE
    /\ misuse = FALSE

Next ==
    \/ \E u \in Ults : Handler(u)
    \/ \E u \in Ults, r \in Request : Arrive(u, r)
    \/ soma_provider_register
    \/ \E name \in Types : soma_provider_register_backend(name)
    \/ FinalizeBegin
    \/ soma_finalize_provider

Spec == Init /\ [][Next]_vars

\* Argobots runs every ULT of the pool in turn, and backend functions return.
\* Nothing is assumed of requests arriving or of the owner.
Fairness ==
    /\ \A u \in Ults : SF_vars(Handler(u))
    /\ SF_vars(soma_finalize_provider)

FairSpec == Spec /\ Fairness

-----------------------------------------------------------------------------
(* Properties. *)

\* Every variable has its type, and a handler's parts agree: it is inside a
\* backend only with an input it decoded and a collector, and responds only
\* with a result it has set.
TypeOK ==
    /\ provider \in {"absent", "up", "closing"}
    /\ backend_types \in Seq(Types)
    /\ backend_bytes \in Nat
    /\ collectors \in SUBSET Ids
    /\ num_collectors \in Int
    /\ ctx \in [Ids -> CtxStates]
    /\ cur \in Ids \cup {NilId}
    /\ tmp \in Ids \cup {NilId}
    /\ pc \in [Ults -> {"idle", "ready", "backend", "respond"}]
    /\ req \in [Ults -> Request \cup {NoRequest}]
    /\ input \in [Ults -> {"none", "decoded", "stray"}]
    /\ held \in [Ults -> Ids \cup {NilId}]
    /\ out \in [Ults -> [ret : soma_return_t \cup {"none"}, ids : SUBSET Ids]]
    /\ dangling \in BOOLEAN /\ misuse \in BOOLEAN
    /\ \A u \in Ults :
          /\ pc[u] = "idle" <=> req[u] = NoRequest
          /\ pc[u] = "ready" => input[u] = "none"
          /\ pc[u] = "backend" => input[u] = "decoded" /\ held[u] \in Ids
          /\ pc[u] = "respond" => out[u].ret # "none"

\* No handler follows a pointer to a provider or a collector that has been
\* freed, and list never writes past its array: remove_collector's pointer
\* and num_collectors are still good after the backend call between the
\* lookup and the unlinking.
NoDanglingUse == ~dangling

\* No backend function is called on, or is still running in, a context that
\* was handed to close or destroy: the handlers of a collector exclude one
\* another although the provider takes no lock around the backend call.
NoMisuse == ~misuse

\* The counter the list handler sizes its array by agrees with the hash it
\* copies into that array, whatever the handlers interleaved.
CountMatches == provider = "up" => num_collectors = Cardinality(collectors)

\* Every open backend context is reachable through the hash (or is the one
\* the finaliser is closing), and the hash leads to no context that has been
\* closed or destroyed: nothing leaks and nothing is ended twice.
ContextsAccounted ==
    {id \in Ids : ctx[id] \in {"live", "ending"}}
        = collectors \cup ({cur} \ {NilId})

\* When the provider is gone, so is every context it ever made or was making.
ShutdownReleasesAll ==
    provider = "absent" => \A id \in Ids : ctx[id] \in {"unborn", "failed", "ended"}

\* A collector leaves the hash of a running provider only through a close or
\* destroy request that named it and carried the provider's token.
RemovalAuthorised ==
    [][\A id \in collectors \ collectors' :
          \/ provider # "up"
          \/ \E u \in Ults :
                /\ req[u].op \in EndOps
                /\ req[u].id = id
                /\ ArgToken \in {NoToken, EmptyToken, req[u].token}
                /\ pc[u] = "backend" /\ pc'[u] = "respond"]_vars

\* Of the close and destroy requests in flight that name one collector, at
\* most one is told it succeeded: destroy's second lookup, after the backend
\* call, tells the others that the collector is gone.
OneEnderWins ==
    \A u, v \in Ults :
        /\ u # v
        /\ {req[u].op, req[v].op} \subseteq EndOps
        /\ req[u].id = req[v].id
        => ~(out[u].ret = "SOMA_SUCCESS" /\ out[v].ret = "SOMA_SUCCESS")

\* Every request that reaches the provider is eventually answered, on every
\* path of its handler, and every hello, which has no answer, is dealt with.
Answered ==
    \A u \in Ults :
        /\ pc[u] = "ready" /\ req[u].op # "hello" ~> pc[u] = "respond"
        /\ pc[u] = "ready" /\ req[u].op = "hello" ~> pc[u] = "idle"

\* Finalisation, once begun, frees the provider.
ShutdownCompletes == provider = "closing" ~> provider = "absent"

\* Whatever a handler meets, the input it decoded is freed when it ends,
\* unless it is a hello's, which never is; and only the handler of a request
\* that could not be decoded frees an input it does not have.
InputsReturned ==
    [][\A u \in Ults : pc[u] # "idle" /\ pc'[u] = "idle" =>
          /\ input'[u] = "decoded" => req[u].op = "hello"
          /\ input'[u] = "stray" => out[u].ret = "SOMA_ERR_FROM_MERCURY"]_vars

\* The "array of pointers to backend types" is large enough for the pointers
\* that have been stored in it.
BackendArrayFits == PtrSize * Len(backend_types) <= backend_bytes

=============================================================================
