----------------------------- MODULE SomaClient -----------------------------
(***************************************************************************)
(* The client library (client.c): client objects, reference-counted        *)
(* collector handles, and the two calls made through a handle.  A handle   *)
(* points to its client and neither keeps the other alive: the client only *)
(* counts its handles, and warns when it is freed before them.  The calls  *)
(* block in margo_provider_forward, so a handle may be released, and its   *)
(* client freed, while a call made through it waits for its reply.  The    *)
(* other functions do not yield, and are single steps.                     *)
(*                                                                         *)
(* A reference is what a holder of a handle must give back with one call   *)
(* of soma_collector_handle_release.  Any thread may use any reference     *)
(* that has not been given back.                                           *)
(***************************************************************************)
EXTENDS Integers, FiniteSets

CONSTANTS
    Clients,   \* client objects
    Handles,   \* collector handles
    Refs,      \* references: a bound on those held at a time
    NoHandle,  \* SOMA_COLLECTOR_HANDLE_NULL
    Threads,   \* a bound on the calls in flight
    Orderly    \* a client is finalized only after its handles are released

ASSUME ClientAssumption ==
    /\ IsFiniteSet(Handles) /\ IsFiniteSet(Refs)
    /\ NoHandle \notin Handles
    /\ Orderly \in BOOLEAN

VARIABLES
    client,                 \* "none", "up" or "freed"
    num_collector_handles,  \* the counter of each client
    handle,                 \* "none", "live" or "freed"
    owner,                  \* handle->client
    refcount,               \* handle->refcount
    ref,                    \* the handle each reference is to
    call,                   \* what each thread is blocked in
    dangling                \* a freed handle or client was used

vars == <<client, num_collector_handles, handle, owner, refcount, ref, call,
          dangling>>

\* Following handle h, and then its client.
UsesHandle(h) == handle[h] # "live"
UsesClientOf(h) == UsesHandle(h) \/ client[owner[h]] # "up"

soma_client_init(c) ==
    /\ client[c] = "none"
    /\ client' = [client EXCEPT ![c] = "up"]
    /\ num_collector_handles' = [num_collector_handles EXCEPT ![c] = 0]
    /\ UNCHANGED <<handle, owner, refcount, ref, call, dangling>>

\* Handles that are left are reported on stderr and stay as they are.
soma_client_finalize(c) ==
    /\ client[c] = "up"
    /\ Orderly => \A h \in Handles : handle[h] = "live" => owner[h] # c
    /\ client' = [client EXCEPT ![c] = "freed"]
    /\ UNCHANGED <<num_collector_handles, handle, owner, refcount, ref, call,
                   dangling>>

\* A call that fails (no memory, no address) changes nothing.
soma_collector_handle_create(c, h, r) ==
    /\ client[c] = "up"
    /\ handle[h] = "none"
    /\ ref[r] = NoHandle
    /\ handle' = [handle EXCEPT ![h] = "live"]
    /\ owner' = [owner EXCEPT ![h] = c]
    /\ refcount' = [refcount EXCEPT ![h] = 1]
    /\ num_collector_handles' = [num_collector_handles EXCEPT ![c] = @ + 1]
    /\ ref' = [ref EXCEPT ![r] = h]
    /\ UNCHANGED <<client, call, dangling>>

\* Mutant of ref_incr: the count is not incremented.
RefWithoutIncr(r, s) ==
    /\ ref[r] # NoHandle
    /\ ref[s] = NoHandle
    /\ ref' = [ref EXCEPT ![s] = ref[r]]
    /\ dangling' = (dangling \/ UsesHandle(ref[r]))
    /\ UNCHANGED <<client, num_collector_handles, handle, owner, refcount, call>>

\* The holder of reference r makes another, s.
soma_collector_handle_ref_incr(r, s) ==
    /\ ref[r] # NoHandle
    /\ ref[s] = NoHandle
    /\ refcount' = [refcount EXCEPT ![ref[r]] = @ + 1]
    /\ ref' = [ref EXCEPT ![s] = ref[r]]
    /\ dangling' = (dangling \/ UsesHandle(ref[r]))
    /\ UNCHANGED <<client, num_collector_handles, handle, owner, call>>

\* Mutant of ReleaseLast: the client's counter is forgotten.
ReleaseUncounted(r) ==
    /\ ref[r] # NoHandle
    /\ refcount[ref[r]] = 1
    /\ refcount' = [refcount EXCEPT ![ref[r]] = 0]
    /\ handle' = [handle EXCEPT ![ref[r]] = "freed"]
    /\ ref' = [ref EXCEPT ![r] = NoHandle]
    /\ dangling' = (dangling \/ UsesClientOf(ref[r]))
    /\ UNCHANGED <<client, num_collector_handles, owner, call>>

\* The last release frees the handle, through the mid of its client.
ReleaseLast(r) ==
    /\ ref[r] # NoHandle
    /\ refcount[ref[r]] = 1
    /\ refcount' = [refcount EXCEPT ![ref[r]] = 0]
    /\ num_collector_handles' =
          [num_collector_handles EXCEPT ![owner[ref[r]]] = @ - 1]
    /\ handle' = [handle EXCEPT ![ref[r]] = "freed"]
    /\ ref' = [ref EXCEPT ![r] = NoHandle]
    /\ dangling' = (dangling \/ UsesClientOf(ref[r]))
    /\ UNCHANGED <<client, owner, call>>

\* Mutant of ReleaseShared: the count is tested one too high.
ReleaseEarly(r) ==
    /\ ref[r] # NoHandle
    /\ refcount[ref[r]] # 1
    /\ refcount' = [refcount EXCEPT ![ref[r]] = @ - 1]
    /\ handle' = [handle EXCEPT ![ref[r]] = IF refcount[ref[r]] = 2
                                             THEN "freed" ELSE @]
    /\ ref' = [ref EXCEPT ![r] = NoHandle]
    /\ dangling' = (dangling \/ UsesHandle(ref[r]))
    /\ UNCHANGED <<client, num_collector_handles, owner, call>>

ReleaseShared(r) ==
    /\ ref[r] # NoHandle
    /\ refcount[ref[r]] # 1
    /\ refcount' = [refcount EXCEPT ![ref[r]] = @ - 1]
    /\ ref' = [ref EXCEPT ![r] = NoHandle]
    /\ dangling' = (dangling \/ UsesHandle(ref[r]))
    /\ UNCHANGED <<client, num_collector_handles, handle, owner, call>>

soma_collector_handle_release(r) == ReleaseLast(r) \/ ReleaseShared(r)

\* Both calls read the handle and its client to build the request, then wait.
Forward(t, op, r) ==
    /\ call[t] = "none"
    /\ ref[r] # NoHandle
    /\ call' = [call EXCEPT ![t] = op]
    /\ dangling' = (dangling \/ UsesClientOf(ref[r]))
    /\ UNCHANGED <<client, num_collector_handles, handle, owner, refcount, ref>>

\* The reply, or the failure, is taken from the RPC handle: neither the
\* collector handle nor the client is looked at again.
Returns(t, op) ==
    /\ call[t] = op
    /\ call' = [call EXCEPT ![t] = "none"]
    /\ UNCHANGED <<client, num_collector_handles, handle, owner, refcount, ref,
                   dangling>>

soma_say_hello(t) ==
    (\E r \in Refs : Forward(t, "hello", r)) \/ Returns(t, "hello")

soma_compute_sum(t) ==
    (\E r \in Refs : Forward(t, "sum", r)) \/ Returns(t, "sum")

Init ==
    /\ client = [c \in Clients |-> "none"]
    /\ num_collector_handles = [c \in Clients |-> 0]
    /\ handle = [h \in Handles |-> "none"]
    /\ owner \in [Handles -> Clients]
    /\ refcount = [h \in Handles |-> 0]
    /\ ref = [r \in Refs |-> NoHandle]
    /\ call = [t \in Threads |-> "none"]
    /\ dangling = FALSE

Next ==
    \/ \E c \in Clients : soma_client_init(c) \/ soma_client_finalize(c)
    \/ \E c \in Clients, h \in Handles, r \in Refs :
          soma_collector_handle_create(c, h, r)
    \/ \E r, s \in Refs : soma_collector_handle_ref_incr(r, s)
    \/ \E r \in Refs : soma_collector_handle_release(r)
    \/ \E t \in Threads : soma_say_hello(t) \/ soma_compute_sum(t)

Spec == Init /\ [][Next]_vars

-----------------------------------------------------------------------------
(* Properties. *)

Holders(h) == {r \in Refs : ref[r] = h}
HandlesOf(c) == {h \in Handles : handle[h] = "live" /\ owner[h] = c}

\* Every variable has its type.
TypeOK ==
    /\ client \in [Clients -> {"none", "up", "freed"}]
    /\ num_collector_handles \in [Clients -> Int]
    /\ handle \in [Handles -> {"none", "live", "freed"}]
    /\ owner \in [Handles -> Clients]
    /\ refcount \in [Handles -> Int]
    /\ ref \in [Refs -> Handles \cup {NoHandle}]
    /\ call \in [Threads -> {"none", "hello", "sum"}]
    /\ dangling \in BOOLEAN

\* A handle lives exactly as long as someone holds a reference to it, and its
\* count is the number of references held: no sequence of ref_incr and
\* release frees it early or leaks it.
RefcountExact ==
    \A h \in Handles :
        /\ refcount[h] = Cardinality(Holders(h))
        /\ handle[h] = "live" <=> Holders(h) # {}

\* The number finalize warns with is the number of handles not released.
HandleCountExact ==
    \A c \in Clients :
        client[c] = "up" => num_collector_handles[c] = Cardinality(HandlesOf(c))

\* No freed handle and no freed client is ever used, by calls that are
\* overtaken by a release or a finalize included.
NoDanglingUse == ~dangling

=============================================================================
