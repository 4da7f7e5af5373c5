--------------------------- MODULE SomaLifecycle ----------------------------
(***************************************************************************)
(* The life of the providers of one Margo instance (provider.c): their     *)
(* registration, soma_provider_destroy, and the finalize callbacks that    *)
(* margo_finalize runs.  SomaProvider has what a provider does in between. *)
(*                                                                         *)
(* Threads of the application register and destroy providers.  Each step   *)
(* is one call into Margo or a backend.  With one execution stream a       *)
(* thread keeps it until it calls a backend's close, which may block; with *)
(* several, the steps of threads and handlers interleave, and requests are *)
(* sent to a provider only when its registration has returned and its      *)
(* destruction has not begun.                                              *)
(***************************************************************************)
EXTENDS Naturals, FiniteSets, SequencesExt

CONSTANTS
    Threads,        \* threads of the application
    Ults,           \* handler threads
    Blocks,         \* a bound on the providers allocated at a time
    ProviderIds,    \* provider ids
    NULL,
    Unregistered,   \* no RPC of this name and provider id
    MaxCollectors,  \* a bound on the collectors of a provider
    Listening       \* the instance is a server

ASSUME LifecycleAssumption ==
    /\ NULL \notin Blocks /\ Unregistered \notin Blocks \cup {NULL}
    /\ NULL \notin [id : ProviderIds, cols : Nat, dummy : BOOLEAN]
    /\ Threads \cap Ults = {}
    /\ MaxCollectors \in Nat
    /\ Listening \in BOOLEAN

VARIABLES
    mid,        \* the Margo instance: "up", "finalizing", "finalized"
    one_stream, \* it was initialised to have one execution stream
    route,      \* the data registered for each provider id and RPC
    silent,     \* the ids whose soma_hello is registered to have no response
    callbacks,  \* the finalize callbacks pushed, named by their provider
    heap,       \* what each provider is, or NULL when it is not allocated
    doing,      \* where each thread is
    kept,       \* providers whose registration gave the caller a pointer
    call,       \* where each handler is
    wild        \* a provider was finalized that was not allocated

vars == <<mid, one_stream, route, silent, callbacks, heap, doing, kept, call, wild>>

Creates == {"soma_create_collector", "soma_open_collector"}
Ends == {"soma_close_collector", "soma_destroy_collector"}

\* The RPCs in the order of their registration, and of their deregistration.
Rpcs == <<"soma_create_collector", "soma_open_collector", "soma_close_collector",
          "soma_destroy_collector", "soma_list_collectors", "soma_hello", "soma_sum">>

Idle == [at |-> "idle"]
NoCall == [at |-> "idle"]
NoRoutes == [i \in ProviderIds |-> [r \in Range(Rpcs) |-> Unregistered]]

\* Where threads let others run on their stream.
StreamFree(x) ==
    one_stream => \A t \in Threads \ {x} : doing[t].at \in {"idle", "closing", "callback"}

At(t, where) == doing[t].at = where /\ StreamFree(t)

Goes(t, state) == doing' = [doing EXCEPT ![t] = state]

\* Threads between the check for a free id and the provider's being complete.
Registering == {t \in Threads : doing[t].at \in {"alloc", "register", "data", "push"}}

\* Requests addressed to a provider id.
InFlight(i) == {u \in Ults : call[u] # NoCall /\ call[u].id = i}

\* Providers that are registered and not being finalized.
Up == {p \in Blocks : heap[p] # NULL /\ \A t \in Threads :
                         doing[t].at # "idle" => doing[t].prov # p}

-----------------------------------------------------------------------------
(* soma_provider_register. *)

\* Mutant of IdTaken: tests the RPC that is deregistered first.
IdTakenFirst(i) == route[i][Rpcs[1]] # Unregistered

IdTaken(i) == route[i]["soma_sum"] # Unregistered

\* The checks; registrations of one id do not overlap, and none overlaps with
\* margo_finalize.
RegisterBegins(t, i, keep) ==
    /\ At(t, "idle")
    /\ mid = "up"
    /\ \A s \in Registering : doing[s].id # i
    /\ Listening /\ ~IdTaken(i)
    /\ Goes(t, [at |-> "alloc", id |-> i, keep |-> keep, prov |-> NULL])
    /\ UNCHANGED <<one_stream, mid, route, silent, callbacks, heap, kept, call, wild>>

Allocated(t) ==
    /\ At(t, "alloc")
    /\ \E p \in Blocks :
          /\ heap[p] = NULL
          /\ heap' = [heap EXCEPT ![p] = [id |-> doing[t].id, cols |-> 0, dummy |-> FALSE]]
          /\ Goes(t, [at |-> "register", id |-> doing[t].id, keep |-> doing[t].keep,
                      prov |-> p, n |-> 1])
    /\ UNCHANGED <<one_stream, mid, route, silent, callbacks, kept, call, wild>>

NotAllocated(t) ==
    /\ At(t, "alloc")
    /\ Goes(t, Idle)
    /\ UNCHANGED <<one_stream, mid, route, silent, callbacks, heap, kept, call, wild>>

RegisterRpc(t) ==
    /\ At(t, "register")
    /\ route' = [route EXCEPT ![doing[t].id][Rpcs[doing[t].n]] = NULL]
    /\ Goes(t, [doing[t] EXCEPT !.at = "data"])
    /\ UNCHANGED <<one_stream, mid, silent, callbacks, heap, kept, call, wild>>

\* Mutant of RegisterData: soma_hello's is forgotten.
DataForgotten(t) ==
    /\ At(t, "data")
    /\ route' = IF Rpcs[doing[t].n] = "soma_hello" THEN route
                ELSE [route EXCEPT ![doing[t].id][Rpcs[doing[t].n]] = doing[t].prov]
    /\ silent' = IF Rpcs[doing[t].n] = "soma_hello" THEN silent \cup {doing[t].id}
                                                   ELSE silent
    /\ Goes(t, [doing[t] EXCEPT !.at = IF doing[t].n = Len(Rpcs) THEN "push" ELSE "register",
                                !.n = @ + 1])
    /\ UNCHANGED <<one_stream, mid, callbacks, heap, kept, call, wild>>

\* The data, and for soma_hello that it has no response.
RegisterData(t) ==
    /\ At(t, "data")
    /\ route' = [route EXCEPT ![doing[t].id][Rpcs[doing[t].n]] = doing[t].prov]
    /\ silent' = IF Rpcs[doing[t].n] = "soma_hello" THEN silent \cup {doing[t].id}
                                                   ELSE silent
    /\ Goes(t, [doing[t] EXCEPT !.at = IF doing[t].n = Len(Rpcs) THEN "push" ELSE "register",
                                !.n = @ + 1])
    /\ UNCHANGED <<one_stream, mid, callbacks, heap, kept, call, wild>>

\* Mutant of RegisterReturns: only a provider the caller ignores is finalized
\* by Margo.
CallbackIfIgnored(t) ==
    /\ At(t, "push")
    /\ heap' = [heap EXCEPT ![doing[t].prov].dummy = TRUE]
    /\ callbacks' = IF doing[t].keep THEN callbacks ELSE Append(callbacks, doing[t].prov)
    /\ kept' = IF doing[t].keep THEN kept \cup {doing[t].prov} ELSE kept
    /\ Goes(t, Idle)
    /\ UNCHANGED <<one_stream, mid, route, silent, call, wild>>

\* The dummy backend is added, the callback pushed, the pointer returned
\* unless the caller passed SOMA_PROVIDER_IGNORE.
RegisterReturns(t) ==
    /\ At(t, "push")
    /\ heap' = [heap EXCEPT ![doing[t].prov].dummy = TRUE]
    /\ callbacks' = Append(callbacks, doing[t].prov)
    /\ kept' = IF doing[t].keep THEN kept \cup {doing[t].prov} ELSE kept
    /\ Goes(t, Idle)
    /\ UNCHANGED <<one_stream, mid, route, silent, call, wild>>

Register(t) ==
    Allocated(t) \/ NotAllocated(t) \/ RegisterRpc(t) \/ RegisterData(t) \/ RegisterReturns(t)

\* keep: the caller asked for the pointer.
soma_provider_register(t, i, keep) == RegisterBegins(t, i, keep) \/ Register(t)

-----------------------------------------------------------------------------
(* soma_finalize_provider; for is what called it, destroy or margo. *)

FinalizeBegins(t, p, for) ==
    /\ Goes(t, [at |-> "deregister", prov |-> p, n |-> 1, for |-> for])
    /\ wild' = (wild \/ heap[p] = NULL)

\* From one RPC to the next, and from the last to the head of the hash: left is
\* how far from its end the loop over the collectors is.
Deregisters(t) ==
    Goes(t, IF doing[t].n = Len(Rpcs)
            THEN [at |-> "close", prov |-> doing[t].prov, n |-> doing[t].n + 1,
                  for |-> doing[t].for, left |-> heap[doing[t].prov].cols]
            ELSE [doing[t] EXCEPT !.n = @ + 1])

\* Mutant of Deregister: the RPC added last is not deregistered.
DeregisterMost(t) ==
    /\ At(t, "deregister")
    /\ route' = IF doing[t].n = Len(Rpcs) THEN route
                ELSE [route EXCEPT ![heap[doing[t].prov].id][Rpcs[doing[t].n]] = Unregistered]
    /\ silent' = IF Rpcs[doing[t].n] = "soma_hello" THEN silent \ {heap[doing[t].prov].id}
                                                   ELSE silent
    /\ Deregisters(t)
    /\ UNCHANGED <<one_stream, mid, callbacks, heap, kept, call, wild>>

Deregister(t) ==
    /\ At(t, "deregister")
    /\ route' = [route EXCEPT ![heap[doing[t].prov].id][Rpcs[doing[t].n]] = Unregistered]
    /\ silent' = IF Rpcs[doing[t].n] = "soma_hello" THEN silent \ {heap[doing[t].prov].id}
                                                   ELSE silent
    /\ Deregisters(t)
    /\ UNCHANGED <<one_stream, mid, callbacks, heap, kept, call, wild>>

\* Mutant of CloseBegins: the collector is not unlinked, and the loop goes to
\* the head of the hash each time.
CloseFromHead(t) ==
    /\ At(t, "close")
    /\ doing[t].left > 0
    /\ Goes(t, [doing[t] EXCEPT !.at = "closing", !.left = heap[doing[t].prov].cols])
    /\ UNCHANGED <<one_stream, mid, route, silent, callbacks, heap, kept, call, wild>>

\* The item the loop saved: the one after it is saved, it is taken from the
\* hash, and its backend's close called.
CloseBegins(t) ==
    /\ At(t, "close")
    /\ doing[t].left > 0
    /\ heap' = [heap EXCEPT ![doing[t].prov].cols = @ - 1]
    /\ Goes(t, [doing[t] EXCEPT !.at = "closing", !.left = @ - 1])
    /\ UNCHANGED <<one_stream, mid, route, silent, callbacks, kept, call, wild>>

CloseReturns(t) ==
    /\ At(t, "closing")
    /\ Goes(t, [doing[t] EXCEPT !.at = "close"])
    /\ UNCHANGED <<one_stream, mid, route, silent, callbacks, heap, kept, call, wild>>

\* The loop has no item to go to.
Free(t) ==
    /\ At(t, "close")
    /\ doing[t].left = 0
    /\ heap' = [heap EXCEPT ![doing[t].prov] = NULL]
    /\ Goes(t, IF doing[t].for = "margo" THEN [at |-> "callback", prov |-> NULL] ELSE Idle)
    /\ UNCHANGED <<one_stream, mid, route, silent, callbacks, kept, call, wild>>

soma_finalize_provider(t) ==
    Deregister(t) \/ CloseBegins(t) \/ CloseReturns(t) \/ Free(t)

\* margo_provider_pop_finalize_callback: of a provider's callbacks the one that
\* was pushed last goes.
PopCallback(p) ==
    \/ p \notin Range(callbacks) /\ UNCHANGED callbacks
    \/ \E n \in DOMAIN callbacks :
          /\ callbacks[n] = p
          /\ \A m \in n + 1 .. Len(callbacks) : callbacks[m] # p
          /\ callbacks' = RemoveAt(callbacks, n)

\* Mutant of soma_provider_destroy: Margo keeps the callback.
DestroyKeepsCallback(t) ==
    /\ At(t, "idle")
    /\ mid # "finalized"
    /\ \E p \in kept :
          /\ InFlight(heap[p].id) = {}
          /\ kept' = kept \ {p}
          /\ FinalizeBegins(t, p, "destroy")
    /\ UNCHANGED <<one_stream, mid, route, silent, callbacks, heap, call>>

\* The callback is popped and called.  A provider is destroyed once, and when
\* it has no requests.
soma_provider_destroy(t) ==
    /\ At(t, "idle")
    /\ mid = "up"
    /\ \E p \in kept :
          /\ InFlight(heap[p].id) = {}
          /\ kept' = kept \ {p}
          /\ PopCallback(p)
          /\ FinalizeBegins(t, p, "destroy")
    /\ UNCHANGED <<one_stream, mid, route, silent, heap, call>>

\* The adapters of the Bedrock module keep the pointer, to destroy the
\* provider with; a program that uses the library alone ignores it.
soma_register_provider(t, i) == soma_provider_register(t, i, TRUE)
soma_deregister_provider(t) == soma_provider_destroy(t)

-----------------------------------------------------------------------------
(* Margo. *)

\* Nothing is registered and no request served while the instance goes away,
\* but a provider may still be closing its collectors.
margo_finalize(t) ==
    /\ At(t, "idle")
    /\ mid = "up"
    /\ Registering = {}
    /\ \A u \in Ults : call[u] = NoCall
    /\ mid' = "finalizing"
    /\ kept' = {}
    /\ Goes(t, [at |-> "callback", prov |-> NULL])
    /\ UNCHANGED <<one_stream, route, silent, callbacks, heap, call, wild>>

RunCallback(t) ==
    /\ At(t, "callback")
    /\ callbacks # <<>>
    /\ callbacks' = Front(callbacks)
    /\ FinalizeBegins(t, Last(callbacks), "margo")
    /\ UNCHANGED <<one_stream, mid, route, silent, heap, kept, call>>

\* The application waits for the destructions it began.
Finalized(t) ==
    /\ At(t, "callback")
    /\ callbacks = <<>>
    /\ \A s \in Threads \ {t} : doing[s] = Idle
    /\ mid' = "finalized"
    /\ Goes(t, Idle)
    /\ UNCHANGED <<one_stream, route, silent, callbacks, heap, kept, call, wild>>

margo_init ==
    /\ mid = "finalized"
    /\ mid' = "up"
    /\ one_stream' \in BOOLEAN
    /\ route' = NoRoutes
    /\ silent' = {}
    /\ UNCHANGED <<callbacks, heap, doing, kept, call, wild>>

\* A request arrives for an RPC that is registered.
Arrives(u, i, r) ==
    /\ call[u] = NoCall
    /\ StreamFree(u)
    /\ mid = "up"
    /\ route[i][r] # Unregistered
    /\ ~one_stream => \E p \in Up : heap[p].id = i
    /\ call' = [call EXCEPT ![u] = [at |-> "ready", id |-> i, rpc |-> r, prov |-> NULL]]
    /\ UNCHANGED <<mid, one_stream, route, silent, callbacks, heap, doing, kept, wild>>

-----------------------------------------------------------------------------
(* The handlers. *)

\* margo_registered_data
Looks(u) ==
    /\ call[u].at = "ready"
    /\ StreamFree(u)
    /\ LET data == route[call[u].id][call[u].rpc]
       IN  call' = [call EXCEPT ![u].at = "serving",
                                ![u].prov = IF data = Unregistered THEN NULL ELSE data]
    /\ UNCHANGED <<mid, one_stream, route, silent, callbacks, heap, doing, kept, wild>>

\* It makes or removes a collector, or does neither.
Serves(u) ==
    /\ call[u].at = "serving"
    /\ StreamFree(u)
    /\ LET p == call[u].prov
           cols == heap[p].cols
       IN  \/ UNCHANGED heap
           \/ /\ call[u].rpc \in Creates /\ cols < MaxCollectors
              /\ heap' = [heap EXCEPT ![p].cols = cols + 1]
           \/ /\ call[u].rpc \in Ends /\ cols > 0
              /\ heap' = [heap EXCEPT ![p].cols = cols - 1]
    /\ call' = [call EXCEPT ![u] = NoCall]
    /\ UNCHANGED <<one_stream, mid, route, silent, callbacks, doing, kept, wild>>

Handler(u) == Looks(u) \/ Serves(u)

Init ==
    /\ mid = "up"
    /\ one_stream \in BOOLEAN
    /\ route = NoRoutes
    /\ silent = {}
    /\ callbacks = <<>>
    /\ heap = [p \in Blocks |-> NULL]
    /\ doing = [t \in Threads |-> Idle]
    /\ kept = {}
    /\ call = [u \in Ults |-> NoCall]
    /\ wild = FALSE

Margo(t) == margo_finalize(t) \/ RunCallback(t) \/ Finalized(t)

Thread(t) ==
    \/ \E i \in ProviderIds :
          soma_provider_register(t, i, FALSE) \/ soma_register_provider(t, i)
    \/ soma_deregister_provider(t)
    \/ soma_finalize_provider(t)
    \/ Margo(t)

Next ==
    \/ \E t \in Threads : Thread(t)
    \/ \E u \in Ults : Handler(u) \/ \E i \in ProviderIds, r \in Range(Rpcs) : Arrives(u, i, r)
    \/ margo_init

Spec == Init /\ [][Next]_vars

\* Calls that have begun go on: Margo's functions and backends return, and
\* who waits for the stream gets its turn on it.
Fairness ==
    /\ \A t \in Threads : SF_vars(doing[t] # Idle /\ Thread(t))
    /\ \A u \in Ults : SF_vars(Handler(u))

FairSpec == Spec /\ Fairness

-----------------------------------------------------------------------------
(* Properties. *)

\* The provider a handler works on is allocated, has the id the request was
\* addressed to, and has its backends.
ServedByOwner ==
    \A u \in Ults : call[u].at = "serving" =>
        /\ call[u].prov # NULL
        /\ heap[call[u].prov] # NULL
        /\ heap[call[u].prov].id = call[u].id
        /\ heap[call[u].prov].dummy

\* A provider keeps all its RPCs, with soma_hello's response disabled, from
\* the end of its registration to the beginning of its destruction, also when
\* a provider of the same id is still being destroyed: soma_sum, which tells
\* whether an id is taken, is the RPC deregistered last.
OwnRoutes ==
    \A p \in Up : /\ \A r \in Range(Rpcs) : route[heap[p].id][r] = p
                 /\ heap[p].id \in silent

\* No RPC leads to a provider that was freed, or that has another id.
NoStaleRoute ==
    \A i \in ProviderIds : \A r \in Range(Rpcs) :
        route[i][r] \in Blocks => heap[route[i][r]] # NULL /\ heap[route[i][r]].id = i

\* No provider is finalized twice, by soma_provider_destroy and by Margo,
\* whether or not a close blocks one of them.
FinalizedOnce == ~wild

\* When margo_finalize returns every provider is freed, those destroyed and
\* those whose registration was given SOMA_PROVIDER_IGNORE alike.
InstanceReleasesAll ==
    mid = "finalized" => \A p \in Blocks : heap[p] = NULL

\* The steps a finalisation has to take from x on, when the provider has cols
\* collectors, until it is freed: for each RPC one, for each collector the call
\* of close and its return, and the free.
StepsLeft(x, cols) ==
    (Len(Rpcs) + 1 - x.n) + 2 * cols + (IF x.at = "closing" THEN 2 ELSE 1)

\* A finalisation comes to an end whatever goes on beside it: no request and no
\* other thread gives the provider more collectors or touches it at all, and
\* each step of its own leaves less to do.
FinalisationsAdvance ==
    [][\A t \in Threads : doing[t].at \in {"deregister", "close", "closing"} =>
          LET p == doing[t].prov
          IN  \/ doing'[t] = doing[t] /\ heap'[p] = heap[p]
              \/ heap'[p] = NULL /\ doing'[t].at \in {"idle", "callback"}
              \/ /\ heap'[p] # NULL
                 /\ StepsLeft(doing'[t], heap'[p].cols)
                       < StepsLeft(doing[t], heap[p].cols)]_vars

\* A registration, a destruction or a finalisation that has begun ends.
ThreadsReturn == \A t \in Threads : doing[t] # Idle ~> doing[t] = Idle

=============================================================================
