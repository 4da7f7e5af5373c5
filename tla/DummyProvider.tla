--------------------------- MODULE DummyProvider ----------------------------
(***************************************************************************)
(* The provider with the backend compiled into it (dummy-backend.c), which *)
(* parses a collector's JSON configuration, keeps it in a context on the   *)
(* heap until the collector is closed or destroyed, and never yields.      *)
(* SomaProvider takes a backend's results as they come; here they are the  *)
(* dummy's.  Of a configuration only matters whether it parses.            *)
(***************************************************************************)
EXTENDS SomaProvider

CONSTANTS Configs, Malformed, Default, NULL

ASSUME DummyAssumption ==
    /\ Blocking = {}
    /\ "SOMA_ERR_INVALID_CONFIG" \in BackendRets
    /\ Malformed \in Configs
    /\ NULL \notin Configs \cup {Default}

VARIABLES
    config,  \* the configuration in each handler's input, NULL if there is none
    heap,    \* the configuration in each collector's context, NULL when there
             \* is no such context
    wild     \* a context was freed that was not allocated

dummyVars == <<vars, config, heap, wild>>

\* json_tokener_parse_ex, or the default configuration.
Parsed(u) == IF config[u] = NULL THEN Default ELSE config[u]

\* Mutant of Parses: no configuration is refused.
ParsesAnything(u) == TRUE

Parses(u) == config[u] # Malformed

\* What dummy_create_collector and dummy_open_collector both do.
MakeContext(u) ==
    /\ \/ /\ Parses(u)
          /\ CreateSucceeds(u)
          /\ heap' = [heap EXCEPT ![held[u]] = Parsed(u)]
       \/ /\ ~Parses(u)
          /\ CreateFails(u, "SOMA_ERR_INVALID_CONFIG")
          /\ UNCHANGED heap
    /\ UNCHANGED <<config, wild>>

\* dummy_close_collector and dummy_destroy_collector free a collector's
\* configuration and its context.
FreeContext(id) ==
    /\ wild' = (wild \/ heap[id] = NULL)
    /\ heap' = [heap EXCEPT ![id] = NULL]
    /\ UNCHANGED config

Returning(u, op) == pc[u] = "backend" /\ req[u].op = op

dummy_create_collector(u) == Returning(u, "create") /\ MakeContext(u)
dummy_open_collector(u) == Returning(u, "open") /\ MakeContext(u)

\* Mutant of dummy_close_collector: nothing is freed.
CloseFreesNothing(u) ==
    /\ Returning(u, "close")
    /\ CloseReturns(u, "SOMA_SUCCESS")
    /\ UNCHANGED <<config, heap, wild>>

dummy_close_collector(u) ==
    Returning(u, "close") /\ CloseReturns(u, "SOMA_SUCCESS") /\ FreeContext(held[u])
dummy_destroy_collector(u) ==
    Returning(u, "destroy") /\ DestroyReturns(u) /\ FreeContext(held[u])

\* hello and sum leave the context alone.
dummy_say_hello(u) ==
    Returning(u, "hello") /\ HelloReturns(u) /\ UNCHANGED <<config, heap, wild>>
dummy_compute_sum(u) ==
    Returning(u, "sum") /\ SumReturns(u) /\ UNCHANGED <<config, heap, wild>>

dummy_backend(u) ==
    \/ dummy_create_collector(u) \/ dummy_open_collector(u)
    \/ dummy_close_collector(u) \/ dummy_destroy_collector(u)
    \/ dummy_say_hello(u) \/ dummy_compute_sum(u)

\* The provider's steps outside the backend.
Outside ==
    \/ \E u \in Ults : pc[u] # "backend" /\ Handler(u)
    \/ soma_provider_register
    \/ FinalizeBegin
    \/ FinalizeClose
    \/ FinalizeEnd

ArriveWith(u, r, c) ==
    /\ Arrive(u, r)
    /\ c # NULL => r.op \in CreateOps
    /\ config' = [config EXCEPT ![u] = c]

DummyInit ==
    /\ Init
    /\ config = [u \in Ults |-> NULL]
    /\ heap = [id \in Ids |-> NULL]
    /\ wild = FALSE

DummyNext ==
    \/ \E u \in Ults : dummy_backend(u)
    \/ FinalizeReturn /\ FreeContext(cur)
    \/ Outside /\ UNCHANGED <<config, heap, wild>>
    \/ /\ \E u \in Ults, r \in Request, c \in Configs \cup {NULL} : ArriveWith(u, r, c)
       /\ UNCHANGED <<heap, wild>>

DummySpec == DummyInit /\ [][DummyNext]_dummyVars

-----------------------------------------------------------------------------
(* Properties. *)

\* Each context the dummy backend allocated is freed exactly once, by the
\* close or the destroy that takes its collector out of the hash or by the
\* finaliser, and none is left when the provider is gone.
ContextsFreedOnce ==
    /\ ~wild
    /\ {id \in Ids : heap[id] # NULL} = collectors \cup ({cur} \ {NilId})

\* A collector's context holds a configuration that parsed, and whoever gets
\* an id for it can rely on that; a create that is refused for its
\* configuration leaves no collector behind.
ConfigsParsed ==
    /\ \A id \in collectors : heap[id] \in (Configs \ {Malformed}) \cup {Default}
    /\ \A u \in Ults : out[u].ret = "SOMA_ERR_INVALID_CONFIG" =>
                          req[u].op \in CreateOps /\ held[u] \notin collectors

=============================================================================
