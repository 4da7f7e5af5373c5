------------------------ MODULE DummyProviderProofs -------------------------
(***************************************************************************)
(* Proofs about the provider with the dummy backend: it is one of the      *)
(* providers of SomaProvider, so that what is proved of those holds of it, *)
(* and its contexts on the heap are freed once each.                       *)
(***************************************************************************)
EXTENDS DummyProvider, SomaServiceProofs

\* A backend that never yields is within the context discipline, provided that
\* handlers are gone when the provider is finalised.
LEMMA DummyDiscipline == Drained => ContextDiscipline
BY DummyAssumption DEF ContextDiscipline

\* Back from the backend, with the dummy's results.
LEMMA DummyBackendIsHandler == \A u : dummy_backend(u) => Handler(u)
BY DummyAssumption, BackendAssumption
   DEF dummy_backend, dummy_create_collector, dummy_open_collector,
       dummy_close_collector, dummy_destroy_collector, dummy_say_hello,
       dummy_compute_sum, Returning, MakeContext, Handler,
       soma_create_collector_ult, soma_open_collector_ult,
       soma_close_collector_ult, soma_destroy_collector_ult, soma_hello_ult,
       soma_sum_ult

\* Each step of the provider with the dummy backend is one of the provider.
LEMMA DummyIsNext == [DummyNext]_dummyVars => [Next]_vars
<1> SUFFICES ASSUME [DummyNext]_dummyVars PROVE [Next]_vars
  OBVIOUS
<1>1. ASSUME NEW u \in Ults, dummy_backend(u) PROVE Next
  BY <1>1, DummyBackendIsHandler DEF Next
<1>2. CASE FinalizeReturn
  BY <1>2 DEF Next, soma_finalize_provider
<1>3. CASE Outside
  BY <1>3 DEF Outside, Next, soma_finalize_provider
<1>4. ASSUME NEW u \in Ults, NEW r \in Request, NEW c \in Configs \cup {NULL},
             ArriveWith(u, r, c)
      PROVE  Next
  BY <1>4 DEF ArriveWith, Next
<1>5. CASE UNCHANGED dummyVars
  BY <1>5 DEF dummyVars
<1> QED
  BY <1>1, <1>2, <1>3, <1>4, <1>5 DEF DummyNext

\* The provider with the dummy backend is a provider with some backend that
\* does not yield: everything proved of those holds of it.
THEOREM DummyIsProvider == DummySpec => Spec
<1>1. DummyInit => Init
  BY DEF DummyInit
<1> QED
  BY <1>1, DummyIsNext, PTL DEF DummySpec, Spec

\* In particular it implements the abstract service, whatever its callers
\* overlap.
THEOREM DummyImplementsService ==
    ASSUME Drained PROVE DummySpec => ImplementsService
BY DummyIsProvider, DummyDiscipline, ServiceImplemented, PTL

\* And whatever its callers overlap, as long as handlers are gone when the
\* provider is finalised: no handler follows a freed pointer, the counter
\* counts, no context is used once it was handed to close or destroy, one
\* caller only is told that it ended a collector, and nothing is left behind.
THEOREM DummyOverlapsSafely ==
    ASSUME Drained
    PROVE  DummySpec => [](/\ NoDanglingUse /\ CountMatches
                           /\ NoMisuse /\ OneEnderWins
                           /\ ContextsAccounted /\ ShutdownReleasesAll)
<1>1. ContextDiscipline /\ MemoryDiscipline
  BY DummyDiscipline, DisciplineStronger
<1> QED
  BY <1>1, DummyIsProvider, MemorySafe, CounterExact, ContextSafe, OneEnder,
     NothingLeaks, ShutdownComplete, PTL

-----------------------------------------------------------------------------
(* The contexts of the dummy backend. *)

GoodConfigs == (Configs \ {Malformed}) \cup {Default}

\* A collector has a context on the heap exactly while the provider has its
\* context open, and what is kept there parsed.
HeapMatches ==
    /\ config \in [Ults -> Configs \cup {NULL}]
    /\ heap \in [Ids -> GoodConfigs \cup {NULL}]
    /\ \A id \in Ids : heap[id] # NULL <=> ctx[id] \in {"live", "ending"}
    /\ ~wild

\* A refusal for a configuration was given to a create or open, whose context
\* came to nothing.
RefusedFailed ==
    \A u \in Ults : out[u].ret = "SOMA_ERR_INVALID_CONFIG" =>
        req[u].op \in CreateOps /\ held[u] \in Ids /\ ctx[held[u]] = "failed"

DummyInv == ServiceInv /\ RepliesFresh /\ HeapMatches /\ RefusedFailed

\* Freeing a context that is being ended frees one that was allocated.
LEMMA FreeMatches ==
    ASSUME HeapMatches, NEW id \in Ids, ctx \in [Ids -> CtxStates],
           ctx[id] = "ending", ctx' = [ctx EXCEPT ![id] = "ended"],
           FreeContext(id)
    PROVE  HeapMatches'
BY DEF HeapMatches, FreeContext, GoodConfigs

\* What a handler does outside the backend opens and closes no context.
LEMMA OutsideContexts ==
    ASSUME ServiceInv, NEW u \in Ults, pc[u] # "backend", Handler(u)
    PROVE  \A id \in Ids :
              \/ ctx'[id] = ctx[id]
              \/ ctx[id] = "unborn" /\ ctx'[id] = "creating"
              \/ ctx[id] \in {"live", "ending"} /\ ctx'[id] = "ending"
<1>0. TypeOK /\ ContextsAccounted
  BY DEF ServiceInv, ContextInv
<1>. USE <1>0 DEF TypeOK
<1>1. ASSUME NEW i \in Ids, CallCreate(u, i)
      PROVE  \A id \in Ids :
                \/ ctx'[id] = ctx[id]
                \/ ctx[id] = "unborn" /\ ctx'[id] = "creating"
  BY <1>1 DEF CallCreate
<1>2. CASE CallEnd(u)
  <2>1. req[u].id \in Ids /\ ctx[req[u].id] \in {"live", "ending"}
    BY <1>2 DEF CallEnd, find_collector, ContextsAccounted
  <2> QED
    BY <1>2, <2>1 DEF CallEnd
<1>3. CASE UNCHANGED ctx
  BY <1>3
<1> QED
  BY <1>1, <1>2, <1>3, HandlerCases
     DEF HandlerStep, InvalidInput, Refuse, CreateSucceeds, CreateFails,
         CloseReturns, DestroyReturns, ListCollectors, HelloInvalidInput,
         HelloUnknownCollector, CallUse, HelloReturns, UseReturned, SumReturns,
         Finish, Resumes

\* The finaliser goes to collectors that are still in the hash.
LEMMA ClosesCollector ==
    ASSUME ServiceInv, FinalizeClose
    PROVE  tmp \in collectors /\ ctx[tmp] \in {"live", "ending"}
<1>1. tmp \in collectors
  BY IdsAssumption DEF FinalizeClose, ServiceInv, ContextInv, LoopInHash, HeadOf
<1> QED
  BY <1>1 DEF ServiceInv, ContextInv, ContextsAccounted

\* A handler back from the backend opens, fails or ends the context it holds.
LEMMA BackendContexts ==
    ASSUME ServiceInv, NEW u \in Ults, dummy_backend(u)
    PROVE  /\ pc[u] = "backend" /\ held[u] \in Ids
           /\ \/ /\ req[u].op \in CreateOps /\ MakeContext(u)
                 /\ ctx[held[u]] = "creating"
              \/ /\ req[u].op \in EndOps /\ FreeContext(held[u])
                 /\ ctx[held[u]] = "ending"
                 /\ ctx' = [ctx EXCEPT ![held[u]] = "ended"]
                 /\ out'[u].ret \in {"SOMA_SUCCESS", "SOMA_ERR_INVALID_COLLECTOR"}
              \/ /\ req[u].op \in UseOps /\ UNCHANGED <<ctx, config, heap, wild>>
                 /\ out'[u].ret \in {"SOMA_SUCCESS", "none"}
<1>0. TypeOK /\ CreatorHolds /\ EnderHolds
  BY DEF ServiceInv, ContextInv
<1>1. pc[u] = "backend" /\ held[u] \in Ids
  BY <1>0 DEF dummy_backend, dummy_create_collector, dummy_open_collector,
         dummy_close_collector, dummy_destroy_collector, dummy_say_hello,
         dummy_compute_sum, Returning, TypeOK
<1>2. CASE dummy_create_collector(u) \/ dummy_open_collector(u)
  <2>1. req[u].op \in CreateOps /\ MakeContext(u)
    BY <1>2 DEF dummy_create_collector, dummy_open_collector, Returning, CreateOps
  <2> QED
    BY <1>0, <1>1, <2>1 DEF CreatorHolds, InBackend
<1>3. CASE dummy_close_collector(u) \/ dummy_destroy_collector(u)
  <2>1. req[u].op \in EndOps /\ FreeContext(held[u])
    BY <1>3, OpsDisjoint
       DEF dummy_close_collector, dummy_destroy_collector, Returning
  <2>2. ctx[held[u]] = "ending"
    BY <1>0, <1>1, <2>1 DEF EnderHolds, InBackend
  <2>3. /\ ctx' = [ctx EXCEPT ![held[u]] = "ended"]
        /\ \E ret \in {"SOMA_SUCCESS", "SOMA_ERR_INVALID_COLLECTOR"} :
              Respond(u, ret, {})
    BY <1>3 DEF dummy_close_collector, dummy_destroy_collector, CloseReturns,
                DestroyReturns
  <2>4. out'[u].ret \in {"SOMA_SUCCESS", "SOMA_ERR_INVALID_COLLECTOR"}
    BY <1>0, <2>3 DEF Respond, TypeOK
  <2> QED
    BY <1>1, <2>1, <2>2, <2>3, <2>4
<1>4. CASE dummy_say_hello(u) \/ dummy_compute_sum(u)
  <2>1. req[u].op \in UseOps /\ UNCHANGED <<ctx, config, heap, wild>>
    BY <1>4, OpsDisjoint
       DEF dummy_say_hello, dummy_compute_sum, Returning, HelloReturns,
           SumReturns, UseReturned
  <2>2. Leave(u) \/ Respond(u, "SOMA_SUCCESS", {})
    BY <1>4 DEF dummy_say_hello, dummy_compute_sum, HelloReturns, SumReturns
  <2>3. out'[u].ret \in {"SOMA_SUCCESS", "none"}
    BY <1>0, <2>2 DEF Leave, Respond, NoReply, TypeOK
  <2> QED
    BY <1>1, <2>1, <2>3
<1> QED
  BY <1>2, <1>3, <1>4 DEF dummy_backend

\* Each step keeps the heap and the contexts in agreement.
LEMMA DummyNextHeap ==
    ASSUME ServiceInv, HeapMatches, DummyNext PROVE HeapMatches'
<1>0. TypeOK /\ TypeOK'
  BY TypeNext, DummyIsNext DEF ServiceInv, ContextInv
<1>1. ASSUME NEW u \in Ults, dummy_backend(u) PROVE HeapMatches'
  <2>1. CASE MakeContext(u) /\ pc[u] = "backend" /\ held[u] \in Ids
             /\ ctx[held[u]] = "creating"
    <3>1. CASE Parses(u) /\ CreateSucceeds(u)
               /\ heap' = [heap EXCEPT ![held[u]] = Parsed(u)]
      <4>1. Parsed(u) \in GoodConfigs /\ Parsed(u) # NULL
        BY <3>1, DummyAssumption DEF Parsed, Parses, HeapMatches, GoodConfigs
      <4>2. ctx' = [ctx EXCEPT ![held[u]] = "live"]
        BY <3>1 DEF CreateSucceeds
      <4>. HIDE DEF Parsed
      <4> QED
        BY <1>0, <2>1, <3>1, <4>1, <4>2 DEF MakeContext, HeapMatches, TypeOK
    <3>2. CASE CreateFails(u, "SOMA_ERR_INVALID_CONFIG") /\ UNCHANGED heap
      BY <1>0, <2>1, <3>2 DEF MakeContext, CreateFails, HeapMatches, TypeOK
    <3> QED
      BY <2>1, <3>1, <3>2 DEF MakeContext
  <2>2. CASE /\ FreeContext(held[u]) /\ held[u] \in Ids
             /\ ctx[held[u]] = "ending" /\ ctx' = [ctx EXCEPT ![held[u]] = "ended"]
    BY <1>0, <2>2, FreeMatches DEF TypeOK
  <2>3. CASE UNCHANGED <<ctx, config, heap, wild>>
    BY <2>3 DEF HeapMatches
  <2> QED
    BY <1>1, <2>1, <2>2, <2>3, BackendContexts
<1>2. CASE FinalizeReturn /\ FreeContext(cur)
  BY <1>0, <1>2, FreeMatches, IdsAssumption
     DEF FinalizeReturn, ServiceInv, ContextInv, FinaliserOwns, TypeOK
<1>3. CASE Outside /\ UNCHANGED <<config, heap, wild>>
  <2>1. ASSUME NEW u \in Ults, pc[u] # "backend", Handler(u) PROVE HeapMatches'
    BY <1>3, <2>1, OutsideContexts DEF HeapMatches
  <2>2. CASE FinalizeClose
    <3>1. tmp \in collectors /\ ctx[tmp] \in {"live", "ending"}
      BY <2>2, ClosesCollector
    <3> QED
      BY <1>0, <1>3, <2>2, <3>1 DEF FinalizeClose, HeapMatches, TypeOK
  <2>3. CASE UNCHANGED ctx
    BY <1>3, <2>3 DEF HeapMatches
  <2> QED
    BY <1>3, <2>1, <2>2, <2>3
       DEF Outside, soma_provider_register, FinalizeBegin, FinalizeEnd
<1>4. ASSUME NEW u \in Ults, NEW r \in Request, NEW c \in Configs \cup {NULL},
             ArriveWith(u, r, c), UNCHANGED <<heap, wild>>
      PROVE  HeapMatches'
  BY <1>4 DEF ArriveWith, Arrive, HeapMatches
<1> QED
  BY <1>1, <1>2, <1>3, <1>4 DEF DummyNext

\* A context that failed stays failed: its id was never in the hash.
LEMMA FailedStays ==
    ASSUME ServiceInv, DummyNext, NEW id \in Ids, ctx[id] = "failed"
    PROVE  ctx'[id] = "failed"
<1>0. TypeOK /\ ContextsAccounted /\ FinaliserOwns
  BY DEF ServiceInv, ContextInv
<1>1. ASSUME NEW u \in Ults, dummy_backend(u) PROVE ctx'[id] = "failed"
  BY <1>0, <1>1, BackendContexts, ZenonT(60) DEF MakeContext, CreateSucceeds, CreateFails, TypeOK
<1>2. CASE FinalizeReturn
  BY <1>0, <1>2 DEF FinalizeReturn, FinaliserOwns, TypeOK
<1>3. CASE Outside
  <2>1. ASSUME NEW u \in Ults, pc[u] # "backend", Handler(u)
        PROVE  ctx'[id] = "failed"
    BY <2>1, OutsideContexts
  <2>2. CASE FinalizeClose
    BY <1>0, <2>2, ClosesCollector DEF FinalizeClose, TypeOK
  <2> QED
    BY <1>3, <2>1, <2>2
       DEF Outside, soma_provider_register, FinalizeBegin, FinalizeEnd
<1>4. ASSUME NEW u \in Ults, NEW r \in Request, NEW c \in Configs \cup {NULL},
             ArriveWith(u, r, c)
      PROVE  ctx'[id] = "failed"
  BY <1>4 DEF ArriveWith, Arrive
<1> QED
  BY <1>1, <1>2, <1>3, <1>4 DEF DummyNext

\* Only a create or open comes out of its handler with this error, from a
\* backend that failed it.
LEMMA RefusedByBackend ==
    ASSUME ServiceInv, RepliesFresh, RefusedFailed, NEW u \in Ults,
           dummy_backend(u) \/ (pc[u] # "backend" /\ Handler(u)),
           out'[u].ret = "SOMA_ERR_INVALID_CONFIG"
    PROVE  /\ req'[u].op \in CreateOps
           /\ held'[u] \in Ids /\ ctx'[held'[u]] = "failed"
<1>0. TypeOK
  BY DEF ServiceInv, ContextInv
<1>1. \A ret, ids : Respond(u, ret, ids) => ret = "SOMA_ERR_INVALID_CONFIG"
  BY <1>0 DEF Respond, TypeOK
<1>2. CASE dummy_backend(u)
  <2>1. /\ req[u].op \in CreateOps /\ MakeContext(u)
        /\ ctx[held[u]] = "creating" /\ held[u] \in Ids
    BY <1>2, BackendContexts
  <2>2. CreateFails(u, "SOMA_ERR_INVALID_CONFIG")
    BY <1>1, <2>1 DEF MakeContext, CreateSucceeds
  <2>3. /\ ctx' = [ctx EXCEPT ![held[u]] = "failed"]
        /\ UNCHANGED <<req, held>>
    BY <2>2 DEF CreateFails, Respond
  <2> QED
    BY <1>0, <2>1, <2>3 DEF TypeOK
<1>3. CASE pc[u] # "backend" /\ Handler(u)
  <2>1. ~Leave(u)
    BY <1>0 DEF Leave, NoReply, TypeOK
  <2>2. ASSUME NEW id, Starts(u), Call(u, id) PROVE FALSE
    BY <1>0, <2>2 DEF Call, Starts, RepliesFresh, NoReply
  <2> QED
    BY <1>1, <1>3, <2>1, <2>2, ServiceCases
       DEF ServiceStep, Decodes, InvalidInput, InvalidToken, UnknownBackend,
           UnknownCollector, Refuse, CallCreate, CreateSucceeds, CreateFails,
           CallEnd, CloseReturns, DestroyReturns, ListCollectors, CallUse,
           SumReturns, UseReturned, HelloInvalidInput, HelloUnknownCollector,
           HelloReturns, Finish, Resumes
<1> QED
  BY <1>2, <1>3

\* A configuration that does not parse makes no context.
LEMMA DummyNextRefused ==
    ASSUME ServiceInv, RepliesFresh, RefusedFailed, DummyNext
    PROVE  RepliesFresh' /\ RefusedFailed'
<1>0. TypeOK /\ TypeOK' /\ HandlersDrained
  BY TypeNext, DummyIsNext DEF ServiceInv, ContextInv
<1>1. ASSUME NEW u \in Ults, dummy_backend(u) \/ (pc[u] # "backend" /\ Handler(u))
      PROVE  RepliesFresh' /\ RefusedFailed'
  <2>1. Handler(u)
    BY <1>1, DummyBackendIsHandler
  <2>2. /\ RepliesFresh'
        /\ \A v \in Ults \ {u} :
              out'[v] = out[v] /\ req'[v] = req[v] /\ held'[v] = held[v]
    BY <1>0, <2>1, HandlerReplies, HandlerFrame
  <2>3. \A v \in Ults \ {u} : out'[v].ret = "SOMA_ERR_INVALID_CONFIG" =>
            /\ req'[v].op \in CreateOps
            /\ held'[v] \in Ids /\ ctx'[held'[v]] = "failed"
    BY <2>2, FailedStays DEF RefusedFailed
  <2>4. out'[u].ret = "SOMA_ERR_INVALID_CONFIG" =>
            /\ req'[u].op \in CreateOps
            /\ held'[u] \in Ids /\ ctx'[held'[u]] = "failed"
    BY <1>1, RefusedByBackend
  <2> QED
    BY <2>2, <2>3, <2>4 DEF RefusedFailed
<1>2. ASSUME NEW u \in Ults, NEW r \in Request, NEW c \in Configs \cup {NULL},
             ArriveWith(u, r, c)
      PROVE  RepliesFresh' /\ RefusedFailed'
  BY <1>0, <1>2
     DEF ArriveWith, Arrive, RepliesFresh, RefusedFailed, NoReply, TypeOK
<1>3. CASE UNCHANGED <<pc, req, held, out>>
  BY <1>3, FailedStays DEF RepliesFresh, RefusedFailed
<1> QED
  BY <1>1, <1>2, <1>3
     DEF DummyNext, Outside, soma_provider_register, FinalizeBegin, FinalizeClose,
         FinalizeReturn, FinalizeEnd, handlers

LEMMA DummyNextInv ==
    ASSUME Drained, DummyInv, [DummyNext]_dummyVars PROVE DummyInv'
<1>1. ServiceInv'
  BY DummyIsNext, DummyDiscipline, DisciplineStronger, ContextNext, MemoryNext,
     TokenNext DEF DummyInv, ServiceInv
<1>2. CASE DummyNext
  BY <1>1, <1>2, DummyNextHeap, DummyNextRefused DEF DummyInv
<1>3. CASE UNCHANGED dummyVars
  BY <1>1, <1>3
     DEF DummyInv, RepliesFresh, HeapMatches, RefusedFailed, dummyVars, vars
<1> QED
  BY <1>2, <1>3

LEMMA DummyInitInv == DummyInit => DummyInv
<1> SUFFICES ASSUME DummyInit PROVE DummyInv
  OBVIOUS
<1>1. ServiceInv
  BY ContextInit, MemoryInit, TokenInit DEF DummyInit, ServiceInv
<1>2. RepliesFresh /\ RefusedFailed
  BY DEF DummyInit, Init, RepliesFresh, RefusedFailed, NoReply
<1>3. HeapMatches
  BY DEF DummyInit, Init, HeapMatches
<1> QED
  BY <1>1, <1>2, <1>3 DEF DummyInv

LEMMA DummyInvariant ==
    ASSUME Drained PROVE DummySpec => []DummyInv
BY DummyInitInv, DummyNextInv, PTL DEF DummySpec

\* Whatever its callers overlap, each context the dummy backend allocates is
\* freed exactly once, and the contexts on the heap are those of the collectors.
THEOREM DummyFreesOnce ==
    ASSUME Drained PROVE DummySpec => []ContextsFreedOnce
<1>1. DummyInv => ContextsFreedOnce
  BY DEF DummyInv, HeapMatches, ServiceInv, ContextInv, ContextsAccounted,
         ContextsFreedOnce
<1> QED
  BY <1>1, DummyInvariant, PTL

\* A collector's configuration parsed, and a create or open refused for its
\* configuration leaves no collector behind.
THEOREM DummyConfigsParsed ==
    ASSUME Drained PROVE DummySpec => []ConfigsParsed
<1>1. ASSUME DummyInv PROVE ConfigsParsed
  <2>1. TypeOK /\ ContextsAccounted /\ HeapMatches /\ RefusedFailed
    BY <1>1 DEF DummyInv, ServiceInv, ContextInv
  <2>2. \A id \in collectors : id \in Ids /\ ctx[id] \in {"live", "ending"}
    BY <2>1 DEF ContextsAccounted, TypeOK
  <2>3. \A id \in collectors : heap[id] \in GoodConfigs
    BY <2>1, <2>2 DEF HeapMatches
  <2>4. \A u \in Ults : out[u].ret = "SOMA_ERR_INVALID_CONFIG" =>
            req[u].op \in CreateOps /\ held[u] \notin collectors
    BY <2>1, <2>2 DEF RefusedFailed
  <2> QED
    BY <2>3, <2>4 DEF ConfigsParsed, GoodConfigs
<1> QED
  BY <1>1, DummyInvariant, PTL

=============================================================================
