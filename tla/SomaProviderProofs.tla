------------------------- MODULE SomaProviderProofs -------------------------
(***************************************************************************)
(* Proofs about the provider of SomaProvider, for every number of handlers *)
(* and collectors, every backend and every choice of the operations that   *)
(* block.                                                                  *)
(***************************************************************************)
EXTENDS SomaProviderInv, FiniteSetTheorems, TLAPS

\* A request has one of the seven operations; NoRequest is none of them.
LEMMA RequestOps == \A r \in Request : r.op \in Ops /\ r # NoRequest
BY DEF Request, Requests, create_collector_in_t, close_collector_in_t,
       list_collectors_in_t, sum_in_t, NoRequest, Ops, CreateOps, EndOps,
       UseOps, IdOps

\* The steps a handler can take, by the operation of its request.
HandlerStep(u) ==
    \/ InvalidInput(u)
    \/ \E error \in soma_return_t \ {"SOMA_SUCCESS"} : Refuse(u, error)
    \/ req[u].op \in CreateOps /\ \E id \in Ids : CallCreate(u, id)
    \/ req[u].op \in CreateOps /\ CreateSucceeds(u)
    \/ req[u].op \in CreateOps /\ \E ret \in BackendRets : CreateFails(u, ret)
    \/ req[u].op \in EndOps /\ CallEnd(u)
    \/ req[u].op = "close" /\ \E ret \in BackendRets : CloseReturns(u, ret)
    \/ req[u].op = "destroy" /\ DestroyReturns(u)
    \/ req[u].op = "list" /\ ListCollectors(u)
    \/ HelloInvalidInput(u)
    \/ req[u].op = "hello" /\ HelloUnknownCollector(u)
    \/ req[u].op \in UseOps /\ CallUse(u)
    \/ req[u].op = "hello" /\ HelloReturns(u)
    \/ req[u].op = "sum" /\ SumReturns(u)
    \/ Finish(u)

LEMMA HandlerCases == \A u : Handler(u) => HandlerStep(u)
BY DEF Handler, HandlerStep, soma_create_collector_ult, soma_open_collector_ult,
       soma_close_collector_ult, soma_destroy_collector_ult,
       soma_list_collectors_ult, soma_hello_ult, soma_sum_ult, InvalidToken,
       UnknownBackend, UnknownCollector, soma_return_t, CreateOps, EndOps, UseOps

-----------------------------------------------------------------------------
(* Type correctness. *)

LEMMA TypeInit == Init => TypeOK
<1> SUFFICES ASSUME Init PROVE TypeOK
  OBVIOUS
<1>1. backend_types \in Seq(Types)
  BY DEF Init
<1>2. out \in [Ults -> [ret : soma_return_t \cup {"none"}, ids : SUBSET Ids]]
  BY DEF Init, NoReply
<1>3. \A u \in Ults :
        /\ pc[u] = "idle" <=> req[u] = NoRequest
        /\ pc[u] = "ready" => input[u] = "none"
        /\ pc[u] = "backend" => input[u] = "decoded" /\ held[u] \in Ids
        /\ pc[u] = "respond" => out[u].ret # "none"
  BY DEF Init
<1>4. /\ ctx \in [Ids -> CtxStates]
      /\ pc \in [Ults -> {"idle", "ready", "backend", "respond"}]
      /\ req \in [Ults -> Request \cup {NoRequest}]
      /\ input \in [Ults -> {"none", "decoded", "stray"}]
      /\ held \in [Ults -> Ids \cup {NilId}]
  BY DEF Init, CtxStates
<1>5. /\ provider \in {"absent", "up", "closing"}
      /\ backend_bytes \in Nat
      /\ collectors \in SUBSET Ids
      /\ num_collectors \in Int
      /\ cur \in Ids \cup {NilId}
      /\ tmp \in Ids \cup {NilId}
  BY DEF Init
<1>6. dangling \in BOOLEAN /\ misuse \in BOOLEAN
  BY Zenon DEF Init
<1> QED
  BY <1>1, <1>2, <1>3, <1>4, <1>5, <1>6 DEF TypeOK

LEMMA TypeHandler ==
    ASSUME TypeOK, NEW u \in Ults, Handler(u) PROVE TypeOK'
<1>. USE DEF TypeOK, soma_provider, table, hash, Uses, Respond, Call, Leave,
             Decodes, Starts, Resumes, CtxStates
<1>0. HandlerStep(u) /\ "none" \notin soma_return_t
  BY HandlerCases DEF soma_return_t
<1>1. CASE InvalidInput(u)
  BY <1>1 DEF InvalidInput, soma_return_t
<1>2. ASSUME NEW error \in soma_return_t, Refuse(u, error) PROVE TypeOK'
  BY <1>0, <1>2 DEF Refuse
<1>3. ASSUME NEW id \in Ids, CallCreate(u, id) PROVE TypeOK'
  BY <1>3 DEF CallCreate
<1>4. CASE CreateSucceeds(u)
  BY <1>4 DEF CreateSucceeds, add_collector, soma_return_t
<1>5. ASSUME NEW ret \in BackendRets, CreateFails(u, ret) PROVE TypeOK'
  BY <1>0, <1>5, BackendAssumption DEF CreateFails
<1>6. CASE CallEnd(u)
  BY <1>6 DEF CallEnd, find_collector
<1>7. ASSUME NEW ret \in BackendRets, CloseReturns(u, ret) PROVE TypeOK'
  BY <1>0, <1>7, BackendAssumption DEF CloseReturns, unlink_collector
<1>8. CASE DestroyReturns(u)
  <2>1. /\ collectors' \in SUBSET Ids
        /\ num_collectors' \in Int
        /\ ctx' \in [Ids -> CtxStates]
    BY <1>8 DEF DestroyReturns, unlink_collector
  <2>2. PICK ret \in soma_return_t :
            /\ pc[u] = "backend"
            /\ pc' = [pc EXCEPT ![u] = "respond"]
            /\ out' = [out EXCEPT ![u] = [ret |-> ret, ids |-> {}]]
            /\ UNCHANGED <<req, held, input>>
    BY <1>8 DEF DestroyReturns, soma_return_t
  <2>3. /\ pc' \in [Ults -> {"idle", "ready", "backend", "respond"}]
        /\ out' \in [Ults -> [ret : soma_return_t \cup {"none"},
                             ids : SUBSET Ids]]
    BY <2>2
  <2>4. \A v \in Ults :
           /\ pc'[v] = "idle" <=> req'[v] = NoRequest
           /\ pc'[v] = "ready" => input'[v] = "none"
           /\ pc'[v] = "backend" => input'[v] = "decoded" /\ held'[v] \in Ids
           /\ pc'[v] = "respond" => out'[v].ret # "none"
    BY <1>0, <2>2
  <2> QED
    BY <1>8, <2>1, <2>3, <2>4 DEF DestroyReturns
<1>9. CASE ListCollectors(u)
  BY <1>9 DEF ListCollectors, soma_return_t
<1>10. CASE HelloInvalidInput(u)
  BY <1>10 DEF HelloInvalidInput, NoReply
<1>11. CASE HelloUnknownCollector(u)
  BY <1>11 DEF HelloUnknownCollector, NoReply
<1>12. CASE CallUse(u)
  BY <1>12 DEF CallUse, find_collector
<1>13. CASE HelloReturns(u)
  BY <1>13 DEF HelloReturns, UseReturned, NoReply
<1>14. CASE SumReturns(u)
  BY <1>14 DEF SumReturns, UseReturned, soma_return_t
<1>15. CASE Finish(u)
  BY <1>15 DEF Finish, FreesInput, NoReply
<1> QED
  BY <1>0, <1>1, <1>2, <1>3, <1>4, <1>5, <1>6, <1>7, <1>8, <1>9, <1>10, <1>11,
     <1>12, <1>13, <1>14, <1>15 DEF HandlerStep

LEMMA TypeNext == TypeOK /\ [Next]_vars => TypeOK'
<1> SUFFICES ASSUME TypeOK, [Next]_vars PROVE TypeOK'
  OBVIOUS
<1>. USE DEF TypeOK, table, hash, soma_provider, handlers, CtxStates
<1>1. ASSUME NEW u \in Ults, Handler(u) PROVE TypeOK'
  BY <1>1, TypeHandler
<1>2. ASSUME NEW u \in Ults, NEW r \in Request, Arrive(u, r) PROVE TypeOK'
  BY <1>2, RequestOps DEF Arrive
<1>3. CASE soma_provider_register
  BY <1>3, TypesAssumption DEF soma_provider_register, add_backend_impl
<1>4. ASSUME NEW name \in Types, soma_provider_register_backend(name)
      PROVE  TypeOK'
  BY <1>4 DEF soma_provider_register_backend, add_backend_impl
<1>5. CASE FinalizeBegin
  BY <1>5 DEF FinalizeBegin, HeadOf
<1>6. CASE FinalizeClose
  BY <1>6 DEF FinalizeClose, HeadOf
<1>7. CASE FinalizeReturn
  BY <1>7 DEF FinalizeReturn
<1>8. CASE FinalizeEnd
  BY <1>8 DEF FinalizeEnd
<1>9. CASE UNCHANGED vars
  BY <1>9 DEF vars
<1> QED
  BY <1>1, <1>2, <1>3, <1>4, <1>5, <1>6, <1>7, <1>8, <1>9
     DEF Next, soma_finalize_provider

\* Type correctness of the provider, whatever its callers and backends do.
THEOREM TypeCorrect == Spec => []TypeOK
<1>1. Init => TypeOK
  BY TypeInit
<1>2. TypeOK /\ [Next]_vars => TypeOK'
  BY TypeNext
<1> QED
  BY <1>1, <1>2, PTL DEF Spec

-----------------------------------------------------------------------------
(* What every handler step leaves alone. *)

\* A handler step is a step of that handler only: the others keep their
\* control states, inputs and collectors, and the provider stays what it is.
\* A handler takes its input along until it ends, and enters a backend from
\* "ready", for its own collector.
LEMMA HandlerFrame ==
    ASSUME TypeOK, NEW u \in Ults, Handler(u)
    PROVE  /\ pc[u] # "idle"
           /\ UNCHANGED <<provider, cur>>
           /\ StreamFree(u)
           /\ \A v \in Ults \ {u} :
                 pc'[v] = pc[v] /\ req'[v] = req[v] /\ held'[v] = held[v]
           /\ pc'[u] # "idle" => req'[u] = req[u]
           /\ InBackend(u, IdOps)' => held'[u] = req[u].id
<1>. USE DEF TypeOK, soma_provider, table, hash, Uses, Respond, Call, Leave,
             Decodes, Starts, Resumes, InBackend
<1>0. HandlerStep(u)
  BY HandlerCases
<1>. DEFINE Goal ==
       /\ pc[u] # "idle"
       /\ UNCHANGED <<provider, cur>>
       /\ StreamFree(u)
       /\ \A v \in Ults \ {u} :
             pc'[v] = pc[v] /\ req'[v] = req[v] /\ held'[v] = held[v]
       /\ pc'[u] # "idle" => req'[u] = req[u]
       /\ InBackend(u, IdOps)' => held'[u] = req[u].id
<1>1. CASE InvalidInput(u)
  BY <1>1 DEF InvalidInput
<1>2. ASSUME NEW error \in soma_return_t, Refuse(u, error) PROVE Goal
  BY <1>2 DEF Refuse
<1>3. ASSUME req[u].op \in CreateOps, NEW id \in Ids, CallCreate(u, id) PROVE Goal
  BY <1>3 DEF CallCreate, CreateOps, IdOps, EndOps, UseOps
<1>4. CASE CreateSucceeds(u)
  BY <1>4 DEF CreateSucceeds
<1>5. ASSUME NEW ret \in BackendRets, CreateFails(u, ret) PROVE Goal
  BY <1>5 DEF CreateFails
<1>6. CASE CallEnd(u)
  BY <1>6 DEF CallEnd, find_collector
<1>7. ASSUME NEW ret \in BackendRets, CloseReturns(u, ret) PROVE Goal
  BY <1>7 DEF CloseReturns
<1>8. CASE DestroyReturns(u)
  BY <1>8 DEF DestroyReturns
<1>9. CASE ListCollectors(u)
  BY <1>9 DEF ListCollectors
<1>10. CASE HelloInvalidInput(u)
  BY <1>10 DEF HelloInvalidInput
<1>11. CASE HelloUnknownCollector(u)
  BY <1>11 DEF HelloUnknownCollector
<1>12. CASE CallUse(u)
  BY <1>12 DEF CallUse, find_collector
<1>13. CASE HelloReturns(u)
  BY <1>13 DEF HelloReturns, UseReturned
<1>14. CASE SumReturns(u)
  BY <1>14 DEF SumReturns, UseReturned
<1>15. CASE Finish(u)
  BY <1>15 DEF Finish
<1> QED
  BY <1>0, <1>1, <1>2, <1>3, <1>4, <1>5, <1>6, <1>7, <1>8, <1>9, <1>10, <1>11,
     <1>12, <1>13, <1>14, <1>15 DEF HandlerStep

LEMMA HandlerHolds ==
    ASSUME TypeOK, HeldIsNamed, NEW u \in Ults, Handler(u) PROVE HeldIsNamed'
<1> SUFFICES ASSUME NEW v \in Ults, InBackend(v, IdOps)'
             PROVE  held'[v] = req'[v].id
  BY DEF HeldIsNamed
<1>1. CASE v = u
  BY <1>1, HandlerFrame DEF InBackend
<1>2. CASE v # u
  BY <1>2, HandlerFrame DEF InBackend, HeldIsNamed
<1> QED
  BY <1>1, <1>2

\* While a handler runs the provider is up, and what callers promise of the
\* requests in flight keeps holding.
LEMMA HandlerDiscipline ==
    ASSUME TypeOK, HandlersDrained, HeldIsNamed, RequestsApart,
           NEW u \in Ults, Handler(u)
    PROVE  provider = "up" /\ HandlersDrained' /\ HeldIsNamed' /\ RequestsApart'
<1>1. provider = "up" /\ provider' = "up"
  BY HandlerFrame DEF HandlersDrained
<1>2. HandlersDrained'
  BY <1>1 DEF HandlersDrained
<1>3. HeldIsNamed'
  BY HandlerHolds
<1>4. RequestsApart'
  <2> SUFFICES ASSUME Serialised, NEW v \in Ults, NEW w \in Ults, v # w,
                      pc'[v] # "idle", pc'[w] # "idle"
               PROVE  ~Conflict(req'[v], req'[w])
    BY DEF RequestsApart, Conflict
  <2>1. pc[v] # "idle" /\ req'[v] = req[v] /\ pc[w] # "idle" /\ req'[w] = req[w]
    BY HandlerFrame
  <2> QED
    BY <2>1 DEF RequestsApart
<1> QED
  BY <1>1, <1>2, <1>3, <1>4

-----------------------------------------------------------------------------
(* The provider's memory. *)

\* The hash is finite, so that Cardinality counts it.
LEMMA CollectorsFinite == TypeOK => IsFiniteSet(collectors)
BY IdsAssumption, FS_Subset DEF TypeOK

\* Under the memory discipline the handler that removes a collector is the
\* only one that is in the middle of closing it.
LEMMA OneCloser ==
    ASSUME TypeOK, MemoryDiscipline, HeldIsNamed, RequestsApart,
           NEW u \in Ults, NEW v \in Ults \ {u}, StreamFree(u),
           InBackend(u, EndOps), InBackend(v, {"close"})
    PROVE  held[v] # held[u]
<1>1. CASE Serialised
  <2>1. ~Conflict(req[u], req[v])
    BY <1>1 DEF RequestsApart, InBackend
  <2>2. {req[u].op, req[v].op} \subseteq EndOps
    BY DEF InBackend, EndOps
  <2>3. req[u].id # req[v].id
    BY <2>1, <2>2 DEF Conflict, IdOps, EndOps, UseOps
  <2> QED
    BY <2>2, <2>3 DEF HeldIsNamed, InBackend, IdOps, EndOps
<1>2. CASE "close" \notin Blocking
  BY <1>2 DEF StreamFree, InBackend
<1> QED
  BY <1>1, <1>2 DEF MemoryDiscipline

LEMMA MemoryInit == Init => MemoryInv
<1> SUFFICES ASSUME Init PROVE MemoryInv
  OBVIOUS
<1>1. \A u \in Ults : pc[u] = "idle"
  BY DEF Init
<1> QED
  BY <1>1, TypeInit
     DEF Init, MemoryInv, HandlersDrained, HeldIsNamed, RequestsApart,
         CloserHolds, LoopInHash, GoneEmpty, CountMatches, NoDanglingUse,
         InBackend

LEMMA MemoryHandler ==
    ASSUME MemoryInv, MemoryDiscipline, NEW u \in Ults, Handler(u)
    PROVE  MemoryInv'
<1>1. TypeOK /\ TypeOK'
  BY TypeHandler DEF MemoryInv
<1>2. /\ provider = "up" /\ provider' = "up"
      /\ HandlersDrained' /\ HeldIsNamed' /\ RequestsApart'
  BY <1>1, HandlerDiscipline, HandlerFrame DEF MemoryInv
<1>3. HandlerStep(u)
  BY HandlerCases
<1>. USE DEF soma_provider, table, hash, Uses, Respond, Call, Leave, Decodes,
             Starts, Resumes
<1>4. CloserHolds'
  <2> SUFFICES ASSUME NEW v \in Ults, InBackend(v, {"close"})'
               PROVE  held'[v] \in collectors'
    BY DEF CloserHolds
  <2>1. CASE v = u
    <3>1. CASE InBackend(u, {"close"})
      BY <1>1, <1>3, <2>1, <3>1 DEF InBackend, HandlerStep, TypeOK, InvalidInput,
         Refuse, CallCreate, CreateSucceeds, CreateFails, CallEnd, CloseReturns,
         DestroyReturns, ListCollectors, HelloInvalidInput,
         HelloUnknownCollector, CallUse, HelloReturns, UseReturned, SumReturns,
         Finish
    <3>2. req[u].op = "close" /\ pc'[u] = "backend"
      BY <2>1, HandlerFrame, <1>1 DEF InBackend
    <3>3. CASE CallEnd(u)
      BY <1>1, <2>1, <3>3 DEF CallEnd, find_collector, TypeOK
    <3> QED
      BY <1>1, <1>3, <3>1, <3>2, <3>3 DEF InBackend, HandlerStep, TypeOK,
         InvalidInput, Refuse, CallCreate, CreateSucceeds, CreateFails,
         CloseReturns, DestroyReturns, ListCollectors, HelloInvalidInput,
         HelloUnknownCollector, CallUse, HelloReturns, UseReturned, SumReturns,
         Finish, CreateOps, UseOps
  <2>2. CASE v # u
    <3>1. /\ InBackend(v, {"close"})
          /\ held'[v] = held[v]
          /\ held[v] \in collectors
      BY <1>1, <2>2, HandlerFrame DEF InBackend, MemoryInv, CloserHolds
    <3>2. InBackend(u, EndOps) => held[v] # held[u]
      BY <1>1, <2>2, <3>1, OneCloser, HandlerFrame DEF MemoryInv
    <3>3. CASE req[u].op = "close" /\ \E ret \in BackendRets : CloseReturns(u, ret)
      BY <3>1, <3>2, <3>3 DEF CloseReturns, unlink_collector, InBackend, EndOps
    <3>4. CASE req[u].op = "destroy" /\ DestroyReturns(u)
      <4>1. held[u] = req[u].id
        BY <3>4 DEF MemoryInv, HeldIsNamed, InBackend, IdOps, EndOps,
                    DestroyReturns
      <4> QED
        BY <3>1, <3>2, <3>4, <4>1
           DEF DestroyReturns, unlink_collector, InBackend, EndOps
    <3>5. CASE CreateSucceeds(u)
      BY <3>1, <3>5 DEF CreateSucceeds, add_collector
    <3>6. CASE UNCHANGED collectors
      BY <3>1, <3>6
    <3> QED
      BY <1>3, <3>3, <3>4, <3>5, <3>6 DEF HandlerStep, InvalidInput, Refuse,
         CallCreate, CreateFails, CallEnd, ListCollectors, HelloInvalidInput,
         HelloUnknownCollector, CallUse, HelloReturns, SumReturns, Finish
  <2> QED
    BY <2>1, <2>2
<1>5. CountMatches'
  <2>0. /\ num_collectors = Cardinality(collectors)
        /\ IsFiniteSet(collectors)
    BY <1>1, <1>2, CollectorsFinite DEF MemoryInv, CountMatches
  <2>1. CASE CreateSucceeds(u)
    <3>1. collectors' = collectors \cup {held[u]} \/ UNCHANGED hash
      BY <2>1 DEF CreateSucceeds, add_collector
    <3> QED
      BY <2>0, <2>1, FS_AddElement
         DEF CreateSucceeds, add_collector, find_collector, CountMatches
  <2>2. ASSUME req[u].op = "close", NEW ret \in BackendRets, CloseReturns(u, ret)
        PROVE  CountMatches'
    <3>1. held[u] \in collectors
      BY <2>2 DEF CloseReturns, MemoryInv, CloserHolds, InBackend
    <3> QED
      BY <2>0, <2>2, <3>1, FS_RemoveElement
         DEF CloseReturns, unlink_collector, CountMatches
  <2>3. CASE DestroyReturns(u)
    BY <2>0, <2>3, FS_RemoveElement
       DEF DestroyReturns, unlink_collector, find_collector, CountMatches
  <2>4. CASE UNCHANGED hash
    BY <2>0, <2>4 DEF CountMatches
  <2> QED
    BY <1>3, <2>1, <2>2, <2>3, <2>4 DEF HandlerStep, InvalidInput, Refuse,
       CallCreate, CreateFails, CallEnd, ListCollectors, HelloInvalidInput,
       HelloUnknownCollector, CallUse, HelloReturns, SumReturns, Finish
<1>6. NoDanglingUse'
  <2>0. ~dangling
    BY DEF MemoryInv, NoDanglingUse
  <2>1. ASSUME req[u].op = "close", NEW ret \in BackendRets, CloseReturns(u, ret)
        PROVE  NoDanglingUse'
    <3>1. held[u] \in collectors
      BY <2>1 DEF CloseReturns, MemoryInv, CloserHolds, InBackend
    <3> QED
      BY <1>2, <2>0, <2>1, <3>1 DEF CloseReturns, find_collector, NoDanglingUse
  <2>2. CASE ListCollectors(u)
    <3>1. ~(Cardinality(collectors) > num_collectors)
      BY <1>1, <1>2, CollectorsFinite, FS_CardinalityType
         DEF MemoryInv, CountMatches
    <3> QED
      BY <1>2, <2>0, <2>2, <3>1 DEF ListCollectors, NoDanglingUse
  <2> QED
    BY <1>2, <1>3, <2>0, <2>1, <2>2 DEF HandlerStep, InvalidInput, Refuse,
       CallCreate, CreateSucceeds, CreateFails, CallEnd, DestroyReturns,
       HelloInvalidInput, HelloUnknownCollector, CallUse, HelloReturns,
       UseReturned, SumReturns, Finish, NoDanglingUse
<1> QED
  BY <1>1, <1>2, <1>4, <1>5, <1>6 DEF MemoryInv, LoopInHash, GoneEmpty

LEMMA MemoryNext ==
    ASSUME MemoryDiscipline, MemoryInv, [Next]_vars PROVE MemoryInv'
<1>1. TypeOK /\ TypeOK'
  BY TypeNext DEF MemoryInv
<1>2. ASSUME NEW u \in Ults, Handler(u) PROVE MemoryInv'
  BY <1>2, MemoryHandler
<1>3. ASSUME NEW u \in Ults, NEW r \in Request, Arrive(u, r) PROVE MemoryInv'
  <2>1. RequestsApart'
    BY <1>1, <1>3 DEF Arrive, MemoryInv, RequestsApart, TypeOK, Conflict
  <2> QED
    BY <1>1, <1>3, <2>1
       DEF Arrive, soma_provider, hash, MemoryInv, TypeOK, HandlersDrained,
           HeldIsNamed, CloserHolds, LoopInHash, HeadOf, GoneEmpty,
           CountMatches, NoDanglingUse, InBackend
<1>. USE DEF MemoryInv, HandlersDrained, HeldIsNamed, RequestsApart, CloserHolds,
             LoopInHash, HeadOf, GoneEmpty, CountMatches, NoDanglingUse,
             InBackend, hash, table, handlers
<1>4. CASE soma_provider_register
  BY <1>1, <1>4, FS_EmptySet DEF soma_provider_register
<1>5. ASSUME NEW name \in Types, soma_provider_register_backend(name)
      PROVE  MemoryInv'
  BY <1>1, <1>5 DEF soma_provider_register_backend
<1>6. CASE FinalizeBegin
  BY <1>1, <1>6 DEF FinalizeBegin, MemoryDiscipline
<1>7. CASE FinalizeClose
  <2>1. tmp \in collectors
    BY <1>7, IdsAssumption DEF FinalizeClose
  <2> QED
    BY <1>1, <1>7, <2>1 DEF FinalizeClose
<1>8. CASE FinalizeReturn
  BY <1>1, <1>8 DEF FinalizeReturn
<1>9. CASE FinalizeEnd
  <2>1. collectors = {}
    BY <1>1, <1>9, IdsAssumption DEF FinalizeEnd, TypeOK
  <2> QED
    BY <1>1, <1>9, <2>1 DEF FinalizeEnd
<1>10. CASE UNCHANGED vars
  BY <1>1, <1>10 DEF vars
<1> QED
  BY <1>2, <1>3, <1>4, <1>5, <1>6, <1>7, <1>8, <1>9, <1>10
     DEF Next, soma_finalize_provider

\* If close does not yield, or callers keep requests for a collector apart,
\* then at every moment the hash, its counter and the handlers fit together.
THEOREM MemoryInvariant ==
    ASSUME MemoryDiscipline PROVE Spec => []MemoryInv
<1>1. Init => MemoryInv
  BY MemoryInit
<1>2. MemoryInv /\ [Next]_vars => MemoryInv'
  BY MemoryNext
<1> QED
  BY <1>1, <1>2, PTL DEF Spec

\* Under the same conditions no handler ever follows a pointer the provider has
\* freed, and list stays within its array, even when destroy, hello and sum
\* block and overlap.
THEOREM MemorySafe ==
    ASSUME MemoryDiscipline PROVE Spec => []NoDanglingUse
<1>1. MemoryInv => NoDanglingUse
  BY DEF MemoryInv
<1> QED
  BY <1>1, MemoryInvariant, PTL

\* Under the same conditions num_collectors counts the hash.
THEOREM CounterExact ==
    ASSUME MemoryDiscipline PROVE Spec => []CountMatches
<1>1. MemoryInv => CountMatches
  BY DEF MemoryInv
<1> QED
  BY <1>1, MemoryInvariant, PTL

-----------------------------------------------------------------------------
(* The backend contexts. *)

\* The part of ContextInv that says who is inside the backend with what.
Contexts ==
    /\ CreatorHolds
    /\ EnderHolds
    /\ UserHolds
    /\ MadeBySomebody
    /\ EndedBySomebody
    /\ FinaliserOwns
    /\ ContextsAccounted
    /\ NoMisuse

\* The kinds of operation exclude one another.
LEMMA OpsDisjoint ==
    /\ CreateOps \cap IdOps = {}
    /\ EndOps \cap UseOps = {}
    /\ IdOps = EndOps \cup UseOps
    /\ "list" \notin CreateOps \cup IdOps
    /\ {"close", "destroy"} \subseteq EndOps
    /\ {"hello", "sum"} \subseteq UseOps
BY DEF CreateOps, IdOps, EndOps, UseOps

\* Under the context discipline, while one handler runs, no other is inside
\* the backend with the same collector if either is there to take it away.
LEMMA Exclusion ==
    ASSUME TypeOK, ContextDiscipline, HeldIsNamed, RequestsApart,
           NEW u \in Ults, NEW v \in Ults \ {u}, StreamFree(u),
           pc[u] # "idle", req[u].op \in IdOps, InBackend(v, IdOps),
           req[u].op \in EndOps \/ req[v].op \in EndOps
    PROVE  held[v] # req[u].id
<1>1. CASE Serialised
  <2>1. ~Conflict(req[u], req[v])
    BY <1>1 DEF RequestsApart, InBackend
  <2>2. req[u].id # req[v].id
    BY <2>1 DEF Conflict, InBackend
  <2> QED
    BY <2>2 DEF HeldIsNamed
<1>2. CASE Blocking \subseteq CreateOps
  BY <1>2, OpsDisjoint DEF StreamFree, InBackend
<1> QED
  BY <1>1, <1>2 DEF ContextDiscipline

\* A collector that a request finds, and that is not its own to end already,
\* has a live context.
LEMMA FoundIsLive ==
    ASSUME ContextInv, ContextDiscipline, NEW u \in Ults, Starts(u),
           req[u].op \in IdOps, req[u].id \in collectors
    PROVE  ctx[req[u].id] = "live"
<1>1. req[u].id \in Ids /\ ctx[req[u].id] \in {"live", "ending"}
  BY DEF ContextInv, ContextsAccounted, TypeOK
<1>2. ASSUME NEW v \in Ults, InBackend(v, EndOps), held[v] = req[u].id
      PROVE  FALSE
  <2>1. v # u
    BY <1>2 DEF InBackend, Starts
  <2>2. InBackend(v, IdOps) /\ req[v].op \in EndOps
    BY <1>2, OpsDisjoint DEF InBackend
  <2> QED
    BY <1>2, <2>1, <2>2, Exclusion DEF ContextInv, Starts
<1> QED
  BY <1>1, <1>2 DEF ContextInv, EndedBySomebody

\* Steps that touch no context, no collector, and nobody in the backend.
LEMMA ContextsFrame ==
    ASSUME TypeOK, TypeOK', Contexts, UNCHANGED <<ctx, collectors, cur, provider, misuse>>,
           \A v \in Ults : pc[v] = "backend" <=> pc'[v] = "backend",
           \A v \in Ults : pc[v] = "backend" => req'[v] = req[v] /\ held'[v] = held[v]
    PROVE  Contexts'
BY DEF Contexts, CreatorHolds, EnderHolds, UserHolds, MadeBySomebody,
       EndedBySomebody, FinaliserOwns, ContextsAccounted, NoMisuse, InBackend

LEMMA ContextsCallCreate ==
    ASSUME ContextInv, TypeOK', NEW u \in Ults, req[u].op \in CreateOps,
           NEW id \in Ids, CallCreate(u, id)
    PROVE  Contexts'
<1>1. /\ pc' = [pc EXCEPT ![u] = "backend"]
      /\ held' = [held EXCEPT ![u] = id]
      /\ ctx' = [ctx EXCEPT ![id] = "creating"]
      /\ UNCHANGED <<req, collectors, cur, provider>>
      /\ pc[u] = "ready" /\ ctx[id] = "unborn"
  BY DEF CallCreate, Call, soma_provider, hash, Decodes, Starts
<1>. USE DEF ContextInv, TypeOK, InBackend
<1>2. CreatorHolds'
  BY <1>1 DEF CreatorHolds
<1>3. EnderHolds'
  BY <1>1, OpsDisjoint DEF EnderHolds
<1>4. UserHolds'
  BY <1>1, OpsDisjoint DEF UserHolds
<1>5. MadeBySomebody'
  BY <1>1 DEF MadeBySomebody
<1>6. EndedBySomebody'
  BY <1>1 DEF EndedBySomebody
<1>7. FinaliserOwns'
  BY <1>1 DEF FinaliserOwns
<1>8. ContextsAccounted'
  BY <1>1 DEF ContextsAccounted
<1>9. NoMisuse'
  BY DEF CallCreate, Uses, NoMisuse
<1> QED
  BY <1>2, <1>3, <1>4, <1>5, <1>6, <1>7, <1>8, <1>9 DEF Contexts

LEMMA ContextsCallEnd ==
    ASSUME ContextInv, ContextDiscipline, TypeOK', NEW u \in Ults,
           req[u].op \in EndOps, CallEnd(u)
    PROVE  Contexts'
<1>. DEFINE id == req[u].id
<1>1. /\ pc' = [pc EXCEPT ![u] = "backend"]
      /\ held' = [held EXCEPT ![u] = id]
      /\ ctx' = [ctx EXCEPT ![id] = "ending"]
      /\ UNCHANGED <<req, collectors, cur, provider>>
      /\ pc[u] = "ready" /\ id \in collectors /\ id \in Ids
  BY DEF CallEnd, Call, soma_provider, hash, Decodes, Starts, find_collector,
         ContextInv, TypeOK
<1>2. ctx[id] = "live"
  BY <1>1, FoundIsLive, OpsDisjoint DEF CallEnd, Decodes
<1>3. ASSUME NEW v \in Ults \ {u}, InBackend(v, UseOps) PROVE held[v] # id
  BY <1>1, <1>3, Exclusion, OpsDisjoint
     DEF InBackend, ContextInv, CallEnd, Decodes, Starts
<1>. HIDE DEF id
<1>. USE DEF ContextInv, TypeOK, InBackend
<1>4. CreatorHolds'
  BY <1>1, <1>2, OpsDisjoint DEF CreatorHolds
<1>5. EnderHolds'
  BY <1>1, <1>2 DEF EnderHolds
<1>6. UserHolds'
  BY <1>1, <1>3, OpsDisjoint DEF UserHolds
<1>7. MadeBySomebody'
  BY <1>1, <1>2, OpsDisjoint DEF MadeBySomebody
<1>8. EndedBySomebody'
  BY <1>1 DEF EndedBySomebody
<1>9. FinaliserOwns'
  BY <1>1, <1>2 DEF FinaliserOwns
<1>10. ContextsAccounted'
  BY <1>1, <1>2 DEF ContextsAccounted
<1>11. NoMisuse'
  BY <1>2 DEF CallEnd, Uses, NoMisuse, id
<1> QED
  BY <1>4, <1>5, <1>6, <1>7, <1>8, <1>9, <1>10, <1>11 DEF Contexts

LEMMA ContextsCallUse ==
    ASSUME ContextInv, ContextDiscipline, TypeOK', NEW u \in Ults,
           req[u].op \in UseOps, CallUse(u)
    PROVE  Contexts'
<1>. DEFINE id == req[u].id
<1>1. /\ pc' = [pc EXCEPT ![u] = "backend"]
      /\ held' = [held EXCEPT ![u] = id]
      /\ UNCHANGED <<req, ctx, collectors, cur, provider>>
      /\ pc[u] = "ready" /\ id \in collectors /\ id \in Ids
  BY DEF CallUse, Call, soma_provider, hash, Decodes, Starts, find_collector,
         ContextInv, TypeOK
<1>2. ctx[id] = "live"
  BY <1>1, FoundIsLive, OpsDisjoint DEF CallUse, Decodes
<1>. HIDE DEF id
<1>. USE DEF ContextInv, TypeOK, InBackend
<1>4. CreatorHolds'
  BY <1>1, OpsDisjoint DEF CreatorHolds
<1>5. EnderHolds'
  BY <1>1, OpsDisjoint DEF EnderHolds
<1>6. UserHolds'
  BY <1>1, <1>2 DEF UserHolds
<1>7. MadeBySomebody'
  BY <1>1 DEF MadeBySomebody
<1>8. EndedBySomebody'
  BY <1>1 DEF EndedBySomebody
<1>9. FinaliserOwns'
  BY <1>1 DEF FinaliserOwns
<1>10. ContextsAccounted'
  BY <1>1 DEF ContextsAccounted
<1>11. NoMisuse'
  BY <1>2 DEF CallUse, Uses, NoMisuse, id
<1> QED
  BY <1>4, <1>5, <1>6, <1>7, <1>8, <1>9, <1>10, <1>11 DEF Contexts

LEMMA ContextsCreateSucceeds ==
    ASSUME ContextInv, TypeOK', NEW u \in Ults, req[u].op \in CreateOps,
           CreateSucceeds(u)
    PROVE  Contexts'
<1>. DEFINE id == held[u]
<1>1. /\ pc' = [pc EXCEPT ![u] = "respond"]
      /\ ctx' = [ctx EXCEPT ![id] = "live"]
      /\ UNCHANGED <<req, held, cur, provider, table>>
      /\ pc[u] = "backend" /\ id \in Ids
  BY DEF CreateSucceeds, Respond, Resumes, ContextInv, TypeOK
<1>2. /\ ctx[id] = "creating"
      /\ \A v \in Ults \ {u} : InBackend(v, CreateOps) => held[v] # id
  BY <1>1 DEF ContextInv, CreatorHolds, InBackend
<1>3. id \notin collectors
  BY <1>1, <1>2 DEF ContextInv, ContextsAccounted
<1>4. collectors' = collectors \cup {id}
  BY <1>3 DEF CreateSucceeds, add_collector, find_collector
<1>. HIDE DEF id
<1>. USE DEF ContextInv, TypeOK, InBackend
<1>5. CreatorHolds'
  BY <1>1, <1>2 DEF CreatorHolds
<1>6. EnderHolds'
  BY <1>1, <1>2, <1>4, OpsDisjoint DEF EnderHolds
<1>7. UserHolds'
  BY <1>1, <1>2, OpsDisjoint DEF UserHolds
<1>8. MadeBySomebody'
  BY <1>1, <1>2 DEF MadeBySomebody, id
<1>9. EndedBySomebody'
  BY <1>1, <1>2, <1>4, OpsDisjoint DEF EndedBySomebody
<1>10. FinaliserOwns'
  BY <1>1, <1>2, <1>4 DEF FinaliserOwns
<1>11. ContextsAccounted'
  BY <1>1, <1>2, <1>4, IdsAssumption DEF ContextsAccounted
<1>12. NoMisuse'
  BY DEF CreateSucceeds, Uses, NoMisuse
<1> QED
  BY <1>5, <1>6, <1>7, <1>8, <1>9, <1>10, <1>11, <1>12 DEF Contexts

LEMMA ContextsCreateFails ==
    ASSUME ContextInv, TypeOK', NEW u \in Ults, req[u].op \in CreateOps,
           NEW ret \in BackendRets, CreateFails(u, ret)
    PROVE  Contexts'
<1>. DEFINE id == held[u]
<1>1. /\ pc' = [pc EXCEPT ![u] = "respond"]
      /\ ctx' = [ctx EXCEPT ![id] = "failed"]
      /\ UNCHANGED <<req, held, cur, provider, collectors>>
      /\ pc[u] = "backend" /\ id \in Ids
  BY DEF CreateFails, Respond, Resumes, ContextInv, TypeOK, soma_provider, hash
<1>2. /\ ctx[id] = "creating"
      /\ \A v \in Ults \ {u} : InBackend(v, CreateOps) => held[v] # id
  BY <1>1 DEF ContextInv, CreatorHolds, InBackend
<1>. HIDE DEF id
<1>. USE DEF ContextInv, TypeOK, InBackend
<1>5. CreatorHolds'
  BY <1>1, <1>2 DEF CreatorHolds
<1>6. EnderHolds'
  BY <1>1, <1>2, OpsDisjoint DEF EnderHolds
<1>7. UserHolds'
  BY <1>1, <1>2, OpsDisjoint DEF UserHolds
<1>8. MadeBySomebody'
  BY <1>1, <1>2 DEF MadeBySomebody, id
<1>9. EndedBySomebody'
  BY <1>1, <1>2, OpsDisjoint DEF EndedBySomebody
<1>10. FinaliserOwns'
  BY <1>1, <1>2 DEF FinaliserOwns
<1>11. ContextsAccounted'
  BY <1>1, <1>2 DEF ContextsAccounted
<1>12. NoMisuse'
  BY DEF CreateFails, Uses, NoMisuse
<1> QED
  BY <1>5, <1>6, <1>7, <1>8, <1>9, <1>10, <1>11, <1>12 DEF Contexts

\* The two ways a collector is taken away end alike: its context is ended, and
\* it leaves the hash.
LEMMA ContextsEndReturns ==
    ASSUME ContextInv, ContextDiscipline, TypeOK', NEW u \in Ults,
           \/ req[u].op = "close" /\ \E ret \in BackendRets : CloseReturns(u, ret)
           \/ req[u].op = "destroy" /\ DestroyReturns(u)
    PROVE  Contexts'
<1>. DEFINE id == held[u]
<1>0. InBackend(u, EndOps) /\ StreamFree(u) /\ id = req[u].id /\ id \in Ids
  BY OpsDisjoint, ZenonT(60) DEF CloseReturns, DestroyReturns, Resumes, InBackend,
     ContextInv, HeldIsNamed, TypeOK
<1>1. ctx[id] = "ending" /\ id \in collectors
  BY <1>0 DEF ContextInv, EnderHolds
<1>2. /\ pc' = [pc EXCEPT ![u] = "respond"]
      /\ ctx' = [ctx EXCEPT ![id] = "ended"]
      /\ UNCHANGED <<req, held, cur, provider>>
      /\ collectors' = collectors \ {id}
      /\ NoMisuse'
  BY <1>0, <1>1 DEF CloseReturns, DestroyReturns, Respond, unlink_collector, Uses,
     find_collector, ContextInv, NoMisuse
<1>3. ASSUME NEW v \in Ults \ {u}, InBackend(v, IdOps) PROVE held[v] # id
  BY <1>0, <1>3, Exclusion, OpsDisjoint DEF InBackend, ContextInv
<1>. HIDE DEF id
<1>. USE DEF ContextInv, TypeOK, InBackend
<1>4. CreatorHolds'
  BY <1>1, <1>2 DEF CreatorHolds
<1>5. EnderHolds'
  BY <1>2, <1>3, OpsDisjoint DEF EnderHolds
<1>6. UserHolds'
  BY <1>2, <1>3, OpsDisjoint DEF UserHolds
<1>7. MadeBySomebody'
  BY <1>0, <1>2, OpsDisjoint DEF MadeBySomebody
<1>8. EndedBySomebody'
  BY <1>2 DEF EndedBySomebody, id
<1>9. FinaliserOwns'
  BY <1>1, <1>2 DEF FinaliserOwns
<1>10. ContextsAccounted'
  BY <1>0, <1>1, <1>2 DEF ContextsAccounted, FinaliserOwns
<1> QED
  BY <1>2, <1>4, <1>5, <1>6, <1>7, <1>8, <1>9, <1>10 DEF Contexts

\* hello and sum leave the backend with the context still live.
LEMMA ContextsUseReturns ==
    ASSUME ContextInv, TypeOK', NEW u \in Ults,
           \/ req[u].op = "hello" /\ HelloReturns(u)
           \/ req[u].op = "sum" /\ SumReturns(u)
    PROVE  Contexts'
<1>1. ctx[held[u]] = "live"
  BY OpsDisjoint DEF HelloReturns, SumReturns, UseReturned, Resumes, ContextInv,
     UserHolds, InBackend
<1>2. /\ pc[u] = "backend" /\ req[u].op \in UseOps
      /\ pc'[u] # "backend"
      /\ \A v \in Ults \ {u} :
            pc'[v] = pc[v] /\ req'[v] = req[v] /\ held'[v] = held[v]
      /\ UNCHANGED <<ctx, collectors, cur, provider>>
      /\ NoMisuse'
  BY <1>1, OpsDisjoint
     DEF HelloReturns, SumReturns, UseReturned, Resumes, Uses, Leave, Respond,
         soma_provider, hash, ContextInv, TypeOK, NoMisuse
<1>. USE DEF ContextInv, InBackend
<1>4. CreatorHolds'
  BY <1>2 DEF CreatorHolds
<1>5. EnderHolds'
  BY <1>2 DEF EnderHolds
<1>6. UserHolds'
  BY <1>2 DEF UserHolds
<1>7. MadeBySomebody'
  BY <1>2, OpsDisjoint DEF MadeBySomebody
<1>8. EndedBySomebody'
  BY <1>2, OpsDisjoint DEF EndedBySomebody
<1>9. FinaliserOwns' /\ ContextsAccounted'
  BY <1>2 DEF FinaliserOwns, ContextsAccounted
<1> QED
  BY <1>2, <1>4, <1>5, <1>6, <1>7, <1>8, <1>9 DEF Contexts

LEMMA ContextHandler ==
    ASSUME ContextInv, ContextDiscipline, NEW u \in Ults, Handler(u)
    PROVE  ContextInv'
<1>1. TypeOK /\ TypeOK'
  BY TypeHandler DEF ContextInv
<1>2. /\ provider = "up" /\ provider' = "up"
      /\ HandlersDrained' /\ HeldIsNamed' /\ RequestsApart'
  BY <1>1, HandlerDiscipline, HandlerFrame DEF ContextInv
<1>3. Contexts'
  <2>1. HandlerStep(u) /\ Contexts
    BY HandlerCases DEF Contexts, ContextInv
  <2>2. CASE \/ InvalidInput(u)
             \/ \E error \in soma_return_t : Refuse(u, error)
             \/ ListCollectors(u)
             \/ HelloInvalidInput(u)
             \/ HelloUnknownCollector(u)
             \/ Finish(u)
    <3>1. /\ UNCHANGED <<ctx, collectors, cur, provider, misuse>>
          /\ \A v \in Ults : pc[v] = "backend" <=> pc'[v] = "backend"
          /\ \A v \in Ults :
                pc[v] = "backend" => req'[v] = req[v] /\ held'[v] = held[v]
      BY <1>1, <2>2
         DEF InvalidInput, Refuse, ListCollectors, HelloInvalidInput,
             HelloUnknownCollector, Finish, Uses, Leave, Respond, Decodes,
             Starts, soma_provider, hash, TypeOK
    <3> QED
      BY <1>1, <2>1, <3>1, ContextsFrame
  <2>3. CASE req[u].op \in CreateOps /\ \E id \in Ids : CallCreate(u, id)
    BY <1>1, <2>3, ContextsCallCreate
  <2>4. CASE req[u].op \in CreateOps /\ CreateSucceeds(u)
    BY <1>1, <2>4, ContextsCreateSucceeds
  <2>5. CASE req[u].op \in CreateOps /\ \E ret \in BackendRets : CreateFails(u, ret)
    BY <1>1, <2>5, ContextsCreateFails
  <2>6. CASE req[u].op \in EndOps /\ CallEnd(u)
    BY <1>1, <2>6, ContextsCallEnd
  <2>7. CASE \/ req[u].op = "close" /\ \E ret \in BackendRets : CloseReturns(u, ret)
             \/ req[u].op = "destroy" /\ DestroyReturns(u)
    BY <1>1, <2>7, ContextsEndReturns
  <2>8. CASE req[u].op \in UseOps /\ CallUse(u)
    BY <1>1, <2>8, ContextsCallUse
  <2>9. CASE \/ req[u].op = "hello" /\ HelloReturns(u)
             \/ req[u].op = "sum" /\ SumReturns(u)
    BY <1>1, <2>9, ContextsUseReturns
  <2> QED
    BY <2>1, <2>2, <2>3, <2>4, <2>5, <2>6, <2>7, <2>8, <2>9 DEF HandlerStep
<1> QED
  BY <1>1, <1>2, <1>3 DEF ContextInv, Contexts, LoopInHash, GoneEmpty

LEMMA ContextInit == Init => ContextInv
<1> SUFFICES ASSUME Init PROVE ContextInv
  OBVIOUS
<1>1. \A u \in Ults : pc[u] = "idle"
  BY DEF Init
<1>2. \A id \in Ids : ctx[id] = "unborn"
  BY DEF Init
<1>3. ContextsAccounted
  BY <1>2 DEF Init, ContextsAccounted
<1> QED
  BY <1>1, <1>2, <1>3, TypeInit
     DEF Init, ContextInv, HandlersDrained, HeldIsNamed, RequestsApart,
         CreatorHolds, EnderHolds, UserHolds, MadeBySomebody, EndedBySomebody,
         FinaliserOwns, LoopInHash, GoneEmpty, NoMisuse, InBackend

\* While the provider is being finalised nobody is in the backend but the
\* finaliser, so every collector left has a live context.
LEMMA ContextFinalize ==
    ASSUME ContextInv, soma_finalize_provider
    PROVE  ContextInv'
<1>1. TypeOK /\ TypeOK'
  BY TypeNext DEF ContextInv, Next
<1>2. \A u \in Ults : pc[u] = "idle"
  BY DEF soma_finalize_provider, FinalizeClose, FinalizeReturn, FinalizeEnd,
         ContextInv, HandlersDrained
<1>3. UNCHANGED <<pc, req, held>>
  BY DEF soma_finalize_provider, FinalizeClose, FinalizeReturn, FinalizeEnd,
         handlers
<1>4. \A id \in collectors : ctx[id] = "live"
  BY <1>2 DEF ContextInv, ContextsAccounted, EndedBySomebody, InBackend
<1>5. \A id \in Ids : ctx[id] # "creating"
  BY <1>2 DEF ContextInv, MadeBySomebody, InBackend
<1>6. /\ HandlersDrained' /\ HeldIsNamed' /\ RequestsApart'
      /\ CreatorHolds' /\ EnderHolds' /\ UserHolds'
  BY <1>2, <1>3
     DEF HandlersDrained, HeldIsNamed, RequestsApart, CreatorHolds, EnderHolds,
         UserHolds, InBackend
<1>7. /\ MadeBySomebody' /\ EndedBySomebody' /\ FinaliserOwns'
      /\ LoopInHash' /\ GoneEmpty' /\ ContextsAccounted' /\ NoMisuse'
  <2>. USE DEF MadeBySomebody, EndedBySomebody, FinaliserOwns, LoopInHash, HeadOf,
               GoneEmpty, ContextsAccounted, NoMisuse, ContextInv, TypeOK
  <2>1. CASE FinalizeClose
    <3>1. tmp \in collectors
      BY <2>1, IdsAssumption DEF FinalizeClose
    <3> QED
      BY <1>1, <1>4, <1>5, <2>1, <3>1, IdsAssumption DEF FinalizeClose
  <2>2. CASE FinalizeReturn
    BY <1>1, <1>4, <1>5, <2>2 DEF FinalizeReturn, hash
  <2>3. CASE FinalizeEnd
    <3>1. collectors = {}
      BY <2>3, IdsAssumption DEF FinalizeEnd
    <3> QED
      BY <1>1, <1>4, <1>5, <2>3, <3>1 DEF FinalizeEnd
  <2> QED
    BY <2>1, <2>2, <2>3 DEF soma_finalize_provider
<1> QED
  BY <1>1, <1>6, <1>7 DEF ContextInv

LEMMA ContextNext ==
    ASSUME ContextDiscipline, ContextInv, [Next]_vars PROVE ContextInv'
<1>1. TypeOK /\ TypeOK' /\ Contexts
  BY TypeNext DEF ContextInv, Contexts
<1>2. ASSUME NEW u \in Ults, Handler(u) PROVE ContextInv'
  BY <1>2, ContextHandler
<1>3. ASSUME NEW u \in Ults, NEW r \in Request, Arrive(u, r) PROVE ContextInv'
  <2>1. RequestsApart'
    BY <1>1, <1>3 DEF Arrive, ContextInv, RequestsApart, TypeOK, Conflict
  <2>2. Contexts'
    BY <1>1, <1>3, ContextsFrame DEF Arrive, soma_provider, hash, TypeOK
  <2> QED
    BY <1>1, <1>3, <2>1, <2>2
       DEF Arrive, soma_provider, hash, ContextInv, Contexts, TypeOK,
           HandlersDrained, HeldIsNamed, LoopInHash, HeadOf, GoneEmpty, InBackend
<1>4. CASE soma_finalize_provider
  BY <1>4, ContextFinalize
<1>5. CASE \/ soma_provider_register
           \/ \E name \in Types : soma_provider_register_backend(name)
           \/ FinalizeBegin
  <2>1. UNCHANGED <<collectors, ctx, cur, pc, req, held, misuse>>
    BY <1>5
       DEF soma_provider_register, soma_provider_register_backend, FinalizeBegin,
           handlers, hash, ContextInv, GoneEmpty
  <2> QED
    BY <1>1, <1>5, <2>1
       DEF soma_provider_register, soma_provider_register_backend, FinalizeBegin,
           ContextInv, ContextDiscipline, HandlersDrained, HeldIsNamed,
           RequestsApart, CreatorHolds, EnderHolds, UserHolds, MadeBySomebody,
           EndedBySomebody, FinaliserOwns, LoopInHash, GoneEmpty,
           ContextsAccounted, NoMisuse, InBackend
<1>6. CASE UNCHANGED vars
  BY <1>1, <1>6
     DEF vars, ContextInv, HandlersDrained, HeldIsNamed, RequestsApart,
         CreatorHolds, EnderHolds, UserHolds, MadeBySomebody, EndedBySomebody,
         FinaliserOwns, LoopInHash, HeadOf, GoneEmpty, ContextsAccounted,
         NoMisuse, InBackend
<1> QED
  BY <1>2, <1>3, <1>4, <1>5, <1>6 DEF Next

\* If only create and open yield, or callers keep requests for a collector
\* apart, then at every moment each context is in the state that those inside
\* the backend, the hash and the finaliser say.
THEOREM ContextInvariant ==
    ASSUME ContextDiscipline PROVE Spec => []ContextInv
<1>1. Init => ContextInv
  BY ContextInit
<1>2. ContextInv /\ [Next]_vars => ContextInv'
  BY ContextNext
<1> QED
  BY <1>1, <1>2, PTL DEF Spec

\* Under the same conditions no backend is ever called on, or still at work in,
\* a context that was handed to close or destroy.
THEOREM ContextSafe ==
    ASSUME ContextDiscipline PROVE Spec => []NoMisuse
<1>1. ContextInv => NoMisuse
  BY DEF ContextInv
<1> QED
  BY <1>1, ContextInvariant, PTL

\* Under the same conditions the open contexts are exactly those the hash
\* leads to, or the one that is being closed by the finaliser.
THEOREM NothingLeaks ==
    ASSUME ContextDiscipline PROVE Spec => []ContextsAccounted
<1>1. ContextInv => ContextsAccounted
  BY DEF ContextInv
<1> QED
  BY <1>1, ContextInvariant, PTL

\* Under the same conditions a provider that is gone has left no context, be it
\* open, half made or half ended.
THEOREM ShutdownComplete ==
    ASSUME ContextDiscipline PROVE Spec => []ShutdownReleasesAll
<1>1. ContextInv => ShutdownReleasesAll
  <2> SUFFICES ASSUME ContextInv, provider = "absent", NEW id \in Ids
               PROVE  ctx[id] \in {"unborn", "failed", "ended"}
    BY DEF ShutdownReleasesAll
  <2>1. collectors = {} /\ cur = NilId
    BY DEF ContextInv, GoneEmpty, FinaliserOwns
  <2>2. ctx[id] \notin {"live", "ending"}
    BY <2>1 DEF ContextInv, ContextsAccounted
  <2>3. ctx[id] # "creating"
    BY DEF ContextInv, HandlersDrained, MadeBySomebody, InBackend
  <2> QED
    BY <2>2, <2>3 DEF ContextInv, TypeOK, CtxStates
<1> QED
  BY <1>1, ContextInvariant, PTL

-----------------------------------------------------------------------------
(* Who is told that it ended a collector. *)

\* Back from the backend's close or destroy.
EndReturns(u) ==
    \/ req[u].op = "close" /\ \E ret \in BackendRets : CloseReturns(u, ret)
    \/ req[u].op = "destroy" /\ DestroyReturns(u)

\* A handler's step ends in a call of the backend, in margo_respond, or in its
\* leaving.
LEMMA HandlerKinds ==
    ASSUME NEW u, HandlerStep(u)
    PROVE  \/ Starts(u) /\ \E id : Call(u, id)
           \/ \E ret, ids : Respond(u, ret, ids)
           \/ Leave(u)
BY DEF HandlerStep, Decodes, InvalidInput, Refuse, CallCreate, CreateSucceeds,
       CreateFails, CallEnd, CloseReturns, DestroyReturns, ListCollectors,
       HelloInvalidInput, HelloUnknownCollector, CallUse, HelloReturns,
       UseReturned, SumReturns, Finish

\* A handler answers nobody but its own caller, and tells it that a close or
\* destroy succeeded only when coming back from the backend.
LEMMA HandlerReplies ==
    ASSUME TypeOK, RepliesFresh, NEW u \in Ults, Handler(u)
    PROVE  /\ \A v \in Ults \ {u} : out'[v] = out[v]
           /\ RepliesFresh'
           /\ req'[u].op \in EndOps /\ out'[u].ret = "SOMA_SUCCESS" =>
                 EndReturns(u) /\ req'[u] = req[u]
<1>1. HandlerStep(u)
  BY HandlerCases
<1>. USE DEF TypeOK, RepliesFresh, NoReply, Starts
<1>2. /\ \A v \in Ults \ {u} : out'[v] = out[v]
      /\ RepliesFresh'
  <2>1. ASSUME NEW id, Starts(u), Call(u, id)
        PROVE  (\A v \in Ults \ {u} : out'[v] = out[v]) /\ RepliesFresh'
    BY <2>1 DEF Call
  <2>2. ASSUME NEW ret, NEW ids, Respond(u, ret, ids)
        PROVE  (\A v \in Ults \ {u} : out'[v] = out[v]) /\ RepliesFresh'
    BY <2>2 DEF Respond
  <2>3. CASE Leave(u)
    BY <2>3 DEF Leave
  <2> QED
    BY <1>1, <2>1, <2>2, <2>3, HandlerKinds
<1>3. ASSUME req'[u].op \in EndOps, out'[u].ret = "SOMA_SUCCESS"
      PROVE  EndReturns(u) /\ req'[u] = req[u]
  <2>1. ~Leave(u)
    BY <1>3 DEF Leave
  <2>2. ASSUME NEW id PROVE ~(Starts(u) /\ Call(u, id))
    BY <1>3 DEF Call
  <2>3. req'[u] = req[u] /\ req[u].op \in EndOps
    BY <1>1, <1>3, <2>1, <2>2, HandlerKinds DEF Respond
  <2>4. ~InvalidInput(u)
    BY <1>3 DEF InvalidInput, Respond
  <2>5. ASSUME NEW error \in soma_return_t \ {"SOMA_SUCCESS"}, Refuse(u, error)
        PROVE  FALSE
    <3>1. out' = [out EXCEPT ![u] = [ret |-> error, ids |-> {}]]
      BY <2>5 DEF Refuse, Respond
    <3>2. out'[u].ret = error
      BY <3>1
    <3> QED
      BY <1>3, <2>5, <3>2
  <2>6. req[u].op \notin CreateOps /\ req[u].op \notin UseOps /\ req[u].op # "list"
    BY <2>3, OpsDisjoint
  <2>7. /\ ~HelloInvalidInput(u) /\ ~HelloUnknownCollector(u)
        /\ ~HelloReturns(u) /\ ~Finish(u)
    BY <2>1 DEF HelloInvalidInput, HelloUnknownCollector, HelloReturns, Finish
  <2>8. ~CallEnd(u)
    BY <2>2 DEF CallEnd, Decodes
  <2>. HIDE DEF TypeOK, RepliesFresh, Starts
  <2> QED
    BY <1>1, <2>3, <2>4, <2>5, <2>6, <2>7, <2>8, OpsDisjoint
       DEF HandlerStep, EndReturns
<1> QED
  BY <1>2, <1>3

\* Steps that touch no context and no collector, enter no create, close or
\* destroy and report none as done.
LEMMA EnderFrame ==
    ASSUME TypeOK, CreatorHolds, MadeOnce, RemovedForGood,
           UNCHANGED <<ctx, collectors, cur>>,
           \A v \in Ults : InBackend(v, CreateOps \cup EndOps)' =>
               /\ InBackend(v, CreateOps \cup EndOps)
               /\ held'[v] = held[v] /\ req'[v] = req[v],
           \A v \in Ults :
               \/ req'[v] = req[v] /\ out'[v] = out[v]
               \/ ~(req'[v].op \in EndOps /\ out'[v].ret = "SOMA_SUCCESS")
    PROVE  CreatorHolds' /\ MadeOnce' /\ RemovedForGood'
<1>1. \A v \in Ults : InBackend(v, CreateOps)' =>
          InBackend(v, CreateOps) /\ held'[v] = held[v]
  BY DEF InBackend
<1>2. \A v \in Ults : InBackend(v, EndOps)' =>
          InBackend(v, EndOps) /\ held'[v] = held[v]
  BY DEF InBackend
<1>3. CreatorHolds'
  BY <1>1 DEF CreatorHolds
<1>4. MadeOnce'
  BY <1>2 DEF MadeOnce
<1>5. RemovedForGood'
  BY DEF RemovedForGood
<1> QED
  BY <1>3, <1>4, <1>5

\* The collector that a close or destroy takes out of the hash was there, and
\* its context goes from made to ended.
LEMMA EnderReturns ==
    ASSUME EnderInv, TypeOK', RepliesFresh', NEW u \in Ults, Handler(u),
           EndReturns(u)
    PROVE  /\ CreatorHolds' /\ MadeOnce' /\ RemovedForGood'
           /\ out'[u].ret = "SOMA_SUCCESS" => req[u].id \in collectors
<1>. DEFINE id == req[u].id
<1>0. TypeOK /\ HeldIsNamed /\ CloserHolds
  BY DEF EnderInv, MemoryInv
<1>1. InBackend(u, EndOps) /\ held[u] = id /\ id \in Ids
  <2>1. pc[u] = "backend" /\ req[u].op \in EndOps
    BY OpsDisjoint DEF EndReturns, CloseReturns, DestroyReturns, Resumes
  <2> QED
    BY <1>0, <2>1, OpsDisjoint DEF InBackend, HeldIsNamed, TypeOK
<1>2. /\ pc' = [pc EXCEPT ![u] = "respond"]
      /\ ctx' = [ctx EXCEPT ![id] = "ended"]
      /\ UNCHANGED <<req, held, cur>>
      /\ collectors' \in SUBSET collectors
      /\ out'[u].ret = "SOMA_SUCCESS" => id \in collectors /\ id \notin collectors'
  <2>1. ASSUME req[u].op = "close", NEW ret \in BackendRets, CloseReturns(u, ret)
        PROVE  /\ pc' = [pc EXCEPT ![u] = "respond"]
               /\ ctx' = [ctx EXCEPT ![id] = "ended"]
               /\ UNCHANGED <<req, held, cur>>
               /\ collectors' \in SUBSET collectors
               /\ id \in collectors /\ id \notin collectors'
    BY <1>0, <1>1, <2>1
       DEF CloseReturns, Respond, unlink_collector, CloserHolds, InBackend
  <2>2. CASE DestroyReturns(u)
    BY <1>0, <1>1, <2>2
       DEF DestroyReturns, Respond, unlink_collector, hash, find_collector, TypeOK
  <2> QED
    BY <2>1, <2>2 DEF EndReturns
<1>3. ctx[id] \in Made /\ ctx'[id] \in Made
  BY <1>1, <1>2 DEF EnderInv, MemoryInv, MadeOnce, Made, TypeOK
<1>4. \A v \in Ults \ {u} : out'[v] = out[v]
  BY HandlerReplies DEF EnderInv, MemoryInv
<1>. HIDE DEF id
<1>. USE DEF EnderInv, MemoryInv, TypeOK, InBackend, Made
<1>5. CreatorHolds'
  BY <1>1, <1>2, <1>3 DEF CreatorHolds
<1>6. MadeOnce'
  BY <1>1, <1>2, <1>3 DEF MadeOnce
<1>7. RemovedForGood'
  BY <1>1, <1>2, <1>3, <1>4 DEF RemovedForGood, id
<1> QED
  BY <1>2, <1>5, <1>6, <1>7 DEF id

\* A context being made belongs to a collector that was never in the hash, so
\* making it undoes no removal.
LEMMA EnderCreates ==
    ASSUME EnderInv, TypeOK', NEW u \in Ults, Handler(u), req[u].op \in CreateOps,
           \/ \E id \in Ids : CallCreate(u, id)
           \/ CreateSucceeds(u)
           \/ \E ret \in BackendRets : CreateFails(u, ret)
    PROVE  CreatorHolds' /\ MadeOnce' /\ RemovedForGood'
<1>0. /\ \A v \in Ults \ {u} : out'[v] = out[v]
      /\ req' = req
      /\ req[u].op \notin EndOps
  BY HandlerReplies, OpsDisjoint
     DEF CallCreate, CreateSucceeds, CreateFails, Call, Respond, EnderInv, MemoryInv
<1>. USE DEF EnderInv, MemoryInv, TypeOK, InBackend, Made, hash, soma_provider
<1>1. ASSUME NEW id \in Ids, CallCreate(u, id)
      PROVE  CreatorHolds' /\ MadeOnce' /\ RemovedForGood'
  <2>1. /\ pc' = [pc EXCEPT ![u] = "backend"]
        /\ held' = [held EXCEPT ![u] = id]
        /\ ctx[id] = "unborn"
        /\ ctx' = [ctx EXCEPT ![id] = "creating"]
        /\ UNCHANGED <<collectors, cur>>
    BY <1>1 DEF CallCreate, Call
  <2>2. CreatorHolds'
    BY <1>0, <2>1 DEF CreatorHolds
  <2>3. MadeOnce'
    BY <1>0, <2>1, IdsAssumption DEF MadeOnce
  <2>4. RemovedForGood'
    BY <1>0, <2>1 DEF RemovedForGood
  <2> QED
    BY <2>2, <2>3, <2>4
<1>2. ASSUME CreateSucceeds(u) \/ \E ret \in BackendRets : CreateFails(u, ret)
      PROVE  CreatorHolds' /\ MadeOnce' /\ RemovedForGood'
  <2>. DEFINE id == held[u]
  <2>1. /\ pc' = [pc EXCEPT ![u] = "respond"]
        /\ UNCHANGED <<held, cur>>
        /\ pc[u] = "backend" /\ id \in Ids
    BY <1>2 DEF CreateSucceeds, CreateFails, Respond, Resumes
  <2>2. /\ ctx[id] = "creating"
        /\ \A v \in Ults \ {u} : InBackend(v, CreateOps) => held[v] # id
    BY <2>1 DEF CreatorHolds
  <2>3. PICK new \in {"live", "failed"} :
            /\ ctx' = [ctx EXCEPT ![id] = new]
            /\ collectors' \in {collectors, collectors \cup {id}}
            /\ new = "failed" => collectors' = collectors
    BY <1>2 DEF CreateSucceeds, CreateFails, add_collector
  <2>. HIDE DEF id
  <2>4. CreatorHolds'
    BY <1>0, <2>1, <2>2, <2>3 DEF CreatorHolds
  <2>5. MadeOnce'
    BY <1>0, <2>1, <2>2, <2>3, IdsAssumption DEF MadeOnce
  <2>6. RemovedForGood'
    <3> SUFFICES ASSUME NEW v \in Ults, req'[v].op \in EndOps,
                        out'[v].ret = "SOMA_SUCCESS"
                 PROVE  /\ req'[v].id \in Ids \ collectors'
                        /\ ctx'[req'[v].id] \in Made
      BY Zenon DEF RemovedForGood
    <3>1. v # u /\ req'[v] = req[v] /\ out'[v] = out[v]
      BY <1>0
    <3>2. req[v].id \in Ids \ collectors /\ ctx[req[v].id] \in Made
      BY <3>1 DEF RemovedForGood
    <3>3. req[v].id # id
      BY <2>2, <3>2
    <3> QED
      BY <2>3, <3>1, <3>2, <3>3
  <2> QED
    BY <2>4, <2>5, <2>6
<1> QED
  BY <1>1, <1>2

LEMMA EnderHandler ==
    ASSUME EnderInv, MemoryDiscipline, NEW u \in Ults, Handler(u)
    PROVE  EnderInv'
<1>1. MemoryInv /\ MemoryInv' /\ TypeOK /\ TypeOK'
  BY MemoryHandler DEF EnderInv, MemoryInv
<1>2. /\ \A v \in Ults \ {u} :
            out'[v] = out[v] /\ req'[v] = req[v] /\ pc'[v] = pc[v] /\ held'[v] = held[v]
      /\ RepliesFresh'
      /\ req'[u].op \in EndOps /\ out'[u].ret = "SOMA_SUCCESS" =>
            EndReturns(u) /\ req'[u] = req[u]
  BY <1>1, HandlerReplies, HandlerFrame DEF EnderInv
<1>. DEFINE Creates == /\ req[u].op \in CreateOps
                       /\ \/ \E id \in Ids : CallCreate(u, id)
                          \/ CreateSucceeds(u)
                          \/ \E ret \in BackendRets : CreateFails(u, ret)
            Calls == req[u].op \in EndOps /\ CallEnd(u)
<1>3. CreatorHolds' /\ MadeOnce' /\ RemovedForGood'
  <2>1. CASE EndReturns(u)
    BY <1>1, <1>2, <2>1, EnderReturns
  <2>2. CASE Creates
    BY <1>1, <2>2, EnderCreates
  <2>3. CASE Calls
    <3>. DEFINE id == req[u].id
    <3>1. /\ pc' = [pc EXCEPT ![u] = "backend"]
          /\ held' = [held EXCEPT ![u] = id]
          /\ ctx' = [ctx EXCEPT ![id] = "ending"]
          /\ UNCHANGED <<req, out, collectors, cur>>
          /\ id \in collectors /\ id \in Ids
      BY <1>1, <2>3 DEF CallEnd, Call, soma_provider, hash, find_collector, TypeOK
    <3>2. ctx[id] \in Made
      BY <3>1 DEF EnderInv, MadeOnce
    <3>3. req[u].op \notin CreateOps
      BY <2>3, OpsDisjoint
    <3>. HIDE DEF id
    <3>. USE <1>1 DEF EnderInv, TypeOK, InBackend, Made
    <3>4. CreatorHolds'
      BY <3>1, <3>2, <3>3 DEF CreatorHolds
    <3>5. MadeOnce'
      BY <3>1, <3>2 DEF MadeOnce
    <3>6. RemovedForGood'
      BY <3>1, <3>2 DEF RemovedForGood
    <3> QED
      BY <3>4, <3>5, <3>6
  <2>4. CASE ~EndReturns(u) /\ ~Creates /\ ~Calls
    <3>1. HandlerStep(u)
      BY HandlerCases
    <3>2. UNCHANGED <<ctx, collectors, cur>>
      BY <2>4, <3>1
         DEF HandlerStep, EndReturns, InvalidInput, Refuse, ListCollectors,
             HelloInvalidInput, HelloUnknownCollector, CallUse, HelloReturns,
             SumReturns, Finish, Call, soma_provider, hash
    <3>3. ~InBackend(u, CreateOps \cup EndOps)'
      BY <1>1, <2>4, <3>1, OpsDisjoint
         DEF HandlerStep, EndReturns, InvalidInput, Refuse, ListCollectors,
             HelloInvalidInput, HelloUnknownCollector, CallUse, HelloReturns,
             SumReturns, Finish, Call, Respond, Leave, InBackend, TypeOK
    <3> QED
      BY <1>1, <1>2, <2>4, <3>2, <3>3, EnderFrame DEF EnderInv, InBackend
  <2> QED
    BY <2>1, <2>2, <2>3, <2>4
<1>4. OneEnderWins'
  <2>1. ASSUME NEW v \in Ults \ {u},
               {req'[u].op, req'[v].op} \subseteq EndOps, req'[u].id = req'[v].id,
               out'[u].ret = "SOMA_SUCCESS", out'[v].ret = "SOMA_SUCCESS"
        PROVE  FALSE
    <3>1. req[u].id \in collectors /\ req'[u] = req[u]
      BY <1>1, <1>2, <2>1, EnderReturns
    <3>2. req[v].id \notin collectors
      BY <1>2, <2>1 DEF EnderInv, RemovedForGood
    <3> QED
      BY <1>2, <2>1, <3>1, <3>2
  <2>2. ASSUME NEW v \in Ults \ {u}, NEW w \in Ults \ {u, v},
               {req'[v].op, req'[w].op} \subseteq EndOps, req'[v].id = req'[w].id,
               out'[v].ret = "SOMA_SUCCESS", out'[w].ret = "SOMA_SUCCESS"
        PROVE  FALSE
    BY <1>2, <2>2 DEF EnderInv, OneEnderWins
  <2> QED
    BY <2>1, <2>2 DEF OneEnderWins
<1> QED
  BY <1>1, <1>2, <1>3, <1>4 DEF EnderInv

LEMMA EnderNext ==
    ASSUME MemoryDiscipline, EnderInv, [Next]_vars PROVE EnderInv'
<1>1. MemoryInv /\ MemoryInv' /\ TypeOK /\ TypeOK'
  BY MemoryNext DEF EnderInv, MemoryInv
<1>2. ASSUME NEW u \in Ults, Handler(u) PROVE EnderInv'
  BY <1>2, EnderHandler
<1>3. ASSUME NEW u \in Ults, NEW r \in Request, Arrive(u, r) PROVE EnderInv'
  <2>1. /\ pc[u] = "idle" /\ pc' = [pc EXCEPT ![u] = "ready"]
        /\ req' = [req EXCEPT ![u] = r]
        /\ UNCHANGED <<collectors, ctx, cur, held, out>>
    BY <1>3 DEF Arrive, soma_provider, hash
  <2>2. out[u].ret # "SOMA_SUCCESS"
    BY <2>1 DEF EnderInv, RepliesFresh, NoReply
  <2>3. RepliesFresh' /\ OneEnderWins'
    BY <1>1, <2>1, <2>2 DEF EnderInv, RepliesFresh, OneEnderWins, TypeOK
  <2>4. CreatorHolds' /\ MadeOnce' /\ RemovedForGood'
    BY <1>1, <2>1, <2>2, EnderFrame DEF EnderInv, InBackend, TypeOK
  <2> QED
    BY <1>1, <2>3, <2>4 DEF EnderInv
<1>4. CASE soma_finalize_provider
  <2>1. UNCHANGED <<pc, req, held, out>> /\ \A u \in Ults : pc[u] = "idle"
    BY <1>1, <1>4
       DEF soma_finalize_provider, FinalizeClose, FinalizeReturn, FinalizeEnd,
           handlers, MemoryInv, HandlersDrained
  <2>2. \A u \in Ults : out[u] = NoReply
    BY <2>1 DEF EnderInv, RepliesFresh
  <2>3. MadeOnce'
    BY <1>1, <1>4, <2>1
       DEF soma_finalize_provider, FinalizeClose, FinalizeReturn, FinalizeEnd,
           EnderInv, MemoryInv, LoopInHash, MadeOnce, Made, InBackend, TypeOK,
           hash
  <2> QED
    BY <1>1, <2>1, <2>2, <2>3
       DEF EnderInv, RepliesFresh, CreatorHolds, RemovedForGood, OneEnderWins,
           InBackend, NoReply
<1>5. CASE UNCHANGED <<collectors, ctx, cur, pc, req, held, out>>
  BY <1>1, <1>5
     DEF EnderInv, RepliesFresh, CreatorHolds, MadeOnce, RemovedForGood,
         OneEnderWins, InBackend
<1> QED
  BY <1>2, <1>3, <1>4, <1>5
     DEF Next, soma_provider_register, soma_provider_register_backend,
         FinalizeBegin, hash, handlers, EnderInv, MemoryInv, GoneEmpty, vars

\* If close does not yield, or callers keep requests for a collector apart,
\* then however many closes and destroys of one collector are in flight, at
\* most one of them is told that it succeeded.
THEOREM OneEnder ==
    ASSUME MemoryDiscipline PROVE Spec => []OneEnderWins
<1>1. Init => EnderInv
  <2> SUFFICES ASSUME Init PROVE EnderInv
    OBVIOUS
  <2>1. /\ \A u \in Ults : pc[u] = "idle" /\ out[u] = NoReply
        /\ collectors = {} /\ cur = NilId
    BY DEF Init
  <2> QED
    BY <2>1, MemoryInit
       DEF EnderInv, RepliesFresh, CreatorHolds, MadeOnce, RemovedForGood,
           OneEnderWins, InBackend, NoReply
<1>2. EnderInv /\ [Next]_vars => EnderInv'
  BY EnderNext
<1>3. EnderInv => OneEnderWins
  BY DEF EnderInv
<1> QED
  BY <1>1, <1>2, <1>3, PTL DEF Spec

-----------------------------------------------------------------------------
(* Who may take a collector away. *)

LEMMA TokenHandler ==
    ASSUME TokenInv, NEW u \in Ults, Handler(u) PROVE TokenInv'
<1>. DEFINE AdminOps == CreateOps \cup EndOps
<1>1. TypeOK /\ TypeOK' /\ HeldIsNamed'
  BY TypeHandler, HandlerHolds DEF TokenInv
<1>2. AdminsAuthorised'
  <2> SUFFICES ASSUME NEW v \in Ults, InBackend(v, AdminOps)'
               PROVE  check_token(req'[v].token)
    BY DEF AdminsAuthorised, check_token
  <2>1. CASE v # u
    BY <1>1, <2>1, HandlerFrame DEF InBackend, TokenInv, AdminsAuthorised
  <2>2. CASE v = u
    <3>1. req'[u] = req[u] /\ req[u].op \in AdminOps /\ pc'[u] = "backend"
      BY <1>1, <2>2, HandlerFrame DEF InBackend
    <3>2. CallEnd(u) \/ \E id \in Ids : CallCreate(u, id)
      <4>1. req[u].op \notin UseOps
        BY <3>1, OpsDisjoint
      <4>2. \A ret, ids : ~Respond(u, ret, ids)
        BY <1>1, <3>1 DEF Respond, TypeOK
      <4>3. ~Leave(u)
        BY <1>1, <3>1 DEF Leave, TypeOK
      <4> QED
        BY <4>1, <4>2, <4>3, HandlerCases
           DEF HandlerStep, InvalidInput, Refuse, CreateSucceeds, CreateFails,
               CloseReturns, DestroyReturns, ListCollectors, HelloInvalidInput,
               HelloUnknownCollector, HelloReturns, SumReturns, Finish
    <3> QED
      BY <2>2, <3>1, <3>2 DEF CallEnd, CallCreate
  <2> QED
    BY <2>1, <2>2
<1> QED
  BY <1>1, <1>2 DEF TokenInv

LEMMA TokenNext == TokenInv /\ [Next]_vars => TokenInv'
<1> SUFFICES ASSUME TokenInv, [Next]_vars PROVE TokenInv'
  OBVIOUS
<1>1. TypeOK /\ TypeOK'
  BY TypeNext DEF TokenInv
<1>2. ASSUME NEW u \in Ults, Handler(u) PROVE TokenInv'
  BY <1>2, TokenHandler
<1>3. ASSUME NEW u \in Ults, NEW r \in Request, Arrive(u, r) PROVE TokenInv'
  BY <1>1, <1>3
     DEF Arrive, TokenInv, TypeOK, HeldIsNamed, AdminsAuthorised, InBackend,
         check_token
<1>4. CASE UNCHANGED <<pc, req, held>>
  BY <1>1, <1>4
     DEF TokenInv, HeldIsNamed, AdminsAuthorised, InBackend, check_token
<1> QED
  BY <1>2, <1>3, <1>4
     DEF Next, soma_provider_register, soma_provider_register_backend,
         FinalizeBegin, soma_finalize_provider, FinalizeClose, FinalizeReturn,
         FinalizeEnd, handlers, vars

LEMMA TokenInit == Init => TokenInv
<1> SUFFICES ASSUME Init PROVE TokenInv
  OBVIOUS
<1>1. \A u \in Ults : pc[u] = "idle"
  BY DEF Init
<1> QED
  BY <1>1, TypeInit DEF TokenInv, HeldIsNamed, AdminsAuthorised, InBackend

\* A collector leaves the hash of a running provider only in a close or destroy
\* that named it and carried the provider's token.
THEOREM OnlyAuthorisedRemovals == Spec => RemovalAuthorised
<1>. DEFINE Allowed(id) ==
       \/ provider # "up"
       \/ \E u \in Ults :
             /\ req[u].op \in EndOps
             /\ req[u].id = id
             /\ ArgToken \in {NoToken, EmptyToken, req[u].token}
             /\ pc[u] = "backend" /\ pc'[u] = "respond"
<1>1. Init => TokenInv
  BY TokenInit
<1>2. TokenInv /\ [Next]_vars => TokenInv'
  BY TokenNext
<1>3. ASSUME TokenInv, [Next]_vars, NEW id \in collectors \ collectors'
      PROVE  Allowed(id)
  <2>1. ASSUME NEW u \in Ults, Handler(u) PROVE Allowed(id)
    <3>1. \/ req[u].op = "close" /\ \E ret \in BackendRets : CloseReturns(u, ret)
          \/ req[u].op = "destroy" /\ DestroyReturns(u)
      BY <1>3, <2>1, HandlerCases
         DEF HandlerStep, InvalidInput, Refuse, CallCreate, CreateSucceeds,
             add_collector, CreateFails, CallEnd, ListCollectors,
             HelloInvalidInput, HelloUnknownCollector, CallUse, HelloReturns,
             SumReturns, Finish, Call, soma_provider, hash
    <3>2. InBackend(u, EndOps) /\ held[u] = req[u].id /\ check_token(req[u].token)
      BY <1>3, <3>1, OpsDisjoint
         DEF CloseReturns, DestroyReturns, Resumes, InBackend, TokenInv,
             HeldIsNamed, AdminsAuthorised
    <3>3. pc'[u] = "respond" /\ req[u].id = id
      BY <1>3, <3>1, <3>2
         DEF CloseReturns, DestroyReturns, Respond, unlink_collector, hash,
             TokenInv, TypeOK
    <3> QED
      BY <3>2, <3>3 DEF InBackend, check_token, ProviderToken
  <2>2. CASE soma_finalize_provider
    BY <1>3, <2>2
       DEF soma_finalize_provider, FinalizeClose, FinalizeReturn, FinalizeEnd, hash
  <2>3. CASE soma_provider_register
    BY <2>3 DEF soma_provider_register
  <2>4. CASE UNCHANGED collectors
    BY <1>3, <2>4
  <2> QED
    BY <1>3, <2>1, <2>2, <2>3, <2>4
       DEF Next, Arrive, soma_provider, soma_provider_register_backend,
           FinalizeBegin, hash, vars
<1>4. TokenInv /\ [Next]_vars => [\A id \in collectors \ collectors' : Allowed(id)]_vars
  BY <1>3
<1> QED
  BY <1>1, <1>2, <1>4, PTL DEF Spec, RemovalAuthorised

-----------------------------------------------------------------------------
(* What becomes of the inputs. *)

\* The steps after which a handler is gone.
Ends(u) ==
    \/ HelloInvalidInput(u)
    \/ req[u].op = "hello" /\ (HelloUnknownCollector(u) \/ HelloReturns(u))
    \/ Finish(u)

\* A handler's step is to enter the backend, to answer, or its last one; the
\* inputs of the others stay as they are.
LEMMA InputSteps ==
    ASSUME TypeOK, NEW u \in Ults, Handler(u)
    PROVE  /\ \A v \in Ults \ {u} :
                 pc'[v] = pc[v] /\ input'[v] = input[v] /\ out'[v] = out[v]
           /\ \/ pc'[u] = "backend"
              \/ /\ pc'[u] = "respond"
                 /\ \/ input'[u] = "decoded"
                    \/ /\ input'[u] = "none"
                       /\ out'[u].ret = "SOMA_ERR_FROM_MERCURY"
              \/ pc'[u] = "idle" /\ Ends(u)
<1>. USE DEF TypeOK, Decodes, FreesInput, Starts, Resumes, Respond, Call, Leave
<1>0. HandlerStep(u)
  BY HandlerCases
<1>. DEFINE Goal ==
       /\ \A v \in Ults \ {u} :
             pc'[v] = pc[v] /\ input'[v] = input[v] /\ out'[v] = out[v]
       /\ \/ pc'[u] = "backend"
          \/ /\ pc'[u] = "respond"
             /\ \/ input'[u] = "decoded"
                \/ /\ input'[u] = "none"
                   /\ out'[u].ret = "SOMA_ERR_FROM_MERCURY"
          \/ pc'[u] = "idle" /\ Ends(u)
<1>1. CASE InvalidInput(u)
  BY <1>1 DEF InvalidInput
<1>2. ASSUME NEW error \in soma_return_t, Refuse(u, error) PROVE Goal
  BY <1>2 DEF Refuse
<1>3. ASSUME NEW id \in Ids, CallCreate(u, id) PROVE Goal
  BY <1>3 DEF CallCreate
<1>4. CASE CreateSucceeds(u)
  BY <1>4 DEF CreateSucceeds
<1>5. ASSUME NEW ret \in BackendRets, CreateFails(u, ret) PROVE Goal
  BY <1>5 DEF CreateFails
<1>6. CASE CallEnd(u)
  BY <1>6 DEF CallEnd
<1>7. ASSUME NEW ret \in BackendRets, CloseReturns(u, ret) PROVE Goal
  BY <1>7 DEF CloseReturns
<1>8. CASE DestroyReturns(u)
  BY <1>8 DEF DestroyReturns
<1>9. CASE ListCollectors(u)
  BY <1>9 DEF ListCollectors
<1>10. CASE CallUse(u)
  BY <1>10 DEF CallUse
<1>11. CASE SumReturns(u)
  BY <1>11 DEF SumReturns, UseReturned
<1>12. CASE Ends(u)
  BY <1>12 DEF Ends, HelloInvalidInput, HelloUnknownCollector, HelloReturns,
               UseReturned, Finish
<1> QED
  BY <1>0, <1>1, <1>2, <1>3, <1>4, <1>5, <1>6, <1>7, <1>8, <1>9, <1>10, <1>11,
     <1>12 DEF HandlerStep, Ends

LEMMA InputNext == InputInv /\ [Next]_vars => InputInv'
<1> SUFFICES ASSUME InputInv, [Next]_vars PROVE InputInv'
  OBVIOUS
<1>1. TypeOK /\ TypeOK'
  BY TypeNext DEF InputInv
<1>2. AnswersWithInput'
  <2>1. ASSUME NEW u \in Ults, Handler(u) PROVE AnswersWithInput'
    BY <1>1, <2>1, InputSteps DEF InputInv, AnswersWithInput
  <2>2. ASSUME NEW u \in Ults, NEW r \in Request, Arrive(u, r)
        PROVE  AnswersWithInput'
    BY <1>1, <2>2 DEF Arrive, InputInv, AnswersWithInput, TypeOK
  <2>3. CASE UNCHANGED handlers
    BY <2>3 DEF handlers, InputInv, AnswersWithInput
  <2> QED
    BY <2>1, <2>2, <2>3
       DEF Next, soma_provider_register, soma_provider_register_backend,
           FinalizeBegin, soma_finalize_provider, FinalizeClose, FinalizeReturn,
           FinalizeEnd, handlers, vars
<1> QED
  BY <1>1, <1>2 DEF InputInv

\* Whatever a handler meets on its way, the input it decoded is freed when it
\* ends, unless it is a hello's, which never is; and a handler frees an input
\* that it did not get only after it reported that it could not be decoded.
THEOREM InputsAccounted == Spec => InputsReturned
<1>. DEFINE Returned(u) ==
       pc[u] # "idle" /\ pc'[u] = "idle" =>
          /\ input'[u] = "decoded" => req[u].op = "hello"
          /\ input'[u] = "stray" => out[u].ret = "SOMA_ERR_FROM_MERCURY"
<1>1. Init => InputInv
  BY TypeInit DEF Init, InputInv, AnswersWithInput
<1>2. InputInv /\ [Next]_vars => InputInv'
  BY InputNext
<1>3. ASSUME InputInv, [Next]_vars, NEW u \in Ults PROVE Returned(u)
  <2> SUFFICES ASSUME pc[u] # "idle", pc'[u] = "idle"
               PROVE  /\ input'[u] = "decoded" => req[u].op = "hello"
                      /\ input'[u] = "stray" => out[u].ret = "SOMA_ERR_FROM_MERCURY"
    OBVIOUS
  <2>1. Ends(u)
    <3>1. ASSUME NEW v \in Ults, Handler(v) PROVE Ends(u)
      BY <1>3, <3>1, InputSteps DEF InputInv
    <3>2. ASSUME NEW v \in Ults, NEW r \in Request, Arrive(v, r) PROVE FALSE
      BY <3>2 DEF Arrive, InputInv, TypeOK
    <3>3. CASE UNCHANGED handlers
      BY <3>3 DEF handlers
    <3> QED
      BY <1>3, <3>1, <3>2, <3>3
         DEF Next, soma_provider_register, soma_provider_register_backend,
             FinalizeBegin, soma_finalize_provider, FinalizeClose,
             FinalizeReturn, FinalizeEnd, handlers, vars
  <2> QED
    BY <1>3, <2>1
       DEF Ends, HelloInvalidInput, HelloUnknownCollector, HelloReturns,
           UseReturned, Decodes, Starts, Resumes, Finish, FreesInput, InputInv,
           AnswersWithInput, TypeOK
<1>4. InputInv /\ [Next]_vars => [\A u \in Ults : Returned(u)]_vars
  BY <1>3
<1> QED
  BY <1>1, <1>2, <1>4, PTL DEF Spec, InputsReturned

=============================================================================
