-------------------------- MODULE SomaServiceProofs -------------------------
(***************************************************************************)
(* Proof that the provider implements the abstract service, for every      *)
(* number of handlers and collectors and every backend that keeps to the   *)
(* context discipline.                                                     *)
(***************************************************************************)
EXTENDS SomaProviderService, SomaProviderProofs

\* What the mapping needs to know of the provider's states: contexts for the
\* ids handed out, the counter for list, and the tokens of requests that are
\* inside the backend.
ServiceInv == ContextInv /\ MemoryInv /\ TokenInv

\* What the contexts need is enough for the provider's memory.
LEMMA DisciplineStronger == ContextDiscipline => MemoryDiscipline
BY DEF ContextDiscipline, MemoryDiscipline, CreateOps

\* The steps a handler can take, with the reason of each refusal.
ServiceStep(u) ==
    \/ req[u].op # "hello" /\ InvalidInput(u)
    \/ req[u].op \in CreateOps \cup EndOps \cup {"list"} /\ InvalidToken(u)
    \/ req[u].op \in CreateOps /\ UnknownBackend(u)
    \/ req[u].op \in CreateOps /\ \E id \in Ids : CallCreate(u, id)
    \/ req[u].op \in CreateOps /\ CreateSucceeds(u)
    \/ req[u].op \in CreateOps /\ \E ret \in BackendRets : CreateFails(u, ret)
    \/ req[u].op \in EndOps /\ check_token(req[u].token) /\ UnknownCollector(u)
    \/ req[u].op \in EndOps /\ CallEnd(u)
    \/ req[u].op = "close" /\ \E ret \in BackendRets : CloseReturns(u, ret)
    \/ req[u].op = "destroy" /\ DestroyReturns(u)
    \/ req[u].op = "list" /\ ListCollectors(u)
    \/ req[u].op \in UseOps /\ CallUse(u)
    \/ req[u].op = "sum" /\ UnknownCollector(u)
    \/ req[u].op = "sum" /\ SumReturns(u)
    \/ req[u].op = "hello" /\ HelloInvalidInput(u)
    \/ req[u].op = "hello" /\ HelloUnknownCollector(u)
    \/ req[u].op = "hello" /\ HelloReturns(u)
    \/ Finish(u)

\* Every step of a handler is one of these.
LEMMA ServiceCases == \A u : Handler(u) => ServiceStep(u)
BY DEF Handler, ServiceStep, soma_create_collector_ult, soma_open_collector_ult,
       soma_close_collector_ult, soma_destroy_collector_ult,
       soma_list_collectors_ult, soma_hello_ult, soma_sum_ult, CreateOps, EndOps,
       UseOps

-----------------------------------------------------------------------------
(* The mapping, piece by piece. *)

\* The service and the provider speak of the same operations and sizes.
LEMMA SameOps ==
    /\ Service!CreateOps = CreateOps
    /\ Service!EndOps = EndOps
    /\ Service!Ops = Ops
    /\ Service!Request = Request
BY DEF Service!CreateOps, Service!EndOps, Service!Ops, Service!IdOps,
       Service!UseOps, Service!Request, Service!Requests,
       Service!create_collector_in_t, Service!close_collector_in_t,
       Service!list_collectors_in_t, Service!sum_in_t, CreateOps, EndOps, Ops,
       IdOps, UseOps, Request, Requests, create_collector_in_t,
       close_collector_in_t, list_collectors_in_t, sum_in_t

LEMMA SameCardinality == \A S : Service!Cardinality(S) = Cardinality(S)
BY Zenon DEF Service!Cardinality, Cardinality

\* The tokens the service accepts are those check_token lets pass.
LEMMA TokenMapped ==
    ASSUME TypeOK, NEW u \in Ults, req[u].op \in CreateOps \cup EndOps \cup {"list"}
    PROVE  Service!TokenAccepted(u) <=> check_token(req[u].token)
<1>1. req[u].token \in Tokens
  BY DEF TypeOK, Request, Requests, create_collector_in_t, close_collector_in_t,
         list_collectors_in_t, sum_in_t, NoRequest, CreateOps, EndOps, UseOps
<1> QED
  BY <1>1 DEF Service!TokenAccepted, check_token, ProviderToken

\* A handler that responds is a pending call that is answered.
LEMMA RespondMapped ==
    ASSUME TypeOK, NEW u \in Ults, pc[u] \in {"ready", "backend"},
           NEW ret, NEW ids, Respond(u, ret, ids)
    PROVE  CallStatus[u] = "pending" /\ Service!Answer(u, ret, ids)
BY DEF TypeOK, Respond, CallStatus, Service!Answer

\* A handler that leaves is a caller that is through.
LEMMA LeaveMapped ==
    ASSUME TypeOK, NEW u \in Ults, Leave(u)
    PROVE  Service!Forget(u)
BY DEF TypeOK, Leave, CallStatus, Service!Forget, NoRequest, NoReply,
       Service!NoRequest, Service!NoReply

-----------------------------------------------------------------------------
(* Each step of a handler is a step of its caller's request, or none. *)

\* A step of the service, or none.
Mapped == [Service!Next]_(Service!vars)

\* A step of one caller is a step of the service.
LEMMA ServeMapped ==
    ASSUME NEW u \in Ults, Service!Serve(u) \/ Service!Return(u)
    PROVE  Mapped
BY DEF Mapped, Service!Next

\* The errors found before any backend is called, and the requests that cannot
\* be read, change nothing.
LEMMA RefusalMapped ==
    ASSUME ServiceInv, NEW u \in Ults,
           \/ req[u].op # "hello" /\ InvalidInput(u)
           \/ req[u].op \in CreateOps \cup EndOps \cup {"list"} /\ InvalidToken(u)
           \/ req[u].op \in CreateOps /\ UnknownBackend(u)
           \/ req[u].op \in EndOps /\ check_token(req[u].token) /\ UnknownCollector(u)
           \/ req[u].op = "sum" /\ UnknownCollector(u)
    PROVE  Service!Serve(u)
<1>0. TypeOK /\ pc[u] = "ready" /\ UNCHANGED <<provider, ctx, collectors>>
  BY DEF ServiceInv, ContextInv, InvalidInput, InvalidToken, UnknownBackend,
         UnknownCollector, Refuse, Decodes, Starts, soma_provider, hash
<1>1. UNCHANGED Service!registry
  BY <1>0 DEF Service!registry
<1>2. req[u].op \in Ops
  BY <1>0, RequestOps DEF TypeOK
<1>3. CASE req[u].op # "hello" /\ InvalidInput(u)
  BY <1>0, <1>1, <1>2, <1>3, RespondMapped, SameOps
     DEF InvalidInput, Service!Serve, Service!Unreadable, Service!Pending
<1>4. CASE req[u].op \in CreateOps \cup EndOps \cup {"list"} /\ InvalidToken(u)
  BY <1>0, <1>1, <1>4, RespondMapped, TokenMapped, SameOps
     DEF InvalidToken, Refuse, Service!Serve, Service!BadToken, Service!Pending
<1>5. CASE req[u].op \in CreateOps /\ UnknownBackend(u)
  <2>1. /\ CallStatus[u] = "pending"
        /\ Service!Answer(u, "SOMA_ERR_INVALID_BACKEND", {})
    BY <1>0, <1>5, RespondMapped DEF UnknownBackend, Refuse
  <2>2. Service!TokenAccepted(u)
    BY <1>0, <1>5, TokenMapped DEF UnknownBackend
  <2>3. Service!Decline(u)
    BY <1>1, <1>5, <2>1, <2>2, SameOps DEF Service!Decline, Service!Pending
  <2> QED
    BY <2>3 DEF Service!Serve
<1>6. CASE req[u].op \in EndOps /\ check_token(req[u].token) /\ UnknownCollector(u)
  <2>1. /\ CallStatus[u] = "pending"
        /\ Service!Answer(u, "SOMA_ERR_INVALID_COLLECTOR", {})
    BY <1>0, <1>6, RespondMapped DEF UnknownCollector, Refuse
  <2>2. Service!TokenAccepted(u)
    BY <1>0, <1>6, TokenMapped
  <2>3. req[u].id \notin collectors
    BY <1>6 DEF UnknownCollector, find_collector
  <2>4. Service!NoSuchCollector(u)
    BY <1>1, <1>6, <2>1, <2>2, <2>3, SameOps
       DEF Service!NoSuchCollector, Service!Pending
  <2> QED
    BY <2>4 DEF Service!Serve
<1>7. CASE req[u].op = "sum" /\ UnknownCollector(u)
  <2>1. /\ CallStatus[u] = "pending"
        /\ Service!Answer(u, "SOMA_ERR_INVALID_COLLECTOR", {})
    BY <1>0, <1>7, RespondMapped DEF UnknownCollector, Refuse
  <2>2. req[u].id \notin collectors
    BY <1>7 DEF UnknownCollector, find_collector
  <2>3. Service!NoSuchCollector(u)
    BY <1>1, <1>7, <2>1, <2>2, OpsDisjoint, SameOps
       DEF Service!NoSuchCollector, Service!Pending
  <2> QED
    BY <2>3 DEF Service!Serve
<1> QED
  BY <1>3, <1>4, <1>5, <1>6, <1>7

\* A call of the backend takes no effect that a caller can see: the collector
\* stays in the hash and the id stays as given out as it was.
LEMMA CallMapped ==
    ASSUME ServiceInv, NEW u \in Ults,
           \/ \E id \in Ids : CallCreate(u, id)
           \/ CallEnd(u)
           \/ CallUse(u)
    PROVE  UNCHANGED Service!vars
<1>. USE DEF ServiceInv, ContextInv, TypeOK, soma_provider, hash, Decodes, Starts
<1>1. UNCHANGED <<provider, collectors, req, out>>
  BY DEF CallCreate, CallEnd, CallUse, Call
<1>2. UNCHANGED CallStatus
  BY DEF CallCreate, CallEnd, CallUse, Call, CallStatus
<1>3. UNCHANGED {id \in Ids : ctx[id] \in {"live", "ending", "ended"}}
  <2>1. ASSUME NEW id \in Ids, CallCreate(u, id)
        PROVE  \A i \in Ids : ctx'[i] \in {"live", "ending", "ended"}
                                <=> ctx[i] \in {"live", "ending", "ended"}
    BY <2>1 DEF CallCreate
  <2>2. CASE CallEnd(u)
    <3>1. req[u].id \in Ids /\ ctx[req[u].id] \in {"live", "ending"}
      BY <2>2 DEF CallEnd, find_collector, ContextsAccounted
    <3>2. \A i \in Ids : ctx'[i] \in {"live", "ending", "ended"}
                           <=> ctx[i] \in {"live", "ending", "ended"}
      BY <2>2, <3>1 DEF CallEnd
    <3> QED
      BY <3>2
  <2>3. CASE CallUse(u)
    BY <2>3 DEF CallUse
  <2> QED
    BY <2>1, <2>2, <2>3
<1> QED
  BY <1>1, <1>2, <1>3 DEF Service!vars

\* A create takes effect when the backend returns: the id is one that no caller
\* was ever given.
LEMMA CreateMapped ==
    ASSUME ServiceInv, NEW u \in Ults, req[u].op \in CreateOps,
           CreateSucceeds(u) \/ \E ret \in BackendRets : CreateFails(u, ret)
    PROVE  Service!Serve(u)
<1>. DEFINE id == held[u]
<1>0. TypeOK /\ pc[u] = "backend" /\ InBackend(u, CreateOps) /\ id \in Ids
  BY DEF ServiceInv, ContextInv, TypeOK, CreateSucceeds, CreateFails, Resumes,
         InBackend
<1>1. ctx[id] = "creating" /\ id \notin collectors
  BY <1>0 DEF ServiceInv, ContextInv, CreatorHolds, ContextsAccounted
<1>2. Service!Pending(u, CreateOps) /\ Service!TokenAccepted(u)
  <2>1. check_token(req[u].token)
    BY <1>0 DEF ServiceInv, TokenInv, AdminsAuthorised, InBackend
  <2> QED
    BY <1>0, <2>1, TokenMapped DEF CallStatus, Service!Pending
<1>3. CASE CreateSucceeds(u)
  <2>1. /\ ctx' = [ctx EXCEPT ![id] = "live"]
        /\ collectors' = collectors \cup {id}
        /\ provider' = provider
        /\ Service!Answer(u, "SOMA_SUCCESS", {id})
    BY <1>0, <1>1, <1>3, RespondMapped
       DEF CreateSucceeds, add_collector, find_collector
  <2>2. id \in Ids \ {i \in Ids : ctx[i] \in {"live", "ending", "ended"}}
    BY <1>0, <1>1
  <2>3. {i \in Ids : ctx'[i] \in {"live", "ending", "ended"}}
          = {i \in Ids : ctx[i] \in {"live", "ending", "ended"}} \cup {id}
    BY <1>0, <2>1 DEF TypeOK
  <2>4. Service!Create(u)
    BY <1>2, <2>1, <2>2, <2>3, SameOps DEF Service!Create
  <2> QED
    BY <2>4 DEF Service!Serve
<1>4. ASSUME NEW ret \in BackendRets, CreateFails(u, ret)
      PROVE  Service!Serve(u)
  <2>1. /\ ctx' = [ctx EXCEPT ![id] = "failed"]
        /\ UNCHANGED <<provider, collectors>>
        /\ ret # "SOMA_SUCCESS"
        /\ Service!Answer(u, ret, {})
    BY <1>0, <1>4, RespondMapped DEF CreateFails, soma_provider, hash
  <2>2. UNCHANGED {i \in Ids : ctx[i] \in {"live", "ending", "ended"}}
    BY <1>0, <1>1, <2>1 DEF TypeOK
  <2>3. Service!Decline(u)
    BY <1>2, <2>1, <2>2, SameOps DEF Service!Decline, Service!registry
  <2> QED
    BY <2>3 DEF Service!Serve
<1> QED
  BY <1>3, <1>4

\* A close or destroy takes effect when the collector is unlinked, after the
\* backend's call: nobody else took it away in between.
LEMMA EndMapped ==
    ASSUME ServiceInv, NEW u \in Ults, EndReturns(u)
    PROVE  Service!Serve(u)
<1>. DEFINE id == req[u].id
<1>0. /\ TypeOK /\ pc[u] = "backend" /\ InBackend(u, EndOps)
      /\ held[u] = id /\ id \in Ids
  <2>1. pc[u] = "backend" /\ req[u].op \in EndOps
    BY OpsDisjoint DEF EndReturns, CloseReturns, DestroyReturns, Resumes
  <2>2. TypeOK /\ HeldIsNamed
    BY DEF ServiceInv, ContextInv
  <2> QED
    BY <2>1, <2>2, OpsDisjoint DEF InBackend, HeldIsNamed, TypeOK
<1>1. ctx[id] = "ending" /\ id \in collectors
  BY <1>0 DEF ServiceInv, ContextInv, EnderHolds
<1>2. Service!Pending(u, EndOps) /\ Service!TokenAccepted(u)
  <2>1. check_token(req[u].token)
    BY <1>0 DEF ServiceInv, TokenInv, AdminsAuthorised, InBackend
  <2> QED
    BY <1>0, <2>1, TokenMapped DEF CallStatus, Service!Pending, InBackend
<1>3. /\ ctx' = [ctx EXCEPT ![id] = "ended"]
      /\ collectors' = collectors \ {id}
      /\ provider' = provider
  BY <1>0, <1>1 DEF EndReturns, CloseReturns, DestroyReturns, unlink_collector,
                    find_collector
<1>4. \E ret \in BackendRets :
         /\ req[u].op = "destroy" => ret = "SOMA_SUCCESS"
         /\ Service!Answer(u, ret, {})
  <2>1. ASSUME req[u].op = "close", NEW ret \in BackendRets, CloseReturns(u, ret)
        PROVE  Service!Answer(u, ret, {})
    BY <1>0, <2>1, RespondMapped DEF CloseReturns
  <2>2. CASE DestroyReturns(u)
    BY <1>0, <1>1, <2>2, RespondMapped, BackendAssumption
       DEF DestroyReturns, find_collector
  <2> QED
    BY <2>1, <2>2 DEF EndReturns
<1>5. UNCHANGED {i \in Ids : ctx[i] \in {"live", "ending", "ended"}}
  BY <1>0, <1>1, <1>3 DEF TypeOK
<1>6. Service!End(u)
  BY <1>1, <1>2, <1>3, <1>4, <1>5, SameOps DEF Service!End
<1> QED
  BY <1>6 DEF Service!Serve

\* list copies the whole hash, or exactly as many ids as it was asked for.
LEMMA ListMapped ==
    ASSUME ServiceInv, NEW u \in Ults, req[u].op = "list", ListCollectors(u)
    PROVE  Service!Serve(u)
<1>0. /\ TypeOK /\ pc[u] = "ready" /\ provider = "up"
      /\ UNCHANGED <<provider, ctx, collectors>>
  BY DEF ServiceInv, ContextInv, HandlersDrained, ListCollectors, Decodes,
         Starts, soma_provider, hash
<1>1. /\ num_collectors = Cardinality(collectors)
      /\ IsFiniteSet(collectors)
  BY <1>0, CollectorsFinite DEF ServiceInv, MemoryInv, CountMatches
<1>2. req[u].max_ids \in Nat
  BY <1>0, SizesAssumption
     DEF TypeOK, Request, Requests, create_collector_in_t, close_collector_in_t,
         list_collectors_in_t, sum_in_t, NoRequest, CreateOps, EndOps, UseOps
<1>3. PICK ids \in SUBSET collectors :
         /\ Cardinality(ids) = IF num_collectors < req[u].max_ids
                               THEN num_collectors ELSE req[u].max_ids
         /\ Service!Answer(u, "SOMA_SUCCESS", ids)
         /\ CallStatus[u] = "pending"
  BY <1>0, RespondMapped DEF ListCollectors
<1>4. Cardinality(collectors) = Cardinality(ids) => ids = collectors
  BY <1>1, FS_Subset
<1>5. /\ ids = collectors \/ Cardinality(ids) = req[u].max_ids
      /\ Cardinality(ids) <= req[u].max_ids
  BY <1>1, <1>2, <1>3, <1>4, FS_CardinalityType
<1>6. Service!TokenAccepted(u)
  BY <1>0, TokenMapped DEF ListCollectors
<1>7. Service!List(u)
  BY <1>0, <1>3, <1>5, <1>6, SameCardinality
     DEF Service!List, Service!Pending, Service!registry
<1> QED
  BY <1>7 DEF Service!Serve

\* sum is answered by a collector that still exists; hello is never answered.
LEMMA UseMapped ==
    ASSUME ServiceInv, NEW u \in Ults,
           \/ req[u].op = "sum" /\ SumReturns(u)
           \/ /\ req[u].op = "hello"
              /\ HelloInvalidInput(u) \/ HelloUnknownCollector(u) \/ HelloReturns(u)
    PROVE  Service!Serve(u)
<1>0. /\ TypeOK /\ pc[u] \in {"ready", "backend"}
      /\ UNCHANGED <<provider, ctx, collectors>>
  BY DEF ServiceInv, ContextInv, SumReturns, UseReturned, Resumes, Decodes,
         Starts, HelloInvalidInput, HelloUnknownCollector, HelloReturns, soma_provider,
         hash
<1>1. UNCHANGED Service!registry /\ CallStatus[u] = "pending"
  BY <1>0 DEF Service!registry, CallStatus
<1>2. CASE req[u].op = "sum" /\ SumReturns(u)
  <2>1. InBackend(u, UseOps) /\ held[u] = req[u].id /\ held[u] \in Ids
    BY <1>2, OpsDisjoint
       DEF SumReturns, UseReturned, Resumes, InBackend, ServiceInv, ContextInv,
           HeldIsNamed, TypeOK
  <2>2. ctx[held[u]] = "live"
    BY <2>1 DEF ServiceInv, ContextInv, UserHolds
  <2>3. provider = "up"
    BY <2>1 DEF ServiceInv, ContextInv, HandlersDrained, InBackend
  <2>4. cur = NilId
    BY <2>3 DEF ServiceInv, ContextInv, FinaliserOwns
  <2>5. req[u].id \in collectors
    BY <2>1, <2>2, <2>4 DEF ServiceInv, ContextInv, ContextsAccounted
  <2> QED
    BY <1>0, <1>1, <1>2, <2>5, RespondMapped
       DEF SumReturns, Service!Serve, Service!Sum, Service!Pending
<1>3. CASE /\ req[u].op = "hello"
           /\ HelloInvalidInput(u) \/ HelloUnknownCollector(u) \/ HelloReturns(u)
  <2>1. Leave(u)
    BY <1>3 DEF HelloInvalidInput, HelloUnknownCollector, HelloReturns
  <2> QED
    BY <1>0, <1>1, <1>3, <2>1, LeaveMapped
       DEF Service!Serve, Service!Hello, Service!Pending
<1> QED
  BY <1>2, <1>3

\* The handler ends: the caller is idle again.
LEMMA FinishMapped ==
    ASSUME ServiceInv, NEW u \in Ults, Finish(u)
    PROVE  Service!Return(u)
<1>1. /\ TypeOK /\ pc[u] = "respond" /\ Leave(u)
      /\ UNCHANGED <<provider, ctx, collectors>>
  BY DEF ServiceInv, ContextInv, Finish, soma_provider, hash
<1> QED
  BY <1>1, LeaveMapped DEF Service!Return, Service!registry, CallStatus

LEMMA HandlerMapped ==
    ASSUME ServiceInv, NEW u \in Ults, Handler(u)
    PROVE  Mapped
<1>1. ServiceStep(u)
  BY ServiceCases
<1>2. CASE \/ \E id \in Ids : CallCreate(u, id)
           \/ CallEnd(u)
           \/ CallUse(u)
  BY <1>2, CallMapped DEF Mapped
<1>3. CASE Finish(u)
  BY <1>3, FinishMapped, ServeMapped
<1>4. CASE ~Finish(u) /\ ~CallEnd(u) /\ ~CallUse(u)
           /\ ~\E id \in Ids : CallCreate(u, id)
  <2>1. Service!Serve(u)
    BY <1>1, <1>4, RefusalMapped, CreateMapped, EndMapped, ListMapped, UseMapped
       DEF ServiceStep, EndReturns
  <2> QED
    BY <2>1, ServeMapped
<1> QED
  BY <1>2, <1>3, <1>4

-----------------------------------------------------------------------------
(* Every other step. *)

\* The mapping of the control states stands still with pc, that of the ids
\* handed out with the set of contexts made.
LEMMA ArriveMapped ==
    ASSUME ServiceInv, NEW u \in Ults, NEW r \in Request, Arrive(u, r)
    PROVE  Mapped
<1>1. /\ TypeOK /\ provider = "up" /\ pc[u] = "idle"
      /\ pc' = [pc EXCEPT ![u] = "ready"]
      /\ req' = [req EXCEPT ![u] = r]
      /\ UNCHANGED <<provider, ctx, collectors, out>>
  BY DEF ServiceInv, ContextInv, Arrive, soma_provider, hash
<1>2. CallStatus[u] = "idle" /\ CallStatus' = [CallStatus EXCEPT ![u] = "pending"]
  BY <1>1 DEF TypeOK, CallStatus
<1>3. Service!Ask(u, r)
  BY <1>1, <1>2 DEF Service!Ask, Service!registry
<1> QED
  BY <1>3, SameOps DEF Mapped, Service!Next

\* The provider starts; it is finalised only when nobody waits for an answer;
\* finalisation dismisses the collectors one by one, and its waiting for a
\* backend is not seen.
LEMMA OwnerMapped ==
    ASSUME ServiceInv, ContextDiscipline,
           \/ soma_provider_register
           \/ \E name \in Types : soma_provider_register_backend(name)
           \/ FinalizeBegin
           \/ soma_finalize_provider
    PROVE  Mapped
<1>. USE DEF ServiceInv, ContextInv, TypeOK, hash, table, handlers
<1>1. UNCHANGED <<pc, req, out>>
  BY DEF soma_provider_register, soma_provider_register_backend, FinalizeBegin,
         soma_finalize_provider, FinalizeClose, FinalizeReturn, FinalizeEnd
<1>2. UNCHANGED CallStatus
  BY <1>1 DEF CallStatus
<1>3. CASE soma_provider_register
  <2>1. Service!Start
    BY <1>1, <1>2, <1>3 DEF soma_provider_register, GoneEmpty, Service!Start
  <2> QED
    BY <2>1 DEF Mapped, Service!Next
<1>4. CASE \E name \in Types : soma_provider_register_backend(name)
  <2>1. UNCHANGED Service!vars
    BY <1>1, <1>2, <1>4 DEF soma_provider_register_backend, Service!vars
  <2> QED
    BY <2>1 DEF Mapped
<1>5. CASE FinalizeBegin
  <2>1. \A u \in Ults : CallStatus[u] = "idle"
    BY <1>5 DEF FinalizeBegin, ContextDiscipline, CallStatus
  <2>2. Service!Stop
    BY <1>1, <1>2, <1>5, <2>1 DEF FinalizeBegin, Service!Stop
  <2> QED
    BY <2>2 DEF Mapped, Service!Next
<1>6. CASE FinalizeClose
  <2>0. tmp \in Ids /\ tmp \in collectors
    BY <1>6, IdsAssumption DEF FinalizeClose, LoopInHash, HeadOf
  <2>1. ctx[tmp] \in {"live", "ending"}
    BY <2>0 DEF ContextsAccounted
  <2>2. UNCHANGED {i \in Ids : ctx[i] \in {"live", "ending", "ended"}}
    BY <1>6, <2>1 DEF FinalizeClose
  <2>3. Service!Dismiss(tmp)
    BY <1>1, <1>2, <1>6, <2>0, <2>2 DEF FinalizeClose, Service!Dismiss
  <2> QED
    BY <2>0, <2>3 DEF Mapped, Service!Next
<1>7. CASE FinalizeReturn
  <2>1. ctx[cur] = "ending" /\ cur \in Ids
    BY <1>7 DEF FinalizeReturn, FinaliserOwns
  <2>2. UNCHANGED {i \in Ids : ctx[i] \in {"live", "ending", "ended"}}
    BY <1>7, <2>1 DEF FinalizeReturn
  <2>3. UNCHANGED Service!vars
    BY <1>1, <1>2, <1>7, <2>2 DEF FinalizeReturn, Service!vars
  <2> QED
    BY <2>3 DEF Mapped
<1>8. CASE FinalizeEnd
  <2>0. collectors = {}
    BY <1>8, IdsAssumption DEF FinalizeEnd, LoopInHash, HeadOf
  <2>1. Service!Stopped
    BY <1>1, <1>2, <1>8, <2>0 DEF FinalizeEnd, Service!Stopped
  <2> QED
    BY <2>1 DEF Mapped, Service!Next
<1> QED
  BY <1>3, <1>4, <1>5, <1>6, <1>7, <1>8 DEF soma_finalize_provider

LEMMA NextMapped ==
    ASSUME ServiceInv, ContextDiscipline, [Next]_vars PROVE Mapped
<1>1. CASE UNCHANGED vars
  <2>1. UNCHANGED Service!vars
    BY <1>1 DEF vars, Service!vars, CallStatus
  <2> QED
    BY <2>1 DEF Mapped
<1> QED
  BY <1>1, HandlerMapped, ArriveMapped, OwnerMapped DEF Next

\* The service begins with no collector and no caller.
LEMMA InitMapped == Init => Service!Init
<1> SUFFICES ASSUME Init PROVE Service!Init
  OBVIOUS
<1>1. CallStatus = [u \in Ults |-> "idle"]
  BY DEF Init, CallStatus
<1>2. {id \in Ids : ctx[id] \in {"live", "ending", "ended"}} = {}
  BY DEF Init
<1> QED
  BY <1>1, <1>2
     DEF Init, Service!Init, NoRequest, NoReply, Service!NoRequest, Service!NoReply

\* If only create and open yield, or callers keep requests for a collector
\* apart, then the provider implements the abstract service: every request
\* takes effect at one instant between its arrival and its reply, ids are never
\* given out twice, a refusal changes nothing, and no reply is a lie.
THEOREM ServiceImplemented ==
    ASSUME ContextDiscipline PROVE Spec => ImplementsService
<1>1. Init => ServiceInv /\ Service!Init
  BY InitMapped, ContextInit, MemoryInit, TokenInit DEF ServiceInv
<1>2. ServiceInv /\ [Next]_vars => ServiceInv'
  BY ContextNext, MemoryNext, TokenNext, DisciplineStronger DEF ServiceInv
<1>3. ServiceInv /\ [Next]_vars => [Service!Next]_(Service!vars)
  BY NextMapped DEF Mapped
<1> QED
  BY <1>1, <1>2, <1>3, PTL DEF Spec, ImplementsService, Service!Spec

=============================================================================
