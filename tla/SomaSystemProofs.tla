-------------------------- MODULE SomaSystemProofs --------------------------
(***************************************************************************)
(* Proofs about the calls of the libraries end to end, for every number of *)
(* callers, RPCs in flight, collectors and faults.                         *)
(***************************************************************************)
EXTENDS SomaSystem, FiniteSetTheorems, TLAPS

-----------------------------------------------------------------------------
(* The inductive invariant. *)

\* What is true of the provider between its steps.
ProviderOK ==
    /\ issued \in SUBSET Ids
    /\ live \in SUBSET issued
    /\ call \in [Slots -> {"idle", "pending", "done"}]
    /\ request \in [Slots -> Calls \cup {Provider!NoRequest}]
    /\ reply \in [Slots -> Replies]
    /\ \A s \in Slots : call[s] = "done" => reply[s].ret # "none"

\* What RPC s asks for, until it is answered.
Asks(s) == IF rpc[s].leg = "sent" THEN rpc[s].body ELSE request[s]

\* The provider serves the RPCs that have been delivered and not answered.
\* They name ids that were given out.
RpcOK(s) ==
    /\ rpc[s].leg # "served" => call[s] = "idle"
    /\ rpc[s].leg = "sent" => rpc[s].body \in Calls
    /\ rpc[s].leg = "served" => call[s] # "idle" /\ request[s] \in Calls
    /\ rpc[s].leg = "replied" => rpc[s].body \in Replies /\ rpc[s].body.ret # "none"
    /\ rpc[s].leg \in {"sent", "served"} /\ Asks(s).op \in IdOps
           => Asks(s).id \in issued \cup {NilId}

\* Reply a to request r is true while alive are the collectors, for one who
\* knows that kept existed all along.
Truthful(r, a, kept, alive) ==
    /\ r.op \in EndOps /\ a.ret \notin NotCarriedOut => r.id \notin alive
    /\ r.op \in UseOps /\ a.ret = "SOMA_ERR_INVALID_COLLECTOR" => r.id \notin kept
    /\ r.op = "list" /\ a.ret = "SOMA_SUCCESS" =>
          /\ Cardinality(a.ids) <= r.max_ids
          /\ kept \subseteq a.ids \/ Cardinality(a.ids) = r.max_ids

\* The reply to RPC s, once there is one.
Answered(s) == rpc[s].leg = "replied" \/ call[s] = "done"
Reported(s) == IF rpc[s].leg = "replied" THEN rpc[s].body ELSE reply[s]

\* An RPC that is waited for carries the call its caller is blocked in; the
\* reply to it is true.
AwaitedOK(s) ==
    rpc[s].from # Nobody =>
        /\ rpc[s].leg # "free"
        /\ asked[rpc[s].from] \in Calls /\ asked[rpc[s].from].op # "hello"
        /\ rpc[s].leg \in {"sent", "served"} => Asks(s) = asked[rpc[s].from]
        /\ Answered(s) => Truthful(asked[rpc[s].from], Reported(s),
                                   stayed[rpc[s].from], live)

\* Nobody waits for two RPCs.
OneRpcEach ==
    \A s, t \in Slots : rpc[s].from = rpc[t].from => s = t \/ rpc[s].from = Nobody

\* Callers name ids that were given out; the collectors that stayed exist, those
\* said to be gone once did.
CallersOK ==
    /\ \A c \in Callers : asked[c].op \in IdOps => asked[c].id \in issued \cup {NilId}
    /\ \A c \in Callers : stayed[c] \subseteq live
    /\ gone \in SUBSET (issued \cup {NilId})

SystemInv ==
    /\ TypeOK
    /\ ProviderOK
    /\ \A s \in Slots : RpcOK(s) /\ AwaitedOK(s)
    /\ OneRpcEach
    /\ CallersOK
    /\ EndReported
    /\ AnswersCurrent

\* Collectors no admin has been told of or is about to be told of by the reply
\* to its create, and creates nobody waits for that the provider may yet serve.
CreateReply(s) ==
    rpc[s].from # Nobody /\ asked[rpc[s].from].op \in CreateOps /\ Answered(s)
Lost == {id \in live \ known : \A s \in Slots : CreateReply(s) => id \notin Reported(s).ids}
Loose == {s \in Slots :
            /\ rpc[s].from = Nobody
            /\ rpc[s].leg = "sent" \/ (rpc[s].leg = "served" /\ call[s] = "pending")
            /\ Asks(s).op \in CreateOps}

\* A fault loses at most one collector, or leaves at most one create at large.
FaultsPaid == Cardinality(Lost) + Cardinality(Loose) <= faults

\* A reply to a create names one collector at most.
OneIdCreated ==
    \A s \in Slots : CreateReply(s) =>
        \E id \in Ids \cup {NilId} : Reported(s).ids \subseteq {id}

OrphanInv == SystemInv /\ OneIdCreated /\ FaultsPaid

-----------------------------------------------------------------------------
(* The steps of the callers. *)

\* The calls' operations are the seven of the provider.
LEMMA CallOps == \A r \in Calls : r.op \in Ops /\ r # NoCall
BY DEF Calls, Requests, create_collector_in_t, close_collector_in_t,
       list_collectors_in_t, sum_in_t, NoCall, Ops, CreateOps, EndOps, UseOps, IdOps

\* A call begins, with an RPC or without one; it returns an answer or an error;
\* hello returns as soon as it is sent.
CallStep(c) ==
    \/ \E r \in Request : NoHandle(c, r) \/ Forward(c, r)
    \/ /\ asked[c].op \in Ops
       /\ \E frees \in BOOLEAN :
             /\ frees => asked[c].op = "sum"
             /\ ForwardFails(c, frees) \/ NoProvider(c, frees) \/ NoOutput(c, frees)
    \/ asked[c].op \in Ops /\ Output(c)
    \/ asked[c].op = "hello" /\ HelloLeft(c)

\* Every step of a caller is one of these.
LEMMA CallCases == \A c : Call(c) => CallStep(c)
BY DEF Call, CallStep, soma_create_collector, soma_open_collector,
       soma_close_collector, soma_destroy_collector, soma_list_collectors,
       soma_compute_sum, soma_say_hello, AdminCall, Begins, Completes,
       Ops, CreateOps, EndOps, UseOps, IdOps

-----------------------------------------------------------------------------
(* Type correctness. *)

LEMMA RequestsAreCalls == ProviderOK => Request \subseteq Calls
BY DEF ProviderOK, Request, Calls, Requests, create_collector_in_t,
       close_collector_in_t, list_collectors_in_t, sum_in_t

\* A call that returns gives an answer of the right type.
LEMMA ReturnTypes ==
    ASSUME TypeOK, NEW c \in Callers, NEW r \in Calls, NEW ret \in soma_return_t,
           NEW ids \in SUBSET Ids, \E left \in Int : Returns(c, r, ret, ids, left)
    PROVE  /\ asked' \in [Callers -> Calls \cup {NoCall}]
           /\ refs' \in [Callers -> Int]
           /\ stayed' \in [Callers -> SUBSET Ids]
           /\ answer' \in [to : Calls, ret : soma_return_t, left : Int,
                           ids : SUBSET Ids, stayed : SUBSET Ids]
           /\ known' \in SUBSET Ids
           /\ gone' \in SUBSET (Ids \cup {NilId})
<1>1. r.op \in EndOps => r.id \in Ids \cup {NilId}
  BY DEF Calls, Requests, create_collector_in_t, close_collector_in_t,
         list_collectors_in_t, sum_in_t, CreateOps, EndOps, UseOps
<1>2. PICK left \in Int : Returns(c, r, ret, ids, left)
  OBVIOUS
<1>3. answer' = [to |-> r, ret |-> ret, ids |-> ids, left |-> left,
                 stayed |-> stayed[c]] /\ stayed[c] \in SUBSET Ids
  BY <1>2 DEF Returns, TypeOK
<1> QED
  BY <1>1, <1>2, <1>3 DEF Returns, TypeOK

\* The references to a handle stay whole numbers.
LEMMA RefTypes ==
    TypeOK => \A c \in Callers :
        /\ refs[c] \in Int /\ OutputFreed(refs[c]) \in Int
        /\ \A frees \in BOOLEAN : CleansUp(refs[c], frees) \in Int
BY DEF TypeOK, OutputFreed, CleansUp, margo_get_output, margo_free_output, margo_destroy

LEMMA FaultTypes == TypeOK /\ Fault => faults' \in 0 .. MaxFaults
BY SystemAssumption DEF TypeOK, Fault

LEMMA CallTypes ==
    ASSUME TypeOK, ProviderOK, \A s \in Slots : RpcOK(s), NEW c \in Callers, Call(c)
    PROVE  TypeOK'
<1>. DEFINE Rpcs == [leg : {"free", "sent", "served", "replied", "refused"},
                     from : Callers \cup {Nobody}, body : Calls \cup Replies]
            CallerTypes == /\ asked' \in [Callers -> Calls \cup {NoCall}]
                         /\ refs' \in [Callers -> Int]
                         /\ stayed' \in [Callers -> SUBSET Ids]
                         /\ answer' \in {NoAnswer} \cup
                               [to : Calls, ret : soma_return_t, left : Int,
                                ids : SUBSET Ids, stayed : SUBSET Ids]
                         /\ known' \in SUBSET Ids
                         /\ gone' \in SUBSET (Ids \cup {NilId})
<1>0. rpc \in [Slots -> Rpcs] /\ FreeSlot \in Rpcs
  BY DEF TypeOK, FreeSlot, Nothing, Replies
<1>1. ASSUME NEW r \in Request, NoHandle(c, r) PROVE TypeOK'
  <2>1. r \in Calls
    BY RequestsAreCalls
  <2>2. \E left \in Int : Returns(c, r, "SOMA_ERR_FROM_MERCURY", {}, left)
    BY <1>1, RefTypes DEF NoHandle
  <2>3. CallerTypes
    BY <2>1, <2>2, ReturnTypes DEF soma_return_t
  <2> QED
    BY <1>0, <1>1, <2>3, FaultTypes DEF NoHandle, TypeOK
<1>2. ASSUME NEW r \in Request, Forward(c, r) PROVE TypeOK'
  <2>1. r \in Calls
    BY RequestsAreCalls
  <2>2. rpc' \in [Slots -> Rpcs]
    BY <1>0, <1>2, <2>1 DEF Forward
  <2>3. CallerTypes
    BY <1>2, <2>1 DEF Forward, history, TypeOK, ProviderOK
  <2> QED
    BY <1>2, <2>2, <2>3 DEF Forward, TypeOK
<1>3. ASSUME asked[c].op \in Ops, NEW frees \in BOOLEAN,
             ForwardFails(c, frees) \/ NoProvider(c, frees) \/ NoOutput(c, frees)
      PROVE  TypeOK'
  <2>1. asked[c] \in Calls
    BY <1>3 DEF TypeOK, NoCall, Ops, CreateOps, IdOps, EndOps, UseOps
  <2>2. /\ CleansUp(refs[c], frees) \in Int
        /\ Returns(c, asked[c], "SOMA_ERR_FROM_MERCURY", {}, CleansUp(refs[c], frees))
    BY <1>3, RefTypes DEF ForwardFails, NoProvider, NoOutput
  <2>3. CallerTypes
    BY <2>1, <2>2, ReturnTypes DEF soma_return_t
  <2>4. rpc' \in [Slots -> Rpcs]
    BY <1>0, <1>3 DEF ForwardFails, NoProvider, NoOutput
  <2>5. faults' \in 0 .. MaxFaults
    BY <1>3, FaultTypes DEF ForwardFails, NoProvider, NoOutput, TypeOK
  <2> QED
    BY <2>3, <2>4, <2>5 DEF TypeOK
<1>4. CASE asked[c].op \in Ops /\ Output(c)
  <2>1. asked[c] \in Calls
    BY <1>4 DEF TypeOK, NoCall, Ops, CreateOps, IdOps, EndOps, UseOps
  <2>2. PICK s \in Slots :
           /\ rpc[s].leg = "replied"
           /\ rpc' = [rpc EXCEPT ![s] = FreeSlot]
           /\ Returns(c, asked[c], rpc[s].body.ret, rpc[s].body.ids, OutputFreed(refs[c]))
    BY <1>4 DEF Output, AwaitedBy
  <2>3. rpc[s].body.ret \in soma_return_t /\ rpc[s].body.ids \in SUBSET Ids
    <3>1. rpc[s].body \in Replies /\ rpc[s].body.ret # "none"
      BY <2>2 DEF RpcOK
    <3> QED
      BY <3>1 DEF Replies
  <2>4. \E left \in Int :
           Returns(c, asked[c], rpc[s].body.ret, rpc[s].body.ids, left)
    BY <2>2, RefTypes
  <2>5. CallerTypes
    BY <2>1, <2>3, <2>4, ReturnTypes
  <2> QED
    BY <1>0, <1>4, <2>2, <2>5 DEF TypeOK, Output
<1>5. CASE asked[c].op = "hello" /\ HelloLeft(c)
  <2>1. asked[c] \in Calls
    BY <1>5 DEF TypeOK, NoCall
  <2>2. \E left \in Int : Returns(c, asked[c], "SOMA_SUCCESS", {}, left)
    BY <1>5, RefTypes DEF HelloLeft
  <2>3. CallerTypes
    BY <2>1, <2>2, ReturnTypes DEF soma_return_t
  <2> QED
    BY <1>5, <2>3 DEF TypeOK, HelloLeft
<1> QED
  BY <1>1, <1>2, <1>3, <1>4, <1>5, CallCases DEF CallStep

-----------------------------------------------------------------------------
(* The steps of the provider. *)

\* The provider's instance speaks of the same operations, requests and sizes.
LEMMA SameOps ==
    /\ Provider!CreateOps = CreateOps
    /\ Provider!EndOps = EndOps
    /\ Provider!Ops = Ops
    /\ Provider!Request = Calls
BY DEF Provider!CreateOps, Provider!EndOps, Provider!Ops, Provider!IdOps,
       Provider!UseOps, Provider!Request, Provider!Requests,
       Provider!create_collector_in_t, Provider!close_collector_in_t,
       Provider!list_collectors_in_t, Provider!sum_in_t, CreateOps, EndOps, Ops,
       IdOps, UseOps, Calls, Requests, create_collector_in_t,
       close_collector_in_t, list_collectors_in_t, sum_in_t

LEMMA SameCardinality == \A S : Provider!Cardinality(S) = Cardinality(S)
BY DEF Provider!Cardinality, Cardinality

LEMMA OpsDisjoint ==
    /\ CreateOps \cap IdOps = {}
    /\ EndOps \cap UseOps = {}
    /\ EndOps \cup UseOps = IdOps
    /\ "list" \notin CreateOps \cup IdOps
    /\ {"hello", "sum"} = UseOps
BY DEF CreateOps, IdOps, EndOps, UseOps

\* An answer is given to nobody else, and forgotten by nobody else.
LEMMA AnswerEffect ==
    ASSUME ProviderOK, NEW s \in Slots, NEW ret, NEW ids, Provider!Answer(s, ret, ids)
    PROVE  /\ call'[s] = "done" /\ request' = request
           /\ reply'[s] = [ret |-> ret, ids |-> ids]
           /\ \A t \in Slots \ {s} : call'[t] = call[t] /\ reply'[t] = reply[t]
           /\ call' \in [Slots -> {"idle", "pending", "done"}]
           /\ ret \in soma_return_t /\ ids \in SUBSET Ids => reply' \in [Slots -> Replies]
BY DEF Provider!Answer, ProviderOK, Replies

\* The provider is done with an RPC.
LEMMA ForgetEffect ==
    ASSUME ProviderOK, NEW s \in Slots, Provider!Forget(s)
    PROVE  /\ call'[s] = "idle"
           /\ \A t \in Slots \ {s} :
                 call'[t] = call[t] /\ request'[t] = request[t] /\ reply'[t] = reply[t]
           /\ call' \in [Slots -> {"idle", "pending", "done"}]
           /\ request' \in [Slots -> Calls \cup {Provider!NoRequest}]
           /\ reply' \in [Slots -> Replies]
BY DEF Provider!Forget, Provider!NoReply, ProviderOK, Replies

\* What serving request s does: it is answered, with the truth of that moment;
\* the only collector that is new was never given out, and its id is in the
\* reply to a create.  A hello is served without an answer.
Served(s) ==
    /\ call[s] = "pending" /\ phase' = phase
    /\ \A t \in Slots \ {s} :
          call'[t] = call[t] /\ request'[t] = request[t] /\ reply'[t] = reply[t]
    /\ issued \subseteq issued' /\ live' \cap issued \subseteq live
    /\ IF request[s].op = "hello" THEN call'[s] = "idle"
       ELSE /\ call'[s] = "done" /\ request' = request
            /\ \A kept \in SUBSET live' : Truthful(request[s], reply'[s], kept, live')
    /\ IF request[s].op \in CreateOps
       THEN \E id \in Ids \cup {NilId} :
               reply'[s].ids \subseteq {id} /\ live' \subseteq live \cup reply'[s].ids
       ELSE live' \subseteq live

\* An answer that is true of the collectors there are then serves the request.
LEMMA AnswerServes ==
    ASSUME ProviderOK, NEW s \in Slots, call[s] = "pending", phase' = phase,
           request[s].op # "hello",
           NEW ret \in soma_return_t, NEW ids \in SUBSET Ids,
           Provider!Answer(s, ret, ids),
           issued \subseteq issued', issued' \in SUBSET Ids, live' \in SUBSET issued',
           live' \cap issued \subseteq live,
           \A kept \in SUBSET live' :
              Truthful(request[s], [ret |-> ret, ids |-> ids], kept, live'),
           IF request[s].op \in CreateOps
           THEN \E id \in Ids \cup {NilId} :
                   ids \subseteq {id} /\ live' \subseteq live \cup ids
           ELSE live' \subseteq live
    PROVE  ProviderOK' /\ Served(s)
<1>1. /\ call'[s] = "done" /\ request' = request
      /\ reply'[s] = [ret |-> ret, ids |-> ids]
      /\ \A t \in Slots \ {s} : call'[t] = call[t] /\ reply'[t] = reply[t]
      /\ call' \in [Slots -> {"idle", "pending", "done"}]
      /\ reply' \in [Slots -> Replies]
  BY AnswerEffect
<1>2. ret # "none"
  BY DEF soma_return_t
<1>3. ProviderOK'
  BY <1>1, <1>2 DEF ProviderOK
<1> QED
  BY <1>1, <1>3 DEF Served

\* What the provider may do when it serves an RPC.
LEMMA ServeEffect ==
    ASSUME ProviderOK, NEW s \in Slots, request[s] \in Calls, Provider!Serve(s)
    PROVE  ProviderOK' /\ Served(s)
<1>. DEFINE Goal == ProviderOK' /\ Served(s)
            r == request[s]
            True(ret, ids) == \A kept \in SUBSET live' :
                Truthful(r, [ret |-> ret, ids |-> ids], kept, live')
<1>0. /\ issued \in SUBSET Ids /\ live \in SUBSET issued
      /\ BackendRets \subseteq soma_return_t
      /\ "list" \notin IdOps /\ "hello" \notin CreateOps \cup EndOps
      /\ CreateOps \cap (EndOps \cup UseOps) = {}
  BY SystemAssumption, OpsDisjoint DEF ProviderOK
<1>1. ASSUME call[s] = "pending", UNCHANGED <<phase, issued, live>>, r.op # "hello",
             NEW ret \in soma_return_t, NEW ids \in SUBSET Ids,
             Provider!Answer(s, ret, ids), True(ret, ids),
             r.op \in CreateOps => ids = {}
      PROVE  Goal
  <2>1. IF r.op \in CreateOps
        THEN \E id \in Ids \cup {NilId} :
                   ids \subseteq {id} /\ live' \subseteq live \cup ids
        ELSE live' \subseteq live
    BY <1>1
  <2> QED
    BY <1>0, <1>1, <2>1, AnswerServes
<1>2. CASE Provider!Unreadable(s)
  <2>1. True("SOMA_ERR_FROM_MERCURY", {})
    BY DEF Truthful, NotCarriedOut
  <2> QED
    BY <1>1, <1>2, <2>1 DEF Provider!Unreadable, Provider!Pending, Provider!registry,
       soma_return_t
<1>3. CASE Provider!BadToken(s)
  <2>1. True("SOMA_ERR_INVALID_TOKEN", {})
    BY DEF Truthful, NotCarriedOut
  <2> QED
    BY <1>0, <1>1, <1>3, <2>1, SameOps
       DEF Provider!BadToken, Provider!Pending, Provider!registry, soma_return_t
<1>4. CASE Provider!Create(s)
  <2>1. PICK id \in Ids \ issued :
           /\ live' = live \cup {id} /\ issued' = issued \cup {id}
           /\ Provider!Answer(s, "SOMA_SUCCESS", {id})
    BY <1>4 DEF Provider!Create
  <2>2. r.op \in CreateOps /\ call[s] = "pending" /\ phase' = phase
    BY <1>4, SameOps DEF Provider!Create, Provider!Pending
  <2>3. True("SOMA_SUCCESS", {id})
    BY <1>0, <2>2, OpsDisjoint DEF Truthful
  <2>4. "SOMA_SUCCESS" \in soma_return_t /\ {id} \in SUBSET Ids
    BY DEF soma_return_t
  <2> QED
    BY <1>0, <2>1, <2>2, <2>3, <2>4, AnswerServes
<1>5. CASE Provider!Decline(s)
  <2>1. PICK ret \in soma_return_t : Provider!Answer(s, ret, {})
    BY <1>0, <1>5 DEF Provider!Decline, soma_return_t
  <2>2. r.op \in CreateOps
    BY <1>5, SameOps DEF Provider!Decline, Provider!Pending
  <2>3. True(ret, {})
    BY <1>0, <2>2 DEF Truthful, CreateOps, EndOps, UseOps
  <2> QED
    BY <1>0, <1>1, <1>5, <2>1, <2>2, <2>3
       DEF Provider!Decline, Provider!Pending, Provider!registry
<1>6. CASE Provider!End(s)
  <2>1. PICK ret \in soma_return_t : Provider!Answer(s, ret, {})
    BY <1>0, <1>6 DEF Provider!End
  <2>2. /\ r.op \in EndOps /\ call[s] = "pending" /\ phase' = phase
        /\ live' = live \ {r.id} /\ issued' = issued
    BY <1>6, SameOps DEF Provider!End, Provider!Pending
  <2>3. True(ret, {})
    BY <2>2 DEF Truthful, EndOps, UseOps
  <2> QED
    BY <1>0, <2>1, <2>2, <2>3, AnswerServes
<1>7. CASE Provider!NoSuchCollector(s)
  <2>1. r.op \in EndOps \cup {"sum"} /\ r.id \notin live
    BY <1>7, SameOps DEF Provider!NoSuchCollector, Provider!Pending
  <2>2. UNCHANGED <<phase, issued, live>> /\ call[s] = "pending"
    BY <1>7 DEF Provider!NoSuchCollector, Provider!Pending, Provider!registry
  <2>3. True("SOMA_ERR_INVALID_COLLECTOR", {})
    BY <1>0, <2>1, <2>2 DEF Truthful, EndOps
  <2> QED
    BY <1>0, <1>1, <1>7, <2>1, <2>2, <2>3, OpsDisjoint
       DEF Provider!NoSuchCollector, soma_return_t
<1>8. CASE Provider!List(s)
  <2>1. PICK ids \in SUBSET live :
           /\ ids = live \/ Cardinality(ids) = r.max_ids
           /\ Cardinality(ids) <= r.max_ids
           /\ Provider!Answer(s, "SOMA_SUCCESS", ids)
    BY <1>8, SameCardinality DEF Provider!List
  <2>2. UNCHANGED <<phase, issued, live>> /\ call[s] = "pending" /\ r.op = "list"
    BY <1>8 DEF Provider!List, Provider!Pending, Provider!registry
  <2>3. True("SOMA_SUCCESS", ids)
    BY <2>1, <2>2 DEF Truthful, EndOps, UseOps
  <2>4. "SOMA_SUCCESS" \in soma_return_t /\ ids \in SUBSET Ids
    BY <1>0 DEF soma_return_t
  <2>5. r.op \notin CreateOps
    BY <2>2, OpsDisjoint
  <2> QED
    BY <1>1, <2>1, <2>2, <2>3, <2>4, <2>5
<1>9. CASE Provider!Sum(s)
  <2>1. UNCHANGED <<phase, issued, live>> /\ call[s] = "pending" /\ r.op = "sum"
    BY <1>9 DEF Provider!Sum, Provider!Pending, Provider!registry
  <2>2. True("SOMA_SUCCESS", {})
    BY <2>1 DEF Truthful, EndOps
  <2>3. r.op \notin CreateOps
    BY <2>1, OpsDisjoint
  <2> QED
    BY <1>1, <1>9, <2>1, <2>2, <2>3 DEF Provider!Sum, soma_return_t
<1>10. CASE Provider!Hello(s)
  <2>1. UNCHANGED <<phase, issued, live>> /\ call[s] = "pending" /\ r.op = "hello"
        /\ Provider!Forget(s)
    BY <1>10 DEF Provider!Hello, Provider!Pending, Provider!registry
  <2>2. ProviderOK'
    BY <2>1, ForgetEffect DEF ProviderOK
  <2> QED
    BY <1>0, <2>1, <2>2, ForgetEffect DEF Served
<1> QED
  BY <1>2, <1>3, <1>4, <1>5, <1>6, <1>7, <1>8, <1>9, <1>10 DEF Provider!Serve

-----------------------------------------------------------------------------
(* Steps of the RPCs and of the provider keep the invariant. *)

\* No collector comes back, and those that cease to exist are forgotten by those
\* who would have seen them stay.
LEMMA WaitersKeep ==
    ASSUME SystemInv, ProviderOK', CallersWait, rpc' \in [Slots ->
               [leg : {"free", "sent", "served", "replied", "refused"},
                from : Callers \cup {Nobody}, body : Calls \cup Replies]],
           faults' \in 0 .. MaxFaults,
           issued \subseteq issued', live' \cap issued \subseteq live
    PROVE  TypeOK' /\ CallersOK' /\ EndReported' /\ AnswersCurrent'
<1>1. TypeOK'
  BY DEF SystemInv, TypeOK, CallersWait, history
<1>2. CallersOK'
  BY DEF SystemInv, CallersOK, CallersWait, history
<1>3. EndReported'
  BY SystemAssumption
     DEF SystemInv, CallersOK, CallersWait, history, EndReported, ProviderOK
<1>4. AnswersCurrent'
  BY OpsDisjoint DEF CallersWait, NoAnswer, NoCall, AnswersCurrent, UseOps
<1> QED
  BY <1>1, <1>2, <1>3, <1>4

\* A true reply stays true while its caller waits for it.
LEMMA TruthKept ==
    ASSUME SystemInv, CallersWait, live' \cap issued \subseteq live, ProviderOK',
           NEW c \in Callers, NEW a, Truthful(asked[c], a, stayed[c], live)
    PROVE  Truthful(asked'[c], a, stayed'[c], live')
<1>1. asked'[c] = asked[c] /\ stayed'[c] \subseteq stayed[c]
  BY DEF CallersWait
<1>2. asked[c].op \in EndOps => asked[c].id \in issued \cup {NilId}
  BY OpsDisjoint DEF SystemInv, CallersOK
<1>3. NilId \notin live'
  BY SystemAssumption DEF ProviderOK
<1> QED
  BY <1>1, <1>2, <1>3 DEF Truthful

\* A step of RPC s that gives it no new caller keeps the invariant if what it
\* makes of s is right.
LEMMA CarryKeeps ==
    ASSUME SystemInv, ProviderOK', CallersWait, NEW s \in Slots,
           rpc' \in [Slots ->
               [leg : {"free", "sent", "served", "replied", "refused"},
                from : Callers \cup {Nobody}, body : Calls \cup Replies]],
           faults' \in 0 .. MaxFaults,
           issued \subseteq issued', live' \cap issued \subseteq live,
           \A t \in Slots \ {s} : /\ rpc'[t] = rpc[t] /\ call'[t] = call[t]
                                 /\ request'[t] = request[t] /\ reply'[t] = reply[t],
           rpc'[s].from \in {rpc[s].from, Nobody},
           RpcOK(s)', AwaitedOK(s)'
    PROVE  SystemInv'
<1>1. TypeOK' /\ CallersOK' /\ EndReported' /\ AnswersCurrent'
  BY WaitersKeep
<1>2. \A t \in Slots \ {s} : RpcOK(t)'
  BY DEF SystemInv, RpcOK, Asks
<1>3. ASSUME NEW t \in Slots \ {s} PROVE AwaitedOK(t)'
  <2>1. SUFFICES ASSUME rpc[t].from # Nobody PROVE AwaitedOK(t)'
    BY DEF AwaitedOK
  <2>2. rpc[t].from \in Callers /\ asked' = asked
    BY <2>1 DEF SystemInv, TypeOK, CallersWait
  <2>3. Answered(t)' = Answered(t) /\ Reported(t)' = Reported(t) /\ Asks(t)' = Asks(t)
    BY DEF Answered, Reported, Asks
  <2>4. AwaitedOK(t)
    BY DEF SystemInv
  <2>5. Answered(t) => Truthful(asked'[rpc[t].from], Reported(t), stayed'[rpc[t].from], live')
    BY <2>1, <2>2, <2>4, TruthKept DEF AwaitedOK
  <2> QED
    BY <2>1, <2>2, <2>3, <2>4, <2>5 DEF AwaitedOK
<1>4. OneRpcEach'
  BY DEF SystemInv, OneRpcEach
<1> QED
  BY <1>1, <1>2, <1>3, <1>4 DEF SystemInv

Rpcs == [leg : {"free", "sent", "served", "replied", "refused"},
         from : Callers \cup {Nobody}, body : Calls \cup Replies]

\* A slot that is free or refused asks for nothing and awaits no answer.
LEMMA CarryToRest ==
    ASSUME SystemInv, CallersWait, UNCHANGED provider, NEW s \in Slots,
           rpc[s].leg # "served", faults' \in 0 .. MaxFaults,
           \/ rpc[s].from = Nobody /\ rpc' = [rpc EXCEPT ![s] = FreeSlot]
           \/ rpc' = [rpc EXCEPT ![s].leg = "refused", ![s].body = Nothing]
    PROVE  SystemInv'
<1>0. /\ rpc \in [Slots -> Rpcs] /\ ProviderOK /\ RpcOK(s) /\ AwaitedOK(s)
      /\ FreeSlot \in Rpcs /\ Nothing \in Replies
  BY DEF SystemInv, TypeOK, Rpcs, FreeSlot, Nothing, Replies
<1>1. rpc' \in [Slots -> Rpcs]
  BY <1>0 DEF Rpcs
<1>2. /\ rpc'[s].leg \in {"free", "refused"} /\ call[s] = "idle"
      /\ rpc'[s].from \in {rpc[s].from, Nobody}
      /\ rpc'[s].leg = "free" => rpc'[s].from = Nobody
      /\ \A t \in Slots \ {s} : rpc'[t] = rpc[t]
  BY <1>0 DEF FreeSlot, Rpcs, RpcOK
<1>3. /\ phase' = phase /\ issued' = issued /\ live' = live
      /\ call' = call /\ request' = request /\ reply' = reply
  BY DEF provider
<1>4. ProviderOK'
  BY <1>0, <1>3 DEF ProviderOK
<1>5. RpcOK(s)'
  BY <1>2, <1>3 DEF RpcOK
<1>6. AwaitedOK(s)'
  BY <1>0, <1>2, <1>3 DEF AwaitedOK, Answered, CallersWait
<1> QED
  BY <1>1, <1>2, <1>3, <1>4, <1>5, <1>6, CarryKeeps DEF Rpcs

LEMMA DeliverKeeps ==
    ASSUME SystemInv, NEW s \in Slots, Deliver(s) PROVE SystemInv'
<1>0. /\ rpc \in [Slots -> Rpcs] /\ ProviderOK /\ RpcOK(s) /\ AwaitedOK(s)
      /\ rpc[s].leg = "sent" /\ rpc[s].body \in Calls /\ CallersWait
      /\ Nothing \in Replies
  BY DEF SystemInv, TypeOK, Rpcs, Deliver, RpcOK, Nothing, Replies
<1>1. /\ call' = [call EXCEPT ![s] = "pending"]
      /\ request' = [request EXCEPT ![s] = rpc[s].body]
      /\ UNCHANGED <<phase, issued, live, reply, faults>>
  BY DEF Deliver, Provider!Ask, Provider!registry
<1>2. /\ rpc' \in [Slots -> Rpcs]
      /\ rpc'[s].leg = "served" /\ rpc'[s].from = rpc[s].from
      /\ \A t \in Slots \ {s} : rpc'[t] = rpc[t]
  BY <1>0 DEF Deliver, Rpcs
<1>3. ProviderOK'
  BY <1>0, <1>1 DEF ProviderOK
<1>4. call'[s] = "pending" /\ request'[s] = rpc[s].body
  BY <1>0, <1>1 DEF ProviderOK
<1>5. RpcOK(s)'
  BY <1>0, <1>1, <1>2, <1>4 DEF RpcOK, Asks
<1>6. AwaitedOK(s)'
  BY <1>0, <1>2, <1>4 DEF AwaitedOK, Asks, Answered, CallersWait
<1>7. \A t \in Slots \ {s} :
         call'[t] = call[t] /\ request'[t] = request[t] /\ reply'[t] = reply[t]
  BY <1>0, <1>1 DEF ProviderOK
<1>8. faults' \in 0 .. MaxFaults
  BY <1>1 DEF SystemInv, TypeOK
<1> QED
  BY <1>0, <1>1, <1>2, <1>3, <1>5, <1>6, <1>7, <1>8, CarryKeeps DEF Rpcs

\* The reply that a handler comes to is true of the collectors there are then.
LEMMA ServeKeeps ==
    ASSUME SystemInv, NEW s \in Slots, Serve(s) PROVE SystemInv'
<1>0. /\ rpc \in [Slots -> Rpcs] /\ ProviderOK /\ RpcOK(s) /\ AwaitedOK(s)
      /\ rpc[s].leg = "served" /\ request[s] \in Calls /\ CallersWait
      /\ FreeSlot \in Rpcs
  BY DEF SystemInv, TypeOK, Rpcs, Serve, RpcOK, FreeSlot, Nothing, Replies
<1>1. ProviderOK' /\ Served(s)
  BY <1>0, ServeEffect DEF Serve
<1>2. faults' \in 0 .. MaxFaults
  BY DEF Serve, SystemInv, TypeOK
<1>3. CASE request[s].op = "hello"
  <2>1. rpc' = [rpc EXCEPT ![s] = FreeSlot] /\ call'[s] = "idle"
    BY <1>1, <1>3 DEF Serve, Served
  <2>2. rpc' \in [Slots -> Rpcs] /\ rpc'[s] = FreeSlot
        /\ \A t \in Slots \ {s} : rpc'[t] = rpc[t]
    BY <1>0, <2>1
  <2>3. RpcOK(s)' /\ AwaitedOK(s)'
    BY <2>1, <2>2 DEF RpcOK, AwaitedOK, FreeSlot
  <2>4. rpc'[s].from = Nobody
    BY <2>2 DEF FreeSlot
  <2> QED
    BY <1>0, <1>1, <1>2, <2>2, <2>3, <2>4, CarryKeeps DEF Served, Rpcs
<1>4. CASE request[s].op # "hello"
  <2>1. /\ rpc' = rpc /\ call'[s] = "done" /\ request' = request
        /\ \A kept \in SUBSET live' : Truthful(request[s], reply'[s], kept, live')
    BY <1>1, <1>4 DEF Serve, Served
  <2>2. RpcOK(s)'
    BY <1>0, <1>1, <2>1 DEF RpcOK, Asks, Served
  <2>3. AwaitedOK(s)'
    <3>1. SUFFICES ASSUME rpc[s].from # Nobody PROVE AwaitedOK(s)'
      BY <2>1 DEF AwaitedOK
    <3>2. rpc[s].from \in Callers /\ asked' = asked /\ asked[rpc[s].from] = request[s]
      BY <1>0, <3>1 DEF AwaitedOK, Asks, Rpcs, CallersWait
    <3>3. stayed'[rpc[s].from] \in SUBSET live'
      BY <1>0, <3>2 DEF CallersWait
    <3>4. Reported(s)' = reply'[s]
      BY <1>0, <2>1 DEF Reported
    <3>5. Truthful(asked[rpc[s].from], Reported(s)', stayed'[rpc[s].from], live')
      BY <2>1, <3>2, <3>3, <3>4
    <3> QED
      BY <1>0, <2>1, <3>1, <3>2, <3>5 DEF AwaitedOK, Asks
  <2> QED
    BY <1>0, <1>1, <1>2, <2>1, <2>2, <2>3, CarryKeeps DEF Served, Rpcs
<1> QED
  BY <1>3, <1>4

LEMMA RespondKeeps ==
    ASSUME SystemInv, NEW s \in Slots, Respond(s) PROVE SystemInv'
<1>0. /\ rpc \in [Slots -> Rpcs] /\ ProviderOK /\ RpcOK(s) /\ AwaitedOK(s)
      /\ rpc[s].leg = "served" /\ call[s] = "done" /\ CallersWait
      /\ UNCHANGED <<phase, issued, live, faults>> /\ Provider!Forget(s)
  BY DEF SystemInv, TypeOK, Rpcs, Respond, Provider!Return, Provider!registry
<1>1. reply[s] \in Replies /\ reply[s].ret # "none"
  BY <1>0 DEF ProviderOK
<1>2. /\ rpc' \in [Slots -> Rpcs]
      /\ rpc'[s].leg = "replied" /\ rpc'[s].from = rpc[s].from
      /\ rpc'[s].body = reply[s]
      /\ \A t \in Slots \ {s} : rpc'[t] = rpc[t]
  BY <1>0, <1>1 DEF Respond, Rpcs
<1>3. /\ call'[s] = "idle"
      /\ \A t \in Slots \ {s} :
            call'[t] = call[t] /\ request'[t] = request[t] /\ reply'[t] = reply[t]
  BY <1>0, ForgetEffect
<1>4. ProviderOK'
  BY <1>0, <1>3, ForgetEffect DEF ProviderOK
<1>5. RpcOK(s)'
  BY <1>1, <1>2, <1>3 DEF RpcOK
<1>6. AwaitedOK(s)'
  <2>1. SUFFICES ASSUME rpc[s].from # Nobody PROVE AwaitedOK(s)'
    BY <1>2 DEF AwaitedOK
  <2>2. rpc[s].from \in Callers /\ asked' = asked
    BY <1>0, <2>1 DEF Rpcs, CallersWait
  <2>3. Truthful(asked[rpc[s].from], reply[s], stayed[rpc[s].from], live)
    BY <1>0, <2>1 DEF AwaitedOK, Answered, Reported
  <2>4. Truthful(asked'[rpc[s].from], reply[s], stayed'[rpc[s].from], live')
    BY <1>0, <1>4, <2>2, <2>3, TruthKept
  <2>5. Reported(s)' = reply[s]
    BY <1>2 DEF Reported
  <2> QED
    BY <1>0, <1>2, <2>1, <2>2, <2>4, <2>5 DEF AwaitedOK
<1>7. faults' \in 0 .. MaxFaults
  BY <1>0 DEF SystemInv, TypeOK
<1> QED
  BY <1>0, <1>2, <1>3, <1>4, <1>5, <1>6, <1>7, CarryKeeps DEF Rpcs

LEMMA CarrySystem ==
    ASSUME SystemInv, NEW s \in Slots, Carry(s) PROVE SystemInv'
<1>0. UNCHANGED faults => faults' \in 0 .. MaxFaults
  BY DEF SystemInv, TypeOK
<1>1. CASE Bounce(s)
  BY <1>0, <1>1, CarryToRest DEF Bounce
<1>2. CASE Vanish(s)
  BY <1>2, CarryToRest, FaultTypes DEF Vanish, SystemInv
<1>3. CASE Drop(s)
  BY <1>0, <1>3, CarryToRest DEF Drop
<1> QED
  BY <1>1, <1>2, <1>3, DeliverKeeps, ServeKeeps, RespondKeeps DEF Carry

\* The provider starts, stops and is started again.
LEMMA ProvideSystem == ASSUME SystemInv, Provide PROVE SystemInv'
<1>1. /\ UNCHANGED <<issued, call, request, reply, rpc, faults>> /\ live' \subseteq live
      /\ CallersWait
  BY DEF Provide, Provider!Start, Provider!Stop, Provider!Dismiss, Provider!Stopped
<1>2. ProviderOK'
  BY <1>1 DEF SystemInv, ProviderOK
<1>3. TypeOK' /\ CallersOK' /\ EndReported' /\ AnswersCurrent'
  BY <1>1, <1>2, WaitersKeep DEF SystemInv, TypeOK
<1>4. ASSUME NEW s \in Slots PROVE RpcOK(s)' /\ AwaitedOK(s)'
  <2>1. RpcOK(s) /\ AwaitedOK(s)
    BY DEF SystemInv
  <2>2. RpcOK(s)'
    BY <1>1, <2>1 DEF RpcOK, Asks
  <2>3. ASSUME rpc[s].from # Nobody PROVE AwaitedOK(s)'
    <3>1. rpc[s].from \in Callers /\ asked' = asked
      BY <1>1, <2>3 DEF SystemInv, TypeOK, CallersWait
    <3>2. Answered(s)' = Answered(s) /\ Reported(s)' = Reported(s) /\ Asks(s)' = Asks(s)
      BY <1>1 DEF Answered, Reported, Asks
    <3>3. Answered(s) => Truthful(asked'[rpc[s].from], Reported(s), stayed'[rpc[s].from], live')
      BY <1>1, <1>2, <2>1, <2>3, <3>1, TruthKept DEF AwaitedOK
    <3> QED
      BY <1>1, <2>1, <2>3, <3>1, <3>2, <3>3 DEF AwaitedOK
  <2> QED
    BY <1>1, <2>2, <2>3 DEF AwaitedOK
<1>5. OneRpcEach'
  BY <1>1 DEF SystemInv, OneRpcEach
<1> QED
  BY <1>2, <1>3, <1>4, <1>5 DEF SystemInv

-----------------------------------------------------------------------------
(* Steps of the callers keep the invariant. *)

\* A call that returns what is true leaves no RPC that its caller waits for.
LEMMA ReturnKeeps ==
    ASSUME SystemInv, TypeOK', NEW c \in Callers, NEW r, NEW ret, NEW ids,
           \E left \in Int : Returns(c, r, ret, ids, left),
           r.op \in EndOps => r.id \in issued \cup {NilId},
           Truthful(r, [ret |-> ret, ids |-> ids], stayed[c], live),
           \A s \in Slots :
              \/ rpc'[s] = rpc[s] /\ rpc[s].from # c
              \/ rpc'[s] = FreeSlot /\ rpc[s].leg \in {"replied", "refused"}
              \/ rpc'[s] = [rpc[s] EXCEPT !.from = Nobody]
    PROVE  SystemInv'
<1>0. PICK left \in Int : Returns(c, r, ret, ids, left)
  OBVIOUS
<1>1. /\ UNCHANGED <<phase, issued, live, call, request, reply>>
      /\ \A d \in Callers \ {c} : asked'[d] = asked[d] /\ stayed'[d] = stayed[d]
      /\ asked'[c] = NoCall /\ stayed'[c] = {}
  BY <1>0 DEF Returns, provider, SystemInv, TypeOK
<1>2. ProviderOK'
  BY <1>1 DEF SystemInv, ProviderOK
<1>3. rpc \in [Slots -> Rpcs]
  BY DEF SystemInv, TypeOK, Rpcs
<1>4. ASSUME NEW s \in Slots PROVE RpcOK(s)' /\ AwaitedOK(s)'
  <2>1. RpcOK(s) /\ AwaitedOK(s)
    BY DEF SystemInv
  <2>2. CASE rpc'[s] = rpc[s] /\ rpc[s].from # c
    <3>1. RpcOK(s)'
      BY <1>1, <2>1, <2>2 DEF RpcOK, Asks
    <3>2. rpc[s].from # Nobody => rpc[s].from \in Callers \ {c}
      BY <1>3, <2>2 DEF Rpcs
    <3>3. AwaitedOK(s)'
      BY <1>1, <2>1, <2>2, <3>2 DEF AwaitedOK, Answered, Reported, Asks
    <3> QED
      BY <3>1, <3>3
  <2>3. CASE rpc'[s] = FreeSlot /\ rpc[s].leg \in {"replied", "refused"}
    BY <1>1, <2>1, <2>3 DEF RpcOK, AwaitedOK, FreeSlot
  <2>4. CASE rpc'[s] = [rpc[s] EXCEPT !.from = Nobody]
    <3>1. /\ rpc'[s].from = Nobody /\ rpc'[s].leg = rpc[s].leg
          /\ rpc'[s].body = rpc[s].body
      BY <1>3, <2>4 DEF Rpcs
    <3> QED
      BY <1>1, <2>1, <3>1 DEF RpcOK, AwaitedOK, Asks
  <2> QED
    BY <2>2, <2>3, <2>4
<1>5. OneRpcEach'
  <2>1. ASSUME NEW s \in Slots PROVE rpc'[s].from \in {rpc[s].from, Nobody}
    <3>1. CASE rpc'[s] = [rpc[s] EXCEPT !.from = Nobody]
      BY <1>3, <3>1 DEF Rpcs
    <3>2. CASE rpc'[s] = FreeSlot \/ rpc'[s] = rpc[s]
      BY <3>2 DEF FreeSlot
    <3> QED
      BY <3>1, <3>2
  <2> QED
    BY <2>1 DEF SystemInv, OneRpcEach
<1>6. CallersOK'
  <2>1. \A d \in Callers : asked'[d].op \in IdOps => asked'[d].id \in issued \cup {NilId}
    BY <1>1 DEF SystemInv, CallersOK, NoCall, IdOps, EndOps, UseOps
  <2>2. \A d \in Callers : stayed'[d] \subseteq live
    BY <1>1 DEF SystemInv, CallersOK
  <2>3. gone' \in SUBSET (issued \cup {NilId})
    BY <1>0 DEF Returns, SystemInv, CallersOK
  <2> QED
    BY <1>1, <2>1, <2>2, <2>3 DEF CallersOK
<1>7. EndReported'
  BY <1>0, <1>1 DEF Returns, Truthful, SystemInv, EndReported
<1>8. AnswersCurrent'
  <2>1. answer' = [to |-> r, ret |-> ret, ids |-> ids, left |-> left,
                   stayed |-> stayed[c]]
    BY <1>0 DEF Returns
  <2>2. /\ answer'.to = r /\ answer'.ret = ret /\ answer'.ids = ids
        /\ answer'.stayed = stayed[c]
    BY <2>1
  <2> QED
    BY <2>2 DEF Truthful, AnswersCurrent
<1> QED
  BY <1>2, <1>4, <1>5, <1>6, <1>7, <1>8 DEF SystemInv

\* An error of the transport says nothing about collectors.
LEMMA FailureTruthful ==
    \A r, kept : Truthful(r, [ret |-> "SOMA_ERR_FROM_MERCURY", ids |-> {}], kept, live)
BY DEF Truthful, NotCarriedOut

\* A caller that makes no call awaits no RPC, and one that says hello awaits none.
LEMMA NobodyWaits ==
    ASSUME SystemInv, NEW c \in Callers, asked[c] = NoCall \/ asked[c].op = "hello",
           NEW s \in Slots
    PROVE  rpc[s].from # c
<1>1. SUFFICES ASSUME rpc[s].from = c PROVE FALSE
  OBVIOUS
<1>2. asked[c] \in Calls /\ asked[c].op # "hello"
  BY <1>1, SystemAssumption DEF SystemInv, AwaitedOK
<1> QED
  BY <1>2, CallOps

\* An RPC that is awaited by c is the only one, and carries a call.
LEMMA OneAwaited ==
    ASSUME SystemInv, NEW c \in Callers, NEW s \in Slots, rpc[s].from = c
    PROVE  /\ \A t \in Slots \ {s} : rpc[t].from # c
           /\ asked[c] \in Calls
BY SystemAssumption DEF SystemInv, OneRpcEach, AwaitedOK

\* A call that is given up leaves its RPC, if it has one, to nobody.
LEMMA GivesUp ==
    ASSUME SystemInv, NEW c \in Callers, Call(c), NEW frees \in BOOLEAN, asked[c].op \in Ops,
           ForwardFails(c, frees) \/ NoProvider(c, frees) \/ NoOutput(c, frees)
    PROVE  SystemInv'
<1>0. rpc \in [Slots -> Rpcs] /\ TypeOK'
  BY CallTypes DEF SystemInv, TypeOK, Rpcs
<1>1. /\ CleansUp(refs[c], frees) \in Int
      /\ Returns(c, asked[c], "SOMA_ERR_FROM_MERCURY", {}, CleansUp(refs[c], frees))
  BY RefTypes DEF SystemInv, ForwardFails, NoProvider, NoOutput
<1>2. asked[c].op \in EndOps => asked[c].id \in issued \cup {NilId}
  BY DEF SystemInv, CallersOK, IdOps
<1>3. \A t \in Slots :
         \/ rpc'[t] = rpc[t] /\ rpc[t].from # c
         \/ rpc'[t] = FreeSlot /\ rpc[t].leg \in {"replied", "refused"}
         \/ rpc'[t] = [rpc[t] EXCEPT !.from = Nobody]
  <2>1. CASE ForwardFails(c, frees)
    BY <2>1 DEF ForwardFails
  <2>2. CASE NoProvider(c, frees) \/ NoOutput(c, frees)
    <3>1. PICK s \in Slots : /\ rpc[s].from = c /\ rpc[s].leg \in {"replied", "refused"}
                             /\ rpc' = [rpc EXCEPT ![s] = FreeSlot]
      BY <2>2 DEF NoProvider, NoOutput, AwaitedBy
    <3>2. \A t \in Slots \ {s} : rpc'[t] = rpc[t] /\ rpc[t].from # c
      BY <3>1, OneAwaited
    <3> QED
      BY <1>0, <3>1, <3>2
  <2> QED
    BY <2>1, <2>2
<1>4. \E left \in Int : Returns(c, asked[c], "SOMA_ERR_FROM_MERCURY", {}, left)
  BY <1>1
<1> QED
  BY <1>0, <1>2, <1>3, <1>4, FailureTruthful, ReturnKeeps

\* The reply to a call is true when it is copied.
LEMMA OutputKeeps ==
    ASSUME SystemInv, NEW c \in Callers, Call(c), Output(c) PROVE SystemInv'
<1>0. rpc \in [Slots -> Rpcs] /\ TypeOK'
  BY CallTypes DEF SystemInv, TypeOK, Rpcs
<1>1. PICK s \in Slots :
         /\ rpc[s].from = c /\ rpc[s].leg = "replied"
         /\ rpc' = [rpc EXCEPT ![s] = FreeSlot]
         /\ Returns(c, asked[c], rpc[s].body.ret, rpc[s].body.ids, OutputFreed(refs[c]))
  BY DEF Output, AwaitedBy
<1>2. \E left \in Int : Returns(c, asked[c], rpc[s].body.ret, rpc[s].body.ids, left)
  BY <1>1, RefTypes DEF SystemInv
<1>3. Truthful(asked[c], rpc[s].body, stayed[c], live)
  BY <1>1, SystemAssumption DEF SystemInv, AwaitedOK, Answered, Reported
<1>4. Truthful(asked[c], [ret |-> rpc[s].body.ret, ids |-> rpc[s].body.ids],
               stayed[c], live)
  BY <1>3 DEF Truthful
<1>5. asked[c].op \in EndOps => asked[c].id \in issued \cup {NilId}
  BY DEF SystemInv, CallersOK, IdOps
<1>6. \A t \in Slots \ {s} : rpc'[t] = rpc[t] /\ rpc[t].from # c
  BY <1>1, OneAwaited
<1> QED
  BY <1>0, <1>1, <1>2, <1>4, <1>5, <1>6, ReturnKeeps

LEMMA HelloKeeps ==
    ASSUME SystemInv, NEW c \in Callers, Call(c), asked[c].op = "hello", HelloLeft(c)
    PROVE  SystemInv'
<1>1. TypeOK'
  BY CallTypes DEF SystemInv
<1>2. \E left \in Int : Returns(c, asked[c], "SOMA_SUCCESS", {}, left)
  BY RefTypes DEF HelloLeft, SystemInv
<1>3. \A s \in Slots : rpc'[s] = rpc[s] /\ rpc[s].from # c
  BY NobodyWaits DEF HelloLeft
<1>4. Truthful(asked[c], [ret |-> "SOMA_SUCCESS", ids |-> {}], stayed[c], live)
      /\ asked[c].op \notin EndOps
  BY DEF Truthful, EndOps, UseOps
<1> QED
  BY <1>1, <1>2, <1>3, <1>4, ReturnKeeps

LEMMA NoHandleKeeps ==
    ASSUME SystemInv, NEW c \in Callers, Call(c), NEW r \in Request, NoHandle(c, r)
    PROVE  SystemInv'
<1>1. TypeOK'
  BY CallTypes DEF SystemInv
<1>2. \E left \in Int : Returns(c, r, "SOMA_ERR_FROM_MERCURY", {}, left)
  BY RefTypes DEF NoHandle, SystemInv
<1>3. \A s \in Slots : rpc'[s] = rpc[s] /\ rpc[s].from # c
  BY NobodyWaits DEF NoHandle
<1>4. r.op \in EndOps => r.id \in issued \cup {NilId}
  BY DEF Request, Requests, create_collector_in_t, close_collector_in_t,
         list_collectors_in_t, sum_in_t, CreateOps, EndOps, UseOps
<1> QED
  BY <1>1, <1>2, <1>3, <1>4, FailureTruthful, ReturnKeeps

LEMMA ForwardKeeps ==
    ASSUME SystemInv, NEW c \in Callers, Call(c), NEW r \in Request, Forward(c, r)
    PROVE  SystemInv'
<1>0. TypeOK' /\ rpc \in [Slots -> Rpcs] /\ r \in Calls
  BY CallTypes, RequestsAreCalls DEF SystemInv, TypeOK, Rpcs
<1>1. PICK s \in Slots :
         /\ rpc[s].leg = "free"
         /\ rpc' = [rpc EXCEPT ![s] = [leg |-> "sent", body |-> r,
                       from |-> IF r.op \in Unanswered THEN Nobody ELSE c]]
  BY DEF Forward
<1>2. /\ UNCHANGED <<phase, issued, live, call, request, reply, known, gone>>
      /\ asked[c] = NoCall /\ asked'[c] = r /\ stayed'[c] \subseteq live
      /\ \A d \in Callers \ {c} : asked'[d] = asked[d] /\ stayed'[d] = stayed[d]
      /\ answer' = NoAnswer
  BY DEF Forward, provider, history, SystemInv, TypeOK
<1>3. r.op \in IdOps => r.id \in issued \cup {NilId}
  BY DEF Request, Requests, create_collector_in_t, close_collector_in_t,
         list_collectors_in_t, sum_in_t, CreateOps, IdOps, EndOps, UseOps
<1>4. /\ rpc'[s].leg = "sent" /\ rpc'[s].body = r
      /\ rpc'[s].from = IF r.op \in Unanswered THEN Nobody ELSE c
      /\ \A t \in Slots \ {s} : rpc'[t] = rpc[t] /\ rpc[t].from # c
  BY <1>0, <1>1, <1>2, NobodyWaits
<1>5. ProviderOK'
  BY <1>2 DEF SystemInv, ProviderOK
<1>6. RpcOK(s)' /\ AwaitedOK(s)'
  <2>1. call[s] = "idle"
    BY <1>1 DEF SystemInv, RpcOK
  <2>2. RpcOK(s)'
    BY <1>0, <1>2, <1>3, <1>4, <2>1 DEF RpcOK, Asks
  <2>3. AwaitedOK(s)'
    BY <1>0, <1>2, <1>4, <2>1 DEF AwaitedOK, Asks, Answered, Unanswered
  <2> QED
    BY <2>2, <2>3
<1>7. ASSUME NEW t \in Slots \ {s} PROVE RpcOK(t)' /\ AwaitedOK(t)'
  <2>1. RpcOK(t) /\ AwaitedOK(t)
    BY DEF SystemInv
  <2>2. rpc[t].from # Nobody => rpc[t].from \in Callers \ {c}
    BY <1>0, <1>4 DEF Rpcs
  <2>3. RpcOK(t)'
    BY <1>2, <1>4, <2>1 DEF RpcOK, Asks
  <2>4. AwaitedOK(t)'
    BY <1>2, <1>4, <2>1, <2>2 DEF AwaitedOK, Answered, Reported, Asks
  <2> QED
    BY <2>3, <2>4
<1>8. OneRpcEach'
  BY <1>4 DEF SystemInv, OneRpcEach
<1>9. CallersOK'
  BY <1>2, <1>3 DEF SystemInv, CallersOK
<1>10. EndReported' /\ AnswersCurrent'
  BY <1>2 DEF SystemInv, EndReported, AnswersCurrent, NoAnswer, NoCall, UseOps
<1> QED
  BY <1>0, <1>5, <1>6, <1>7, <1>8, <1>9, <1>10 DEF SystemInv

LEMMA CallSystem == ASSUME SystemInv, NEW c \in Callers, Call(c) PROVE SystemInv'
<1>1. ASSUME NEW r \in Request, NoHandle(c, r) \/ Forward(c, r) PROVE SystemInv'
  BY <1>1, NoHandleKeeps, ForwardKeeps
<1>2. ASSUME asked[c].op \in Ops, NEW frees \in BOOLEAN,
             ForwardFails(c, frees) \/ NoProvider(c, frees) \/ NoOutput(c, frees)
      PROVE  SystemInv'
  BY <1>2, GivesUp
<1>3. CASE Output(c)
  BY <1>3, OutputKeeps
<1>4. CASE asked[c].op = "hello" /\ HelloLeft(c)
  BY <1>4, HelloKeeps
<1> QED
  BY <1>1, <1>2, <1>3, <1>4, CallCases DEF CallStep

-----------------------------------------------------------------------------
(* The invariant of the specification. *)

LEMMA SystemInit == Init => SystemInv
<1>. SUFFICES ASSUME Init PROVE SystemInv
  OBVIOUS
<1>1. TypeOK
  BY SystemAssumption DEF Init, TypeOK, FreeSlot, Nothing, Replies
<1>2. ProviderOK
  BY DEF Init, Provider!Init, ProviderOK, Provider!NoReply, Replies
<1>3. \A s \in Slots : rpc[s] = FreeSlot /\ call[s] = "idle"
  BY DEF Init, Provider!Init
<1>4. \A s \in Slots : RpcOK(s) /\ AwaitedOK(s)
  BY <1>3 DEF RpcOK, AwaitedOK, FreeSlot
<1>5. OneRpcEach
  BY <1>3 DEF OneRpcEach, FreeSlot
<1>6. CallersOK
  BY DEF Init, CallersOK, NoCall, IdOps, EndOps, UseOps
<1>7. EndReported /\ AnswersCurrent
  BY DEF Init, EndReported, AnswersCurrent, NoAnswer, NoCall, UseOps
<1> QED
  BY <1>1, <1>2, <1>4, <1>5, <1>6, <1>7 DEF SystemInv

LEMMA SystemStutter == SystemInv /\ UNCHANGED vars => SystemInv'
<1>. SUFFICES ASSUME SystemInv, UNCHANGED vars PROVE SystemInv'
  OBVIOUS
<1>1. UNCHANGED <<phase, issued, live, call, request, reply, rpc, asked, refs,
                  stayed, answer, known, gone, faults>>
  BY DEF vars, provider, history
<1> QED
  BY <1>1 DEF SystemInv, TypeOK, ProviderOK, RpcOK, AwaitedOK, Asks, Answered,
              Reported, OneRpcEach, CallersOK, EndReported, AnswersCurrent

LEMMA SystemNext == SystemInv /\ [Next]_vars => SystemInv'
BY CallSystem, CarrySystem, ProvideSystem, SystemStutter DEF Next

LEMMA SystemInvariant == Spec => []SystemInv
BY SystemInit, SystemNext, PTL DEF Spec

\* Every variable of the composed system has its type, whatever the number of
\* callers, of RPCs in flight, of collectors and of faults.
THEOREM SystemTypeCorrect == Spec => []TypeOK
<1>1. SystemInv => TypeOK
  BY DEF SystemInv
<1> QED
  BY <1>1, SystemInvariant, PTL

\* A collector whose close or destroy returned anything but a failure to carry it
\* out does not exist, then or later.
THEOREM EndsAreFinal == Spec => []EndReported
<1>1. SystemInv => EndReported
  BY DEF SystemInv
<1> QED
  BY <1>1, SystemInvariant, PTL

\* What uses and lists return was true of the provider at some moment of the call.
THEOREM AnswersAreCurrent == Spec => []AnswersCurrent
<1>1. SystemInv => AnswersCurrent
  BY DEF SystemInv
<1> QED
  BY <1>1, SystemInvariant, PTL

-----------------------------------------------------------------------------
(* Every fault costs at most one collector. *)

\* A subset has no more elements.
LEMMA NoMore ==
    ASSUME NEW A, NEW B, IsFiniteSet(A), B \subseteq A
    PROVE  Cardinality(A) \in Nat /\ Cardinality(B) \in Nat
           /\ Cardinality(B) <= Cardinality(A)
BY FS_Subset, FS_CardinalityType

\* One element more.
LEMMA OneMore ==
    ASSUME NEW A, NEW B, NEW x, IsFiniteSet(A), B \subseteq A \cup {x}
    PROVE  Cardinality(A) \in Nat /\ Cardinality(B) \in Nat
           /\ Cardinality(B) <= Cardinality(A) + 1
<1>1. /\ IsFiniteSet(A \cup {x}) /\ Cardinality(A) \in Nat
      /\ Cardinality(A \cup {x}) \in {Cardinality(A), Cardinality(A) + 1}
  BY FS_AddElement, FS_CardinalityType
<1>2. Cardinality(B) \in Nat /\ Cardinality(B) <= Cardinality(A \cup {x})
  BY <1>1, NoMore
<1> QED
  BY <1>1, <1>2

\* One element less.
LEMMA OneLess ==
    ASSUME NEW A, NEW B, NEW x \in A, IsFiniteSet(A), B \subseteq A \ {x}
    PROVE  Cardinality(A) \in Nat /\ Cardinality(B) \in Nat
           /\ Cardinality(B) <= Cardinality(A) - 1
<1>1. /\ IsFiniteSet(A \ {x}) /\ Cardinality(A) \in Nat
      /\ Cardinality(A \ {x}) = Cardinality(A) - 1
  BY FS_RemoveElement, FS_CardinalityType
<1>2. Cardinality(B) \in Nat /\ Cardinality(B) <= Cardinality(A \ {x})
  BY <1>1, NoMore
<1> QED
  BY <1>1, <1>2

\* The account of a step: what is lost or let loose is paid for with a fault, or
\* with a create that is no longer at large.
Account ==
    \/ Lost' \subseteq Lost /\ Loose' \subseteq Loose /\ faults' \in {faults, faults + 1}
    \/ /\ faults' = faults + 1 /\ Loose' \subseteq Loose
       /\ \E id : Lost' \subseteq Lost \cup {id}
    \/ /\ faults' = faults + 1 /\ Lost' \subseteq Lost
       /\ \E s : Loose' \subseteq Loose \cup {s}
    \/ /\ faults' = faults
       /\ \E id : Lost' \subseteq Lost \cup {id}
       /\ \E s \in Loose : Loose' \subseteq Loose \ {s}

\* Accounts that balance in a step keep the orphans paid for by faults.
LEMMA AccountPays ==
    ASSUME SystemInv, FaultsPaid, Account PROVE FaultsPaid'
<1>1. IsFiniteSet(Lost) /\ IsFiniteSet(Loose)
  <2>1. Lost \subseteq Ids /\ Loose \subseteq Slots
    BY DEF Lost, Loose, SystemInv, ProviderOK
  <2> QED
    BY <2>1, FS_Subset, SystemAssumption
<1>2. faults \in Nat /\ Cardinality(Lost) + Cardinality(Loose) <= faults
  BY SystemAssumption DEF SystemInv, TypeOK, FaultsPaid
<1>. SUFFICES Cardinality(Lost') + Cardinality(Loose') <= faults'
  BY DEF FaultsPaid
<1>3. CASE Lost' \subseteq Lost /\ Loose' \subseteq Loose /\ faults' \in {faults, faults + 1}
  <2>1. /\ Cardinality(Lost) \in Nat /\ Cardinality(Lost') \in Nat
        /\ Cardinality(Lost') <= Cardinality(Lost)
    BY <1>1, <1>3, NoMore
  <2>2. /\ Cardinality(Loose) \in Nat /\ Cardinality(Loose') \in Nat
        /\ Cardinality(Loose') <= Cardinality(Loose)
    BY <1>1, <1>3, NoMore
  <2> QED
    BY <1>2, <1>3, <2>1, <2>2
<1>4. ASSUME faults' = faults + 1, Loose' \subseteq Loose,
             NEW id, Lost' \subseteq Lost \cup {id}
      PROVE  Cardinality(Lost') + Cardinality(Loose') <= faults'
  <2>1. /\ Cardinality(Lost) \in Nat /\ Cardinality(Lost') \in Nat
        /\ Cardinality(Lost') <= Cardinality(Lost) + 1
    BY <1>1, <1>4, OneMore
  <2>2. /\ Cardinality(Loose) \in Nat /\ Cardinality(Loose') \in Nat
        /\ Cardinality(Loose') <= Cardinality(Loose)
    BY <1>1, <1>4, NoMore
  <2> QED
    BY <1>2, <1>4, <2>1, <2>2
<1>5. ASSUME faults' = faults + 1, Lost' \subseteq Lost,
             NEW s, Loose' \subseteq Loose \cup {s}
      PROVE  Cardinality(Lost') + Cardinality(Loose') <= faults'
  <2>1. /\ Cardinality(Lost) \in Nat /\ Cardinality(Lost') \in Nat
        /\ Cardinality(Lost') <= Cardinality(Lost)
    BY <1>1, <1>5, NoMore
  <2>2. /\ Cardinality(Loose) \in Nat /\ Cardinality(Loose') \in Nat
        /\ Cardinality(Loose') <= Cardinality(Loose) + 1
    BY <1>1, <1>5, OneMore
  <2> QED
    BY <1>2, <1>5, <2>1, <2>2
<1>6. ASSUME faults' = faults, NEW id, Lost' \subseteq Lost \cup {id},
             NEW s \in Loose, Loose' \subseteq Loose \ {s}
      PROVE  Cardinality(Lost') + Cardinality(Loose') <= faults'
  <2>1. /\ Cardinality(Lost) \in Nat /\ Cardinality(Lost') \in Nat
        /\ Cardinality(Lost') <= Cardinality(Lost) + 1
    BY <1>1, <1>6, OneMore
  <2>2. /\ Cardinality(Loose) \in Nat /\ Cardinality(Loose') \in Nat
        /\ Cardinality(Loose') <= Cardinality(Loose) - 1
    BY <1>1, <1>6, OneLess
  <2> QED
    BY <1>2, <1>6, <2>1, <2>2
<1> QED
  BY <1>3, <1>4, <1>5, <1>6 DEF Account

\* The collectors nobody has been or is about to be told of are lost.
LEMMA OrphansLost == Orphans \subseteq Lost
<1>1. \A s \in Slots : CreateReply(s) =>
         rpc[s].from # Nobody /\ Reported(s).ids \subseteq InReply(s)
  BY DEF CreateReply, Reported, InReply
<1> QED
  BY <1>1 DEF Orphans, Lost

\* A step of RPC s changes what is known of no other.
LEMMA CarryOthers ==
    ASSUME CallersWait, NEW s \in Slots, NEW t \in Slots \ {s},
           rpc'[t] = rpc[t], call'[t] = call[t], request'[t] = request[t],
           reply'[t] = reply[t]
    PROVE  /\ CreateReply(t)' = CreateReply(t) /\ Reported(t)' = Reported(t)
           /\ t \in Loose' <=> t \in Loose
BY DEF CallersWait, CreateReply, Reported, Answered, Loose, Asks

\* If RPC s is not an awaited create that has been answered, before or after a
\* step of it that makes no collector, nothing is lost.
LEMMA CarryLosesNothing ==
    ASSUME SystemInv, OneIdCreated, CallersWait, NEW s \in Slots,
           \A t \in Slots \ {s} :
               /\ rpc'[t] = rpc[t] /\ call'[t] = call[t]
               /\ request'[t] = request[t] /\ reply'[t] = reply[t],
           live' \subseteq live, ~CreateReply(s), ~CreateReply(s)',
           s \in Loose' => s \in Loose
    PROVE  OneIdCreated' /\ Lost' \subseteq Lost /\ Loose' \subseteq Loose
<1>1. \A t \in Slots \ {s} :
         /\ CreateReply(t)' = CreateReply(t) /\ Reported(t)' = Reported(t)
         /\ t \in Loose' <=> t \in Loose
  BY CarryOthers
<1>2. OneIdCreated'
  BY <1>1 DEF OneIdCreated
<1>3. Lost' \subseteq Lost
  BY <1>1 DEF Lost, CallersWait, history
<1>4. Loose' \subseteq Slots
  BY DEF Loose
<1> QED
  BY <1>1, <1>2, <1>3, <1>4

\* Requests and replies under way take nothing with them.
LEMMA MovesAccounted ==
    ASSUME SystemInv, OneIdCreated, NEW s \in Slots,
           Deliver(s) \/ Bounce(s) \/ Vanish(s) \/ Drop(s)
    PROVE  OneIdCreated' /\ Account
<1>0. /\ rpc \in [Slots -> Rpcs] /\ RpcOK(s) /\ ProviderOK /\ CallersWait
      /\ UNCHANGED <<phase, issued, live, reply>>
      /\ faults \in Int /\ faults' \in {faults, faults + 1}
  BY DEF SystemInv, TypeOK, Rpcs, Deliver, Bounce, Vanish, Drop, provider,
         Provider!Ask, Provider!registry, Fault
<1>1. CASE Deliver(s)
  <2>1. /\ call' = [call EXCEPT ![s] = "pending"]
        /\ request' = [request EXCEPT ![s] = rpc[s].body]
        /\ rpc[s].leg = "sent" /\ rpc'[s].leg = "served" /\ rpc'[s].from = rpc[s].from
    BY <1>0, <1>1 DEF Deliver, Provider!Ask, Rpcs
  <2>2. \A t \in Slots \ {s} :
           /\ rpc'[t] = rpc[t] /\ call'[t] = call[t]
           /\ request'[t] = request[t] /\ reply'[t] = reply[t]
    BY <1>0, <1>1, <2>1 DEF ProviderOK, Deliver
  <2>3. call'[s] = "pending" /\ request'[s] = rpc[s].body /\ call[s] = "idle"
    BY <1>0, <2>1 DEF ProviderOK, RpcOK
  <2>4. ~CreateReply(s) /\ ~CreateReply(s)' /\ (s \in Loose' => s \in Loose)
    BY <1>0, <2>1, <2>3 DEF CreateReply, Answered, Loose, Asks
  <2> QED
    BY <1>0, <2>2, <2>4, CarryLosesNothing DEF Account
<1>2. CASE Bounce(s) \/ Vanish(s) \/ Drop(s)
  <2>1. /\ UNCHANGED <<call, request, reply>>
        /\ rpc'[s].leg \in {"free", "refused"} /\ call[s] = "idle"
        /\ rpc[s].leg = "sent" \/ rpc[s].from = Nobody
        /\ \A t \in Slots \ {s} : rpc'[t] = rpc[t]
    BY <1>0, <1>2 DEF Bounce, Vanish, Drop, provider, RpcOK, Rpcs, FreeSlot
  <2>2. ~CreateReply(s) /\ ~CreateReply(s)' /\ (s \in Loose' => s \in Loose)
    BY <2>1 DEF CreateReply, Answered, Loose
  <2> QED
    BY <1>0, <2>1, <2>2, CarryLosesNothing DEF Account
<1> QED
  BY <1>1, <1>2

\* The reply on its way says what the handler answered.
LEMMA RespondAccounted ==
    ASSUME SystemInv, OneIdCreated, NEW s \in Slots, Respond(s)
    PROVE  OneIdCreated' /\ Account
<1>0. /\ rpc \in [Slots -> Rpcs] /\ ProviderOK /\ CallersWait
      /\ rpc[s].leg = "served" /\ call[s] = "done" /\ faults \in Int
      /\ UNCHANGED <<phase, issued, live, faults>> /\ Provider!Forget(s)
  BY DEF SystemInv, TypeOK, Rpcs, Respond, Provider!Return, Provider!registry
<1>1. /\ rpc'[s].leg = "replied" /\ rpc'[s].from = rpc[s].from
      /\ rpc'[s].body = reply[s]
      /\ \A t \in Slots \ {s} : rpc'[t] = rpc[t]
  BY <1>0 DEF Respond, Rpcs
<1>2. \A t \in Slots \ {s} :
         call'[t] = call[t] /\ request'[t] = request[t] /\ reply'[t] = reply[t]
  BY <1>0, ForgetEffect
<1>3. /\ CreateReply(s)' = CreateReply(s) /\ Reported(s)' = Reported(s)
      /\ s \notin Loose'
  BY <1>0, <1>1 DEF CreateReply, Answered, Reported, Loose, CallersWait
<1>4. \A t \in Slots :
         /\ CreateReply(t)' = CreateReply(t) /\ Reported(t)' = Reported(t)
         /\ t \in Loose' => t \in Loose
  BY <1>0, <1>1, <1>2, <1>3, CarryOthers
<1>5. OneIdCreated'
  BY <1>4 DEF OneIdCreated
<1>6. Lost' \subseteq Lost /\ Loose' \subseteq Slots
  BY <1>0, <1>4 DEF Lost, Loose, CallersWait, history
<1> QED
  BY <1>0, <1>4, <1>5, <1>6 DEF Account

\* A collector that is made is in the reply to a create that is awaited, or the
\* create was at large.
LEMMA ServeAccounted ==
    ASSUME SystemInv, OneIdCreated, NEW s \in Slots, Serve(s)
    PROVE  OneIdCreated' /\ Account
<1>0. /\ rpc \in [Slots -> Rpcs] /\ RpcOK(s) /\ AwaitedOK(s) /\ ProviderOK /\ CallersWait
      /\ rpc[s].leg = "served" /\ request[s] \in Calls
      /\ faults \in Int /\ faults' = faults
  BY DEF SystemInv, TypeOK, Rpcs, Serve, RpcOK
<1>1. Served(s) /\ call[s] = "pending"
  BY <1>0, ServeEffect DEF Serve, Served
<1>2. \A t \in Slots \ {s} :
         /\ rpc'[t] = rpc[t] /\ call'[t] = call[t]
         /\ request'[t] = request[t] /\ reply'[t] = reply[t]
  BY <1>0, <1>1 DEF Served, Serve
<1>3. ~CreateReply(s) /\ s \notin Loose'
  <2>1. ~CreateReply(s)
    BY <1>0, <1>1 DEF CreateReply, Answered
  <2>2. call'[s] # "pending"
    BY <1>1 DEF Served
  <2>3. rpc'[s].leg # "sent"
    BY <1>0 DEF Serve, FreeSlot
  <2> QED
    BY <2>1, <2>2, <2>3 DEF Loose
<1>4. CASE request[s].op \notin CreateOps
  <2>1. live' \subseteq live
    BY <1>1, <1>4 DEF Served
  <2>2. ~CreateReply(s)'
    <3>1. rpc'[s].from = Nobody \/ rpc' = rpc
      BY <1>0 DEF Serve, FreeSlot
    <3>2. rpc[s].from # Nobody => asked'[rpc[s].from] = request[s]
      BY <1>0 DEF AwaitedOK, Asks, CallersWait
    <3> QED
      BY <1>4, <3>1, <3>2 DEF CreateReply
  <2> QED
    BY <1>0, <1>2, <1>3, <2>1, <2>2, CarryLosesNothing DEF Account
<1>5. CASE request[s].op \in CreateOps
  <2>1. PICK id \in Ids \cup {NilId} :
           reply'[s].ids \subseteq {id} /\ live' \subseteq live \cup reply'[s].ids
    BY <1>1, <1>5 DEF Served
  <2>2. rpc' = rpc /\ call'[s] = "done"
    <3>1. request[s].op # "hello"
      BY <1>5 DEF CreateOps
    <3> QED
      BY <1>1, <3>1 DEF Serve, Served
  <2>3. \A t \in Slots \ {s} :
           /\ CreateReply(t)' = CreateReply(t) /\ Reported(t)' = Reported(t)
           /\ t \in Loose' <=> t \in Loose
    BY <1>0, <1>2, CarryOthers
  <2>4. Reported(s)' = reply'[s]
    BY <1>0, <2>2 DEF Reported
  <2>5. OneIdCreated'
    BY <2>1, <2>3, <2>4 DEF OneIdCreated
  <2>6. Loose' \subseteq Loose \ {s}
    BY <1>3, <2>3 DEF Loose
  <2>7. Lost' \subseteq Lost \cup {id}
    BY <1>0, <1>3, <2>1, <2>3 DEF Lost, CallersWait, history
  <2>8. CASE rpc[s].from = Nobody
    <3>1. s \in Loose
      BY <1>0, <1>1, <1>5, <2>8 DEF Loose, Asks
    <3> QED
      BY <1>0, <2>5, <2>6, <2>7, <3>1 DEF Account
  <2>9. CASE rpc[s].from # Nobody
    <3>1. asked'[rpc[s].from] = request[s]
      BY <1>0, <2>9 DEF AwaitedOK, Asks, CallersWait
    <3>2. CreateReply(s)'
      BY <1>5, <2>2, <2>9, <3>1 DEF CreateReply, Answered
    <3>3. Lost' \subseteq Lost
      BY <1>0, <1>3, <2>1, <2>3, <2>4, <3>2 DEF Lost, CallersWait, history
    <3> QED
      BY <1>0, <2>5, <2>6, <3>3 DEF Account
  <2> QED
    BY <2>8, <2>9
<1> QED
  BY <1>4, <1>5

\* A call that awaits no RPC returns without loss.
LEMMA ReturnsAlone ==
    ASSUME SystemInv, OneIdCreated, NEW c \in Callers, NEW r, NEW ret, NEW ids,
           \E left \in Int : Returns(c, r, ret, ids, left),
           rpc' = rpc, \A s \in Slots : rpc[s].from # c
    PROVE  OneIdCreated' /\ Lost' \subseteq Lost /\ Loose' \subseteq Loose
<1>1. /\ UNCHANGED <<phase, issued, live, call, request, reply>> /\ known \subseteq known'
      /\ \A d \in Callers \ {c} : asked'[d] = asked[d]
      /\ asked'[c] = NoCall
  BY DEF Returns, provider, SystemInv, TypeOK
<1>2. \A s \in Slots : rpc[s].from # Nobody => rpc[s].from \in Callers \ {c}
  BY DEF SystemInv, TypeOK
<1>3. \A s \in Slots : CreateReply(s)' = CreateReply(s) /\ Reported(s)' = Reported(s)
  BY <1>1, <1>2 DEF CreateReply, Answered, Reported
<1>4. OneIdCreated'
  BY <1>3 DEF OneIdCreated
<1>5. Lost' \subseteq Lost
  BY <1>1, <1>3 DEF Lost
<1>6. Loose' \subseteq Loose
  BY <1>1 DEF Loose, Asks
<1> QED
  BY <1>4, <1>5, <1>6

\* A call that leaves an RPC loses the collector that the reply to its create
\* names, unless it takes the id with it; a create that is not answered is at large.
LEMMA ReturnsFrom ==
    ASSUME SystemInv, OneIdCreated, NEW c \in Callers, NEW r, NEW ret, NEW ids,
           \E left \in Int : Returns(c, r, ret, ids, left),
           NEW s \in Slots, rpc[s].from = c, rpc'[s].from = Nobody,
           \A t \in Slots \ {s} : rpc'[t] = rpc[t]
    PROVE  /\ OneIdCreated'
           /\ \E id : Lost' \subseteq Lost \cup {id}
           /\ ~CreateReply(s) \/ Reported(s).ids \subseteq ids => Lost' \subseteq Lost
           /\ Loose' \subseteq Loose \cup {s}
           /\ s \notin Loose' => Loose' \subseteq Loose
<1>1. /\ UNCHANGED <<phase, issued, live, call, request, reply>> /\ known' = known \cup ids
      /\ \A d \in Callers \ {c} : asked'[d] = asked[d]
      /\ asked'[c] = NoCall
  BY DEF Returns, provider, SystemInv, TypeOK
<1>2. \A t \in Slots \ {s} : rpc[t].from # Nobody => rpc[t].from \in Callers \ {c}
  BY OneAwaited DEF SystemInv, TypeOK
<1>3. \A t \in Slots \ {s} :
         CreateReply(t)' = CreateReply(t) /\ Reported(t)' = Reported(t)
  BY <1>1, <1>2 DEF CreateReply, Answered, Reported
<1>4. ~CreateReply(s)'
  BY DEF CreateReply
<1>5. OneIdCreated'
  BY <1>3, <1>4 DEF OneIdCreated
<1>6. \A id \in Lost' :
         id \notin Lost => CreateReply(s) /\ id \in Reported(s).ids /\ id \notin ids
  BY <1>1, <1>3 DEF Lost
<1>7. \E id : Lost' \subseteq Lost \cup {id}
  BY <1>6 DEF OneIdCreated
<1>8. \A t \in Slots \ {s} : t \in Loose' => t \in Loose
  BY <1>1 DEF Loose, Asks
<1>9. Loose' \subseteq Slots
  BY DEF Loose
<1> QED
  BY <1>5, <1>6, <1>7, <1>8, <1>9

\* A forward that fails costs the reply that was under way, or leaves the create
\* at large, but not both.
LEMMA ForwardFailsAccounted ==
    ASSUME SystemInv, OneIdCreated, NEW c \in Callers, NEW frees \in BOOLEAN,
           ForwardFails(c, frees)
    PROVE  OneIdCreated' /\ Account
<1>0. rpc \in [Slots -> Rpcs] /\ faults' = faults + 1
  BY DEF SystemInv, TypeOK, Rpcs, ForwardFails, Fault
<1>1. \E left \in Int : Returns(c, asked[c], "SOMA_ERR_FROM_MERCURY", {}, left)
  <2>1. CleansUp(refs[c], frees) \in Int
    BY RefTypes DEF SystemInv
  <2> QED
    BY <2>1 DEF ForwardFails
<1>2. CASE \A s \in Slots : rpc[s].from # c
  <2>1. rpc' = [s \in Slots |-> rpc[s]]
    BY <1>2 DEF ForwardFails
  <2>2. rpc' = rpc
    BY <1>0, <2>1
  <2> QED
    BY <1>0, <1>1, <1>2, <2>2, ReturnsAlone DEF Account
<1>3. ASSUME NEW s \in Slots, rpc[s].from = c PROVE OneIdCreated' /\ Account
  <2>1. /\ \A t \in Slots \ {s} : rpc'[t] = rpc[t]
        /\ rpc'[s] = [rpc[s] EXCEPT !.from = Nobody]
    BY <1>3, OneAwaited DEF ForwardFails
  <2>2. rpc'[s].from = Nobody /\ rpc'[s].leg = rpc[s].leg
    BY <1>0, <2>1 DEF Rpcs
  <2>3. /\ OneIdCreated'
        /\ \E id : Lost' \subseteq Lost \cup {id}
        /\ ~CreateReply(s) => Lost' \subseteq Lost
        /\ Loose' \subseteq Loose \cup {s}
        /\ s \notin Loose' => Loose' \subseteq Loose
    BY <1>1, <1>3, <2>1, <2>2, ReturnsFrom
  <2>4. Answered(s) => s \notin Loose'
    <3>1. RpcOK(s) /\ call' = call
      BY DEF SystemInv, ForwardFails, Returns, provider
    <3> QED
      BY <2>2, <3>1 DEF RpcOK, Answered, Loose
  <2>5. ~Answered(s) => ~CreateReply(s)
    BY DEF CreateReply
  <2> QED
    BY <1>0, <2>3, <2>4, <2>5 DEF Account
<1> QED
  BY <1>2, <1>3

\* A reply that is decoded takes its caller the id; one that is not costs a
\* fault, except for a list, which creates nothing.
LEMMA RepliesAccounted ==
    ASSUME SystemInv, OneIdCreated, NEW c \in Callers, NEW frees \in BOOLEAN,
           NoProvider(c, frees) \/ NoOutput(c, frees) \/ Output(c)
    PROVE  OneIdCreated' /\ Account
<1>0. faults \in Int /\ \A s \in Slots : RpcOK(s)
  BY DEF SystemInv, TypeOK
<1>1. PICK s \in Slots :
         /\ rpc[s].from = c /\ rpc' = [rpc EXCEPT ![s] = FreeSlot]
         /\ \/ /\ rpc[s].leg = "refused" /\ faults' = faults
               /\ Returns(c, asked[c], "SOMA_ERR_FROM_MERCURY", {}, CleansUp(refs[c], frees))
            \/ /\ rpc[s].leg = "replied"
               /\ \/ faults' = faults + 1
                  \/ asked[c].op = "list" /\ faults' = faults
               /\ Returns(c, asked[c], "SOMA_ERR_FROM_MERCURY", {}, CleansUp(refs[c], frees))
            \/ /\ rpc[s].leg = "replied" /\ faults' = faults
               /\ Returns(c, asked[c], rpc[s].body.ret, rpc[s].body.ids, OutputFreed(refs[c]))
  BY DEF NoProvider, NoOutput, Output, AwaitedBy, Fault, StrayCount
<1>2. /\ rpc'[s].from = Nobody /\ rpc'[s].leg = "free"
      /\ \A t \in Slots \ {s} : rpc'[t] = rpc[t]
  BY <1>1 DEF FreeSlot, SystemInv, TypeOK
<1>3. s \notin Loose'
  BY <1>2 DEF Loose
<1>4. CleansUp(refs[c], frees) \in Int /\ OutputFreed(refs[c]) \in Int
  BY RefTypes DEF SystemInv
<1>5. CASE /\ rpc[s].leg = "refused" /\ faults' = faults
           /\ Returns(c, asked[c], "SOMA_ERR_FROM_MERCURY", {}, CleansUp(refs[c], frees))
  <2>1. ~CreateReply(s)
    BY <1>0, <1>5 DEF CreateReply, Answered, RpcOK
  <2>2. \E left \in Int : Returns(c, asked[c], "SOMA_ERR_FROM_MERCURY", {}, left)
    BY <1>4, <1>5
  <2> QED
    BY <1>0, <1>1, <1>2, <1>3, <1>5, <2>1, <2>2, ReturnsFrom DEF Account
<1>6. CASE /\ rpc[s].leg = "replied"
           /\ \/ faults' = faults + 1
              \/ asked[c].op = "list" /\ faults' = faults
           /\ Returns(c, asked[c], "SOMA_ERR_FROM_MERCURY", {}, CleansUp(refs[c], frees))
  <2>1. \E left \in Int : Returns(c, asked[c], "SOMA_ERR_FROM_MERCURY", {}, left)
    BY <1>4, <1>6
  <2>2. /\ OneIdCreated'
        /\ \E id : Lost' \subseteq Lost \cup {id}
        /\ ~CreateReply(s) => Lost' \subseteq Lost
        /\ Loose' \subseteq Loose
    BY <1>1, <1>2, <1>3, <2>1, ReturnsFrom
  <2>3. asked[c].op = "list" => ~CreateReply(s)
    BY <1>1, OpsDisjoint DEF CreateReply
  <2> QED
    BY <1>0, <1>6, <2>2, <2>3 DEF Account
<1>7. CASE /\ rpc[s].leg = "replied" /\ faults' = faults
           /\ Returns(c, asked[c], rpc[s].body.ret, rpc[s].body.ids, OutputFreed(refs[c]))
  <2>1. PICK ret, ids : /\ ids = rpc[s].body.ids
                        /\ \E left \in Int : Returns(c, asked[c], ret, ids, left)
    BY <1>4, <1>7
  <2>2. Reported(s).ids \subseteq ids
    BY <1>7, <2>1 DEF Reported
  <2>3. /\ OneIdCreated'
        /\ Reported(s).ids \subseteq ids => Lost' \subseteq Lost
        /\ Loose' \subseteq Loose
    <3>1. rpc[s].from = c /\ rpc'[s].from = Nobody /\ \A t \in Slots \ {s} : rpc'[t] = rpc[t]
      BY <1>1, <1>2
    <3>2. \E left \in Int : Returns(c, asked[c], ret, ids, left)
      BY <2>1
    <3>3. /\ OneIdCreated'
          /\ \E id : Lost' \subseteq Lost \cup {id}
          /\ ~CreateReply(s) \/ Reported(s).ids \subseteq ids => Lost' \subseteq Lost
          /\ Loose' \subseteq Loose \cup {s}
          /\ s \notin Loose' => Loose' \subseteq Loose
      BY <3>1, <3>2, ReturnsFrom
    <3> QED
      BY <1>3, <3>3
  <2> QED
    BY <1>0, <1>7, <2>2, <2>3 DEF Account
<1> QED
  BY <1>1, <1>5, <1>6, <1>7

LEMMA ForwardAccounted ==
    ASSUME SystemInv, OneIdCreated, NEW c \in Callers, NEW r \in Request, Forward(c, r)
    PROVE  OneIdCreated' /\ Account
<1>0. /\ rpc \in [Slots -> Rpcs] /\ faults \in Int /\ faults' = faults
      /\ UNCHANGED <<live, call, request, reply, known>>
      /\ asked[c] = NoCall /\ \A d \in Callers \ {c} : asked'[d] = asked[d]
  BY DEF SystemInv, TypeOK, Rpcs, Forward, provider, history
<1>1. PICK s \in Slots :
         /\ rpc[s].leg = "free"
         /\ rpc' = [rpc EXCEPT ![s] = [leg |-> "sent", body |-> r,
                       from |-> IF r.op \in Unanswered THEN Nobody ELSE c]]
  BY DEF Forward
<1>2. /\ rpc'[s].leg = "sent" /\ rpc'[s].body = r
      /\ rpc'[s].from = Nobody => r.op = "hello"
      /\ \A t \in Slots \ {s} : rpc'[t] = rpc[t] /\ rpc[t].from # c
  BY <1>0, <1>1, NobodyWaits, SystemAssumption DEF Unanswered
<1>3. ~CreateReply(s)' /\ s \notin Loose'
  <2>1. call'[s] = "idle"
    BY <1>0, <1>1 DEF SystemInv, RpcOK
  <2> QED
    BY <1>2, <2>1 DEF CreateReply, Answered, Loose, Asks, CreateOps
<1>4. ~CreateReply(s)
  BY <1>1 DEF CreateReply, SystemInv, AwaitedOK
<1>5. \A t \in Slots \ {s} :
         /\ CreateReply(t)' = CreateReply(t) /\ Reported(t)' = Reported(t)
         /\ t \in Loose' <=> t \in Loose
  <2>1. \A t \in Slots : rpc[t].from # Nobody => rpc[t].from \in Callers
    BY <1>0 DEF Rpcs
  <2> QED
    BY <1>0, <1>2, <2>1 DEF CreateReply, Answered, Reported, Loose, Asks
<1>6. OneIdCreated'
  BY <1>3, <1>5 DEF OneIdCreated
<1>7. Lost' \subseteq Lost
  BY <1>0, <1>4, <1>5 DEF Lost
<1>8. Loose' \subseteq Slots
  BY DEF Loose
<1> QED
  BY <1>0, <1>3, <1>5, <1>6, <1>7, <1>8 DEF Account

LEMMA CallAccounted ==
    ASSUME SystemInv, OneIdCreated, NEW c \in Callers, Call(c)
    PROVE  OneIdCreated' /\ Account
<1>0. faults \in Int
  BY DEF SystemInv, TypeOK
<1>1. ASSUME NEW r \in Request, NoHandle(c, r) PROVE OneIdCreated' /\ Account
  <2>1. \E left \in Int : Returns(c, r, "SOMA_ERR_FROM_MERCURY", {}, left)
    BY <1>1, RefTypes DEF NoHandle, SystemInv
  <2>2. faults' = faults + 1 /\ rpc' = rpc /\ \A s \in Slots : rpc[s].from # c
    BY <1>1, NobodyWaits DEF NoHandle, Fault
  <2> QED
    BY <2>1, <2>2, ReturnsAlone DEF Account
<1>2. CASE asked[c].op = "hello" /\ HelloLeft(c)
  <2>1. \E left \in Int : Returns(c, asked[c], "SOMA_SUCCESS", {}, left)
    BY <1>2, RefTypes DEF HelloLeft, SystemInv
  <2>2. faults' = faults /\ rpc' = rpc /\ \A s \in Slots : rpc[s].from # c
    BY <1>2, NobodyWaits DEF HelloLeft
  <2> QED
    BY <1>0, <2>1, <2>2, ReturnsAlone DEF Account
<1>3. Output(c) => OneIdCreated' /\ Account
  BY RepliesAccounted
<1> QED
  BY <1>1, <1>2, <1>3, CallCases, ForwardAccounted, ForwardFailsAccounted,
     RepliesAccounted DEF CallStep

\* Collectors only go when the provider stops.
LEMMA ProvideAccounted ==
    ASSUME SystemInv, OneIdCreated, Provide PROVE OneIdCreated' /\ Account
<1>1. /\ UNCHANGED <<call, request, reply, rpc, faults, asked, known>>
      /\ live' \subseteq live /\ faults \in Int
  BY DEF Provide, Provider!Start, Provider!Stop, Provider!Dismiss, Provider!Stopped,
         CallersWait, history, SystemInv, TypeOK
<1>2. \A s \in Slots : CreateReply(s)' = CreateReply(s) /\ Reported(s)' = Reported(s)
  BY <1>1 DEF CreateReply, Answered, Reported
<1>3. OneIdCreated'
  BY <1>2 DEF OneIdCreated
<1>4. Lost' \subseteq Lost
  BY <1>1, <1>2 DEF Lost
<1>5. Loose' \subseteq Loose
  BY <1>1 DEF Loose, Asks
<1> QED
  BY <1>1, <1>3, <1>4, <1>5 DEF Account

LEMMA OrphanNext == OrphanInv /\ [Next]_vars => OrphanInv'
<1>. SUFFICES ASSUME OrphanInv, [Next]_vars PROVE OrphanInv'
  OBVIOUS
<1>1. SystemInv /\ OneIdCreated /\ FaultsPaid /\ SystemInv'
  BY SystemNext DEF OrphanInv
<1>2. CASE Next
  <2>1. OneIdCreated' /\ Account
    BY <1>1, <1>2, CallAccounted, MovesAccounted, ServeAccounted, RespondAccounted,
       ProvideAccounted DEF Next, Carry
  <2> QED
    BY <1>1, <2>1, AccountPays DEF OrphanInv
<1>3. CASE UNCHANGED vars
  <2>1. UNCHANGED <<live, call, request, reply, rpc, asked, known, faults>>
    BY <1>3 DEF vars, provider, history
  <2>2. OneIdCreated' /\ Lost' = Lost /\ Loose' = Loose
    BY <1>1, <2>1 DEF OneIdCreated, CreateReply, Answered, Reported, Lost, Loose, Asks
  <2> QED
    BY <1>1, <2>1, <2>2 DEF OrphanInv, FaultsPaid
<1> QED
  BY <1>2, <1>3

LEMMA OrphanInit == Init => OrphanInv
<1>. SUFFICES ASSUME Init PROVE OrphanInv
  OBVIOUS
<1>1. Lost = {} /\ Loose = {} /\ OneIdCreated
  BY DEF Init, Provider!Init, FreeSlot, Lost, Loose, OneIdCreated, CreateReply
<1>2. FaultsPaid
  BY <1>1, FS_EmptySet DEF FaultsPaid, Init
<1> QED
  BY <1>1, <1>2, SystemInit DEF OrphanInv

\* Without faults every collector is known to an admin or is about to be; a
\* failed forward, a reply that cannot be decoded and a lost request each cost
\* one at most.
THEOREM OrphansAreOnlyFaults == Spec => []OrphansAreFaults
<1>1. OrphanInv => OrphansAreFaults
  <2>. SUFFICES ASSUME OrphanInv PROVE OrphansAreFaults
    OBVIOUS
  <2>1. IsFiniteSet(Lost) /\ IsFiniteSet(Loose) /\ faults \in Int
    <3>1. Lost \subseteq Ids /\ Loose \subseteq Slots
      BY DEF Lost, Loose, OrphanInv, SystemInv, ProviderOK
    <3> QED
      BY <3>1, FS_Subset, SystemAssumption DEF OrphanInv, SystemInv, TypeOK
  <2>2. /\ Cardinality(Lost) \in Nat /\ Cardinality(Orphans) \in Nat
        /\ Cardinality(Orphans) <= Cardinality(Lost)
    BY <2>1, OrphansLost, NoMore
  <2>3. Cardinality(Loose) \in Nat
    BY <2>1, FS_CardinalityType
  <2> QED
    BY <2>1, <2>2, <2>3 DEF OrphanInv, FaultsPaid, OrphansAreFaults
<1> QED
  BY <1>1, OrphanInit, OrphanNext, PTL DEF Spec

=============================================================================
