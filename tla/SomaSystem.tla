----------------------------- MODULE SomaSystem -----------------------------
(***************************************************************************)
(* The calls of the admin library (admin.c) and of collector handles       *)
(* (client.c) end to end: callers, the RPCs they send, and a provider.     *)
(* The provider is CollectorService, which SomaProvider implements, with   *)
(* one of its callers for every RPC in flight.                             *)
(*                                                                         *)
(* A call creates an RPC handle, blocks in margo_provider_forward and, when *)
(* that returns, does the rest without yielding.  An RPC whose forward     *)
(* fails is abandoned: its request may still be delivered and take effect, *)
(* and its reply finds nobody.  Transports are reliable: a message that a  *)
(* caller waits for is not lost without an error that ends the wait.       *)
(***************************************************************************)
EXTENDS Integers, FiniteSets, SomaCommon

CONSTANTS
    Callers,     \* threads making calls
    Nobody,      \* the sender of an RPC nobody waits for
    Slots,       \* a bound on the RPCs in flight
    MaxFaults,   \* a bound on failed forwards and lost messages
    Workload,    \* the calls the callers make
    Ids, NilId, Types, Tokens, ListSizes, Accepted, BackendRets

ASSUME SystemAssumption ==
    /\ Nobody \notin Callers
    /\ NilId \notin Ids
    /\ IsFiniteSet(Ids) /\ IsFiniteSet(Slots)
    /\ ListSizes \subseteq Nat
    /\ MaxFaults \in Nat
    /\ "SOMA_SUCCESS" \in BackendRets /\ BackendRets \subseteq soma_return_t

VARIABLES
    phase, issued, live, call, request, reply,  \* the provider
    rpc,     \* of each slot: where its RPC is, who waits for it, what it carries
    asked,   \* the call each caller is blocked in
    refs,    \* the references its call holds to its RPC handle
    stayed,  \* the collectors that call is about that existed when it began
             \* and have existed ever since
    answer,  \* the call that returned in the last step, with what it returned
    known,   \* ids given to any caller
    gone,    \* ids of collectors any caller was told are gone
    faults   \* failed forwards and lost messages so far

provider == <<phase, issued, live, call, request, reply>>
history == <<known, gone>>
vars == <<provider, rpc, asked, refs, stayed, answer, history, faults>>

Provider == INSTANCE CollectorService WITH Callers <- Slots

NoCall == [op |-> "none"]
NoAnswer == [to |-> NoCall]
Nothing == [ret |-> "none", ids |-> {}]
FreeSlot == [leg |-> "free", from |-> Nobody, body |-> Nothing]
AwaitedBy(c) == {s \in Slots : rpc[s].from = c}

\* Callers name ids that exist or once existed, or none.
Request == Requests(Tokens, Types, issued \cup {NilId}, ListSizes)

\* The collectors an answer tells something about.
Concerned(r) ==
    IF r.op \in IdOps THEN {r.id} ELSE IF r.op = "list" THEN Ids ELSE {}

Fault == faults < MaxFaults /\ faults' = faults + 1

\* Nothing happens to the callers, but that a collector may cease to exist.
CallersWait ==
    /\ stayed' = [c \in Callers |-> stayed[c] \cap live']
    /\ answer' = NoAnswer
    /\ UNCHANGED <<asked, refs, history>>

-----------------------------------------------------------------------------
(* The calls. *)

\* What a close or destroy returns when its collector is not gone.
NotCarriedOut == {"SOMA_ERR_FROM_MERCURY", "SOMA_ERR_INVALID_TOKEN"}

\* The references to an RPC handle after a call of Margo's on it that held n:
\* the handle keeps one more for an output that was got and not yet freed.
margo_get_output(n) == n + 1
margo_free_output(n) == n - 1
margo_destroy(n) == n - 1

\* What the end of a call makes of its handle: on its error paths, and when the
\* output was decoded.
CleansUp(n, frees) ==
    margo_destroy(IF frees THEN margo_free_output(n) ELSE n)
OutputFreed(n) == CleansUp(margo_get_output(n), TRUE)

\* Call r of caller c returns.  Its handle is left with so many references.
Returns(c, r, ret, ids, left) ==
    /\ answer' = [to |-> r, ret |-> ret, ids |-> ids, left |-> left,
                  stayed |-> stayed[c]]
    /\ asked' = [asked EXCEPT ![c] = NoCall]
    /\ refs' = [refs EXCEPT ![c] = 0]
    /\ stayed' = [stayed EXCEPT ![c] = {}]
    /\ known' = known \cup ids
    /\ gone' = IF r.op \in EndOps /\ ret \notin NotCarriedOut
               THEN gone \cup {r.id} ELSE gone
    /\ UNCHANGED provider

\* margo_create failed.
NoHandle(c, r) ==
    /\ asked[c] = NoCall
    /\ Fault
    /\ Returns(c, r, "SOMA_ERR_FROM_MERCURY", {}, refs[c])
    /\ UNCHANGED rpc

\* Mutant of Unanswered: the response to hello is not disabled.
HelloAnswered == {}

\* The operations whose response the client disables: the forward does not wait.
Unanswered == {"hello"}

\* The handle is created, with a reference, and the request sent.
Forward(c, r) ==
    /\ asked[c] = NoCall
    /\ \E s \in Slots :
          /\ rpc[s].leg = "free"
          /\ rpc' = [rpc EXCEPT ![s] =
                       [leg |-> "sent", body |-> r,
                        from |-> IF r.op \in Unanswered THEN Nobody ELSE c]]
    /\ asked' = [asked EXCEPT ![c] = r]
    /\ refs' = [refs EXCEPT ![c] = 1]
    /\ stayed' = [stayed EXCEPT ![c] = live \cap Concerned(r)]
    /\ answer' = NoAnswer
    /\ UNCHANGED <<provider, history, faults>>

\* Mutant of ForwardFails: the result of the forward is not tested.
ForwardUntested(c, frees) ==
    /\ Fault
    /\ rpc' = [s \in Slots |-> IF rpc[s].from = c
                               THEN [rpc[s] EXCEPT !.from = Nobody] ELSE rpc[s]]
    /\ Returns(c, asked[c], "SOMA_SUCCESS", {}, CleansUp(refs[c], frees))

\* The forward fails, before or after the provider has seen the request.  The
\* handle is destroyed, after its output was freed if frees.
ForwardFails(c, frees) ==
    /\ Fault
    /\ rpc' = [s \in Slots |-> IF rpc[s].from = c
                               THEN [rpc[s] EXCEPT !.from = Nobody] ELSE rpc[s]]
    /\ Returns(c, asked[c], "SOMA_ERR_FROM_MERCURY", {}, CleansUp(refs[c], frees))

\* The forward fails because there is no such provider.
NoProvider(c, frees) ==
    /\ \E s \in AwaitedBy(c) :
          /\ rpc[s].leg = "refused"
          /\ rpc' = [rpc EXCEPT ![s] = FreeSlot]
    /\ Returns(c, asked[c], "SOMA_ERR_FROM_MERCURY", {}, CleansUp(refs[c], frees))
    /\ UNCHANGED faults

\* A list that is refused is sent without a count (and without ids): what the
\* reply holds in its place may make the decoder run past its end.
StrayCount(r, out) == r.op = "list" /\ out.ret # "SOMA_SUCCESS"

\* The output cannot be decoded.
NoOutput(c, frees) ==
    /\ \E s \in AwaitedBy(c) :
          /\ rpc[s].leg = "replied"
          /\ Fault \/ (StrayCount(asked[c], rpc[s].body) /\ UNCHANGED faults)
          /\ rpc' = [rpc EXCEPT ![s] = FreeSlot]
    /\ Returns(c, asked[c], "SOMA_ERR_FROM_MERCURY", {}, CleansUp(refs[c], frees))

\* Mutants of Output: the reply of another's RPC; the id is not copied.
OutputOfAnother(c) ==
    /\ \E s, t \in Slots :
          /\ rpc[s].from = c /\ rpc[s].leg = "replied" /\ rpc[t].leg = "replied"
          /\ rpc' = [rpc EXCEPT ![s] = FreeSlot]
          /\ Returns(c, asked[c], rpc[t].body.ret, rpc[t].body.ids, OutputFreed(refs[c]))
    /\ UNCHANGED faults
OutputNotCopied(c) ==
    /\ \E s \in AwaitedBy(c) :
          /\ rpc[s].leg = "replied"
          /\ rpc' = [rpc EXCEPT ![s] = FreeSlot]
          /\ Returns(c, asked[c], rpc[s].body.ret, {}, OutputFreed(refs[c]))
    /\ UNCHANGED faults

\* The output is decoded, what the caller wants of it copied, and freed.
Output(c) ==
    /\ \E s \in AwaitedBy(c) :
          /\ rpc[s].leg = "replied"
          /\ rpc' = [rpc EXCEPT ![s] = FreeSlot]
          /\ Returns(c, asked[c], rpc[s].body.ret, rpc[s].body.ids, OutputFreed(refs[c]))
    /\ UNCHANGED faults

\* The end of a call whose forward returned.
Completes(c, frees) ==
    ForwardFails(c, frees) \/ NoProvider(c, frees) \/ NoOutput(c, frees) \/ Output(c)

\* The beginning of a call.
Begins(c, op) ==
    \E r \in Request : r.op = op /\ op \in Workload /\ (NoHandle(c, r) \/ Forward(c, r))

AdminCall(c, op) == Begins(c, op) \/ (asked[c].op = op /\ Completes(c, FALSE))

soma_create_collector(c)  == AdminCall(c, "create")
soma_open_collector(c)    == AdminCall(c, "open")
soma_close_collector(c)   == AdminCall(c, "close")
soma_destroy_collector(c) == AdminCall(c, "destroy")
soma_list_collectors(c)   == AdminCall(c, "list")

\* The error paths of sum jump to where the output is freed.
soma_compute_sum(c) == Begins(c, "sum") \/ (asked[c].op = "sum" /\ Completes(c, TRUE))

\* The forward of a call that is not answered returns when the request has left.
HelloLeft(c) ==
    /\ asked[c].op \in Unanswered
    /\ Returns(c, asked[c], "SOMA_SUCCESS", {}, CleansUp(refs[c], FALSE))
    /\ UNCHANGED <<rpc, faults>>

soma_say_hello(c) ==
    Begins(c, "hello") \/ (asked[c].op = "hello" /\ (ForwardFails(c, FALSE) \/ HelloLeft(c)))

Call(c) ==
    \/ soma_create_collector(c) \/ soma_open_collector(c)
    \/ soma_close_collector(c) \/ soma_destroy_collector(c)
    \/ soma_list_collectors(c) \/ soma_compute_sum(c) \/ soma_say_hello(c)

-----------------------------------------------------------------------------
(* The RPCs and the provider. *)

Deliver(s) ==
    /\ rpc[s].leg = "sent"
    /\ Provider!Ask(s, rpc[s].body)
    /\ rpc' = [rpc EXCEPT ![s].leg = "served", ![s].body = Nothing]
    /\ CallersWait
    /\ UNCHANGED faults

\* A request arrives where no provider is (any more, or yet).
Bounce(s) ==
    /\ rpc[s].leg = "sent"
    /\ phase # "up"
    /\ rpc' = [rpc EXCEPT ![s].leg = "refused", ![s].body = Nothing]
    /\ UNCHANGED <<provider, faults>>
    /\ CallersWait

\* A request nobody waits for does not arrive.
Vanish(s) ==
    /\ rpc[s].leg = "sent"
    /\ rpc[s].from = Nobody
    /\ Fault
    /\ rpc' = [rpc EXCEPT ![s] = FreeSlot]
    /\ UNCHANGED provider
    /\ CallersWait

\* The handler does its work; hello's is over with that.
Serve(s) ==
    /\ rpc[s].leg = "served"
    /\ Provider!Serve(s)
    /\ rpc' = IF request[s].op = "hello" THEN [rpc EXCEPT ![s] = FreeSlot] ELSE rpc
    /\ CallersWait
    /\ UNCHANGED faults

\* margo_respond: the reply is on its way.
Respond(s) ==
    /\ rpc[s].leg = "served"
    /\ Provider!Return(s)
    /\ rpc' = [rpc EXCEPT ![s].leg = "replied", ![s].body = reply[s]]
    /\ CallersWait
    /\ UNCHANGED faults

\* A reply or an error nobody waits for (any more).
Drop(s) ==
    /\ rpc[s].leg \in {"replied", "refused"}
    /\ rpc[s].from = Nobody
    /\ rpc' = [rpc EXCEPT ![s] = FreeSlot]
    /\ UNCHANGED <<provider, faults>>
    /\ CallersWait

\* The provider is registered, finalized, and registered again.
Provide ==
    /\ \/ Provider!Start
       \/ Provider!Stop
       \/ \E id \in Ids : Provider!Dismiss(id)
       \/ Provider!Stopped
    /\ CallersWait
    /\ UNCHANGED <<rpc, faults>>

Init ==
    /\ Provider!Init
    /\ rpc = [s \in Slots |-> FreeSlot]
    /\ asked = [c \in Callers |-> NoCall]
    /\ refs = [c \in Callers |-> 0]
    /\ stayed = [c \in Callers |-> {}]
    /\ answer = NoAnswer
    /\ known = {}
    /\ gone = {}
    /\ faults = 0

Carry(s) ==
    Deliver(s) \/ Bounce(s) \/ Vanish(s) \/ Serve(s) \/ Respond(s) \/ Drop(s)

Next == (\E c \in Callers : Call(c)) \/ (\E s \in Slots : Carry(s)) \/ Provide

Spec == Init /\ [][Next]_vars

\* Messages arrive, handlers answer (SomaProvider!Answered), and forwards that
\* have returned are followed by the rest of the call.
Fairness ==
    /\ \A s \in Slots : WF_vars(Carry(s))
    /\ \A c \in Callers : WF_vars(asked[c] # NoCall /\ Call(c))

FairSpec == Spec /\ Fairness

-----------------------------------------------------------------------------
(* Properties. *)

Calls == Requests(Tokens, Types, Ids \cup {NilId}, ListSizes)
Replies == [ret : soma_return_t \cup {"none"}, ids : SUBSET Ids]

\* Every variable has its type.
TypeOK ==
    /\ rpc \in [Slots -> [leg : {"free", "sent", "served", "replied", "refused"},
                          from : Callers \cup {Nobody},
                          body : Calls \cup Replies]]
    /\ asked \in [Callers -> Calls \cup {NoCall}]
    /\ refs \in [Callers -> Int]
    /\ stayed \in [Callers -> SUBSET Ids]
    /\ answer \in {NoAnswer} \cup [to : Calls, ret : soma_return_t, left : Int,
                                   ids : SUBSET Ids, stayed : SUBSET Ids]
    /\ known \in SUBSET Ids
    /\ gone \in SUBSET (Ids \cup {NilId})
    /\ faults \in 0 .. MaxFaults

\* Whatever a close or destroy returns, unless it could not be carried out at
\* all, the collector it named is gone and stays gone: also when the backend
\* failed, when another call removed it, when the provider was restarted
\* since, and when an abandoned request is delivered afterwards.
EndReported == gone \cap live = {}

\* A use is told that a collector does not exist only if it did not exist at
\* some moment of the call.  A list that is not cut off by the size of the
\* caller's array contains every collector that existed during all of the
\* call, and no list is longer than the array it is copied to.
AnswersCurrent ==
    /\ answer.to.op \in UseOps /\ answer.ret = "SOMA_ERR_INVALID_COLLECTOR"
           => answer.to.id \notin answer.stayed
    /\ answer.to.op = "list" /\ answer.ret = "SOMA_SUCCESS"
           => /\ Cardinality(answer.ids) <= answer.to.max_ids
              /\ \/ answer.stayed \subseteq answer.ids
                 \/ Cardinality(answer.ids) = answer.to.max_ids

\* Collectors nobody has been told of, and nobody is about to be told of.
InReply(s) == reply[s].ids \cup (IF rpc[s].leg = "replied" THEN rpc[s].body.ids ELSE {})
Orphans == live \ (known \cup UNION {InReply(s) : s \in {t \in Slots : rpc[t].from # Nobody}})

\* Without faults the admins know every collector there is, and each fault
\* (a failed create that its admin goes on to retry, say) costs at most one.
OrphansAreFaults == Cardinality(Orphans) <= faults

\* A sum that fails gives back no more than it took.
SumReleasesWhatItTook ==
    answer.to.op = "sum" => answer.left = 0

\* Without a fault, a call that gets a reply returns what the reply says: a
\* list whose token was refused returns SOMA_ERR_INVALID_TOKEN, above all.
RepliesReported ==
    [][\A s \in Slots :
          /\ rpc[s].leg = "replied" /\ rpc[s].from # Nobody
          /\ rpc'[s].leg = "free" /\ faults' = faults
          => answer'.ret = rpc[s].body.ret]_vars

\* Every call returns, with an answer or an error, whatever is lost.
CallsReturn == \A c \in Callers : asked[c] # NoCall ~> asked[c] = NoCall

=============================================================================
