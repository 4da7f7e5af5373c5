-------------------------- MODULE SomaProviderInv ---------------------------
(***************************************************************************)
(* The inductive invariants behind the provider's two kinds of safety, and *)
(* the conditions on backends and callers under which they hold.           *)
(***************************************************************************)
EXTENDS SomaProvider

\* The provider's own memory is safe when close does not yield between the
\* lookup and the unlinking, or callers keep requests for a collector apart.
MemoryDiscipline == Drained /\ (Serialised \/ "close" \notin Blocking)

\* Backend contexts are safe when only create and open yield, or callers keep
\* requests for a collector apart.
ContextDiscipline == Drained /\ (Serialised \/ Blocking \subseteq CreateOps)

InBackend(u, ops) == pc[u] = "backend" /\ req[u].op \in ops

\* Finalisation found the handlers gone.
HandlersDrained == provider # "up" => \A u \in Ults : pc[u] = "idle"

\* A handler that takes a collector away, or calls into it, holds the one its
\* request names.
HeldIsNamed == \A u \in Ults : InBackend(u, IdOps) => held[u] = req[u].id

\* Callers that serialise keep their requests apart all the time these last.
RequestsApart ==
    Serialised => \A u, v \in Ults :
        u # v /\ pc[u] # "idle" /\ pc[v] # "idle" => ~Conflict(req[u], req[v])

\* The pointer a close keeps over the backend call is to a collector that is
\* still in the hash.
CloserHolds == \A u \in Ults : InBackend(u, {"close"}) => held[u] \in collectors

\* The finaliser's loop goes on to an item that is still in the hash, and ends
\* only when there is none.
LoopInHash ==
    provider = "closing" => tmp \in HeadOf(collectors)

\* A provider that is gone left nothing in its hash.
GoneEmpty == provider = "absent" => collectors = {}

\* The provider's memory: the facts above carry the counter and the absence
\* of dangling pointers.
MemoryInv ==
    /\ TypeOK
    /\ HandlersDrained
    /\ HeldIsNamed
    /\ RequestsApart
    /\ CloserHolds
    /\ LoopInHash
    /\ GoneEmpty
    /\ CountMatches
    /\ NoDanglingUse

\* Who is inside the backend with a collector determines the state of its
\* context, and a context being made or ended has somebody making or ending it.
CreatorHolds ==
    \A u \in Ults : InBackend(u, CreateOps) =>
        /\ ctx[held[u]] = "creating"
        /\ \A v \in Ults \ {u} : InBackend(v, CreateOps) => held[u] # held[v]
EnderHolds ==
    \A u \in Ults : InBackend(u, EndOps) =>
        ctx[held[u]] = "ending" /\ held[u] \in collectors
UserHolds == \A u \in Ults : InBackend(u, UseOps) => ctx[held[u]] = "live"
MadeBySomebody ==
    \A id \in Ids : ctx[id] = "creating" =>
        \E u \in Ults : InBackend(u, CreateOps) /\ held[u] = id
EndedBySomebody ==
    \A id \in collectors : ctx[id] = "ending" =>
        \E u \in Ults : InBackend(u, EndOps) /\ held[u] = id

\* The finaliser's collector is out of the hash.
FinaliserOwns ==
    cur # NilId =>
        provider = "closing" /\ ctx[cur] = "ending" /\ cur \notin collectors

ContextInv ==
    /\ TypeOK
    /\ HandlersDrained
    /\ HeldIsNamed
    /\ RequestsApart
    /\ CreatorHolds
    /\ EnderHolds
    /\ UserHolds
    /\ MadeBySomebody
    /\ EndedBySomebody
    /\ FinaliserOwns
    /\ LoopInHash
    /\ GoneEmpty
    /\ ContextsAccounted
    /\ NoMisuse

\* A reply is there only to be sent.
RepliesFresh == \A u \in Ults : pc[u] # "respond" => out[u] = NoReply

\* Whatever the hash, a handler that ends a collector, or the finaliser leads
\* to has a context that was made, so that nobody makes it again.
Made == {"live", "ending", "ended"}
MadeOnce ==
    /\ \A id \in collectors : ctx[id] \in Made
    /\ \A u \in Ults : InBackend(u, EndOps) => ctx[held[u]] \in Made
    /\ cur # NilId => ctx[cur] \in Made

\* A handler that reports a close or destroy as done left its collector out of
\* the hash for good.
RemovedForGood ==
    \A u \in Ults :
        req[u].op \in EndOps /\ out[u].ret = "SOMA_SUCCESS" =>
            req[u].id \in Ids \ collectors /\ ctx[req[u].id] \in Made

\* Who is told that it ended a collector.
EnderInv ==
    /\ MemoryInv
    /\ RepliesFresh
    /\ CreatorHolds
    /\ MadeOnce
    /\ RemovedForGood
    /\ OneEnderWins

\* A request that makes or ends a collector, and has reached the backend,
\* carried a good token.
AdminsAuthorised ==
    \A u \in Ults :
        InBackend(u, CreateOps \cup EndOps) => check_token(req[u].token)

\* This one needs no discipline of anybody.
TokenInv == TypeOK /\ HeldIsNamed /\ AdminsAuthorised

\* A handler that answers has its input, unless it answers that it has not.
AnswersWithInput ==
    \A u \in Ults : pc[u] = "respond" =>
        \/ input[u] = "decoded"
        \/ input[u] = "none" /\ out[u].ret = "SOMA_ERR_FROM_MERCURY"

\* Nor does this one.
InputInv == TypeOK /\ AnswersWithInput

=============================================================================
