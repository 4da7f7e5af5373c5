-------------------------- MODULE CollectorService --------------------------
(***************************************************************************)
(* What a SOMA provider promises its admins and clients (soma-admin.h,     *)
(* soma-collector.h), with nothing of how it is done: a set of collectors, *)
(* and requests each of which takes effect at a single instant between its *)
(* arrival and its reply.  An id is given out once.  A request that is     *)
(* refused, or that reports that no such collector exists, changes         *)
(* nothing, and the latter is said only when it is so.                     *)
(***************************************************************************)
EXTENDS Integers, FiniteSets, SomaCommon

CONSTANTS
    Callers,    \* requests in flight at a time
    Ids,        \* ids of collectors
    NilId,      \* the id that names no collector
    Types,      \* backend names
    Tokens,     \* tokens an admin may send
    ListSizes,  \* values of max_ids
    Accepted,   \* the tokens the provider accepts
    BackendRets \* what backends return

VARIABLES
    phase,      \* "absent", "up" or "closing"
    issued,     \* every id ever given to a collector
    live,       \* the collectors that exist
    call,       \* of each caller: "idle", "pending", "done"
    request,    \* what it asked
    reply       \* what it was told

vars == <<phase, issued, live, call, request, reply>>
registry == <<phase, issued, live>>

Request == Requests(Tokens, Types, Ids \cup {NilId}, ListSizes)
NoRequest == [op |-> "none"]
NoReply == [ret |-> "none", ids |-> {}]

Pending(c, ops) == call[c] = "pending" /\ request[c].op \in ops

\* A pending call is answered.
Answer(c, ret, ids) ==
    /\ call' = [call EXCEPT ![c] = "done"]
    /\ reply' = [reply EXCEPT ![c] = [ret |-> ret, ids |-> ids]]
    /\ UNCHANGED request

\* A caller is through, with an answer or without one.
Forget(c) ==
    /\ call' = [call EXCEPT ![c] = "idle"]
    /\ request' = [request EXCEPT ![c] = NoRequest]
    /\ reply' = [reply EXCEPT ![c] = NoReply]

TokenAccepted(c) == request[c].token \in Accepted

Ask(c, r) ==
    /\ phase = "up"
    /\ call[c] = "idle"
    /\ call' = [call EXCEPT ![c] = "pending"]
    /\ request' = [request EXCEPT ![c] = r]
    /\ UNCHANGED <<registry, reply>>

\* The request could not be read.
Unreadable(c) ==
    /\ Pending(c, Ops \ {"hello"})
    /\ Answer(c, "SOMA_ERR_FROM_MERCURY", {})
    /\ UNCHANGED registry

\* Only admin requests carry a token, and only a bad one is refused for it.
BadToken(c) ==
    /\ Pending(c, CreateOps \cup EndOps \cup {"list"})
    /\ ~TokenAccepted(c)
    /\ Answer(c, "SOMA_ERR_INVALID_TOKEN", {})
    /\ UNCHANGED registry

\* A collector is made, under an id nobody was ever given.
Create(c) ==
    /\ Pending(c, CreateOps)
    /\ TokenAccepted(c)
    /\ \E id \in Ids \ issued :
          /\ live' = live \cup {id}
          /\ issued' = issued \cup {id}
          /\ Answer(c, "SOMA_SUCCESS", {id})
    /\ UNCHANGED phase

\* No collector is made: there is no such backend, or the backend declined.
Decline(c) ==
    /\ Pending(c, CreateOps)
    /\ TokenAccepted(c)
    /\ \E ret \in (BackendRets \cup {"SOMA_ERR_INVALID_BACKEND"})
                    \ {"SOMA_SUCCESS"} : Answer(c, ret, {})
    /\ UNCHANGED registry

\* The collector is gone, and its removal is reported by this call alone;
\* a backend that fails to close it does not keep it.
End(c) ==
    /\ Pending(c, EndOps)
    /\ TokenAccepted(c)
    /\ request[c].id \in live
    /\ live' = live \ {request[c].id}
    /\ \E ret \in BackendRets :
          /\ request[c].op = "destroy" => ret = "SOMA_SUCCESS"
          /\ Answer(c, ret, {})
    /\ UNCHANGED <<phase, issued>>

NoSuchCollector(c) ==
    /\ Pending(c, EndOps \cup {"sum"})
    /\ request[c].id \notin live
    /\ request[c].op \in EndOps => TokenAccepted(c)
    /\ Answer(c, "SOMA_ERR_INVALID_COLLECTOR", {})
    /\ UNCHANGED registry

List(c) ==
    /\ Pending(c, {"list"})
    /\ TokenAccepted(c)
    /\ \E ids \in SUBSET live :
          /\ \/ ids = live
             \/ Cardinality(ids) = request[c].max_ids
          /\ Cardinality(ids) <= request[c].max_ids
          /\ Answer(c, "SOMA_SUCCESS", ids)
    /\ UNCHANGED registry

\* A sum succeeds only on a collector that exists when it is computed.
Sum(c) ==
    /\ Pending(c, {"sum"})
    /\ request[c].id \in live
    /\ Answer(c, "SOMA_SUCCESS", {})
    /\ UNCHANGED registry

\* A hello has no reply, whether or not it was said.
Hello(c) ==
    /\ Pending(c, {"hello"})
    /\ Forget(c)
    /\ UNCHANGED registry

Return(c) ==
    /\ call[c] = "done"
    /\ Forget(c)
    /\ UNCHANGED registry

Start ==
    /\ phase = "absent"
    /\ phase' = "up"
    /\ UNCHANGED <<issued, live, call, request, reply>>

\* Nobody waits for an answer when the provider goes away.
Stop ==
    /\ phase = "up"
    /\ \A c \in Callers : call[c] = "idle"
    /\ phase' = "closing"
    /\ UNCHANGED <<issued, live, call, request, reply>>

Dismiss(id) ==
    /\ phase = "closing"
    /\ id \in live
    /\ live' = live \ {id}
    /\ UNCHANGED <<phase, issued, call, request, reply>>

Stopped ==
    /\ phase = "closing"
    /\ live = {}
    /\ phase' = "absent"
    /\ UNCHANGED <<issued, live, call, request, reply>>

Init ==
    /\ phase = "absent"
    /\ issued = {}
    /\ live = {}
    /\ call = [c \in Callers |-> "idle"]
    /\ request = [c \in Callers |-> NoRequest]
    /\ reply = [c \in Callers |-> NoReply]

Serve(c) ==
    \/ Unreadable(c) \/ BadToken(c) \/ Create(c) \/ Decline(c) \/ End(c)
    \/ NoSuchCollector(c) \/ List(c) \/ Sum(c) \/ Hello(c)

Next ==
    \/ \E c \in Callers : Serve(c) \/ Return(c) \/ \E r \in Request : Ask(c, r)
    \/ Start
    \/ Stop
    \/ \E id \in Ids : Dismiss(id)
    \/ Stopped

Spec == Init /\ [][Next]_vars

=============================================================================
