------------------------ MODULE SomaProviderService -------------------------
(***************************************************************************)
(* The provider of SomaProvider implements the service of                  *)
(* CollectorService.  A request takes effect in the step that produces its *)
(* reply: for a close or destroy when the collector is unlinked, after the *)
(* backend call; for a sum or a create when the backend returns.           *)
(***************************************************************************)
EXTENDS SomaProvider

CallStatus ==
    [u \in Ults |-> IF pc[u] = "idle" THEN "idle"
                    ELSE IF pc[u] = "respond" THEN "done" ELSE "pending"]

Service == INSTANCE CollectorService WITH
    Callers <- Ults,
    Accepted <- IF ArgToken \in {NoToken, EmptyToken} THEN Tokens ELSE {ArgToken},
    phase <- provider,
    issued <- {id \in Ids : ctx[id] \in {"live", "ending", "ended"}},
    live <- collectors,
    call <- CallStatus,
    request <- req,
    reply <- out

\* Every behaviour of the provider is one of the abstract service: requests
\* take effect one at a time and atomically, ids are never given out twice,
\* and no reply is a lie.
ImplementsService == Service!Spec

=============================================================================
