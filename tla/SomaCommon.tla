----------------------------- MODULE SomaCommon -----------------------------
(***************************************************************************)
(* The result codes every SOMA call answers with (soma/soma-common.h) and  *)
(* the inputs of the provider's RPCs (types.h).  Token values, type names, *)
(* ids and list sizes are members of sets the user of the module chooses;  *)
(* JSON configurations and the two summands are left out, since nothing in *)
(* the provider depends on them.                                           *)
(***************************************************************************)
EXTENDS Naturals

soma_return_t ==
    {"SOMA_SUCCESS", "SOMA_ERR_ALLOCATION", "SOMA_ERR_INVALID_ARGS",
     "SOMA_ERR_INVALID_PROVIDER", "SOMA_ERR_INVALID_COLLECTOR",
     "SOMA_ERR_INVALID_BACKEND", "SOMA_ERR_INVALID_CONFIG",
     "SOMA_ERR_INVALID_TOKEN", "SOMA_ERR_FROM_MERCURY",
     "SOMA_ERR_FROM_ARGOBOTS", "SOMA_ERR_OP_UNSUPPORTED",
     "SOMA_ERR_OP_FORBIDDEN", "SOMA_ERR_OTHER"}

CreateOps == {"create", "open"}    \* make a collector
EndOps    == {"close", "destroy"}  \* take a collector away
UseOps    == {"hello", "sum"}      \* call into a collector
IdOps     == EndOps \cup UseOps    \* name a collector by its id
Ops       == CreateOps \cup IdOps \cup {"list"}

create_collector_in_t(tokens, types) ==
    [op : CreateOps, token : tokens, type : types]
close_collector_in_t(tokens, ids) ==
    [op : EndOps, token : tokens, id : ids]
list_collectors_in_t(tokens, sizes) ==
    [op : {"list"}, token : tokens, max_ids : sizes]
sum_in_t(ids) ==
    [op : UseOps, id : ids]

Requests(tokens, types, ids, sizes) ==
    create_collector_in_t(tokens, types) \cup close_collector_in_t(tokens, ids)
        \cup list_collectors_in_t(tokens, sizes) \cup sum_in_t(ids)

=============================================================================
