------------------------- MODULE SomaClientProcess --------------------------
(***************************************************************************)
(* A client process: the libraries of SomaLibraries and, for every client  *)
(* they give out, the handles and calls of SomaClient.  The initialisation *)
(* of a client is one step there and several here, where those of other    *)
(* clients and of admins come between.                                     *)
(***************************************************************************)
EXTENDS SomaClient

CONSTANTS
    Admins,  \* admin objects
    NULL,
    Serial   \* two initialisations of the same library do not overlap

VARIABLES names, silent, doing, library

margo == <<names, silent, doing, library>>

Libraries == INSTANCE SomaLibraries WITH Objects <- Clients \cup Admins

ASSUME ProcessAssumption ==
    /\ Clients \cap Admins = {}
    /\ NULL \notin [kind : {"admin", "client"}, n : Nat]
    /\ \A kind, lib \in {"admin", "client"} :
          NULL # [kind |-> kind, ids |-> Libraries!Needed(lib)]

\* The Bedrock module's adapters, through which its clients come and go.  A
\* client is the caller's with the last step of its initialisation.
soma_init_client(c) ==
    /\ Libraries!soma_client_init(c)
    /\ \/ library'[c] = NULL /\ client[c] = "none" /\ UNCHANGED vars
       \/ library'[c] # NULL /\ soma_client_init(c)
soma_finalize_client(c) == Libraries!soma_client_finalize(c) /\ soma_client_finalize(c)

Admin(a) ==
    /\ Libraries!soma_admin_init(a) \/ Libraries!soma_admin_finalize(a)
    /\ UNCHANGED vars

\* What a process does with clients it has.
UsesHandles ==
    /\ \/ \E c \in Clients, h \in Handles, r \in Refs :
             soma_collector_handle_create(c, h, r)
       \/ \E r, s \in Refs : soma_collector_handle_ref_incr(r, s)
       \/ \E r \in Refs : soma_collector_handle_release(r)
       \/ \E t \in Threads : soma_say_hello(t) \/ soma_compute_sum(t)
    /\ UNCHANGED margo

ProcessInit == Init /\ Libraries!Init

ProcessNext ==
    \/ \E c \in Clients : soma_init_client(c) \/ soma_finalize_client(c)
    \/ \E a \in Admins : Admin(a)
    \/ UsesHandles

ProcessSpec == ProcessInit /\ [][ProcessNext]_<<vars, margo>>

-----------------------------------------------------------------------------
(* Properties. *)

\* A client or admin that was initialised has the ids of all its RPCs, whoever
\* registered them, whatever other libraries are initialised at the same time
\* and whichever were finalized since.
IdsComplete ==
    /\ \A c \in Clients : client[c] = "up" =>
          library[c] # NULL /\ library[c].ids = Libraries!Needed("client")
    /\ \A a \in Admins : library[a] # NULL =>
          library[a].ids = Libraries!Needed("admin")

\* No hello is sent while Margo would have it wait for a response: the handler
\* sends none, and the caller would be blocked for good.
HelloSilent ==
    \A t \in Threads : call[t] = "hello" => "soma_hello" \in silent

=============================================================================
