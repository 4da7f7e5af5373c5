--------------------------- MODULE SomaLibraries ----------------------------
(***************************************************************************)
(* How the admin and client libraries (soma_admin_init, soma_client_init)  *)
(* come to the ids of their RPCs in one Margo instance: the first to need  *)
(* them registers their names, one after the other, and those after it     *)
(* take that the first name is known as the sign that all are.  Each step  *)
(* is one call into Margo; the initialisations of several objects may      *)
(* interleave.                                                             *)
(***************************************************************************)
EXTENDS Naturals, SequencesExt

CONSTANTS
    Objects,  \* the admins and clients of a process
    NULL,
    Serial    \* two initialisations of the same library do not overlap

VARIABLES
    names,    \* the RPC names registered in the instance
    silent,   \* those for which the response was disabled
    doing,    \* the initialisation each object is in, or NULL
    library   \* each object's kind and the names it got valid ids for, or NULL

vars == <<names, silent, doing, library>>

\* The names a library registers, in this order.
Names == [admin  |-> <<"soma_create_collector", "soma_open_collector",
                       "soma_close_collector", "soma_destroy_collector",
                       "soma_list_collectors">>,
          client |-> <<"soma_sum", "soma_hello">>]

Needed(kind) == Range(Names[kind])

\* Mutant of Sign: the admin library looks for the client's.
SignOfClient(kind) == "soma_sum"

\* The name whose presence tells that the others are there.
Sign(kind) == Names[kind][1]

Begins(o, kind) ==
    /\ doing[o] = NULL /\ library[o] = NULL
    /\ Serial => \A p \in Objects : doing[p] # NULL => doing[p].kind # kind

\* The name is known: all ids are looked up.
Finds(o, kind) ==
    /\ Begins(o, kind)
    /\ Sign(kind) \in names
    /\ library' = [library EXCEPT ![o] = [kind |-> kind, ids |-> Needed(kind) \cap names]]
    /\ UNCHANGED <<names, silent, doing>>

Misses(o, kind) ==
    /\ Begins(o, kind)
    /\ Sign(kind) \notin names
    /\ doing' = [doing EXCEPT ![o] = [kind |-> kind, n |-> 1]]
    /\ UNCHANGED <<names, silent, library>>

\* MARGO_REGISTER, for one name after the other.
RegistersName(o) ==
    /\ doing[o] # NULL
    /\ doing[o].n <= Len(Names[doing[o].kind])
    /\ names' = names \cup {Names[doing[o].kind][doing[o].n]}
    /\ doing' = [doing EXCEPT ![o].n = @ + 1]
    /\ UNCHANGED <<silent, library>>

\* Mutant of InitReturns: soma_hello is left with a response.
ReturnsSounding(o) ==
    /\ doing[o] # NULL
    /\ doing[o].n > Len(Names[doing[o].kind])
    /\ library' = [library EXCEPT ![o] =
                      [kind |-> doing[o].kind, ids |-> Needed(doing[o].kind)]]
    /\ doing' = [doing EXCEPT ![o] = NULL]
    /\ UNCHANGED <<names, silent>>

\* All are registered; hello's response is disabled.
InitReturns(o) ==
    /\ doing[o] # NULL
    /\ doing[o].n > Len(Names[doing[o].kind])
    /\ library' = [library EXCEPT ![o] =
                      [kind |-> doing[o].kind, ids |-> Needed(doing[o].kind)]]
    /\ silent' = IF doing[o].kind = "client" THEN silent \cup {"soma_hello"} ELSE silent
    /\ doing' = [doing EXCEPT ![o] = NULL]
    /\ UNCHANGED names

\* Frees the library; its names stay registered.
Finalizes(o, kind) ==
    /\ library[o] # NULL /\ library[o].kind = kind
    /\ library' = [library EXCEPT ![o] = NULL]
    /\ UNCHANGED <<names, silent, doing>>

GoesOn(o, kind) ==
    doing[o] # NULL /\ doing[o].kind = kind /\ (RegistersName(o) \/ InitReturns(o))

soma_admin_init(o) == Finds(o, "admin") \/ Misses(o, "admin") \/ GoesOn(o, "admin")
soma_client_init(o) == Finds(o, "client") \/ Misses(o, "client") \/ GoesOn(o, "client")
soma_admin_finalize(o) == Finalizes(o, "admin")
soma_client_finalize(o) == Finalizes(o, "client")

Init ==
    /\ names = {}
    /\ silent = {}
    /\ doing = [o \in Objects |-> NULL]
    /\ library = [o \in Objects |-> NULL]

=============================================================================
