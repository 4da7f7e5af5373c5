---------------------- MODULE SomaClientProcessProofs -----------------------
(***************************************************************************)
(* Proofs about a client process, for every number of clients, admins,     *)
(* handles, references and calls: the libraries' ids, and that a process   *)
(* does with its handles what SomaClient lets it do.                       *)
(***************************************************************************)
EXTENDS SomaClientProcess, SomaClientProofs, Sequences

-----------------------------------------------------------------------------
(* The inductive invariant. *)

Kinds == {"admin", "client"}
Objects == Clients \cup Admins
KindOf(o) == IF o \in Clients THEN "client" ELSE "admin"

Initialisation == [kind : Kinds, n : Nat \ {0}]
Library == [kind : Kinds, ids : {Libraries!Needed("admin"), Libraries!Needed("client")}]

LibraryTypes ==
    /\ doing \in [Objects -> Initialisation \cup {NULL}]
    /\ library \in [Objects -> Library \cup {NULL}]

\* An object is of one kind; an initialisation under way has registered the
\* names before the one it is at.
ObjectsOK ==
    /\ \A o \in Objects : doing[o] # NULL =>
          /\ doing[o].kind = KindOf(o) /\ library[o] = NULL
          /\ \A j \in 1 .. Len(Libraries!Names[KindOf(o)]) :
                j < doing[o].n => Libraries!Names[KindOf(o)][j] \in names
    /\ \A o \in Objects : library[o] # NULL =>
          library[o].kind = KindOf(o) /\ library[o].ids = Libraries!Needed(KindOf(o))
    /\ \A c \in Clients : client[c] = "up" <=> library[c] # NULL

\* What the initialisation of a library is for.
Ready(kind) ==
    /\ Libraries!Needed(kind) \subseteq names
    /\ kind = "client" => "soma_hello" \in silent

\* The sign that a library's names are all there tells the truth, unless the
\* initialisation that registers them is still under way.
SignsOK ==
    /\ \A kind \in Kinds : Libraries!Sign(kind) \in names =>
          Ready(kind) \/ \E o \in Objects : doing[o] # NULL /\ doing[o].kind = kind
    /\ \A c \in Clients : client[c] # "none" => "soma_hello" \in silent

ProcessInv == LibraryTypes /\ ObjectsOK /\ SignsOK

-----------------------------------------------------------------------------
(* The names of the libraries. *)

LEMMA LibraryNames ==
    /\ \A kind \in Kinds :
          /\ Len(Libraries!Names[kind]) \in Nat \ {0}
          /\ \A j \in 1 .. Len(Libraries!Names[kind]) :
                Libraries!Names[kind][j] \in Libraries!Needed(kind)
          /\ \A x \in Libraries!Needed(kind) :
                \E j \in 1 .. Len(Libraries!Names[kind]) : x = Libraries!Names[kind][j]
          /\ Libraries!Sign(kind) \in Libraries!Needed(kind)
    /\ Libraries!Needed("admin") \cap Libraries!Needed("client") = {}
<1>1. /\ Libraries!Names["admin"] = <<"soma_create_collector", "soma_open_collector",
                       "soma_close_collector", "soma_destroy_collector",
                       "soma_list_collectors">>
      /\ Libraries!Names["client"] = <<"soma_sum", "soma_hello">>
  BY DEF Libraries!Names
<1>2. /\ Len(Libraries!Names["admin"]) = 5 /\ DOMAIN Libraries!Names["admin"] = 1 .. 5
      /\ Len(Libraries!Names["client"]) = 2 /\ DOMAIN Libraries!Names["client"] = 1 .. 2
  BY <1>1
<1>3. ASSUME NEW kind \in Kinds
      PROVE  /\ Len(Libraries!Names[kind]) \in Nat \ {0}
             /\ DOMAIN Libraries!Names[kind] = 1 .. Len(Libraries!Names[kind])
  BY <1>2 DEF Kinds
<1>4. ASSUME NEW kind \in Kinds
      PROVE  Libraries!Needed(kind) =
                {Libraries!Names[kind][j] : j \in 1 .. Len(Libraries!Names[kind])}
  BY <1>3 DEF Libraries!Needed, Libraries!Range
<1>5. /\ Libraries!Needed("admin") = {"soma_create_collector", "soma_open_collector",
                       "soma_close_collector", "soma_destroy_collector",
                       "soma_list_collectors"}
      /\ Libraries!Needed("client") = {"soma_sum", "soma_hello"}
  BY <1>1, <1>2 DEF Libraries!Needed, Libraries!Range
<1>6. ASSUME NEW kind \in Kinds
      PROVE  Libraries!Sign(kind) = Libraries!Names[kind][1]
  BY DEF Libraries!Sign
<1>7. ASSUME NEW kind \in Kinds PROVE Libraries!Sign(kind) \in Libraries!Needed(kind)
  <2>1. 1 \in 1 .. Len(Libraries!Names[kind])
    BY <1>3
  <2> QED
    BY <1>4, <1>6, <2>1
<1>8. Libraries!Needed("admin") \cap Libraries!Needed("client") = {}
  BY <1>5
<1>9. ASSUME NEW kind \in Kinds
       PROVE  /\ \A j \in 1 .. Len(Libraries!Names[kind]) :
                    Libraries!Names[kind][j] \in Libraries!Needed(kind)
              /\ \A x \in Libraries!Needed(kind) :
                    \E j \in 1 .. Len(Libraries!Names[kind]) : x = Libraries!Names[kind][j]
  BY <1>4
<1> QED
  BY <1>3, <1>7, <1>8, <1>9

\* A library's name is only registered by an initialisation of that library.
LEMMA OwnName ==
    ASSUME NEW kind \in Kinds, NEW other \in Kinds,
           NEW j \in 1 .. Len(Libraries!Names[other]),
           Libraries!Names[other][j] \in Libraries!Needed(kind)
    PROVE  kind = other
BY LibraryNames DEF Kinds

LEMMA NullIsNone == NULL \notin Initialisation /\ NULL \notin Library
BY ProcessAssumption DEF Initialisation, Library, Kinds

-----------------------------------------------------------------------------
(* Steps of an initialisation, for a client or for an admin. *)

\* A step of an initialisation, of a client or an admin.
LEMMA InitSteps ==
    ASSUME ProcessInv, Serial, NEW o \in Objects,
           \/ Libraries!Finds(o, KindOf(o))
           \/ Libraries!Misses(o, KindOf(o))
           \/ Libraries!GoesOn(o, KindOf(o)),
           \A c \in Clients \ {o} : client'[c] = client[c],
           o \in Clients => \/ library'[o] = NULL /\ client[o] = "none" /\ client'[o] = client[o]
                            \/ library'[o] # NULL /\ client[o] = "none" /\ client'[o] = "up"
    PROVE  ProcessInv'
<1>. DEFINE kind == KindOf(o)
            N == Libraries!Names[kind]
<1>0. kind \in Kinds /\ LibraryTypes /\ o \in Clients \cup Admins
      /\ doing[o] \in Initialisation \cup {NULL}
  BY DEF ProcessInv, LibraryTypes, KindOf, Kinds, Objects
<1>1. Len(N) \in Nat \ {0}
      /\ [kind |-> kind, ids |-> Libraries!Needed(kind)] \in Library
  <2>1. Libraries!Needed(kind) \in {Libraries!Needed("admin"), Libraries!Needed("client")}
    BY <1>0 DEF Kinds
  <2>2. [kind |-> kind, ids |-> Libraries!Needed(kind)] \in Library
    BY <1>0, <2>1 DEF Library
  <2> QED
    BY <1>0, <2>2, LibraryNames
<1>2. CASE Libraries!Finds(o, kind)
  <2>1. /\ doing[o] = NULL /\ Libraries!Sign(kind) \in names
        /\ \A p \in Objects : doing[p] # NULL => doing[p].kind # kind
        /\ library' = [library EXCEPT ![o] =
              [kind |-> kind, ids |-> Libraries!Needed(kind) \cap names]]
        /\ names' = names /\ silent' = silent /\ doing' = doing
    BY <1>2 DEF Libraries!Finds, Libraries!Begins, Objects
  <2>2. Ready(kind)
    BY <1>0, <2>1 DEF ProcessInv, SignsOK
  <2>3. /\ library'[o] = [kind |-> kind, ids |-> Libraries!Needed(kind)]
        /\ library'[o] \in Library
        /\ \A p \in Objects \ {o} : library'[p] = library[p]
        /\ library' \in [Objects -> Library \cup {NULL}]
    <3>1. Libraries!Needed(kind) \cap names = Libraries!Needed(kind)
      BY <2>2 DEF Ready
    <3>2. [kind |-> kind, ids |-> Libraries!Needed(kind)] \in Library
      BY <1>1
    <3>. HIDE DEF kind, Library
    <3> QED
      BY <1>0, <2>1, <3>1, <3>2 DEF LibraryTypes, Objects
  <2>4. LibraryTypes'
    BY <1>0, <2>1, <2>3 DEF LibraryTypes
  <2>5. library'[o] # NULL
    BY <2>3, NullIsNone
  <2>6. ObjectsOK'
    BY <2>1, <2>3, <2>5 DEF ProcessInv, ObjectsOK, Objects
  <2>7. SignsOK'
    BY <2>1, <2>2, <2>5 DEF ProcessInv, SignsOK, Ready, KindOf
  <2> QED
    BY <2>4, <2>6, <2>7 DEF ProcessInv
<1>3. CASE Libraries!Misses(o, kind)
  <2>1. /\ doing[o] = NULL /\ library[o] = NULL /\ library' = library
        /\ doing' = [doing EXCEPT ![o] = [kind |-> kind, n |-> 1]]
        /\ names' = names /\ silent' = silent
    BY <1>3 DEF Libraries!Misses, Libraries!Begins
  <2>2. /\ doing'[o] = [kind |-> kind, n |-> 1]
        /\ \A p \in Objects \ {o} : doing'[p] = doing[p]
        /\ doing' \in [Objects -> Initialisation \cup {NULL}]
    <3>1. [kind |-> kind, n |-> 1] \in Initialisation
      BY <1>0 DEF Initialisation
    <3>. HIDE DEF kind, Initialisation
    <3> QED
      BY <1>0, <2>1, <3>1 DEF LibraryTypes, Objects
  <2>3. LibraryTypes'
    BY <1>0, <2>1, <2>2 DEF LibraryTypes
  <2>4. client' = client \/ \A c \in Clients : client'[c] = client[c]
    BY <2>1
  <2>5. \A j \in 1 .. Len(N) : ~(j < 1)
    BY <1>1
  <2>6. ObjectsOK'
    BY <2>1, <2>2, <2>4, <2>5 DEF ProcessInv, ObjectsOK, Objects
  <2>7. SignsOK'
    BY <2>1, <2>2, <2>4 DEF ProcessInv, SignsOK, Ready, Objects
  <2> QED
    BY <2>3, <2>6, <2>7 DEF ProcessInv
<1>4. CASE doing[o] # NULL /\ Libraries!RegistersName(o)
  <2>1. PICK m \in Nat \ {0} : m = doing[o].n
    BY <1>0, <1>4 DEF Initialisation
  <2>2. doing[o].kind = kind /\ library[o] = NULL
    BY <1>4 DEF ProcessInv, ObjectsOK
  <2>3. /\ m <= Len(N) /\ names' = names \cup {N[m]}
        /\ doing' = [doing EXCEPT ![o].n = m + 1]
        /\ silent' = silent /\ library' = library
    BY <1>4, <2>1, <2>2 DEF Libraries!RegistersName
  <2>4. /\ doing'[o].kind = kind /\ doing'[o].n = m + 1 /\ doing'[o] # NULL
        /\ \A p \in Objects \ {o} : doing'[p] = doing[p]
        /\ doing' \in [Objects -> Initialisation \cup {NULL}]
    <3>1. m + 1 \in Nat \ {0}
      OBVIOUS
    <3>2. doing[o] \in Initialisation
      BY <1>0, <1>4
    <3>3. doing' = [doing EXCEPT ![o] = [doing[o] EXCEPT !.n = m + 1]]
      BY <2>3
    <3>4. /\ [doing[o] EXCEPT !.n = m + 1] \in Initialisation
          /\ [doing[o] EXCEPT !.n = m + 1].kind = kind
          /\ [doing[o] EXCEPT !.n = m + 1].n = m + 1
      BY <2>2, <3>1, <3>2 DEF Initialisation
    <3>. HIDE DEF kind, Initialisation
    <3> QED
      BY <1>0, <3>3, <3>4, NullIsNone DEF LibraryTypes, Objects
  <2>5. m \in 1 .. Len(N) /\ N[m] \in Libraries!Needed(kind)
    BY <1>0, <1>1, <2>1, <2>3, LibraryNames
  <2>6. LibraryTypes'
    BY <1>0, <2>3, <2>4, <2>5 DEF LibraryTypes
  <2>7. \A c \in Clients : client'[c] = client[c]
    BY <2>2, <2>3
  <2>8. ASSUME NEW j \in 1 .. Len(N), j < m + 1 PROVE N[j] \in names'
    <3>1. j < m \/ j = m
      BY <2>8
    <3>2. j < m => N[j] \in names
      BY <1>4, <2>1 DEF ProcessInv, ObjectsOK
    <3> QED
      BY <2>3, <3>1, <3>2
  <2>9. ObjectsOK'
    BY <2>2, <2>3, <2>4, <2>7, <2>8 DEF ProcessInv, ObjectsOK, Objects
  <2>10. SignsOK'
    <3>1. ASSUME NEW k \in Kinds, Libraries!Sign(k) \in names'
          PROVE  Ready(k)' \/ \E p \in Objects : doing'[p] # NULL /\ doing'[p].kind = k
      <4>1. CASE k = kind
        BY <2>4, <4>1
      <4>2. CASE k # kind
        <5>1. N[m] # Libraries!Sign(k)
          BY <1>0, <2>5, <4>2, LibraryNames, OwnName
        <5>2. Ready(k) \/ \E p \in Objects \ {o} : doing[p] # NULL /\ doing[p].kind = k
          BY <2>2, <2>3, <3>1, <4>2, <5>1 DEF ProcessInv, SignsOK
        <5>3. Ready(k) => Ready(k)'
          BY <2>3 DEF Ready
        <5> QED
          BY <2>4, <5>2, <5>3
      <4> QED
        BY <4>1, <4>2
    <3> QED
      BY <2>3, <2>7, <3>1 DEF ProcessInv, SignsOK
  <2> QED
    BY <2>6, <2>9, <2>10 DEF ProcessInv
<1>5. CASE doing[o] # NULL /\ Libraries!InitReturns(o)
  <2>1. doing[o].kind = kind /\ library[o] = NULL /\ doing[o].n \in Nat
    BY <1>0, <1>5 DEF ProcessInv, ObjectsOK, Initialisation
  <2>2. /\ doing[o].n > Len(N) /\ names' = names
        /\ silent' = IF kind = "client" THEN silent \cup {"soma_hello"} ELSE silent
        /\ library' = [library EXCEPT ![o] =
              [kind |-> kind, ids |-> Libraries!Needed(kind)]]
        /\ doing' = [doing EXCEPT ![o] = NULL]
    BY <1>5, <2>1 DEF Libraries!InitReturns
  <2>3. /\ library'[o] = [kind |-> kind, ids |-> Libraries!Needed(kind)]
        /\ library'[o] # NULL
        /\ \A p \in Objects \ {o} : library'[p] = library[p]
        /\ library' \in [Objects -> Library \cup {NULL}]
    <3>1. [kind |-> kind, ids |-> Libraries!Needed(kind)] \in Library
      BY <1>1
    <3>. HIDE DEF kind, Library
    <3> QED
      BY <1>0, <2>2, <3>1, NullIsNone DEF LibraryTypes, Objects
  <2>4. /\ doing'[o] = NULL
        /\ \A p \in Objects \ {o} : doing'[p] = doing[p]
        /\ doing' \in [Objects -> Initialisation \cup {NULL}]
    BY <1>0, <2>2 DEF LibraryTypes, Objects
  <2>5. LibraryTypes'
    BY <2>3, <2>4 DEF LibraryTypes
  <2>6. Ready(kind)'
    <3>1. \A j \in 1 .. Len(N) : N[j] \in names
      BY <1>1, <1>5, <2>1, <2>2 DEF ProcessInv, ObjectsOK
    <3>2. Libraries!Needed(kind) \subseteq names
      BY <1>0, <3>1, LibraryNames
    <3> QED
      BY <2>2, <3>2 DEF Ready
  <2>7. ObjectsOK'
    BY <2>2, <2>3, <2>4 DEF ProcessInv, ObjectsOK, Objects
  <2>8. SignsOK'
    <3>1. ASSUME NEW k \in Kinds, Libraries!Sign(k) \in names', k # kind
          PROVE  Ready(k)' \/ \E p \in Objects : doing'[p] # NULL /\ doing'[p].kind = k
      <4>1. Ready(k) \/ \E p \in Objects \ {o} : doing[p] # NULL /\ doing[p].kind = k
        BY <2>1, <2>2, <3>1 DEF ProcessInv, SignsOK
      <4>2. Ready(k) => Ready(k)'
        BY <2>2 DEF Ready
      <4> QED
        BY <2>4, <4>1, <4>2
    <3>2. ASSUME NEW c \in Clients, client'[c] # "none" PROVE "soma_hello" \in silent'
      <4>1. CASE c = o
        BY <2>6, <4>1 DEF Ready, KindOf
      <4>2. CASE c # o
        BY <2>2, <3>2, <4>2 DEF ProcessInv, SignsOK
      <4> QED
        BY <4>1, <4>2
    <3> QED
      BY <2>6, <3>1, <3>2 DEF SignsOK
  <2> QED
    BY <2>5, <2>7, <2>8 DEF ProcessInv
<1> QED
  BY <1>2, <1>3, <1>4, <1>5 DEF Libraries!GoesOn

\* An object is finalized.
LEMMA FinalizeStep ==
    ASSUME ProcessInv, NEW o \in Objects, Libraries!Finalizes(o, KindOf(o)),
           \A c \in Clients \ {o} : client'[c] = client[c],
           o \in Clients => client[o] = "up" /\ client'[o] = "freed"
    PROVE  ProcessInv'
<1>1. /\ library[o] # NULL /\ library' = [library EXCEPT ![o] = NULL]
      /\ names' = names /\ silent' = silent /\ doing' = doing
  BY DEF Libraries!Finalizes
<1>2. /\ library'[o] = NULL
      /\ \A p \in Objects \ {o} : library'[p] = library[p]
      /\ library' \in [Objects -> Library \cup {NULL}]
  BY <1>1 DEF ProcessInv, LibraryTypes
<1>3. LibraryTypes'
  BY <1>1, <1>2 DEF ProcessInv, LibraryTypes
<1>4. ObjectsOK'
  BY <1>1, <1>2 DEF ProcessInv, ObjectsOK, Objects
<1>5. SignsOK'
  BY <1>1 DEF ProcessInv, SignsOK, Ready
<1> QED
  BY <1>3, <1>4, <1>5 DEF ProcessInv

\* Steps that leave the libraries alone.
LEMMA LibrariesKept ==
    ASSUME ProcessInv, UNCHANGED margo, \A c \in Clients : client'[c] = client[c]
    PROVE  ProcessInv'
BY DEF margo, ProcessInv, LibraryTypes, ObjectsOK, SignsOK, Ready

-----------------------------------------------------------------------------
(* A process uses its handles as SomaClient has it. *)

\* Each step of the process is one of its handles and clients, or none.
LEMMA ProcessSteps == [ProcessNext]_<<vars, margo>> => [Next]_vars
BY DEF ProcessNext, soma_init_client, soma_finalize_client, Admin, UsesHandles,
       Next, vars

\* The process behaves as SomaClient says, so that what is proved of handles
\* and their counters holds in it, and each call is made through an owner
\* that was initialised.
THEOREM ProcessIsClient == ProcessSpec => Spec
<1>1. ProcessInit => Init
  BY DEF ProcessInit
<1> QED
  BY <1>1, ProcessSteps, PTL DEF ProcessSpec, Spec

\* Handles live exactly as long as they are referred to, and clients count
\* them, also while other clients and admins of the process are initialised
\* step by step.
THEOREM ProcessCountsHandles == ProcessSpec => [](RefcountExact /\ HandleCountExact)
BY ProcessIsClient, RefcountsExact, HandleCountsExact, PTL

\* And a process that finalizes its clients after releasing their handles
\* never makes a call follow a pointer to either.
THEOREM ProcessMemorySafe == ASSUME Orderly PROVE ProcessSpec => []NoDanglingUse
BY ProcessIsClient, ClientMemorySafe, PTL

-----------------------------------------------------------------------------
(* The invariant. *)

LEMMA ProcessInitially == ProcessInit => ProcessInv
<1>. SUFFICES ASSUME ProcessInit PROVE ProcessInv
  OBVIOUS
<1>1. /\ names = {} /\ silent = {} /\ doing = [o \in Objects |-> NULL]
      /\ library = [o \in Objects |-> NULL] /\ client = [c \in Clients |-> "none"]
  BY DEF ProcessInit, Init, Libraries!Init, Objects
<1>2. LibraryTypes
  BY <1>1 DEF LibraryTypes
<1>3. ObjectsOK
  BY <1>1 DEF ObjectsOK, Objects
<1>4. SignsOK
  BY <1>1 DEF SignsOK
<1> QED
  BY <1>2, <1>3, <1>4 DEF ProcessInv

LEMMA ClientStep ==
    ASSUME ClientInv, ProcessInv, Serial, NEW c \in Clients,
           soma_init_client(c) \/ soma_finalize_client(c)
    PROVE  ProcessInv'
<1>1. c \in Objects /\ KindOf(c) = "client"
  BY DEF Objects, KindOf
<1>2. CASE soma_init_client(c)
  <2>1. \/ library'[c] = NULL /\ client[c] = "none" /\ client' = client
        \/ library'[c] # NULL /\ client[c] = "none" /\ client' = [client EXCEPT ![c] = "up"]
    BY <1>2 DEF soma_init_client, soma_client_init, vars
  <2>2. \/ library'[c] = NULL /\ client[c] = "none" /\ client'[c] = client[c]
        \/ library'[c] # NULL /\ client[c] = "none" /\ client'[c] = "up"
    BY <2>1 DEF ClientInv, TypeOK
  <2>3. \A d \in Clients \ {c} : client'[d] = client[d]
    BY <2>1 DEF ClientInv, TypeOK
  <2>4. \/ Libraries!Finds(c, KindOf(c))
        \/ Libraries!Misses(c, KindOf(c))
        \/ Libraries!GoesOn(c, KindOf(c))
    BY <1>1, <1>2 DEF soma_init_client, Libraries!soma_client_init
  <2> QED
    BY <1>1, <2>2, <2>3, <2>4, InitSteps
<1>3. CASE soma_finalize_client(c)
  <2>1. /\ client[c] = "up" /\ client' = [client EXCEPT ![c] = "freed"]
        /\ Libraries!Finalizes(c, KindOf(c))
    BY <1>1, <1>3 DEF soma_finalize_client, soma_client_finalize,
                      Libraries!soma_client_finalize
  <2>2. client'[c] = "freed" /\ \A d \in Clients \ {c} : client'[d] = client[d]
    BY <2>1 DEF ClientInv, TypeOK
  <2> QED
    BY <1>1, <2>1, <2>2, FinalizeStep
<1> QED
  BY <1>2, <1>3

LEMMA AdminStep ==
    ASSUME ProcessInv, Serial, NEW a \in Admins, Admin(a) PROVE ProcessInv'
<1>1. a \in Objects /\ a \notin Clients /\ KindOf(a) = "admin" /\ client' = client
  BY ProcessAssumption DEF Objects, KindOf, Admin, vars
<1>2. CASE Libraries!soma_admin_init(a)
  BY <1>1, <1>2, InitSteps DEF Libraries!soma_admin_init
<1>3. CASE Libraries!soma_admin_finalize(a)
  BY <1>1, <1>3, FinalizeStep DEF Libraries!soma_admin_finalize
<1> QED
  BY <1>2, <1>3 DEF Admin

\* What a process does with its handles leaves its clients alone.
LEMMA HandlesStep ==
    ASSUME ProcessInv, UsesHandles \/ UNCHANGED <<vars, margo>>
    PROVE  ProcessInv'
<1>1. client' = client /\ UNCHANGED margo
  BY DEF UsesHandles, vars, soma_collector_handle_create, soma_collector_handle_ref_incr,
         soma_collector_handle_release, ReleaseLast, ReleaseShared,
         soma_say_hello, soma_compute_sum, Forward, Returns
<1> QED
  BY <1>1, LibrariesKept

LEMMA ProcessNextKeeps ==
    ASSUME Serial
    PROVE  ClientInv /\ ProcessInv /\ [ProcessNext]_<<vars, margo>> => ProcessInv'
BY ClientStep, AdminStep, HandlesStep DEF ProcessNext

LEMMA ProcessInvariant == ASSUME Serial PROVE ProcessSpec => []ProcessInv
<1>1. ClientInv /\ ProcessInv /\ [ProcessNext]_<<vars, margo>> => ProcessInv'
  BY ProcessNextKeeps
<1> QED
  BY <1>1, ProcessIsClient, ClientInvariant, ProcessInitially, PTL DEF ProcessSpec

\* If initialisations of one library do not overlap, a client or admin has the
\* ids of all its RPCs, whoever registered them: the first name is a sign of
\* the others.
THEOREM LibrariesComplete == ASSUME Serial PROVE ProcessSpec => []IdsComplete
<1>1. ProcessInv => IdsComplete
  BY ProcessAssumption DEF ProcessInv, ObjectsOK, IdsComplete, Objects, KindOf
<1> QED
  BY <1>1, ProcessInvariant, PTL

\* Under the same condition no hello is sent before its response was disabled,
\* also by a client that found the names registered by another.
THEOREM HelloNeverWaits == ASSUME Serial PROVE ProcessSpec => []HelloSilent
<1>. DEFINE Inv == ClientInv /\ ProcessInv /\ HelloSilent
<1>1. ProcessInit => HelloSilent
  BY DEF ProcessInit, Init, HelloSilent
<1>2. ClientInv /\ ProcessInv /\ HelloSilent /\ [ProcessNext]_<<vars, margo>> => HelloSilent'
  <2>. SUFFICES ASSUME ClientInv, ProcessInv, HelloSilent, [ProcessNext]_<<vars, margo>>,
                       NEW t \in Threads, call'[t] = "hello"
                PROVE  "soma_hello" \in silent'
    BY DEF HelloSilent
  <2>1. silent \subseteq silent'
    BY DEF ProcessNext, soma_init_client, soma_finalize_client, Admin, UsesHandles, margo,
           Libraries!soma_client_init, Libraries!soma_admin_init,
           Libraries!soma_client_finalize, Libraries!soma_admin_finalize,
           Libraries!Finds, Libraries!Misses, Libraries!GoesOn, Libraries!RegistersName,
           Libraries!InitReturns, Libraries!Finalizes
  <2>2. CASE call[t] = "hello"
    BY <2>1, <2>2 DEF HelloSilent
  <2>3. CASE call[t] # "hello"
    <3>1. \E r \in Refs : ref[r] # NoHandle
      BY <2>3 DEF ClientInv, TypeOK, ProcessNext, soma_init_client, soma_finalize_client,
             Admin, UsesHandles, vars, soma_client_init, soma_client_finalize,
             soma_collector_handle_create, soma_collector_handle_ref_incr,
             soma_collector_handle_release, ReleaseLast, ReleaseShared,
             soma_say_hello, soma_compute_sum, Forward, Returns
    <3>2. PICK h \in Handles : handle[h] = "live" /\ client[owner[h]] # "none"
                               /\ owner[h] \in Clients
      <4>1. PICK r \in Refs : ref[r] \in Handles
        BY <3>1 DEF ClientInv, TypeOK
      <4>2. r \in Holders(ref[r])
        BY <4>1 DEF Holders
      <4> QED
        BY <4>1, <4>2 DEF ClientInv, TypeOK, RefcountExact, OwnerMade
    <3> QED
      BY <2>1, <3>2 DEF ProcessInv, SignsOK
  <2> QED
    BY <2>2, <2>3
<1> QED
  BY <1>1, <1>2, ProcessInvariant, ProcessIsClient, ClientInvariant, PTL DEF ProcessSpec

=============================================================================
