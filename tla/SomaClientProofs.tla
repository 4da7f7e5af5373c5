-------------------------- MODULE SomaClientProofs --------------------------
(***************************************************************************)
(* Proofs about the client library of SomaClient, for every number of      *)
(* clients, handles, references and calls in flight.                       *)
(***************************************************************************)
EXTENDS SomaClient, FiniteSetTheorems, TLAPS

\* An orderly application frees no client before its handles.
OwnerUp ==
    Orderly => \A h \in Handles : handle[h] = "live" => client[owner[h]] = "up"

\* A client object that was not made yet has no handles.
OwnerMade == \A h \in Handles : handle[h] = "live" => client[owner[h]] # "none"

ClientInv == TypeOK /\ RefcountExact /\ HandleCountExact /\ OwnerMade /\ OwnerUp

\* Sets of references and handles are finite, so that counts can be compared.
LEMMA CountedSets ==
    ASSUME TypeOK
    PROVE  /\ \A h : IsFiniteSet(Holders(h)) /\ Cardinality(Holders(h)) \in Nat
           /\ \A c : IsFiniteSet(HandlesOf(c)) /\ Cardinality(HandlesOf(c)) \in Nat
<1>1. ASSUME NEW h PROVE IsFiniteSet(Holders(h))
  <2>1. Holders(h) \in SUBSET Refs
    BY DEF Holders
  <2> QED
    BY <2>1, ClientAssumption, FS_Subset
<1>2. ASSUME NEW c PROVE IsFiniteSet(HandlesOf(c))
  <2>1. HandlesOf(c) \in SUBSET Handles
    BY DEF HandlesOf
  <2> QED
    BY <2>1, ClientAssumption, FS_Subset
<1> QED
  BY <1>1, <1>2, FS_CardinalityType

\* Adding a reference to a handle, and taking one away.
LEMMA HoldersStep ==
    ASSUME TypeOK, NEW h \in Handles, NEW r \in Refs, NEW k \in Handles \cup {NoHandle},
           ref' = [ref EXCEPT ![r] = k]
    PROVE  /\ h = k => Holders(h)' = Holders(h) \cup {r}
           /\ h # k => Holders(h)' = Holders(h) \ {r}
BY DEF TypeOK, Holders

LEMMA ClientInit == Init => ClientInv
<1> SUFFICES ASSUME Init PROVE ClientInv
  OBVIOUS
<1>1. TypeOK
  <2>1. dangling \in BOOLEAN
    BY Zenon DEF Init
  <2> QED
    BY <2>1 DEF Init, TypeOK
<1>2. RefcountExact
  <2>1. \A h \in Handles : Holders(h) = {}
    BY ClientAssumption DEF Init, Holders
  <2> QED
    BY <2>1, FS_EmptySet DEF Init, RefcountExact
<1>3. HandleCountExact
  BY DEF Init, HandleCountExact
<1>4. OwnerMade /\ OwnerUp
  BY DEF Init, OwnerMade, OwnerUp
<1> QED
  BY <1>1, <1>2, <1>3, <1>4 DEF ClientInv

LEMMA TypeNext == TypeOK /\ [Next]_vars => TypeOK'
<1> SUFFICES ASSUME TypeOK, [Next]_vars PROVE TypeOK'
  OBVIOUS
<1>. USE DEF TypeOK
<1>1. ASSUME NEW c \in Clients, soma_client_init(c) PROVE TypeOK'
  BY <1>1 DEF soma_client_init
<1>2. ASSUME NEW c \in Clients, soma_client_finalize(c) PROVE TypeOK'
  BY <1>2 DEF soma_client_finalize
<1>3. ASSUME NEW c \in Clients, NEW h \in Handles, NEW r \in Refs,
             soma_collector_handle_create(c, h, r)
      PROVE  TypeOK'
  BY <1>3 DEF soma_collector_handle_create
<1>4. ASSUME NEW r \in Refs, NEW s \in Refs, soma_collector_handle_ref_incr(r, s)
      PROVE  TypeOK'
  BY <1>4 DEF soma_collector_handle_ref_incr, UsesHandle
<1>5. ASSUME NEW r \in Refs, ReleaseLast(r) PROVE TypeOK'
  BY <1>5 DEF ReleaseLast, UsesClientOf, UsesHandle
<1>6. ASSUME NEW r \in Refs, ReleaseShared(r) PROVE TypeOK'
  BY <1>6 DEF ReleaseShared, UsesHandle
<1>7. ASSUME NEW t \in Threads, NEW r \in Refs, NEW op \in {"hello", "sum"},
             Forward(t, op, r)
      PROVE  TypeOK'
  BY <1>7 DEF Forward, UsesClientOf, UsesHandle
<1>8. ASSUME NEW t \in Threads, NEW op \in {"hello", "sum"}, Returns(t, op)
      PROVE  TypeOK'
  BY <1>8 DEF Returns
<1>9. CASE UNCHANGED vars
  BY <1>9 DEF vars
<1> QED
  BY <1>1, <1>2, <1>3, <1>4, <1>5, <1>6, <1>7, <1>8, <1>9
     DEF Next, soma_collector_handle_release, soma_say_hello, soma_compute_sum

\* Steps that make no reference, free none and touch no counter.
LEMMA RefsFrame ==
    ASSUME RefcountExact, UNCHANGED <<handle, refcount, ref>>
    PROVE  RefcountExact'
BY DEF RefcountExact, Holders

LEMMA RefcountNext == ClientInv /\ [Next]_vars => RefcountExact'
<1> SUFFICES ASSUME ClientInv, [Next]_vars PROVE RefcountExact'
  OBVIOUS
<1>0. TypeOK /\ RefcountExact
  BY DEF ClientInv
<1>1. ASSUME NEW c \in Clients, NEW h \in Handles, NEW r \in Refs,
             soma_collector_handle_create(c, h, r)
      PROVE  RefcountExact'
  <2>1. Holders(h) = {} /\ Holders(h)' = {r}
    BY <1>0, <1>1, HoldersStep, ZenonT(60) DEF soma_collector_handle_create, RefcountExact
  <2>2. Cardinality(Holders(h)') = 1
    BY <2>1, FS_Singleton
  <2>3. ASSUME NEW k \in Handles, k # h PROVE Holders(k)' = Holders(k)
    BY <1>0, <1>1, <2>3, ClientAssumption, HoldersStep
       DEF soma_collector_handle_create, Holders
  <2> QED
    BY <1>0, <1>1, <2>1, <2>2, <2>3
       DEF soma_collector_handle_create, RefcountExact, TypeOK
<1>2. ASSUME NEW r \in Refs, NEW s \in Refs, soma_collector_handle_ref_incr(r, s)
      PROVE  RefcountExact'
  <2>0. PICK h \in Handles : h = ref[r]
    BY <1>0, <1>2 DEF soma_collector_handle_ref_incr, TypeOK
  <2>1. h \in Handles /\ s \notin Holders(h) /\ r \in Holders(h)
    BY <1>0, <1>2, <2>0 DEF soma_collector_handle_ref_incr, TypeOK, Holders
  <2>2. Holders(h)' = Holders(h) \cup {s}
    BY <1>0, <1>2, <2>0, <2>1, HoldersStep DEF soma_collector_handle_ref_incr
  <2>3. Cardinality(Holders(h)') = Cardinality(Holders(h)) + 1
    BY <1>0, <2>1, <2>2, CountedSets, FS_AddElement, SMTT(30)
  <2>4. ASSUME NEW k \in Handles, k # h PROVE Holders(k)' = Holders(k)
    BY <1>0, <1>2, <2>0, <2>4, ClientAssumption
       DEF soma_collector_handle_ref_incr, Holders, TypeOK
  <2> QED
    BY <1>0, <1>2, <2>0, <2>1, <2>2, <2>3, <2>4, ZenonT(60)
       DEF soma_collector_handle_ref_incr, RefcountExact, TypeOK
<1>3. ASSUME NEW r \in Refs, soma_collector_handle_release(r)
      PROVE  RefcountExact'
  <2>0. PICK h \in Handles : h = ref[r]
    BY <1>0, <1>3
       DEF soma_collector_handle_release, ReleaseLast, ReleaseShared, TypeOK
  <2>1. h \in Handles /\ r \in Holders(h) /\ ref' = [ref EXCEPT ![r] = NoHandle]
    BY <1>0, <1>3, <2>0
       DEF soma_collector_handle_release, ReleaseLast, ReleaseShared, TypeOK, Holders
  <2>2. Holders(h)' = Holders(h) \ {r}
    BY <1>0, <2>1, HoldersStep, ClientAssumption
  <2>3. /\ Cardinality(Holders(h)') = Cardinality(Holders(h)) - 1
        /\ Cardinality(Holders(h)') = 0 <=> Holders(h)' = {}
    BY <1>0, <2>1, <2>2, CountedSets, FS_RemoveElement, FS_EmptySet
  <2>4. ASSUME NEW k \in Handles, k # h PROVE Holders(k)' = Holders(k)
    BY <1>0, <2>0, <2>1, <2>4, ClientAssumption DEF Holders, TypeOK
  <2>5. /\ refcount'[h] = refcount[h] - 1
        /\ handle'[h] = "live" <=> refcount'[h] # 0
        /\ \A k \in Handles \ {h} : refcount'[k] = refcount[k] /\ handle'[k] = handle[k]
    BY <1>0, <1>3, <2>0, <2>1
       DEF soma_collector_handle_release, ReleaseLast, ReleaseShared, TypeOK,
           RefcountExact
  <2>6. ASSUME NEW k \in Handles
        PROVE  /\ refcount'[k] = Cardinality(Holders(k)')
               /\ handle'[k] = "live" <=> Holders(k)' # {}
    BY <1>0, <2>1, <2>3, <2>4, <2>5 DEF RefcountExact
  <2> QED
    BY <2>6 DEF RefcountExact
<1>4. CASE UNCHANGED <<handle, refcount, ref>>
  BY <1>0, <1>4, RefsFrame
<1> QED
  BY <1>1, <1>2, <1>3, <1>4
     DEF Next, soma_client_init, soma_client_finalize, soma_say_hello,
         soma_compute_sum, Forward, Returns, vars

LEMMA HandleCountNext ==
    ClientInv /\ [Next]_vars => HandleCountExact' /\ OwnerMade' /\ OwnerUp'
<1> SUFFICES ASSUME ClientInv, [Next]_vars
             PROVE  HandleCountExact' /\ OwnerMade' /\ OwnerUp'
  OBVIOUS
<1>0. TypeOK /\ RefcountExact /\ HandleCountExact /\ OwnerMade /\ OwnerUp
  BY DEF ClientInv
<1>1. ASSUME NEW c \in Clients, soma_client_init(c)
      PROVE  HandleCountExact' /\ OwnerMade' /\ OwnerUp'
  <2>1. HandlesOf(c)' = {}
    BY <1>0, <1>1 DEF soma_client_init, OwnerMade, HandlesOf
  <2>2. \A d \in Clients : HandlesOf(d)' = HandlesOf(d)
    BY <1>1 DEF soma_client_init, HandlesOf
  <2> QED
    BY <1>0, <1>1, <2>1, <2>2, FS_EmptySet
       DEF soma_client_init, HandleCountExact, OwnerMade, OwnerUp, TypeOK
<1>2. ASSUME NEW c \in Clients, soma_client_finalize(c)
      PROVE  HandleCountExact' /\ OwnerMade' /\ OwnerUp'
  <2>1. \A d \in Clients : HandlesOf(d)' = HandlesOf(d)
    BY <1>2 DEF soma_client_finalize, HandlesOf
  <2> QED
    BY <1>0, <1>2, <2>1
       DEF soma_client_finalize, HandleCountExact, OwnerMade, OwnerUp, TypeOK
<1>3. ASSUME NEW c \in Clients, NEW h \in Handles, NEW r \in Refs,
             soma_collector_handle_create(c, h, r)
      PROVE  HandleCountExact' /\ OwnerMade' /\ OwnerUp'
  <2>1. h \notin HandlesOf(c) /\ HandlesOf(c)' = HandlesOf(c) \cup {h}
    BY <1>0, <1>3 DEF soma_collector_handle_create, HandlesOf, TypeOK
  <2>2. \A d \in Clients \ {c} : HandlesOf(d)' = HandlesOf(d)
    BY <1>0, <1>3 DEF soma_collector_handle_create, HandlesOf, TypeOK
  <2>3. Cardinality(HandlesOf(c)') = Cardinality(HandlesOf(c)) + 1
    BY <1>0, <2>1, CountedSets, FS_AddElement
  <2> QED
    BY <1>0, <1>3, <2>2, <2>3
       DEF soma_collector_handle_create, HandleCountExact, OwnerMade, OwnerUp,
           TypeOK
<1>4. ASSUME NEW r \in Refs, ReleaseLast(r)
      PROVE  HandleCountExact' /\ OwnerMade' /\ OwnerUp'
  <2>0. PICK h \in Handles, c \in Clients : h = ref[r] /\ c = owner[h]
    BY <1>0, <1>4 DEF ReleaseLast, TypeOK
  <2>1. handle[h] = "live"
    BY <1>0, <1>4, <2>0 DEF ReleaseLast, TypeOK, RefcountExact, Holders
  <2>2. h \in HandlesOf(c) /\ HandlesOf(c)' = HandlesOf(c) \ {h}
    BY <1>0, <1>4, <2>0, <2>1 DEF ReleaseLast, HandlesOf, TypeOK
  <2>3. \A d \in Clients \ {c} : HandlesOf(d)' = HandlesOf(d)
    BY <1>0, <1>4, <2>0, <2>1 DEF ReleaseLast, HandlesOf, TypeOK
  <2>4. Cardinality(HandlesOf(c)') = Cardinality(HandlesOf(c)) - 1
    BY <1>0, <2>2, CountedSets, FS_RemoveElement
  <2> QED
    BY <1>0, <1>4, <2>0, <2>1, <2>3, <2>4
       DEF ReleaseLast, HandleCountExact, OwnerMade, OwnerUp, TypeOK
<1>5. CASE UNCHANGED <<client, num_collector_handles, handle, owner>>
  <2>1. \A d \in Clients : HandlesOf(d)' = HandlesOf(d)
    BY <1>5 DEF HandlesOf
  <2> QED
    BY <1>0, <1>5, <2>1 DEF HandleCountExact, OwnerMade, OwnerUp
<1> QED
  BY <1>1, <1>2, <1>3, <1>4, <1>5
     DEF Next, soma_collector_handle_ref_incr, soma_collector_handle_release,
         ReleaseShared, soma_say_hello, soma_compute_sum, Forward, Returns, vars

LEMMA ClientNext == ClientInv /\ [Next]_vars => ClientInv'
BY TypeNext, RefcountNext, HandleCountNext DEF ClientInv

LEMMA ClientInvariant == Spec => []ClientInv
BY ClientInit, ClientNext, PTL DEF Spec

\* Whatever the application does with its references, a handle lives exactly
\* as long as there is one, and its reference count is their number.
THEOREM RefcountsExact == Spec => []RefcountExact
<1>1. ClientInv => RefcountExact
  BY DEF ClientInv
<1> QED
  BY <1>1, ClientInvariant, PTL

\* And a client's counter counts its live handles.
THEOREM HandleCountsExact == Spec => []HandleCountExact
<1>1. ClientInv => HandleCountExact
  BY DEF ClientInv
<1> QED
  BY <1>1, ClientInvariant, PTL

\* An application that finalizes a client after releasing its handles never
\* makes the library follow a pointer to either, although calls in flight
\* hold no reference of their own.
THEOREM ClientMemorySafe == ASSUME Orderly PROVE Spec => []NoDanglingUse
<1>. DEFINE Inv == ClientInv /\ NoDanglingUse
<1>1. Init => Inv
  BY ClientInit DEF Init, NoDanglingUse
<1>2. Inv /\ [Next]_vars => Inv'
  <2> SUFFICES ASSUME Inv, [Next]_vars PROVE NoDanglingUse'
    BY ClientNext
  <2>1. ASSUME NEW r \in Refs, ref[r] # NoHandle
        PROVE  ~UsesHandle(ref[r]) /\ ~UsesClientOf(ref[r])
    <3>1. ref[r] \in Handles /\ r \in Holders(ref[r])
      BY <2>1 DEF ClientInv, TypeOK, Holders
    <3>2. handle[ref[r]] = "live"
      BY <3>1 DEF ClientInv, RefcountExact
    <3> QED
      BY <3>1, <3>2 DEF ClientInv, OwnerUp, UsesHandle, UsesClientOf
  <2> QED
    BY <2>1
       DEF Next, soma_client_init, soma_client_finalize,
           soma_collector_handle_create, soma_collector_handle_ref_incr,
           soma_collector_handle_release, ReleaseLast, ReleaseShared,
           soma_say_hello, soma_compute_sum, Forward, Returns, vars,
           NoDanglingUse
<1> QED
  BY <1>1, <1>2, PTL DEF Spec

=============================================================================
