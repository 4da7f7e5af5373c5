------------------------ MODULE SomaLifecycleProofs -------------------------
(***************************************************************************)
(* Proofs about the life of the providers of one Margo instance, for every *)
(* number of threads, handlers, providers and provider ids.                *)
(***************************************************************************)
EXTENDS SomaLifecycle, SequenceTheorems, TLAPS

-----------------------------------------------------------------------------
(* The inductive invariant. *)

Providers == [id : ProviderIds, cols : Nat, dummy : BOOLEAN]

\* Where a thread may be, and what it has in hand there.
Whereabouts ==
    {Idle} \cup [at : {"alloc"}, id : ProviderIds, keep : BOOLEAN, prov : {NULL}]
           \cup [at : {"register", "data"}, id : ProviderIds, keep : BOOLEAN,
                 prov : Blocks, n : 1 .. 7]
           \cup [at : {"push"}, id : ProviderIds, keep : BOOLEAN, prov : Blocks, n : {8}]
           \cup [at : {"deregister"}, prov : Blocks, n : 1 .. 7, for : {"destroy", "margo"}]
           \cup [at : {"close", "closing"}, prov : Blocks, n : {8},
                 for : {"destroy", "margo"}, left : Nat]
           \cup [at : {"callback"}, prov : {NULL}]

LifecycleTypes ==
    /\ mid \in {"up", "finalizing", "finalized"}
    /\ one_stream \in BOOLEAN
    /\ route \in [ProviderIds -> [Range(Rpcs) -> Blocks \cup {NULL, Unregistered}]]
    /\ callbacks \in Seq(Blocks)
    /\ heap \in [Blocks -> Providers \cup {NULL}]
    /\ doing \in [Threads -> Whereabouts]
    /\ kept \in SUBSET Blocks
    /\ call \in [Ults -> {NoCall} \cup [at : {"ready", "serving"}, id : ProviderIds,
                                      rpc : Range(Rpcs), prov : Blocks \cup {NULL}]]
    /\ wild \in BOOLEAN

\* A thread that has a provider in hand, to complete it or to finalize it.
Busy(t) == doing[t].at \in {"register", "data", "push", "deregister", "close", "closing"}

\* A provider that is allocated is in the hands of one thread, or is up, complete
\* and has a finalize callback, which is the only one it has.
BlocksOK ==
    /\ \A t \in Threads : Busy(t) => heap[doing[t].prov] # NULL
    /\ \A s, t \in Threads : Busy(s) /\ Busy(t) /\ doing[s].prov = doing[t].prov => s = t
    /\ \A t \in Threads : doing[t].at \in {"register", "data", "push"}
                             => heap[doing[t].prov].id = doing[t].id
    /\ Range(callbacks) = Up
    /\ IsInjective(callbacks)
    /\ \A p \in Up : heap[p].dummy

\* A thread that has a provider id to itself; the id; and what it has made so
\* far of the route of its k-th RPC.
HoldsId(t) == doing[t].at \in {"alloc", "register", "data", "push", "deregister"}
IdOf(t) == IF doing[t].at = "deregister" THEN heap[doing[t].prov].id ELSE doing[t].id
RouteMade(t, k) ==
    IF doing[t].at = "alloc" THEN Unregistered
    ELSE IF doing[t].at = "deregister"
         THEN IF k < doing[t].n THEN Unregistered ELSE doing[t].prov
    ELSE IF k < doing[t].n THEN doing[t].prov
    ELSE IF k = doing[t].n /\ doing[t].at = "data" THEN NULL
    ELSE Unregistered

\* A provider id has one owner at most, an up provider or a thread, which has
\* made its routes what they are.
RoutesOK ==
    /\ \A t \in Threads : HoldsId(t) =>
          \A k \in 1 .. 7 : route[IdOf(t)][Rpcs[k]] = RouteMade(t, k)
    /\ \A s, t \in Threads : HoldsId(s) /\ HoldsId(t) /\ IdOf(s) = IdOf(t) => s = t
    /\ \A p \in Up, t \in Threads : HoldsId(t) => IdOf(t) # heap[p].id
    /\ \A p \in Up, k \in 1 .. 7 : route[heap[p].id][Rpcs[k]] = p
    /\ \A i \in ProviderIds, k \in 1 .. 7 : route[i][Rpcs[k]] # Unregistered =>
          \/ \E p \in Up : heap[p].id = i
          \/ \E t \in Threads : HoldsId(t) /\ IdOf(t) = i

\* A request that is being handled is for a provider that is up.
CallsOK ==
    \A u \in Ults : call[u].at # "idle" =>
        /\ mid = "up"
        /\ \E p \in Up : /\ heap[p].id = call[u].id
                         /\ call[u].at = "serving" => call[u].prov = p

\* Registrations and destructions begin while the instance is up; one thread
\* then runs the callbacks that are left.
MidOK ==
    /\ mid # "up" => kept = {} /\ Registering = {}
    /\ \A t \in Threads :
          \/ doing[t].at = "callback"
          \/ doing[t].at \in {"deregister", "close", "closing"} /\ doing[t].for = "margo"
          => mid = "finalizing"
    /\ mid = "finalized" => callbacks = <<>> /\ \A t \in Threads : doing[t].at = "idle"
    /\ kept \subseteq Range(callbacks)
    /\ ~wild

LifecycleInv == LifecycleTypes /\ BlocksOK /\ RoutesOK /\ CallsOK /\ MidOK

\* The loop over the collectors is as far from its end as the hash is from being
\* empty.
NextOK ==
    \A t \in Threads : doing[t].at \in {"close", "closing"} =>
        doing[t].left = heap[doing[t].prov].cols

\* soma_hello, the sixth RPC, has no response from its registration on.
SilentOK ==
    /\ \A p \in Up : heap[p].id \in silent
    /\ \A t \in Threads : doing[t].at \in {"register", "data", "push"} /\ doing[t].n > 6
                             => doing[t].id \in silent

-----------------------------------------------------------------------------
(* The RPCs, and where a thread may be. *)

\* The seven RPCs are distinct, and soma_sum is the last.
LEMMA RpcNames ==
    /\ Len(Rpcs) = 7
    /\ \A k \in 1 .. 7 : Rpcs[k] \in Range(Rpcs)
    /\ \A r \in Range(Rpcs) : \E k \in 1 .. 7 : r = Rpcs[k]
    /\ \A j, k \in 1 .. 7 : Rpcs[j] = Rpcs[k] => j = k
    /\ Rpcs[6] = "soma_hello" /\ Rpcs[7] = "soma_sum"
<1>1. Len(Rpcs) = 7 /\ DOMAIN Rpcs = 1 .. 7
  BY DEF Rpcs
<1>2. \A j, k \in 1 .. 7 : Rpcs[j] = Rpcs[k] => j = k
  BY DEF Rpcs
<1>3. Rpcs[6] = "soma_hello" /\ Rpcs[7] = "soma_sum"
  BY DEF Rpcs
<1> QED
  BY <1>1, <1>2, <1>3 DEF Range

\* What a thread has in hand, by where it is.
LEMMA InHand ==
    ASSUME NEW x \in Whereabouts
    PROVE  /\ x.at \in {"idle", "alloc", "register", "data", "push", "deregister",
                        "close", "closing", "callback"}
           /\ x.at = "idle" => x = Idle
           /\ x.at = "alloc" => x.id \in ProviderIds /\ x.prov = NULL /\ x.keep \in BOOLEAN
           /\ x.at \in {"register", "data", "push"} =>
                 x.id \in ProviderIds /\ x.prov \in Blocks /\ x.keep \in BOOLEAN
           /\ x.at \in {"deregister", "close", "closing"} =>
                 x.prov \in Blocks /\ x.for \in {"destroy", "margo"}
           /\ x.at \in {"register", "data", "deregister"} => x.n \in 1 .. 7
           /\ x.at \in {"push", "close", "closing"} => x.n = 8
           /\ x.at \in {"close", "closing"} => x.left \in Nat
           /\ x.at = "callback" => x.prov = NULL
BY DEF Whereabouts, Idle

\* A registration goes on: the RPC, its data, the next RPC or the callback.
LEMMA GoesToData ==
    ASSUME NEW x \in Whereabouts, x.at = "register"
    PROVE  LET y == [x EXCEPT !.at = "data"]
           IN  y \in Whereabouts /\ y.at = "data" /\ y.id = x.id /\ y.prov = x.prov /\ y.n = x.n
<1>. DEFINE y == [x EXCEPT !.at = "data"]
<1>1. x \in [at : {"register", "data"}, id : ProviderIds, keep : BOOLEAN,
             prov : Blocks, n : 1 .. 7]
  BY DEF Whereabouts, Idle
<1>2. y \in [at : {"register", "data"}, id : ProviderIds, keep : BOOLEAN,
             prov : Blocks, n : 1 .. 7]
  BY <1>1
<1>3. y \in Whereabouts
  BY <1>2 DEF Whereabouts
<1> QED
  BY <1>1, <1>3

\* A registration goes from one RPC to the next.
LEMMA GoesToNextRpc ==
    ASSUME NEW x \in Whereabouts, x.at = "data", x.n # 7
    PROVE  LET y == [x EXCEPT !.at = "register", !.n = x.n + 1]
           IN  y \in Whereabouts /\ y.at = "register" /\ y.id = x.id /\ y.prov = x.prov /\ y.n = x.n + 1
<1>. DEFINE y == [x EXCEPT !.at = "register", !.n = x.n + 1]
<1>1. x \in [at : {"register", "data"}, id : ProviderIds, keep : BOOLEAN,
             prov : Blocks, n : 1 .. 7]
  BY DEF Whereabouts, Idle
<1>2. x.n + 1 \in 1 .. 7
  BY <1>1
<1>3. y \in [at : {"register", "data"}, id : ProviderIds, keep : BOOLEAN,
             prov : Blocks, n : 1 .. 7]
  BY <1>1, <1>2
<1>4. y \in Whereabouts
  BY <1>3 DEF Whereabouts
<1> QED
  BY <1>1, <1>4

\* From the last RPC it goes to the finalize callback.
LEMMA GoesToPush ==
    ASSUME NEW x \in Whereabouts, x.at = "data", x.n = 7
    PROVE  LET y == [x EXCEPT !.at = "push", !.n = x.n + 1]
           IN  y \in Whereabouts /\ y.at = "push" /\ y.id = x.id /\ y.prov = x.prov /\ y.n = 8
<1>. DEFINE y == [x EXCEPT !.at = "push", !.n = x.n + 1]
<1>1. x \in [at : {"register", "data"}, id : ProviderIds, keep : BOOLEAN,
             prov : Blocks, n : 1 .. 7]
  BY DEF Whereabouts, Idle
<1>2. x.n + 1 \in {8}
  BY <1>1
<1>3. y \in [at : {"push"}, id : ProviderIds, keep : BOOLEAN, prov : Blocks, n : {8}]
  BY <1>1, <1>2
<1>4. y \in Whereabouts
  BY <1>3 DEF Whereabouts
<1> QED
  BY <1>1, <1>4

\* A finalisation goes on: the next RPC, or the collectors one by one.
LEMMA DeregistersNext ==
    ASSUME NEW x \in Whereabouts, x.at = "deregister", x.n # 7
    PROVE  LET y == [x EXCEPT !.n = x.n + 1]
           IN  y \in Whereabouts /\ y.at = "deregister" /\ y.prov = x.prov /\ y.for = x.for /\ y.n = x.n + 1
<1>. DEFINE y == [x EXCEPT !.n = x.n + 1]
<1>1. x \in [at : {"deregister"}, prov : Blocks, n : 1 .. 7, for : {"destroy", "margo"}]
  BY DEF Whereabouts, Idle
<1>2. x.n + 1 \in 1 .. 7
  BY <1>1
<1>3. y \in [at : {"deregister"}, prov : Blocks, n : 1 .. 7, for : {"destroy", "margo"}]
  BY <1>1, <1>2
<1>4. y \in Whereabouts
  BY <1>3 DEF Whereabouts
<1> QED
  BY <1>1, <1>4

\* A destruction goes from the last RPC to the collectors.
LEMMA DeregistersLast ==
    ASSUME NEW x \in Whereabouts, x.at = "deregister", x.n = 7, NEW left \in Nat
    PROVE  LET y == [at |-> "close", prov |-> x.prov, n |-> x.n + 1, for |-> x.for,
                     left |-> left]
           IN  y \in Whereabouts /\ y.at = "close" /\ y.prov = x.prov /\ y.for = x.for
                  /\ y.left = left
<1>. DEFINE y == [at |-> "close", prov |-> x.prov, n |-> x.n + 1, for |-> x.for,
                  left |-> left]
<1>1. x \in [at : {"deregister"}, prov : Blocks, n : 1 .. 7, for : {"destroy", "margo"}]
  BY DEF Whereabouts, Idle
<1>2. x.n + 1 \in {8}
  BY <1>1
<1>3. y \in [at : {"close", "closing"}, prov : Blocks, n : {8},
             for : {"destroy", "margo"}, left : Nat]
  BY <1>1, <1>2
<1>4. y \in Whereabouts
  BY <1>3 DEF Whereabouts
<1> QED
  BY <1>1, <1>4

LEMMA GoesToClosing ==
    ASSUME NEW x \in Whereabouts, x.at = "close", NEW left \in Nat
    PROVE  LET y == [x EXCEPT !.at = "closing", !.left = left]
           IN  y \in Whereabouts /\ y.at = "closing" /\ y.prov = x.prov /\ y.for = x.for
                  /\ y.left = left
<1>. DEFINE y == [x EXCEPT !.at = "closing", !.left = left]
<1>1. x \in [at : {"close", "closing"}, prov : Blocks, n : {8},
             for : {"destroy", "margo"}, left : Nat]
  BY DEF Whereabouts, Idle
<1>2. y \in [at : {"close", "closing"}, prov : Blocks, n : {8},
             for : {"destroy", "margo"}, left : Nat]
  BY <1>1
<1>3. y \in Whereabouts
  BY <1>2 DEF Whereabouts
<1> QED
  BY <1>1, <1>3

LEMMA GoesBackToClose ==
    ASSUME NEW x \in Whereabouts, x.at = "closing"
    PROVE  LET y == [x EXCEPT !.at = "close"]
           IN  y \in Whereabouts /\ y.at = "close" /\ y.prov = x.prov /\ y.for = x.for
                  /\ y.left = x.left
<1>. DEFINE y == [x EXCEPT !.at = "close"]
<1>1. x \in [at : {"close", "closing"}, prov : Blocks, n : {8},
             for : {"destroy", "margo"}, left : Nat]
  BY DEF Whereabouts, Idle
<1>2. y \in [at : {"close", "closing"}, prov : Blocks, n : {8},
             for : {"destroy", "margo"}, left : Nat]
  BY <1>1
<1>3. y \in Whereabouts
  BY <1>2 DEF Whereabouts
<1> QED
  BY <1>1, <1>3

\* Where a thread goes, and that the others stay where they are.
LEMMA GoesThere ==
    ASSUME LifecycleTypes, NEW t \in Threads, NEW x \in Whereabouts, Goes(t, x)
    PROVE  /\ doing' \in [Threads -> Whereabouts]
           /\ doing'[t] = x
           /\ \A s \in Threads \ {t} : doing'[s] = doing[s]
BY DEF LifecycleTypes, Goes

\* The places a thread may go to from nowhere.
LEMMA Beginnings ==
    /\ Idle \in Whereabouts
    /\ \A i \in ProviderIds, keep \in BOOLEAN :
          [at |-> "alloc", id |-> i, keep |-> keep, prov |-> NULL] \in Whereabouts
    /\ \A i \in ProviderIds, keep \in BOOLEAN, p \in Blocks :
          [at |-> "register", id |-> i, keep |-> keep, prov |-> p, n |-> 1] \in Whereabouts
    /\ \A p \in Blocks, for \in {"destroy", "margo"} :
          [at |-> "deregister", prov |-> p, n |-> 1, for |-> for] \in Whereabouts
    /\ [at |-> "callback", prov |-> NULL] \in Whereabouts
BY DEF Whereabouts

\* An allocated block is a provider.
LEMMA Allocations ==
    ASSUME LifecycleTypes, NEW p \in Blocks
    PROVE  heap[p] # NULL <=> heap[p] \in Providers
BY LifecycleAssumption DEF LifecycleTypes, Providers

-----------------------------------------------------------------------------
(* Sequences without duplicates. *)

\* A callback is pushed.
LEMMA Pushed ==
    ASSUME NEW S, NEW s \in Seq(S), NEW e \in S
    PROVE  /\ Append(s, e) \in Seq(S) /\ Range(Append(s, e)) = Range(s) \cup {e}
           /\ IsInjective(s) /\ e \notin Range(s) => IsInjective(Append(s, e))
<1>. DEFINE a == Append(s, e)
<1>1. /\ a \in Seq(S) /\ Len(a) = Len(s) + 1 /\ a[Len(s) + 1] = e
      /\ \A j \in 1 .. Len(s) : a[j] = s[j]
  BY AppendProperties
<1>2. DOMAIN a = 1 .. Len(s) + 1 /\ DOMAIN s = 1 .. Len(s) /\ Len(s) \in Nat
  BY <1>1, LenProperties
<1>. HIDE DEF a
<1>3. Range(a) = Range(s) \cup {e}
  <2>1. \A j \in 1 .. Len(s) + 1 : j \in 1 .. Len(s) \/ j = Len(s) + 1
    BY <1>2
  <2>2. \A j \in 1 .. Len(s) : j \in 1 .. Len(s) + 1
    BY <1>2
  <2>3. Len(s) + 1 \in 1 .. Len(s) + 1
    BY <1>2
  <2> QED
    BY <1>1, <1>2, <2>1, <2>2, <2>3 DEF Range
<1>4. ASSUME IsInjective(s), e \notin Range(s), NEW i \in DOMAIN a, NEW j \in DOMAIN a,
             a[i] = a[j]
      PROVE  i = j
  BY <1>1, <1>2, <1>4 DEF IsInjective, Range
<1> QED
  BY <1>1, <1>3, <1>4 DEF IsInjective, a

\* A callback is taken out of the stack, wherever it is.
LEMMA Removed ==
    ASSUME NEW S, NEW s \in Seq(S), IsInjective(s), NEW n \in DOMAIN s
    PROVE  /\ RemoveAt(s, n) \in Seq(S) /\ IsInjective(RemoveAt(s, n))
           /\ Range(RemoveAt(s, n)) = Range(s) \ {s[n]}
<1>. DEFINE a == SubSeq(s, 1, n - 1)
            b == SubSeq(s, n + 1, Len(s))
            c == a \o b
<1>1. DOMAIN s = 1 .. Len(s) /\ Len(s) \in Nat /\ n \in 1 .. Len(s)
      /\ \A j \in 1 .. Len(s) : s[j] \in S
  BY LenProperties
<1>2. /\ a \in Seq(S) /\ Len(a) = n - 1 /\ \A j \in 1 .. n - 1 : a[j] = s[j]
  <2>1. 1 \in Int /\ n - 1 \in Int /\ (\A j \in 1 .. n - 1 : s[j] \in S)
        /\ (n - 1) - 1 + 1 = n - 1
    BY <1>1
  <2>2. /\ a \in Seq(S) /\ Len(a) = IF 1 <= n - 1 THEN (n - 1) - 1 + 1 ELSE 0
        /\ \A j \in 1 .. (n - 1) - 1 + 1 : a[j] = s[1 + j - 1]
    BY <2>1, SubSeqProperties
  <2>3. \A j \in 1 .. n - 1 : 1 + j - 1 = j
    BY <1>1
  <2>4. IF 1 <= n - 1 THEN (n - 1) - 1 + 1 = n - 1 ELSE n - 1 = 0
    BY <1>1
  <2>. HIDE DEF a
  <2> QED
    BY <2>1, <2>2, <2>3, <2>4
<1>3. /\ b \in Seq(S) /\ Len(b) = Len(s) - n
      /\ \A j \in 1 .. Len(s) - n : b[j] = s[n + j]
  <2>1. n + 1 \in Int /\ Len(s) \in Int /\ (\A j \in n + 1 .. Len(s) : s[j] \in S)
        /\ Len(s) - (n + 1) + 1 = Len(s) - n
    BY <1>1
  <2>2. /\ b \in Seq(S) /\ Len(b) = IF n + 1 <= Len(s) THEN Len(s) - (n + 1) + 1 ELSE 0
        /\ \A j \in 1 .. Len(s) - (n + 1) + 1 : b[j] = s[n + 1 + j - 1]
    BY <2>1, SubSeqProperties
  <2>3. \A j \in 1 .. Len(s) - n : n + 1 + j - 1 = n + j
    BY <1>1
  <2>4. IF n + 1 <= Len(s) THEN Len(s) - (n + 1) + 1 = Len(s) - n ELSE Len(s) - n = 0
    BY <1>1
  <2>. HIDE DEF b
  <2> QED
    BY <2>1, <2>2, <2>3, <2>4
<1>. HIDE DEF a, b
<1>4. /\ c \in Seq(S) /\ Len(c) = Len(s) - 1
      /\ \A j \in 1 .. Len(s) - 1 : c[j] = IF j < n THEN s[j] ELSE s[j + 1]
  <2>1. /\ c \in Seq(S) /\ Len(c) = Len(a) + Len(b)
        /\ \A j \in 1 .. Len(a) + Len(b) :
              c[j] = IF j <= Len(a) THEN a[j] ELSE b[j - Len(a)]
    BY <1>2, <1>3, ConcatProperties
  <2>2. Len(a) + Len(b) = Len(s) - 1
    BY <1>1, <1>2, <1>3
  <2>. HIDE DEF c
  <2>3. ASSUME NEW j \in 1 .. Len(s) - 1 PROVE c[j] = IF j < n THEN s[j] ELSE s[j + 1]
    <3>1. CASE j < n
      BY <1>1, <1>2, <2>1, <2>2, <3>1
    <3>2. CASE ~(j < n)
      <4>1. j - (n - 1) \in 1 .. Len(s) - n /\ n + (j - (n - 1)) = j + 1
        BY <1>1, <3>2
      <4>2. c[j] = b[j - (n - 1)]
        BY <1>1, <1>2, <2>1, <2>2, <3>2
      <4> QED
        BY <1>3, <3>2, <4>1, <4>2
    <3> QED
      BY <3>1, <3>2
  <2> QED
    BY <2>1, <2>2, <2>3
<1>. HIDE DEF c
<1>5. DOMAIN c = 1 .. Len(s) - 1
  BY <1>4, LenProperties
<1>6. IsInjective(c)
  <2>1. ASSUME NEW i \in 1 .. Len(s) - 1, NEW j \in 1 .. Len(s) - 1, c[i] = c[j]
        PROVE  i = j
    <3>. DEFINE at(k) == IF k < n THEN k ELSE k + 1
    <3>1. at(i) \in 1 .. Len(s) /\ at(j) \in 1 .. Len(s)
      BY <1>1
    <3>2. s[at(i)] = s[at(j)]
      BY <1>4, <2>1
    <3>3. at(i) = at(j)
      BY <1>1, <3>1, <3>2 DEF IsInjective
    <3> QED
      BY <1>1, <3>3
  <2> QED
    BY <1>5, <2>1 DEF IsInjective
<1>7. Range(c) = Range(s) \ {s[n]}
  <2>1. ASSUME NEW j \in 1 .. Len(s) - 1 PROVE c[j] \in Range(s) \ {s[n]}
    <3>1. CASE j < n
      <4>1. j \in 1 .. Len(s) /\ c[j] = s[j] /\ j # n
        BY <1>1, <1>4, <3>1
      <4> QED
        BY <1>1, <4>1 DEF Range, IsInjective
    <3>2. CASE ~(j < n)
      <4>1. j + 1 \in 1 .. Len(s) /\ c[j] = s[j + 1] /\ j + 1 # n
        BY <1>1, <1>4, <3>2
      <4> QED
        BY <1>1, <4>1 DEF Range, IsInjective
    <3> QED
      BY <3>1, <3>2
  <2>2. ASSUME NEW j \in 1 .. Len(s), s[j] # s[n] PROVE s[j] \in Range(c)
    <3>1. CASE j < n
      <4>1. j \in 1 .. Len(s) - 1 /\ c[j] = s[j]
        BY <1>1, <1>4, <3>1
      <4> QED
        BY <1>5, <4>1 DEF Range
    <3>2. CASE ~(j < n)
      <4>1. j # n
        BY <2>2
      <4>2. j - 1 \in 1 .. Len(s) - 1 /\ ~(j - 1 < n) /\ (j - 1) + 1 = j
        BY <1>1, <3>2, <4>1
      <4>3. c[j - 1] = s[j]
        BY <1>4, <4>2
      <4> QED
        BY <1>5, <4>2, <4>3 DEF Range
    <3> QED
      BY <3>1, <3>2
  <2> QED
    BY <1>1, <1>5, <2>1, <2>2 DEF Range
<1> QED
  BY <1>4, <1>6, <1>7 DEF RemoveAt, c, b, a

\* The last callback is popped.
LEMMA Popped ==
    ASSUME NEW S, NEW s \in Seq(S), IsInjective(s), s # <<>>
    PROVE  /\ Front(s) \in Seq(S) /\ IsInjective(Front(s)) /\ Last(s) \in Range(s)
           /\ Range(Front(s)) = Range(s) \ {Last(s)}
<1>1. DOMAIN s = 1 .. Len(s) /\ Len(s) \in Nat /\ Len(s) # 0
  BY LenProperties, EmptySeq
<1>2. Len(s) \in DOMAIN s /\ Last(s) \in Range(s)
  BY <1>1 DEF Last, Range
<1>3. \A j \in 1 .. Len(s) - 1 : s[j] \in S
  BY <1>1, LenProperties
<1>4. Front(s) \in Seq(S) /\ Front(s) = SubSeq(s, 1, Len(s) - 1)
  BY <1>1, <1>3, SubSeqProperties DEF Front
<1>5. SubSeq(s, Len(s) + 1, Len(s)) = <<>>
  BY <1>1, SubSeqEmpty
<1>6. RemoveAt(s, Len(s)) = Front(s)
  BY <1>4, <1>5, ConcatEmptySeq DEF RemoveAt
<1> QED
  BY <1>2, <1>6, Removed DEF Last

-----------------------------------------------------------------------------
(* Steps that change nobody's role. *)

\* A provider is up if it is allocated and in nobody's hands.
LEMMA UpIs ==
    LifecycleTypes => \A p \in Blocks :
        p \in Up <=> heap[p] # NULL /\ \A t \in Threads : Busy(t) => doing[t].prov # p
<1>. SUFFICES ASSUME LifecycleTypes, NEW p \in Blocks
              PROVE  p \in Up <=> heap[p] # NULL
                        /\ \A t \in Threads : Busy(t) => doing[t].prov # p
  OBVIOUS
<1>1. ASSUME NEW t \in Threads
      PROVE  (doing[t].at # "idle" => doing[t].prov # p) <=> (Busy(t) => doing[t].prov # p)
  <2>1. doing[t] \in Whereabouts
    BY DEF LifecycleTypes
  <2> QED
    BY <2>1, InHand, LifecycleAssumption DEF Busy
<1> QED
  BY <1>1 DEF Up

\* Which providers are up after a step.
LEMMA UpIsNext ==
    LifecycleTypes' => \A p \in Blocks :
        p \in Up' <=> heap'[p] # NULL /\ \A t \in Threads : Busy(t)' => doing'[t].prov # p
<1>. SUFFICES ASSUME LifecycleTypes', NEW p \in Blocks
              PROVE  p \in Up' <=> heap'[p] # NULL
                        /\ \A t \in Threads : Busy(t)' => doing'[t].prov # p
  OBVIOUS
<1>1. ASSUME NEW t \in Threads
      PROVE  (doing'[t].at # "idle" => doing'[t].prov # p)
                <=> (Busy(t)' => doing'[t].prov # p)
  <2>1. doing'[t] \in Whereabouts
    BY DEF LifecycleTypes
  <2> QED
    BY <2>1, InHand, LifecycleAssumption DEF Busy
<1> QED
  BY <1>1 DEF Up

\* A thread that stays where it is keeps its provider and its id.
LEMMA StaysThere ==
    ASSUME NEW s, doing'[s] = doing[s],
           Busy(s) => heap'[doing[s].prov].id = heap[doing[s].prov].id
    PROVE  /\ Busy(s)' <=> Busy(s)
           /\ HoldsId(s)' <=> HoldsId(s)
           /\ IdOf(s)' = IdOf(s)
           /\ \A k : RouteMade(s, k)' = RouteMade(s, k)
BY DEF Busy, HoldsId, IdOf, RouteMade

\* Requests go on being handled while their providers stay up.
LEMMA CallsKept ==
    ASSUME CallsOK, call' = call, mid' = mid,
           \A p \in Up : (\E u \in Ults : call[u].at # "idle" /\ call[u].id = heap[p].id)
                           => p \in Up' /\ heap'[p].id = heap[p].id
    PROVE  CallsOK'
BY DEF CallsOK

\* Blocks stay what they are, and threads do but for those that close collectors.
SameHeap ==
    \A q \in Blocks :
        /\ heap'[q] = NULL <=> heap[q] = NULL
        /\ heap[q] # NULL => heap'[q].id = heap[q].id /\ heap'[q].dummy = heap[q].dummy
SamePlace(t) ==
    \/ doing'[t] = doing[t]
    \/ /\ doing[t].at \in {"close", "closing"} /\ doing'[t].at \in {"close", "closing"}
       /\ doing'[t].prov = doing[t].prov /\ doing'[t].for = doing[t].for

\* A step in which providers keep their blocks, and threads their places but
\* for closing a collector, keeps the invariant.
LEMMA SameRoles ==
    ASSUME LifecycleInv, LifecycleTypes', SameHeap, \A t \in Threads : SamePlace(t),
           UNCHANGED <<route, callbacks, mid, kept, wild>>
    PROVE  Up' = Up /\ BlocksOK' /\ RoutesOK' /\ MidOK'
<1>1. ASSUME NEW t \in Threads
      PROVE  /\ Busy(t)' <=> Busy(t)
             /\ HoldsId(t)' <=> HoldsId(t)
             /\ Busy(t) => doing'[t].prov = doing[t].prov /\ doing[t].prov \in Blocks
                           /\ heap'[doing[t].prov] # NULL
             /\ doing[t].at \notin {"close", "closing"} => doing'[t] = doing[t]
             /\ HoldsId(t) => IdOf(t)' = IdOf(t)
             /\ HoldsId(t) => \A k : RouteMade(t, k)' = RouteMade(t, k)
  <2>1. Busy(t) => doing[t].prov \in Blocks /\ heap[doing[t].prov] # NULL
    <3>1. doing[t] \in Whereabouts
      BY DEF LifecycleInv, LifecycleTypes
    <3> QED
      BY <3>1, InHand DEF Busy, LifecycleInv, BlocksOK
  <2>2. CASE doing'[t] = doing[t]
    BY <2>1, <2>2, StaysThere DEF SameHeap
  <2>3. CASE /\ doing[t].at \in {"close", "closing"} /\ doing'[t].at \in {"close", "closing"}
             /\ doing'[t].prov = doing[t].prov
    BY <2>1, <2>3 DEF Busy, HoldsId, SameHeap
  <2> QED
    BY <2>2, <2>3 DEF SamePlace
<1>2. Up' = Up
  <2>1. Up \subseteq Blocks /\ Up' \subseteq Blocks
    BY DEF Up
  <2>2. \A p \in Blocks : p \in Up <=> p \in Up'
    BY <1>1, UpIs, UpIsNext DEF SameHeap, LifecycleInv
  <2> QED
    BY <2>1, <2>2
<1>3. \A p \in Up : p \in Blocks /\ heap[p] # NULL
  BY DEF Up
<1>4. BlocksOK'
  <2>1. \A t \in Threads : Busy(t)' => heap'[doing'[t].prov] # NULL
    BY <1>1
  <2>2. \A s, t \in Threads :
           Busy(s)' /\ Busy(t)' /\ doing'[s].prov = doing'[t].prov => s = t
    BY <1>1 DEF LifecycleInv, BlocksOK
  <2>3. ASSUME NEW t \in Threads, doing'[t].at \in {"register", "data", "push"}
        PROVE  heap'[doing'[t].prov].id = doing'[t].id
    <3>1. Busy(t) /\ doing'[t] = doing[t]
      BY <1>1, <2>3 DEF Busy, SamePlace
    <3> QED
      BY <1>1, <2>3, <3>1 DEF LifecycleInv, BlocksOK, SameHeap
  <2>4. \A p \in Up' : heap'[p].dummy
    BY <1>2, <1>3 DEF LifecycleInv, BlocksOK, SameHeap
  <2> QED
    BY <1>2, <2>1, <2>2, <2>3, <2>4 DEF LifecycleInv, BlocksOK
<1>5. RoutesOK'
  BY <1>1, <1>2, <1>3 DEF LifecycleInv, RoutesOK, SameHeap
<1>6. MidOK'
  <2>1. Registering' = Registering
    BY <1>1 DEF Registering, SamePlace
  <2>2. \A t \in Threads :
           \/ doing'[t].at = "callback"
           \/ doing'[t].at \in {"deregister", "close", "closing"} /\ doing'[t].for = "margo"
           => mid = "finalizing"
    BY DEF LifecycleInv, MidOK, SamePlace
  <2>3. mid = "finalized" => \A t \in Threads : doing'[t].at = "idle"
    BY DEF LifecycleInv, MidOK, SamePlace
  <2> QED
    BY <2>1, <2>2, <2>3 DEF LifecycleInv, MidOK
<1> QED
  BY <1>2, <1>4, <1>5, <1>6

\* The collectors of a provider come and go.
LEMMA ColsChange ==
    ASSUME LifecycleTypes, NEW p \in Blocks, heap[p] # NULL, NEW n \in Nat,
           heap' = [heap EXCEPT ![p].cols = n]
    PROVE  heap' \in [Blocks -> Providers \cup {NULL}] /\ SameHeap
<1>1. heap[p] \in Providers
  BY Allocations
<1>2. heap' = [heap EXCEPT ![p] = [heap[p] EXCEPT !.cols = n]]
  OBVIOUS
<1>3. /\ [heap[p] EXCEPT !.cols = n] \in Providers
      /\ [heap[p] EXCEPT !.cols = n].id = heap[p].id
      /\ [heap[p] EXCEPT !.cols = n].dummy = heap[p].dummy
  BY <1>1 DEF Providers
<1>4. NULL \notin Providers
  BY LifecycleAssumption DEF Providers
<1>. HIDE DEF Providers
<1> QED
  BY <1>1, <1>2, <1>3, <1>4 DEF LifecycleTypes, SameHeap

LEMMA ClosesKeep ==
    ASSUME LifecycleInv, NextOK, NEW t \in Threads, CloseBegins(t) \/ CloseReturns(t)
    PROVE  LifecycleInv'
<1>0. LifecycleTypes /\ doing[t] \in Whereabouts
  BY DEF LifecycleInv, LifecycleTypes
<1>1. doing[t].at \in {"close", "closing"} /\ doing[t].prov \in Blocks
      /\ heap[doing[t].prov] # NULL
  BY <1>0, InHand DEF CloseBegins, CloseReturns, At, LifecycleInv, BlocksOK, Busy
<1>2. /\ doing' \in [Threads -> Whereabouts]
      /\ \A s \in Threads : SamePlace(s)
  <2>1. PICK x \in Whereabouts : /\ Goes(t, x) /\ x.at \in {"close", "closing"}
                                 /\ x.prov = doing[t].prov /\ x.for = doing[t].for
    <3>1. CASE CloseBegins(t)
      <4>1. doing[t].at = "close" /\ doing[t].left \in Nat /\ doing[t].left > 0
        BY <1>0, <3>1, InHand DEF CloseBegins, At
      <4>2. PICK left \in Nat : left = doing[t].left - 1
        BY <4>1
      <4>3. PICK y : y = [doing[t] EXCEPT !.at = "closing", !.left = left] /\ Goes(t, y)
        BY <3>1, <4>2 DEF CloseBegins
      <4>4. y \in Whereabouts /\ y.at = "closing" /\ y.prov = doing[t].prov
            /\ y.for = doing[t].for
        BY <1>0, <4>1, <4>3, GoesToClosing
      <4> QED
        BY <4>3, <4>4
    <3>2. CASE CloseReturns(t)
      BY <1>0, <3>2, GoesBackToClose DEF CloseReturns, At
    <3> QED
      BY <3>1, <3>2
  <2> QED
    BY <1>0, <1>1, <2>1, GoesThere DEF SamePlace
<1>3. heap' \in [Blocks -> Providers \cup {NULL}] /\ SameHeap
  <2>1. CASE CloseBegins(t)
    <3>1. heap[doing[t].prov] \in Providers
      BY <1>0, <1>1, Allocations
    <3>2. heap[doing[t].prov].cols \in Nat /\ heap[doing[t].prov].cols > 0
      BY <2>1, <3>1 DEF CloseBegins, At, NextOK, Providers
    <3>3. heap[doing[t].prov].cols - 1 \in Nat
      BY <3>2
    <3>4. heap' = [heap EXCEPT ![doing[t].prov].cols = heap[doing[t].prov].cols - 1]
      BY <2>1 DEF CloseBegins
    <3> QED
      BY <1>0, <1>1, <3>3, <3>4, ColsChange
  <2>2. CASE CloseReturns(t)
    BY <1>0, <2>2 DEF CloseReturns, SameHeap, LifecycleTypes
  <2> QED
    BY <2>1, <2>2
<1>4. UNCHANGED <<one_stream, mid, route, callbacks, kept, call, wild>>
  BY DEF CloseBegins, CloseReturns
<1>5. LifecycleTypes'
  BY <1>0, <1>2, <1>3, <1>4 DEF LifecycleTypes
<1>6. Up' = Up /\ BlocksOK' /\ RoutesOK' /\ MidOK'
  BY <1>2, <1>3, <1>4, <1>5, SameRoles
<1>7. CallsOK'
  BY <1>3, <1>4, <1>6, CallsKept DEF LifecycleInv, SameHeap, Up
<1> QED
  BY <1>5, <1>6, <1>7 DEF LifecycleInv

\* The route of a request leads to the provider that is up.
LEMMA RoutedRight ==
    ASSUME LifecycleInv, NEW p \in Up, NEW r \in Range(Rpcs)
    PROVE  route[heap[p].id][r] = p
BY RpcNames DEF LifecycleInv, RoutesOK

\* A request arrives only where a provider is up: with one stream no thread is
\* in the middle of registering or deregistering one.
LEMMA ArrivesKeeps ==
    ASSUME LifecycleInv, NEW u \in Ults, NEW i \in ProviderIds, NEW r \in Range(Rpcs),
           Arrives(u, i, r)
    PROVE  LifecycleInv'
<1>0. LifecycleTypes
  BY DEF LifecycleInv
<1>1. UNCHANGED <<mid, one_stream, route, callbacks, heap, doing, kept, wild>>
  BY DEF Arrives
<1>2. \A v \in Ults \ {u} : call'[v] = call[v]
  BY <1>0 DEF Arrives, LifecycleTypes
<1>3. /\ call'[u].at = "ready" /\ call'[u].id = i
      /\ call' \in [Ults -> {NoCall} \cup [at : {"ready", "serving"}, id : ProviderIds,
                                         rpc : Range(Rpcs), prov : Blocks \cup {NULL}]]
  BY <1>0 DEF Arrives, LifecycleTypes
<1>4. LifecycleTypes'
  BY <1>0, <1>1, <1>3 DEF LifecycleTypes
<1>5. Up' = Up /\ BlocksOK' /\ RoutesOK' /\ MidOK'
  BY <1>1, <1>4, SameRoles DEF SameHeap, SamePlace
<1>6. mid = "up" /\ \E p \in Up : heap[p].id = i
  <2>1. CASE one_stream
    <3>1. \A t \in Threads : ~HoldsId(t)
      BY <2>1, LifecycleAssumption DEF Arrives, StreamFree, HoldsId
    <3>2. PICK k \in 1 .. 7 : route[i][Rpcs[k]] # Unregistered
      BY RpcNames DEF Arrives
    <3> QED
      BY <3>1, <3>2 DEF Arrives, LifecycleInv, RoutesOK
  <2>2. CASE ~one_stream
    BY <2>2 DEF Arrives
  <2> QED
    BY <2>1, <2>2
<1>7. CallsOK'
  BY <1>1, <1>2, <1>3, <1>5, <1>6 DEF LifecycleInv, CallsOK
<1> QED
  BY <1>4, <1>5, <1>7 DEF LifecycleInv

LEMMA LooksKeeps ==
    ASSUME LifecycleInv, NEW u \in Ults, Looks(u) PROVE LifecycleInv'
<1>0. LifecycleTypes
  BY DEF LifecycleInv
<1>1. UNCHANGED <<mid, one_stream, route, callbacks, heap, doing, kept, wild>>
  BY DEF Looks
<1>2. /\ call[u].at = "ready"
      /\ call[u] \in [at : {"ready", "serving"}, id : ProviderIds,
                      rpc : Range(Rpcs), prov : Blocks \cup {NULL}]
  BY <1>0 DEF Looks, LifecycleTypes, NoCall
<1>3. PICK p \in Up : heap[p].id = call[u].id
  BY <1>2 DEF LifecycleInv, CallsOK
<1>4. route[call[u].id][call[u].rpc] = p /\ p \in Blocks /\ p # Unregistered
  BY <1>2, <1>3, RoutedRight, LifecycleAssumption DEF Up
<1>5. call' = [call EXCEPT ![u] = [call[u] EXCEPT !.at = "serving", !.prov = p]]
  BY <1>0, <1>4 DEF Looks, LifecycleTypes
<1>6. /\ call'[u].at = "serving" /\ call'[u].prov = p /\ call'[u].id = call[u].id
      /\ \A v \in Ults \ {u} : call'[v] = call[v]
      /\ call' \in [Ults -> {NoCall} \cup [at : {"ready", "serving"}, id : ProviderIds,
                                         rpc : Range(Rpcs), prov : Blocks \cup {NULL}]]
  BY <1>0, <1>2, <1>4, <1>5 DEF LifecycleTypes
<1>7. LifecycleTypes'
  BY <1>0, <1>1, <1>6 DEF LifecycleTypes
<1>8. Up' = Up /\ BlocksOK' /\ RoutesOK' /\ MidOK'
  BY <1>1, <1>7, SameRoles DEF SameHeap, SamePlace
<1>9. CallsOK'
  BY <1>1, <1>2, <1>3, <1>6, <1>8 DEF LifecycleInv, CallsOK
<1> QED
  BY <1>7, <1>8, <1>9 DEF LifecycleInv

LEMMA ServesKeeps ==
    ASSUME LifecycleInv, NEW u \in Ults, Serves(u) PROVE LifecycleInv'
<1>0. LifecycleTypes
  BY DEF LifecycleInv
<1>1. UNCHANGED <<mid, one_stream, route, callbacks, doing, kept, wild>>
  BY DEF Serves
<1>2. /\ call[u].at = "serving" /\ call'[u] = NoCall
      /\ \A v \in Ults \ {u} : call'[v] = call[v]
      /\ call' \in [Ults -> {NoCall} \cup [at : {"ready", "serving"}, id : ProviderIds,
                                         rpc : Range(Rpcs), prov : Blocks \cup {NULL}]]
  BY <1>0 DEF Serves, LifecycleTypes
<1>3. PICK p \in Up : p = call[u].prov
  BY <1>2 DEF LifecycleInv, CallsOK
<1>4. p \in Blocks /\ heap[p] # NULL /\ heap[p].cols \in Nat
  BY <1>0, <1>3, Allocations DEF Up, Providers
<1>5. heap' \in [Blocks -> Providers \cup {NULL}] /\ SameHeap
  <2>1. \/ heap' = heap
        \/ \E n \in Nat : heap' = [heap EXCEPT ![p].cols = n]
    <3>1. \/ heap' = heap
          \/ heap' = [heap EXCEPT ![p].cols = heap[p].cols + 1]
          \/ heap[p].cols > 0 /\ heap' = [heap EXCEPT ![p].cols = heap[p].cols - 1]
      BY <1>3 DEF Serves
    <3>2. heap[p].cols + 1 \in Nat /\ (heap[p].cols > 0 => heap[p].cols - 1 \in Nat)
      BY <1>4
    <3> QED
      BY <3>1, <3>2
  <2>2. heap' = heap => heap' \in [Blocks -> Providers \cup {NULL}] /\ SameHeap
    BY <1>0 DEF LifecycleTypes, SameHeap
  <2> QED
    BY <1>0, <1>4, <2>1, <2>2, ColsChange
<1>6. LifecycleTypes'
  BY <1>0, <1>1, <1>2, <1>5 DEF LifecycleTypes
<1>7. Up' = Up /\ BlocksOK' /\ RoutesOK' /\ MidOK'
  BY <1>1, <1>5, <1>6, SameRoles DEF SamePlace
<1>8. CallsOK'
  BY <1>1, <1>2, <1>5, <1>7 DEF LifecycleInv, CallsOK, SameHeap, Up, NoCall
<1> QED
  BY <1>6, <1>7, <1>8 DEF LifecycleInv

-----------------------------------------------------------------------------
(* Steps of a thread that has a provider or an id in hand. *)

LEMMA IdsHeld ==
    ASSUME LifecycleInv, NEW t \in Threads, HoldsId(t) PROVE IdOf(t) \in ProviderIds
<1>1. doing[t] \in Whereabouts /\ LifecycleTypes
  BY DEF LifecycleInv, LifecycleTypes
<1>2. CASE doing[t].at = "deregister"
  <2>1. doing[t].prov \in Blocks /\ heap[doing[t].prov] # NULL
    BY <1>1, <1>2, InHand DEF LifecycleInv, BlocksOK, Busy
  <2> QED
    BY <1>1, <1>2, <2>1, Allocations DEF IdOf, Providers
<1>3. CASE doing[t].at # "deregister"
  BY <1>1, <1>3, InHand DEF IdOf, HoldsId
<1> QED
  BY <1>2, <1>3

\* Only the owner of an id changes its routes: it goes on owning it, or leaves it
\* without a route.
LEMMA RoutesKept ==
    ASSUME LifecycleInv, NEW t \in Threads, HoldsId(t),
           \A s \in Threads \ {t} :
               /\ doing'[s] = doing[s]
               /\ Busy(s) => heap'[doing[s].prov].id = heap[doing[s].prov].id,
           Up' = Up, \A p \in Up : heap'[p].id = heap[p].id,
           \A i \in ProviderIds \ {IdOf(t)}, k \in 1 .. 7 :
               route'[i][Rpcs[k]] = route[i][Rpcs[k]],
           \/ /\ HoldsId(t)' /\ IdOf(t)' = IdOf(t)
              /\ \A k \in 1 .. 7 : route'[IdOf(t)][Rpcs[k]] = RouteMade(t, k)'
           \/ /\ ~HoldsId(t)'
              /\ \A k \in 1 .. 7 : route'[IdOf(t)][Rpcs[k]] = Unregistered
    PROVE  RoutesOK'
<1>1. \A s \in Threads \ {t} : /\ HoldsId(s)' <=> HoldsId(s)
                               /\ IdOf(s)' = IdOf(s)
                               /\ \A k : RouteMade(s, k)' = RouteMade(s, k)
  BY StaysThere
<1>2. \A s \in Threads \ {t} :
         HoldsId(s) => IdOf(s) \in ProviderIds \ {IdOf(t)}
  BY IdsHeld DEF LifecycleInv, RoutesOK
<1>3. \A p \in Up : heap[p].id \in ProviderIds \ {IdOf(t)}
  <2>1. \A p \in Up : heap[p] \in Providers
    BY Allocations DEF Up, LifecycleInv
  <2> QED
    BY <2>1 DEF LifecycleInv, RoutesOK, Providers
<1>4. \A s \in Threads : HoldsId(s)' =>
         \A k \in 1 .. 7 : route'[IdOf(s)'][Rpcs[k]] = RouteMade(s, k)'
  BY <1>1, <1>2 DEF LifecycleInv, RoutesOK
<1>5. \A s, r \in Threads : HoldsId(s)' /\ HoldsId(r)' /\ IdOf(s)' = IdOf(r)' => s = r
  BY <1>1, <1>2
       DEF LifecycleInv, RoutesOK
<1>6. \A p \in Up, s \in Threads : HoldsId(s)' => IdOf(s)' # heap'[p].id
  BY <1>1, <1>3 DEF LifecycleInv, RoutesOK
<1>7. \A p \in Up, k \in 1 .. 7 : route'[heap'[p].id][Rpcs[k]] = p
  BY <1>3 DEF LifecycleInv, RoutesOK
<1>8. ASSUME NEW i \in ProviderIds, NEW k \in 1 .. 7, route'[i][Rpcs[k]] # Unregistered
      PROVE  \/ \E p \in Up : heap'[p].id = i
             \/ \E s \in Threads : HoldsId(s)' /\ IdOf(s)' = i
  <2>1. CASE i = IdOf(t)
    BY <1>8, <2>1
  <2>2. CASE i # IdOf(t)
    <3>1. \/ \E p \in Up : heap[p].id = i
          \/ \E s \in Threads \ {t} : HoldsId(s) /\ IdOf(s) = i
      BY <1>8, <2>2 DEF LifecycleInv, RoutesOK
    <3> QED
      BY <1>1, <3>1
  <2> QED
    BY <2>1, <2>2
<1> QED
  BY <1>4, <1>5, <1>6, <1>7, <1>8 DEF RoutesOK

\* A thread keeps the provider it has in hand, if it has one.
LEMMA BlocksKept ==
    ASSUME LifecycleInv, LifecycleTypes', NEW t \in Threads,
           heap' = heap, callbacks' = callbacks,
           \A s \in Threads \ {t} : doing'[s] = doing[s],
           Busy(t)' <=> Busy(t), Busy(t) => doing'[t].prov = doing[t].prov,
           doing'[t].at \in {"register", "data", "push"} =>
               doing[t].at \in {"register", "data", "push"} /\ doing'[t].id = doing[t].id
    PROVE  Up' = Up /\ BlocksOK'
<1>1. \A s \in Threads : /\ Busy(s)' <=> Busy(s)
                         /\ Busy(s) => doing'[s].prov = doing[s].prov
  BY StaysThere
<1>2. Up' = Up
  <2>1. Up \subseteq Blocks /\ Up' \subseteq Blocks
    BY DEF Up
  <2>2. \A p \in Blocks : p \in Up <=> p \in Up'
    BY <1>1, UpIs, UpIsNext DEF LifecycleInv
  <2> QED
    BY <2>1, <2>2
<1>3. ASSUME NEW s \in Threads, doing'[s].at \in {"register", "data", "push"}
      PROVE  heap'[doing'[s].prov].id = doing'[s].id
  <2>1. doing[s].at \in {"register", "data", "push"} /\ doing'[s].id = doing[s].id
    BY <1>3
  <2>2. Busy(s)
    BY <2>1 DEF Busy
  <2> QED
    BY <1>1, <2>1, <2>2 DEF LifecycleInv, BlocksOK
<1> QED
  BY <1>1, <1>2, <1>3 DEF LifecycleInv, BlocksOK

\* While the instance is up only what is kept matters.
LEMMA MidUp ==
    ASSUME MidOK, mid = "up", mid' = "up", NEW t \in Threads,
           \A s \in Threads \ {t} : doing'[s] = doing[s],
           doing'[t].at # "callback",
           doing'[t].at \in {"deregister", "close", "closing"} => doing'[t].for # "margo",
           kept' \subseteq Range(callbacks'), ~wild'
    PROVE  MidOK'
BY DEF MidOK

\* A thread that is not idle goes on with what margo_finalize began, or did not.
LEMMA MidGoesOn ==
    ASSUME MidOK, NEW t \in Threads, doing[t].at # "idle",
           UNCHANGED <<mid, kept, callbacks, wild>>,
           \A s \in Threads \ {t} : doing'[s] = doing[s],
           doing'[t].at \notin {"alloc", "register", "data", "push"},
           \/ doing'[t].at = "callback"
           \/ doing'[t].at \in {"deregister", "close", "closing"} /\ doing'[t].for = "margo"
           => mid = "finalizing"
    PROVE  MidOK'
BY DEF MidOK, Registering

\* A thread that registers does so while the instance is up.
LEMMA RegistersUp ==
    ASSUME LifecycleInv, NEW t \in Threads,
           doing[t].at \in {"alloc", "register", "data", "push"}
    PROVE  mid = "up"
BY DEF LifecycleInv, MidOK, Registering

\* An id of which soma_sum has no route and that nobody registers is nobody's.
LEMMA FreeId ==
    ASSUME LifecycleInv, NEW i \in ProviderIds, ~IdTaken(i),
           \A s \in Registering : doing[s].id # i
    PROVE  /\ \A p \in Up : heap[p].id # i
           /\ \A s \in Threads : HoldsId(s) => IdOf(s) # i
           /\ \A k \in 1 .. 7 : route[i][Rpcs[k]] = Unregistered
<1>1. route[i][Rpcs[7]] = Unregistered /\ 7 \in 1 .. 7
  BY RpcNames DEF IdTaken
<1>2. \A p \in Up : heap[p].id # i
  BY <1>1, LifecycleAssumption DEF LifecycleInv, RoutesOK, Up
<1>3. ASSUME NEW s \in Threads, HoldsId(s) PROVE IdOf(s) # i
  <2>1. doing[s] \in Whereabouts
    BY DEF LifecycleInv, LifecycleTypes
  <2>2. CASE doing[s].at = "deregister"
    <3>1. doing[s].prov \in Blocks /\ ~(7 < doing[s].n)
      BY <2>1, <2>2, InHand
    <3>2. RouteMade(s, 7) # Unregistered
      BY <2>2, <3>1, LifecycleAssumption DEF RouteMade
    <3> QED
      BY <1>1, <1>3, <3>2 DEF LifecycleInv, RoutesOK
  <2>3. CASE doing[s].at # "deregister"
    BY <1>3, <2>3 DEF HoldsId, IdOf, Registering
  <2> QED
    BY <2>2, <2>3
<1> QED
  BY <1>2, <1>3 DEF LifecycleInv, RoutesOK

LEMMA RegisterBeginsKeeps ==
    ASSUME LifecycleInv, NEW t \in Threads, NEW i \in ProviderIds, NEW keep \in BOOLEAN,
           RegisterBegins(t, i, keep)
    PROVE  LifecycleInv'
<1>0. LifecycleTypes /\ doing[t].at = "idle" /\ mid = "up"
      /\ UNCHANGED <<one_stream, mid, route, callbacks, heap, kept, call, wild>>
  BY DEF LifecycleInv, RegisterBegins, At
<1>1. /\ doing' \in [Threads -> Whereabouts]
      /\ doing'[t] = [at |-> "alloc", id |-> i, keep |-> keep, prov |-> NULL]
      /\ \A s \in Threads \ {t} : doing'[s] = doing[s]
  BY <1>0, Beginnings, GoesThere DEF RegisterBegins
<1>2. LifecycleTypes'
  BY <1>0, <1>1 DEF LifecycleTypes
<1>3. ~Busy(t) /\ ~Busy(t)' /\ HoldsId(t)' /\ IdOf(t)' = i
      /\ \A k : RouteMade(t, k)' = Unregistered
  BY <1>0, <1>1 DEF Busy, HoldsId, IdOf, RouteMade
<1>4. Up' = Up /\ BlocksOK'
  BY <1>0, <1>1, <1>2, <1>3, BlocksKept
<1>5. /\ \A p \in Up : heap[p].id # i
      /\ \A s \in Threads : HoldsId(s) => IdOf(s) # i
      /\ \A k \in 1 .. 7 : route[i][Rpcs[k]] = Unregistered
  BY FreeId DEF RegisterBegins
<1>6. \A s \in Threads \ {t} : /\ HoldsId(s)' <=> HoldsId(s)
                               /\ IdOf(s)' = IdOf(s)
                               /\ \A k : RouteMade(s, k)' = RouteMade(s, k)
  BY <1>0, <1>1, StaysThere
<1>7. ~HoldsId(t)
  BY <1>0 DEF HoldsId
<1>8. RoutesOK'
  BY <1>0, <1>3, <1>4, <1>5, <1>6, <1>7 DEF LifecycleInv, RoutesOK
<1>9. CallsOK'
  BY <1>0, <1>4, CallsKept DEF LifecycleInv
<1>10. MidOK'
  BY <1>0, <1>1, MidUp DEF LifecycleInv, MidOK
<1> QED
  BY <1>2, <1>4, <1>8, <1>9, <1>10 DEF LifecycleInv

LEMMA NotAllocatedKeeps ==
    ASSUME LifecycleInv, NEW t \in Threads, NotAllocated(t) PROVE LifecycleInv'
<1>0. LifecycleTypes /\ doing[t].at = "alloc" /\ mid = "up"
      /\ UNCHANGED <<one_stream, mid, route, callbacks, heap, kept, call, wild>>
  BY RegistersUp DEF LifecycleInv, NotAllocated, At
<1>1. /\ doing' \in [Threads -> Whereabouts]
      /\ doing'[t] = Idle
      /\ \A s \in Threads \ {t} : doing'[s] = doing[s]
  BY <1>0, Beginnings, GoesThere DEF NotAllocated
<1>2. LifecycleTypes'
  BY <1>0, <1>1 DEF LifecycleTypes
<1>3. ~Busy(t) /\ ~Busy(t)' /\ HoldsId(t) /\ ~HoldsId(t)' /\ doing'[t].at = "idle"
  BY <1>0, <1>1 DEF Busy, HoldsId, Idle
<1>4. Up' = Up /\ BlocksOK'
  BY <1>0, <1>1, <1>2, <1>3, BlocksKept
<1>5. \A k \in 1 .. 7 : route[IdOf(t)][Rpcs[k]] = Unregistered
  BY <1>0, <1>3 DEF LifecycleInv, RoutesOK, RouteMade
<1>6. RoutesOK'
  BY <1>0, <1>1, <1>3, <1>4, <1>5, RoutesKept
<1>7. CallsOK'
  BY <1>0, <1>4, CallsKept DEF LifecycleInv
<1>8. MidOK'
  BY <1>0, <1>1, <1>3, MidUp DEF LifecycleInv, MidOK
<1> QED
  BY <1>2, <1>4, <1>6, <1>7, <1>8 DEF LifecycleInv

LEMMA AllocatedKeeps ==
    ASSUME LifecycleInv, NEW t \in Threads, Allocated(t) PROVE LifecycleInv'
<1>0. LifecycleTypes /\ doing[t].at = "alloc" /\ mid = "up"
      /\ doing[t] \in Whereabouts /\ doing[t].id \in ProviderIds
      /\ UNCHANGED <<one_stream, mid, route, callbacks, kept, call, wild>>
  BY RegistersUp, InHand DEF LifecycleInv, LifecycleTypes, Allocated, At
<1>1. PICK p \in Blocks :
         /\ heap[p] = NULL
         /\ heap' = [heap EXCEPT ![p] = [id |-> doing[t].id, cols |-> 0, dummy |-> FALSE]]
         /\ Goes(t, [at |-> "register", id |-> doing[t].id, keep |-> doing[t].keep,
                     prov |-> p, n |-> 1])
  BY DEF Allocated
<1>2. [id |-> doing[t].id, cols |-> 0, dummy |-> FALSE] \in Providers
  BY <1>0 DEF Providers
<1>3. /\ heap' \in [Blocks -> Providers \cup {NULL}]
      /\ heap'[p] # NULL /\ heap'[p].id = doing[t].id
      /\ \A q \in Blocks \ {p} : heap'[q] = heap[q]
  BY <1>0, <1>1, <1>2, LifecycleAssumption DEF LifecycleTypes, Providers
<1>4. /\ doing' \in [Threads -> Whereabouts]
      /\ doing'[t] = [at |-> "register", id |-> doing[t].id, keep |-> doing[t].keep,
                      prov |-> p, n |-> 1]
      /\ \A s \in Threads \ {t} : doing'[s] = doing[s]
  BY <1>0, <1>1, InHand, Beginnings, GoesThere
<1>5. LifecycleTypes'
  BY <1>0, <1>3, <1>4 DEF LifecycleTypes
<1>6. /\ ~Busy(t) /\ Busy(t)' /\ HoldsId(t) /\ HoldsId(t)' /\ IdOf(t)' = IdOf(t)
      /\ doing'[t].prov = p /\ doing'[t].at = "register" /\ doing'[t].id = doing[t].id
  BY <1>0, <1>4 DEF Busy, HoldsId, IdOf
<1>7. \A s \in Threads : Busy(s) => doing[s].prov \in Blocks \ {p}
  <2>1. \A s \in Threads : doing[s] \in Whereabouts
    BY <1>0 DEF LifecycleTypes
  <2> QED
    BY <1>1, <2>1, InHand DEF LifecycleInv, BlocksOK, Busy
<1>8. \A s \in Threads \ {t} :
         /\ Busy(s)' <=> Busy(s)
         /\ Busy(s) => heap'[doing[s].prov] = heap[doing[s].prov]
  BY <1>3, <1>4, <1>7, StaysThere
<1>9. Up' = Up
  <2>1. Up \subseteq Blocks /\ Up' \subseteq Blocks
    BY DEF Up
  <2>2. p \notin Up /\ p \notin Up'
    BY <1>1, <1>5, <1>6, UpIsNext DEF Up
  <2>3. ASSUME NEW q \in Blocks \ {p} PROVE q \in Up <=> q \in Up'
    <3>1. \A s \in Threads : (Busy(s)' => doing'[s].prov # q)
                              <=> (Busy(s) => doing[s].prov # q)
      BY <1>4, <1>6, <1>8, <2>3
    <3> QED
      BY <1>0, <1>3, <1>5, <3>1, UpIs, UpIsNext
  <2> QED
    BY <2>1, <2>2, <2>3
<1>10. BlocksOK'
  <2>1. \A s \in Threads : Busy(s)' => heap'[doing'[s].prov] # NULL
    BY <1>3, <1>4, <1>6, <1>8 DEF LifecycleInv, BlocksOK
  <2>2. \A s, r \in Threads :
           Busy(s)' /\ Busy(r)' /\ doing'[s].prov = doing'[r].prov => s = r
    BY <1>4, <1>6, <1>7, <1>8 DEF LifecycleInv, BlocksOK
  <2>3. ASSUME NEW s \in Threads, doing'[s].at \in {"register", "data", "push"}
        PROVE  heap'[doing'[s].prov].id = doing'[s].id
    <3>1. CASE s = t
      BY <1>3, <1>6, <3>1
    <3>2. CASE s # t
      <4>1. Busy(s) /\ doing'[s] = doing[s]
        BY <1>4, <1>8, <2>3, <3>2 DEF Busy
      <4> QED
        BY <1>8, <2>3, <3>2, <4>1 DEF LifecycleInv, BlocksOK
    <3> QED
      BY <3>1, <3>2
  <2>4. \A q \in Up : heap'[q].dummy /\ heap'[q] = heap[q]
    BY <1>1, <1>3 DEF Up, LifecycleInv, BlocksOK
  <2> QED
    BY <1>0, <1>9, <2>1, <2>2, <2>3, <2>4 DEF LifecycleInv, BlocksOK
<1>11. \A q \in Up : heap'[q].id = heap[q].id
  BY <1>1, <1>3 DEF Up
<1>12. \A k \in 1 .. 7 : route'[IdOf(t)][Rpcs[k]] = RouteMade(t, k)'
  <2>1. \A k \in 1 .. 7 : route[IdOf(t)][Rpcs[k]] = Unregistered
    BY <1>0, <1>6 DEF LifecycleInv, RoutesOK, RouteMade
  <2>2. \A k \in 1 .. 7 : ~(k < 1)
    OBVIOUS
  <2> QED
    BY <1>0, <1>4, <2>1, <2>2 DEF RouteMade
<1>13. RoutesOK'
  BY <1>0, <1>4, <1>6, <1>8, <1>9, <1>11, <1>12, RoutesKept
<1>14. CallsOK'
  BY <1>0, <1>9, <1>11, CallsKept DEF LifecycleInv
<1>15. MidOK'
  BY <1>0, <1>4, <1>6, MidUp DEF LifecycleInv, MidOK
<1> QED
  BY <1>5, <1>10, <1>13, <1>14, <1>15 DEF LifecycleInv

\* Setting one route of one id.
SetsRoute(i, k, v) == route' = [route EXCEPT ![i][Rpcs[k]] = v]

\* What setting one route does to the others.
LEMMA RouteSet ==
    ASSUME LifecycleTypes, NEW i \in ProviderIds, NEW k \in 1 .. 7,
           NEW v \in Blocks \cup {NULL, Unregistered},
           SetsRoute(i, k, v)
    PROVE  /\ route' \in [ProviderIds -> [Range(Rpcs) -> Blocks \cup {NULL, Unregistered}]]
           /\ \A j \in ProviderIds \ {i} : route'[j] = route[j]
           /\ \A l \in 1 .. 7 :
                 route'[i][Rpcs[l]] = IF l = k THEN v ELSE route[i][Rpcs[l]]
<1>. DEFINE R == Range(Rpcs)
            V == Blocks \cup {NULL, Unregistered}
<1>1. route \in [ProviderIds -> [R -> V]] /\ \A l \in 1 .. 7 : Rpcs[l] \in R
  BY RpcNames DEF LifecycleTypes
<1>2. \A l \in 1 .. 7 : Rpcs[l] = Rpcs[k] => l = k
  BY RpcNames
<1>. HIDE DEF R, V
<1>3. route' = [route EXCEPT ![i] = [route[i] EXCEPT ![Rpcs[k]] = v]]
  BY DEF SetsRoute
<1>4. v \in V
  BY DEF V
<1>5. route' \in [ProviderIds -> [R -> V]]
  BY <1>1, <1>3, <1>4
<1>6. route'[i] = [route[i] EXCEPT ![Rpcs[k]] = v] /\ route[i] \in [R -> V]
  BY <1>1, <1>3
<1>7. \A l \in 1 .. 7 : route'[i][Rpcs[l]] = IF l = k THEN v ELSE route[i][Rpcs[l]]
  BY <1>1, <1>2, <1>6
<1>8. \A j \in ProviderIds \ {i} : route'[j] = route[j]
  BY <1>1, <1>3
<1> QED
  BY <1>5, <1>7, <1>8 DEF R, V

\* The route of the next RPC is made, first without its data, then with it.
LEMMA RegisterStepKeeps ==
    ASSUME LifecycleInv, NEW t \in Threads, RegisterRpc(t) \/ RegisterData(t)
    PROVE  LifecycleInv'
<1>0. LifecycleTypes /\ doing[t].at \in {"register", "data"} /\ mid = "up"
      /\ doing[t] \in Whereabouts /\ doing[t].id \in ProviderIds
      /\ doing[t].prov \in Blocks /\ doing[t].n \in 1 .. 7
      /\ UNCHANGED <<one_stream, mid, callbacks, heap, kept, call, wild>>
  BY RegistersUp, InHand
     DEF LifecycleInv, LifecycleTypes, RegisterRpc, RegisterData, At
<1>1. PICK x \in Whereabouts :
         /\ Goes(t, x) /\ x.id = doing[t].id /\ x.prov = doing[t].prov
         /\ \/ doing[t].at = "register" /\ x.at = "data" /\ x.n = doing[t].n
            \/ /\ doing[t].at = "data" /\ x.n = doing[t].n + 1
               /\ x.at = IF doing[t].n = 7 THEN "push" ELSE "register"
  <2>1. CASE RegisterRpc(t)
    BY <1>0, <2>1, GoesToData DEF RegisterRpc, At
  <2>2. CASE RegisterData(t) /\ doing[t].n = 7
    <3>1. PICK y : y = [doing[t] EXCEPT !.at = "push", !.n = doing[t].n + 1]
                   /\ Goes(t, y) /\ doing[t].at = "data"
      BY <2>2, RpcNames DEF RegisterData, At
    <3>2. /\ y \in Whereabouts /\ y.at = "push" /\ y.id = doing[t].id
          /\ y.prov = doing[t].prov /\ y.n = 8
      BY <1>0, <2>2, <3>1, GoesToPush
    <3>3. y.n = doing[t].n + 1
      BY <2>2, <3>2
    <3>4. y.at = IF doing[t].n = 7 THEN "push" ELSE "register"
      BY <2>2, <3>2
    <3> QED
      BY <3>1, <3>2, <3>3, <3>4
  <2>3. CASE RegisterData(t) /\ doing[t].n # 7
    <3>1. doing[t].at = "data"
          /\ Goes(t, [doing[t] EXCEPT !.at = "register", !.n = doing[t].n + 1])
      BY <2>3, RpcNames DEF RegisterData, At
    <3> QED
      BY <1>0, <2>3, <3>1, GoesToNextRpc, ZenonT(60)
  <2> QED
    BY <2>1, <2>2, <2>3
<1>2. /\ doing' \in [Threads -> Whereabouts]
      /\ doing'[t] = x
      /\ \A s \in Threads \ {t} : doing'[s] = doing[s]
  BY <1>0, <1>1, GoesThere
<1>3. /\ Busy(t) /\ Busy(t)' /\ HoldsId(t) /\ HoldsId(t)' /\ IdOf(t)' = IdOf(t)
      /\ IdOf(t) = doing[t].id
  BY <1>0, <1>1, <1>2 DEF Busy, HoldsId, IdOf
<1>4. PICK i \in ProviderIds, n \in 1 .. 7, v \in Blocks \cup {NULL, Unregistered} :
         /\ i = doing[t].id /\ n = doing[t].n
         /\ v = IF doing[t].at = "register" THEN NULL ELSE doing[t].prov
         /\ SetsRoute(i, n, v)
  BY <1>0 DEF RegisterRpc, RegisterData, At, SetsRoute
<1>5. /\ route' \in [ProviderIds -> [Range(Rpcs) -> Blocks \cup {NULL, Unregistered}]]
      /\ \A j \in ProviderIds \ {i} : route'[j] = route[j]
      /\ \A l \in 1 .. 7 : route'[i][Rpcs[l]] = IF l = n THEN v ELSE route[i][Rpcs[l]]
  BY <1>0, <1>4, RouteSet
<1>6. LifecycleTypes'
  BY <1>0, <1>2, <1>5 DEF LifecycleTypes
<1>7. Up' = Up /\ BlocksOK'
  BY <1>0, <1>1, <1>2, <1>3, <1>6, BlocksKept
<1>8. ASSUME NEW k \in 1 .. 7 PROVE route'[IdOf(t)][Rpcs[k]] = RouteMade(t, k)'
  <2>1. route[IdOf(t)][Rpcs[k]] = RouteMade(t, k)
    BY <1>3 DEF LifecycleInv, RoutesOK
  <2>2. k \in Int /\ doing[t].n \in Int
    BY <1>0
  <2>3. CASE doing[t].at = "register"
    BY <1>1, <1>2, <1>3, <1>4, <1>5, <2>1, <2>2, <2>3 DEF RouteMade
  <2>4. CASE doing[t].at = "data"
    <3>1. x.at \in {"push", "register"} /\ x.n = doing[t].n + 1
      BY <1>0, <1>1, <2>4
    <3> QED
      BY <1>0, <1>1, <1>2, <1>3, <1>4, <1>5, <2>1, <2>2, <2>4, <3>1 DEF RouteMade
  <2> QED
    BY <1>0, <2>3, <2>4
<1>9. RoutesOK'
  BY <1>0, <1>2, <1>3, <1>4, <1>5, <1>7, <1>8, RoutesKept
<1>10. CallsOK'
  BY <1>0, <1>7, CallsKept DEF LifecycleInv
<1>11. MidOK'
  BY <1>0, <1>1, <1>2, MidUp DEF LifecycleInv, MidOK
<1> QED
  BY <1>6, <1>7, <1>9, <1>10, <1>11 DEF LifecycleInv

\* The provider is up when its registration returns.
LEMMA RegisterReturnsKeeps ==
    ASSUME LifecycleInv, NEW t \in Threads, RegisterReturns(t) PROVE LifecycleInv'
<1>. DEFINE p == doing[t].prov
<1>0. LifecycleTypes /\ doing[t].at = "push" /\ mid = "up"
      /\ doing[t] \in Whereabouts /\ doing[t].id \in ProviderIds
      /\ p \in Blocks /\ doing[t].n = 8
      /\ UNCHANGED <<one_stream, mid, route, call, wild>>
  BY RegistersUp, InHand DEF LifecycleInv, LifecycleTypes, RegisterReturns, At
<1>1. /\ heap' = [heap EXCEPT ![p].dummy = TRUE]
      /\ callbacks' = Append(callbacks, p)
      /\ kept' \in {kept, kept \cup {p}}
      /\ Goes(t, Idle)
  BY DEF RegisterReturns
<1>2. /\ doing' \in [Threads -> Whereabouts]
      /\ doing'[t].at = "idle"
      /\ \A s \in Threads \ {t} : doing'[s] = doing[s]
  BY <1>0, <1>1, Beginnings, GoesThere DEF Idle
<1>3. Busy(t) /\ ~Busy(t)' /\ HoldsId(t) /\ ~HoldsId(t)' /\ IdOf(t) = doing[t].id
  BY <1>0, <1>2 DEF Busy, HoldsId, IdOf
<1>4. heap[p] # NULL /\ heap[p].id = doing[t].id
  BY <1>0, <1>3 DEF LifecycleInv, BlocksOK
<1>5. /\ heap' \in [Blocks -> Providers \cup {NULL}]
      /\ heap'[p] # NULL /\ heap'[p].id = doing[t].id /\ heap'[p].dummy
      /\ \A q \in Blocks \ {p} : heap'[q] = heap[q]
  <2>1. heap[p] \in Providers
    BY <1>0, <1>4, Allocations
  <2>2. heap' = [heap EXCEPT ![p] = [heap[p] EXCEPT !.dummy = TRUE]]
    BY <1>1
  <2>3. /\ [heap[p] EXCEPT !.dummy = TRUE] \in Providers
        /\ [heap[p] EXCEPT !.dummy = TRUE].id = heap[p].id
        /\ [heap[p] EXCEPT !.dummy = TRUE].dummy
    BY <2>1 DEF Providers
  <2>4. NULL \notin Providers
    BY LifecycleAssumption DEF Providers
  <2>. HIDE DEF Providers
  <2> QED
    BY <1>0, <1>4, <2>2, <2>3, <2>4 DEF LifecycleTypes
<1>6. callbacks' \in Seq(Blocks) /\ Range(callbacks') = Range(callbacks) \cup {p}
      /\ (p \notin Range(callbacks) => IsInjective(callbacks'))
  BY <1>0, <1>1, Pushed DEF LifecycleTypes, LifecycleInv, BlocksOK
<1>7. LifecycleTypes'
  BY <1>0, <1>1, <1>2, <1>5, <1>6 DEF LifecycleTypes
<1>8. \A s \in Threads \ {t} :
         /\ Busy(s)' <=> Busy(s)
         /\ Busy(s) => doing[s].prov \in Blocks \ {p}
                       /\ heap'[doing[s].prov] = heap[doing[s].prov]
         /\ HoldsId(s)' <=> HoldsId(s)
         /\ HoldsId(s) => IdOf(s)' = IdOf(s)
         /\ HoldsId(s) => \A k : RouteMade(s, k)' = RouteMade(s, k)
  <2>1. ASSUME NEW s \in Threads \ {t}, Busy(s)
        PROVE  doing[s].prov \in Blocks \ {p}
               /\ heap'[doing[s].prov] = heap[doing[s].prov]
    <3>1. doing[s] \in Whereabouts
      BY <1>0 DEF LifecycleTypes
    <3>2. doing[s].prov \in Blocks /\ doing[s].prov # p
      BY <1>3, <2>1, <3>1, InHand DEF Busy, LifecycleInv, BlocksOK
    <3> QED
      BY <1>5, <3>2
  <2> QED
    BY <1>2, <2>1, StaysThere
<1>9. p \notin Up /\ Up' = Up \cup {p}
  <2>1. Up \subseteq Blocks /\ Up' \subseteq Blocks
    BY DEF Up
  <2>2. p \notin Up
    BY <1>0, <1>3, UpIs
  <2>3. p \in Up'
    BY <1>0, <1>2, <1>3, <1>5, <1>7, <1>8, UpIsNext
  <2>4. ASSUME NEW q \in Blocks \ {p} PROVE q \in Up <=> q \in Up'
    <3>1. \A s \in Threads : (Busy(s)' => doing'[s].prov # q)
                              <=> (Busy(s) => doing[s].prov # q)
      BY <1>2, <1>3, <1>8, <2>4
    <3> QED
      BY <1>0, <1>5, <1>7, <3>1, UpIs, UpIsNext
  <2> QED
    BY <1>0, <2>1, <2>2, <2>3, <2>4
<1>10. \A q \in Up : q \in Blocks /\ heap'[q] = heap[q]
  BY <1>5, <1>9 DEF Up
<1>11. BlocksOK'
  <2>1. \A s \in Threads : Busy(s)' =>
           s # t /\ Busy(s) /\ doing'[s] = doing[s] /\ heap'[doing[s].prov] # NULL
    BY <1>2, <1>3, <1>8 DEF LifecycleInv, BlocksOK
  <2>2. ASSUME NEW s \in Threads, doing'[s].at \in {"register", "data", "push"}
        PROVE  heap'[doing'[s].prov].id = doing'[s].id
    <3>1. Busy(s)'
      BY <2>2 DEF Busy
    <3> QED
      BY <1>8, <2>1, <2>2, <3>1 DEF LifecycleInv, BlocksOK
  <2>3. Range(callbacks') = Up'
    BY <1>6, <1>9 DEF LifecycleInv, BlocksOK
  <2>4. IsInjective(callbacks')
    BY <1>6, <1>9 DEF LifecycleInv, BlocksOK
  <2>5. \A q \in Up' : heap'[q].dummy
    BY <1>5, <1>9, <1>10 DEF LifecycleInv, BlocksOK
  <2> QED
    BY <2>1, <2>2, <2>3, <2>4, <2>5 DEF LifecycleInv, BlocksOK
<1>12. \A k \in 1 .. 7 : route[heap'[p].id][Rpcs[k]] = p
  <2>1. \A k \in 1 .. 7 : RouteMade(t, k) = p
    BY <1>0 DEF RouteMade
  <2> QED
    BY <1>3, <1>5, <2>1 DEF LifecycleInv, RoutesOK
<1>13. RoutesOK'
  <2>1. \A s \in Threads : HoldsId(s)' => s # t /\ HoldsId(s) /\ IdOf(s)' = IdOf(s)
                           /\ \A k : RouteMade(s, k)' = RouteMade(s, k)
    BY <1>3, <1>8
  <2>2. \A s \in Threads : HoldsId(s)' => IdOf(s)' # heap'[p].id
    BY <1>3, <1>5, <2>1 DEF LifecycleInv, RoutesOK
  <2>3. ASSUME NEW i \in ProviderIds, NEW k \in 1 .. 7, route[i][Rpcs[k]] # Unregistered
        PROVE  \/ \E q \in Up' : heap'[q].id = i
               \/ \E s \in Threads : HoldsId(s)' /\ IdOf(s)' = i
    <3>1. \/ \E q \in Up : heap[q].id = i
          \/ \E s \in Threads \ {t} : HoldsId(s) /\ IdOf(s) = i
          \/ i = heap'[p].id
      BY <1>3, <1>5, <2>3 DEF LifecycleInv, RoutesOK
    <3> QED
      BY <1>8, <1>9, <1>10, <3>1
  <2>4. \A s \in Threads : HoldsId(s)' =>
           \A k \in 1 .. 7 : route[IdOf(s)'][Rpcs[k]] = RouteMade(s, k)'
    BY <2>1 DEF LifecycleInv, RoutesOK
  <2>5. \A s, r \in Threads : HoldsId(s)' /\ HoldsId(r)' /\ IdOf(s)' = IdOf(r)' => s = r
    BY <2>1 DEF LifecycleInv, RoutesOK
  <2>6. \A q \in Up', s \in Threads : HoldsId(s)' => IdOf(s)' # heap'[q].id
    BY <1>9, <1>10, <2>1, <2>2 DEF LifecycleInv, RoutesOK
  <2>7. \A q \in Up', k \in 1 .. 7 : route[heap'[q].id][Rpcs[k]] = q
    BY <1>9, <1>10, <1>12 DEF LifecycleInv, RoutesOK
  <2> QED
    BY <1>0, <2>3, <2>4, <2>5, <2>6, <2>7 DEF RoutesOK
<1>14. CallsOK'
  BY <1>0, <1>9, <1>10, CallsKept DEF LifecycleInv
<1>15. MidOK'
  <2>1. kept' \subseteq Range(callbacks')
    BY <1>1, <1>6 DEF LifecycleInv, MidOK
  <2> QED
    BY <1>0, <1>2, <2>1, MidUp DEF LifecycleInv, MidOK
<1> QED
  BY <1>7, <1>11, <1>13, <1>14, <1>15 DEF LifecycleInv

-----------------------------------------------------------------------------
(* Steps of a thread that finalizes providers. *)

\* The route of the next RPC goes; the id is free when soma_sum's has gone.
LEMMA DeregisterKeeps ==
    ASSUME LifecycleInv, NEW t \in Threads, Deregister(t) PROVE LifecycleInv'
<1>0. LifecycleTypes /\ doing[t].at = "deregister" /\ doing[t] \in Whereabouts
      /\ doing[t].prov \in Blocks /\ doing[t].n \in 1 .. 7
      /\ UNCHANGED <<one_stream, mid, callbacks, heap, kept, call, wild>>
  BY InHand DEF LifecycleInv, LifecycleTypes, Deregister, At
<1>1. PICK x \in Whereabouts :
         /\ Goes(t, x) /\ x.prov = doing[t].prov /\ x.for = doing[t].for
         /\ IF doing[t].n = 7 THEN x.at = "close"
            ELSE x.at = "deregister" /\ x.n = doing[t].n + 1
  <2>1. CASE doing[t].n = 7
    <3>1. PICK y : /\ y = [at |-> "close", prov |-> doing[t].prov, n |-> doing[t].n + 1,
                           for |-> doing[t].for, left |-> heap[doing[t].prov].cols]
                   /\ Goes(t, y)
      BY <2>1, RpcNames DEF Deregister, Deregisters
    <3>2. y \in Whereabouts /\ y.at = "close" /\ y.prov = doing[t].prov
          /\ y.for = doing[t].for
      <4>1. heap[doing[t].prov].cols \in Nat
        BY <1>0, Allocations DEF LifecycleInv, BlocksOK, Busy, Providers
      <4> QED
        BY <1>0, <2>1, <3>1, <4>1, DeregistersLast
    <3> QED
      BY <2>1, <3>1, <3>2
  <2>2. CASE doing[t].n # 7
    <3>1. PICK y : y = [doing[t] EXCEPT !.n = doing[t].n + 1] /\ Goes(t, y)
      BY <2>2, RpcNames DEF Deregister, Deregisters
    <3>2. y \in Whereabouts /\ y.at = "deregister" /\ y.prov = doing[t].prov
          /\ y.for = doing[t].for /\ y.n = doing[t].n + 1
      BY <1>0, <2>2, <3>1, DeregistersNext
    <3> QED
      BY <2>2, <3>1, <3>2
  <2> QED
    BY <2>1, <2>2
<1>2. /\ doing' \in [Threads -> Whereabouts]
      /\ doing'[t] = x
      /\ \A s \in Threads \ {t} : doing'[s] = doing[s]
  BY <1>0, <1>1, GoesThere
<1>3. x.at \in {"close", "deregister"}
  BY <1>1
<1>4. Busy(t) /\ Busy(t)' /\ HoldsId(t) /\ IdOf(t) = heap[doing[t].prov].id
  BY <1>0, <1>2, <1>3 DEF Busy, HoldsId, IdOf
<1>5. PICK i \in ProviderIds, n \in 1 .. 7 :
         i = IdOf(t) /\ n = doing[t].n /\ SetsRoute(i, n, Unregistered)
  BY <1>0, <1>4, IdsHeld DEF Deregister, SetsRoute
<1>6. /\ route' \in [ProviderIds -> [Range(Rpcs) -> Blocks \cup {NULL, Unregistered}]]
      /\ \A j \in ProviderIds \ {i} : route'[j] = route[j]
      /\ \A l \in 1 .. 7 :
            route'[i][Rpcs[l]] = IF l = n THEN Unregistered ELSE route[i][Rpcs[l]]
  BY <1>0, <1>5, RouteSet
<1>7. LifecycleTypes'
  BY <1>0, <1>2, <1>6 DEF LifecycleTypes
<1>8. Up' = Up /\ BlocksOK'
  BY <1>0, <1>1, <1>2, <1>3, <1>4, <1>7, BlocksKept
<1>9. \A k \in 1 .. 7 : route'[i][Rpcs[k]] =
         IF k < n + 1 THEN Unregistered ELSE doing[t].prov
  <2>1. ASSUME NEW k \in 1 .. 7
        PROVE  route'[i][Rpcs[k]] = IF k < n + 1 THEN Unregistered ELSE doing[t].prov
    <3>1. route[i][Rpcs[k]] = IF k < n THEN Unregistered ELSE doing[t].prov
      BY <1>0, <1>4, <1>5 DEF LifecycleInv, RoutesOK, RouteMade
    <3>2. k < n + 1 <=> k < n \/ k = n
      BY <1>5
    <3> QED
      BY <1>6, <3>1, <3>2
  <2> QED
    BY <2>1
<1>10. \/ /\ HoldsId(t)' /\ IdOf(t)' = i
          /\ \A k \in 1 .. 7 : route'[i][Rpcs[k]] = RouteMade(t, k)'
       \/ /\ ~HoldsId(t)'
          /\ \A k \in 1 .. 7 : route'[i][Rpcs[k]] = Unregistered
  <2>1. CASE n = 7
    <3>1. \A k \in 1 .. 7 : k < n + 1
      BY <2>1
    <3>2. ~HoldsId(t)'
      BY <1>1, <1>2, <1>5, <2>1 DEF HoldsId
    <3> QED
      BY <1>9, <3>1, <3>2
  <2>2. CASE n # 7
    <3>1. doing'[t].at = "deregister" /\ doing'[t].n = n + 1
          /\ doing'[t].prov = doing[t].prov
      BY <1>1, <1>2, <1>5, <2>2
    <3>2. HoldsId(t)' /\ IdOf(t)' = i
      BY <1>0, <1>4, <1>5, <3>1 DEF HoldsId, IdOf
    <3>3. \A k \in 1 .. 7 : RouteMade(t, k)' =
             IF k < n + 1 THEN Unregistered ELSE doing[t].prov
      BY <3>1 DEF RouteMade
    <3> QED
      BY <1>9, <3>2, <3>3
  <2> QED
    BY <2>1, <2>2
<1>11. RoutesOK'
  BY <1>0, <1>2, <1>4, <1>5, <1>6, <1>8, <1>10, RoutesKept
<1>12. CallsOK'
  BY <1>0, <1>8, CallsKept DEF LifecycleInv
<1>13. MidOK'
  <2>1. doing[t].for = "margo" => mid = "finalizing"
    BY <1>0 DEF LifecycleInv, MidOK
  <2> QED
    BY <1>0, <1>1, <1>2, <1>3, <2>1, MidGoesOn DEF LifecycleInv
<1> QED
  BY <1>7, <1>8, <1>11, <1>12, <1>13 DEF LifecycleInv

\* A provider is freed when its collectors are closed; nothing leads to it.
LEMMA FreeKeeps ==
    ASSUME LifecycleInv, NEW t \in Threads, Free(t) PROVE LifecycleInv'
<1>. DEFINE p == doing[t].prov
<1>0. LifecycleTypes /\ doing[t].at = "close" /\ doing[t] \in Whereabouts
      /\ p \in Blocks /\ Busy(t) /\ ~HoldsId(t)
      /\ heap' = [heap EXCEPT ![p] = NULL]
      /\ UNCHANGED <<one_stream, mid, route, callbacks, kept, call, wild>>
  BY InHand DEF LifecycleInv, LifecycleTypes, Free, At, Busy, HoldsId
<1>1. PICK x \in Whereabouts :
         Goes(t, x) /\ IF doing[t].for = "margo" THEN x.at = "callback" ELSE x.at = "idle"
  BY Beginnings DEF Free, Idle
<1>2. /\ doing' \in [Threads -> Whereabouts]
      /\ doing'[t] = x /\ x.at \in {"callback", "idle"}
      /\ \A s \in Threads \ {t} : doing'[s] = doing[s]
  BY <1>0, <1>1, GoesThere
<1>3. ~Busy(t)' /\ ~HoldsId(t)'
  BY <1>2 DEF Busy, HoldsId
<1>4. /\ heap' \in [Blocks -> Providers \cup {NULL}] /\ heap'[p] = NULL
      /\ \A q \in Blocks \ {p} : heap'[q] = heap[q]
  BY <1>0 DEF LifecycleTypes
<1>5. LifecycleTypes'
  BY <1>0, <1>2, <1>4 DEF LifecycleTypes
<1>6. \A s \in Threads \ {t} :
         /\ Busy(s)' <=> Busy(s)
         /\ Busy(s) => doing[s].prov \in Blocks \ {p}
                       /\ heap'[doing[s].prov] = heap[doing[s].prov]
         /\ HoldsId(s)' <=> HoldsId(s)
         /\ HoldsId(s) => IdOf(s)' = IdOf(s)
         /\ HoldsId(s) => \A k : RouteMade(s, k)' = RouteMade(s, k)
  <2>1. ASSUME NEW s \in Threads \ {t}, Busy(s)
        PROVE  doing[s].prov \in Blocks \ {p}
               /\ heap'[doing[s].prov] = heap[doing[s].prov]
    <3>1. doing[s] \in Whereabouts
      BY <1>0 DEF LifecycleTypes
    <3>2. doing[s].prov \in Blocks /\ doing[s].prov # p
      BY <1>0, <2>1, <3>1, InHand DEF Busy, LifecycleInv, BlocksOK
    <3> QED
      BY <1>4, <3>2
  <2> QED
    BY <1>2, <2>1, StaysThere
<1>7. Up' = Up
  <2>1. Up \subseteq Blocks /\ Up' \subseteq Blocks
    BY DEF Up
  <2>2. p \notin Up /\ p \notin Up'
    BY <1>0, <1>4, <1>5, UpIs, UpIsNext
  <2>3. ASSUME NEW q \in Blocks \ {p} PROVE q \in Up <=> q \in Up'
    <3>1. \A s \in Threads : (Busy(s)' => doing'[s].prov # q)
                              <=> (Busy(s) => doing[s].prov # q)
      BY <1>2, <1>3, <1>6, <2>3
    <3> QED
      BY <1>0, <1>4, <1>5, <3>1, UpIs, UpIsNext
  <2> QED
    BY <2>1, <2>2, <2>3
<1>8. \A q \in Up : heap'[q] = heap[q]
  BY <1>4, <1>7 DEF Up
<1>9. BlocksOK'
  <2>1. \A s \in Threads : Busy(s)' =>
           s # t /\ Busy(s) /\ doing'[s] = doing[s] /\ heap'[doing[s].prov] # NULL
    BY <1>2, <1>3, <1>6 DEF LifecycleInv, BlocksOK
  <2>2. ASSUME NEW s \in Threads, doing'[s].at \in {"register", "data", "push"}
        PROVE  heap'[doing'[s].prov].id = doing'[s].id
    <3>1. Busy(s)'
      BY <2>2 DEF Busy
    <3> QED
      BY <1>6, <2>1, <2>2, <3>1 DEF LifecycleInv, BlocksOK
  <2>3. \A q \in Up : heap'[q].dummy
    BY <1>8 DEF LifecycleInv, BlocksOK
  <2> QED
    BY <1>0, <1>7, <2>1, <2>2, <2>3 DEF LifecycleInv, BlocksOK
<1>10. RoutesOK'
  <2>1. \A s \in Threads : HoldsId(s)' <=> HoldsId(s)
    BY <1>0, <1>3, <1>6
  <2>2. \A s \in Threads : HoldsId(s) => IdOf(s)' = IdOf(s)
                           /\ \A k : RouteMade(s, k)' = RouteMade(s, k)
    BY <1>0, <1>6
  <2> QED
    BY <1>0, <1>7, <1>8, <2>1, <2>2 DEF LifecycleInv, RoutesOK
<1>11. CallsOK'
  BY <1>0, <1>7, <1>8, CallsKept DEF LifecycleInv
<1>12. MidOK'
  <2>1. doing[t].for = "margo" => mid = "finalizing"
    BY <1>0 DEF LifecycleInv, MidOK
  <2> QED
    BY <1>0, <1>1, <1>2, <2>1, MidGoesOn DEF LifecycleInv
<1> QED
  BY <1>5, <1>9, <1>10, <1>11, <1>12 DEF LifecycleInv

\* A provider that is up is taken: its callback goes, and a thread that had
\* nothing in hand begins to deregister it.
LEMMA TakesUp ==
    ASSUME LifecycleInv, NEW t \in Threads, ~Busy(t), ~HoldsId(t), NEW p \in Up,
           NEW for \in {"destroy", "margo"}, FinalizeBegins(t, p, for),
           UNCHANGED <<one_stream, route, heap, call>>,
           mid' \in {"up", "finalizing", "finalized"}, kept' \in SUBSET Blocks,
           callbacks' \in Seq(Blocks), IsInjective(callbacks'),
           Range(callbacks') = Range(callbacks) \ {p}
    PROVE  /\ LifecycleTypes' /\ BlocksOK' /\ RoutesOK' /\ ~wild'
           /\ doing'[t].at = "deregister" /\ doing'[t].for = for
           /\ \A s \in Threads \ {t} : doing'[s] = doing[s]
           /\ Up' = Up \ {p}
<1>0. LifecycleTypes /\ p \in Blocks /\ heap[p] # NULL /\ p \in Range(callbacks)
  BY DEF LifecycleInv, BlocksOK, Up
<1>1. /\ doing' \in [Threads -> Whereabouts]
      /\ doing'[t] = [at |-> "deregister", prov |-> p, n |-> 1, for |-> for]
      /\ \A s \in Threads \ {t} : doing'[s] = doing[s]
  BY <1>0, Beginnings, GoesThere DEF FinalizeBegins
<1>2. ~wild'
  BY <1>0 DEF FinalizeBegins, LifecycleInv, MidOK
<1>3. LifecycleTypes'
  <2>1. wild' \in BOOLEAN
    BY DEF FinalizeBegins
  <2>2. /\ route' \in [ProviderIds -> [Range(Rpcs) -> Blocks \cup {NULL, Unregistered}]]
        /\ heap' \in [Blocks -> Providers \cup {NULL}]
    BY <1>0 DEF LifecycleTypes
  <2>3. /\ one_stream' \in BOOLEAN
        /\ call' \in [Ults -> {NoCall} \cup [at : {"ready", "serving"}, id : ProviderIds,
                                           rpc : Range(Rpcs), prov : Blocks \cup {NULL}]]
    BY <1>0 DEF LifecycleTypes
  <2> QED
    BY <1>1, <2>1, <2>2, <2>3 DEF LifecycleTypes
<1>4. /\ Busy(t)' /\ HoldsId(t)' /\ IdOf(t)' = heap[p].id /\ doing'[t].prov = p
      /\ doing'[t].at \notin {"register", "data", "push"}
  BY <1>1 DEF Busy, HoldsId, IdOf
<1>5. \A s \in Threads \ {t} :
         /\ Busy(s)' <=> Busy(s)
         /\ HoldsId(s)' <=> HoldsId(s)
         /\ IdOf(s)' = IdOf(s)
         /\ \A k : RouteMade(s, k)' = RouteMade(s, k)
  BY <1>1, StaysThere
<1>6. \A s \in Threads : Busy(s) => doing[s].prov # p
  BY <1>0, UpIs
<1>7. Up' = Up \ {p}
  <2>1. Up \subseteq Blocks /\ Up' \subseteq Blocks
    BY DEF Up
  <2>2. p \notin Up'
    BY <1>0, <1>3, <1>4, UpIsNext
  <2>3. ASSUME NEW q \in Blocks \ {p} PROVE q \in Up <=> q \in Up'
    <3>1. \A s \in Threads : (Busy(s)' => doing'[s].prov # q)
                              <=> (Busy(s) => doing[s].prov # q)
      BY <1>1, <1>4, <1>5, <2>3
    <3> QED
      BY <1>0, <1>3, <3>1, UpIs, UpIsNext
  <2> QED
    BY <2>1, <2>2, <2>3
<1>8. BlocksOK'
  <2>1. \A s \in Threads : Busy(s)' => heap[doing'[s].prov] # NULL
    BY <1>0, <1>1, <1>4, <1>5 DEF LifecycleInv, BlocksOK
  <2>2. \A s, r \in Threads :
           Busy(s)' /\ Busy(r)' /\ doing'[s].prov = doing'[r].prov => s = r
    BY <1>1, <1>4, <1>5, <1>6 DEF LifecycleInv, BlocksOK
  <2>3. \A s \in Threads : doing'[s].at \in {"register", "data", "push"} =>
           heap[doing'[s].prov].id = doing'[s].id
    BY <1>1, <1>4 DEF LifecycleInv, BlocksOK
  <2>4. Range(callbacks') = Up'
    BY <1>7 DEF LifecycleInv, BlocksOK
  <2> QED
    BY <1>7, <2>1, <2>2, <2>3, <2>4 DEF LifecycleInv, BlocksOK
<1>9. \A q \in Up' : q \in Up /\ heap[q].id # heap[p].id
  <2>1. \A q \in Up : route[heap[q].id][Rpcs[1]] = q
    BY DEF LifecycleInv, RoutesOK
  <2> QED
    BY <1>7, <2>1
<1>10. \A k \in 1 .. 7 : route[heap[p].id][Rpcs[k]] = RouteMade(t, k)'
  <2>1. \A k \in 1 .. 7 : ~(k < 1)
    OBVIOUS
  <2> QED
    BY <1>1, <2>1 DEF RouteMade, LifecycleInv, RoutesOK
<1>11. RoutesOK'
  <2>1. \A s \in Threads : HoldsId(s)' =>
           \A k \in 1 .. 7 : route[IdOf(s)'][Rpcs[k]] = RouteMade(s, k)'
    BY <1>4, <1>5, <1>10 DEF LifecycleInv, RoutesOK
  <2>2. \A s \in Threads \ {t} : HoldsId(s)' => IdOf(s)' # heap[p].id
    BY <1>5 DEF LifecycleInv, RoutesOK
  <2>3. \A s, r \in Threads : HoldsId(s)' /\ HoldsId(r)' /\ IdOf(s)' = IdOf(r)' => s = r
    BY <1>4, <1>5, <2>2 DEF LifecycleInv, RoutesOK
  <2>4. \A q \in Up', s \in Threads : HoldsId(s)' => IdOf(s)' # heap[q].id
    BY <1>4, <1>5, <1>9 DEF LifecycleInv, RoutesOK
  <2>5. \A q \in Up', k \in 1 .. 7 : route[heap[q].id][Rpcs[k]] = q
    BY <1>9 DEF LifecycleInv, RoutesOK
  <2>6. ASSUME NEW i \in ProviderIds, NEW k \in 1 .. 7, route[i][Rpcs[k]] # Unregistered
        PROVE  \/ \E q \in Up' : heap[q].id = i
               \/ \E s \in Threads : HoldsId(s)' /\ IdOf(s)' = i
    <3>1. \/ \E q \in Up \ {p} : heap[q].id = i
          \/ heap[p].id = i
          \/ \E s \in Threads \ {t} : HoldsId(s) /\ IdOf(s) = i
      BY <2>6 DEF LifecycleInv, RoutesOK
    <3> QED
      BY <1>4, <1>5, <1>7, <3>1
  <2> QED
    BY <2>1, <2>3, <2>4, <2>5, <2>6 DEF RoutesOK
<1> QED
  BY <1>1, <1>2, <1>3, <1>7, <1>8, <1>11

\* soma_provider_destroy takes a provider that nobody calls.
LEMMA DestroyKeeps ==
    ASSUME LifecycleInv, NEW t \in Threads, soma_provider_destroy(t) PROVE LifecycleInv'
<1>0. LifecycleTypes /\ doing[t].at = "idle" /\ mid = "up" /\ mid' = "up"
      /\ ~Busy(t) /\ ~HoldsId(t)
      /\ UNCHANGED <<one_stream, route, heap, call, mid>>
  BY DEF LifecycleInv, soma_provider_destroy, At, Busy, HoldsId
<1>1. PICK p \in kept :
         /\ InFlight(heap[p].id) = {} /\ kept' = kept \ {p}
         /\ PopCallback(p) /\ FinalizeBegins(t, p, "destroy")
  BY DEF soma_provider_destroy
<1>2. p \in Up /\ p \in Range(callbacks) /\ kept \subseteq Blocks
  BY DEF LifecycleInv, LifecycleTypes, MidOK, BlocksOK
<1>3. /\ callbacks' \in Seq(Blocks) /\ IsInjective(callbacks')
      /\ Range(callbacks') = Range(callbacks) \ {p}
  <2>1. PICK n \in DOMAIN callbacks : callbacks[n] = p /\ callbacks' = RemoveAt(callbacks, n)
    BY <1>1, <1>2 DEF PopCallback
  <2> QED
    BY <2>1, Removed DEF LifecycleInv, LifecycleTypes, BlocksOK
<1>4. /\ LifecycleTypes' /\ BlocksOK' /\ RoutesOK' /\ ~wild'
      /\ doing'[t].at = "deregister" /\ doing'[t].for = "destroy"
      /\ \A s \in Threads \ {t} : doing'[s] = doing[s]
      /\ Up' = Up \ {p}
  <2>1. kept' \in SUBSET Blocks /\ mid' \in {"up", "finalizing", "finalized"}
    BY <1>0, <1>1, <1>2
  <2> QED
    BY <1>0, <1>1, <1>2, <1>3, <2>1, TakesUp
<1>5. CallsOK'
  <2>1. \A u \in Ults : call[u].at # "idle" => call[u].id # heap[p].id
    BY <1>1 DEF InFlight, NoCall
  <2> QED
    BY <1>0, <1>4, <2>1, CallsKept DEF LifecycleInv
<1>6. MidOK'
  <2>1. kept' \subseteq Range(callbacks')
    BY <1>1, <1>3 DEF LifecycleInv, MidOK
  <2> QED
    BY <1>0, <1>4, <2>1, MidUp DEF LifecycleInv
<1> QED
  BY <1>4, <1>5, <1>6 DEF LifecycleInv

-----------------------------------------------------------------------------
(* Steps of Margo. *)

\* margo_finalize runs the callbacks of the providers that are left, the last
\* that was pushed first.
LEMMA RunCallbackKeeps ==
    ASSUME LifecycleInv, NEW t \in Threads, RunCallback(t) PROVE LifecycleInv'
<1>. DEFINE p == Last(callbacks)
<1>0. LifecycleTypes /\ doing[t].at = "callback" /\ mid = "finalizing"
      /\ ~Busy(t) /\ ~HoldsId(t) /\ kept = {} /\ Registering = {}
      /\ UNCHANGED <<one_stream, mid, route, heap, kept, call>>
  BY DEF LifecycleInv, MidOK, RunCallback, At, Busy, HoldsId
<1>1. /\ callbacks' \in Seq(Blocks) /\ IsInjective(callbacks')
      /\ Range(callbacks') = Range(callbacks) \ {p} /\ p \in Up
  BY Popped DEF LifecycleInv, LifecycleTypes, BlocksOK, RunCallback
<1>2. FinalizeBegins(t, p, "margo")
  BY DEF RunCallback
<1>. HIDE DEF p
<1>3. /\ LifecycleTypes' /\ BlocksOK' /\ RoutesOK' /\ ~wild'
      /\ doing'[t].at = "deregister" /\ doing'[t].for = "margo"
      /\ \A s \in Threads \ {t} : doing'[s] = doing[s]
      /\ Up' = Up \ {p}
  <2>1. kept' \in SUBSET Blocks /\ mid' \in {"up", "finalizing", "finalized"}
    BY <1>0
  <2> QED
    BY <1>0, <1>1, <1>2, <2>1, TakesUp
<1>4. CallsOK'
  BY <1>0 DEF LifecycleInv, CallsOK
<1>5. MidOK'
  <2>1. Registering' = {}
    BY <1>0, <1>3 DEF Registering
  <2> QED
    BY <1>0, <1>3, <2>1 DEF MidOK
<1> QED
  BY <1>3, <1>4, <1>5 DEF LifecycleInv

\* A thread that has nothing in hand begins or ends margo_finalize.
LEMMA FinalizeKeeps ==
    ASSUME LifecycleInv, NEW t \in Threads, margo_finalize(t) \/ Finalized(t)
    PROVE  LifecycleInv'
<1>0. LifecycleTypes /\ UNCHANGED <<one_stream, route, callbacks, heap, call, wild>>
  BY DEF LifecycleInv, margo_finalize, Finalized
<1>1. PICK x \in Whereabouts : Goes(t, x) /\ x.at \in {"callback", "idle"}
         /\ (x.at = "callback" => margo_finalize(t)) /\ (x.at = "idle" => Finalized(t))
  BY Beginnings DEF margo_finalize, Finalized, Idle
<1>2. /\ doing' \in [Threads -> Whereabouts]
      /\ doing'[t] = x
      /\ \A s \in Threads \ {t} : doing'[s] = doing[s]
  BY <1>0, <1>1, GoesThere
<1>3. ~Busy(t) /\ ~Busy(t)' /\ ~HoldsId(t) /\ ~HoldsId(t)'
      /\ doing'[t].at \notin {"register", "data", "push"}
  BY <1>1, <1>2 DEF Busy, HoldsId, margo_finalize, Finalized, At
<1>4. mid' \in {"finalizing", "finalized"} /\ kept' \in SUBSET Blocks
  BY <1>0 DEF margo_finalize, Finalized, LifecycleTypes
<1>5. LifecycleTypes'
  BY <1>0, <1>2, <1>4 DEF LifecycleTypes
<1>6. Up' = Up /\ BlocksOK'
  BY <1>0, <1>2, <1>3, <1>5, BlocksKept
<1>7. \A s \in Threads : /\ HoldsId(s)' <=> HoldsId(s)
                         /\ HoldsId(s) => IdOf(s)' = IdOf(s)
                         /\ HoldsId(s) => \A k : RouteMade(s, k)' = RouteMade(s, k)
  BY <1>0, <1>2, <1>3, StaysThere
<1>8. RoutesOK'
  BY <1>0, <1>6, <1>7 DEF LifecycleInv, RoutesOK
<1>9. \A u \in Ults : call[u].at = "idle"
  BY DEF margo_finalize, Finalized, At, NoCall, LifecycleInv, MidOK, CallsOK
<1>10. CallsOK'
  BY <1>0, <1>9 DEF CallsOK
<1>11. MidOK'
  <2>1. CASE margo_finalize(t)
    <3>1. mid' = "finalizing" /\ kept' = {} /\ Registering = {}
          /\ doing'[t].at = "callback"
      BY <1>0, <1>2, <2>1 DEF margo_finalize, GoesThere, Goes, LifecycleTypes
    <3>2. Registering' = {}
      BY <1>2, <3>1 DEF Registering
    <3> QED
      BY <1>0, <3>1, <3>2 DEF LifecycleInv, MidOK
  <2>2. CASE Finalized(t)
    <3>1. /\ mid = "finalizing" /\ mid' = "finalized" /\ kept' = kept
          /\ callbacks = <<>> /\ doing'[t] = Idle
          /\ \A s \in Threads \ {t} : doing[s] = Idle
      BY <1>0, <2>2 DEF Finalized, At, Goes, LifecycleTypes, LifecycleInv, MidOK
    <3>2. \A s \in Threads : doing'[s].at = "idle"
      BY <1>2, <3>1 DEF Idle
    <3>3. Registering' = {}
      BY <3>2 DEF Registering
    <3> QED
      BY <1>0, <3>1, <3>2, <3>3 DEF LifecycleInv, MidOK
  <2> QED
    BY <2>1, <2>2
<1> QED
  BY <1>5, <1>6, <1>8, <1>10, <1>11 DEF LifecycleInv

\* A finalized instance has no provider, so that a new one has no routes.
LEMMA NothingLeft ==
    ASSUME LifecycleInv, mid = "finalized"
    PROVE  /\ Up = {} /\ \A p \in Blocks : heap[p] = NULL
           /\ \A t \in Threads : doing[t].at = "idle" /\ ~Busy(t) /\ ~HoldsId(t)
<1>1. callbacks = <<>> /\ \A t \in Threads : doing[t].at = "idle"
  BY DEF LifecycleInv, MidOK
<1>2. Up = {}
  BY <1>1 DEF LifecycleInv, BlocksOK, Range
<1>3. \A t \in Threads : ~Busy(t) /\ ~HoldsId(t)
  BY <1>1 DEF Busy, HoldsId
<1> QED
  BY <1>1, <1>2, <1>3, UpIs DEF LifecycleInv

LEMMA NoRoutesMade ==
    /\ NoRoutes \in [ProviderIds -> [Range(Rpcs) -> Blocks \cup {NULL, Unregistered}]]
    /\ \A i \in ProviderIds, k \in 1 .. 7 : NoRoutes[i][Rpcs[k]] = Unregistered
BY RpcNames DEF NoRoutes

\* A new Margo instance starts with no routes.
LEMMA InitKeeps ==
    ASSUME LifecycleInv, margo_init PROVE LifecycleInv'
<1>0. /\ LifecycleTypes /\ mid = "finalized" /\ mid' = "up" /\ one_stream' \in BOOLEAN
      /\ route' = NoRoutes /\ UNCHANGED <<callbacks, heap, doing, kept, call, wild>>
  BY DEF LifecycleInv, margo_init
<1>1. /\ Up = {}
      /\ \A t \in Threads : doing[t].at = "idle" /\ ~Busy(t) /\ ~HoldsId(t)
  BY <1>0, NothingLeft
<1>2. Up' = {} /\ \A t \in Threads : ~Busy(t)' /\ ~HoldsId(t)'
  BY <1>0, <1>1 DEF Up, Busy, HoldsId
<1>3. LifecycleTypes'
  BY <1>0, NoRoutesMade DEF LifecycleTypes
<1>4. BlocksOK'
  BY <1>0, <1>1, <1>2 DEF LifecycleInv, BlocksOK
<1>5. RoutesOK'
  BY <1>0, <1>2, NoRoutesMade DEF RoutesOK
<1>6. CallsOK'
  BY <1>0 DEF LifecycleInv, CallsOK
<1>7. MidOK'
  BY <1>0, <1>1 DEF LifecycleInv, MidOK
<1> QED
  BY <1>3, <1>4, <1>5, <1>6, <1>7 DEF LifecycleInv

LEMMA StuttersKeep ==
    ASSUME LifecycleInv, UNCHANGED vars PROVE LifecycleInv'
<1>1. LifecycleTypes' /\ SameHeap /\ \A t \in Threads : SamePlace(t)
  BY DEF vars, LifecycleInv, LifecycleTypes, SameHeap, SamePlace
<1>2. Up' = Up /\ BlocksOK' /\ RoutesOK' /\ MidOK'
  BY <1>1, SameRoles DEF vars
<1>3. CallsOK'
  BY <1>2, CallsKept DEF vars, LifecycleInv
<1> QED
  BY <1>1, <1>2, <1>3 DEF LifecycleInv

-----------------------------------------------------------------------------
(* The loop over the collectors, and the RPC without a response. *)

Finalizing(t) == doing[t].at \in {"deregister", "close", "closing"}

\* What a thread that finalizes has in hand: a provider of its own, which is
\* allocated and not up.
LEMMA InFinalisation ==
    ASSUME LifecycleInv, NEW t \in Threads, Finalizing(t)
    PROVE  /\ doing[t] \in Whereabouts /\ doing[t].prov \in Blocks
           /\ heap[doing[t].prov] # NULL /\ heap[doing[t].prov] \in Providers
           /\ doing[t].prov \notin Up
           /\ \A s \in Threads \ {t} : Busy(s) => doing[s].prov # doing[t].prov
<1>1. doing[t] \in Whereabouts /\ doing[t].prov \in Blocks /\ Busy(t)
  BY InHand DEF LifecycleInv, LifecycleTypes, Finalizing, Busy
<1>2. heap[doing[t].prov] # NULL
  BY <1>1 DEF LifecycleInv, BlocksOK
<1> QED
  BY <1>1, <1>2, UpIs, Allocations DEF LifecycleInv, BlocksOK

\* Other threads have their own providers in hand, or a free block.
LEMMA OthersLeaveAlone ==
    ASSUME LifecycleInv, NEW t \in Threads, Finalizing(t),
           NEW s \in Threads \ {t}, Thread(s)
    PROVE  doing'[t] = doing[t] /\ heap'[doing[t].prov] = heap[doing[t].prov]
<1>1. /\ doing[t].prov \in Blocks /\ heap[doing[t].prov] # NULL
      /\ Busy(s) => doing[s].prov # doing[t].prov
  BY InFinalisation
<1>2. ASSUME NEW x, Goes(s, x) PROVE doing'[t] = doing[t]
  BY <1>2 DEF Goes, LifecycleInv, LifecycleTypes
<1>3. CASE soma_finalize_provider(s) \/ RegisterReturns(s)
  <2>1. Busy(s) /\ \E x : Goes(s, x)
    BY <1>3 DEF soma_finalize_provider, Deregister, Deregisters, CloseBegins,
           CloseReturns, Free, RegisterReturns, At, Busy
  <2>2. \A q \in Blocks : q # doing[s].prov => heap'[q] = heap[q]
    BY <1>3 DEF soma_finalize_provider, Deregister, CloseBegins, CloseReturns, Free,
           RegisterReturns, LifecycleInv, LifecycleTypes
  <2> QED
    BY <1>1, <1>2, <2>1, <2>2
<1>4. CASE Allocated(s)
  <2>1. PICK q \in Blocks :
           /\ heap[q] = NULL
           /\ heap' = [heap EXCEPT ![q] = [id |-> doing[s].id, cols |-> 0, dummy |-> FALSE]]
           /\ \E x : Goes(s, x)
    BY <1>4 DEF Allocated
  <2> QED
    BY <1>1, <1>2, <2>1 DEF LifecycleInv, LifecycleTypes
<1>5. ASSUME NEW i \in ProviderIds, NEW keep, RegisterBegins(s, i, keep)
      PROVE  UNCHANGED heap /\ \E x : Goes(s, x)
  BY <1>5 DEF RegisterBegins
<1>6. ASSUME NotAllocated(s) \/ RegisterRpc(s) \/ RegisterData(s)
      PROVE  UNCHANGED heap /\ \E x : Goes(s, x)
  BY <1>6 DEF NotAllocated, RegisterRpc, RegisterData
<1>7. ASSUME soma_deregister_provider(s) \/ Margo(s)
      PROVE  UNCHANGED heap /\ \E x : Goes(s, x)
  BY <1>7 DEF soma_deregister_provider, soma_provider_destroy, FinalizeBegins, Margo,
         margo_finalize, RunCallback, Finalized
<1> QED
  BY <1>2, <1>3, <1>4, <1>5, <1>6, <1>7
     DEF Thread, soma_provider_register, soma_register_provider, Register

\* A handler works on a provider that is up.
LEMMA HandlersLeaveAlone ==
    ASSUME LifecycleInv, NEW t \in Threads, Finalizing(t), NEW u \in Ults, Handler(u)
    PROVE  doing'[t] = doing[t] /\ heap'[doing[t].prov] = heap[doing[t].prov]
<1>1. doing[t].prov \in Blocks /\ doing[t].prov \notin Up
  BY InFinalisation
<1>2. CASE Looks(u)
  BY <1>2 DEF Looks
<1>3. CASE Serves(u)
  <2>1. call[u].prov \in Up
    BY <1>3 DEF Serves, LifecycleInv, CallsOK
  <2>2. \A q \in Blocks : q # call[u].prov => heap'[q] = heap[q]
    BY <1>3 DEF Serves, LifecycleInv, LifecycleTypes
  <2> QED
    BY <1>1, <1>3, <2>1, <2>2 DEF Serves
<1> QED
  BY <1>2, <1>3 DEF Handler

\* Where a thread that has a provider in hand goes next.
LEMMA Onwards ==
    ASSUME LifecycleInv, NEW t \in Threads
    PROVE  /\ RegisterRpc(t) =>
                 /\ doing[t].at = "register" /\ doing'[t].at = "data"
                 /\ doing'[t].prov = doing[t].prov /\ doing'[t].id = doing[t].id
                 /\ doing'[t].n = doing[t].n
           /\ RegisterData(t) =>
                 /\ doing[t].at = "data" /\ doing'[t].at \in {"register", "push"}
                 /\ doing'[t].prov = doing[t].prov /\ doing'[t].id = doing[t].id
                 /\ doing[t].n \in 1 .. 7 /\ doing'[t].n = doing[t].n + 1
           /\ Deregister(t) =>
                 /\ doing[t].at = "deregister" /\ doing'[t].at \in {"deregister", "close"}
                 /\ doing'[t].prov = doing[t].prov
                 /\ doing'[t].at = "close" => doing'[t].left = heap[doing[t].prov].cols
           /\ CloseBegins(t) =>
                 /\ doing[t].at = "close" /\ doing'[t].at = "closing"
                 /\ doing'[t].prov = doing[t].prov
                 /\ doing[t].left \in Nat /\ doing'[t].left = doing[t].left - 1
           /\ CloseReturns(t) =>
                 /\ doing[t].at = "closing" /\ doing'[t].at = "close"
                 /\ doing'[t].prov = doing[t].prov /\ doing'[t].left = doing[t].left
<1>0. LifecycleTypes /\ doing[t] \in Whereabouts
  BY DEF LifecycleInv, LifecycleTypes
<1>1. ASSUME NEW x, Goes(t, x) PROVE doing'[t] = x
  BY <1>0, <1>1 DEF Goes, LifecycleTypes
<1>2. ASSUME RegisterRpc(t)
      PROVE  /\ doing[t].at = "register" /\ doing'[t].at = "data"
             /\ doing'[t].prov = doing[t].prov /\ doing'[t].id = doing[t].id
             /\ doing'[t].n = doing[t].n
  <2>1. PICK y : /\ y = [doing[t] EXCEPT !.at = "data"]
                 /\ Goes(t, y) /\ doing[t].at = "register"
    BY <1>2 DEF RegisterRpc, At
  <2> QED
    BY <1>0, <1>1, <2>1, GoesToData
<1>3. ASSUME RegisterData(t)
      PROVE  /\ doing[t].at = "data" /\ doing'[t].at \in {"register", "push"}
             /\ doing'[t].prov = doing[t].prov /\ doing'[t].id = doing[t].id
             /\ doing[t].n \in 1 .. 7 /\ doing'[t].n = doing[t].n + 1
  <2>1. doing[t].at = "data" /\ doing[t].n \in 1 .. 7
    BY <1>0, <1>3, InHand DEF RegisterData, At
  <2>2. CASE doing[t].n = 7
    <3>1. PICK y : y = [doing[t] EXCEPT !.at = "push", !.n = doing[t].n + 1] /\ Goes(t, y)
      BY <1>3, <2>2, RpcNames DEF RegisterData
    <3>2. y.at = "push" /\ y.id = doing[t].id /\ y.prov = doing[t].prov /\ y.n = 8
      BY <1>0, <2>1, <2>2, <3>1, GoesToPush
    <3>3. doing'[t] = y
      BY <1>1, <3>1
    <3>4. y.n = doing[t].n + 1
      BY <2>2, <3>2
    <3> QED
      BY <2>1, <3>2, <3>3, <3>4
  <2>3. CASE doing[t].n # 7
    <3>1. PICK y : y = [doing[t] EXCEPT !.at = "register", !.n = doing[t].n + 1] /\ Goes(t, y)
      BY <1>3, <2>3, RpcNames DEF RegisterData
    <3>2. y.at = "register" /\ y.id = doing[t].id /\ y.prov = doing[t].prov
          /\ y.n = doing[t].n + 1
      BY <1>0, <2>1, <2>3, <3>1, GoesToNextRpc
    <3> QED
      BY <1>1, <2>1, <3>1, <3>2
  <2> QED
    BY <2>2, <2>3
<1>4. ASSUME Deregister(t)
      PROVE  /\ doing[t].at = "deregister" /\ doing'[t].at \in {"deregister", "close"}
             /\ doing'[t].prov = doing[t].prov
             /\ doing'[t].at = "close" => doing'[t].left = heap[doing[t].prov].cols
  <2>1. doing[t].at = "deregister" /\ Finalizing(t)
    BY <1>4 DEF Deregister, At, Finalizing
  <2>2. heap[doing[t].prov].cols \in Nat
    BY <2>1, InFinalisation DEF Providers
  <2>3. CASE doing[t].n = 7
    <3>1. PICK y : /\ y = [at |-> "close", prov |-> doing[t].prov, n |-> doing[t].n + 1,
                           for |-> doing[t].for, left |-> heap[doing[t].prov].cols]
                   /\ Goes(t, y)
      BY <1>4, <2>3, RpcNames DEF Deregister, Deregisters
    <3> QED
      BY <1>0, <1>1, <2>1, <2>2, <2>3, <3>1, DeregistersLast
  <2>4. CASE doing[t].n # 7
    <3>1. PICK y : y = [doing[t] EXCEPT !.n = doing[t].n + 1] /\ Goes(t, y)
      BY <1>4, <2>4, RpcNames DEF Deregister, Deregisters
    <3> QED
      BY <1>0, <1>1, <2>1, <2>4, <3>1, DeregistersNext
  <2> QED
    BY <2>3, <2>4
<1>5. ASSUME CloseBegins(t)
      PROVE  /\ doing[t].at = "close" /\ doing'[t].at = "closing"
             /\ doing'[t].prov = doing[t].prov
             /\ doing[t].left \in Nat /\ doing'[t].left = doing[t].left - 1
  <2>1. doing[t].at = "close" /\ doing[t].left \in Nat /\ doing[t].left > 0
    BY <1>0, <1>5, InHand DEF CloseBegins, At
  <2>2. PICK left \in Nat : left = doing[t].left - 1
    BY <2>1
  <2>3. PICK y : y = [doing[t] EXCEPT !.at = "closing", !.left = left] /\ Goes(t, y)
    BY <1>5, <2>2 DEF CloseBegins
  <2>4. y.at = "closing" /\ y.prov = doing[t].prov /\ y.left = left
    BY <1>0, <2>1, <2>3, GoesToClosing
  <2> QED
    BY <1>1, <2>1, <2>2, <2>3, <2>4
<1>6. ASSUME CloseReturns(t)
      PROVE  /\ doing[t].at = "closing" /\ doing'[t].at = "close"
             /\ doing'[t].prov = doing[t].prov /\ doing'[t].left = doing[t].left
  <2>1. PICK y : /\ y = [doing[t] EXCEPT !.at = "close"]
                 /\ Goes(t, y) /\ doing[t].at = "closing"
    BY <1>6 DEF CloseReturns, At
  <2> QED
    BY <1>0, <1>1, <2>1, GoesBackToClose
<1> QED
  BY <1>2, <1>3, <1>4, <1>5, <1>6

\* The other steps of a thread end what it did, or begin something.
OtherSteps(t) ==
    \/ Free(t) \/ soma_deregister_provider(t) \/ Margo(t)
    \/ Allocated(t) \/ NotAllocated(t) \/ RegisterReturns(t)
    \/ \E i \in ProviderIds, keep \in BOOLEAN : RegisterBegins(t, i, keep)

LEMMA ThreadSteps ==
    ASSUME NEW t \in Threads, Thread(t)
    PROVE  \/ RegisterRpc(t) \/ RegisterData(t)
           \/ Deregister(t) \/ CloseBegins(t) \/ CloseReturns(t)
           \/ OtherSteps(t)
BY DEF Thread, soma_finalize_provider, soma_provider_register,
       soma_register_provider, Register, OtherSteps

LEMMA Elsewhere ==
    ASSUME LifecycleInv, NEW t \in Threads, OtherSteps(t)
    PROVE  /\ doing'[t].at \in {"idle", "callback", "alloc", "register", "deregister"}
           /\ doing'[t].at = "register" => doing'[t].n = 1
<1>1. ASSUME NEW x, Goes(t, x) PROVE doing'[t] = x
  BY <1>1 DEF Goes, LifecycleInv, LifecycleTypes
<1>2. CASE Free(t)
  BY <1>2 DEF Free, Goes, Idle, LifecycleInv, LifecycleTypes
<1>3. CASE NotAllocated(t) \/ RegisterReturns(t)
  <2>1. Goes(t, Idle)
    BY <1>3 DEF NotAllocated, RegisterReturns
  <2> QED
    BY <1>1, <2>1 DEF Idle
<1>4. CASE Allocated(t)
  <2>1. PICK p \in Blocks :
           Goes(t, [at |-> "register", id |-> doing[t].id, keep |-> doing[t].keep,
                    prov |-> p, n |-> 1])
    BY <1>4 DEF Allocated
  <2> QED
    BY <2>1 DEF Goes, LifecycleInv, LifecycleTypes
<1>5. ASSUME NEW i \in ProviderIds, NEW keep \in BOOLEAN, RegisterBegins(t, i, keep)
      PROVE  doing'[t].at = "alloc"
  BY <1>5 DEF RegisterBegins, Goes, LifecycleInv, LifecycleTypes
<1>6. CASE soma_deregister_provider(t)
  BY <1>6 DEF soma_deregister_provider, soma_provider_destroy, FinalizeBegins, Goes,
         LifecycleInv, LifecycleTypes
<1>7. CASE Margo(t)
  BY <1>7 DEF Margo, margo_finalize, RunCallback, Finalized, FinalizeBegins, Idle, Goes,
         LifecycleInv, LifecycleTypes
<1> QED
  BY <1>2, <1>3, <1>4, <1>5, <1>6, <1>7 DEF OtherSteps

\* A step of one thread moves no other.
LEMMA OnlyItself ==
    ASSUME LifecycleInv, NEW t \in Threads, Thread(t)
    PROVE  \A s \in Threads \ {t} : doing'[s] = doing[s]
<1>1. \E x : Goes(t, x)
  BY DEF Thread, soma_provider_register, soma_register_provider, Register,
       RegisterBegins, Allocated, NotAllocated, RegisterRpc, RegisterData,
       RegisterReturns, soma_deregister_provider, soma_provider_destroy,
       FinalizeBegins, soma_finalize_provider, Deregister, Deregisters, CloseBegins,
       CloseReturns, Free, Margo, margo_finalize, RunCallback, Finalized
<1> QED
  BY <1>1 DEF Goes, LifecycleInv, LifecycleTypes

\* The loop and the hash agree after a step of the thread that runs it, ...
LEMMA OwnNext ==
    ASSUME LifecycleInv, NextOK, NEW t \in Threads, Thread(t),
           doing'[t].at \in {"close", "closing"}
    PROVE  doing'[t].left = heap'[doing'[t].prov].cols
<1>1. Deregister(t) \/ CloseBegins(t) \/ CloseReturns(t)
  BY ThreadSteps, Onwards, Elsewhere
<1>2. Finalizing(t)
  BY <1>1, Onwards DEF Finalizing
<1>3. /\ doing[t].prov \in Blocks /\ heap[doing[t].prov] \in Providers
      /\ heap \in [Blocks -> Providers \cup {NULL}]
  BY <1>2, InFinalisation DEF LifecycleInv, LifecycleTypes
<1>4. CASE Deregister(t)
  <2>1. heap' = heap
    BY <1>4 DEF Deregister
  <2>2. doing'[t].at = "close"
    BY <1>4, Onwards
  <2> QED
    BY <1>4, <2>1, <2>2, Onwards
<1>5. CASE CloseBegins(t)
  <2>1. doing[t].left = heap[doing[t].prov].cols
    BY <1>5, Onwards DEF NextOK
  <2>2. heap'[doing[t].prov] =
           [heap[doing[t].prov] EXCEPT !.cols = heap[doing[t].prov].cols - 1]
    BY <1>3, <1>5 DEF CloseBegins
  <2>3. heap'[doing[t].prov].cols = heap[doing[t].prov].cols - 1
    BY <1>3, <2>2 DEF Providers
  <2> QED
    BY <1>5, <2>1, <2>3, Onwards
<1>6. CASE CloseReturns(t)
  <2>1. heap' = heap
    BY <1>6 DEF CloseReturns
  <2> QED
    BY <1>6, <2>1, Onwards DEF NextOK
<1> QED
  BY <1>1, <1>4, <1>5, <1>6

\* ... and nobody else comes between them.
LEMMA NextNext == LifecycleInv /\ NextOK /\ [Next]_vars => NextOK'
<1>. SUFFICES ASSUME LifecycleInv, NextOK, [Next]_vars,
                     NEW t \in Threads, doing'[t].at \in {"close", "closing"}
              PROVE  doing'[t].left = heap'[doing'[t].prov].cols
  BY DEF NextOK
<1>1. CASE Thread(t)
  BY <1>1, OwnNext
<1>2. ASSUME NEW s \in Threads \ {t}, Thread(s)
      PROVE  doing'[t] = doing[t] /\ heap'[doing[t].prov] = heap[doing[t].prov]
  <2>1. doing'[t] = doing[t]
    BY <1>2, OnlyItself
  <2> QED
    BY <1>2, <2>1, OthersLeaveAlone DEF Finalizing
<1>3. ASSUME NEW u \in Ults, Handler(u)
      PROVE  doing'[t] = doing[t] /\ heap'[doing[t].prov] = heap[doing[t].prov]
  <2>1. doing' = doing
    BY <1>3 DEF Handler, Looks, Serves
  <2> QED
    BY <1>3, <2>1, HandlersLeaveAlone DEF Finalizing
<1>4. ASSUME NEW u \in Ults, NEW i \in ProviderIds, NEW r \in Range(Rpcs), Arrives(u, i, r)
      PROVE  doing' = doing /\ heap' = heap
  BY <1>4 DEF Arrives
<1>5. ASSUME margo_init \/ UNCHANGED vars PROVE doing' = doing /\ heap' = heap
  BY <1>5 DEF margo_init, vars
<1> QED
  BY <1>1, <1>2, <1>3, <1>4, <1>5 DEF Next, NextOK

\* A provider in a thread's hands stays there until it is up or freed.
LEMMA HandsKept ==
    ASSUME LifecycleInv, NEW t \in Threads, Thread(t), Busy(t),
           ~RegisterReturns(t), ~Free(t)
    PROVE  Busy(t)' /\ doing'[t].prov = doing[t].prov
<1>1. RegisterRpc(t) \/ RegisterData(t) \/ Deregister(t) \/ CloseBegins(t) \/ CloseReturns(t)
  BY DEF Busy, Thread, soma_provider_register, soma_register_provider, Register,
         RegisterBegins, Allocated, NotAllocated, soma_deregister_provider,
         soma_provider_destroy, soma_finalize_provider, Margo, margo_finalize,
         RunCallback, Finalized, At
<1> QED
  BY <1>1, Onwards DEF Busy

\* A thread's step makes no other provider up than the one whose registration
\* returns.
LEMMA NewlyUp ==
    ASSUME LifecycleInv, LifecycleTypes', NEW t \in Threads, Thread(t), NEW p \in Up'
    PROVE  \/ RegisterReturns(t) /\ p = doing[t].prov
           \/ p \in Up /\ heap'[p].id = heap[p].id
<1>0. LifecycleTypes /\ doing[t] \in Whereabouts
  BY DEF LifecycleInv, LifecycleTypes
<1>1. /\ p \in Blocks /\ heap'[p] # NULL
      /\ \A s \in Threads : Busy(s)' => doing'[s].prov # p
  BY UpIsNext DEF Up
<1>2. SUFFICES ASSUME ~(RegisterReturns(t) /\ p = doing[t].prov)
               PROVE  p \in Up /\ heap'[p].id = heap[p].id
  OBVIOUS
<1>3. \A s \in Threads \ {t} : doing'[s] = doing[s]
  BY OnlyItself
<1>4. Busy(t) => doing[t].prov # p
  <2>1. CASE RegisterReturns(t)
    BY <1>2, <2>1
  <2>2. CASE Free(t)
    BY <1>0, <1>1, <2>2 DEF Free, LifecycleTypes
  <2> QED
    BY <1>1, <2>1, <2>2, HandsKept
<1>5. heap'[p] = heap[p]
  <2>1. CASE Allocated(t)
    <3>1. PICK q \in Blocks :
             /\ heap' = [heap EXCEPT ![q] = [id |-> doing[t].id, cols |-> 0, dummy |-> FALSE]]
             /\ Goes(t, [at |-> "register", id |-> doing[t].id, keep |-> doing[t].keep,
                         prov |-> q, n |-> 1])
      BY <2>1 DEF Allocated
    <3>2. doing'[t].at = "register" /\ doing'[t].prov = q
      BY <1>0, <3>1 DEF Goes, LifecycleTypes
    <3>3. q # p
      BY <1>1, <3>2 DEF Busy
    <3> QED
      BY <1>0, <1>1, <3>1, <3>3 DEF LifecycleTypes
  <2>2. CASE Free(t) \/ CloseBegins(t) \/ RegisterReturns(t)
    <3>1. Busy(t)
      BY <2>2 DEF Free, CloseBegins, RegisterReturns, At, Busy
    <3>2. \A q \in Blocks : q # doing[t].prov => heap'[q] = heap[q]
      BY <1>0, <2>2 DEF Free, CloseBegins, RegisterReturns, LifecycleTypes
    <3> QED
      BY <1>1, <1>4, <3>1, <3>2
  <2>3. CASE ~Allocated(t) /\ ~Free(t) /\ ~CloseBegins(t) /\ ~RegisterReturns(t)
    BY <2>3 DEF Thread, soma_provider_register, soma_register_provider, Register,
         RegisterBegins, NotAllocated, RegisterRpc, RegisterData,
         soma_deregister_provider, soma_provider_destroy, soma_finalize_provider,
         Deregister, CloseReturns, Margo, margo_finalize, RunCallback, Finalized
  <2> QED
    BY <2>1, <2>2, <2>3
<1>6. \A s \in Threads : Busy(s) => doing[s].prov # p
  BY <1>1, <1>3, <1>4 DEF Busy
<1> QED
  BY <1>0, <1>1, <1>5, <1>6, UpIs

\* A handler makes no provider up, and none another's id.
LEMMA HandlersKeepUp ==
    ASSUME LifecycleInv, LifecycleTypes', NEW u \in Ults, Handler(u), NEW p \in Up'
    PROVE  p \in Up /\ heap'[p].id = heap[p].id
<1>1. /\ p \in Blocks /\ heap'[p] # NULL /\ doing' = doing
      /\ \A s \in Threads : doing[s].at # "idle" => doing[s].prov # p
  BY DEF Up, Handler, Looks, Serves
<1>2. heap[p] # NULL /\ heap'[p].id = heap[p].id
  <2>1. CASE Looks(u)
    BY <1>1, <2>1 DEF Looks
  <2>2. CASE Serves(u)
    <3>1. call[u].prov \in Up
      BY <2>2 DEF Serves, LifecycleInv, CallsOK
    <3>2. call[u].prov \in Blocks /\ heap[call[u].prov] \in Providers
          /\ heap[call[u].prov] # NULL
      BY <3>1, Allocations DEF Up, LifecycleInv
    <3>3. \A q \in Blocks : q # call[u].prov => heap'[q] = heap[q]
      BY <2>2 DEF Serves, LifecycleInv, LifecycleTypes
    <3>4. heap'[call[u].prov].id = heap[call[u].prov].id
      BY <2>2, <3>2 DEF Serves, LifecycleInv, LifecycleTypes, Providers
    <3> QED
      BY <1>1, <3>2, <3>3, <3>4
  <2> QED
    BY <2>1, <2>2 DEF Handler
<1> QED
  BY <1>1, <1>2 DEF Up

\* Where a registration is, and what it still is about.
LEMMA RegistrationGoesOn ==
    ASSUME LifecycleInv, NEW t \in Threads, Thread(t),
           doing'[t].at \in {"register", "data", "push"}, doing'[t].n > 6
    PROVE  /\ doing[t].at \in {"register", "data", "push"} /\ doing'[t].id = doing[t].id
           /\ \/ doing[t].n > 6 /\ ~Deregister(t)
              \/ RegisterData(t) /\ doing[t].n = 6
<1>1. ~OtherSteps(t)
  BY Elsewhere
<1>2. ~Deregister(t) /\ ~CloseBegins(t) /\ ~CloseReturns(t)
  BY Onwards
<1>3. CASE RegisterRpc(t)
  BY <1>2, <1>3, Onwards
<1>4. CASE RegisterData(t)
  BY <1>2, <1>4, Onwards
<1> QED
  BY <1>1, <1>2, <1>3, <1>4, ThreadSteps

\* Which ids a thread's step makes silent, or does not: its own only.
LEMMA SilentStep ==
    ASSUME LifecycleInv, NEW t \in Threads, Thread(t)
    PROVE  \/ ~Deregister(t) /\ silent \subseteq silent'
           \/ /\ Deregister(t) /\ HoldsId(t)
              /\ \A i \in silent : i # IdOf(t) => i \in silent'
<1>1. CASE RegisterData(t)
  <2>1. doing[t].at = "data"
    BY <1>1 DEF RegisterData, At
  <2> QED
    BY <1>1, <2>1 DEF RegisterData, Deregister, At
<1>2. CASE Deregister(t)
  BY <1>2 DEF Deregister, At, HoldsId, IdOf
<1>3. CASE ~RegisterData(t) /\ ~Deregister(t)
  BY <1>3 DEF Thread, soma_provider_register, soma_register_provider, Register,
       RegisterBegins, Allocated, NotAllocated, RegisterRpc, RegisterReturns,
       soma_deregister_provider, soma_provider_destroy, soma_finalize_provider,
       CloseBegins, CloseReturns, Free, Margo, margo_finalize, RunCallback, Finalized
<1> QED
  BY <1>1, <1>2, <1>3

\* An id stays silent while its owner keeps it: only the owner registers or
\* deregisters soma_hello.
LEMMA SilentNext ==
    LifecycleInv /\ LifecycleInv' /\ SilentOK /\ [Next]_vars => SilentOK'
<1>. SUFFICES ASSUME LifecycleInv, LifecycleInv', SilentOK, [Next]_vars PROVE SilentOK'
  OBVIOUS
<1>0. LifecycleTypes /\ LifecycleTypes'
  BY DEF LifecycleInv
<1>1. ASSUME NEW t \in Threads, Thread(t) PROVE SilentOK'
  <2>1. ASSUME NEW p \in Up' PROVE heap'[p].id \in silent'
    <3>1. CASE RegisterReturns(t) /\ p = doing[t].prov
      <4>1. doing[t].at = "push" /\ silent' = silent /\ doing[t] \in Whereabouts
        BY <1>0, <3>1 DEF RegisterReturns, At, LifecycleTypes
      <4>2. doing[t].n = 8 /\ doing[t].prov \in Blocks
        BY <4>1, InHand
      <4>3. heap[p].id = doing[t].id /\ heap[p] \in Providers
        BY <1>0, <3>1, <4>1, <4>2, Allocations DEF LifecycleInv, BlocksOK, Busy
      <4>4. heap'[p].id = heap[p].id
        BY <1>0, <3>1, <4>2, <4>3 DEF RegisterReturns, LifecycleTypes, Providers
      <4>5. doing[t].n > 6
        BY <4>2
      <4> QED
        BY <4>1, <4>3, <4>4, <4>5 DEF SilentOK
    <3>2. CASE p \in Up /\ heap'[p].id = heap[p].id
      <4>1. heap[p].id \in silent
        BY <3>2 DEF SilentOK
      <4>2. HoldsId(t) => IdOf(t) # heap[p].id
        BY <3>2 DEF LifecycleInv, RoutesOK
      <4> QED
        BY <1>1, <3>2, <4>1, <4>2, SilentStep
    <3> QED
      BY <1>0, <1>1, <2>1, <3>1, <3>2, NewlyUp
  <2>2. ASSUME NEW s \in Threads, doing'[s].at \in {"register", "data", "push"},
               doing'[s].n > 6
        PROVE  doing'[s].id \in silent'
    <3>1. CASE s = t
      <4>1. /\ doing[t].at \in {"register", "data", "push"} /\ doing'[t].id = doing[t].id
            /\ \/ doing[t].n > 6 /\ ~Deregister(t)
               \/ RegisterData(t) /\ doing[t].n = 6
        BY <1>1, <2>2, <3>1, RegistrationGoesOn
      <4>2. CASE doing[t].n > 6 /\ ~Deregister(t)
        BY <1>1, <3>1, <4>1, <4>2, SilentStep DEF SilentOK
      <4>3. CASE RegisterData(t) /\ doing[t].n = 6
        BY <3>1, <4>1, <4>3, RpcNames DEF RegisterData
      <4> QED
        BY <4>1, <4>2, <4>3
    <3>2. CASE s # t
      <4>1. doing'[s] = doing[s]
        BY <1>1, <3>2, OnlyItself
      <4>2. doing[s].id \in silent
        BY <2>2, <4>1 DEF SilentOK
      <4>3. HoldsId(s) /\ IdOf(s) = doing[s].id
        BY <2>2, <4>1 DEF HoldsId, IdOf
      <4>4. HoldsId(t) => IdOf(t) # doing[s].id
        BY <3>2, <4>3 DEF LifecycleInv, RoutesOK
      <4> QED
        BY <1>1, <4>1, <4>2, <4>4, SilentStep
    <3> QED
      BY <3>1, <3>2
  <2> QED
    BY <2>1, <2>2 DEF SilentOK
<1>2. ASSUME NEW u \in Ults, Handler(u) PROVE SilentOK'
  <2>1. doing' = doing /\ silent' = silent
    BY <1>2 DEF Handler, Looks, Serves
  <2> QED
    BY <1>0, <1>2, <2>1, HandlersKeepUp DEF SilentOK
<1>3. ASSUME NEW u \in Ults, NEW i \in ProviderIds, NEW r \in Range(Rpcs), Arrives(u, i, r)
      PROVE  SilentOK'
  BY <1>3 DEF Arrives, SilentOK, Up
<1>4. CASE margo_init
  <2>1. Up = {} /\ \A t \in Threads : doing[t].at = "idle"
    BY <1>4, NothingLeft DEF margo_init
  <2>2. Up' = {} /\ \A t \in Threads : doing'[t].at = "idle"
    BY <1>4, <2>1 DEF margo_init, Up
  <2> QED
    BY <2>2 DEF SilentOK
<1>5. CASE UNCHANGED vars
  BY <1>5 DEF vars, SilentOK, Up
<1> QED
  BY <1>1, <1>2, <1>3, <1>4, <1>5 DEF Next

-----------------------------------------------------------------------------
(* The invariant, and the theorems. *)

LEMMA LifecycleInit == Init => LifecycleInv /\ NextOK /\ SilentOK
<1>. SUFFICES ASSUME Init PROVE LifecycleInv /\ NextOK /\ SilentOK
  OBVIOUS
<1>1. \A t \in Threads : doing[t].at = "idle" /\ ~Busy(t) /\ ~HoldsId(t)
  BY DEF Init, Idle, Busy, HoldsId
<1>2. Up = {}
  BY DEF Init, Up
<1>3. <<>> \in Seq(Blocks) /\ Range(<<>>) = {} /\ IsInjective(<<>>)
  BY DEF Range, IsInjective
<1>4. LifecycleTypes
  BY <1>3, NoRoutesMade, Beginnings DEF Init, LifecycleTypes
<1>5. BlocksOK
  BY <1>1, <1>2, <1>3 DEF Init, BlocksOK
<1>6. RoutesOK
  BY <1>1, <1>2, NoRoutesMade DEF Init, RoutesOK
<1>7. CallsOK
  BY DEF Init, CallsOK, NoCall
<1>8. MidOK
  BY <1>1, <1>3 DEF Init, MidOK
<1>9. NextOK /\ SilentOK
  BY <1>1, <1>2 DEF NextOK, SilentOK
<1> QED
  BY <1>4, <1>5, <1>6, <1>7, <1>8, <1>9 DEF LifecycleInv

LEMMA LifecycleNext == LifecycleInv /\ NextOK /\ [Next]_vars => LifecycleInv'
<1>. SUFFICES ASSUME LifecycleInv, NextOK, [Next]_vars PROVE LifecycleInv'
  OBVIOUS
<1>1. ASSUME NEW t \in Threads, Thread(t) PROVE LifecycleInv'
  <2>1. ASSUME NEW i \in ProviderIds, NEW keep \in BOOLEAN, soma_provider_register(t, i, keep)
        PROVE  LifecycleInv'
    BY <2>1, RegisterBeginsKeeps, AllocatedKeeps, NotAllocatedKeeps, RegisterStepKeeps,
       RegisterReturnsKeeps DEF soma_provider_register, Register
  <2>2. CASE soma_deregister_provider(t)
    BY <2>2, DestroyKeeps DEF soma_deregister_provider
  <2>3. CASE soma_finalize_provider(t)
    BY <2>3, DeregisterKeeps, ClosesKeep, FreeKeeps DEF soma_finalize_provider
  <2>4. CASE Margo(t)
    BY <2>4, FinalizeKeeps, RunCallbackKeeps DEF Margo
  <2> QED
    BY <1>1, <2>1, <2>2, <2>3, <2>4 DEF Thread, soma_register_provider
<1>2. ASSUME NEW u \in Ults, Handler(u) PROVE LifecycleInv'
  BY <1>2, LooksKeeps, ServesKeeps DEF Handler
<1>3. ASSUME NEW u \in Ults, NEW i \in ProviderIds, NEW r \in Range(Rpcs), Arrives(u, i, r)
      PROVE  LifecycleInv'
  BY <1>3, ArrivesKeeps
<1>4. CASE margo_init
  BY <1>4, InitKeeps
<1>5. CASE UNCHANGED vars
  BY <1>5, StuttersKeep
<1> QED
  BY <1>1, <1>2, <1>3, <1>4, <1>5 DEF Next

LEMMA LifecycleInvariant == Spec => [](LifecycleInv /\ NextOK /\ SilentOK)
BY LifecycleInit, LifecycleNext, NextNext, SilentNext, PTL DEF Spec

\* A handler works on the provider its request is addressed to, which is
\* allocated and has its backends, whatever threads register and destroy.
THEOREM RequestsServedByOwner == Spec => []ServedByOwner
<1>1. LifecycleInv => ServedByOwner
  <2>. SUFFICES ASSUME LifecycleInv, NEW u \in Ults, call[u].at = "serving"
                PROVE  /\ call[u].prov # NULL /\ heap[call[u].prov] # NULL
                       /\ heap[call[u].prov].id = call[u].id /\ heap[call[u].prov].dummy
    BY DEF ServedByOwner
  <2>1. PICK p \in Up : heap[p].id = call[u].id /\ call[u].prov = p
    BY DEF LifecycleInv, CallsOK
  <2> QED
    BY <2>1, LifecycleAssumption DEF LifecycleInv, BlocksOK, Up
<1> QED
  BY <1>1, LifecycleInvariant, PTL

\* A provider keeps all its RPCs, and soma_hello its disabled response, from
\* the end of its registration to the beginning of its destruction: soma_sum's,
\* which tells whether an id is taken, is registered last and deregistered last.
THEOREM ProvidersKeepTheirRoutes == Spec => []OwnRoutes
<1>1. LifecycleInv /\ SilentOK => OwnRoutes
  BY RoutedRight DEF SilentOK, OwnRoutes
<1> QED
  BY <1>1, LifecycleInvariant, PTL

\* soma_finalize_provider frees a provider when no RPC leads to it any more.
THEOREM RoutesAreNeverStale == Spec => []NoStaleRoute
<1>1. LifecycleInv => NoStaleRoute
  <2>. SUFFICES ASSUME LifecycleInv, NEW i \in ProviderIds, NEW r \in Range(Rpcs),
                       route[i][r] \in Blocks
                PROVE  heap[route[i][r]] # NULL /\ heap[route[i][r]].id = i
    BY DEF NoStaleRoute
  <2>1. PICK k \in 1 .. 7 : r = Rpcs[k]
    BY RpcNames
  <2>2. route[i][r] # Unregistered /\ route[i][r] # NULL
    BY LifecycleAssumption
  <2>3. CASE \E p \in Up : heap[p].id = i
    BY <2>3, RoutedRight DEF Up
  <2>4. CASE \E t \in Threads : HoldsId(t) /\ IdOf(t) = i
    <3>1. PICK t \in Threads : HoldsId(t) /\ IdOf(t) = i
      BY <2>4
    <3>2. route[i][r] = RouteMade(t, k)
      BY <2>1, <3>1 DEF LifecycleInv, RoutesOK
    <3>3. route[i][r] = doing[t].prov /\ doing[t].at # "alloc"
      BY <2>2, <3>2 DEF RouteMade
    <3> QED
      BY <3>1, <3>3 DEF HoldsId, IdOf, Busy, LifecycleInv, BlocksOK
  <2> QED
    BY <2>1, <2>2, <2>3, <2>4 DEF LifecycleInv, RoutesOK
<1> QED
  BY <1>1, LifecycleInvariant, PTL

\* soma_provider_destroy and margo_finalize never finalize one provider both:
\* destroy pops the callback before it runs it.
THEOREM ProvidersFinalizedOnce == Spec => []FinalizedOnce
<1>1. LifecycleInv => FinalizedOnce
  BY DEF LifecycleInv, MidOK, FinalizedOnce
<1> QED
  BY <1>1, LifecycleInvariant, PTL

\* No provider outlives its Margo instance: every registered one has a
\* callback, and margo_finalize waits for those that are being destroyed.
THEOREM InstancesReleaseAll == Spec => []InstanceReleasesAll
<1>1. LifecycleInv => InstanceReleasesAll
  BY NothingLeft DEF InstanceReleasesAll
<1> QED
  BY <1>1, LifecycleInvariant, PTL

-----------------------------------------------------------------------------
(* Finalisations come to an end. *)

\* A thread's finalisation is left alone, is over, or has less to do.
Advances(t) ==
    \/ doing'[t] = doing[t] /\ heap'[doing[t].prov] = heap[doing[t].prov]
    \/ heap'[doing[t].prov] = NULL /\ doing'[t].at \in {"idle", "callback"}
    \/ /\ heap'[doing[t].prov] # NULL
       /\ StepsLeft(doing'[t], heap'[doing[t].prov].cols)
             < StepsLeft(doing[t], heap[doing[t].prov].cols)

\* What is left to do, by what the finalisation is at.
LEMMA StepsCounted ==
    ASSUME NEW x, NEW n \in Nat, x.n = n, NEW c \in Nat
    PROVE  /\ x.at = "closing" => StepsLeft(x, c) = (8 - n) + 2 * c + 2
           /\ x.at # "closing" => StepsLeft(x, c) = (8 - n) + 2 * c + 1
<1>1. Len(Rpcs) + 1 = 8
  BY RpcNames
<1> QED
  BY <1>1 DEF StepsLeft

\* A finalisation's own step: an RPC less, a collector less, a close that
\* returned, or the end.
LEMMA OwnStepAdvances ==
    ASSUME LifecycleInv, NextOK, NEW t \in Threads, Finalizing(t), Thread(t)
    PROVE  Advances(t)
<1>1. PICK x \in Whereabouts : x = doing[t]
  BY InFinalisation
<1>2. PICK p \in Blocks : p = x.prov
  BY <1>1, InFinalisation
<1>3. /\ heap[p] # NULL /\ heap[p] \in Providers
      /\ heap \in [Blocks -> Providers \cup {NULL}]
  BY <1>1, <1>2, InFinalisation DEF LifecycleInv, LifecycleTypes
<1>4. PICK c \in Nat : c = heap[p].cols
  BY <1>3 DEF Providers
<1>5. /\ x.at = "deregister" => x.n \in 1 .. 7
      /\ x.at \in {"close", "closing"} => x.n = 8
  BY InHand
<1>6. ASSUME NEW y \in Whereabouts, Goes(t, y), NEW d \in Nat,
             heap'[p] # NULL, heap'[p].cols = d, StepsLeft(y, d) < StepsLeft(x, c)
      PROVE  Advances(t)
  <2>1. doing'[t] = y
    BY <1>6, GoesThere DEF LifecycleInv
  <2> QED
    BY <1>1, <1>2, <1>4, <1>6, <2>1, Zenon DEF Advances
<1>7. CASE Deregister(t)
  <2>1. x.at = "deregister" /\ heap' = heap
    BY <1>1, <1>7 DEF Deregister, At
  <2>2. PICK n \in 1 .. 7 : n = x.n
    BY <1>5, <2>1
  <2>3. StepsLeft(x, c) = (8 - n) + 2 * c + 1
    BY <2>1, <2>2, StepsCounted
  <2>4. CASE n # 7
    <3>. DEFINE y == [x EXCEPT !.n = x.n + 1]
    <3>1. Goes(t, y)
      BY <1>1, <1>7, <2>2, <2>4, RpcNames DEF Deregister, Deregisters
    <3>2. y \in Whereabouts /\ y.at = "deregister" /\ y.n = n + 1
      BY <2>1, <2>2, <2>4, DeregistersNext
    <3>. HIDE DEF y
    <3>3. StepsLeft(y, c) = (8 - (n + 1)) + 2 * c + 1
      BY <3>2, StepsCounted
    <3>4. StepsLeft(y, c) < StepsLeft(x, c)
      BY <2>3, <3>3
    <3> QED
      BY <1>3, <1>4, <1>6, <2>1, <3>1, <3>2, <3>4
  <2>5. CASE n = 7
    <3>. DEFINE y == [at |-> "close", prov |-> x.prov, n |-> x.n + 1, for |-> x.for,
                      left |-> c]
    <3>1. Goes(t, y)
      BY <1>1, <1>2, <1>4, <1>7, <2>2, <2>5, RpcNames DEF Deregister, Deregisters
    <3>2. y \in Whereabouts /\ y.at = "close"
      BY <2>1, <2>2, <2>5, DeregistersLast
    <3>. HIDE DEF y
    <3>3. StepsLeft(y, c) = (8 - 8) + 2 * c + 1
      BY <3>2, InHand, StepsCounted
    <3>4. StepsLeft(y, c) < StepsLeft(x, c)
      BY <2>3, <2>5, <3>3
    <3> QED
      BY <1>3, <1>4, <1>6, <2>1, <3>1, <3>2, <3>4
  <2> QED
    BY <2>4, <2>5
<1>8. CASE CloseBegins(t)
  <2>1. x.at = "close" /\ c > 0 /\ x.left = c /\ heap' = [heap EXCEPT ![p].cols = c - 1]
    BY <1>1, <1>2, <1>4, <1>8 DEF CloseBegins, At, NextOK
  <2>2. heap'[p] = [heap[p] EXCEPT !.cols = c - 1] /\ c - 1 \in Nat
    BY <1>3, <2>1
  <2>3. heap'[p] \in Providers /\ heap'[p].cols = c - 1
    BY <1>3, <2>2 DEF Providers
  <2>4. heap'[p] # NULL
    BY <2>3, LifecycleAssumption DEF Providers
  <2>. DEFINE y == [x EXCEPT !.at = "closing", !.left = c - 1]
  <2>5. Goes(t, y)
    BY <1>1, <1>8, <2>1 DEF CloseBegins
  <2>6. y \in Whereabouts /\ y.at = "closing"
    BY <2>1, <2>2, GoesToClosing
  <2>. HIDE DEF y
  <2>7. StepsLeft(y, c - 1) = (8 - 8) + 2 * (c - 1) + 2
    BY <2>2, <2>6, InHand, StepsCounted
  <2>8. StepsLeft(x, c) = (8 - 8) + 2 * c + 1
    BY <1>5, <2>1, StepsCounted
  <2>9. StepsLeft(y, c - 1) < StepsLeft(x, c)
    BY <2>7, <2>8
  <2> QED
    BY <1>6, <2>2, <2>3, <2>4, <2>5, <2>6, <2>9
<1>9. CASE CloseReturns(t)
  <2>1. x.at = "closing" /\ heap' = heap
    BY <1>1, <1>9 DEF CloseReturns, At
  <2>. DEFINE y == [x EXCEPT !.at = "close"]
  <2>2. Goes(t, y)
    BY <1>1, <1>9 DEF CloseReturns
  <2>3. y \in Whereabouts /\ y.at = "close"
    BY <2>1, GoesBackToClose
  <2>. HIDE DEF y
  <2>4. StepsLeft(y, c) = (8 - 8) + 2 * c + 1
    BY <2>3, InHand, StepsCounted
  <2>5. StepsLeft(x, c) = (8 - 8) + 2 * c + 2
    BY <1>5, <2>1, StepsCounted
  <2>6. StepsLeft(y, c) < StepsLeft(x, c)
    BY <2>4, <2>5
  <2> QED
    BY <1>3, <1>4, <1>6, <2>1, <2>2, <2>3, <2>6
<1>10. CASE Free(t)
  <2>1. heap'[p] = NULL
    BY <1>1, <1>2, <1>3, <1>10 DEF Free
  <2>2. doing'[t].at \in {"idle", "callback"}
    BY <1>10 DEF Free, Goes, Idle, LifecycleInv, LifecycleTypes
  <2> QED
    BY <1>1, <1>2, <2>1, <2>2 DEF Advances
<1>11. doing[t].at \notin {"idle", "alloc", "register", "data", "push", "callback"}
  BY DEF Finalizing
<1> QED
  BY <1>7, <1>8, <1>9, <1>10, <1>11
     DEF Thread, soma_provider_register, soma_register_provider, Register,
         RegisterBegins, Allocated, NotAllocated, RegisterRpc, RegisterData,
         RegisterReturns, soma_deregister_provider, soma_provider_destroy,
         soma_finalize_provider, Margo, margo_finalize, RunCallback, Finalized, At

\* Whatever threads and handlers do beside it, each finalisation has a bounded
\* number of steps to take, which only its own steps change, and make smaller:
\* its loop over the collectors ends, and nobody else frees the provider.
THEOREM FinalisationsEnd == Spec => FinalisationsAdvance
<1>1. ASSUME LifecycleInv, NextOK, [Next]_vars, NEW t \in Threads, Finalizing(t)
      PROVE  Advances(t)
  <2>1. ASSUME NEW s \in Threads, Thread(s) PROVE Advances(t)
    BY <1>1, <2>1, OthersLeaveAlone, OwnStepAdvances DEF Advances
  <2>2. ASSUME NEW u \in Ults, Handler(u) PROVE Advances(t)
    BY <1>1, <2>2, HandlersLeaveAlone DEF Advances
  <2>3. ASSUME NEW u \in Ults, NEW i \in ProviderIds, NEW r \in Range(Rpcs), Arrives(u, i, r)
        PROVE  Advances(t)
    BY <2>3 DEF Arrives, Advances
  <2>4. CASE margo_init \/ UNCHANGED vars
    BY <2>4 DEF margo_init, vars, Advances
  <2> QED
    BY <1>1, <2>1, <2>2, <2>3, <2>4 DEF Next
<1>2. LifecycleInv /\ NextOK /\ [Next]_vars =>
        [\A t \in Threads : doing[t].at \in {"deregister", "close", "closing"} =>
            \/ doing'[t] = doing[t] /\ heap'[doing[t].prov] = heap[doing[t].prov]
            \/ heap'[doing[t].prov] = NULL /\ doing'[t].at \in {"idle", "callback"}
            \/ /\ heap'[doing[t].prov] # NULL
               /\ StepsLeft(doing'[t], heap'[doing[t].prov].cols)
                     < StepsLeft(doing[t], heap[doing[t].prov].cols)]_vars
  BY <1>1 DEF Finalizing, Advances
<1> QED
  BY <1>2, LifecycleInvariant, PTL DEF Spec, FinalisationsAdvance

=============================================================================
