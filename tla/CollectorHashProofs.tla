------------------------ MODULE CollectorHashProofs -------------------------
(***************************************************************************)
(* Proofs about the hash of collectors, for every finite set of keys, every *)
(* hash function and every size and threshold of the table.                *)
(***************************************************************************)
EXTENDS CollectorHash, FiniteSetTheorems, WellFoundedInduction, SequenceTheorems, TLAPS

-----------------------------------------------------------------------------
(* The inductive invariant: the links, the table and the sweep, each told    *)
(* from the list that the hash is.                                           *)

\* The collector at place j of a list, NULL outside it.
Nth(s, j) == IF j \in DOMAIN s THEN s[j] ELSE NULL

Links == [Keys -> Keys \cup {NULL}]

\* The links forth and back, from the first collector on, are the list s.
Linked(s, first, forth, back) ==
    /\ s \in Seq(Keys) /\ IsInjective(s)
    /\ forth \in Links /\ back \in Links
    /\ first = Nth(s, 1)
    /\ \A j \in DOMAIN s : forth[s[j]] = Nth(s, j + 1) /\ back[s[j]] = Nth(s, j - 1)

\* The chains of the table t hold the items S, each in its bucket.
Filed(S, t) ==
    /\ DOMAIN t = {"buckets", "num_items", "tail", "ineff_expands", "noexpand"}
    /\ Len(t.buckets) \in Nat \ {0}
    /\ t.buckets \in [1 .. Len(t.buckets) -> Range(t.buckets)]
    /\ \A b \in DOMAIN t.buckets :
          /\ DOMAIN t.buckets[b] = {"chain", "expand_mult"}
          /\ t.buckets[b].chain = {k \in S : BucketOf(k, t.buckets) = b}

\* The table of the list s.
TableOf(s, t) ==
    IF s = <<>> THEN t = NoTable
    ELSE Filed(Range(s), t) /\ t.num_items = Len(s) /\ t.tail = Nth(s, Len(s))

\* What remove_all_collectors has in its variables, and what is allocated.
Swept(s) ==
    /\ sweep \in {"no", "next", "close", "done"}
    /\ {el, tmp} \subseteq Keys \cup {NULL}
    /\ freed \subseteq Keys
    /\ ~dangling
    /\ sweep \in {"no", "next"} => freed = Keys \ Range(s)
    /\ sweep = "next" => el = head /\ tmp = After(head)
    /\ sweep = "close" => /\ el \in Keys \ Range(s)
                          /\ freed = Keys \ (Range(s) \cup {el})
                          /\ tmp = head
    /\ sweep = "done" => s = <<>> /\ freed = Keys

HashState(s) == Linked(s, head, next, prev) /\ TableOf(s, tbl) /\ Swept(s)

HashInv == HashState(AppOrder)

-----------------------------------------------------------------------------
(* Walking the links. *)

\* A set of numbers has a smallest one.
LEMMA SmallestOf ==
    ASSUME NEW T, T \subseteq Nat, T # {}
    PROVE  \E n \in T : \A m \in T : n <= m
<1>. DEFINE below(n) == {m \in T : m <= n}
            S == {below(n) : n \in T}
<1>1. IsWellFoundedOn(StrictSubsetOrdering(Nat), FiniteSubsetsOf(Nat))
  BY FS_StrictSubsetOrderingWellFounded
<1>2. S \subseteq FiniteSubsetsOf(Nat) /\ S # {}
  <2>1. ASSUME NEW n \in T PROVE below(n) \in FiniteSubsetsOf(Nat)
    BY FS_BoundedSetOfNaturals DEF FiniteSubsetsOf
  <2> QED
    BY <2>1
<1>3. PICK U \in S : \A V \in S : <<V, U>> \notin StrictSubsetOrdering(Nat)
  <2>. DEFINE R == StrictSubsetOrdering(Nat)
              F == FiniteSubsetsOf(Nat)
  <2>1. IsWellFoundedOn(R, F) /\ S \subseteq F /\ S # {}
    BY <1>1, <1>2
  <2>. HIDE DEF S, R, F
  <2>2. \E U \in S : \A V \in S : ~ (<<V, U>> \in R)
    BY <2>1, WFMin, Zenon
  <2> QED
    BY <2>2 DEF R
<1>4. PICK n \in T : U = below(n)
  BY <1>3
<1>5. ASSUME NEW m \in T, m < n PROVE FALSE
  <2>1. below(m) \subseteq below(n) /\ n \in below(n) /\ n \notin below(m)
    <3>1. m \in Nat /\ n \in Nat /\ (\A x \in T : x \in Nat)
      OBVIOUS
    <3>2. \A x \in T : x <= m => x <= n
      BY <1>5, <3>1
    <3>3. n <= n /\ ~ (n <= m)
      BY <1>5, <3>1
    <3> QED
      BY <3>2, <3>3
  <2>2. below(m) \in S
    OBVIOUS
  <2>3. below(m) \subseteq Nat /\ below(n) \subseteq Nat
    OBVIOUS
  <2> QED
    BY <1>3, <1>4, <2>1, <2>2, <2>3 DEF StrictSubsetOrdering
<1> QED
  BY <1>5

\* The recursion of Walk, up to n steps.
Walks(w, links, n) ==
    w = [m \in 0 .. n |-> [e \in Keys \cup {NULL} |->
            IF m = 0 \/ e = NULL THEN <<>> ELSE <<e>> \o w[m - 1][links[e]]]]

\* The recursion has a solution.
LEMMA WalksExist ==
    ASSUME NEW links, NEW n \in Nat
    PROVE  \E w : Walks(w, links, n)
<1>. DEFINE T == {m \in Nat : ~ \E w : Walks(w, links, m)}
<1>. SUFFICES ASSUME T # {} PROVE FALSE
  OBVIOUS
<1>1. PICK m \in T : \A k \in T : m <= k
  BY SmallestOf
<1>2. CASE m = 0
  <2>. DEFINE w == [i \in 0 .. 0 |-> [e \in Keys \cup {NULL} |-> <<>>]]
  <2>1. w = [i \in 0 .. 0 |-> [e \in Keys \cup {NULL} |->
              IF i = 0 \/ e = NULL THEN <<>> ELSE <<e>> \o w[i - 1][links[e]]]]
    <3>1. \A i \in 0 .. 0 : i = 0
      OBVIOUS
    <3> QED
      BY <3>1, Zenon
  <2> QED
    BY <1>1, <1>2, <2>1 DEF Walks
<1>3. CASE m > 0
  <2>1. m - 1 \in Nat /\ ~ (m <= m - 1) /\ m \in Nat
    BY <1>3
  <2>2. PICK w : Walks(w, links, m - 1)
    BY <1>1, <2>1
  <2>. DEFINE v == [i \in 0 .. m |->
                      IF i < m THEN w[i]
                      ELSE [e \in Keys \cup {NULL} |->
                              IF e = NULL THEN <<>> ELSE <<e>> \o w[m - 1][links[e]]]]
              u == [i \in 0 .. m |-> [e \in Keys \cup {NULL} |->
                      IF i = 0 \/ e = NULL THEN <<>> ELSE <<e>> \o v[i - 1][links[e]]]]
  <2>3. ASSUME NEW i \in 0 .. m PROVE v[i] = u[i]
    <3>1. CASE i < m
      <4>1. i \in 0 .. m - 1 /\ (i # 0 => i - 1 \in 0 .. m - 1 /\ i - 1 \in 0 .. m /\ i - 1 < m)
        BY <2>1, <3>1
      <4>2. w[i] = [e \in Keys \cup {NULL} |->
                      IF i = 0 \/ e = NULL THEN <<>> ELSE <<e>> \o w[i - 1][links[e]]]
        BY <2>2, <4>1, Zenon DEF Walks
      <4>3. i # 0 => v[i - 1] = w[i - 1]
        BY <4>1
      <4>4. v[i] = w[i]
        BY <3>1
      <4>. HIDE DEF v
      <4>5. u[i] = [e \in Keys \cup {NULL} |->
                      IF i = 0 \/ e = NULL THEN <<>> ELSE <<e>> \o v[i - 1][links[e]]]
        OBVIOUS
      <4> QED
        BY <4>2, <4>3, <4>4, <4>5, Zenon
    <3>2. CASE i = m
      <4>1. m - 1 \in 0 .. m /\ m - 1 < m /\ ~ (m < m) /\ m \in 0 .. m /\ m # 0
        BY <1>3, <2>1
      <4>2. v[m - 1] = w[m - 1]
        BY <4>1
      <4>3. v[m] = [e \in Keys \cup {NULL} |->
                              IF e = NULL THEN <<>> ELSE <<e>> \o w[m - 1][links[e]]]
        BY <4>1
      <4>. HIDE DEF v
      <4>4. u[m] = [e \in Keys \cup {NULL} |->
                      IF m = 0 \/ e = NULL THEN <<>> ELSE <<e>> \o v[m - 1][links[e]]]
        BY <4>1
      <4> QED
        BY <3>2, <4>1, <4>2, <4>3, <4>4, Zenon
    <3>3. i < m \/ i = m
      BY <2>1
    <3>. HIDE DEF v, u
    <3> QED
      BY <3>1, <3>2, <3>3
  <2>4. v = [i \in 0 .. m |-> v[i]] /\ u = [i \in 0 .. m |-> u[i]]
    BY Zenon
  <2>5. v = u
    <3>. HIDE DEF v, u
    <3> QED
      BY <2>3, <2>4, Zenon
  <2>6. Walks(v, links, m)
    BY <2>5, Zenon DEF Walks
  <2> QED
    BY <1>1, <2>6
<1> QED
  BY <1>1, <1>2, <1>3

\* Walk is that solution.
LEMMA WalkStep ==
    ASSUME NEW links
    PROVE  Walks(Walk(links), links, Cardinality(Keys))
<1>1. Cardinality(Keys) \in Nat
  BY HashAssumption, FS_CardinalityType
<1>2. PICK w : Walks(w, links, Cardinality(Keys))
  BY <1>1, WalksExist
<1> QED
  BY <1>2, Zenon DEF Walk, Walks

\* An injective list of collectors is not longer than there are collectors.
LEMMA LengthBounded ==
    ASSUME NEW s \in Seq(Keys), IsInjective(s)
    PROVE  Len(s) \in 0 .. Cardinality(Keys)
<1>1. Len(s) \in Nat /\ DOMAIN s = 1 .. Len(s) /\ s \in [1 .. Len(s) -> Keys]
  BY LenProperties
<1>2. s \in Injection(1 .. Len(s), Keys)
  BY <1>1 DEF Injection
<1>3. IsFiniteSet(Keys) /\ Cardinality(Keys) \in Nat
  BY HashAssumption, FS_CardinalityType
<1>4. Cardinality(1 .. Len(s)) <= Cardinality(Keys)
  BY <1>2, <1>3, FS_Injection
<1>5. Cardinality(1 .. Len(s)) = Len(s)
  <2>1. 1 \in Int /\ Len(s) \in Int /\ Len(s) - 1 + 1 = Len(s)
        /\ (1 > Len(s) => Len(s) = 0)
    BY <1>1
  <2>2. Cardinality(1 .. Len(s)) = IF 1 > Len(s) THEN 0 ELSE Len(s) - 1 + 1
    BY <2>1, FS_Interval
  <2> QED
    BY <2>1, <2>2
<1> QED
  BY <1>1, <1>3, <1>4, <1>5

\* The rest of a list is its first element and the rest after it.
LEMMA Suffix ==
    ASSUME NEW s \in Seq(Keys), NEW j \in 1 .. Len(s)
    PROVE  SubSeq(s, j, Len(s)) = <<s[j]>> \o SubSeq(s, j + 1, Len(s))
<1>. DEFINE a == SubSeq(s, j, Len(s))
            b == SubSeq(s, j + 1, Len(s))
            c == <<s[j]>> \o b
<1>1. Len(s) \in Nat /\ (\A i \in 1 .. Len(s) : s[i] \in Keys)
  BY LenProperties
<1>2. /\ a \in Seq(Keys) /\ Len(a) = Len(s) - j + 1
      /\ \A i \in 1 .. Len(s) - j + 1 : a[i] = s[j + i - 1]
  <2>1. j \in Int /\ Len(s) \in Int /\ (\A i \in j .. Len(s) : s[i] \in Keys) /\ j <= Len(s)
    BY <1>1
  <2>. HIDE DEF a
  <2> QED
    BY <2>1, SubSeqProperties DEF a
<1>3. /\ b \in Seq(Keys) /\ Len(b) = Len(s) - j
      /\ \A i \in 1 .. Len(s) - j : b[i] = s[j + i]
  <2>. DEFINE n == j + 1
              l == Len(s)
  <2>1. n \in Int /\ l \in Int /\ (\A i \in n .. l : s[i] \in Keys)
    BY <1>1
  <2>. HIDE DEF n, l
  <2>2. /\ SubSeq(s, n, l) \in Seq(Keys)
        /\ Len(SubSeq(s, n, l)) = IF n <= l THEN l - n + 1 ELSE 0
        /\ \A i \in 1 .. l - n + 1 : SubSeq(s, n, l)[i] = s[n + i - 1]
    BY <2>1, SubSeqProperties
  <2>3. /\ l - n + 1 = l - j /\ (~ (n <= l) => l - j = 0)
        /\ \A i \in 1 .. l - j : n + i - 1 = j + i
    BY <1>1 DEF n, l
  <2> QED
    BY <2>2, <2>3 DEF n, l
<1>. HIDE DEF a, b
<1>4. <<s[j]>> \in Seq(Keys) /\ Len(<<s[j]>>) = 1 /\ <<s[j]>>[1] = s[j]
  BY <1>1
<1>5. /\ c \in Seq(Keys) /\ Len(c) = 1 + Len(b)
      /\ \A i \in 1 .. 1 + Len(b) : c[i] = IF i <= 1 THEN <<s[j]>>[i] ELSE b[i - 1]
  BY <1>3, <1>4, ConcatProperties, ZenonT(60)
<1>. HIDE DEF c
<1>6. Len(a) = Len(c) /\ Len(c) = Len(s) - j + 1
  BY <1>1, <1>2, <1>3, <1>5
<1>7. ASSUME NEW i \in 1 .. Len(s) - j + 1 PROVE a[i] = c[i]
  <2>1. CASE i = 1
    <3>1. j + 1 - 1 = j /\ 1 \in 1 .. 1 + Len(b)
      BY <1>1, <1>3
    <3> QED
      BY <1>2, <1>4, <1>5, <2>1, <3>1
  <2>2. CASE i # 1
    <3>1. i - 1 \in 1 .. Len(s) - j /\ j + (i - 1) = j + i - 1 /\ ~ (i <= 1)
          /\ i \in 1 .. 1 + Len(b)
      BY <1>1, <1>3, <2>2
    <3> QED
      BY <1>2, <1>3, <1>5, <3>1
  <2> QED
    BY <2>1, <2>2
<1>8. a = c
  BY <1>2, <1>5, <1>6, <1>7, SeqEqual
<1> QED
  BY <1>8 DEF a, b, c

\* The walk along the links of a list is the list.
LEMMA WalkIs ==
    ASSUME NEW s, NEW first, NEW forth, NEW back, Linked(s, first, forth, back)
    PROVE  Walk(forth)[Cardinality(Keys)][first] = s
<1>. DEFINE w == Walk(forth)
            C == Cardinality(Keys)
            rest(j) == SubSeq(s, j, Len(s))
            T == {n \in 0 .. C : \E j \in 1 .. Len(s) + 1 :
                      Len(s) + 1 - j <= n /\ w[n][Nth(s, j)] # rest(j)}
<1>1. C \in Nat /\ s \in Seq(Keys) /\ Len(s) \in 0 .. C /\ DOMAIN s = 1 .. Len(s)
      /\ (\A j \in 1 .. Len(s) : s[j] \in Keys)
  BY LengthBounded, LenProperties, HashAssumption, FS_CardinalityType DEF Linked
<1>2. ASSUME NEW n \in 0 .. C, NEW e \in Keys \cup {NULL}
      PROVE  w[n][e] = IF n = 0 \/ e = NULL THEN <<>> ELSE <<e>> \o w[n - 1][forth[e]]
  <2>1. Walks(w, forth, C)
    BY WalkStep
  <2>. HIDE DEF w, C
  <2>2. w[n] = [d \in Keys \cup {NULL} |->
                  IF n = 0 \/ d = NULL THEN <<>> ELSE <<d>> \o w[n - 1][forth[d]]]
    BY <2>1, Zenon DEF Walks
  <2> QED
    BY <2>2, Zenon
<1>. HIDE DEF w, C
<1>3. T = {}
  <2>. SUFFICES ASSUME T # {} PROVE FALSE
    OBVIOUS
  <2>1. T \subseteq Nat
    BY <1>1
  <2>2. PICK n \in T : \A m \in T : n <= m
    <3>. HIDE DEF T
    <3> QED
      BY <2>1, SmallestOf
  <2>3. PICK j \in 1 .. Len(s) + 1 : Len(s) + 1 - j <= n /\ w[n][Nth(s, j)] # rest(j)
    OBVIOUS
  <2>4. n \in 0 .. C
    OBVIOUS
  <2>5. CASE j = Len(s) + 1
    <3>1. j \notin DOMAIN s /\ Len(s) \in Nat /\ j > Len(s)
      BY <1>1, <2>5
    <3>2. Nth(s, j) = NULL
      BY <3>1 DEF Nth
    <3>3. rest(j) = <<>>
      BY <3>1, <2>5, <1>1, SubSeqEmpty
    <3> QED
      BY <1>2, <2>3, <2>4, <3>2, <3>3
  <2>6. CASE j # Len(s) + 1
    <3>1. /\ j \in 1 .. Len(s) /\ j + 1 \in 1 .. Len(s) + 1 /\ n # 0
          /\ n - 1 \in 0 .. C /\ Len(s) + 1 - (j + 1) <= n - 1 /\ ~ (n <= n - 1)
      BY <1>1, <2>3, <2>4, <2>6, SMTT(30)
    <3>2. Nth(s, j) = s[j] /\ s[j] \in Keys /\ s[j] # NULL /\ forth[s[j]] = Nth(s, j + 1)
      BY <1>1, <3>1, HashAssumption DEF Nth, Linked
    <3>3. w[n][s[j]] = <<s[j]>> \o w[n - 1][Nth(s, j + 1)]
      BY <1>2, <2>4, <3>1, <3>2, ZenonT(60)
    <3>4. n - 1 \notin T
      BY <2>2, <3>1
    <3>5. w[n - 1][Nth(s, j + 1)] = rest(j + 1)
      BY <3>1, <3>4
    <3>6. rest(j) = <<s[j]>> \o rest(j + 1)
      BY <1>1, <3>1, Suffix
    <3> QED
      BY <2>3, <3>2, <3>3, <3>5, <3>6
  <2> QED
    BY <2>5, <2>6
<1>4. w[C][Nth(s, 1)] = rest(1)
  <2>1. C \in 0 .. C /\ 1 \in 1 .. Len(s) + 1 /\ Len(s) + 1 - 1 <= C
    BY <1>1
  <2> QED
    BY <1>3, <2>1
<1>5. rest(1) = s
  BY <1>1, SubSeqFull
<1> QED
  BY <1>4, <1>5 DEF w, C, Linked

-----------------------------------------------------------------------------
(* The table. *)

\* A function on 1 .. n has length n.
LEMMA LenOfFunction ==
    ASSUME NEW f, NEW n \in Nat, DOMAIN f = 1 .. n, f = [x \in DOMAIN f |-> f[x]]
    PROVE  Len(f) = n /\ f \in [1 .. n -> Range(f)]
<1>1. f \in [1 .. n -> Range(f)]
  BY DEF Range
<1>2. f \in Seq(Range(f))
  BY <1>1
<1>3. Len(f) \in Nat /\ 1 .. Len(f) = 1 .. n
  BY <1>2, LenProperties
<1>4. \A m \in Nat : 1 .. m = 1 .. n => m = n
  <2>. SUFFICES ASSUME NEW m \in Nat, 1 .. m = 1 .. n PROVE m = n
    OBVIOUS
  <2>1. m <= n
    <3>1. CASE m = 0
      BY <3>1
    <3>2. CASE m # 0
      <4>1. m \in 1 .. m
        BY <3>2
      <4> QED
        BY <4>1
    <3> QED
      BY <3>1, <3>2
  <2>2. n <= m
    <3>1. CASE n = 0
      BY <3>1
    <3>2. CASE n # 0
      <4>1. n \in 1 .. n
        BY <3>2
      <4> QED
        BY <4>1
    <3> QED
      BY <3>1, <3>2
  <2> QED
    BY <2>1, <2>2
<1> QED
  BY <1>1, <1>3, <1>4

\* A bucket's number is that of a bucket.
LEMMA BucketExists ==
    ASSUME NEW S \in SUBSET Keys, NEW t, Filed(S, t), NEW k \in Keys
    PROVE  BucketOf(k, t.buckets) \in DOMAIN t.buckets
BY HashAssumption DEF Filed, BucketOf

\* What of R belongs in bucket B.
ChainOf(R, buckets, B) == {j \in R : BucketOf(j, buckets) = B}

\* The chain of one bucket is changed.
WithChain(t, B, ch) == [t EXCEPT !.buckets[B].chain = ch]

\* R and S differ in k at most.
SameBut(R, S, k) == R \ {k} = S \ {k}

\* A table stays filed when one key, and the chain of its bucket, change.
LEMMA ChainChanged ==
    ASSUME NEW S \in SUBSET Keys, NEW t, Filed(S, t), NEW k \in Keys,
           NEW R \in SUBSET Keys, SameBut(R, S, k),
           NEW B, B = BucketOf(k, t.buckets),
           NEW ch, ch = ChainOf(R, t.buckets, B),
           NEW u, u = WithChain(t, B, ch)
    PROVE  /\ Filed(R, u) /\ u.num_items = t.num_items /\ u.tail = t.tail
           /\ DOMAIN u = DOMAIN t /\ DOMAIN u.buckets = DOMAIN t.buckets
           /\ Len(u.buckets) = Len(t.buckets)
<1>. DEFINE n == Len(t.buckets)
<1>1. n \in Nat \ {0} /\ DOMAIN t.buckets = 1 .. n /\ B \in 1 .. n
  BY BucketExists DEF Filed
<1>2. /\ DOMAIN u = DOMAIN t /\ u.num_items = t.num_items /\ u.tail = t.tail
      /\ u.buckets = [t.buckets EXCEPT ![B] = [t.buckets[B] EXCEPT !.chain = ch]]
  BY DEF Filed, WithChain
<1>3. /\ DOMAIN u.buckets = 1 .. n
      /\ u.buckets = [b \in 1 .. n |-> u.buckets[b]]
      /\ \A b \in 1 .. n : u.buckets[b] = IF b = B THEN [t.buckets[B] EXCEPT !.chain = ch]
                                           ELSE t.buckets[b]
  BY <1>1, <1>2
<1>4. Len(u.buckets) = n /\ u.buckets \in [1 .. n -> Range(u.buckets)]
  BY <1>1, <1>3, LenOfFunction
<1>5. \A j \in Keys : BucketOf(j, u.buckets) = BucketOf(j, t.buckets)
  BY <1>4 DEF BucketOf
<1>6. ASSUME NEW b \in 1 .. n
      PROVE  /\ DOMAIN u.buckets[b] = {"chain", "expand_mult"}
             /\ u.buckets[b].chain = {j \in R : BucketOf(j, u.buckets) = b}
  <2>1. DOMAIN t.buckets[b] = {"chain", "expand_mult"}
        /\ t.buckets[b].chain = {j \in S : BucketOf(j, t.buckets) = b}
    BY <1>1 DEF Filed
  <2>2. CASE b = B
    <3>1. u.buckets[b] = [t.buckets[b] EXCEPT !.chain = ch]
      BY <1>3, <2>2
    <3>2. DOMAIN u.buckets[b] = {"chain", "expand_mult"} /\ u.buckets[b].chain = ch
      BY <2>1, <3>1
    <3>3. ch = {j \in R : BucketOf(j, u.buckets) = b}
      BY <1>5, <2>2 DEF ChainOf
    <3> QED
      BY <3>2, <3>3
  <2>3. CASE b # B
    <3>1. u.buckets[b] = t.buckets[b]
      BY <1>3, <2>3
    <3>2. \A j \in Keys : BucketOf(j, t.buckets) = b => (j \in R <=> j \in S)
      BY <2>3 DEF SameBut
    <3> QED
      BY <1>5, <2>1, <3>1, <3>2
  <2> QED
    BY <2>2, <2>3
<1> QED
  BY <1>1, <1>2, <1>3, <1>4, <1>6 DEF Filed

\* A remainder is the only one.
LEMMA RemainderUnique ==
    ASSUME NEW h \in Nat, NEW o \in Nat \ {0}, NEW q \in Nat, NEW r \in 0 .. o - 1,
           h = o * q + r
    PROVE  h % o = r
BY SMTT(60)

\* Masking with one bit more splits a bucket in two.
LEMMA MaskSplits ==
    ASSUME NEW h \in Nat, NEW o \in Nat \ {0}
    PROVE  /\ (h % (2 * o)) % o = h % o
           /\ h % (2 * o) \in 0 .. 2 * o - 1
           /\ h % o \in 0 .. o - 1
<1>1. (h % (2 * o)) % o = h % o
  <2>. DEFINE m == 2 * o
              r == h % m
              q == h \div m
              x == r \div o
              p == r % o
  <2>1. m \in Nat \ {0}
    OBVIOUS
  <2>2. r \in Nat /\ q \in Nat /\ h = m * q + r
    <3>. HIDE DEF m
    <3> QED
      BY <2>1
  <2>. HIDE DEF r, q
  <2>3. x \in Nat /\ p \in 0 .. o - 1 /\ r = o * x + p
    BY <2>2
  <2>. HIDE DEF x, p
  <2>4. 2 * q + x \in Nat /\ h = o * (2 * q + x) + p
    BY <2>2, <2>3
  <2>5. h % o = p
    <3>. DEFINE y == 2 * q + x
    <3>. HIDE DEF y
    <3> QED
      BY <2>3, <2>4, RemainderUnique DEF y
  <2> QED
    BY <2>5 DEF p, r, m
<1>2. ASSUME NEW n \in Nat \ {0} PROVE h % n \in 0 .. n - 1
  OBVIOUS
<1>3. 2 * o \in Nat \ {0}
  OBVIOUS
<1> QED
  BY <1>1, <1>2, <1>3

\* An expansion files every item in its new bucket.
LEMMA ExpandFiles ==
    ASSUME NEW S \in SUBSET Keys, NEW t, Filed(S, t)
    PROVE  /\ Filed(S, Expand(t))
           /\ Expand(t).num_items = t.num_items /\ Expand(t).tail = t.tail
<1>. DEFINE old == Len(t.buckets)
            new == 2 * old
            u == Expand(t)
            chain(b) == {k \in t.buckets[((b - 1) % old) + 1].chain : (Hash[k] % (2 * old)) + 1 = b}
<1>1. old \in Nat \ {0} /\ new \in Nat \ {0} /\ DOMAIN t.buckets = 1 .. old
  BY DEF Filed
<1>2. PICK m : u.buckets = [b \in 1 .. new |-> [chain |-> chain(b), expand_mult |-> m[b]]]
  <2>. DEFINE ideal == (t.num_items \div (2 * old)) + (IF t.num_items % (2 * old) # 0 THEN 1 ELSE 0)
              mult == [b \in 1 .. new |-> Multiplier(Cardinality(chain(b)), ideal)]
  <2>1. u.buckets = [b \in 1 .. new |->
            [chain |-> chain(b), expand_mult |-> Multiplier(Cardinality(chain(b)), ideal)]]
    BY DEF Expand, Filed
  <2>2. u.buckets = [b \in 1 .. new |-> [chain |-> chain(b), expand_mult |-> mult[b]]]
    BY <2>1, Zenon
  <2> QED
    BY <2>2
<1>3. /\ DOMAIN u = DOMAIN t /\ u.num_items = t.num_items /\ u.tail = t.tail
  BY DEF Expand, Filed
<1>. HIDE DEF u
<1>4. DOMAIN u.buckets = 1 .. new /\ u.buckets = [b \in 1 .. new |-> u.buckets[b]]
  BY <1>2
<1>5. Len(u.buckets) = new /\ u.buckets \in [1 .. new -> Range(u.buckets)]
  BY <1>1, <1>4, LenOfFunction
<1>6. ASSUME NEW b \in 1 .. new
      PROVE  /\ DOMAIN u.buckets[b] = {"chain", "expand_mult"}
             /\ u.buckets[b].chain = {k \in S : BucketOf(k, u.buckets) = b}
  <2>1. u.buckets[b] = [chain |-> chain(b), expand_mult |-> m[b]]
    BY <1>2
  <2>2. DOMAIN u.buckets[b] = {"chain", "expand_mult"} /\ u.buckets[b].chain = chain(b)
    BY <2>1
  <2>3. \A k \in Keys : BucketOf(k, u.buckets) = (Hash[k] % new) + 1
    BY <1>5 DEF BucketOf
  <2>. DEFINE a == ((b - 1) % old) + 1
  <2>4. a \in 1 .. old
    <3>1. b - 1 \in Nat
      BY <1>1
    <3>2. PICK r \in 0 .. old - 1 : r = (b - 1) % old
      BY <1>1, <3>1, MaskSplits
    <3>3. r + 1 \in 1 .. old
      BY <1>1
    <3> QED
      BY <3>2, <3>3, Zenon
  <2>5. t.buckets[a].chain = {k \in S : (Hash[k] % old) + 1 = a}
    BY <1>1, <2>4 DEF Filed, BucketOf
  <2>6. ASSUME NEW k \in S, (Hash[k] % new) + 1 = b PROVE (Hash[k] % old) + 1 = a
    <3>1. Hash[k] \in Nat
      BY HashAssumption
    <3>. DEFINE h == Hash[k] % new
    <3>2. h \in 0 .. new - 1 /\ h % old = Hash[k] % old
      BY <1>1, <3>1, MaskSplits
    <3>3. h + 1 = b
      BY <2>6
    <3>. HIDE DEF h
    <3>4. h = b - 1
      BY <1>1, <3>2, <3>3
    <3> QED
      BY <3>2, <3>4
  <2> QED
    BY <2>2, <2>3, <2>5, <2>6
<1> QED
  BY <1>1, <1>3, <1>4, <1>5, <1>6 DEF Filed, u

\* A collector that is added is filed.
LEMMA AddedToTable ==
    ASSUME NEW S \in SUBSET Keys, NEW t, Filed(S, t), t.num_items \in Nat, NEW k \in Keys
    PROVE  /\ Filed(S \cup {k}, AddToTable(t, k))
           /\ AddToTable(t, k).num_items = t.num_items + 1
           /\ AddToTable(t, k).tail = t.tail
<1>1. PICK v : v = [t EXCEPT !.num_items = @ + 1]
  OBVIOUS
<1>2. PICK B : B = BucketOf(k, t.buckets)
  OBVIOUS
<1>3. PICK R : R = S \cup {k}
  OBVIOUS
<1>4. PICK added : added = [v EXCEPT !.buckets[B].chain = @ \cup {k}]
  OBVIOUS
<1>5. /\ v.buckets = t.buckets /\ v.tail = t.tail /\ v.num_items = t.num_items + 1
      /\ DOMAIN v = DOMAIN t
  BY <1>1 DEF Filed
<1>6. Filed(S, v)
  BY <1>5 DEF Filed
<1>7. added = WithChain(v, B, ChainOf(R, v.buckets, B))
  <2>1. B = BucketOf(k, v.buckets) /\ B \in DOMAIN v.buckets
    BY <1>2, <1>5, <1>6, BucketExists
  <2>2. v.buckets[B].chain = {j \in S : BucketOf(j, v.buckets) = B}
    BY <1>6, <2>1 DEF Filed
  <2>3. v.buckets[B].chain \cup {k} = ChainOf(R, v.buckets, B)
    BY <1>3, <2>1, <2>2 DEF ChainOf
  <2> QED
    BY <1>4, <2>3, Zenon DEF WithChain
<1>8. Filed(R, added) /\ added.num_items = v.num_items /\ added.tail = v.tail
  <2>1. R \in SUBSET Keys /\ SameBut(R, S, k) /\ B = BucketOf(k, v.buckets)
    BY <1>2, <1>3, <1>5 DEF SameBut
  <2> QED
    BY <1>6, <1>7, <2>1, ChainChanged
<1>9. AddToTable(t, k) \in {added, Expand(added)}
  BY <1>1, <1>2, <1>4 DEF AddToTable, AddToBucket
<1>10. Filed(R, Expand(added))
       /\ Expand(added).num_items = added.num_items /\ Expand(added).tail = added.tail
  BY <1>3, <1>8, ExpandFiles
<1> QED
  BY <1>3, <1>5, <1>8, <1>9, <1>10

\* A collector that is deleted is not filed any more.
LEMMA DeletedFromTable ==
    ASSUME NEW S \in SUBSET Keys, NEW t, Filed(S, t), NEW k \in Keys
    PROVE  /\ Filed(S \ {k}, DelFromTable(t, k))
           /\ DelFromTable(t, k).num_items = t.num_items - 1
           /\ DelFromTable(t, k).tail = t.tail
<1>1. PICK v : v = [t EXCEPT !.num_items = @ - 1]
  OBVIOUS
<1>2. PICK B : B = BucketOf(k, t.buckets)
  OBVIOUS
<1>3. PICK R : R = S \ {k}
  OBVIOUS
<1>5. /\ v.buckets = t.buckets /\ v.tail = t.tail /\ v.num_items = t.num_items - 1
      /\ DOMAIN v = DOMAIN t
  BY <1>1 DEF Filed
<1>6. Filed(S, v)
  BY <1>5 DEF Filed
<1>7. DelFromTable(t, k) = WithChain(v, B, ChainOf(R, v.buckets, B))
  <2>1. B = BucketOf(k, v.buckets) /\ B \in DOMAIN v.buckets
    BY <1>2, <1>5, <1>6, BucketExists
  <2>2. v.buckets[B].chain = {j \in S : BucketOf(j, v.buckets) = B}
    BY <1>6, <2>1 DEF Filed
  <2>3. v.buckets[B].chain \ {k} = ChainOf(R, v.buckets, B)
    BY <1>3, <2>1, <2>2 DEF ChainOf
  <2>4. DelFromTable(t, k) = [v EXCEPT !.buckets[B].chain = @ \ {k}]
    BY <1>1, <1>2, Zenon DEF DelFromTable
  <2> QED
    BY <2>3, <2>4, Zenon DEF WithChain
<1>8. PICK u : u = DelFromTable(t, k)
  OBVIOUS
<1>9. Filed(R, u) /\ u.num_items = v.num_items /\ u.tail = v.tail
  <2>1. R \in SUBSET Keys /\ SameBut(R, S, k) /\ B = BucketOf(k, v.buckets)
    BY <1>2, <1>3, <1>5 DEF SameBut
  <2>2. u = WithChain(v, B, ChainOf(R, v.buckets, B))
    BY <1>7, <1>8
  <2> QED
    BY <1>6, <2>1, <2>2, ChainChanged
<1> QED
  BY <1>3, <1>5, <1>8, <1>9

\* A table that is made is empty.
LEMMA MadeTable ==
    ASSUME NEW k \in Keys
    PROVE  /\ Filed({}, MakeTable(k)) /\ MakeTable(k).num_items = 0
           /\ MakeTable(k).tail = k
<1>1. PICK u : u = MakeTable(k)
  OBVIOUS
<1>2. /\ DOMAIN u = {"buckets", "num_items", "tail", "ineff_expands", "noexpand"}
      /\ u.buckets = [b \in 1 .. InitialBuckets |-> EmptyBucket]
      /\ u.num_items = 0 /\ u.tail = k
  BY <1>1 DEF MakeTable, NoTable
<1>3. InitialBuckets \in Nat \ {0}
  BY HashAssumption
<1>4. DOMAIN u.buckets = 1 .. InitialBuckets
      /\ u.buckets = [b \in 1 .. InitialBuckets |-> u.buckets[b]]
  BY <1>2
<1>5. Len(u.buckets) = InitialBuckets
      /\ u.buckets \in [1 .. InitialBuckets -> Range(u.buckets)]
  BY <1>3, <1>4, LenOfFunction
<1>6. ASSUME NEW b \in 1 .. InitialBuckets
      PROVE  DOMAIN u.buckets[b] = {"chain", "expand_mult"} /\ u.buckets[b].chain = {}
  BY <1>2 DEF EmptyBucket
<1> QED
  BY <1>1, <1>2, <1>3, <1>4, <1>5, <1>6 DEF Filed

-----------------------------------------------------------------------------
(* The list. *)

\* Taking an element out of a list moves those behind it up by one.
LEMMA Removed ==
    ASSUME NEW S, NEW s \in Seq(S), IsInjective(s), NEW n \in DOMAIN s
    PROVE  /\ RemoveAt(s, n) \in Seq(S) /\ IsInjective(RemoveAt(s, n))
           /\ Range(RemoveAt(s, n)) = Range(s) \ {s[n]}
           /\ Len(RemoveAt(s, n)) = Len(s) - 1
           /\ \A j \in 1 .. Len(s) - 1 :
                 RemoveAt(s, n)[j] = IF j < n THEN s[j] ELSE s[j + 1]
<1>. DEFINE a == SubSeq(s, 1, n - 1)
            b == SubSeq(s, n + 1, Len(s))
            c == a \o b
<1>1. DOMAIN s = 1 .. Len(s) /\ Len(s) \in Nat /\ n \in 1 .. Len(s)
      /\ \A j \in 1 .. Len(s) : s[j] \in S
  BY LenProperties
<1>2. /\ a \in Seq(S) /\ Len(a) = n - 1 /\ \A j \in 1 .. n - 1 : a[j] = s[j]
  <2>1. 1 \in Int /\ n - 1 \in Int /\ (\A j \in 1 .. n - 1 : s[j] \in S)
        /\ (n - 1) - 1 + 1 = n - 1
    BY <1>1
  <2>2. /\ a \in Seq(S) /\ Len(a) = IF 1 <= n - 1 THEN (n - 1) - 1 + 1 ELSE 0
        /\ \A j \in 1 .. (n - 1) - 1 + 1 : a[j] = s[1 + j - 1]
    BY <2>1, SubSeqProperties
  <2>3. \A j \in 1 .. n - 1 : 1 + j - 1 = j
    BY <1>1
  <2>4. IF 1 <= n - 1 THEN (n - 1) - 1 + 1 = n - 1 ELSE n - 1 = 0
    BY <1>1
  <2>. HIDE DEF a
  <2> QED
    BY <2>1, <2>2, <2>3, <2>4
<1>3. /\ b \in Seq(S) /\ Len(b) = Len(s) - n
      /\ \A j \in 1 .. Len(s) - n : b[j] = s[n + j]
  <2>1. n + 1 \in Int /\ Len(s) \in Int /\ (\A j \in n + 1 .. Len(s) : s[j] \in S)
        /\ Len(s) - (n + 1) + 1 = Len(s) - n
    BY <1>1
  <2>2. /\ b \in Seq(S) /\ Len(b) = IF n + 1 <= Len(s) THEN Len(s) - (n + 1) + 1 ELSE 0
        /\ \A j \in 1 .. Len(s) - (n + 1) + 1 : b[j] = s[n + 1 + j - 1]
    BY <2>1, SubSeqProperties
  <2>3. \A j \in 1 .. Len(s) - n : n + 1 + j - 1 = n + j
    BY <1>1
  <2>4. IF n + 1 <= Len(s) THEN Len(s) - (n + 1) + 1 = Len(s) - n ELSE Len(s) - n = 0
    BY <1>1
  <2>. HIDE DEF b
  <2> QED
    BY <2>1, <2>2, <2>3, <2>4
<1>. HIDE DEF a, b
<1>4. /\ c \in Seq(S) /\ Len(c) = Len(s) - 1
      /\ \A j \in 1 .. Len(s) - 1 : c[j] = IF j < n THEN s[j] ELSE s[j + 1]
  <2>1. /\ c \in Seq(S) /\ Len(c) = Len(a) + Len(b)
        /\ \A j \in 1 .. Len(a) + Len(b) :
              c[j] = IF j <= Len(a) THEN a[j] ELSE b[j - Len(a)]
    BY <1>2, <1>3, ConcatProperties
  <2>2. Len(a) + Len(b) = Len(s) - 1
    BY <1>1, <1>2, <1>3
  <2>. HIDE DEF c
  <2>3. ASSUME NEW j \in 1 .. Len(s) - 1 PROVE c[j] = IF j < n THEN s[j] ELSE s[j + 1]
    <3>1. CASE j < n
      BY <1>1, <1>2, <2>1, <2>2, <3>1
    <3>2. CASE ~(j < n)
      <4>1. j - (n - 1) \in 1 .. Len(s) - n /\ n + (j - (n - 1)) = j + 1
        BY <1>1, <3>2
      <4>2. c[j] = b[j - (n - 1)]
        BY <1>1, <1>2, <2>1, <2>2, <3>2
      <4> QED
        BY <1>3, <3>2, <4>1, <4>2
    <3> QED
      BY <3>1, <3>2
  <2> QED
    BY <2>1, <2>2, <2>3
<1>. HIDE DEF c
<1>5. DOMAIN c = 1 .. Len(s) - 1
  BY <1>4, LenProperties
<1>6. IsInjective(c)
  <2>1. ASSUME NEW i \in 1 .. Len(s) - 1, NEW j \in 1 .. Len(s) - 1, c[i] = c[j]
        PROVE  i = j
    <3>. DEFINE at(k) == IF k < n THEN k ELSE k + 1
    <3>1. at(i) \in 1 .. Len(s) /\ at(j) \in 1 .. Len(s)
      BY <1>1
    <3>2. s[at(i)] = s[at(j)]
      BY <1>4, <2>1
    <3>3. at(i) = at(j)
      BY <1>1, <3>1, <3>2 DEF IsInjective
    <3> QED
      BY <1>1, <3>3
  <2> QED
    BY <1>5, <2>1 DEF IsInjective
<1>7. Range(c) = Range(s) \ {s[n]}
  <2>1. ASSUME NEW j \in 1 .. Len(s) - 1 PROVE c[j] \in Range(s) \ {s[n]}
    <3>1. CASE j < n
      <4>1. j \in 1 .. Len(s) /\ c[j] = s[j] /\ j # n
        BY <1>1, <1>4, <3>1
      <4> QED
        BY <1>1, <4>1 DEF Range, IsInjective
    <3>2. CASE ~(j < n)
      <4>1. j + 1 \in 1 .. Len(s) /\ c[j] = s[j + 1] /\ j + 1 # n
        BY <1>1, <1>4, <3>2
      <4> QED
        BY <1>1, <4>1 DEF Range, IsInjective
    <3> QED
      BY <3>1, <3>2
  <2>2. ASSUME NEW j \in 1 .. Len(s), s[j] # s[n] PROVE s[j] \in Range(c)
    <3>1. CASE j < n
      <4>1. j \in 1 .. Len(s) - 1 /\ c[j] = s[j]
        BY <1>1, <1>4, <3>1
      <4> QED
        BY <1>5, <4>1 DEF Range
    <3>2. CASE ~(j < n)
      <4>1. j # n
        BY <2>2
      <4>2. j - 1 \in 1 .. Len(s) - 1 /\ ~(j - 1 < n) /\ (j - 1) + 1 = j
        BY <1>1, <3>2, <4>1
      <4>3. c[j - 1] = s[j]
        BY <1>4, <4>2
      <4> QED
        BY <1>5, <4>2, <4>3 DEF Range
    <3> QED
      BY <3>1, <3>2
  <2> QED
    BY <1>1, <1>5, <2>1, <2>2 DEF Range
<1> QED
  BY <1>4, <1>6, <1>7 DEF RemoveAt, c, b, a

\* Places of a list without its n-th element.
LEMMA NthRemoved ==
    ASSUME NEW s \in Seq(Keys), IsInjective(s), NEW n \in DOMAIN s,
           NEW t, t = RemoveAt(s, n), NEW j \in Nat
    PROVE  Nth(t, j) = IF j < n THEN Nth(s, j) ELSE Nth(s, j + 1)
<1>1. /\ t \in Seq(Keys) /\ Len(t) = Len(s) - 1
      /\ \A i \in 1 .. Len(s) - 1 : t[i] = IF i < n THEN s[i] ELSE s[i + 1]
  BY Removed
<1>2. Len(s) \in Nat /\ DOMAIN s = 1 .. Len(s) /\ DOMAIN t = 1 .. Len(s) - 1 /\ n \in 1 .. Len(s)
  BY <1>1, LenProperties
<1>3. CASE j \in 1 .. Len(s) - 1
  <2>1. j \in 1 .. Len(s) /\ j + 1 \in 1 .. Len(s)
    BY <1>2, <1>3
  <2> QED
    BY <1>1, <1>2, <1>3, <2>1 DEF Nth
<1>4. CASE j \notin 1 .. Len(s) - 1
  <2>1. /\ j < n => j \notin 1 .. Len(s)
        /\ j # 0 => j + 1 \notin 1 .. Len(s)
    BY <1>2, <1>4
  <2>2. j = 0 => j < n /\ j \notin 1 .. Len(s)
    BY <1>2
  <2> QED
    BY <1>2, <1>4, <2>1, <2>2 DEF Nth
<1> QED
  BY <1>3, <1>4

\* In an injective list a collector has one place.
LEMMA NthOnce ==
    ASSUME NEW s \in Seq(Keys), IsInjective(s), NEW i \in DOMAIN s, NEW j \in Nat
    PROVE  /\ Nth(s, i) = s[i] /\ s[i] \in Keys /\ s[i] # NULL
           /\ Nth(s, j) = s[i] <=> j = i
           /\ Nth(s, j) = NULL <=> j \notin 1 .. Len(s)
           /\ Nth(s, j) \in Range(s) \cup {NULL}
<1>1. DOMAIN s = 1 .. Len(s) /\ Len(s) \in Nat /\ \A m \in 1 .. Len(s) : s[m] \in Keys
  BY LenProperties
<1> QED
  BY <1>1, HashAssumption DEF Nth, IsInjective, Range

\* HASH_DELETE unlinks an element that is not the only one.
LEMMA Unlinked ==
    ASSUME NEW s, NEW first, NEW forth, NEW back, Linked(s, first, forth, back),
           NEW n \in DOMAIN s, Len(s) # 1, NEW k, k = s[n],
           NEW t, t = RemoveAt(s, n),
           NEW first2, first2 = IF back[k] = NULL THEN forth[k] ELSE first,
           NEW forth2 \in Links, NEW back2 \in Links,
           \A j \in Keys : forth2[j] = IF j = k THEN NULL
                                       ELSE IF j = back[k] THEN forth[k] ELSE forth[j],
           \A j \in Keys : back2[j] = IF j = k THEN NULL
                                      ELSE IF j = forth[k] THEN back[k] ELSE back[j]
    PROVE  Linked(t, first2, forth2, back2)
<1>1. /\ s \in Seq(Keys) /\ IsInjective(s) /\ Len(s) \in Nat /\ DOMAIN s = 1 .. Len(s)
      /\ n \in 1 .. Len(s) /\ k \in Keys
  BY LenProperties DEF Linked
<1>2. /\ t \in Seq(Keys) /\ IsInjective(t) /\ Len(t) = Len(s) - 1 /\ DOMAIN t = 1 .. Len(s) - 1
      /\ \A j \in 1 .. Len(s) - 1 : t[j] = IF j < n THEN s[j] ELSE s[j + 1]
  <2>1. /\ t \in Seq(Keys) /\ IsInjective(t) /\ Len(t) = Len(s) - 1
        /\ \A j \in 1 .. Len(s) - 1 : t[j] = IF j < n THEN s[j] ELSE s[j + 1]
    BY <1>1, Removed
  <2> QED
    BY <2>1, LenProperties
<1>3. /\ forth[k] = Nth(s, n + 1) /\ back[k] = Nth(s, n - 1) /\ first = Nth(s, 1)
      /\ \A j \in 1 .. Len(s) : forth[s[j]] = Nth(s, j + 1) /\ back[s[j]] = Nth(s, j - 1)
  BY <1>1 DEF Linked
<1>0. \A j \in Nat : Nth(t, j) = IF j < n THEN Nth(s, j) ELSE Nth(s, j + 1)
  BY <1>1, NthRemoved
<1>4. first2 = Nth(t, 1)
  <2>1. Nth(t, 1) = IF 1 < n THEN Nth(s, 1) ELSE Nth(s, 1 + 1)
    BY <1>0
  <2>2. back[k] = NULL <=> n = 1
    <3>1. n - 1 \in Nat /\ (n - 1 \notin 1 .. Len(s) <=> n = 1)
      BY <1>1
    <3> QED
      BY <1>1, <1>3, <3>1, NthOnce
  <2> QED
    BY <1>1, <1>3, <2>1, <2>2
<1>5. ASSUME NEW j \in 1 .. Len(s) - 1
      PROVE  forth2[t[j]] = Nth(t, j + 1) /\ back2[t[j]] = Nth(t, j - 1)
  <2>. DEFINE i == IF j < n THEN j ELSE j + 1
  <2>1. i \in 1 .. Len(s) /\ t[j] = s[i] /\ i # n /\ i \in Nat /\ j \in Nat
    BY <1>1, <1>2
  <2>2. /\ j + 1 \in Nat /\ j - 1 \in Nat /\ n - 1 \in Nat /\ n + 1 \in Nat
        /\ (i = n - 1 => j = n - 1) /\ (i = n + 1 => j = n) /\ (j - 1) + 1 = j
        /\ (j + 1 < n => i + 1 = j + 1) /\ (~ (j + 1 < n) /\ i # n - 1 => i + 1 = (j + 1) + 1)
        /\ (j - 1 < n /\ i # n + 1 => i - 1 = j - 1) /\ (~ (j - 1 < n) => i - 1 = (j - 1) + 1)
    BY <1>1, <2>1
  <2>. HIDE DEF i
  <2>3. /\ s[i] \in Keys /\ s[i] # k /\ s[i] # NULL
        /\ s[i] = Nth(s, n - 1) <=> i = n - 1
        /\ s[i] = Nth(s, n + 1) <=> i = n + 1
    <3>1. s[i] \in Keys /\ s[i] # NULL /\ s[i] # k
      BY <1>1, <2>1, NthOnce, SMTT(30) DEF IsInjective
    <3>2. \A m \in Nat : Nth(s, m) = s[i] <=> m = i
      BY <1>1, <2>1, NthOnce
    <3> QED
      BY <2>2, <3>1, <3>2
  <2>4. /\ Nth(t, j + 1) = IF j + 1 < n THEN Nth(s, j + 1) ELSE Nth(s, (j + 1) + 1)
        /\ Nth(t, j - 1) = IF j - 1 < n THEN Nth(s, j - 1) ELSE Nth(s, (j - 1) + 1)
    BY <1>0, <2>2
  <2>5. forth2[s[i]] = Nth(t, j + 1)
    <3>1. CASE i = n - 1
      <4>1. ~ (j + 1 < n) /\ (j + 1) + 1 = n + 1
        BY <1>1, <2>1, <2>2, <3>1
      <4> QED
        BY <1>3, <2>3, <2>4, <3>1, <4>1
    <3>2. CASE i # n - 1
      <4>1. forth2[s[i]] = Nth(s, i + 1)
        BY <1>3, <2>1, <2>3, <3>2
      <4> QED
        BY <2>2, <2>4, <3>2, <4>1
    <3> QED
      BY <3>1, <3>2
  <2>6. back2[s[i]] = Nth(t, j - 1)
    <3>1. CASE i = n + 1
      <4>1. j - 1 < n /\ j - 1 = n - 1
        BY <1>1, <2>1, <2>2, <3>1
      <4> QED
        BY <1>3, <2>3, <2>4, <3>1, <4>1
    <3>2. CASE i # n + 1
      <4>1. back2[s[i]] = Nth(s, i - 1)
        BY <1>3, <2>1, <2>3, <3>2
      <4> QED
        BY <2>2, <2>4, <3>2, <4>1
    <3> QED
      BY <3>1, <3>2
  <2> QED
    BY <2>1, <2>5, <2>6
<1> QED
  BY <1>2, <1>4, <1>5 DEF Linked

\* The links after a new element k follows the tail.
Extended(forth2, back2, forth, back, tail, k) ==
    /\ forth2 \in Links /\ back2 \in Links
    /\ \A j \in Keys : forth2[j] = IF j = k THEN NULL ELSE IF j = tail THEN k ELSE forth[j]
    /\ \A j \in Keys : back2[j] = IF j = k THEN tail ELSE back[j]

\* HASH_APPEND_LIST links a new element behind the tail.
LEMMA LinkedBehind ==
    ASSUME NEW s, NEW first, NEW forth, NEW back, Linked(s, first, forth, back),
           s # <<>>, NEW k \in Keys, k \notin Range(s), NEW last, last = Nth(s, Len(s)),
           NEW t, t = Append(s, k),
           NEW forth2, NEW back2, Extended(forth2, back2, forth, back, last, k)
    PROVE  Linked(t, first, forth2, back2)
<1>0. /\ forth2 \in Links /\ back2 \in Links
      /\ \A j \in Keys : forth2[j] = IF j = k THEN NULL ELSE IF j = last THEN k ELSE forth[j]
      /\ \A j \in Keys : back2[j] = IF j = k THEN last ELSE back[j]
  BY DEF Extended
<1>1. /\ s \in Seq(Keys) /\ IsInjective(s) /\ Len(s) \in Nat /\ DOMAIN s = 1 .. Len(s)
      /\ Len(s) # 0 /\ first = Nth(s, 1)
  BY LenProperties, EmptySeq DEF Linked
<1>2. /\ t \in Seq(Keys) /\ Len(t) = Len(s) + 1 /\ t[Len(s) + 1] = k
      /\ \A j \in 1 .. Len(s) : t[j] = s[j]
  BY <1>1, AppendProperties
<1>3. DOMAIN t = 1 .. Len(s) + 1
  BY <1>2, LenProperties
<1>4. \A j \in 1 .. Len(s) : s[j] \in Keys /\ s[j] # k
  BY <1>1, LenProperties DEF Range
<1>5. IsInjective(t)
  <2>1. ASSUME NEW i \in 1 .. Len(s) + 1, NEW j \in 1 .. Len(s) + 1, t[i] = t[j] PROVE i = j
    <3>1. CASE i \in 1 .. Len(s) /\ j \in 1 .. Len(s)
      BY <1>1, <1>2, <2>1, <3>1 DEF IsInjective
    <3>2. CASE i = Len(s) + 1 \/ j = Len(s) + 1
      <4>1. (i = Len(s) + 1 \/ i \in 1 .. Len(s)) /\ (j = Len(s) + 1 \/ j \in 1 .. Len(s))
        BY <1>1
      <4> QED
        BY <1>2, <1>4, <2>1, <3>2, <4>1
    <3>3. (i \in 1 .. Len(s) /\ j \in 1 .. Len(s)) \/ (i = Len(s) + 1 \/ j = Len(s) + 1)
      BY <1>1
    <3> QED
      BY <3>1, <3>2, <3>3
  <2> QED
    BY <1>3, <2>1 DEF IsInjective
<1>6. ASSUME NEW j \in Nat
      PROVE  Nth(t, j) = IF j = Len(s) + 1 THEN k ELSE Nth(s, j)
  <2>1. CASE j = Len(s) + 1
    BY <1>1, <1>2, <1>3, <2>1 DEF Nth
  <2>2. CASE j # Len(s) + 1
    <3>1. j \in 1 .. Len(s) + 1 <=> j \in 1 .. Len(s)
      BY <1>1, <2>2
    <3> QED
      BY <1>1, <1>2, <1>3, <2>2, <3>1 DEF Nth
  <2> QED
    BY <2>1, <2>2
<1>7. ASSUME NEW j \in 1 .. Len(s)
      PROVE  forth2[t[j]] = Nth(t, j + 1) /\ back2[t[j]] = Nth(t, j - 1)
  <2>1. /\ t[j] = s[j] /\ s[j] \in Keys /\ s[j] # k
        /\ forth[s[j]] = Nth(s, j + 1) /\ back[s[j]] = Nth(s, j - 1)
    BY <1>1, <1>2, <1>4 DEF Linked
  <2>2. /\ j \in Nat /\ j + 1 \in Nat /\ j - 1 \in Nat /\ j - 1 # Len(s) + 1
        /\ (j + 1 = Len(s) + 1 <=> j = Len(s))
    <3>1. PICK m \in Nat : m = Len(s)
      BY <1>1
    <3>2. /\ j \in Nat /\ j + 1 \in Nat /\ j - 1 \in Nat /\ j - 1 # m + 1
          /\ (j + 1 = m + 1 <=> j = m)
      BY <3>1
    <3> QED
      BY <3>1, <3>2
  <2>3. s[j] = last <=> j = Len(s)
    <3>1. Len(s) \in 1 .. Len(s)
      BY <1>1
    <3>2. last = s[Len(s)]
      BY <1>1, <3>1 DEF Nth
    <3> QED
      BY <1>1, <3>1, <3>2 DEF IsInjective
  <2>4. back2[t[j]] = Nth(t, j - 1)
    BY <1>0, <1>6, <2>1, <2>2
  <2>5. forth2[t[j]] = Nth(t, j + 1)
    BY <1>0, <1>6, <2>1, <2>2, <2>3
  <2> QED
    BY <2>4, <2>5
<1>8. forth2[k] = Nth(t, Len(s) + 1 + 1) /\ back2[k] = Nth(t, Len(s) + 1 - 1)
  <2>1. /\ Len(s) + 1 + 1 \in Nat /\ Len(s) + 1 + 1 \notin 1 .. Len(s) + 1
        /\ Len(s) + 1 - 1 = Len(s) /\ Len(s) # Len(s) + 1
    <3>1. \A m \in Nat : m + 1 + 1 \in Nat /\ m + 1 + 1 \notin 1 .. m + 1
                          /\ m + 1 - 1 = m /\ m # m + 1
      OBVIOUS
    <3> QED
      BY <1>1, <3>1
  <2>2. Nth(t, Len(s) + 1 + 1) = NULL
    BY <1>3, <2>1 DEF Nth
  <2>3. Nth(t, Len(s)) = last
    BY <1>1, <1>6, <2>1
  <2> QED
    BY <1>0, <2>1, <2>2, <2>3
<1>9. first = Nth(t, 1)
  <2>1. 1 \in Nat /\ 1 # Len(s) + 1
    BY <1>1
  <2> QED
    BY <1>1, <1>6, <2>1
<1>10. \A j \in 1 .. Len(s) + 1 : j \in 1 .. Len(s) \/ j = Len(s) + 1
  BY <1>1
<1> QED
  BY <1>0, <1>2, <1>3, <1>5, <1>7, <1>8, <1>9, <1>10 DEF Linked

\* One collector alone, and none.
LEMMA LinkedAlone ==
    ASSUME NEW k \in Keys, NEW forth \in Links, NEW back \in Links,
           forth[k] = NULL, back[k] = NULL
    PROVE  Linked(<<k>>, k, forth, back)
<1>1. <<k>> \in Seq(Keys) /\ DOMAIN <<k>> = 1 .. 1 /\ <<k>>[1] = k /\ 1 + 1 \notin 1 .. 1
      /\ 1 - 1 \notin 1 .. 1 /\ \A j \in 1 .. 1 : j = 1
  OBVIOUS
<1> QED
  BY <1>1 DEF Linked, Nth, IsInjective

\* The empty list has no first element, whatever the links.
LEMMA LinkedNone ==
    ASSUME NEW forth \in Links, NEW back \in Links
    PROVE  Linked(<<>>, NULL, forth, back)
<1>1. <<>> \in Seq(Keys) /\ DOMAIN <<>> = {}
  OBVIOUS
<1> QED
  BY <1>1 DEF Linked, Nth, IsInjective

-----------------------------------------------------------------------------
(* The operations of the hash. *)

\* Appending to a list adds an element to it.
LEMMA Appended ==
    ASSUME NEW s \in Seq(Keys), NEW k \in Keys
    PROVE  /\ Append(s, k) \in Seq(Keys) /\ Append(s, k) # <<>>
           /\ Len(Append(s, k)) = Len(s) + 1 /\ Nth(Append(s, k), Len(s) + 1) = k
           /\ Range(Append(s, k)) = Range(s) \cup {k}
<1>. DEFINE a == Append(s, k)
<1>1. /\ a \in Seq(Keys) /\ Len(a) = Len(s) + 1 /\ a[Len(s) + 1] = k
      /\ \A j \in 1 .. Len(s) : a[j] = s[j]
  BY AppendProperties
<1>2. DOMAIN a = 1 .. Len(s) + 1 /\ DOMAIN s = 1 .. Len(s) /\ Len(s) \in Nat
  BY <1>1, LenProperties
<1>. HIDE DEF a
<1>3. /\ \A j \in 1 .. Len(s) + 1 : j \in 1 .. Len(s) \/ j = Len(s) + 1
      /\ \A j \in 1 .. Len(s) : j \in 1 .. Len(s) + 1
      /\ Len(s) + 1 \in 1 .. Len(s) + 1
  BY <1>2
<1>4. Range(a) = Range(s) \cup {k}
  BY <1>1, <1>2, <1>3 DEF Range
<1>5. a # <<>> /\ Nth(a, Len(s) + 1) = k
  BY <1>1, <1>2, <1>3 DEF Nth
<1> QED
  BY <1>1, <1>4, <1>5 DEF a

\* The list is empty when it has no first element.
LEMMA EmptyList ==
    ASSUME NEW s, NEW first, NEW forth, NEW back, Linked(s, first, forth, back)
    PROVE  first = NULL <=> s = <<>>
<1>1. s \in Seq(Keys) /\ Len(s) \in Nat /\ DOMAIN s = 1 .. Len(s) /\ first = Nth(s, 1)
      /\ \A j \in 1 .. Len(s) : s[j] \in Keys
  BY LenProperties DEF Linked
<1>2. s = <<>> <=> Len(s) = 0
  BY <1>1, EmptySeq
<1> QED
  BY <1>1, <1>2, HashAssumption DEF Nth

\* HASH_ADD appends to the list and files the new collector.
LEMMA HashAdds ==
    ASSUME NEW s, Linked(s, head, next, prev), TableOf(s, tbl),
           NEW k \in Keys \ Range(s), HashAdd(k)
    PROVE  /\ Linked(Append(s, k), head', next', prev')
           /\ TableOf(Append(s, k), tbl')
<1>1. s \in Seq(Keys) /\ Len(s) \in Nat /\ next \in Links /\ prev \in Links
      /\ Range(s) \in SUBSET Keys
  BY LenProperties DEF Linked, Range
<1>2. head = NULL <=> s = <<>>
  BY EmptyList
<1>3. PICK t : t = Append(s, k)
  OBVIOUS
<1>4. /\ t # <<>> /\ Len(t) = Len(s) + 1 /\ Nth(t, Len(t)) = k
      /\ Range(t) = Range(s) \cup {k}
  BY <1>1, <1>3, Appended
<1>5. CASE head = NULL
  <2>1. /\ next' = [next EXCEPT ![k] = NULL] /\ prev' = [prev EXCEPT ![k] = NULL]
        /\ head' = k /\ tbl' = AddToTable(MakeTable(k), k)
    BY <1>5 DEF HashAdd
  <2>2. t = <<k>> /\ Range(s) = {} /\ Len(s) = 0
    BY <1>2, <1>3, <1>5 DEF Range
  <2>3. next' \in Links /\ prev' \in Links /\ next'[k] = NULL /\ prev'[k] = NULL
    BY <1>1, <2>1 DEF Links
  <2>4. Linked(t, head', next', prev')
    BY <2>1, <2>2, <2>3, LinkedAlone
  <2>5. PICK made : made = MakeTable(k)
    OBVIOUS
  <2>6. Filed({}, made) /\ made.num_items = 0 /\ made.tail = k
    BY <2>5, MadeTable
  <2>7. Filed(Range(s) \cup {k}, tbl') /\ tbl'.num_items = 0 + 1 /\ tbl'.tail = k
    <3>1. tbl' = AddToTable(made, k) /\ Filed(Range(s), made) /\ made.num_items \in Nat
      BY <2>1, <2>2, <2>5, <2>6
    <3> QED
      BY <1>1, <2>6, <3>1, AddedToTable
  <2>8. TableOf(t, tbl')
    BY <1>4, <2>2, <2>7 DEF TableOf
  <2> QED
    BY <1>3, <2>4, <2>8
<1>6. CASE head # NULL
  <2>1. /\ next' = [next EXCEPT ![tbl.tail] = k, ![k] = NULL]
        /\ prev' = [prev EXCEPT ![k] = tbl.tail] /\ head' = head
        /\ tbl' = AddToTable([tbl EXCEPT !.tail = k], k)
    BY <1>6 DEF HashAdd, AppendToList
  <2>2. /\ s # <<>> /\ Filed(Range(s), tbl) /\ tbl.num_items = Len(s)
        /\ tbl.tail = Nth(s, Len(s))
    BY <1>2, <1>6 DEF TableOf
  <2>3. tbl.tail \in Keys
    <3>1. Len(s) \in DOMAIN s
      BY <1>1, <2>2, EmptySeq, LenProperties
    <3> QED
      BY <1>1, <2>2, <3>1, NthOnce DEF Linked
  <2>4. Extended(next', prev', next, prev, tbl.tail, k)
    BY <1>1, <2>1, <2>3 DEF Links, Extended
  <2>5. Linked(t, head', next', prev')
    <3>1. Linked(t, head, next', prev')
      BY <1>3, <2>2, <2>4, LinkedBehind
    <3> QED
      BY <2>1, <3>1
  <2>6. PICK moved : moved = [tbl EXCEPT !.tail = k]
    OBVIOUS
  <2>7. Filed(Range(s), moved) /\ moved.num_items = Len(s) /\ moved.tail = k
    <3>1. DOMAIN moved = DOMAIN tbl /\ moved.buckets = tbl.buckets
          /\ moved.num_items = tbl.num_items /\ moved.tail = k
      BY <2>2, <2>6 DEF Filed
    <3> QED
      BY <2>2, <3>1 DEF Filed
  <2>8. Filed(Range(s) \cup {k}, tbl') /\ tbl'.num_items = Len(s) + 1 /\ tbl'.tail = k
    BY <1>1, <2>1, <2>6, <2>7, AddedToTable
  <2>9. TableOf(t, tbl')
    BY <1>4, <2>8 DEF TableOf
  <2> QED
    BY <1>3, <2>5, <2>9
<1> QED
  BY <1>5, <1>6

\* HASH_DELETE takes an element out of the list and of its chain.
LEMMA HashDels ==
    ASSUME NEW s, Linked(s, head, next, prev), TableOf(s, tbl),
           NEW n \in DOMAIN s, HashDel(s[n])
    PROVE  /\ Linked(RemoveAt(s, n), head', next', prev')
           /\ TableOf(RemoveAt(s, n), tbl')
<1>1. /\ s \in Seq(Keys) /\ IsInjective(s) /\ Len(s) \in Nat /\ DOMAIN s = 1 .. Len(s)
      /\ next \in Links /\ prev \in Links /\ Range(s) \in SUBSET Keys
  BY LenProperties DEF Linked, Range
<1>2. PICK t : t = RemoveAt(s, n)
  OBVIOUS
<1>3. PICK k \in Keys : k = s[n]
  BY <1>1, NthOnce
<1>4. /\ t \in Seq(Keys) /\ Len(t) = Len(s) - 1 /\ Range(t) = Range(s) \ {k}
  BY <1>1, <1>2, <1>3, Removed, ZenonT(60)
<1>5. next[k] = Nth(s, n + 1) /\ prev[k] = Nth(s, n - 1) /\ k \in Range(s)
  BY <1>1, <1>3 DEF Linked, Range
<1>6. prev[k] = NULL /\ next[k] = NULL <=> Len(s) = 1
  <2>1. n - 1 \in Nat /\ n + 1 \in Nat
        /\ ((n - 1 \notin 1 .. Len(s) /\ n + 1 \notin 1 .. Len(s)) <=> Len(s) = 1)
    <3>1. ASSUME NEW m \in Nat, n \in 1 .. m
          PROVE  n - 1 \in Nat /\ n + 1 \in Nat
                 /\ ((n - 1 \notin 1 .. m /\ n + 1 \notin 1 .. m) <=> m = 1)
      BY <3>1
    <3> QED
      BY <1>1, <3>1
  <2> QED
    BY <1>1, <1>5, <2>1, NthOnce
<1>7. CASE Len(s) = 1
  <2>1. head' = NULL /\ tbl' = NoTable /\ UNCHANGED <<next, prev>>
    BY <1>3, <1>6, <1>7 DEF HashDel
  <2>2. t = <<>>
    BY <1>4, <1>7, EmptySeq
  <2> QED
    BY <1>1, <1>2, <2>1, <2>2, LinkedNone DEF TableOf
<1>8. CASE Len(s) # 1
  <2>1. /\ head' = IF prev[k] = NULL THEN next[k] ELSE head
        /\ next' = [j \in Keys |-> IF j = k THEN NULL
                                   ELSE IF j = prev[k] THEN next[k] ELSE next[j]]
        /\ prev' = [j \in Keys |-> IF j = k THEN NULL
                                   ELSE IF j = next[k] THEN prev[k] ELSE prev[j]]
        /\ tbl' = DelFromTable(IF tbl.tail = k THEN [tbl EXCEPT !.tail = prev[k]]
                               ELSE tbl, k)
    BY <1>3, <1>6, <1>8, Zenon DEF HashDel
  <2>2. /\ next' \in Links /\ prev' \in Links
        /\ \A j \in Keys : next'[j] = IF j = k THEN NULL
                                      ELSE IF j = prev[k] THEN next[k] ELSE next[j]
        /\ \A j \in Keys : prev'[j] = IF j = k THEN NULL
                                      ELSE IF j = next[k] THEN prev[k] ELSE prev[j]
    BY <1>1, <2>1 DEF Links
  <2>3. Linked(t, head', next', prev')
    BY <1>2, <1>3, <1>8, <2>1, <2>2, Unlinked
  <2>4. s # <<>> /\ t # <<>> /\ Len(s) - 1 \in Nat
    BY <1>1, <1>4, <1>8, EmptySeq
  <2>5. Filed(Range(s), tbl) /\ tbl.num_items = Len(s) /\ tbl.tail = Nth(s, Len(s))
    BY <2>4 DEF TableOf
  <2>6. PICK moved : moved = IF tbl.tail = k THEN [tbl EXCEPT !.tail = prev[k]] ELSE tbl
    OBVIOUS
  <2>7. /\ Filed(Range(s), moved) /\ moved.num_items = Len(s)
        /\ moved.tail = IF tbl.tail = k THEN prev[k] ELSE tbl.tail
    <3>1. /\ DOMAIN moved = DOMAIN tbl /\ moved.buckets = tbl.buckets
          /\ moved.num_items = tbl.num_items
          /\ moved.tail = IF tbl.tail = k THEN prev[k] ELSE tbl.tail
      BY <2>5, <2>6 DEF Filed
    <3> QED
      BY <2>5, <3>1 DEF Filed
  <2>8. Filed(Range(s) \ {k}, tbl') /\ tbl'.num_items = Len(s) - 1 /\ tbl'.tail = moved.tail
    BY <1>1, <2>1, <2>6, <2>7, DeletedFromTable
  <2>9. moved.tail = Nth(t, Len(t))
    <3>1. /\ Len(s) \in 1 .. Len(s) /\ (Len(s) = n <=> Len(s) - 1 < n)
          /\ Len(s) - 1 + 1 = Len(s)
      BY <1>1, <2>4
    <3>2. tbl.tail = k <=> Len(s) = n
      BY <1>1, <1>3, <2>5, NthOnce
    <3>3. Nth(t, Len(s) - 1) = IF Len(s) - 1 < n THEN Nth(s, Len(s) - 1)
                               ELSE Nth(s, Len(s) - 1 + 1)
      BY <1>1, <1>2, <2>4, NthRemoved
    <3> QED
      BY <1>4, <1>5, <2>5, <2>7, <3>1, <3>2, <3>3
  <2>10. TableOf(t, tbl')
    BY <1>4, <2>4, <2>8, <2>9 DEF TableOf
  <2> QED
    BY <1>2, <2>3, <2>10
<1> QED
  BY <1>7, <1>8

-----------------------------------------------------------------------------
(* The steps of the provider. *)

\* The list that is linked is the one HASH_ITER visits.
LEMMA OrderIs ==
    ASSUME NEW s
    PROVE  /\ Linked(s, head, next, prev) => AppOrder = s
           /\ Linked(s, head', next', prev') => AppOrder' = s
BY WalkIs DEF AppOrder

\* What the list becomes in a step.
Becomes(s, t) ==
    \/ t = s
    \/ \E k \in Keys : k \notin Range(s) /\ t = Append(s, k)
    \/ \E n \in DOMAIN s : s[n] \in Keys /\ t = RemoveAt(s, n)

\* The collectors next to one of the list, and the first and the last, are of it.
LEMMA NeighboursListed ==
    ASSUME NEW s, Linked(s, head, next, prev), TableOf(s, tbl)
    PROVE  /\ Range(s) \subseteq Keys /\ head \in Range(s) \cup {NULL}
           /\ \A k \in Range(s) : {next[k], prev[k]} \subseteq Range(s) \cup {NULL}
           /\ s # <<>> => tbl.tail \in Range(s)
<1>1. /\ s \in Seq(Keys) /\ IsInjective(s) /\ Len(s) \in Nat /\ DOMAIN s = 1 .. Len(s)
      /\ \A j \in 1 .. Len(s) : s[j] \in Keys
  BY LenProperties DEF Linked
<1>2. \A j : Nth(s, j) \in Range(s) \cup {NULL}
  BY DEF Nth, Range
<1>3. head = Nth(s, 1)
      /\ \A j \in DOMAIN s : next[s[j]] = Nth(s, j + 1) /\ prev[s[j]] = Nth(s, j - 1)
  BY DEF Linked
<1>4. s # <<>> => tbl.tail \in Range(s)
  <2>1. s # <<>> => Len(s) \in 1 .. Len(s)
    BY <1>1, EmptySeq
  <2> QED
    BY <1>1, <2>1 DEF TableOf, Nth, Range
<1> QED
  BY <1>1, <1>2, <1>3, <1>4 DEF Range

\* A lookup finds the collectors of the list.
LEMMA FoundIsListed ==
    ASSUME NEW s, Linked(s, head, next, prev), TableOf(s, tbl), NEW k \in Keys
    PROVE  Find(k) # NULL <=> k \in Range(s)
<1>1. head = NULL <=> s = <<>>
  BY EmptyList
<1>2. Range(s) \in SUBSET Keys
  BY NeighboursListed
<1>3. CASE s = <<>>
  BY <1>1, <1>3 DEF Find, Range
<1>4. CASE s # <<>>
  <2>1. Filed(Range(s), tbl)
    BY <1>4 DEF TableOf
  <2>2. PICK b : b = BucketOf(k, tbl.buckets)
    OBVIOUS
  <2>3. b \in DOMAIN tbl.buckets
    BY <1>2, <2>1, <2>2, BucketExists
  <2>4. k \in tbl.buckets[b].chain <=> k \in Range(s)
    BY <2>1, <2>2, <2>3 DEF Filed
  <2>5. Find(k) = IF k \in tbl.buckets[b].chain THEN k ELSE NULL
    BY <1>1, <1>4, <2>2 DEF Find, FindInBucket
  <2> QED
    BY <2>4, <2>5, HashAssumption
<1> QED
  BY <1>3, <1>4

\* add_collector appends a collector that was not allocated.
LEMMA AddSteps ==
    ASSUME Drained, NEW s, HashState(s), NEW k \in Keys, add_collector(k)
    PROVE  \E t : HashState(t)' /\ Becomes(s, t)
<1>1. Linked(s, head, next, prev) /\ TableOf(s, tbl) /\ Swept(s)
  BY DEF HashState
<1>2. sweep = "no" /\ freed = Keys \ Range(s) /\ k \notin Range(s)
  BY <1>1 DEF add_collector, Handlers, Swept
<1>3. PICK t : t = Append(s, k)
  OBVIOUS
<1>4. Linked(t, head', next', prev') /\ TableOf(t, tbl')
  BY <1>1, <1>2, <1>3, HashAdds DEF add_collector
<1>5. Range(t) = Range(s) \cup {k}
  BY <1>1, <1>3, Appended DEF Linked
<1>6. ~ (head # NULL /\ tbl.tail \in freed)
  BY <1>1, <1>2, EmptyList, NeighboursListed
<1>7. Swept(t)'
  BY <1>1, <1>2, <1>5, <1>6 DEF Swept, add_collector, sweeper
<1> QED
  BY <1>2, <1>3, <1>4, <1>7 DEF HashState, Becomes

\* The place of a collector that is deleted, and what the list is without it.
LEMMA DelSteps ==
    ASSUME NEW s, HashState(s), NEW k \in Range(s), HashDel(k)
    PROVE  \E n \in DOMAIN s :
              /\ s[n] = k /\ k \in Keys
              /\ Linked(RemoveAt(s, n), head', next', prev')
              /\ TableOf(RemoveAt(s, n), tbl')
              /\ Range(RemoveAt(s, n)) = Range(s) \ {k}
<1>1. PICK n \in DOMAIN s : s[n] = k
  BY DEF Range
<1>2. Linked(s, head, next, prev) /\ TableOf(s, tbl) /\ s \in Seq(Keys) /\ IsInjective(s)
  BY DEF HashState, Linked
<1>3. HashDel(s[n])
  BY <1>1
<1>4. Linked(RemoveAt(s, n), head', next', prev') /\ TableOf(RemoveAt(s, n), tbl')
  BY <1>2, <1>3, HashDels
<1>5. Range(RemoveAt(s, n)) = Range(s) \ {k}
  BY <1>1, <1>2, Removed
<1>6. k \in Keys
  BY <1>2, NeighboursListed
<1> QED
  BY <1>1, <1>4, <1>5, <1>6

\* remove_collector takes out and frees one that is listed.
LEMMA RemoveSteps ==
    ASSUME Drained, NEW s, HashState(s), NEW k \in Keys, remove_collector(k)
    PROVE  \E t : HashState(t)' /\ Becomes(s, t)
<1>1. Linked(s, head, next, prev) /\ TableOf(s, tbl) /\ Swept(s)
  BY DEF HashState
<1>2. sweep = "no" /\ freed = Keys \ Range(s) /\ k \in Range(s)
  BY <1>1, FoundIsListed DEF remove_collector, Handlers, Swept
<1>3. PICK n \in DOMAIN s :
              /\ s[n] = k
              /\ Linked(RemoveAt(s, n), head', next', prev')
              /\ TableOf(RemoveAt(s, n), tbl')
              /\ Range(RemoveAt(s, n)) = Range(s) \ {k}
  BY <1>2, DelSteps DEF remove_collector
<1>4. PICK t : t = RemoveAt(s, n)
  OBVIOUS
<1>5. {k, prev[k], next[k]} \cap freed = {}
  BY <1>1, <1>2, NeighboursListed, HashAssumption
<1>6. Swept(t)'
  BY <1>1, <1>2, <1>3, <1>4, <1>5 DEF Swept, remove_collector, sweeper
<1> QED
  BY <1>3, <1>4, <1>6 DEF HashState, Becomes

\* The sweep: what it takes out is the first of the list, and what it keeps in
\* tmp is the first of the rest.
LEMMA SweepSteps ==
    ASSUME NEW s, HashState(s), remove_all_collectors \/ Calloc
    PROVE  \E t : HashState(t)' /\ Becomes(s, t)
<1>1. Linked(s, head, next, prev) /\ TableOf(s, tbl) /\ Swept(s)
  BY DEF HashState
<1>2. /\ head = NULL <=> s = <<>>
      /\ Range(s) \subseteq Keys /\ head \in Range(s) \cup {NULL} /\ NULL \notin Keys
      /\ \A k \in Range(s) : {next[k], prev[k]} \subseteq Range(s) \cup {NULL}
  BY <1>1, EmptyList, NeighboursListed, HashAssumption
<1>3. After(head) \in Range(s) \cup {NULL}
  BY <1>2 DEF After
<1>4. ASSUME UNCHANGED <<head, next, prev, tbl>>, Swept(s)'
      PROVE  \E t : HashState(t)' /\ Becomes(s, t)
  BY <1>1, <1>4 DEF HashState, Becomes
<1>5. CASE SweepBegins
  <2>1. Swept(s)'
    BY <1>1, <1>2, <1>3, <1>5 DEF Swept, SweepBegins, After
  <2> QED
    BY <1>4, <1>5, <2>1 DEF SweepBegins
<1>6. CASE SweepDeletes
  <2>1. el = head /\ el \in Range(s) /\ tmp = next[el] /\ freed = Keys \ Range(s)
    BY <1>1, <1>2, <1>6 DEF Swept, SweepDeletes, After
  <2>2. PICK n \in DOMAIN s :
              /\ s[n] = el
              /\ Linked(RemoveAt(s, n), head', next', prev')
              /\ TableOf(RemoveAt(s, n), tbl')
              /\ Range(RemoveAt(s, n)) = Range(s) \ {el}
    BY <1>6, <2>1, DelSteps DEF SweepDeletes
  <2>3. PICK t : t = RemoveAt(s, n)
    OBVIOUS
  <2>4. prev[el] = NULL
    <3>1. s \in Seq(Keys) /\ Len(s) \in Nat /\ DOMAIN s = 1 .. Len(s) /\ head = Nth(s, 1)
          /\ \A j \in DOMAIN s : prev[s[j]] = Nth(s, j - 1)
      BY <1>1, LenProperties DEF Linked
    <3>2. 1 \in DOMAIN s /\ head = s[1]
      BY <1>2, <2>1, <3>1 DEF Nth
    <3>3. 1 - 1 \notin DOMAIN s
      BY <3>1
    <3> QED
      BY <2>1, <3>1, <3>2, <3>3 DEF Nth
  <2>5. head' = tmp
    BY <1>6, <2>1, <2>4 DEF SweepDeletes, HashDel
  <2>6. {el, prev[el], next[el]} \cap freed = {}
    BY <1>2, <2>1
  <2>7. Swept(t)'
    BY <1>1, <1>2, <1>6, <2>1, <2>2, <2>3, <2>5, <2>6 DEF Swept, SweepDeletes
  <2> QED
    BY <1>2, <2>1, <2>2, <2>3, <2>7 DEF HashState, Becomes
<1>7. CASE SweepFrees
  <2>1. el \notin freed /\ tmp \notin freed
    BY <1>1, <1>2, <1>7 DEF Swept, SweepFrees
  <2>2. Swept(s)'
    BY <1>1, <1>2, <1>3, <1>7, <2>1 DEF Swept, SweepFrees, After
  <2> QED
    BY <1>4, <1>7, <2>2 DEF SweepFrees
<1>8. CASE SweepEnds
  <2>1. s = <<>> /\ Range(s) = {}
    BY <1>1, <1>2, <1>8 DEF Swept, SweepEnds, Range
  <2>2. Swept(s)'
    BY <1>1, <1>8, <2>1 DEF Swept, SweepEnds
  <2> QED
    BY <1>4, <1>8, <2>2 DEF SweepEnds
<1>9. CASE Calloc
  <2>1. s = <<>> /\ Range(s) = {} /\ freed = Keys
    BY <1>1, <1>9 DEF Swept, Calloc, Range
  <2>2. next \in Links /\ prev \in Links
    BY <1>1 DEF Linked
  <2>3. Linked(s, head', next', prev') /\ TableOf(s, tbl')
    BY <1>9, <2>1, <2>2, LinkedNone DEF Calloc, TableOf
  <2>4. Swept(s)'
    BY <1>1, <1>9, <2>1 DEF Swept, Calloc
  <2> QED
    BY <2>3, <2>4 DEF HashState, Becomes
<1> QED
  BY <1>5, <1>6, <1>7, <1>8, <1>9 DEF remove_all_collectors

\* Without handlers during the sweep, every step keeps the invariant and changes
\* the list as one of its operations, or not at all.
LEMMA HashSteps ==
    ASSUME Drained, HashInv, [Next]_vars
    PROVE  HashInv' /\ Becomes(AppOrder, AppOrder')
<1>1. PICK s : HashState(s) /\ s = AppOrder
  BY DEF HashInv
<1>2. PICK t : HashState(t)' /\ Becomes(s, t)
  <2>1. CASE Next
    BY <1>1, <2>1, AddSteps, RemoveSteps, SweepSteps DEF Next
  <2>2. CASE UNCHANGED vars
    <3>1. HashState(s)'
      BY <1>1, <2>2 DEF vars, HashState, Swept, After
    <3> QED
      BY <3>1 DEF Becomes
  <2> QED
    BY <2>1, <2>2
<1>3. AppOrder' = t
  BY <1>2, OrderIs DEF HashState
<1> QED
  BY <1>1, <1>2, <1>3 DEF HashInv

\* At first the list is empty and nothing is allocated.
LEMMA HashInitially ==
    ASSUME Init
    PROVE  HashInv /\ AppOrder = <<>>
<1>1. Linked(<<>>, head, next, prev)
  <2>1. next \in Links /\ prev \in Links /\ head = NULL
    BY DEF Init, Links
  <2> QED
    BY <2>1, LinkedNone
<1>2. AppOrder = <<>>
  BY <1>1, OrderIs
<1>3. Swept(<<>>)
  <2>1. Range(<<>>) = {}
    BY DEF Range
  <2> QED
    BY <2>1 DEF Init, Swept
<1> QED
  BY <1>1, <1>2, <1>3 DEF HashInv, HashState, TableOf, Init

\* So the invariant holds always.
LEMMA HashInvariant == ASSUME Drained PROVE Spec => []HashInv
<1>1. Init => HashInv
  BY HashInitially
<1>2. HashInv /\ [Next]_vars => HashInv'
  BY HashSteps
<1> QED
  BY <1>1, <1>2, PTL DEF Spec

-----------------------------------------------------------------------------
(* Sums over the buckets.  A function over 1 .. n is added up by a recursive  *)
(* function, and what is known of it is known of each of its partial sums.    *)

\* The sum of f over 1 .. n.
Total(f, n) == LET sum[i \in 0 .. n] == IF i = 0 THEN 0 ELSE sum[i - 1] + f[i] IN sum[n]

\* What s says of the partial sums of f.
PartialSums(s, f, n) ==
    /\ s \in [0 .. n -> Nat]
    /\ s[0] = 0
    /\ \A i \in 1 .. n : s[i] = s[i - 1] + f[i]

\* A set of numbers that has 0, and each that follows one of it, has n.
LEMMA Reaches ==
    ASSUME NEW n \in Nat, NEW T, 0 \in T, \A i \in 1 .. n : i - 1 \in T => i \in T
    PROVE  \A i \in 0 .. n : i \in T
<1>. DEFINE M == {i \in 0 .. n : i \notin T}
<1>. SUFFICES ASSUME M # {} PROVE FALSE
  OBVIOUS
<1>1. PICK i \in M : \A j \in M : i <= j
  <2>1. M \subseteq Nat
    OBVIOUS
  <2>. HIDE DEF M
  <2> QED
    BY <2>1, SmallestOf
<1>2. i \in 1 .. n /\ i \notin T
  <2>1. i \in 0 .. n /\ i \notin T
    OBVIOUS
  <2> QED
    BY <2>1
<1>3. i - 1 \in 0 .. n /\ ~ (i <= i - 1)
  BY <1>2
<1> QED
  BY <1>1, <1>2, <1>3

\* What is computed step by step from 0 on.
Iterates(s, g, n) ==
    /\ s \in [0 .. n -> Nat]
    /\ s[0] = 0
    /\ \A i \in 1 .. n : s[i] = g[<<s[i - 1], i>>]

\* Whatever the step, n of them can be made.
LEMMA IterationExists ==
    ASSUME NEW n \in Nat, NEW g \in [Nat \X (1 .. n) -> Nat]
    PROVE  \E s : Iterates(s, g, n)
<1>. DEFINE T == {k \in 0 .. n : \E s : Iterates(s, g, k)}
<1>1. 0 \in T
  <2>. DEFINE s == [i \in 0 .. 0 |-> 0]
  <2>1. s \in [0 .. 0 -> Nat] /\ s[0] = 0 /\ 1 .. 0 = {}
    OBVIOUS
  <2>2. Iterates(s, g, 0)
    BY <2>1 DEF Iterates
  <2> QED
    BY <2>2
<1>2. ASSUME NEW k \in 1 .. n, k - 1 \in T PROVE k \in T
  <2>1. PICK s : Iterates(s, g, k - 1)
    BY <1>2
  <2>. DEFINE v == [i \in 0 .. k |-> IF i < k THEN s[i] ELSE g[<<s[k - 1], k>>]]
  <2>2. /\ k - 1 \in 0 .. k - 1 /\ k \in 0 .. k /\ ~ (k < k) /\ 0 < k /\ 0 \in 0 .. k
        /\ k \in 0 .. n
        /\ \A i \in 0 .. k : i < k => i \in 0 .. k - 1
        /\ \A i \in 1 .. k : i - 1 < k /\ i - 1 \in 0 .. k /\ i \in 0 .. k
                             /\ (i < k => i \in 1 .. k - 1) /\ (i < k \/ i = k)
    OBVIOUS
  <2>3. s \in [0 .. k - 1 -> Nat] /\ s[0] = 0 /\ \A i \in 1 .. k - 1 : s[i] = g[<<s[i - 1], i>>]
    BY <2>1 DEF Iterates
  <2>4. g[<<s[k - 1], k>>] \in Nat
    <3>1. s[k - 1] \in Nat
      BY <2>2, <2>3
    <3> QED
      BY <3>1
  <2>5. v \in [0 .. k -> Nat]
    <3>1. \A i \in 0 .. k : (IF i < k THEN s[i] ELSE g[<<s[k - 1], k>>]) \in Nat
      BY <2>2, <2>3, <2>4
    <3> QED
      BY <3>1
  <2>6. v[0] = 0
    BY <2>2, <2>3
  <2>7. ASSUME NEW i \in 1 .. k PROVE v[i] = g[<<v[i - 1], i>>]
    <3>1. v[i - 1] = s[i - 1]
      BY <2>2
    <3>2. v[i] = IF i < k THEN s[i] ELSE g[<<s[k - 1], k>>]
      BY <2>2
    <3>3. i < k => s[i] = g[<<s[i - 1], i>>]
      BY <2>2, <2>3
    <3>. HIDE DEF v
    <3> QED
      BY <2>2, <3>1, <3>2, <3>3
  <2>. HIDE DEF v
  <2>8. Iterates(v, g, k)
    BY <2>5, <2>6, <2>7 DEF Iterates
  <2> QED
    BY <2>2, <2>8
<1>3. n \in T
  <2>. HIDE DEF T
  <2> QED
    BY <1>1, <1>2, Reaches
<1> QED
  BY <1>3

\* A sum is the last of its partial sums.
LEMMA Summed ==
    ASSUME NEW n \in Nat, NEW f \in [1 .. n -> Nat]
    PROVE  \E s : PartialSums(s, f, n) /\ Total(f, n) = s[n]
<1>. DEFINE g == [p \in Nat \X (1 .. n) |-> p[1] + f[p[2]]]
            Rec(s) == s = [i \in 0 .. n |-> IF i = 0 THEN 0 ELSE s[i - 1] + f[i]]
            sum == CHOOSE s : Rec(s)
<1>1. g \in [Nat \X (1 .. n) -> Nat]
  OBVIOUS
<1>2. PICK v : Iterates(v, g, n)
  <2>. HIDE DEF g
  <2> QED
    BY <1>1, IterationExists
<1>3. Rec(v)
  <2>1. v \in [0 .. n -> Nat] /\ v[0] = 0 /\ \A i \in 1 .. n : v[i] = g[<<v[i - 1], i>>]
    BY <1>2 DEF Iterates
  <2>2. \A i \in 0 .. n : i # 0 => i \in 1 .. n /\ i - 1 \in 0 .. n
    OBVIOUS
  <2>3. \A i \in 0 .. n : i # 0 => v[i] = v[i - 1] + f[i]
    BY <2>1, <2>2
  <2>4. \A i \in 0 .. n : v[i] = IF i = 0 THEN 0 ELSE v[i - 1] + f[i]
    BY <2>1, <2>3
  <2>. HIDE DEF g
  <2>5. v = [i \in 0 .. n |-> v[i]]
    BY <2>1
  <2> QED
    BY <2>4, <2>5, Zenon
<1>4. Rec(sum)
  <2>1. \E s : Rec(s)
    BY <1>3
  <2>. HIDE DEF Rec
  <2> QED
    BY <2>1, Zenon
<1>5. Total(f, n) = sum[n]
  BY Zenon DEF Total
<1>. HIDE DEF sum
<1>6. \A i \in 0 .. n : sum[i] = IF i = 0 THEN 0 ELSE sum[i - 1] + f[i]
  BY <1>4, Zenon
<1>7. sum = [i \in 0 .. n |-> sum[i]]
  BY <1>4
<1>8. /\ sum[0] = 0
      /\ \A i \in 1 .. n : sum[i] = sum[i - 1] + f[i]
  BY <1>6
<1>9. \A i \in 0 .. n : sum[i] \in Nat
  <2>. DEFINE T == {i \in 0 .. n : sum[i] \in Nat}
  <2>1. 0 \in T
    BY <1>8
  <2>2. ASSUME NEW i \in 1 .. n, i - 1 \in T PROVE i \in T
    BY <1>8, <2>2
  <2>. HIDE DEF T
  <2>3. \A i \in 0 .. n : i \in T
    BY <2>1, <2>2, Reaches
  <2> QED
    BY <2>3 DEF T
<1>10. sum \in [0 .. n -> Nat]
  BY <1>7, <1>9
<1>11. PartialSums(sum, f, n)
  BY <1>8, <1>10 DEF PartialSums
<1> QED
  BY <1>5, <1>11

\* What bounds each summand bounds the sum.
LEMMA SumsCompare ==
    ASSUME NEW n \in Nat, NEW f \in [1 .. n -> Nat], NEW g \in [1 .. n -> Nat],
           NEW a \in Nat, NEW e \in Nat, NEW d \in Nat,
           \A i \in 1 .. n : a * f[i] <= e * g[i] + d
    PROVE  /\ Total(f, n) \in Nat /\ Total(g, n) \in Nat
           /\ a * Total(f, n) <= e * Total(g, n) + n * d
<1>1. PICK s : PartialSums(s, f, n) /\ Total(f, n) = s[n]
  BY Summed
<1>2. PICK r : PartialSums(r, g, n) /\ Total(g, n) = r[n]
  BY Summed
<1>3. /\ s \in [0 .. n -> Nat] /\ s[0] = 0 /\ \A i \in 1 .. n : s[i] = s[i - 1] + f[i]
      /\ r \in [0 .. n -> Nat] /\ r[0] = 0 /\ \A i \in 1 .. n : r[i] = r[i - 1] + g[i]
  BY <1>1, <1>2 DEF PartialSums
<1>. DEFINE T == {i \in 0 .. n : a * s[i] <= e * r[i] + i * d}
<1>4. 0 \in T
  BY <1>3
<1>5. ASSUME NEW i \in 1 .. n, i - 1 \in T PROVE i \in T
  <2>1. PICK x \in Nat, y \in Nat, u \in Nat, v \in Nat, j \in Nat :
            x = s[i - 1] /\ y = f[i] /\ u = r[i - 1] /\ v = g[i] /\ j = i - 1
    <3>1. i - 1 \in 0 .. n /\ i - 1 \in Nat
      OBVIOUS
    <3> QED
      BY <1>3, <3>1
  <2>2. a * x <= e * u + j * d
    BY <1>5, <2>1
  <2>3. a * y <= e * v + d
    BY <2>1
  <2>4. /\ a * (x + y) = a * x + a * y
        /\ e * (u + v) = e * u + e * v
        /\ (j + 1) * d = j * d + d
    OBVIOUS
  <2>5. a * x \in Nat /\ a * y \in Nat /\ e * u \in Nat /\ e * v \in Nat /\ j * d \in Nat
    OBVIOUS
  <2>6. a * (x + y) <= e * (u + v) + (j + 1) * d
    BY <2>2, <2>3, <2>4, <2>5
  <2>7. s[i] = x + y /\ r[i] = u + v /\ i = j + 1 /\ i \in 0 .. n
    BY <1>3, <2>1
  <2> QED
    BY <2>6, <2>7
<1>6. \A i \in 0 .. n : i \in T
  <2>. HIDE DEF T
  <2> QED
    BY <1>4, <1>5, Reaches
<1>7. n \in 0 .. n
  OBVIOUS
<1> QED
  BY <1>1, <1>2, <1>3, <1>6, <1>7

-----------------------------------------------------------------------------
(* How long the chains are.  An expansion spreads the items around an ideal  *)
(* length, which is their number over that of the new buckets.  So the       *)
(* bounds need a bound on all the items, and that is the sum of what each    *)
(* bucket takes up.                                                          *)

\* The multiplier of a chain is the least that makes room for its length, up to
\* one: it is enough, and one less would not be.
LEMMA Multiplied ==
    ASSUME NEW length \in Nat, NEW ideal \in Nat \ {0}
    PROVE  /\ Multiplier(length, ideal) \in Nat
           /\ length <= (Multiplier(length, ideal) + 1) * ideal
           /\ Multiplier(length, ideal) * ideal + 1 <= length + ideal
<1>. DEFINE step(m, i) == IF i > ideal /\ i > m * ideal THEN m + 1 ELSE m
            g == [p \in Nat \X (1 .. length) |-> step(p[1], p[2])]
            Rec(s) == s = [i \in 0 .. length |-> IF i = 0 THEN 0 ELSE step(s[i - 1], i)]
            mult == CHOOSE s : Rec(s)
<1>1. g \in [Nat \X (1 .. length) -> Nat]
  OBVIOUS
<1>2. PICK v : Iterates(v, g, length)
  <2>. HIDE DEF g
  <2> QED
    BY <1>1, IterationExists
<1>3. Rec(v)
  <2>1. v \in [0 .. length -> Nat] /\ v[0] = 0
        /\ \A i \in 1 .. length : v[i] = g[<<v[i - 1], i>>]
    BY <1>2 DEF Iterates
  <2>2. \A i \in 0 .. length : i # 0 => i \in 1 .. length /\ i - 1 \in 0 .. length
    OBVIOUS
  <2>3. \A m \in Nat : \A i \in 1 .. length : g[<<m, i>>] = step(m, i)
    BY Zenon
  <2>. HIDE DEF g, step
  <2>4. \A i \in 0 .. length : i # 0 => v[i] = step(v[i - 1], i)
    BY <2>1, <2>2, <2>3
  <2>5. \A i \in 0 .. length : v[i] = IF i = 0 THEN 0 ELSE step(v[i - 1], i)
    BY <2>1, <2>4
  <2>6. v = [i \in 0 .. length |-> v[i]]
    BY <2>1
  <2> QED
    BY <2>5, <2>6, Zenon
<1>4. Rec(mult)
  <2>1. \E s : Rec(s)
    BY <1>3
  <2>. HIDE DEF Rec
  <2> QED
    BY <2>1, Zenon
<1>5. Multiplier(length, ideal) = mult[length]
  BY Zenon DEF Multiplier
<1>. HIDE DEF mult
<1>6. \A i \in 0 .. length : mult[i] = IF i = 0 THEN 0 ELSE step(mult[i - 1], i)
  <2>. HIDE DEF step
  <2> QED
    BY <1>4, Zenon
<1>. DEFINE Right(m, i) == m \in Nat /\ i <= (m + 1) * ideal /\ m * ideal + 1 <= i + ideal
            T == {i \in 0 .. length : Right(mult[i], i)}
<1>7. Right(0, 0)
  OBVIOUS
<1>8. ASSUME NEW m \in Nat, NEW i \in 1 .. length, Right(m, i - 1) PROVE Right(step(m, i), i)
  <2>1. PICK p \in Nat : p = m * ideal
    OBVIOUS
  <2>2. (m + 1) * ideal = p + ideal /\ (m + 1 + 1) * ideal = p + ideal + ideal
    BY <2>1
  <2>3. i - 1 <= p + ideal /\ p + 1 <= i - 1 + ideal
    BY <1>8, <2>1, <2>2
  <2>4. CASE i > ideal /\ i > p
    <3>1. step(m, i) = m + 1
      BY <2>1, <2>4
    <3>2. i <= p + ideal + ideal /\ p + ideal + 1 <= i + ideal
      BY <2>1, <2>3, <2>4
    <3>. HIDE DEF step
    <3> QED
      BY <2>2, <3>1, <3>2
  <2>5. CASE ~ (i > ideal /\ i > p)
    <3>1. step(m, i) = m
      BY <2>1, <2>5
    <3>2. i <= p + ideal /\ p + 1 <= i + ideal
      BY <2>1, <2>3, <2>5
    <3>. HIDE DEF step
    <3> QED
      BY <2>1, <2>2, <3>1, <3>2
  <2> QED
    BY <2>4, <2>5
<1>. HIDE DEF Right, step
<1>9. \A i \in 0 .. length : i \in T
  <2>1. 0 \in T
    BY <1>6, <1>7
  <2>2. ASSUME NEW i \in 1 .. length, i - 1 \in T PROVE i \in T
    <3>1. Right(mult[i - 1], i - 1) /\ i # 0 /\ i \in 0 .. length
      BY <2>2
    <3>2. mult[i - 1] \in Nat
      BY <3>1 DEF Right
    <3>3. mult[i] = step(mult[i - 1], i)
      BY <1>6, <3>1
    <3> QED
      BY <1>8, <3>1, <3>2, <3>3
  <2>. HIDE DEF T
  <2> QED
    BY <2>1, <2>2, Reaches
<1>10. Right(mult[length], length)
  BY <1>9
<1> QED
  BY <1>5, <1>10 DEF Right

\* The lengths of the chains of t.
Lengths(t) == [b \in 1 .. Len(t.buckets) |-> Cardinality(t.buckets[b].chain)]

\* Every item is in one chain.
LEMMA ItemsSummed ==
    ASSUME NEW S \in SUBSET Keys, NEW t, Filed(S, t)
    PROVE  /\ Lengths(t) \in [1 .. Len(t.buckets) -> Nat]
           /\ Total(Lengths(t), Len(t.buckets)) = Cardinality(S)
<1>. DEFINE n == Len(t.buckets)
            f == Lengths(t)
            upto(i) == {k \in S : BucketOf(k, t.buckets) \in 1 .. i}
<1>1. n \in Nat /\ DOMAIN t.buckets = 1 .. n
  BY DEF Filed
<1>2. \A k \in S : BucketOf(k, t.buckets) \in 1 .. n
  BY <1>1, BucketExists
<1>3. \A i \in 1 .. n : t.buckets[i].chain = {k \in S : BucketOf(k, t.buckets) = i}
  BY <1>1 DEF Filed
<1>4. \A R \in SUBSET S : IsFiniteSet(R) /\ Cardinality(R) \in Nat
  BY HashAssumption, FS_Subset, FS_CardinalityType
<1>5. \A i \in 1 .. n : f[i] = Cardinality(t.buckets[i].chain) /\ f[i] \in Nat
  BY <1>3, <1>4 DEF Lengths
<1>6. f \in [1 .. n -> Nat]
  BY <1>5 DEF Lengths
<1>. HIDE DEF f, n
<1>7. PICK s : PartialSums(s, f, n) /\ Total(f, n) = s[n]
  BY <1>1, <1>6, Summed
<1>8. s[0] = 0 /\ \A i \in 1 .. n : s[i] = s[i - 1] + f[i]
  BY <1>7 DEF PartialSums
<1>. DEFINE T == {i \in 0 .. n : s[i] = Cardinality(upto(i))}
<1>9. 0 \in T
  <2>1. upto(0) = {}
    OBVIOUS
  <2>. HIDE DEF upto
  <2>2. s[0] = Cardinality(upto(0)) /\ 0 \in 0 .. n
    BY <1>1, <1>8, <2>1, FS_EmptySet, SMTT(30)
  <2> QED
    BY <2>2
<1>10. ASSUME NEW i \in 1 .. n, i - 1 \in T PROVE i \in T
  <2>. DEFINE A == upto(i - 1)
              B == t.buckets[i].chain
  <2>1. upto(i) = A \cup B /\ A \cap B = {}
    <3>1. \A j \in 1 .. n : (j \in 1 .. i <=> j \in 1 .. i - 1 \/ j = i)
                            /\ (j \in 1 .. i - 1 => j # i)
      BY <1>1
    <3> QED
      BY <1>2, <1>3, <3>1
  <2>2. A \in SUBSET S /\ B \in SUBSET S
    BY <1>3
  <2>. HIDE DEF A, B, upto
  <2>3. Cardinality(A \cup B) = Cardinality(A) + Cardinality(B)
    <3>1. IsFiniteSet(A) /\ IsFiniteSet(B) /\ Cardinality(A) \in Nat /\ Cardinality(B) \in Nat
      BY <1>4, <2>2
    <3>2. Cardinality(A \cup B) = Cardinality(A) + Cardinality(B) - Cardinality(A \cap B)
      BY <3>1, FS_Union
    <3> QED
      BY <2>1, <3>1, <3>2, FS_EmptySet
  <2>4. s[i - 1] = Cardinality(A) /\ f[i] = Cardinality(B)
    BY <1>5, <1>10 DEF A, B
  <2>5. s[i] = Cardinality(upto(i)) /\ i \in 0 .. n
    BY <1>1, <1>8, <2>1, <2>3, <2>4
  <2> QED
    BY <2>5
<1>11. \A i \in 0 .. n : i \in T
  <2>. HIDE DEF T
  <2> QED
    BY <1>1, <1>9, <1>10, Reaches
<1>12. upto(n) = S
  BY <1>2
<1> QED
  BY <1>1, <1>6, <1>7, <1>11, <1>12 DEF f, n

\* How long a bucket's chain may grow before it asks for an expansion.
Allowed(bucket) == (bucket.expand_mult + 1) * Threshold

\* What a bucket takes up: what it may grow to, or its length if that is more.
Weight(bucket) ==
    IF Cardinality(bucket.chain) <= Allowed(bucket) THEN Allowed(bucket)
    ELSE Cardinality(bucket.chain)

Weights(t) == [b \in 1 .. Len(t.buckets) |-> Weight(t.buckets[b])]

\* No chain is longer than twice what its bucket may grow to, and all buckets
\* together take up less than four thresholds for each.
WithinTwice(t) ==
    /\ \A b \in 1 .. Len(t.buckets) :
          Cardinality(t.buckets[b].chain) <= 2 * Allowed(t.buckets[b])
    /\ Total(Weights(t), Len(t.buckets)) < Len(t.buckets) * (4 * Threshold)

\* No chain is longer than its bucket may grow.
Within(t) ==
    \A b \in 1 .. Len(t.buckets) :
        Cardinality(t.buckets[b].chain) <= Allowed(t.buckets[b])

\* At most four times as many collectors as the first table has room for.
FewKeys == Cardinality(Keys) <= 4 * InitialBuckets * Threshold

\* The bounds on the chains of a table.
Bounds(t) ==
    /\ \A b \in 1 .. Len(t.buckets) : t.buckets[b].expand_mult \in Nat
    /\ \/ Len(t.buckets) >= 2 * InitialBuckets
       \/ /\ Len(t.buckets) = InitialBuckets
          /\ \A b \in 1 .. Len(t.buckets) : t.buckets[b].expand_mult = 0
    /\ t.noexpand \/ WithinTwice(t)
    /\ FewKeys => t.noexpand \/ Within(t)

\* The ideal length of l chains with n items, as HASH_EXPAND_BUCKETS has it.
Ideal(n, l) == (n \div l) + (IF n % l # 0 THEN 1 ELSE 0)

\* It is the quotient rounded up: the least length that is enough.
LEMMA RoundedUp ==
    ASSUME NEW n \in Nat \ {0}, NEW l \in Nat \ {0}
    PROVE  /\ Ideal(n, l) \in Nat \ {0} /\ n <= l * Ideal(n, l)
           /\ \A most \in Nat : n <= l * most => Ideal(n, l) <= most
<1>. DEFINE q == n \div l
            r == n % l
            ideal == Ideal(n, l)
<1>1. q \in Nat /\ r \in 0 .. l - 1 /\ n = l * q + r
  OBVIOUS
<1>2. ideal = q + (IF r # 0 THEN 1 ELSE 0)
  BY DEF Ideal
<1>. HIDE DEF q, r, ideal
<1>3. l * (q + 1) = l * q + l /\ l * q \in Nat
  BY <1>1
<1>4. ideal \in Nat \ {0}
  <2>1. q = 0 => l * q = 0
    BY <1>1
  <2>2. q = 0 => r # 0
    BY <1>1, <2>1
  <2>3. r # 0 => ideal = q + 1
    BY <1>2
  <2>4. r = 0 => ideal = q
    BY <1>1, <1>2
  <2> QED
    BY <1>1, <2>2, <2>3, <2>4
<1>5. n <= l * ideal
  <2>1. CASE r = 0
    BY <1>1, <1>2, <1>3, <2>1
  <2>2. CASE r # 0
    BY <1>1, <1>2, <1>3, <2>2
  <2> QED
    BY <2>1, <2>2
<1>6. ASSUME NEW most \in Nat, n <= l * most PROVE ideal <= most
  <2>1. ASSUME NEW m \in Nat, m <= q PROVE l * m <= l * q
    BY <1>1, <2>1
  <2>2. CASE r = 0
    <3>1. SUFFICES ASSUME most < q PROVE FALSE
      BY <1>1, <1>2, <2>2
    <3>2. most + 1 <= q /\ l * (most + 1) = l * most + l
      BY <1>1, <3>1
    <3>3. l * (most + 1) <= l * q
      BY <2>1, <3>2
    <3>4. l * most \in Nat
      OBVIOUS
    <3> QED
      BY <1>1, <1>3, <1>6, <3>2, <3>3, <3>4
  <2>3. CASE r # 0
    <3>1. SUFFICES ASSUME most <= q PROVE FALSE
      BY <1>1, <1>2, <2>3
    <3>2. l * most <= l * q
      BY <2>1, <3>1
    <3>3. l * most \in Nat
      OBVIOUS
    <3> QED
      BY <1>1, <1>3, <1>6, <2>3, <3>2, <3>3
  <2> QED
    BY <2>2, <2>3
<1> QED
  BY <1>4, <1>5, <1>6 DEF ideal

\* What an expansion makes of a bucket with an ideal length.
Moved(bucket, ideal) ==
    /\ bucket.expand_mult \in Nat
    /\ Cardinality(bucket.chain) <= (bucket.expand_mult + 1) * ideal
    /\ bucket.expand_mult * ideal + 1 <= Cardinality(bucket.chain) + ideal

\* An expansion spreads n items over twice the buckets, around an ideal length.
LEMMA Spread ==
    ASSUME NEW S \in SUBSET Keys, NEW t, Filed(S, t),
           t.num_items = Cardinality(S), Cardinality(S) # 0
    PROVE  /\ Len(Expand(t).buckets) = 2 * Len(t.buckets)
           /\ Expand(t).noexpand \/ ~t.noexpand
           /\ \E ideal \in Nat \ {0} :
                 /\ Cardinality(S) <= 2 * Len(t.buckets) * ideal
                 /\ \A most \in Nat :
                       Cardinality(S) <= 2 * Len(t.buckets) * most => ideal <= most
                 /\ \A b \in 1 .. 2 * Len(t.buckets) : Moved(Expand(t).buckets[b], ideal)
<1>. DEFINE old == Len(t.buckets)
            new == 2 * old
            u == Expand(t)
            n == t.num_items
            ideal == Ideal(n, new)
            chain(b) == {k \in t.buckets[((b - 1) % old) + 1].chain : (Hash[k] % (2 * old)) + 1 = b}
<1>1. old \in Nat \ {0} /\ new \in Nat \ {0}
  BY DEF Filed
<1>2. IsFiniteSet(S) /\ Cardinality(S) \in Nat
  BY HashAssumption, FS_Subset, FS_CardinalityType
<1>3. /\ ideal \in Nat \ {0} /\ n <= new * ideal
      /\ \A most \in Nat : n <= new * most => ideal <= most
  <2>1. n \in Nat \ {0}
    BY <1>2
  <2>. HIDE DEF n, new
  <2> QED
    BY <1>1, <2>1, RoundedUp
<1>4. u.buckets = [b \in 1 .. new |->
            [chain |-> chain(b), expand_mult |-> Multiplier(Cardinality(chain(b)), ideal)]]
  BY DEF Expand, Filed, Ideal
<1>5. u.noexpand \/ ~t.noexpand
  <2>1. PICK bs, i : u = [t EXCEPT !.buckets = bs, !.ineff_expands = i, !.noexpand = @ \/ i > 1]
    BY Zenon DEF Expand
  <2>2. u.noexpand = (t.noexpand \/ i > 1)
    BY <2>1, Zenon DEF Filed
  <2> QED
    BY <2>2, Zenon
<1>6. Filed(S, u)
  BY ExpandFiles
<1>. HIDE DEF u, ideal, chain
<1>7. DOMAIN u.buckets = 1 .. new /\ u.buckets = [b \in 1 .. new |-> u.buckets[b]]
  BY <1>4
<1>8. Len(u.buckets) = new
  BY <1>1, <1>7, LenOfFunction
<1>9. ASSUME NEW b \in 1 .. new PROVE Moved(u.buckets[b], ideal)
  <2>1. /\ u.buckets[b].chain = chain(b)
        /\ u.buckets[b].expand_mult = Multiplier(Cardinality(chain(b)), ideal)
    BY <1>4
  <2>2. chain(b) \subseteq S
    <3>1. u.buckets[b].chain = {k \in S : BucketOf(k, u.buckets) = b}
      BY <1>6, <1>7 DEF Filed
    <3> QED
      BY <2>1, <3>1
  <2>3. Cardinality(chain(b)) \in Nat
    BY <1>2, <2>2, FS_Subset, FS_CardinalityType
  <2> QED
    BY <1>3, <2>1, <2>3, Multiplied DEF Moved
<1> QED
  BY <1>3, <1>5, <1>8, <1>9 DEF u

\* A product with a smaller factor is smaller.
LEMMA Times ==
    ASSUME NEW a \in Nat, NEW b \in Nat, NEW c \in Nat, a <= b
    PROVE  a * c \in Nat /\ b * c \in Nat /\ a * c <= b * c
<1>1. PICK d \in Nat : b = a + d
  <2>1. b - a \in Nat /\ b = a + (b - a)
    OBVIOUS
  <2> QED
    BY <2>1
<1>2. (a + d) * c = a * c + d * c
  OBVIOUS
<1>3. a * c \in Nat /\ d * c \in Nat
  OBVIOUS
<1> QED
  BY <1>1, <1>2, <1>3

\* Lengths and weights are numbers, and the weight is the greater of two.
LEMMA Weighed ==
    ASSUME NEW S \in SUBSET Keys, NEW t, Filed(S, t),
           \A b \in 1 .. Len(t.buckets) : t.buckets[b].expand_mult \in Nat
    PROVE  /\ Lengths(t) \in [1 .. Len(t.buckets) -> Nat]
           /\ Weights(t) \in [1 .. Len(t.buckets) -> Nat]
           /\ \A b \in 1 .. Len(t.buckets) :
                 /\ Lengths(t)[b] = Cardinality(t.buckets[b].chain)
                 /\ Allowed(t.buckets[b]) \in Nat \ {0}
                 /\ Lengths(t)[b] <= Weights(t)[b]
                 /\ Weights(t)[b] = IF Lengths(t)[b] <= Allowed(t.buckets[b])
                                    THEN Allowed(t.buckets[b]) ELSE Lengths(t)[b]
<1>. DEFINE n == Len(t.buckets)
<1>1. Lengths(t) \in [1 .. n -> Nat]
  BY ItemsSummed
<1>2. \A b \in 1 .. n : Lengths(t)[b] = Cardinality(t.buckets[b].chain)
  BY DEF Lengths
<1>3. ASSUME NEW b \in 1 .. n PROVE Allowed(t.buckets[b]) \in Nat \ {0}
  <2>1. PICK m \in Nat \ {0} : m = t.buckets[b].expand_mult + 1
    OBVIOUS
  <2>2. Threshold \in Nat \ {0}
    BY HashAssumption
  <2>3. m * Threshold \in Nat \ {0}
    BY <2>2
  <2> QED
    BY <2>1, <2>3 DEF Allowed
<1>4. \A b \in 1 .. n :
          Weights(t)[b] = IF Lengths(t)[b] <= Allowed(t.buckets[b])
                          THEN Allowed(t.buckets[b]) ELSE Lengths(t)[b]
  BY <1>2 DEF Weights, Weight
<1>5. ASSUME NEW b \in 1 .. n PROVE Weights(t)[b] \in Nat /\ Lengths(t)[b] <= Weights(t)[b]
  <2>1. Lengths(t)[b] \in Nat /\ Allowed(t.buckets[b]) \in Nat
    BY <1>1, <1>3
  <2> QED
    BY <1>4, <2>1
<1>6. Weights(t) \in [1 .. n -> Nat]
  <2>1. Weights(t) = [b \in 1 .. n |-> Weights(t)[b]]
    BY DEF Weights
  <2> QED
    BY <1>5, <2>1
<1> QED
  BY <1>1, <1>2, <1>3, <1>4, <1>5, <1>6

\* The multipliers of t.
Multipliers(t) == [b \in 1 .. Len(t.buckets) |-> t.buckets[b].expand_mult]

\* After an expansion around an ideal length of at most the threshold, the buckets
\* take up less than three thresholds each.
LEMMA SpreadThin ==
    ASSUME NEW S \in SUBSET Keys, NEW u, Filed(S, u),
           NEW ideal \in Nat \ {0}, ideal <= Threshold,
           Cardinality(S) <= Len(u.buckets) * ideal,
           \A b \in 1 .. Len(u.buckets) : Moved(u.buckets[b], ideal)
    PROVE  Total(Weights(u), Len(u.buckets)) < Len(u.buckets) * (4 * Threshold)
<1>. DEFINE L == Len(u.buckets)
            c == Lengths(u)
            w == Weights(u)
            m == Multipliers(u)
<1>1. L \in Nat \ {0} /\ Threshold \in Nat \ {0}
  BY HashAssumption DEF Filed
<1>2. /\ c \in [1 .. L -> Nat] /\ w \in [1 .. L -> Nat]
      /\ \A b \in 1 .. L :
            /\ c[b] = Cardinality(u.buckets[b].chain)
            /\ w[b] = IF c[b] <= Allowed(u.buckets[b]) THEN Allowed(u.buckets[b]) ELSE c[b]
  BY Weighed DEF Moved
<1>3. /\ m \in [1 .. L -> Nat]
      /\ \A b \in 1 .. L : m[b] = u.buckets[b].expand_mult
  BY DEF Moved, Multipliers
<1>4. Total(c, L) = Cardinality(S)
  BY ItemsSummed
<1>. HIDE DEF c, w, m, L
<1>5. ASSUME NEW b \in 1 .. L PROVE 1 * w[b] <= Threshold * m[b] + Threshold
  <2>1. PICK i \in Nat : i = m[b]
    BY <1>3
  <2>2. c[b] <= (i + 1) * ideal /\ c[b] \in Nat
    BY <1>2, <1>3, <2>1 DEF Moved, L
  <2>3. ideal * (i + 1) <= Threshold * (i + 1) /\ ideal * (i + 1) \in Nat
        /\ Threshold * (i + 1) \in Nat
    <3>1. PICK j \in Nat : j = i + 1
      OBVIOUS
    <3>2. ideal \in Nat /\ Threshold \in Nat
      BY <1>1
    <3>3. ideal * j \in Nat /\ Threshold * j \in Nat /\ ideal * j <= Threshold * j
      BY <3>2, Times
    <3> QED
      BY <3>1, <3>3
  <2>4. ideal * (i + 1) = (i + 1) * ideal /\ Threshold * (i + 1) = (i + 1) * Threshold
        /\ Threshold * (i + 1) = Threshold * i + Threshold
    BY <1>1
  <2>5. Allowed(u.buckets[b]) = (i + 1) * Threshold
    BY <1>3, <2>1 DEF Allowed
  <2>6. w[b] = (i + 1) * Threshold
    BY <1>2, <2>2, <2>3, <2>4, <2>5
  <2> QED
    BY <2>1, <2>3, <2>4, <2>6
<1>6. ASSUME NEW b \in 1 .. L PROVE ideal * m[b] <= 1 * c[b] + (ideal - 1)
  <2>1. PICK i \in Nat : i = m[b]
    BY <1>3
  <2>2. i * ideal + 1 <= c[b] + ideal /\ c[b] \in Nat
    BY <1>2, <1>3, <2>1 DEF Moved, L
  <2>3. i * ideal = ideal * i /\ i * ideal \in Nat
    OBVIOUS
  <2> QED
    BY <2>1, <2>2, <2>3
<1>7. PICK x \in Nat, y \in Nat, z \in Nat : x = Total(w, L) /\ y = Total(m, L) /\ z = Total(c, L)
      /\ 1 * x <= Threshold * y + L * Threshold
      /\ ideal * y <= 1 * z + L * (ideal - 1)
  <2>1. Threshold \in Nat /\ 1 \in Nat /\ L \in Nat /\ ideal - 1 \in Nat /\ ideal \in Nat
    BY <1>1
  <2>2. /\ Total(w, L) \in Nat /\ Total(m, L) \in Nat
        /\ 1 * Total(w, L) <= Threshold * Total(m, L) + L * Threshold
    BY <1>2, <1>3, <1>5, <2>1, SumsCompare
  <2>3. /\ Total(c, L) \in Nat
        /\ ideal * Total(m, L) <= 1 * Total(c, L) + L * (ideal - 1)
    BY <1>2, <1>3, <1>6, <2>1, SumsCompare
  <2> QED
    BY <2>2, <2>3
<1>8. y < 2 * L
  <2>1. z <= L * ideal
    BY <1>4, <1>7 DEF L
  <2>2. L * (ideal - 1) = L * ideal - L
    BY <1>1
  <2>3. L * ideal \in Nat /\ ideal * y \in Nat
    BY <1>1
  <2>4. ideal * y < 2 * (L * ideal)
    BY <1>1, <1>7, <2>1, <2>2, <2>3, SMTT(30)
  <2>5. 2 * L <= y => (2 * L) * ideal <= y * ideal
    BY <1>1, Times
  <2>6. (2 * L) * ideal = 2 * (L * ideal) /\ y * ideal = ideal * y
    BY <1>1
  <2> QED
    BY <1>1, <2>3, <2>4, <2>5, <2>6
<1>9. x < L * (4 * Threshold)
  <2>1. y * Threshold <= (2 * L) * Threshold
    BY <1>1, <1>8, Times
  <2>2. /\ Threshold * y = y * Threshold /\ (2 * L) * Threshold = 2 * (L * Threshold)
        /\ L * (4 * Threshold) = 4 * (L * Threshold)
    BY <1>1
  <2>3. L * Threshold \in Nat \ {0} /\ y * Threshold \in Nat
    BY <1>1
  <2> QED
    BY <1>7, <2>1, <2>2, <2>3, SMTT(30)
<1> QED
  BY <1>7, <1>9 DEF w, L

\* And so they do around a longer one, of at most two thresholds.
LEMMA SpreadThick ==
    ASSUME NEW S \in SUBSET Keys, NEW u, Filed(S, u),
           NEW ideal \in Nat \ {0}, Threshold <= ideal,
           Cardinality(S) <= Len(u.buckets) * (2 * Threshold),
           \A b \in 1 .. Len(u.buckets) : Moved(u.buckets[b], ideal)
    PROVE  Total(Weights(u), Len(u.buckets)) < Len(u.buckets) * (4 * Threshold)
<1>. DEFINE L == Len(u.buckets)
            c == Lengths(u)
            w == Weights(u)
<1>1. L \in Nat \ {0} /\ Threshold \in Nat \ {0}
  BY HashAssumption DEF Filed
<1>2. /\ c \in [1 .. L -> Nat] /\ w \in [1 .. L -> Nat]
      /\ \A b \in 1 .. L :
            /\ c[b] = Cardinality(u.buckets[b].chain)
            /\ w[b] = IF c[b] <= Allowed(u.buckets[b]) THEN Allowed(u.buckets[b]) ELSE c[b]
  BY Weighed DEF Moved
<1>3. Total(c, L) = Cardinality(S)
  BY ItemsSummed
<1>. HIDE DEF c, w, L
<1>4. ASSUME NEW b \in 1 .. L PROVE 1 * w[b] <= 1 * c[b] + (2 * Threshold - 1)
  <2>1. PICK i \in Nat : i = u.buckets[b].expand_mult
    BY DEF Moved, L
  <2>2. i * ideal + 1 <= c[b] + ideal /\ c[b] \in Nat
    BY <1>2, <2>1 DEF Moved, L
  <2>3. Allowed(u.buckets[b]) = (i + 1) * Threshold
    BY <2>1 DEF Allowed
  <2>4. (i + 1) * Threshold <= c[b] + (2 * Threshold - 1)
    <3>1. CASE i = 0
      <4>1. (0 + 1) * Threshold = Threshold
        BY <1>1
      <4> QED
        BY <1>1, <2>2, <3>1, <4>1
    <3>2. CASE i # 0
      <4>1. PICK j \in Nat : i = j + 1
        <5>1. i - 1 \in Nat /\ i = (i - 1) + 1
          BY <3>2
        <5> QED
          BY <5>1
      <4>2. (j + 1) * ideal = j * ideal + ideal /\ j * ideal \in Nat
        BY <4>1
      <4>3. j * ideal + 1 <= c[b]
        BY <2>2, <4>1, <4>2
      <4>4. Threshold * j <= ideal * j /\ Threshold * j \in Nat
        BY <1>1, Times
      <4>5. ideal * j = j * ideal /\ (j + 1 + 1) * Threshold = Threshold * j + 2 * Threshold
        BY <1>1
      <4> QED
        BY <1>1, <2>2, <4>1, <4>2, <4>3, <4>4, <4>5, SMTT(30)
    <3> QED
      BY <3>1, <3>2
  <2>5. (i + 1) * Threshold \in Nat
    BY <1>1
  <2>6. w[b] = IF c[b] <= (i + 1) * Threshold THEN (i + 1) * Threshold ELSE c[b]
    BY <1>2, <2>3
  <2>7. w[b] <= c[b] + (2 * Threshold - 1) /\ w[b] \in Nat
    BY <1>1, <2>2, <2>4, <2>5, <2>6
  <2> QED
    BY <2>2, <2>7
<1>5. PICK x \in Nat, z \in Nat : x = Total(w, L) /\ z = Total(c, L)
      /\ 1 * x <= 1 * z + L * (2 * Threshold - 1)
  <2>1. 1 \in Nat /\ L \in Nat /\ 2 * Threshold - 1 \in Nat
    BY <1>1
  <2>2. /\ Total(w, L) \in Nat /\ Total(c, L) \in Nat
        /\ 1 * Total(w, L) <= 1 * Total(c, L) + L * (2 * Threshold - 1)
    BY <1>2, <1>4, <2>1, SumsCompare
  <2> QED
    BY <2>2
<1>6. x < L * (4 * Threshold)
  <2>1. z <= L * (2 * Threshold)
    BY <1>3, <1>5 DEF L
  <2>2. /\ L * (2 * Threshold - 1) = 2 * (L * Threshold) - L
        /\ L * (2 * Threshold) = 2 * (L * Threshold)
        /\ L * (4 * Threshold) = 4 * (L * Threshold)
    BY <1>1
  <2>3. L * Threshold \in Nat
    BY <1>1
  <2> QED
    BY <1>1, <1>5, <2>1, <2>2, <2>3
<1> QED
  BY <1>5, <1>6 DEF w, L

\* So an expansion keeps the bounds, if there are not too many items for it.
LEMMA ExpandBounded ==
    ASSUME NEW S \in SUBSET Keys, NEW t, Filed(S, t),
           t.num_items = Cardinality(S), Cardinality(S) # 0,
           Len(t.buckets) >= InitialBuckets,
           Cardinality(S) <= Len(t.buckets) * (4 * Threshold),
           FewKeys => Cardinality(S) <= Len(t.buckets) * (2 * Threshold)
    PROVE  Bounds(Expand(t))
<1>1. PICK u : u = Expand(t)
  OBVIOUS
<1>2. PICK L \in Nat \ {0} : L = 2 * Len(t.buckets) /\ L >= 2 * InitialBuckets
  BY HashAssumption DEF Filed
<1>3. Filed(S, u) /\ Len(u.buckets) = L
  <2>1. Filed(S, u)
    BY <1>1, ExpandFiles
  <2>2. Len(u.buckets) = L
    BY <1>1, <1>2, Spread
  <2> QED
    BY <2>1, <2>2
<1>4. PICK ideal \in Nat \ {0} :
          /\ Cardinality(S) <= L * ideal
          /\ \A most \in Nat : Cardinality(S) <= L * most => ideal <= most
          /\ \A b \in 1 .. L : Moved(u.buckets[b], ideal)
  BY <1>1, <1>2, Spread
<1>5. Threshold \in Nat \ {0} /\ InitialBuckets \in Nat \ {0} /\ 2 * Threshold \in Nat
  BY HashAssumption
<1>6. /\ Len(t.buckets) * (4 * Threshold) = L * (2 * Threshold)
      /\ Len(t.buckets) * (2 * Threshold) = L * Threshold
  <2>1. PICK l \in Nat : l = Len(t.buckets)
    BY DEF Filed
  <2>2. /\ l * (4 * Threshold) = (2 * l) * (2 * Threshold)
        /\ l * (2 * Threshold) = (2 * l) * Threshold
    BY <1>5
  <2> QED
    BY <1>2, <2>1, <2>2
<1>7. ideal <= 2 * Threshold /\ (FewKeys => ideal <= Threshold)
  BY <1>4, <1>5, <1>6
<1>8. ASSUME NEW b \in 1 .. L
      PROVE  /\ u.buckets[b].expand_mult \in Nat
             /\ Cardinality(u.buckets[b].chain) <= 2 * Allowed(u.buckets[b])
             /\ FewKeys => Cardinality(u.buckets[b].chain) <= Allowed(u.buckets[b])
  <2>0. Moved(u.buckets[b], ideal)
    BY <1>4, <1>8, Zenon
  <2>1. PICK m \in Nat : m = u.buckets[b].expand_mult + 1
    BY <2>0 DEF Moved
  <2>2. PICK c \in Nat : c = Cardinality(u.buckets[b].chain)
    <3>1. Lengths(u) \in [1 .. L -> Nat]
      BY <1>3, ItemsSummed
    <3>2. Lengths(u)[b] = Cardinality(u.buckets[b].chain)
      BY <1>3 DEF Lengths
    <3> QED
      BY <3>1, <3>2
  <2>3. c <= m * ideal /\ m * ideal = ideal * m /\ ideal * m \in Nat
    <3>1. c <= m * ideal
      BY <1>4, <2>1, <2>2, Zenon DEF Moved
    <3>2. m * ideal = ideal * m /\ ideal * m \in Nat
      OBVIOUS
    <3> QED
      BY <3>1, <3>2
  <2>4. Allowed(u.buckets[b]) = Threshold * m /\ Threshold * m \in Nat
    BY <1>5, <2>1 DEF Allowed
  <2>5. ideal * m <= (2 * Threshold) * m
    <3>1. ideal \in Nat
      OBVIOUS
    <3> QED
      BY <1>5, <1>7, <3>1, Times
  <2>6. FewKeys => ideal * m <= Threshold * m
    <3>1. ideal \in Nat /\ Threshold \in Nat
      BY <1>5
    <3> QED
      BY <1>7, <3>1, Times
  <2>7. (2 * Threshold) * m = 2 * (Threshold * m)
    BY <1>5
  <2>8. u.buckets[b].expand_mult \in Nat
    BY <1>4 DEF Moved
  <2> QED
    BY <2>2, <2>3, <2>4, <2>5, <2>6, <2>7, <2>8
<1>9. Total(Weights(u), L) < L * (4 * Threshold)
  <2>1. CASE ideal <= Threshold
    BY <1>3, <1>4, <2>1, SpreadThin
  <2>2. CASE Threshold <= ideal
    BY <1>3, <1>4, <1>6, <2>2, SpreadThick
  <2>3. ideal <= Threshold \/ Threshold <= ideal
    BY <1>5
  <2> QED
    BY <2>1, <2>2, <2>3
<1>10. WithinTwice(u) /\ (FewKeys => Within(u))
  BY <1>3, <1>8, <1>9 DEF WithinTwice, Within
<1> QED
  BY <1>1, <1>2, <1>3, <1>8, <1>10 DEF Bounds

\* A table with room for its items has few enough of them for one more.
LEMMA RoomLeft ==
    ASSUME NEW S \in SUBSET Keys, NEW t, Filed(S, t), Bounds(t), ~t.noexpand,
           NEW k \in Keys, k \notin S
    PROVE  /\ Cardinality(S \cup {k}) = Cardinality(S) + 1 /\ Cardinality(S) \in Nat
           /\ Cardinality(S) + 1 <= Len(t.buckets) * (4 * Threshold)
           /\ FewKeys => Cardinality(S) + 1 <= Len(t.buckets) * (2 * Threshold)
<1>. DEFINE L == Len(t.buckets)
            c == Lengths(t)
            w == Weights(t)
<1>1. L \in Nat \ {0} /\ Threshold \in Nat \ {0} /\ InitialBuckets \in Nat \ {0}
  BY HashAssumption DEF Filed
<1>2. \A b \in 1 .. L : t.buckets[b].expand_mult \in Nat
  BY DEF Bounds
<1>3. /\ c \in [1 .. L -> Nat] /\ w \in [1 .. L -> Nat]
      /\ \A b \in 1 .. L : c[b] = Cardinality(t.buckets[b].chain) /\ c[b] <= w[b]
  BY <1>2, Weighed
<1>4. Total(c, L) = Cardinality(S)
  BY ItemsSummed
<1>5. /\ Cardinality(S \cup {k}) = Cardinality(S) + 1 /\ Cardinality(S) \in Nat
      /\ Cardinality(S \cup {k}) <= Cardinality(Keys) /\ Cardinality(Keys) \in Nat
  <2>1. IsFiniteSet(Keys) /\ IsFiniteSet(S)
    BY HashAssumption, FS_Subset
  <2>2. Cardinality(S \cup {k}) = Cardinality(S) + 1
    BY <2>1, FS_AddElement
  <2>3. S \cup {k} \in SUBSET Keys
    OBVIOUS
  <2> QED
    BY <2>1, <2>2, <2>3, FS_Subset, FS_CardinalityType
<1>6. Total(w, L) < L * (4 * Threshold)
  BY DEF Bounds, WithinTwice
<1>. HIDE DEF c, w, L
<1>7. Cardinality(S) <= Total(w, L) /\ Total(w, L) \in Nat
  <2>1. \A b \in 1 .. L : 1 * c[b] <= 1 * w[b] + 0
    BY <1>3
  <2>2. /\ Total(c, L) \in Nat /\ Total(w, L) \in Nat
        /\ 1 * Total(c, L) <= 1 * Total(w, L) + L * 0
    <3>1. 1 \in Nat /\ 0 \in Nat /\ L \in Nat
      BY <1>1
    <3> QED
      BY <1>3, <2>1, <3>1, SumsCompare
  <2> QED
    BY <1>1, <1>4, <2>2
<1>8. Cardinality(S) + 1 <= L * (4 * Threshold)
  <2>1. L * (4 * Threshold) \in Nat
    BY <1>1
  <2> QED
    BY <1>5, <1>6, <1>7, <2>1
<1>9. ASSUME FewKeys, L >= 2 * InitialBuckets
      PROVE  Cardinality(S) + 1 <= L * (2 * Threshold)
  <2>1. Cardinality(S) + 1 <= 4 * InitialBuckets * Threshold
    BY <1>1, <1>5, <1>9 DEF FewKeys
  <2>2. (2 * InitialBuckets) * (2 * Threshold) <= L * (2 * Threshold)
    <3>1. 2 * InitialBuckets \in Nat /\ 2 * Threshold \in Nat /\ L \in Nat
          /\ 2 * InitialBuckets <= L
      BY <1>1, <1>9
    <3> QED
      BY <3>1, Times
  <2>3. (2 * InitialBuckets) * (2 * Threshold) = 4 * InitialBuckets * Threshold
    BY <1>1
  <2>4. L * (2 * Threshold) \in Nat /\ 4 * InitialBuckets * Threshold \in Nat
    BY <1>1
  <2> QED
    BY <1>5, <2>1, <2>2, <2>3, <2>4
<1>10. ASSUME FewKeys, \A b \in 1 .. L : t.buckets[b].expand_mult = 0
       PROVE  Cardinality(S) + 1 <= L * (2 * Threshold)
  <2>1. Within(t)
    BY <1>10 DEF Bounds, L
  <2>2. ASSUME NEW b \in 1 .. L PROVE 1 * c[b] <= 0 * w[b] + Threshold
    <3>1. c[b] <= (0 + 1) * Threshold
      BY <1>3, <1>10, <2>1 DEF Within, Allowed, L
    <3>2. c[b] \in Nat /\ w[b] \in Nat
      BY <1>3
    <3> QED
      BY <1>1, <3>1, <3>2
  <2>3. 1 * Total(c, L) <= 0 * Total(w, L) + L * Threshold
    <3>1. 1 \in Nat /\ 0 \in Nat /\ L \in Nat /\ Threshold \in Nat
      BY <1>1
    <3> QED
      BY <1>3, <2>2, <3>1, SumsCompare
  <2>4. L * Threshold \in Nat \ {0} /\ L * (2 * Threshold) = 2 * (L * Threshold)
    BY <1>1
  <2> QED
    BY <1>4, <1>5, <1>7, <2>3, <2>4
<1> QED
  BY <1>5, <1>8, <1>9, <1>10 DEF Bounds, L

\* The bounds are about the buckets and noexpand only.
LEMMA BoundsOf ==
    ASSUME NEW t, NEW u, u.buckets = t.buckets, u.noexpand = t.noexpand, Bounds(t)
    PROVE  Bounds(u)
<1>1. Weights(u) = Weights(t)
  BY DEF Weights
<1> QED
  BY <1>1, Zenon DEF Bounds, Within, WithinTwice

\* The table u is t with another chain in the bucket B.
ChangedIn(u, t, B, ch) ==
    /\ Len(u.buckets) = Len(t.buckets) /\ u.noexpand = t.noexpand
    /\ u.num_items = t.num_items
    /\ \A b \in 1 .. Len(t.buckets) :
          /\ u.buckets[b].expand_mult = t.buckets[b].expand_mult
          /\ u.buckets[b].chain = IF b = B THEN ch ELSE t.buckets[b].chain

\* One chain is changed, and nothing else of a table.
LEMMA OnlyChain ==
    ASSUME NEW S \in SUBSET Keys, NEW t, Filed(S, t), NEW B \in DOMAIN t.buckets,
           NEW ch, NEW u, u = WithChain(t, B, ch)
    PROVE  ChangedIn(u, t, B, ch)
<1>. DEFINE n == Len(t.buckets)
<1>1. n \in Nat \ {0} /\ DOMAIN t.buckets = 1 .. n /\ B \in 1 .. n
      /\ \A b \in 1 .. n : DOMAIN t.buckets[b] = {"chain", "expand_mult"}
  BY DEF Filed
<1>2. /\ u.num_items = t.num_items /\ u.noexpand = t.noexpand
      /\ u.buckets = [t.buckets EXCEPT ![B] = [t.buckets[B] EXCEPT !.chain = ch]]
  BY DEF Filed, WithChain
<1>3. /\ DOMAIN u.buckets = 1 .. n
      /\ u.buckets = [b \in 1 .. n |-> u.buckets[b]]
      /\ \A b \in 1 .. n : u.buckets[b] = IF b = B THEN [t.buckets[B] EXCEPT !.chain = ch]
                                           ELSE t.buckets[b]
  BY <1>1, <1>2
<1>4. Len(u.buckets) = n
  BY <1>1, <1>3, LenOfFunction
<1>5. [t.buckets[B] EXCEPT !.chain = ch].chain = ch
      /\ [t.buckets[B] EXCEPT !.chain = ch].expand_mult = t.buckets[B].expand_mult
  BY <1>1
<1> QED
  BY <1>2, <1>3, <1>4, <1>5 DEF ChangedIn

\* Bounds are kept where every chain gets shorter or stays below what is allowed.
LEMMA BoundsKept ==
    ASSUME NEW S \in SUBSET Keys, NEW t, Filed(S, t), Bounds(t),
           NEW R \in SUBSET Keys, NEW u, Filed(R, u),
           Len(u.buckets) = Len(t.buckets), u.noexpand = t.noexpand,
           \A b \in 1 .. Len(t.buckets) :
              /\ u.buckets[b].expand_mult = t.buckets[b].expand_mult
              /\ \/ t.noexpand
                 \/ Cardinality(u.buckets[b].chain) <= Cardinality(t.buckets[b].chain)
                 \/ Cardinality(u.buckets[b].chain) <= Allowed(t.buckets[b])
    PROVE  Bounds(u)
<1>1. PICK L \in Nat : L = Len(t.buckets)
  BY DEF Filed
<1>2. \A b \in 1 .. L : u.buckets[b].expand_mult \in Nat /\ t.buckets[b].expand_mult \in Nat
  BY <1>1 DEF Bounds
<1>3. \A b \in 1 .. L : Allowed(u.buckets[b]) = Allowed(t.buckets[b])
  BY <1>1 DEF Allowed
<1>. SUFFICES ASSUME ~t.noexpand
              PROVE  WithinTwice(u) /\ (Within(t) => Within(u))
  BY <1>1 DEF Bounds
<1>4. /\ Lengths(t) \in [1 .. L -> Nat] /\ Weights(t) \in [1 .. L -> Nat]
      /\ \A b \in 1 .. L :
            /\ Lengths(t)[b] = Cardinality(t.buckets[b].chain)
            /\ Allowed(t.buckets[b]) \in Nat
            /\ Weights(t)[b] = IF Lengths(t)[b] <= Allowed(t.buckets[b])
                               THEN Allowed(t.buckets[b]) ELSE Lengths(t)[b]
  BY <1>1, <1>2, Weighed
<1>5. /\ Lengths(u) \in [1 .. L -> Nat] /\ Weights(u) \in [1 .. L -> Nat]
      /\ \A b \in 1 .. L :
            /\ Lengths(u)[b] = Cardinality(u.buckets[b].chain)
            /\ Weights(u)[b] = IF Lengths(u)[b] <= Allowed(u.buckets[b])
                               THEN Allowed(u.buckets[b]) ELSE Lengths(u)[b]
  BY <1>1, <1>2, Weighed, ZenonT(60)
<1>6. ASSUME NEW b \in 1 .. L
      PROVE  /\ Lengths(u)[b] <= Lengths(t)[b] \/ Lengths(u)[b] <= Allowed(t.buckets[b])
             /\ Lengths(u)[b] \in Nat /\ Lengths(t)[b] \in Nat
             /\ Weights(u)[b] \in Nat /\ Weights(t)[b] \in Nat
             /\ Weights(u)[b] <= Weights(t)[b]
  <2>1. Lengths(u)[b] <= Lengths(t)[b] \/ Lengths(u)[b] <= Allowed(t.buckets[b])
    BY <1>1, <1>4, <1>5
  <2>2. Lengths(u)[b] \in Nat /\ Lengths(t)[b] \in Nat /\ Allowed(t.buckets[b]) \in Nat
        /\ Weights(u)[b] \in Nat /\ Weights(t)[b] \in Nat
    BY <1>4, <1>5
  <2>3. /\ Weights(t)[b] = IF Lengths(t)[b] <= Allowed(t.buckets[b])
                           THEN Allowed(t.buckets[b]) ELSE Lengths(t)[b]
        /\ Weights(u)[b] = IF Lengths(u)[b] <= Allowed(t.buckets[b])
                           THEN Allowed(t.buckets[b]) ELSE Lengths(u)[b]
    BY <1>3, <1>4, <1>5
  <2>4. Weights(u)[b] <= Weights(t)[b]
    BY <2>1, <2>2, <2>3
  <2> QED
    BY <2>1, <2>2, <2>4
<1>7. Total(Weights(u), L) < L * (4 * Threshold)
  <2>1. Total(Weights(t), L) < L * (4 * Threshold)
    BY <1>1 DEF Bounds, WithinTwice
  <2>2. \A b \in 1 .. L : 1 * Weights(u)[b] <= 1 * Weights(t)[b] + 0
    BY <1>6
  <2>3. /\ Total(Weights(u), L) \in Nat /\ Total(Weights(t), L) \in Nat
        /\ 1 * Total(Weights(u), L) <= 1 * Total(Weights(t), L) + L * 0
    BY <1>4, <1>5, <2>2, SumsCompare
  <2>4. L * (4 * Threshold) \in Nat
    BY HashAssumption
  <2> QED
    BY <2>1, <2>3, <2>4
<1>8. ASSUME NEW b \in 1 .. L
      PROVE  /\ Cardinality(u.buckets[b].chain) <= 2 * Allowed(u.buckets[b])
             /\ Within(t) => Cardinality(u.buckets[b].chain) <= Allowed(u.buckets[b])
  <2>1. Lengths(t)[b] <= 2 * Allowed(t.buckets[b])
    BY <1>1, <1>4 DEF Bounds, WithinTwice
  <2>2. Within(t) => Lengths(t)[b] <= Allowed(t.buckets[b])
    BY <1>1, <1>4 DEF Within
  <2>3. Allowed(t.buckets[b]) \in Nat
    BY <1>4
  <2> QED
    BY <1>3, <1>5, <1>6, <2>1, <2>2, <2>3
<1> QED
  BY <1>1, <1>7, <1>8 DEF WithinTwice, Within

\* Adding keeps the bounds.
LEMMA AddBounded ==
    ASSUME NEW S \in SUBSET Keys, NEW t, Filed(S, t), t.num_items = Cardinality(S), Bounds(t),
           NEW k \in Keys, k \notin S
    PROVE  Bounds(AddToTable(t, k))
<1>1. PICK v : v = [t EXCEPT !.num_items = @ + 1]
  OBVIOUS
<1>2. PICK B : B = BucketOf(k, t.buckets)
  OBVIOUS
<1>3. PICK R : R = S \cup {k}
  OBVIOUS
<1>4. PICK added : added = [v EXCEPT !.buckets[B].chain = @ \cup {k}]
  OBVIOUS
<1>5. /\ v.buckets = t.buckets /\ v.noexpand = t.noexpand
      /\ v.num_items = t.num_items + 1 /\ DOMAIN v = DOMAIN t
  BY <1>1 DEF Filed
<1>6. Filed(S, v) /\ Bounds(v) /\ B \in DOMAIN v.buckets /\ B = BucketOf(k, v.buckets)
      /\ DOMAIN v.buckets = 1 .. Len(v.buckets)
  <2>1. Filed(S, v)
    BY <1>5 DEF Filed
  <2>2. B \in DOMAIN v.buckets
    BY <1>2, <1>5, <2>1, BucketExists
  <2>3. Bounds(v)
    BY <1>5, BoundsOf
  <2>4. DOMAIN v.buckets = 1 .. Len(v.buckets)
    BY <2>1 DEF Filed
  <2> QED
    BY <1>2, <1>5, <2>1, <2>2, <2>3, <2>4
<1>0. PICK ch : ch = v.buckets[B].chain \cup {k}
  OBVIOUS
<1>7. added = WithChain(v, B, ch)
  BY <1>0, <1>4, Zenon DEF WithChain
<1>8. /\ Len(added.buckets) = Len(v.buckets) /\ added.noexpand = v.noexpand
      /\ added.num_items = v.num_items
      /\ \A b \in 1 .. Len(v.buckets) :
            /\ added.buckets[b].expand_mult = v.buckets[b].expand_mult
            /\ added.buckets[b].chain = IF b = B THEN ch ELSE v.buckets[b].chain
  <2>1. ChangedIn(added, v, B, ch)
    BY <1>6, <1>7, OnlyChain
  <2> QED
    BY <2>1 DEF ChangedIn
<1>9. Filed(R, added)
  <2>1. v.buckets[B].chain = {j \in S : BucketOf(j, v.buckets) = B}
    BY <1>6 DEF Filed
  <2>2. ch = ChainOf(R, v.buckets, B)
    BY <1>0, <1>3, <1>6, <2>1 DEF ChainOf
  <2>3. R \in SUBSET Keys /\ SameBut(R, S, k)
    BY <1>3 DEF SameBut
  <2> QED
    BY <1>6, <1>7, <2>2, <2>3, ChainChanged
<1>10. AddToTable(t, k) =
           IF Cardinality(added.buckets[B].chain) >= Allowed(added.buckets[B]) /\ ~v.noexpand
           THEN Expand(added) ELSE added
  <2>1. AddToTable(t, k) = AddToBucket(v, B, k)
    BY <1>1, <1>2, Zenon DEF AddToTable
  <2>2. AddToBucket(v, B, k) =
           IF Cardinality(added.buckets[B].chain) >= Allowed(added.buckets[B]) /\ ~v.noexpand
           THEN Expand(added) ELSE added
    BY <1>4, Zenon DEF AddToBucket, Allowed
  <2> QED
    BY <2>1, <2>2
<1>11. CASE Cardinality(added.buckets[B].chain) >= Allowed(added.buckets[B]) /\ ~v.noexpand
  <2>1. /\ Cardinality(R) = Cardinality(S) + 1 /\ Cardinality(S) \in Nat
        /\ Cardinality(R) <= Len(added.buckets) * (4 * Threshold)
        /\ FewKeys => Cardinality(R) <= Len(added.buckets) * (2 * Threshold)
    BY <1>3, <1>6, <1>8, <1>11, RoomLeft
  <2>2. added.num_items = Cardinality(R) /\ Cardinality(R) # 0
    BY <1>5, <1>8, <2>1
  <2>3. Len(added.buckets) >= InitialBuckets
    BY <1>6, <1>8, HashAssumption DEF Bounds, Filed
  <2>4. R \in SUBSET Keys
    BY <1>3
  <2>5. Bounds(Expand(added))
    BY <1>9, <2>1, <2>2, <2>3, <2>4, ExpandBounded
  <2> QED
    BY <1>10, <1>11, <2>5
<1>12. CASE ~(Cardinality(added.buckets[B].chain) >= Allowed(added.buckets[B]) /\ ~v.noexpand)
  <2>1. \A b \in 1 .. Len(v.buckets) : v.buckets[b].expand_mult \in Nat
    BY <1>6 DEF Bounds
  <2>2. ASSUME NEW b \in 1 .. Len(v.buckets)
        PROVE  /\ Cardinality(added.buckets[b].chain) \in Nat
               /\ Cardinality(v.buckets[b].chain) \in Nat /\ Allowed(v.buckets[b]) \in Nat
               /\ Allowed(added.buckets[b]) = Allowed(v.buckets[b])
    <3>1. \A c \in 1 .. Len(added.buckets) : added.buckets[c].expand_mult \in Nat
      BY <1>8, <2>1
    <3>2. R \in SUBSET Keys
      BY <1>3
    <3>3. Lengths(added)[b] \in Nat /\ Lengths(added)[b] = Cardinality(added.buckets[b].chain)
      BY <1>8, <1>9, <3>1, <3>2, Weighed, ZenonT(60)
    <3>4. Lengths(v)[b] \in Nat /\ Lengths(v)[b] = Cardinality(v.buckets[b].chain)
          /\ Allowed(v.buckets[b]) \in Nat
      BY <1>6, <2>1, Weighed
    <3>5. Allowed(added.buckets[b]) = Allowed(v.buckets[b])
      BY <1>8 DEF Allowed
    <3> QED
      BY <3>3, <3>4, <3>5
  <2>3. ASSUME NEW b \in 1 .. Len(v.buckets)
        PROVE  \/ v.noexpand
               \/ Cardinality(added.buckets[b].chain) <= Cardinality(v.buckets[b].chain)
               \/ Cardinality(added.buckets[b].chain) <= Allowed(v.buckets[b])
    <3>1. CASE b = B
      BY <1>12, <2>2, <3>1
    <3>2. CASE b # B
      BY <1>8, <2>2, <3>2
    <3> QED
      BY <3>1, <3>2
  <2>4. R \in SUBSET Keys
    BY <1>3
  <2>5. Bounds(added)
    BY <1>6, <1>8, <1>9, <2>3, <2>4, BoundsKept
  <2>6. AddToTable(t, k) = added
    BY <1>10, <1>12, Zenon
  <2> QED
    BY <2>5, <2>6
<1> QED
  BY <1>11, <1>12

\* Deleting keeps the bounds.
LEMMA DelBounded ==
    ASSUME NEW S \in SUBSET Keys, NEW t, Filed(S, t), Bounds(t), NEW k \in Keys
    PROVE  Bounds(DelFromTable(t, k))
<1>1. PICK v : v = [t EXCEPT !.num_items = @ - 1]
  OBVIOUS
<1>2. PICK B : B = BucketOf(k, t.buckets)
  OBVIOUS
<1>3. PICK u : u = DelFromTable(t, k)
  OBVIOUS
<1>4. /\ v.buckets = t.buckets /\ v.noexpand = t.noexpand /\ DOMAIN v = DOMAIN t
  BY <1>1 DEF Filed
<1>5. Filed(S, v) /\ Bounds(v)
  BY <1>4, BoundsOf DEF Filed
<1>6. B \in DOMAIN v.buckets /\ DOMAIN v.buckets = 1 .. Len(v.buckets)
  BY <1>2, <1>4, <1>5, BucketExists DEF Filed
<1>0. PICK ch : ch = v.buckets[B].chain \ {k}
  OBVIOUS
<1>7. u = WithChain(v, B, ch)
  BY <1>0, <1>1, <1>2, <1>3, Zenon DEF DelFromTable, WithChain
<1>8. /\ Len(u.buckets) = Len(v.buckets) /\ u.noexpand = v.noexpand
      /\ u.num_items = v.num_items
      /\ \A b \in 1 .. Len(v.buckets) :
            /\ u.buckets[b].expand_mult = v.buckets[b].expand_mult
            /\ u.buckets[b].chain = IF b = B THEN ch ELSE v.buckets[b].chain
  <2>1. ChangedIn(u, v, B, ch)
    BY <1>5, <1>6, <1>7, OnlyChain
  <2> QED
    BY <2>1 DEF ChangedIn
<1>9. Filed(S \ {k}, u)
  BY <1>3, DeletedFromTable
<1>10. ASSUME NEW b \in 1 .. Len(v.buckets)
       PROVE  Cardinality(u.buckets[b].chain) <= Cardinality(v.buckets[b].chain)
  <2>1. v.buckets[b].chain \subseteq S
    <3>1. v.buckets[b].chain = {j \in S : BucketOf(j, v.buckets) = b}
      BY <1>5, <1>6 DEF Filed
    <3> QED
      BY <3>1
  <2>2. IsFiniteSet(v.buckets[b].chain)
    BY <2>1, HashAssumption, FS_Subset
  <2>3. u.buckets[b].chain \in SUBSET v.buckets[b].chain
    BY <1>0, <1>8
  <2> QED
    BY <2>2, <2>3, FS_Subset
<1>11. S \ {k} \in SUBSET Keys
  OBVIOUS
<1>12. Bounds(u)
  BY <1>5, <1>8, <1>9, <1>10, <1>11, BoundsKept
<1> QED
  BY <1>3, <1>12

\* A table that is made has the bounds.
LEMMA MadeBounded ==
    ASSUME NEW k \in Keys
    PROVE  Bounds(MakeTable(k))
<1>1. PICK u : u = MakeTable(k)
  OBVIOUS
<1>2. /\ u.buckets = [b \in 1 .. InitialBuckets |-> EmptyBucket] /\ u.noexpand = FALSE
  BY <1>1 DEF MakeTable, NoTable
<1>3. PICK L \in Nat \ {0} : L = InitialBuckets
  BY HashAssumption
<1>4. Filed({}, u)
  BY <1>1, MadeTable
<1>5. Len(u.buckets) = L
  <2>1. DOMAIN u.buckets = 1 .. L /\ u.buckets = [b \in 1 .. L |-> u.buckets[b]]
    BY <1>2, <1>3
  <2> QED
    BY <2>1, LenOfFunction
<1>6. \A b \in 1 .. L : u.buckets[b].expand_mult = 0 /\ u.buckets[b].chain = {}
  BY <1>2, <1>3 DEF EmptyBucket
<1>7. Threshold \in Nat \ {0}
  BY HashAssumption
<1>8. ASSUME NEW b \in 1 .. L
      PROVE  Allowed(u.buckets[b]) = Threshold /\ Cardinality(u.buckets[b].chain) = 0
  <2>1. (0 + 1) * Threshold = Threshold
    BY <1>7
  <2> QED
    BY <1>6, <2>1, FS_EmptySet DEF Allowed
<1>9. Total(Weights(u), L) < L * (4 * Threshold)
  <2>1. Weights(u) \in [1 .. L -> Nat]
    <3>1. {} \in SUBSET Keys /\ \A b \in 1 .. L : u.buckets[b].expand_mult \in Nat
      BY <1>6
    <3> QED
      BY <1>4, <1>5, <3>1, Weighed
  <2>2. \A b \in 1 .. L : Weights(u)[b] = Threshold
    BY <1>5, <1>7, <1>8 DEF Weights, Weight
  <2>3. \A b \in 1 .. L : 1 * Weights(u)[b] <= 0 * Weights(u)[b] + Threshold
    BY <1>7, <2>1, <2>2
  <2>4. /\ Total(Weights(u), L) \in Nat
        /\ 1 * Total(Weights(u), L) <= 0 * Total(Weights(u), L) + L * Threshold
    BY <1>7, <2>1, <2>3, SumsCompare
  <2>5. L * Threshold \in Nat \ {0} /\ L * (4 * Threshold) = 4 * (L * Threshold)
    BY <1>7
  <2> QED
    BY <2>4, <2>5
<1>10. WithinTwice(u) /\ Within(u)
  BY <1>5, <1>7, <1>8, <1>9 DEF WithinTwice, Within
<1>11. Bounds(u)
  BY <1>3, <1>5, <1>6, <1>10 DEF Bounds
<1> QED
  BY <1>1, <1>11

\* There are as many collectors in a list as it is long.
LEMMA ListCounted ==
    ASSUME NEW s \in Seq(Keys), IsInjective(s)
    PROVE  Cardinality(Range(s)) = Len(s)
<1>1. Len(s) \in Nat /\ DOMAIN s = 1 .. Len(s) /\ s \in [1 .. Len(s) -> Range(s)]
  BY LenProperties DEF Range
<1>2. \A k \in Range(s) : \E i \in 1 .. Len(s) : s[i] = k
  BY <1>1 DEF Range
<1>3. s \in Bijection(1 .. Len(s), Range(s))
  BY <1>1, <1>2 DEF Bijection, Injection, Surjection, IsInjective
<1>4. ExistsBijection(1 .. Len(s), Range(s))
  BY <1>3 DEF ExistsBijection
<1> QED
  BY <1>1, <1>4, FS_CountingElements

\* The hash, as long as there is one, keeps its bounds.
BoundsInv == head # NULL => Bounds(tbl)

\* HASH_ADD keeps them.
LEMMA AddStaysBounded ==
    ASSUME NEW s, Linked(s, head, next, prev), TableOf(s, tbl), BoundsInv,
           NEW k \in Keys, k \notin Range(s), HashAdd(k)
    PROVE  BoundsInv'
<1>1. head = NULL <=> s = <<>>
  BY EmptyList
<1>2. CASE head = NULL
  <2>1. tbl' = AddToTable(MakeTable(k), k)
    BY <1>2 DEF HashAdd
  <2>2. PICK t : t = MakeTable(k)
    OBVIOUS
  <2>3. Filed({}, t) /\ t.num_items = Cardinality({}) /\ Bounds(t)
    BY <2>2, MadeTable, MadeBounded, FS_EmptySet
  <2>4. {} \in SUBSET Keys /\ k \notin {}
    OBVIOUS
  <2>5. Bounds(AddToTable(t, k))
    BY <2>3, <2>4, AddBounded
  <2> QED
    BY <2>1, <2>2, <2>5 DEF BoundsInv
<1>3. CASE head # NULL
  <2>1. PICK t : t = [tbl EXCEPT !.tail = k]
    OBVIOUS
  <2>2. tbl' = AddToTable(t, k)
    BY <1>3, <2>1 DEF HashAdd
  <2>3. Filed(Range(s), tbl) /\ tbl.num_items = Len(s) /\ Range(s) \in SUBSET Keys
    BY <1>1, <1>3, NeighboursListed DEF TableOf
  <2>4. t.buckets = tbl.buckets /\ t.noexpand = tbl.noexpand /\ t.num_items = tbl.num_items
        /\ DOMAIN t = DOMAIN tbl
    BY <2>1, <2>3 DEF Filed
  <2>5. Filed(Range(s), t)
    BY <2>3, <2>4 DEF Filed
  <2>6. Bounds(t)
    BY <1>3, <2>4, BoundsOf DEF BoundsInv
  <2>7. t.num_items = Cardinality(Range(s))
    BY <2>3, <2>4, ListCounted DEF Linked
  <2>8. Bounds(AddToTable(t, k))
    BY <2>3, <2>5, <2>6, <2>7, AddBounded
  <2> QED
    BY <2>2, <2>8 DEF BoundsInv
<1> QED
  BY <1>2, <1>3

\* HASH_DELETE keeps them.
LEMMA DelStaysBounded ==
    ASSUME NEW s, Linked(s, head, next, prev), TableOf(s, tbl), BoundsInv,
           NEW k \in Range(s), HashDel(k)
    PROVE  BoundsInv'
<1>1. CASE prev[k] = NULL /\ next[k] = NULL
  BY <1>1 DEF HashDel, BoundsInv
<1>2. CASE ~(prev[k] = NULL /\ next[k] = NULL)
  <2>1. PICK t : t = IF tbl.tail = k THEN [tbl EXCEPT !.tail = prev[k]] ELSE tbl
    OBVIOUS
  <2>2. tbl' = DelFromTable(t, k)
    BY <1>2, <2>1 DEF HashDel
  <2>3. s # <<>> /\ head # NULL
    BY EmptyList DEF Range
  <2>4. Filed(Range(s), tbl) /\ Range(s) \in SUBSET Keys /\ Bounds(tbl)
    BY <2>3, NeighboursListed DEF TableOf, BoundsInv
  <2>5. t.buckets = tbl.buckets /\ t.noexpand = tbl.noexpand /\ DOMAIN t = DOMAIN tbl
    BY <2>1, <2>4 DEF Filed
  <2>6. Filed(Range(s), t) /\ Bounds(t)
    BY <2>4, <2>5, BoundsOf DEF Filed
  <2>7. Bounds(DelFromTable(t, k))
    BY <2>4, <2>6, DelBounded
  <2> QED
    BY <2>2, <2>7 DEF BoundsInv
<1> QED
  BY <1>1, <1>2

\* Every step does.
LEMMA BoundsSteps ==
    ASSUME Drained, HashInv, BoundsInv, [Next]_vars
    PROVE  BoundsInv'
<1>1. PICK s : HashState(s)
  BY DEF HashInv
<1>2. Linked(s, head, next, prev) /\ TableOf(s, tbl) /\ Swept(s)
  BY <1>1 DEF HashState
<1>3. UNCHANGED <<head, tbl>> => BoundsInv'
  BY DEF BoundsInv
<1>4. ASSUME NEW k \in Keys, add_collector(k) PROVE BoundsInv'
  <2>1. k \notin Range(s) /\ HashAdd(k)
    BY <1>2, <1>4, FoundIsListed DEF add_collector
  <2> QED
    BY <1>2, <2>1, AddStaysBounded
<1>5. ASSUME NEW k \in Keys, remove_collector(k) PROVE BoundsInv'
  <2>1. k \in Range(s) /\ HashDel(k)
    BY <1>2, <1>5, FoundIsListed DEF remove_collector
  <2> QED
    BY <1>2, <2>1, DelStaysBounded
<1>6. CASE SweepDeletes
  <2>1. el \in Range(s) /\ HashDel(el)
    BY <1>2, <1>6, NeighboursListed DEF SweepDeletes, Swept
  <2> QED
    BY <1>2, <2>1, DelStaysBounded
<1>7. CASE SweepBegins \/ SweepFrees \/ SweepEnds
  BY <1>3, <1>7 DEF SweepBegins, SweepFrees, SweepEnds
<1>8. CASE Calloc
  BY <1>8 DEF Calloc, BoundsInv
<1>9. CASE UNCHANGED vars
  BY <1>3, <1>9 DEF vars
<1> QED
  BY <1>4, <1>5, <1>6, <1>7, <1>8, <1>9 DEF Next, remove_all_collectors

\* So they are kept always.
LEMMA BoundsInvariant == ASSUME Drained PROVE Spec => [](HashInv /\ BoundsInv)
<1>1. Init => BoundsInv
  BY DEF Init, BoundsInv
<1>2. HashInv /\ BoundsInv /\ [Next]_vars => BoundsInv'
  BY BoundsSteps
<1> QED
  BY <1>1, <1>2, HashInvariant, PTL DEF Spec

\* Where the hash is, the buckets of the table are numbered from 1; where it is
\* not there are none.
LEMMA BucketsNumbered ==
    ASSUME HashInv, NEW b \in DOMAIN tbl.buckets
    PROVE  head # NULL /\ b \in 1 .. Len(tbl.buckets)
           /\ Cardinality(tbl.buckets[b].chain) \in Nat
<1>1. PICK s : HashState(s)
  BY DEF HashInv
<1>2. Linked(s, head, next, prev) /\ TableOf(s, tbl)
  BY <1>1 DEF HashState
<1>3. s # <<>>
  BY <1>2 DEF TableOf, NoTable
<1>4. Filed(Range(s), tbl) /\ Range(s) \in SUBSET Keys
  BY <1>2, <1>3, NeighboursListed DEF TableOf
<1>5. head # NULL
  BY <1>2, <1>3, EmptyList
<1>6. b \in 1 .. Len(tbl.buckets)
  BY <1>4 DEF Filed
<1>7. Lengths(tbl) \in [1 .. Len(tbl.buckets) -> Nat]
      /\ Lengths(tbl)[b] = Cardinality(tbl.buckets[b].chain)
  BY <1>4, <1>6, ItemsSummed DEF Lengths
<1> QED
  BY <1>5, <1>6, <1>7

-----------------------------------------------------------------------------
(* The theorems. *)

\* remove_all_collectors, when no handler runs beside it, frees every collector,
\* and no link to a freed one is followed: neither by it nor by the handlers.
THEOREM SweepFreesAll == ASSUME Drained PROVE Spec => []SweepComplete
<1>1. HashInv => SweepComplete
  BY DEF HashInv, HashState, Swept, SweepComplete
<1> QED
  BY <1>1, HashInvariant, PTL

\* HASH_FIND finds exactly the collectors of the list, through every expansion of
\* the table and every deletion, and none that is freed.
THEOREM LookupsAreExact == ASSUME Drained PROVE Spec => []FindExact
<1>1. HashInv => FindExact
  <2>. SUFFICES ASSUME HashInv, NEW k \in Keys
                PROVE  /\ Find(k) # NULL <=> Contains(AppOrder, k)
                       /\ Find(k) # NULL => k \notin freed
    BY DEF FindExact
  <2>1. PICK s : HashState(s) /\ s = AppOrder
    BY DEF HashInv
  <2>2. Find(k) # NULL <=> k \in Range(s)
    BY <2>1, FoundIsListed DEF HashState
  <2>3. k \in Range(s) <=> Contains(s, k)
    <3>1. DOMAIN s = 1 .. Len(s)
      BY <2>1, LenProperties DEF HashState, Linked
    <3> QED
      BY <3>1 DEF Range, Contains
  <2>4. k \in Range(s) => k \notin freed
    BY <2>1 DEF HashState, Swept, Range
  <2> QED
    BY <2>1, <2>2, <2>3, <2>4
<1> QED
  BY <1>1, HashInvariant, PTL

\* The number of items in the chains is the length of the list.
LEMMA ItemsCounted ==
    ASSUME NEW s \in Seq(Keys), IsInjective(s), NEW t, Filed(Range(s), t)
    PROVE  Cardinality(Items(t.buckets)) = Len(s)
<1>. DEFINE f == [i \in 1 .. Len(s) |-> <<BucketOf(s[i], t.buckets), s[i]>>]
            I == Items(t.buckets)
<1>1. Len(s) \in Nat /\ DOMAIN s = 1 .. Len(s) /\ \A i \in 1 .. Len(s) : s[i] \in Keys
  BY LenProperties
<1>2. I = {<<BucketOf(k, t.buckets), k>> : k \in Range(s)}
  <2>1. Range(s) \in SUBSET Keys
    BY <1>1 DEF Range
  <2>2. \A k \in Range(s) : BucketOf(k, t.buckets) \in DOMAIN t.buckets
    BY <2>1, BucketExists
  <2>3. \A b \in DOMAIN t.buckets :
            t.buckets[b].chain = {k \in Range(s) : BucketOf(k, t.buckets) = b}
    BY DEF Filed
  <2> QED
    BY <2>2, <2>3 DEF Items
<1>3. f \in [1 .. Len(s) -> I]
  BY <1>1, <1>2 DEF Range
<1>4. ASSUME NEW i \in 1 .. Len(s), NEW j \in 1 .. Len(s), f[i] = f[j] PROVE i = j
  <2>1. s[i] = s[j]
    BY <1>4
  <2> QED
    BY <1>1, <2>1 DEF IsInjective
<1>5. ASSUME NEW p \in I PROVE \E i \in 1 .. Len(s) : f[i] = p
  BY <1>1, <1>2, <1>5 DEF Range
<1>6. DOMAIN f = 1 .. Len(s)
  OBVIOUS
<1>. HIDE DEF f, I
<1>7. f \in Bijection(1 .. Len(s), I)
  BY <1>3, <1>4, <1>5, <1>6 DEF Bijection, Injection, Surjection, IsInjective
<1>8. ExistsBijection(1 .. Len(s), I)
  BY <1>7 DEF ExistsBijection
<1> QED
  BY <1>1, <1>8, FS_CountingElements DEF I

\* uthash's check of itself never fails.
THEOREM HashIsConsistent == ASSUME Drained PROVE Spec => []HASH_FSCK
<1>1. HashInv => HASH_FSCK
  <2>. SUFFICES ASSUME HashInv, head # NULL
                PROVE  /\ prev[head] = NULL
                       /\ \A i \in 2 .. Len(AppOrder) : prev[AppOrder[i]] = AppOrder[i - 1]
                       /\ tbl.tail = Last(AppOrder)
                       /\ tbl.num_items = Len(AppOrder)
                       /\ tbl.num_items = Cardinality(Items(tbl.buckets))
    BY DEF HASH_FSCK
  <2>1. PICK s : HashState(s) /\ s = AppOrder
    BY DEF HashInv
  <2>2. s # <<>>
    BY <2>1, EmptyList DEF HashState
  <2>3. /\ s \in Seq(Keys) /\ IsInjective(s) /\ Len(s) \in Nat /\ DOMAIN s = 1 .. Len(s)
        /\ head = Nth(s, 1) /\ \A j \in 1 .. Len(s) : prev[s[j]] = Nth(s, j - 1)
    BY <2>1, LenProperties DEF HashState, Linked
  <2>4. Filed(Range(s), tbl) /\ tbl.num_items = Len(s) /\ tbl.tail = Nth(s, Len(s))
    BY <2>1, <2>2 DEF HashState, TableOf
  <2>5. 1 \in 1 .. Len(s) /\ Len(s) \in 1 .. Len(s) /\ 1 - 1 \notin 1 .. Len(s)
    BY <2>2, <2>3, EmptySeq
  <2>6. prev[head] = NULL
    BY <2>3, <2>5 DEF Nth
  <2>7. ASSUME NEW i \in 2 .. Len(s) PROVE prev[s[i]] = s[i - 1]
    <3>1. i \in 1 .. Len(s) /\ i - 1 \in 1 .. Len(s)
      BY <2>3
    <3> QED
      BY <2>3, <3>1 DEF Nth
  <2>8. tbl.tail = Last(s)
    BY <2>3, <2>4, <2>5 DEF Nth, Last
  <2>9. tbl.num_items = Cardinality(Items(tbl.buckets))
    BY <2>3, <2>4, ItemsCounted
  <2> QED
    BY <2>1, <2>4, <2>6, <2>7, <2>8, <2>9
<1> QED
  BY <1>1, HashInvariant, PTL

\* The hash implements the list of collectors in the order of their creation.
THEOREM HashIsTheList == ASSUME Drained PROVE Spec => ImplementsList
<1>1. Init => AppOrder = <<>>
  BY HashInitially
<1>2. HashInv /\ [Next]_vars
        => [\E k \in Keys : CollectorsInOrder!Add(k) \/ CollectorsInOrder!Delete(k)]_AppOrder
  <2>. SUFFICES ASSUME HashInv, [Next]_vars
                PROVE  \/ AppOrder' = AppOrder
                       \/ \E k \in Keys : CollectorsInOrder!Add(k) \/ CollectorsInOrder!Delete(k)
    OBVIOUS
  <2>1. Becomes(AppOrder, AppOrder')
    BY HashSteps
  <2>2. ASSUME NEW k \in Keys, k \notin Range(AppOrder), AppOrder' = Append(AppOrder, k)
        PROVE  CollectorsInOrder!Add(k)
    BY <2>2 DEF CollectorsInOrder!Add, CollectorsInOrder!Range, Range
  <2>3. ASSUME NEW n \in DOMAIN AppOrder, AppOrder' = RemoveAt(AppOrder, n)
        PROVE  CollectorsInOrder!Delete(AppOrder[n])
    BY <2>3 DEF CollectorsInOrder!Delete, CollectorsInOrder!RemoveAt, RemoveAt
  <2> QED
    BY <2>1, <2>2, <2>3 DEF Becomes
<1> QED
  BY <1>1, <1>2, HashInvariant, PTL DEF Spec, ImplementsList, CollectorsInOrder!Spec

\* Expansion keeps every chain as short as its bucket asks for, until it is given
\* up: with at most four times the collectors that the first table has room for
\* (1280 with the 32 buckets and the threshold 10 of uthash.h), whatever they hash
\* to.  With many more the ideal length of an expansion may pass the threshold.
THEOREM ChainsStayShort == ASSUME Drained, FewKeys PROVE Spec => []ChainsBounded
<1>1. HashInv /\ BoundsInv => ChainsBounded
  <2>. SUFFICES ASSUME HashInv, BoundsInv, NEW b \in DOMAIN tbl.buckets
                PROVE  \/ Cardinality(tbl.buckets[b].chain)
                             <= (tbl.buckets[b].expand_mult + 1) * Threshold
                       \/ tbl.noexpand
    BY DEF ChainsBounded
  <2>1. head # NULL /\ b \in 1 .. Len(tbl.buckets)
    BY BucketsNumbered
  <2> QED
    BY <2>1 DEF BoundsInv, Bounds, Within, Allowed
<1> QED
  BY <1>1, BoundsInvariant, PTL

\* No chain grows past twice that length.
ChainsWithinTwice ==
    \A b \in DOMAIN tbl.buckets :
        Cardinality(tbl.buckets[b].chain) <= 2 * ((tbl.buckets[b].expand_mult + 1) * Threshold)
            \/ tbl.noexpand

\* That much holds for every number of collectors: "the hash keeps a bound on the
\* chain length" (uthash.h:825) by its expansions, until it gives them up.
THEOREM ChainsStayWithinTwice == ASSUME Drained PROVE Spec => []ChainsWithinTwice
<1>1. HashInv /\ BoundsInv => ChainsWithinTwice
  <2>. SUFFICES ASSUME HashInv, BoundsInv, NEW b \in DOMAIN tbl.buckets
                PROVE  \/ Cardinality(tbl.buckets[b].chain)
                             <= 2 * ((tbl.buckets[b].expand_mult + 1) * Threshold)
                       \/ tbl.noexpand
    BY DEF ChainsWithinTwice
  <2>1. head # NULL /\ b \in 1 .. Len(tbl.buckets)
    BY BucketsNumbered
  <2> QED
    BY <2>1 DEF BoundsInv, Bounds, WithinTwice, Allowed
<1> QED
  BY <1>1, BoundsInvariant, PTL

=============================================================================
