--------------------------- MODULE CollectorHash ----------------------------
(***************************************************************************)
(* The hash of collectors, provider->collectors, as uthash.h keeps it and  *)
(* the provider uses it: a list in application order, linked through the   *)
(* collectors themselves, and a table of buckets that doubles when one of  *)
(* its chains grows too long.  A collector is its key.  A chain is the set *)
(* of its items: no result depends on their order.  Running out of memory  *)
(* ends the process (uthash_fatal) and is left out.                        *)
(*                                                                         *)
(* remove_all_collectors walks the list while it takes it apart, and waits *)
(* for a backend's close between one element and the next.                 *)
(***************************************************************************)
EXTENDS Naturals, FiniteSets, SequencesExt

CONSTANTS
    Keys,            \* collectors
    NULL,
    Hash,            \* the hash value of each key
    InitialBuckets,  \* HASH_INITIAL_NUM_BUCKETS
    Threshold,       \* HASH_BKT_CAPACITY_THRESH
    MaxBuckets,      \* bound: collectors are not added where the table grows past it
    Drained          \* no handler runs while the provider is finalized

ASSUME HashAssumption ==
    /\ NULL \notin Keys /\ IsFiniteSet(Keys)
    /\ Hash \in [Keys -> Nat]
    /\ InitialBuckets \in Nat \ {0}
    /\ {Threshold, MaxBuckets} \subseteq Nat \ {0}
    /\ Drained \in BOOLEAN

VARIABLES
    head,        \* provider->collectors
    next, prev,  \* the links of each collector, in application order
    tbl,         \* the table the head points to
    el, tmp,     \* the variables of HASH_ITER in remove_all_collectors
    sweep,       \* "no", "next" (at the loop's condition), "close", "done"
    freed,       \* collectors that are (no longer) allocated
    dangling     \* a freed collector was looked at

vars == <<head, next, prev, tbl, el, tmp, sweep, freed, dangling>>
sweeper == <<el, tmp, sweep>>

EmptyBucket == [chain |-> {}, expand_mult |-> 0]
NoTable == [buckets |-> <<>>, num_items |-> 0, tail |-> NULL,
            ineff_expands |-> 0, noexpand |-> FALSE]

\* HASH_TO_BKT; the first bucket has number 1 here.  The number of buckets is
\* a power of two, so that masking is the remainder.
BucketOf(k, buckets) == (Hash[k] % Len(buckets)) + 1

\* HASH_FIND_IN_BKT
FindInBucket(bucket, k) == IF k \in bucket.chain THEN k ELSE NULL

\* HASH_FIND
Find(k) ==
    IF head = NULL THEN NULL
    ELSE FindInBucket(tbl.buckets[BucketOf(k, tbl.buckets)], k)

-----------------------------------------------------------------------------
(* Adding. *)

\* HASH_MAKE_TABLE
MakeTable(k) ==
    [NoTable EXCEPT !.tail = k, !.buckets = [b \in 1 .. InitialBuckets |-> EmptyBucket]]

\* Mutant of Multiplier: an expanded bucket asks again as soon as any other.
MultiplierForgets(length, ideal) == 0

\* How often an expanded bucket's expand_mult was incremented while length
\* items were moved to it.
Multiplier(length, ideal) ==
    LET mult[count \in 0 .. length] ==
            IF count = 0 THEN 0
            ELSE LET m == mult[count - 1]
                 IN  IF count > ideal /\ count > m * ideal THEN m + 1 ELSE m
    IN  mult[length]

\* The items of a table, each with its bucket.
Items(buckets) == UNION {{b} \X buckets[b].chain : b \in DOMAIN buckets}

\* Mutant of Expand: the items stay where the old mask put them.
ExpandOldMask(t) ==
    LET none == [b \in 1 .. Len(t.buckets) |-> EmptyBucket]
    IN  [t EXCEPT !.buckets = t.buckets \o none]

\* HASH_EXPAND_BUCKETS: twice as many buckets, each with some of the items of an
\* old one.  An item is counted as nonideal when it is moved to a chain of the
\* ideal length or longer; two expansions in a row that have more than half of
\* the items so are the last.
Expand(t) ==
    LET old == Len(t.buckets)
        ideal == (t.num_items \div (2 * old)) + (IF t.num_items % (2 * old) # 0 THEN 1 ELSE 0)
        chain(b) == {k \in t.buckets[((b - 1) % old) + 1].chain : (Hash[k] % (2 * old)) + 1 = b}
        length(b) == Cardinality(chain(b))
        buckets == [b \in 1 .. 2 * old |->
                       [chain |-> chain(b), expand_mult |-> Multiplier(length(b), ideal)]]
        nonideal == Cardinality(UNION {{b} \X (ideal + 1 .. length(b)) : b \in 1 .. 2 * old})
        ineff == IF nonideal > t.num_items \div 2 THEN t.ineff_expands + 1 ELSE 0
    IN  [t EXCEPT !.buckets = buckets, !.ineff_expands = ineff, !.noexpand = @ \/ ineff > 1]

\* HASH_ADD_TO_BKT
AddToBucket(t, b, k) ==
    LET added == [t EXCEPT !.buckets[b].chain = @ \cup {k}]
        bucket == added.buckets[b]
    IN  IF Cardinality(bucket.chain) >= (bucket.expand_mult + 1) * Threshold /\ ~t.noexpand
        THEN Expand(added) ELSE added

\* HASH_ADD_TO_TABLE
AddToTable(t, k) ==
    AddToBucket([t EXCEPT !.num_items = @ + 1], BucketOf(k, t.buckets), k)

\* HASH_APPEND_LIST: the new collector follows the tail.
AppendToList(k) ==
    /\ next' = [next EXCEPT ![tbl.tail] = k, ![k] = NULL]
    /\ prev' = [prev EXCEPT ![k] = tbl.tail]
    /\ UNCHANGED head

\* Mutant of HashAdd: in front of the list instead of behind it.
HashAddPrepends(k) ==
    /\ next' = [next EXCEPT ![k] = head]
    /\ prev' = [j \in Keys |-> IF j = k THEN NULL ELSE IF j = head THEN k ELSE prev[j]]
    /\ head' = k
    /\ tbl' = AddToTable(IF head = NULL THEN MakeTable(k) ELSE tbl, k)

\* HASH_ADD: the first collector makes the table.
HashAdd(k) ==
    IF head = NULL
    THEN /\ next' = [next EXCEPT ![k] = NULL]
         /\ prev' = [prev EXCEPT ![k] = NULL]
         /\ head' = k
         /\ tbl' = AddToTable(MakeTable(k), k)
    ELSE /\ AppendToList(k)
         /\ tbl' = AddToTable([tbl EXCEPT !.tail = k], k)

-----------------------------------------------------------------------------
(* Deleting. *)

\* HASH_DEL_IN_BKT
DelFromTable(t, k) ==
    [t EXCEPT !.num_items = @ - 1,
              !.buckets[BucketOf(k, t.buckets)].chain = @ \ {k}]

\* Mutant of HashDel: the list's tail is not moved.
HashDelKeepsTail(k) ==
    IF prev[k] = NULL /\ next[k] = NULL
    THEN head' = NULL /\ tbl' = NoTable /\ UNCHANGED <<next, prev>>
    ELSE /\ head' = IF prev[k] = NULL THEN next[k] ELSE head
         /\ next' = [j \in Keys |-> IF j = prev[k] THEN next[k] ELSE next[j]]
         /\ prev' = [j \in Keys |-> IF j = next[k] THEN prev[k] ELSE prev[j]]
         /\ tbl' = DelFromTable(tbl, k)

\* HASH_DELETE: the last collector takes the table with it.  The links of the
\* deleted one are never followed again, and are NULL here.
HashDel(k) ==
    IF prev[k] = NULL /\ next[k] = NULL
    THEN head' = NULL /\ tbl' = NoTable /\ UNCHANGED <<next, prev>>
    ELSE /\ head' = IF prev[k] = NULL THEN next[k] ELSE head
         /\ next' = [j \in Keys |-> IF j = k THEN NULL
                                   ELSE IF j = prev[k] THEN next[k] ELSE next[j]]
         /\ prev' = [j \in Keys |-> IF j = k THEN NULL
                                   ELSE IF j = next[k] THEN prev[k] ELSE prev[j]]
         /\ tbl' = DelFromTable(IF tbl.tail = k THEN [tbl EXCEPT !.tail = prev[k]]
                                ELSE tbl, k)

-----------------------------------------------------------------------------
(* The provider's functions. *)

\* Handlers run: always, or only as long as the provider is not finalized.
Handlers == sweep = "no" \/ (sweep = "close" /\ ~Drained)

add_collector(k) ==
    /\ Handlers
    /\ k \in freed
    /\ Find(k) = NULL
    /\ HashAdd(k)
    /\ Len(tbl'.buckets) <= MaxBuckets
    /\ freed' = freed \ {k}
    /\ dangling' = (dangling \/ (head # NULL /\ tbl.tail \in freed))
    /\ UNCHANGED sweeper

remove_collector(k) ==
    /\ Handlers
    /\ Find(k) # NULL
    /\ HashDel(k)
    /\ freed' = freed \cup {k}
    /\ dangling' = (dangling \/ {k, prev[k], next[k]} \cap freed # {})
    /\ UNCHANGED sweeper

\* HASH_ITER: the element after e, for the next round of the loop.
After(e) == IF e = NULL THEN NULL ELSE next[e]

SweepBegins ==
    /\ sweep = "no"
    /\ sweep' = "next"
    /\ el' = head
    /\ tmp' = After(head)
    /\ UNCHANGED <<head, next, prev, tbl, freed, dangling>>

SweepDeletes ==
    /\ sweep = "next"
    /\ el # NULL
    /\ HashDel(el)
    /\ sweep' = "close"
    /\ dangling' = (dangling \/ {el, prev[el], next[el]} \cap freed # {})
    /\ UNCHANGED <<el, tmp, freed>>

\* Mutant of SweepFrees: the loop goes on from the element it has deleted.
SweepFreesUnsaved ==
    /\ sweep = "close"
    /\ freed' = freed \cup {el}
    /\ sweep' = "next"
    /\ el' = After(el)
    /\ UNCHANGED <<head, next, prev, tbl, tmp, dangling>>

\* The backend's close returned.
SweepFrees ==
    /\ sweep = "close"
    /\ freed' = freed \cup {el}
    /\ sweep' = "next"
    /\ el' = tmp
    /\ tmp' = After(tmp)
    /\ dangling' = (dangling \/ el \in freed \/ tmp \in freed)
    /\ UNCHANGED <<head, next, prev, tbl>>

SweepEnds ==
    /\ sweep = "next"
    /\ el = NULL
    /\ sweep' = "done"
    /\ UNCHANGED <<head, next, prev, tbl, el, tmp, freed, dangling>>

\* A new provider is registered after the old one was freed.
Calloc ==
    /\ sweep = "done"
    /\ sweep' = "no"
    /\ head' = NULL
    /\ tbl' = NoTable
    /\ UNCHANGED <<next, prev, el, tmp, freed, dangling>>

remove_all_collectors == SweepBegins \/ SweepDeletes \/ SweepFrees \/ SweepEnds

Init ==
    /\ head = NULL
    /\ next = [k \in Keys |-> NULL]
    /\ prev = [k \in Keys |-> NULL]
    /\ tbl = NoTable
    /\ el = NULL /\ tmp = NULL /\ sweep = "no"
    /\ freed = Keys
    /\ dangling = FALSE

Next ==
    \/ \E k \in Keys : add_collector(k) \/ remove_collector(k)
    \/ remove_all_collectors
    \/ Calloc

Spec == Init /\ [][Next]_vars

-----------------------------------------------------------------------------
(* Properties. *)

\* The collectors as HASH_ITER visits them: at most n from e on.
Walk(links) ==
    LET from[n \in 0 .. Cardinality(Keys)] == [e \in Keys \cup {NULL} |->
            IF n = 0 \/ e = NULL THEN <<>> ELSE <<e>> \o from[n - 1][links[e]]]
    IN  from

AppOrder == Walk(next)[Cardinality(Keys)][head]

\* The hash is the list of collectors in the order of their creation: an
\* iteration (the reply to a list request) meets each of them once.
CollectorsInOrder == INSTANCE CollectorList WITH list <- AppOrder
ImplementsList == CollectorsInOrder!Spec

\* What uthash checks of itself: the links back are those forward reversed, and
\* list, chains and the counter of items agree.
HASH_FSCK ==
    LET order == AppOrder
    IN  head # NULL =>
            /\ prev[head] = NULL
            /\ \A i \in 2 .. Len(order) : prev[order[i]] = order[i - 1]
            /\ tbl.tail = Last(order)
            /\ tbl.num_items = Len(order)
            /\ tbl.num_items = Cardinality(Items(tbl.buckets))

\* A lookup finds exactly the collectors of the list, through every expansion
\* and deletion, and none of them is freed.
FindExact ==
    \A k \in Keys :
        /\ Find(k) # NULL <=> Contains(AppOrder, k)
        /\ Find(k) # NULL => k \notin freed

\* No chain grows past the length at which its bucket asks for an expansion,
\* unless expansion was given up: each expansion, and the multiplier it gives a
\* bucket that is still too long, is enough until the next one.
ChainsBounded ==
    \A b \in DOMAIN tbl.buckets :
        Cardinality(tbl.buckets[b].chain) <= (tbl.buckets[b].expand_mult + 1) * Threshold
            \/ tbl.noexpand

\* remove_all_collectors closes and frees every collector, though it keeps the
\* next one in a variable while it waits for a close, and follows no pointer
\* to a freed one; remove_collector and add_collector do not either.
SweepComplete == ~dangling /\ (sweep = "done" => freed = Keys)

=============================================================================
