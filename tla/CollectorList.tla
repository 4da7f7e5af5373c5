--------------------------- MODULE CollectorList ----------------------------
(***************************************************************************)
(* What the provider's hash of collectors promises (uthash.h, the          *)
(* application order): a list without duplicates, to which collectors are  *)
(* appended and from which any of them can be removed.                     *)
(***************************************************************************)
EXTENDS SequencesExt

CONSTANTS Keys

VARIABLES list

Add(k) == k \notin Range(list) /\ list' = Append(list, k)

Delete(k) == \E n \in DOMAIN list : list[n] = k /\ list' = RemoveAt(list, n)

Spec == list = <<>> /\ [][\E k \in Keys : Add(k) \/ Delete(k)]_list

=============================================================================
