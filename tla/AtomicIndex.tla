----------------------------- MODULE AtomicIndex -----------------------------
(***************************************************************************)
(* What a search index promises its readers, whatever happens behind it    *)
(* (docs/search-architecture.md, "Atomic build-and-swap"): a query is      *)
(* always answered from one complete rebuild, or from an empty index.  The *)
(* index moves only forward, from an older rebuild to a newer one, and the *)
(* only other thing that may happen to it is being cleared.                *)
(***************************************************************************)
EXTENDS Naturals

VARIABLES
  served,     \* the rebuild readers see; 0 when the index is empty
  published   \* the rebuilds that were ever served

avars == <<served, published>>

AInit == served = 0 /\ published = {}

\* A rebuild newer than all before it replaces what readers see, in one step.
Publish ==
  /\ \A g \in published : served' > g
  /\ served' > 0
  /\ published' = published \cup {served'}

\* Every document is removed.
Empty == served' = 0 /\ published' = published

ANext == Publish \/ Empty

ASpec == AInit /\ [][ANext]_avars
=============================================================================
