--------------------------- MODULE MCRegionLinks ---------------------------
(* The instances of RegionLinks that TLC checks: see the .cfg files.       *)
EXTENDS RegionLinks, TLC

\* Requests are interchangeable.  Graphs are not: Ends and Init choose one.
RequestSymmetry == Permutations(Requests)

\* Followed until every text is raced, or every graph retyped: what comes after
\* is exempt from the properties that are about these.
Fresh == raced # Texts /\ retyped # Graphs
=============================================================================
