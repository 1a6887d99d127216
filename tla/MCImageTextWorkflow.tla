------------------------ MODULE MCImageTextWorkflow ------------------------
(* The instances of ImageTextWorkflow that TLC checks: see the .cfg files.  *)
EXTENDS ImageTextWorkflow, TLC

\* Requests are interchangeable.
RequestSymmetry == Permutations(Requests)
=============================================================================
