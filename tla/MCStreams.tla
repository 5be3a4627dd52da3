----------------------------- MODULE MCStreams ------------------------------
(* Instances of the views over small volumes.                               *)
EXTENDS VfsViews
=============================================================================
