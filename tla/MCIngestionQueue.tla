-------------------------- MODULE MCIngestionQueue --------------------------
(* Instances of IngestionQueue for TLC. *)
EXTENDS IngestionQueue, TLC

CONSTANTS j1, j2, c1

\* Both requests about one content: an upload and a replacement of its file.
SameContent == j1 :> c1 @@ j2 :> c1
=============================================================================
