--------------------------- MODULE MCContentFiles ---------------------------
(* An instance of ContentFiles for TLC. *)
EXTENDS ContentFiles, TLC

CONSTANTS u, r1, r2, p, d, png, jpg

\* An upload, up to two replacements, a patch and a deletion of one content.
PlanOfRequests ==
  u :> "upload" @@ r1 :> "replace" @@ r2 :> "replace" @@ p :> "patch" @@ d :> "delete"

MimeSymmetry == Permutations(Mimes)

\* One request at a time beside the worker, and any two failures but enqueues that are
\* executed late; or a deletion in the middle of the others and one failure of any
\* kind, or two while the worker fails or crashes and enqueues are late.
Within ==
  \/ alone /\ Without({"late"})
  \/ apart /\ SumFunction(failures) <= 1 /\ "idle" \in {step[r2], step[p]}
  \/ apart /\ step[r2] = "idle" /\ step[p] = "idle" /\ Without(Failures \ {"late", "work", "crash"})

MCNext == FilesNext /\ Within'
MCSpec == FilesInit /\ [][MCNext]_filesVars
=============================================================================
