----------------------- MODULE MCDisplayRegistration -----------------------
(* Instances of DisplayRegistration for TLC. *)
EXTENDS DisplayRegistration, TLC

CONSTANTS q1, q2, q3, q4, ann, s1, m1, d1, d2

\* Enough for an attempt that is rotated, closed or replaced under a device's hands,
\* a session or a link that is presented twice, and a display unregistered meanwhile.
Mixed == (q1 :> {"issue", "link"}) @@ (q2 :> {"issue", "close", "session", "register"})
           @@ (q3 :> {"session", "claim", "rotate"}) @@ (q4 :> {"register", "claim", "unregister"})

DataSymmetry == Permutations(Digits)
=============================================================================
