---- MODULE MCPermissions ----
EXTENDS Permissions, TLC
CONSTANTS q1, q2, root, ann, admin, viewer, other, access, read
Viewing == viewer :> {read}
AtFirst == root :> {admin} @@ ann :> {viewer}
==============================
