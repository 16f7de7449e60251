---- MODULE MCAccounts ----
EXTENDS Accounts, TLC
CONSTANTS q1, q2, root, ann, bob, mail
RequestSymmetry == Permutations(Requests)
============================
