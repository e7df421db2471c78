----------------------------- MODULE MCAccounts -----------------------------
(***************************************************************************)
(* A small instance of Accounts: two failures lock an account for two      *)
(* units of time, a token lives for two and its session for three.         *)
(***************************************************************************)
EXTENDS Accounts, TLC

CONSTANTS u1, u2, t1, p1

TwoUsers  == {u1, u2}
OneToken  == {t1}
OneTemp   == {p1}
Swaps     == Permutations(TwoUsers)
=============================================================================
