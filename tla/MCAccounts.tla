----------------------------- MODULE MCAccounts -----------------------------
(* Two browsers, a cap of one session, a history of two passwords of three. *)
EXTENDS Accounts, TLC

BrowserSymmetry == Permutations(Browsers)
=============================================================================
