----------------------------- MODULE MCAccounts -----------------------------
(* Instances of Accounts: two calls of each kind at a time, a limit of one    *)
(* key, and three tunnels one after the other.                               *)
EXTENDS Accounts, TLC

CONSTANTS k1, k2, k3, a1, a2, r1, r2, d1, d2, t1, t2, t3

MCSymmetry ==
  Permutations({k1, k2, k3}) \cup Permutations({a1, a2}) \cup Permutations({r1, r2})
    \cup Permutations({d1, d2}) \cup Permutations({t1, t2, t3})
=============================================================================
