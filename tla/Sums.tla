-------------------------------- MODULE Sums --------------------------------
(***************************************************************************)
(* Sums over an initial segment of the positive integers.  Ledger history  *)
(* is numbered (postings, transfers and holds are sequences), so every     *)
(* total the code computes with SQL's sum() is a sum over 1..n here.  A    *)
(* recursive function rather than a RECURSIVE operator keeps the module    *)
(* usable by the proofs.                                                   *)
(***************************************************************************)
EXTENDS Integers

\* The function whose value at i is w[1] + ... + w[i].
PartialSums(w, n) ==
  LET s[i \in 0..n] == IF i = 0 THEN 0 ELSE s[i-1] + w[i] IN s

\* w[1] + ... + w[n].
SumTo(w, n) == PartialSums(w, n)[n]

=============================================================================
