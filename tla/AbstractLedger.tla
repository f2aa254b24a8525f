--------------------------- MODULE AbstractLedger ---------------------------
(***************************************************************************)
(* What the financial core promises, with none of its machinery: accounts  *)
(* have posted money, part of which is held; posted money moves between    *)
(* two accounts; a customer spends only money that is posted and not held; *)
(* held money is either returned or moved by the hold it is held for.      *)
(***************************************************************************)
EXTENDS Integers

CONSTANTS Accounts, Clearing, Opening, Quantities

VARIABLES posted, held

ledgerVars == <<posted, held>>
Holders == Accounts \cup {Clearing}

Init ==
  /\ posted = [a \in Holders |-> IF a = Clearing THEN 0 ELSE Opening[a]]
  /\ held = [a \in Accounts |-> 0]

Spendable(a, n) == a = Clearing \/ posted[a] - held[a] >= n
Moved(a, b, n) == [posted EXCEPT ![a] = @ - n, ![b] = @ + n]

\* Transfers, corrections and funding.
Move(a, b, n) ==
  /\ a # b /\ Spendable(a, n)
  /\ posted' = Moved(a, b, n)
  /\ UNCHANGED held

Hold(a, n) ==
  /\ Spendable(a, n)
  /\ held' = [held EXCEPT ![a] = @ + n]
  /\ UNCHANGED posted

\* Release and expiry.
Return(a, n) ==
  /\ held[a] >= n
  /\ held' = [held EXCEPT ![a] = @ - n]
  /\ UNCHANGED posted

Capture(a, b, n) ==
  /\ a # b /\ held[a] >= n
  /\ held' = [held EXCEPT ![a] = @ - n]
  /\ posted' = Moved(a, b, n)

Next ==
  \E n \in Quantities :
    \/ \E a, b \in Holders : Move(a, b, n)
    \/ \E a \in Accounts : Hold(a, n) \/ Return(a, n)
    \/ \E a, b \in Accounts : Capture(a, b, n)

Spec == Init /\ [][Next]_ledgerVars

=============================================================================
