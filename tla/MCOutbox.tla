----------------------------- MODULE MCOutbox ------------------------------
(***************************************************************************)
(* Instances of Outbox for TLC.                                            *)
(***************************************************************************)
EXTENDS Outbox, TLC

CONSTANTS a1, a2, p1, p2, u1, u2

\* Two processes of their own names, and a process with its replacement under
\* the same name and process number.
TwoNames == (p1 :> "node-1") @@ (p2 :> "node-2")
OneName == (p1 :> "node-1") @@ (p2 :> "node-1")

=============================================================================
