------------------------------ MODULE MCLedger ------------------------------
(***************************************************************************)
(* Instances of Ledger for TLC.  A bound of 0 switches a component off.    *)
(***************************************************************************)
EXTENDS Ledger, TLC

CONSTANTS a1, a2, u1, u2, u3, w1, w2, k1, k2, clearing

\* Two accounts with a little money each.
TwoAccounts == {a1, a2}
TwoOpenings == (a1 :> 2) @@ (a2 :> 1)
OneFunded == (a1 :> 1) @@ (a2 :> 0)

\* Clients may choose any key, the capture key of a hold included.
ClientKeys == {<<"client", 1>>, <<"client", 2>>}
ClientAndCaptureKeys == {<<"client", 1>>, CaptureKey(1)}
OneClientKey == {<<"client", 1>>}
OneReference == {<<"reference", 1>>}
TwoReferences == {<<"reference", 1>>, <<"reference", 2>>}

\* Every operator may debit and credit every account.
Everyone == Operators \X Accounts
FirstDebits == Operators \X {a1}
FirstActor == {u1} \X Accounts
None == {}

\* Request keys are compared for equality only.
KeySymmetry == Permutations({k1, k2})

WideLimits == [tenant |-> 100, actor |-> 100, source |-> 100]
TightLimits == [tenant |-> 3, actor |-> 2, source |-> 2]

=============================================================================
