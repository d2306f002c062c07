--------------------- MODULE MCTransactionRefinesCommit ---------------------
(* One home and two homes, for the refinement of AtomicCommit.              *)
EXTENDS TransactionRefinesCommit

TwoHomes == <<1, 1, 2>>
InstallThenRemove == <<"replace", "create", "remove">>
\* The manifest of a home is the last of its operations.
Manifests == {o \in Ops : \A p \in OpsOf(HomeOf[o]) : p <= o}
=============================================================================
