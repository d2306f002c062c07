--------------------------- MODULE MCTransaction ---------------------------
(* Instances of Transaction: two or three homes, each with its manifest     *)
(* operation last.                                                          *)
EXTENDS Transaction

TwoHomes == <<1, 1, 2>>
InstallThenRemove == <<"replace", "create", "remove">>
Reinstall == <<"create", "replace", "replace">>

ThreeHomes == <<1, 1, 2, 3, 3>>
MixedKinds == <<"create", "replace", "replace", "remove", "create">>
\* The manifest of a home is the last of its operations.
Manifests == {o \in Ops : \A p \in OpsOf(HomeOf[o]) : p <= o}
=============================================================================
