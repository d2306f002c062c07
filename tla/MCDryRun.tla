------------------------------ MODULE MCDryRun ------------------------------
(* Two homes: both with the current file, or the second with a foreign one. *)
EXTENDS DryRun

Beginnings == {<<"current", "current">>, <<"current", "foreign">>}
=============================================================================
