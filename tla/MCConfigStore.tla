---------------------------- MODULE MCConfigStore ---------------------------
(* TLC instance of ConfigStore: the default settings, others, broken ones. *)
EXTENDS ConfigStore

CONSTANTS default, v1, v2, bad

MCUsable == {default, v1, v2}
MCMistyped == {bad}
=============================================================================
