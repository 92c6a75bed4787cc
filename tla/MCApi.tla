------------------------------- MODULE MCApi --------------------------------
(* Small instances of ScalerApi for TLC. *)
EXTENDS ScalerApi

Aligned == {32}
OneUnscaled == {<<32, CHOOSE p \in Places : TRUE>>}
AllForms == {"INTR", "HARD", "SOFT"}
AnsweringForms == {"INTR", "HARD"}
=============================================================================
