-------------------------------- MODULE MCVo --------------------------------
(* Small instances of VoPs3 for TLC. *)
EXTENDS VoPs3

Aligned == {32}
OneUnscaled == {<<32, CHOOSE p \in Places : TRUE>>}
=============================================================================
