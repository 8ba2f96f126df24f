------------------------------ MODULE MCSdCard ------------------------------
(* Instances of SdCard for TLC: the blocks of a payload differ, so that one  *)
(* written twice or out of turn shows.                                       *)
EXTENDS SdCard

MCPayloads == {<<"a">>, <<"a", "b">>}
=============================================================================
