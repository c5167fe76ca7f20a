-------------------------------- MODULE MCShard --------------------------------
(* Small instances of Shard for TLC. *)
EXTENDS Shard

OneTerm  == {1}
TwoTerms == {1, 2}

OneTermTexts == {<<>>, <<1>>}
OneWordTexts == {<<1>>}
TwoTermTexts == {<<1>>, <<2>>, <<1, 2>>}
================================================================================
