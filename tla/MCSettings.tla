---------------------------- MODULE MCSettings ----------------------------
(* Texts of at most two characters, lists of at most three. *)
EXTENDS Settings

MCVolumes == {1, 9}
MCGains == {-3, 0}
MCLabels == {<<"x", "x">>, <<"|", " ", "x">>}
MCGroupTexts == {<<>>, <<"x", ",", "x", "x", "x", ",", " ", "|", "y">>}
MCYamlLabel == <<"y">>
MCYamlGroups == <<"y">>

=============================================================================
