---------------------------- MODULE MCLineStream ----------------------------
(* LineStream on texts with no, one and several % in a row. *)
EXTENDS LineStream

MCTexts == {<<"c", "c">>, <<"%">>, <<"c", "%", "%", "%">>}
=============================================================================
