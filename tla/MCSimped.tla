------------------------------ MODULE MCSimped ------------------------------
(***************************************************************************)
(* Simped on files of up to two lines, with room for a third, for two      *)
(* characters, in a window of two text rows.                               *)
(***************************************************************************)
EXTENDS Simped

MCContents == {<<>>, <<"a">>, <<"a", NL>>, <<NL, "a">>, <<"a", NUL, "a">>}
MCExisting == {<<"a">>}
MCTab == <<" ">>
=============================================================================
