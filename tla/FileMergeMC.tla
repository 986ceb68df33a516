---------------------------- MODULE FileMergeMC ----------------------------
(***************************************************************************)
(* Contents for FileMerge: nothing, more than one piece, one piece, and    *)
(* more than one piece with a NUL in the first.                            *)
(***************************************************************************)
EXTENDS FileMerge

MCBytes == {"a", "b", "c", "d", "e", Nul}
MCInputs == {<< >>, <<"a", "b", "c">>, <<"d", "e">>, <<"d", Nul, "e">>}
=============================================================================
