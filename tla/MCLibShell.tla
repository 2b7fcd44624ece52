----------------------------- MODULE MCLibShell -----------------------------
(***************************************************************************)
(* LibShell with two files and a free name.  The lines include words left  *)
(* over after a command, arguments on the next line, a missing file, a     *)
(* refused mode, a file merged into itself and a program that may remove,  *)
(* write or create files.                                                  *)
(***************************************************************************)
EXTENDS LibShell, TLC

MCNames == {"f", "g", "d"}

MCChunks == {"f1", "f2", "g1"}

MCContents == [f |-> <<"f1", "f2">>] @@ [g |-> <<"g1">>]

MCAnything == {Nothing, OldFile(<<>>), OldFile(<<"g1", "f1">>)}

MCOctal == [w \in {"600", "1777"} |-> IF w = "600" THEN 384 ELSE 1023]

MCLines ==
  {<<"reader">>, <<"catalog">>, <<"archive">>, <<"exit">>, <<"Esc">>,
   <<"date">>, <<"find", "word", "f">>, <<"ls", "-l">>, <<"newcat", "d">>,
   <<"run", "wc">>, <<"run", "sh", "g">>,
   <<"merge", "f", "g">>, <<"merge", "f", "f">>, <<"merge", "f">>, <<"g">>,
   <<"remove", "f", "remove", "d">>, <<"date", "remove", "g">>,
   <<"protect", "600", "d">>, <<"protect", "1777", "f">>, <<"protect", "rwx", "f">>}
=============================================================================
