----------------------------- MODULE MCFileCrypt -----------------------------
(***************************************************************************)
(* FileCrypt with a file of six bytes, blocks and nonces of two bytes, a   *)
(* counter of two values and a buffer of five bytes.  The file is one      *)
(* block too long for the counter, what is left of it without a header is  *)
(* just short enough, and the buffer does not hold all of it.  Four runs   *)
(* can encrypt, decrypt, decrypt the result in place and encrypt what is   *)
(* left, which ends in a short block.                                      *)
(* Two of the passphrases derive the same key.                             *)
(***************************************************************************)
EXTENDS FileCrypt

MCData == ({"plain"} \X (1..6)) \cup ({"n1", "n2"} \X (1..2))

MCPlain == [k \in 1..6 |-> <<<<"plain", k>>, {}>>]

MCPassphrases == {<<"a", "b">>, <<"a", "b", "a">>, <<"b", "a">>}

MCNonces == {[k \in 1..2 |-> <<<<n, k>>, {}>>] : n \in {"n1", "n2"}}
=============================================================================
