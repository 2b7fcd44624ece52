----------------------------- MODULE MCPrograms -----------------------------
(***************************************************************************)
(* Arguments for Programs.  The passcodes tried are the right one, one     *)
(* with a byte changed, and one of each length around which the padding or *)
(* the bytes fill a block; 56 bytes is also an example of the standard.    *)
(* The ChaCha20 vectors are those of RFC 8439, 2.3.2 and A.1 (the first).  *)
(***************************************************************************)
EXTENDS Programs

MCSource == <<1, 2, 3, 4, 5>>

MCStrings == {<<>>, <<"x", "x">>}

Cyber1234 == <<\h43, \h79, \h62, \h65, \h72, \h31, \h32, \h33, \h34>>

Example56 ==
  <<\h61, \h62, \h63, \h64, \h62, \h63, \h64, \h65, \h63, \h64, \h65, \h66, \h64, \h65, \h66, \h67,
    \h65, \h66, \h67, \h68, \h66, \h67, \h68, \h69, \h67, \h68, \h69, \h6a, \h68, \h69, \h6a, \h6b,
    \h69, \h6a, \h6b, \h6c, \h6a, \h6b, \h6c, \h6d, \h6b, \h6c, \h6d, \h6e, \h6c, \h6d, \h6e, \h6f,
    \h6d, \h6e, \h6f, \h70, \h6e, \h6f, \h70, \h71>>

MCCandidates ==
  {Cyber1234, [Cyber1234 EXCEPT ![1] = \h63], Example56}
    \cup {[k \in 1..n |-> ((7 * k) % 251) + 1] : n \in {0, 54, 55, 63, 64, 65, 119, 120}}

MCExamples ==
  {[message |-> <<>>,
    digest |->
      <<\he3, \hb0, \hc4, \h42, \h98, \hfc, \h1c, \h14, \h9a, \hfb, \hf4, \hc8, \h99, \h6f, \hb9, \h24,
        \h27, \hae, \h41, \he4, \h64, \h9b, \h93, \h4c, \ha4, \h95, \h99, \h1b, \h78, \h52, \hb8, \h55>>],
   [message |-> Example56,
    digest |->
      <<\h24, \h8d, \h6a, \h61, \hd2, \h06, \h38, \hb8, \he5, \hc0, \h26, \h93, \h0c, \h3e, \h60, \h39,
        \ha3, \h3c, \he4, \h59, \h64, \hff, \h21, \h67, \hf6, \hec, \hed, \hd4, \h19, \hdb, \h06, \hc1>>]}

MCVectors ==
  {[key |-> [k \in 1..32 |-> k - 1],
    nonce |-> <<\h00, \h00, \h00, \h09, \h00, \h00, \h00, \h4a, \h00, \h00, \h00, \h00>>,
    counter |-> 1,
    block |->
      <<\h10, \hf1, \he7, \he4, \hd1, \h3b, \h59, \h15, \h50, \h0f, \hdd, \h1f, \ha3, \h20, \h71, \hc4,
        \hc7, \hd1, \hf4, \hc7, \h33, \hc0, \h68, \h03, \h04, \h22, \haa, \h9a, \hc3, \hd4, \h6c, \h4e,
        \hd2, \h82, \h64, \h46, \h07, \h9f, \haa, \h09, \h14, \hc2, \hd7, \h05, \hd9, \h8b, \h02, \ha2,
        \hb5, \h12, \h9c, \hd1, \hde, \h16, \h4e, \hb9, \hcb, \hd0, \h83, \he8, \ha2, \h50, \h3c, \h4e>>],
   [key |-> [k \in 1..32 |-> 0],
    nonce |-> [k \in 1..12 |-> 0],
    counter |-> 0,
    block |->
      <<\h76, \hb8, \he0, \had, \ha0, \hf1, \h3d, \h90, \h40, \h5d, \h6a, \he5, \h53, \h86, \hbd, \h28,
        \hbd, \hd2, \h19, \hb8, \ha0, \h8d, \hed, \h1a, \ha8, \h36, \hef, \hcc, \h8b, \h77, \h0d, \hc7,
        \hda, \h41, \h59, \h7c, \h51, \h57, \h48, \h8d, \h77, \h24, \he0, \h3f, \hb8, \hd8, \h4a, \h37,
        \h6a, \h43, \hb8, \hf4, \h15, \h18, \ha1, \h1c, \hc3, \h87, \hb6, \h69, \hb2, \hee, \h65, \h86>>]}
=============================================================================
