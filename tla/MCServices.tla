----------------------------- MODULE MCServices -----------------------------
(* The numbers for which the clients ask. *)
EXTENDS Services

FirstNumbers   == << 5 >>
SecondNumbers  == << 4 >>
SeveralNumbers == << 3, 6 >>
=============================================================================
