----------------------------- MODULE MCGenerator -----------------------------
(* The instance of Generator that TLC checks.                              *)
EXTENDS Generator

MCDeception == {<<1, 1>>}
=============================================================================
