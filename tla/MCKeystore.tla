------------------------------ MODULE MCKeystore ------------------------------
(* Instances of Signing for TLC.                                             *)
EXTENDS Signing

CONSTANTS t1, t2, c1, c2, h1, h2, s1, s2, s3, s4, n1, n2
=============================================================================
