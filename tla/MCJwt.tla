------------------------------- MODULE MCJwt -------------------------------
(* Jwt without, with no, and with a short maximum age.                      *)
EXTENDS Jwt

MCMaxAges == {-1, 0, 1}
=============================================================================
