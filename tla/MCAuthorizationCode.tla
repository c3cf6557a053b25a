------------------------ MODULE MCAuthorizationCode ------------------------
(* An instance of AuthorizationCode for TLC.                               *)
EXTENDS AuthorizationCode

CONSTANTS t1, t2, t3

=============================================================================
