--------------------------- MODULE MCRegistration ---------------------------
(***************************************************************************)
(* Registration with two visitors and two connections, of which the        *)
(* network drops one.                                                      *)
(***************************************************************************)
EXTENDS RegistrationInvariant

=============================================================================
