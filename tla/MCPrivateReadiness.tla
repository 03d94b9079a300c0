------------------------ MODULE MCPrivateReadiness ------------------------
(* Two clients of readyz beside a chat call that may fail under them.  The *)
(* instance states temporal properties, so it names no symmetry.           *)
EXTENDS PrivateReadiness
=============================================================================
