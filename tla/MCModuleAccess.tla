--------------------------- MODULE MCModuleAccess ---------------------------
(* Two processes, one key, a grant or a flag, two calls. *)
EXTENDS ModuleAccess
=============================================================================
