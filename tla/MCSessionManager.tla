-------------------------- MODULE MCSessionManager --------------------------
(***************************************************************************)
(* SessionManager with the sizes of the .cfg files.                        *)
(***************************************************************************)
EXTENDS SessionManager
=============================================================================
