---------------------------- MODULE MCStoreLease ----------------------------
(***************************************************************************)
(* StoreLease on two apps.                                                  *)
(***************************************************************************)
EXTENDS StoreLease
=============================================================================
