---------------------------- MODULE MCAdminGateway ----------------------------
(* Small instances of AdminGateway for TLC.                                *)
EXTENDS AdminGateway
=============================================================================
