----------------------------- MODULE MCAdminForms -----------------------------
(* A small instance of AdminForms for TLC.                                 *)
EXTENDS AdminForms, TLC

Symmetric == Permutations(Admin)
=============================================================================
