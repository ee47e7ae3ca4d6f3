---------------------------- MODULE MCWorkflowView ----------------------------
(* A small instance of WorkflowView for TLC.                               *)
EXTENDS WorkflowView
=============================================================================
