----------------------- MODULE MCDepartmentWorkflow -----------------------
(***************************************************************************)
(* Instances of DepartmentWorkflow.                                        *)
(***************************************************************************)
EXTENDS DepartmentWorkflow

=============================================================================
