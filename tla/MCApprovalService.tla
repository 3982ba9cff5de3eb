-------------------------- MODULE MCApprovalService --------------------------
(* A small instance of ApprovalService for TLC: one step that two of its    *)
(* approvers must approve, its owner, and an approver of another tenant; it *)
(* is requested twice. A second step is never requested.                    *)
EXTENDS ApprovalService

Names == {"ann", "bob", "owner", "eve"}
Roles == [a \in Approvers |-> "release-manager"]
Tenants == [a \in Approvers |-> IF a = "eve" THEN "other" ELSE "acme"]
Quorums == [s \in Steps |->
  [owner |-> "owner", tenant |-> "acme", roles |-> {"release-manager", "team-lead"},
   selfApproval |-> FALSE, minApprovers |-> 2,
   overBudget |-> FALSE]]
Rounds == [s \in Steps |-> IF s = Bootstrap THEN 2 ELSE 0]
=============================================================================
