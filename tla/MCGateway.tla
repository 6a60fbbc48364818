------------------------------ MODULE MCGateway ------------------------------
(* Instances of Gateway for TLC. *)
EXTENDS Gateway

CONSTANTS ann, sam, localTool, remoteTool

\* Ann is an analyst and created the case; Sam is a supervisor.
StaffRoles == [h \in Human |-> IF h = ann THEN {"analyst"} ELSE {"supervisor"}]

\* Roles an administrator may give: enough to promote Ann and demote Sam.
StaffChoices == {{"analyst"}, {"supervisor"}}

\* export_case, model_assess and reconcile_execution need two persons, timeline,
\* import_logs and accept_finding one.
ToolGroups == [d \in Decision |->
  IF d = remoteTool THEN <<{"analyst", "supervisor"}, {"supervisor"}>>
                    ELSE <<{"analyst", "supervisor"}>>]

\* One person for both tools, where reviews are not the subject.
OnePersonGroups == [d \in Decision |-> <<{"analyst", "supervisor"}>>]

\* A decision never reads another one's state: to see what can happen to one of
\* either kind it is enough that only one of them is ever proposed.
OneProposed == \E d \in Decision : \A e \in Decision \ {d} : decision[e] = "ABSENT"
=============================================================================
