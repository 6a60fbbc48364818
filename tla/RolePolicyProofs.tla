--------------------------- MODULE RolePolicyProofs ---------------------------
(***************************************************************************)
(* Gateway says what matching_roles decides, Tools how it finds out.  Both *)
(* are the same, for any policy and any humans.                            *)
(***************************************************************************)
EXTENDS Gateway, TLAPS

\* The tools, where nothing is called yet.
Tool == INSTANCE ToolsProofs WITH
  Calls <- {}, MaxRecords <- 0, Refused <- None, call <- <<>>, answer <- None

\* The humans, each with its roles: what _approved hands to matching_roles.
Users(humans) == [h \in humans |-> identity[h].roles]

\* matching_roles gives every group a human of its own (tools.py:90).
LEMMA ToolGivesDifferentHumans ==
  ASSUME NEW groups, NEW roles, Tool!IsSequence(groups)
  PROVE  Tool!MatchingRoles(groups, roles) <=>
           \E f \in [1..Len(groups) -> DOMAIN roles] :
             /\ \A i \in 1..Len(groups) : roles[f[i]] \cap groups[i] # {}
             /\ \A i, j \in 1..Len(groups) : i # j => f[i] # f[j]
BY Tool!MatchingGivesDifferentHumans

\* What the gateway takes the policy to say of a set of humans is what the recursion of
\* matching_roles finds out about them (service.py, _approved; tools.py:90).
THEOREM GatewayDecidesByRecursion ==
  ASSUME NEW d \in Decision, NEW STATE humans
  PROVE  Matching(RoleGroups[d], humans) <=> Tool!MatchingRoles(RoleGroups[d], Users(humans))
<1> DEFINE groups == RoleGroups[d]
    roles == Users(humans)
<1>1. Tool!IsSequence(groups)
  BY GroupsAssumption, Tool!SequencesAreLists
<1>2. DOMAIN roles = humans /\ \A h \in humans : roles[h] = identity[h].roles
  BY DEF Users
<1> HIDE DEF roles, groups
<1>3. Tool!MatchingRoles(groups, roles) <=>
        \E f \in [1..Len(groups) -> DOMAIN roles] :
          /\ \A i \in 1..Len(groups) : roles[f[i]] \cap groups[i] # {}
          /\ \A i, j \in 1..Len(groups) : i # j => f[i] # f[j]
  BY <1>1, ToolGivesDifferentHumans
<1>4. Matching(groups, humans) <=> Tool!MatchingRoles(groups, roles)
  BY <1>2, <1>3 DEF Matching
<1> QED
  BY <1>4 DEF roles, groups
=============================================================================
