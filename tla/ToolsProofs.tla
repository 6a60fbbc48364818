----------------------------- MODULE ToolsProofs -----------------------------
(***************************************************************************)
(* What the tools compute, for calls of every size.                        *)
(*                                                                         *)
(* A behaviour is one call, so the only invariant over steps is CallInv:   *)
(* the answer is what the tool computes from the call.  The rest is about  *)
(* the recursion of matching_roles, the loop of parse_logs over lines, the *)
(* sort of bounded_rows and the counting of validate_pack.  A recursion or *)
(* a loop is followed by induction in the form of Least and UpTo: were     *)
(* there numbers for which a statement fails, there would be a least one.  *)
(***************************************************************************)
EXTENDS Tools, FiniteSetTheorems, SequenceTheorems, TLAPS

-----------------------------------------------------------------------------
\* The tool and its result.
Given(tool, result) == call.tool = tool /\ answer = result

CallInv ==
  /\ call \in Calls
  /\ answer # None =>
       \/ Given("matching_roles", MatchingRoles(call.groups, call.roles))
       \/ Given("parse_logs", ParseLogs(call.source))
       \/ Given("bounded_rows", BoundedRows(call.rows, call.start, call.end, call.limit))
       \/ Given("validate_pack", ValidPack(call.rules, call.tests))

\* An answer is what the tool computes from the call, which stays as it was made.
THEOREM AnswersAreComputed == Spec => []CallInv
<1>1. Init => CallInv
  BY DEF Init, CallInv
<1>2. CallInv /\ [Next]_vars => CallInv'
  <2> SUFFICES ASSUME CallInv, [Next]_vars PROVE CallInv'
    OBVIOUS
  <2>1. CASE Match
    BY <2>1 DEF Match, Answer, CallInv, Given
  <2>2. CASE Parse
    BY <2>2 DEF Parse, Answer, CallInv, Given
  <2>3. CASE Query
    BY <2>3 DEF Query, Answer, CallInv, Given
  <2>4. CASE Validate
    BY <2>4 DEF Validate, Answer, CallInv, Given
  <2>5. CASE UNCHANGED vars
    BY <2>5 DEF vars, CallInv, Given
  <2> QED
    BY <2>1, <2>2, <2>3, <2>4, <2>5 DEF Next
<1> QED
  BY <1>1, <1>2, PTL DEF Spec

-----------------------------------------------------------------------------
\* Every set of natural numbers that is not empty has a least member.
LEMMA Least ==
  ASSUME NEW T, T \subseteq Nat, T # {}
  PROVE  \E m \in T : \A n \in T : m <= n
<1> DEFINE R == OpToRel(<, Nat)
<1>1. IsWellFoundedOn(R, Nat)
  BY NatLessThanWellFounded
<1>2. \A x, y \in Nat : y < x => <<y, x>> \in R
  BY DEF OpToRel
<1> HIDE DEF R
<1>3. PICK m \in T : \A n \in T : ~(<<n, m>> \in R)
  BY <1>1, WFMin
<1>4. \A n \in T : ~(n < m)
  BY <1>2, <1>3
<1> QED
  BY <1>4

\* Induction over the numbers up to N, with a set in the place of a predicate.
LEMMA UpTo ==
  ASSUME NEW N \in Nat, NEW G, 0 \in G, \A n \in 1..N : n - 1 \in G => n \in G
  PROVE  0..N \subseteq G
<1> DEFINE Missing == 0..N \ G
<1> SUFFICES ASSUME Missing # {} PROVE FALSE
  OBVIOUS
<1>1. Missing \subseteq Nat
  OBVIOUS
<1>2. PICK m \in Missing : \A n \in Missing : m <= n
  BY <1>1, Least
<1>3. m # 0 /\ m \in 1..N
  BY <1>2
<1>4. m - 1 \in 0..N /\ ~(m <= m - 1)
  BY <1>3
<1>5. m - 1 \in G
  BY <1>2, <1>4
<1> QED
  BY <1>3, <1>5

\* What a recursion over the numbers up to N computes: a first value, then the step for n
\* applied to the value for n - 1.
Computes(f, N, first, step) ==
  f[0] = first /\ \A n \in 1..N : f[n] = step[n][f[n - 1]]

\* A recursion is well defined as soon as its steps stay among some values.
LEMMA Iterates ==
  ASSUME NEW N \in Nat, NEW V, NEW first \in V, NEW step,
         \A n \in 1..N, v \in V : step[n][v] \in V
  PROVE  \E f \in [0..N -> V] : Computes(f, N, first, step)
<1> DEFINE Reaches(m) == \E f \in [0..m -> V] : Computes(f, m, first, step)
    G == {m \in 0..N : Reaches(m)}
<1>1. Reaches(0)
  <2> DEFINE f == [n \in 0..0 |-> first]
  <2>1. f \in [0..0 -> V] /\ Computes(f, 0, first, step)
    BY DEF Computes
  <2> HIDE DEF f
  <2> QED
    BY <2>1
<1>2. ASSUME NEW m \in 1..N, Reaches(m - 1)
      PROVE  Reaches(m)
  <2>1. PICK f \in [0..m - 1 -> V] : Computes(f, m - 1, first, step)
    BY <1>2
  <2> DEFINE g == [n \in 0..m |-> IF n = m THEN step[m][f[m - 1]] ELSE f[n]]
  <2>2. f[m - 1] \in V /\ step[m][f[m - 1]] \in V
    BY <2>1
  <2>3. g \in [0..m -> V]
    BY <2>1, <2>2
  <2>4. g[0] = first
    BY <2>1 DEF Computes
  <2>5. \A n \in 0..m - 1 : g[n] = f[n]
    BY <2>1
  <2>6. g[m] = step[m][f[m - 1]]
    BY <2>1
  <2> HIDE DEF g
  <2>7. ASSUME NEW n \in 1..m
        PROVE  g[n] = step[n][g[n - 1]]
    <3>1. g[n - 1] = f[n - 1]
      BY <2>5
    <3>2. CASE n = m
      BY <3>1, <3>2, <2>6
    <3>3. CASE n # m
      <4>1. n \in 1..m - 1 /\ n \in 0..m - 1
        BY <3>3
      <4> QED
        BY <4>1, <3>1, <2>5, <2>1 DEF Computes
    <3> QED
      BY <3>2, <3>3
  <2> QED
    BY <2>3, <2>4, <2>7 DEF Computes
<1> HIDE DEF Reaches
<1>3. 0 \in G /\ \A m \in 1..N : m - 1 \in G => m \in G
  BY <1>1, <1>2
<1>4. N \in G
  <2> HIDE DEF G
  <2>1. 0..N \subseteq G
    BY <1>3, UpTo
  <2> QED
    BY <2>1
<1> QED
  BY <1>4 DEF Reaches

\* A part of a finite set is finite, not larger, and all of it if it is as large.
LEMMA SubsetCounts ==
  ASSUME NEW T, IsFiniteSet(T), NEW S, S \subseteq T
  PROVE  /\ IsFiniteSet(S) /\ Cardinality(S) \in Nat /\ Cardinality(T) \in Nat
         /\ Cardinality(S) <= Cardinality(T)
         /\ Cardinality(S) = Cardinality(T) => S = T
BY FS_Subset, FS_CardinalityType

\* A list has a length and places up to it.
LEMMA SequencesOf ==
  ASSUME NEW s, IsSequence(s)
  PROVE  Len(s) \in Nat /\ DOMAIN s = 1..Len(s)
BY LenProperties DEF IsSequence

\* Every sequence is a list.
LEMMA SequencesAreLists ==
  ASSUME NEW S, NEW s \in Seq(S)
  PROVE  IsSequence(s)
<1>1. Len(s) \in Nat /\ DOMAIN s = 1..Len(s) /\ s \in [1..Len(s) -> S]
  BY LenProperties
<1>2. s = [i \in 1..Len(s) |-> s[i]]
  BY <1>1
<1>3. s \in [1..Len(s) -> ToSet(s)]
  BY <1>1, <1>2 DEF ToSet
<1>4. s \in Seq(ToSet(s))
  <2> DEFINE N == Len(s)
      T == ToSet(s)
  <2>1. N \in Nat /\ s \in [1..N -> T]
    BY <1>1, <1>3
  <2> HIDE DEF N, T
  <2>2. s \in Seq(T)
    BY <2>1, SeqDef
  <2> QED
    BY <2>2 DEF T
<1> QED
  BY <1>4 DEF IsSequence

-----------------------------------------------------------------------------
\* The recursion of matching_roles over the groups.
LEMMA SucceedsForDef ==
  ASSUME NEW groups, NEW roles, Len(groups) \in Nat
  PROVE  LET matching == SucceedsFor(groups, roles)
         IN  /\ matching[0] = SUBSET DOMAIN roles
             /\ \A n \in 1..Len(groups) : \A users \in SUBSET DOMAIN roles :
                  users \in matching[n] <=>
                    \E u \in users : /\ CanStand(groups, roles, n, u)
                                     /\ users \ {u} \in matching[n - 1]
<1> DEFINE N == Len(groups)
    all == SUBSET DOMAIN roles
    V == SUBSET all
    Step(before, n) ==
      {users \in all :
         \E u \in users : CanStand(groups, roles, n, u) /\ users \ {u} \in before}
    step == [n \in 1..N |-> [before \in V |-> Step(before, n)]]
    Defines(f) == f = [n \in 0..N |-> IF n = 0 THEN all ELSE Step(f[n - 1], n)]
<1>1. \A before \in V, n \in 1..N : Step(before, n) \in V
  OBVIOUS
<1>2. \E f : Defines(f)
  <2> HIDE DEF Step
  <2>1. \A n \in 1..N, before \in V : step[n][before] \in V
    BY <1>1
  <2>2. \A n \in 1..N, before \in V : step[n][before] = Step(before, n)
    OBVIOUS
  <2>3. N \in Nat /\ all \in V
    OBVIOUS
  <2> HIDE DEF step, V, N, all
  <2>4. PICK f \in [0..N -> V] : Computes(f, N, all, step)
    BY <2>1, <2>3, Iterates
  <2>5. \A n \in 0..N : f[n] = IF n = 0 THEN all ELSE Step(f[n - 1], n)
    <3>1. ASSUME NEW n \in 1..N PROVE f[n] = Step(f[n - 1], n)
      <4>1. n - 1 \in 0..N
        BY <2>3
      <4> QED
        BY <4>1, <2>2, <2>4 DEF Computes
    <3> QED
      BY <3>1, <2>4 DEF Computes
  <2>6. Defines(f)
    BY <2>4, <2>5
  <2> HIDE DEF Defines
  <2> QED
    BY <2>6
<1>3. SucceedsFor(groups, roles) = CHOOSE f : Defines(f)
  BY DEF SucceedsFor
<1>4. Defines(SucceedsFor(groups, roles))
  <2> HIDE DEF Defines
  <2> QED
    BY <1>2, <1>3
<1>5. \A n \in 0..N : SucceedsFor(groups, roles)[n] =
        IF n = 0 THEN all ELSE Step(SucceedsFor(groups, roles)[n - 1], n)
  <2> HIDE DEF Step
  <2> QED
    BY <1>4
<1>6. 0 \in 0..N /\ \A n \in 1..N : n \in 0..N /\ n # 0
  OBVIOUS
<1> HIDE DEF N
<1> QED
  BY <1>5, <1>6 DEF N

\* The groups that are left when the first ones have their users.
Remaining(groups, n) == Len(groups) - n + 1..Len(groups)

Eligible(groups, roles) ==
  [i \in 1..Len(groups) |-> {u \in DOMAIN roles : roles[u] \cap groups[i] # {}}]

\* The groups that are left before a step of the recursion are those that are left after it
\* and one more.
LEMMA RemainingGroups ==
  ASSUME NEW groups, Len(groups) \in Nat
  PROVE  /\ Remaining(groups, 0) = {}
         /\ Remaining(groups, Len(groups)) = 1..Len(groups)
         /\ \A n \in 1..Len(groups) :
              /\ Remaining(groups, n) = Remaining(groups, n - 1) \cup {Len(groups) - n + 1}
              /\ Len(groups) - n + 1 \notin Remaining(groups, n - 1)
              /\ Len(groups) - n + 1 \in 1..Len(groups)
              /\ IsFiniteSet(Remaining(groups, n - 1))
<1>1. ASSUME NEW n \in 1..Len(groups)
      PROVE  /\ Remaining(groups, n) = Remaining(groups, n - 1) \cup {Len(groups) - n + 1}
             /\ Len(groups) - n + 1 \notin Remaining(groups, n - 1)
             /\ Len(groups) - n + 1 \in 1..Len(groups)
             /\ IsFiniteSet(Remaining(groups, n - 1))
  <2>1. Len(groups) - (n - 1) + 1 \in Int /\ Len(groups) \in Int
    OBVIOUS
  <2>2. IsFiniteSet(Remaining(groups, n - 1))
    BY <2>1, FS_Interval DEF Remaining
  <2> QED
    BY <2>2 DEF Remaining
<1> QED
  BY <1>1 DEF Remaining

\* Every group gets a user of its own who is eligible for it.
Served(eligible, users, groups) ==
  \E f \in [groups -> users] :
    /\ \A i \in groups : f[i] \in eligible[i]
    /\ \A i, j \in groups : i # j => f[i] # f[j]

\* One group more is served when it has a user that the others can do without.
LEMMA ServedOneMore ==
  ASSUME NEW eligible, NEW users, NEW groups, NEW g, g \notin groups
  PROVE  Served(eligible, users, groups \cup {g}) <=>
           \E u \in users : u \in eligible[g] /\ Served(eligible, users \ {u}, groups)
<1>1. ASSUME Served(eligible, users, groups \cup {g})
      PROVE  \E u \in users : u \in eligible[g] /\ Served(eligible, users \ {u}, groups)
  <2>1. PICK f \in [groups \cup {g} -> users] :
          /\ \A i \in groups \cup {g} : f[i] \in eligible[i]
          /\ \A i, j \in groups \cup {g} : i # j => f[i] # f[j]
    BY <1>1 DEF Served
  <2> DEFINE u == f[g]
      rest == [i \in groups |-> f[i]]
  <2>2. u \in users /\ u \in eligible[g]
    BY <2>1
  <2>3. rest \in [groups -> users \ {u}]
    BY <2>1
  <2>4. \A i \in groups : rest[i] \in eligible[i]
    BY <2>1
  <2>5. \A i, j \in groups : i # j => rest[i] # rest[j]
    BY <2>1
  <2>6. Served(eligible, users \ {u}, groups)
    BY <2>3, <2>4, <2>5 DEF Served
  <2> QED
    BY <2>2, <2>6
<1>2. ASSUME NEW u \in users, u \in eligible[g], Served(eligible, users \ {u}, groups)
      PROVE  Served(eligible, users, groups \cup {g})
  <2>1. PICK rest \in [groups -> users \ {u}] :
          /\ \A i \in groups : rest[i] \in eligible[i]
          /\ \A i, j \in groups : i # j => rest[i] # rest[j]
    BY <1>2 DEF Served
  <2> DEFINE f == [i \in groups \cup {g} |-> IF i = g THEN u ELSE rest[i]]
  <2>2. f \in [groups \cup {g} -> users]
    BY <2>1
  <2>3. f[g] = u /\ \A i \in groups : f[i] = rest[i]
    OBVIOUS
  <2> HIDE DEF f
  <2>4. \A i \in groups \cup {g} : f[i] \in eligible[i]
    BY <1>2, <2>1, <2>3
  <2>5. \A i \in groups : f[i] # f[g]
    BY <2>1, <2>3
  <2>6. \A i, j \in groups \cup {g} : i # j => f[i] # f[j]
    BY <2>1, <2>3, <2>5
  <2> QED
    BY <2>2, <2>4, <2>6 DEF Served
<1> QED
  BY <1>1, <1>2

\* The recursion succeeds exactly when the users that are left can serve the groups that are
\* left.
LEMMA SucceedsWhenServed ==
  ASSUME NEW groups, NEW roles, Len(groups) \in Nat
  PROVE  \A n \in 0..Len(groups) : \A users \in SUBSET DOMAIN roles :
           users \in SucceedsFor(groups, roles)[n] <=>
             Served(Eligible(groups, roles), users, Remaining(groups, n))
<1> DEFINE N == Len(groups)
    matching == SucceedsFor(groups, roles)
    eligible == Eligible(groups, roles)
    Agree(n) == \A users \in SUBSET DOMAIN roles :
                  users \in matching[n] <=> Served(eligible, users, Remaining(groups, n))
    G == {n \in 0..N : Agree(n)}
<1>1. matching[0] = SUBSET DOMAIN roles
  BY SucceedsForDef
<1>2. \A n \in 1..N : \A users \in SUBSET DOMAIN roles :
        users \in matching[n] <=>
          \E u \in users : CanStand(groups, roles, n, u) /\ users \ {u} \in matching[n - 1]
  BY SucceedsForDef
<1>3. \A n \in 1..N : \A u \in DOMAIN roles :
        CanStand(groups, roles, n, u) <=> u \in eligible[N - n + 1]
  BY RemainingGroups DEF CanStand, Eligible
<1> HIDE DEF matching, eligible
<1>4. Agree(0)
  <2> SUFFICES ASSUME NEW users \in SUBSET DOMAIN roles
               PROVE  Served(eligible, users, {})
    BY <1>1, RemainingGroups
  <2>1. [i \in {} |-> 0] \in [{} -> users]
    OBVIOUS
  <2> QED
    BY <2>1 DEF Served
<1>5. ASSUME NEW n \in 1..N, Agree(n - 1)
      PROVE  Agree(n)
  <2> SUFFICES ASSUME NEW users \in SUBSET DOMAIN roles
               PROVE  users \in matching[n] <=> Served(eligible, users, Remaining(groups, n))
    OBVIOUS
  <2> DEFINE g == N - n + 1
      rest == Remaining(groups, n - 1)
  <2>1. Remaining(groups, n) = rest \cup {g} /\ g \notin rest
    BY RemainingGroups
  <2>2. \A u \in users : users \ {u} \in matching[n - 1] <=> Served(eligible, users \ {u}, rest)
    BY <1>5
  <2>3. users \in matching[n] <=>
          \E u \in users : u \in eligible[g] /\ Served(eligible, users \ {u}, rest)
    BY <1>2, <1>3, <2>2
  <2> HIDE DEF g, rest
  <2>4. Served(eligible, users, rest \cup {g}) <=>
          \E u \in users : u \in eligible[g] /\ Served(eligible, users \ {u}, rest)
    BY <2>1, ServedOneMore
  <2> QED
    BY <2>1, <2>3, <2>4
<1> HIDE DEF Agree
<1>6. N \in Nat /\ 0 \in G /\ \A n \in 1..N : n - 1 \in G => n \in G
  BY <1>4, <1>5
<1>7. 0..N \subseteq G
  <2> HIDE DEF G, N
  <2> QED
    BY <1>6, UpTo
<1> QED
  BY <1>7 DEF Agree, matching, eligible

\* matching_roles says yes exactly when every group of the policy can be given a human of its
\* own who has one of its roles (tools.py:90).
THEOREM MatchingGivesDifferentHumans ==
  ASSUME NEW groups, NEW roles, IsSequence(groups)
  PROVE  MatchingRoles(groups, roles) <=>
           \E f \in [1..Len(groups) -> DOMAIN roles] :
             /\ \A i \in 1..Len(groups) : roles[f[i]] \cap groups[i] # {}
             /\ \A i, j \in 1..Len(groups) : i # j => f[i] # f[j]
<1> DEFINE N == Len(groups)
<1>1. N \in Nat
  BY SequencesOf
<1>2. MatchingRoles(groups, roles) <=> Served(Eligible(groups, roles), DOMAIN roles, 1..N)
  BY <1>1, SucceedsWhenServed, RemainingGroups DEF MatchingRoles
<1>3. \A u \in DOMAIN roles, i \in 1..N :
        u \in Eligible(groups, roles)[i] <=> roles[u] \cap groups[i] # {}
  BY DEF Eligible
<1> HIDE DEF N
<1>4. MatchingRoles(groups, roles) <=>
        \E f \in [1..N -> DOMAIN roles] :
          /\ \A i \in 1..N : roles[f[i]] \cap groups[i] # {}
          /\ \A i, j \in 1..N : i # j => f[i] # f[j]
  BY <1>2, <1>3 DEF Served
<1> QED
  BY <1>4 DEF N

-----------------------------------------------------------------------------
Reached(eligible, users, some) == {u \in users : \E i \in some : u \in eligible[i]}

Suffice(eligible, users, groups) ==
  \A some \in SUBSET groups : Cardinality(Reached(eligible, users, some)) >= Cardinality(some)

\* Finitely many users are reached from any groups.
LEMMA ReachedFinite ==
  ASSUME NEW eligible, NEW users, IsFiniteSet(users), NEW some
  PROVE  /\ IsFiniteSet(Reached(eligible, users, some))
         /\ Cardinality(Reached(eligible, users, some)) \in Nat
<1>1. Reached(eligible, users, some) \in SUBSET users
  BY DEF Reached
<1> QED
  BY <1>1, FS_Subset, FS_CardinalityType

\* Sets of groups that reach as many users as they need and no more are closed under union.
LEMMA TightUnion ==
  ASSUME NEW eligible, NEW users, IsFiniteSet(users), NEW groups, IsFiniteSet(groups),
         Suffice(eligible, users, groups),
         NEW A \in SUBSET groups, NEW B \in SUBSET groups,
         Cardinality(Reached(eligible, users, A)) = Cardinality(A),
         Cardinality(Reached(eligible, users, B)) = Cardinality(B)
  PROVE  Cardinality(Reached(eligible, users, A \cup B)) = Cardinality(A \cup B)
<1> DEFINE R(some) == Reached(eligible, users, some)
<1>1. R(A \cup B) = R(A) \cup R(B) /\ R(A \cap B) \subseteq R(A) \cap R(B)
  BY DEF Reached
<1>2. IsFiniteSet(A) /\ IsFiniteSet(B) /\ IsFiniteSet(A \cap B) /\ IsFiniteSet(A \cup B)
      /\ A \cap B \in SUBSET groups /\ A \cup B \in SUBSET groups
  BY SubsetCounts
<1>3. Cardinality(A \cup B) = Cardinality(A) + Cardinality(B) - Cardinality(A \cap B)
  BY <1>2, FS_Union
<1>4. /\ Cardinality(A) \in Nat /\ Cardinality(B) \in Nat /\ Cardinality(A \cap B) \in Nat
      /\ Cardinality(A \cup B) \in Nat
  BY <1>2, FS_CardinalityType
<1>5. /\ IsFiniteSet(R(A)) /\ IsFiniteSet(R(B)) /\ IsFiniteSet(R(A) \cap R(B))
      /\ Cardinality(R(A) \cap R(B)) \in Nat /\ Cardinality(R(A \cup B)) \in Nat
      /\ Cardinality(R(A \cap B)) \in Nat
  <2> HIDE DEF R
  <2>1. IsFiniteSet(R(A)) /\ IsFiniteSet(R(B)) /\ Cardinality(R(A \cup B)) \in Nat
        /\ Cardinality(R(A \cap B)) \in Nat
    BY ReachedFinite DEF R
  <2> QED
    BY <2>1, SubsetCounts
<1>6. Cardinality(R(A \cap B)) >= Cardinality(A \cap B)
      /\ Cardinality(R(A \cup B)) >= Cardinality(A \cup B)
  BY <1>2 DEF Suffice
<1>7. Cardinality(R(A)) = Cardinality(A) /\ Cardinality(R(B)) = Cardinality(B)
  OBVIOUS
<1> HIDE DEF R
<1>8. Cardinality(R(A \cup B)) =
        Cardinality(R(A)) + Cardinality(R(B)) - Cardinality(R(A) \cap R(B))
  BY <1>1, <1>5, FS_Union
<1>9. Cardinality(R(A \cap B)) <= Cardinality(R(A) \cap R(B))
  BY <1>1, <1>5, SubsetCounts
<1>10. Cardinality(R(A \cup B)) = Cardinality(A \cup B)
  BY <1>3, <1>4, <1>5, <1>6, <1>7, <1>8, <1>9
<1> QED
  BY <1>10 DEF R

ClosedUnderUnion(T) == \A A, B \in T : A \cup B \in T

\* Of some finitely many groups that are closed under union there is a set with all others.
LEMMA LargestTight ==
  ASSUME NEW groups, IsFiniteSet(groups), NEW Tight, Tight \subseteq SUBSET groups, Tight # {},
         ClosedUnderUnion(Tight)
  PROVE  \E A \in Tight : \A B \in Tight : B \subseteq A
<1> DEFINE Rest(A) == Cardinality(groups) - Cardinality(A)
    Rests == {Rest(A) : A \in Tight}
<1>1. \A A \in Tight : IsFiniteSet(A) /\ Cardinality(A) \in Nat /\ Cardinality(groups) \in Nat
                       /\ Cardinality(A) <= Cardinality(groups)
  BY SubsetCounts
<1>2. Rests \subseteq Nat /\ Rests # {}
  BY <1>1
<1>3. PICK m \in Rests : \A n \in Rests : m <= n
  <2> HIDE DEF Rests
  <2> QED
    BY <1>2, Least
<1>4. PICK A \in Tight : m = Rest(A)
  OBVIOUS
<1>5. ASSUME NEW B \in Tight
      PROVE  B \subseteq A
  <2>1. A \cup B \in Tight
    BY DEF ClosedUnderUnion
  <2>2. Rest(A) <= Rest(A \cup B)
    BY <1>3, <1>4, <2>1
  <2>3. Cardinality(A \cup B) <= Cardinality(A)
    BY <1>1, <2>1, <2>2
  <2>4. Cardinality(A) <= Cardinality(A \cup B) /\ IsFiniteSet(A \cup B)
        /\ (Cardinality(A) = Cardinality(A \cup B) => A = A \cup B)
    <3>1. IsFiniteSet(A \cup B) /\ A \subseteq A \cup B
      BY <1>1, <2>1
    <3> QED
      BY <3>1, SubsetCounts
  <2>5. A = A \cup B
    BY <1>1, <2>1, <2>3, <2>4
  <2> QED
    BY <2>5
<1> QED
  BY <1>5

\* Hall's exchange: when any number of groups reaches as many users, one more group can
\* be given a user without spoiling that for the others.
LEMMA CanSpare ==
  ASSUME NEW eligible, NEW users, IsFiniteSet(users), NEW groups, IsFiniteSet(groups),
         NEW g, g \notin groups, Suffice(eligible, users, groups \cup {g})
  PROVE  \E u \in users : u \in eligible[g] /\ Suffice(eligible, users \ {u}, groups)
<1> DEFINE R(some) == Reached(eligible, users, some)
    Tight == {A \in SUBSET groups : Cardinality(R(A)) = Cardinality(A)}
<1> SUFFICES ASSUME \A u \in users : u \in eligible[g] => ~Suffice(eligible, users \ {u}, groups)
             PROVE  FALSE
  OBVIOUS
<1>1. Suffice(eligible, users, groups)
  BY DEF Suffice
<1>2. PICK A \in Tight : \A B \in Tight : B \subseteq A
  <2>1. Tight # {}
    <3>1. R({}) = {}
      BY DEF Reached
    <3>2. {} \in Tight
      BY <3>1
    <3> QED
      BY <3>2
  <2>2. ClosedUnderUnion(Tight)
    <3> SUFFICES ASSUME NEW B \in Tight, NEW C \in Tight
                 PROVE  Cardinality(R(B \cup C)) = Cardinality(B \cup C)
      BY DEF ClosedUnderUnion
    <3> QED
      BY <1>1, TightUnion
  <2>3. Tight \subseteq SUBSET groups
    OBVIOUS
  <2> HIDE DEF Tight
  <2> QED
    BY <2>1, <2>2, <2>3, LargestTight
<1>3. ASSUME NEW u \in users, u \in eligible[g]
      PROVE  u \in R(A)
  <2>1. PICK B \in SUBSET groups :
          ~(Cardinality(Reached(eligible, users \ {u}, B)) >= Cardinality(B))
    BY <1>3 DEF Suffice
  <2>2. Reached(eligible, users \ {u}, B) = R(B) \ {u}
    BY Zenon DEF Reached
  <2>3. IsFiniteSet(R(B)) /\ Cardinality(R(B)) \in Nat /\ Cardinality(B) \in Nat
    <3>1. IsFiniteSet(R(B)) /\ Cardinality(R(B)) \in Nat
      BY ReachedFinite
    <3>2. B \subseteq groups
      OBVIOUS
    <3> HIDE DEF R
    <3> QED
      BY <3>1, <3>2, SubsetCounts
  <2>4. Cardinality(R(B)) >= Cardinality(B)
    BY <1>1 DEF Suffice
  <2> HIDE DEF R
  <2>5. Cardinality(R(B) \ {u}) = IF u \in R(B) THEN Cardinality(R(B)) - 1 ELSE Cardinality(R(B))
    BY <2>3, FS_RemoveElement
  <2>6. u \in R(B) /\ Cardinality(R(B)) = Cardinality(B)
    <3>1. ~(Cardinality(R(B) \ {u}) >= Cardinality(B))
      BY <2>1, <2>2
    <3> QED
      BY <3>1, <2>3, <2>4, <2>5
  <2>7. B \subseteq A
    BY <1>2, <2>6
  <2> QED
    BY <2>6, <2>7 DEF R, Reached
<1>4. R(A \cup {g}) = R(A)
  BY <1>3 DEF Reached
<1>5. Cardinality(R(A \cup {g})) >= Cardinality(A \cup {g})
  BY DEF Suffice
<1>6. IsFiniteSet(A) /\ Cardinality(A) \in Nat /\ g \notin A
  BY SubsetCounts
<1>7. Cardinality(A \cup {g}) = Cardinality(A) + 1
  BY <1>6, FS_AddElement
<1>8. Cardinality(R(A)) = Cardinality(A)
  OBVIOUS
<1> HIDE DEF R
<1> QED
  BY <1>4, <1>5, <1>6, <1>7, <1>8

\* The converse: whatever is given to one more group, any number of groups still reaches
\* as many users.
LEMMA OneMore ==
  ASSUME NEW eligible, NEW users, IsFiniteSet(users), NEW groups, IsFiniteSet(groups),
         NEW g, NEW u \in users, u \in eligible[g], Suffice(eligible, users \ {u}, groups)
  PROVE  Suffice(eligible, users, groups \cup {g})
<1> SUFFICES ASSUME NEW some \in SUBSET (groups \cup {g})
             PROVE  Cardinality(Reached(eligible, users, some)) >= Cardinality(some)
  BY DEF Suffice
<1> DEFINE rest == some \ {g}
    few == Reached(eligible, users \ {u}, rest)
    many == Reached(eligible, users, some)
<1>1. rest \in SUBSET groups /\ IsFiniteSet(rest) /\ Cardinality(rest) \in Nat
  BY SubsetCounts
<1>2. Cardinality(few) >= Cardinality(rest)
  BY <1>1 DEF Suffice
<1>3. IsFiniteSet(users \ {u})
  BY SubsetCounts
<1>4. IsFiniteSet(few) /\ Cardinality(few) \in Nat /\ IsFiniteSet(many) /\ Cardinality(many) \in Nat
  <2> HIDE DEF rest
  <2> QED
    BY <1>3, ReachedFinite
<1>5. few \subseteq many /\ u \notin few
  BY DEF Reached
<1>6. CASE g \notin some
  <2>1. rest = some
    BY <1>6
  <2>2. Cardinality(few) <= Cardinality(many)
    BY <1>4, <1>5, SubsetCounts
  <2> QED
    BY <2>1, <2>2, <1>1, <1>2, <1>4
<1>7. CASE g \in some
  <2>1. some = rest \cup {g} /\ g \notin rest
    BY <1>7
  <2> HIDE DEF rest
  <2>2. Cardinality(some) = Cardinality(rest) + 1
    BY <2>1, <1>1, FS_AddElement
  <2>3. few \cup {u} \subseteq many
    BY <1>5, <1>7 DEF Reached
  <2> HIDE DEF few, many
  <2>4. Cardinality(few \cup {u}) = Cardinality(few) + 1
    BY <1>4, <1>5, FS_AddElement
  <2>5. Cardinality(few \cup {u}) <= Cardinality(many)
    BY <2>3, <1>4, SubsetCounts
  <2>6. Cardinality(many) >= Cardinality(some)
    BY <1>1, <1>2, <1>4, <2>2, <2>4, <2>5
  <2> QED
    BY <2>6 DEF many
<1> QED
  BY <1>6, <1>7

\* The recursion succeeds exactly when any number of the groups that are left reaches as
\* many of the users that are left.
LEMMA MatchingIsEnough ==
  ASSUME NEW groups, NEW roles, Len(groups) \in Nat, IsFiniteSet(DOMAIN roles)
  PROVE  \A n \in 0..Len(groups) : \A users \in SUBSET DOMAIN roles :
           users \in SucceedsFor(groups, roles)[n] <=>
             Suffice(Eligible(groups, roles), users, Remaining(groups, n))
<1> DEFINE N == Len(groups)
    matching == SucceedsFor(groups, roles)
    eligible == Eligible(groups, roles)
    Agree(n) == \A users \in SUBSET DOMAIN roles :
                  users \in matching[n] <=> Suffice(eligible, users, Remaining(groups, n))
    G == {n \in 0..N : Agree(n)}
<1>1. matching[0] = SUBSET DOMAIN roles
  BY SucceedsForDef
<1>2. \A n \in 1..N : \A users \in SUBSET DOMAIN roles :
        users \in matching[n] <=>
          \E u \in users : CanStand(groups, roles, n, u) /\ users \ {u} \in matching[n - 1]
  BY SucceedsForDef
<1>3. \A n \in 1..N : \A u \in DOMAIN roles :
        CanStand(groups, roles, n, u) <=> u \in eligible[N - n + 1]
  BY RemainingGroups DEF CanStand, Eligible
<1> HIDE DEF matching, eligible
<1>4. Agree(0)
  <2> SUFFICES ASSUME NEW users \in SUBSET DOMAIN roles
               PROVE  \A some \in SUBSET Remaining(groups, 0) :
                        Cardinality(Reached(eligible, users, some)) >= Cardinality(some)
    BY <1>1 DEF Suffice
  <2> SUFFICES ASSUME NEW some \in SUBSET Remaining(groups, 0)
               PROVE  Cardinality(Reached(eligible, users, some)) >= Cardinality(some)
    OBVIOUS
  <2>1. some = {}
    BY RemainingGroups
  <2>2. Reached(eligible, users, {}) = {}
    BY DEF Reached
  <2>3. Cardinality({}) >= Cardinality({})
    BY FS_EmptySet
  <2> QED
    BY <2>1, <2>2, <2>3
<1>5. ASSUME NEW n \in 1..N, Agree(n - 1)
      PROVE  Agree(n)
  <2> SUFFICES ASSUME NEW users \in SUBSET DOMAIN roles
               PROVE  users \in matching[n] <=> Suffice(eligible, users, Remaining(groups, n))
    OBVIOUS
  <2> DEFINE g == N - n + 1
      rest == Remaining(groups, n - 1)
  <2>1. Remaining(groups, n) = rest \cup {g} /\ g \notin rest /\ IsFiniteSet(rest)
    BY RemainingGroups
  <2>2. IsFiniteSet(users)
    BY SubsetCounts
  <2>3. \A u \in users : users \ {u} \in matching[n - 1] <=> Suffice(eligible, users \ {u}, rest)
    BY <1>5
  <2>4. users \in matching[n] <=>
          \E u \in users : u \in eligible[g] /\ Suffice(eligible, users \ {u}, rest)
    BY <1>2, <1>3, <2>3
  <2> HIDE DEF g, rest
  <2>5. ASSUME NEW u \in users, u \in eligible[g], Suffice(eligible, users \ {u}, rest)
        PROVE  Suffice(eligible, users, rest \cup {g})
    BY <2>1, <2>2, <2>5, OneMore
  <2>6. ASSUME Suffice(eligible, users, rest \cup {g})
        PROVE  \E u \in users : u \in eligible[g] /\ Suffice(eligible, users \ {u}, rest)
    BY <2>1, <2>2, <2>6, CanSpare
  <2> QED
    BY <2>1, <2>4, <2>5, <2>6
<1> HIDE DEF Agree
<1>6. N \in Nat /\ 0 \in G /\ \A n \in 1..N : n - 1 \in G => n \in G
  BY <1>4, <1>5
<1>7. 0..N \subseteq G
  <2> HIDE DEF G, N
  <2> QED
    BY <1>6, UpTo
<1> QED
  BY <1>7 DEF Agree, matching, eligible

\* A policy is met exactly when any number of its groups has as many humans who are
\* eligible for one of them, which Hall's theorem says is when there are different ones.
LEMMA HumansSuffice ==
  ASSUME NEW groups, NEW roles, IsSequence(groups), IsFiniteSet(DOMAIN roles)
  PROVE  MatchingRoles(groups, roles) <=>
           \A some \in SUBSET DOMAIN groups :
             Cardinality({u \in DOMAIN roles : \E i \in some : roles[u] \cap groups[i] # {}})
               >= Cardinality(some)
<1> DEFINE Humans(some) ==
      {u \in DOMAIN roles : \E i \in some : roles[u] \cap groups[i] # {}}
<1>1. Len(groups) \in Nat /\ DOMAIN groups = 1..Len(groups)
  BY SequencesOf
<1>2. MatchingRoles(groups, roles) <=>
        Suffice(Eligible(groups, roles), DOMAIN roles, 1..Len(groups))
  BY <1>1, MatchingIsEnough, RemainingGroups DEF MatchingRoles
<1>3. \A some \in SUBSET (1..Len(groups)) :
        Reached(Eligible(groups, roles), DOMAIN roles, some) = Humans(some)
  BY <1>1 DEF Reached, Eligible
<1> HIDE DEF Humans
<1>4. MatchingRoles(groups, roles) <=>
        \A some \in SUBSET DOMAIN groups : Cardinality(Humans(some)) >= Cardinality(some)
  BY <1>1, <1>2, <1>3 DEF Suffice
<1> QED
  BY <1>4 DEF Humans

\* The recursion over groups and users finds distinct humans exactly when there are any
\* (tools.py:90), however many groups a policy has.
THEOREM MatchingIsHall == Spec => []EnoughHumans
<1>1. CallInv => EnoughHumans
  <2> SUFFICES ASSUME CallInv, Answered("matching_roles")
               PROVE  answer <=>
                        \A some \in SUBSET DOMAIN call.groups :
                          Cardinality({u \in DOMAIN call.roles :
                            \E i \in some : call.roles[u] \cap call.groups[i] # {}})
                              >= Cardinality(some)
    BY DEF EnoughHumans
  <2>1. answer = MatchingRoles(call.groups, call.roles)
    BY DEF CallInv, Given, Answered
  <2>2. IsSequence(call.groups) /\ IsFiniteSet(DOMAIN call.roles)
    BY CallsAssumption DEF CallInv, Answered
  <2>3. MatchingRoles(call.groups, call.roles) <=>
                        \A some \in SUBSET DOMAIN call.groups :
                          Cardinality({u \in DOMAIN call.roles :
                            \E i \in some : call.roles[u] \cap call.groups[i] # {}})
                              >= Cardinality(some)
    BY <2>2, HumansSuffice
  <2> QED
    BY <2>1, <2>3
<1> QED
  BY <1>1, AnswersAreComputed, PTL

-----------------------------------------------------------------------------
\* Rows of different chunks with times.
Timed(rows) ==
  /\ IsFiniteSet(rows)
  /\ \A r \in rows : r.time \in Nat /\ r.chunk \in Nat
  /\ \A r, s \in rows : r.chunk = s.chunk => r = s

Ascending(s, rows) ==
  \A i, j \in 1..Cardinality(rows) : i < j => Before(s[i], s[j])

\* Rows of different chunks can be sorted: a row comes after as many as are before it.
LEMMA CanSort ==
  ASSUME NEW rows, Timed(rows)
  PROVE  \E s \in [1..Cardinality(rows) -> rows] : Ascending(s, rows)
<1> DEFINE N == Cardinality(rows)
    Earlier(r) == {q \in rows : Before(q, r)}
    rank == [r \in rows |-> Cardinality(Earlier(r)) + 1]
<1>1. N \in Nat /\ IsFiniteSet(rows)
  BY FS_CardinalityType DEF Timed
<1>2. \A q, r \in rows : q # r => Before(q, r) \/ Before(r, q)
  BY DEF Timed, Before
<1>3. \A q, r \in rows : Before(q, r) => ~Before(r, q) /\ q # r
  BY DEF Timed, Before
<1>4. \A p, q, r \in rows : Before(p, q) /\ Before(q, r) => Before(p, r)
  BY DEF Timed, Before
<1>5. \A r \in rows : ~Before(r, r)
  BY <1>3
<1>6. ASSUME NEW r \in rows
      PROVE  Cardinality(Earlier(r)) \in Nat /\ Cardinality(Earlier(r)) < N
  <2>1. Earlier(r) \subseteq rows /\ r \notin Earlier(r)
    BY <1>5
  <2> HIDE DEF Earlier
  <2> QED
    BY <2>1, <1>1, SubsetCounts
<1>7. ASSUME NEW q \in rows, NEW r \in rows, Before(q, r)
      PROVE  rank[q] < rank[r]
  <2>1. Earlier(q) \subseteq Earlier(r) /\ q \in Earlier(r) /\ q \notin Earlier(q)
    BY <1>4, <1>5, <1>7
  <2>2. Earlier(r) \subseteq rows
    OBVIOUS
  <2> HIDE DEF Earlier
  <2>3. IsFiniteSet(Earlier(r))
    BY <2>2, <1>1, SubsetCounts
  <2>4. /\ Cardinality(Earlier(q)) <= Cardinality(Earlier(r))
        /\ Cardinality(Earlier(q)) # Cardinality(Earlier(r))
    BY <2>1, <2>3, SubsetCounts
  <2> QED
    BY <2>4, <1>6
<1>8. rank \in [rows -> 1..N]
  <2> HIDE DEF Earlier
  <2> QED
    BY <1>1, <1>6
<1> HIDE DEF rank
<1>9. rank \in Injection(rows, 1..N)
  <2>1. \A q, r \in rows : rank[q] = rank[r] => q = r
    <3> SUFFICES ASSUME NEW q \in rows, NEW r \in rows, rank[q] = rank[r], q # r PROVE FALSE
      OBVIOUS
    <3>1. rank[q] \in Int /\ rank[r] \in Int /\ ~(rank[q] < rank[r]) /\ ~(rank[r] < rank[q])
      BY <1>8
    <3> QED
      BY <3>1, <1>2, <1>7
  <2> QED
    BY <2>1, <1>8 DEF Injection, IsInjective
<1>10. \A i \in 1..N : \E r \in rows : rank[r] = i
  <2>1. IsFiniteSet(1..N) /\ Cardinality(1..N) = N
    BY <1>1, FS_Interval
  <2>2. rank \in Surjection(rows, 1..N)
    BY <1>9, <2>1, FS_Injection
  <2> QED
    BY <2>2 DEF Surjection
<1> DEFINE s == [i \in 1..N |-> CHOOSE r \in rows : rank[r] = i]
<1>11. \A i \in 1..N : s[i] \in rows /\ rank[s[i]] = i
  BY <1>10
<1>12. s \in [1..N -> rows]
  BY <1>11
<1> HIDE DEF s
<1>13. ASSUME NEW i \in 1..N, NEW j \in 1..N, i < j
       PROVE  Before(s[i], s[j])
  <2>1. s[i] \in rows /\ s[j] \in rows /\ rank[s[i]] = i /\ rank[s[j]] = j
    BY <1>11
  <2>2. s[i] # s[j]
    BY <2>1, <1>13
  <2>3. ~Before(s[j], s[i])
    BY <2>1, <1>7, <1>13
  <2> QED
    BY <2>1, <2>2, <2>3, <1>2
<1> QED
  BY <1>12, <1>13 DEF Ascending

\* Sorted lists every row once, in ascending order.
LEMMA SortedRows ==
  ASSUME NEW rows, Timed(rows)
  PROVE  /\ Cardinality(rows) \in Nat
         /\ Sorted(rows) \in [1..Cardinality(rows) -> rows]
         /\ \A i, j \in 1..Cardinality(rows) :
              i < j => Before(Sorted(rows)[i], Sorted(rows)[j])
         /\ \A i, j \in 1..Cardinality(rows) : Sorted(rows)[i] = Sorted(rows)[j] => i = j
         /\ \A r \in rows : \E i \in 1..Cardinality(rows) : Sorted(rows)[i] = r
<1> DEFINE N == Cardinality(rows)
    s == Sorted(rows)
<1>1. N \in Nat /\ IsFiniteSet(rows)
  BY FS_CardinalityType DEF Timed
<1>2. s \in [1..N -> rows] /\ Ascending(s, rows)
  BY CanSort DEF Sorted, Ascending
<1> HIDE DEF s, N
<1>3. \A i, j \in 1..N : i < j => Before(s[i], s[j])
  BY <1>2 DEF Ascending, N
<1>4. \A i, j \in 1..N : s[i] = s[j] => i = j
  <2> SUFFICES ASSUME NEW i \in 1..N, NEW j \in 1..N, i < j, s[i] = s[j] PROVE FALSE
    BY <1>1
  <2>1. s[i] \in rows /\ Before(s[i], s[i])
    BY <1>2, <1>3
  <2> QED
    BY <2>1 DEF Before, Timed
<1>5. s \in Injection(1..N, rows)
  BY <1>2, <1>4 DEF Injection, IsInjective
<1>6. IsFiniteSet(1..N) /\ Cardinality(1..N) = Cardinality(rows)
  BY <1>1, FS_Interval DEF N
<1>7. s \in Surjection(1..N, rows)
  BY <1>1, <1>5, <1>6, FS_Injection
<1> QED
  BY <1>1, <1>2, <1>3, <1>4, <1>7 DEF Surjection, s, N

\* A prefix of the sorted rows has as many rows, in the order of their times, and none that is
\* left out is earlier.
LEMMA FirstSorted ==
  ASSUME NEW rows, Timed(rows), NEW k \in 0..Cardinality(rows)
  PROVE  LET first == SubSeq(Sorted(rows), 1, k)
             shown == ToSet(first)
         IN  /\ Len(first) = k
             /\ DOMAIN first = 1..k
             /\ \A i, j \in 1..k : i < j => first[i].time <= first[j].time
             /\ shown \subseteq rows
             /\ Cardinality(shown) = k
             /\ \A r \in shown, s \in rows \ shown : r.time <= s.time
             /\ k = Cardinality(rows) <=> shown = rows
<1> DEFINE N == Cardinality(rows)
    s == Sorted(rows)
    first == SubSeq(s, 1, k)
    shown == {s[i] : i \in 1..k}
<1>1. /\ N \in Nat /\ s \in [1..N -> rows]
      /\ \A i, j \in 1..N : i < j => Before(s[i], s[j])
      /\ \A i, j \in 1..N : s[i] = s[j] => i = j
      /\ \A r \in rows : \E i \in 1..N : s[i] = r
  BY SortedRows
<1> HIDE DEF s
<1>2. k \in Nat /\ k <= N /\ \A i \in 1..k : i \in 1..N /\ s[i] \in rows
  BY <1>1
<1>3. /\ Len(first) = k /\ DOMAIN first = 1..k
      /\ \A i \in 1..k : first[i] = s[i]
      /\ ToSet(first) = shown
  <2>1. /\ first \in Seq(rows) /\ Len(first) = IF 1 <= k THEN k - 1 + 1 ELSE 0
        /\ \A i \in 1..k - 1 + 1 : first[i] = s[1 + i - 1]
    BY <1>2, SubSeqProperties
  <2> HIDE DEF first
  <2>2. Len(first) = k /\ \A i \in 1..k : first[i] = s[i]
    BY <2>1, <1>2
  <2>3. DOMAIN first = 1..k
    BY <2>1, <2>2, LenProperties
  <2>4. ToSet(first) = {first[i] : i \in 1..k}
    BY <2>3 DEF ToSet
  <2> QED
    BY <2>2, <2>3, <2>4
<1>4. shown \subseteq rows
  BY <1>2
<1>5. Cardinality(shown) = k
  <2> DEFINE f == [i \in 1..k |-> s[i]]
  <2>1. f \in [1..k -> shown] /\ \A i \in 1..k : f[i] = s[i]
    OBVIOUS
  <2>2. \A x \in shown : \E i \in 1..k : f[i] = x
    OBVIOUS
  <2>3. \A i, j \in 1..k : f[i] = f[j] => i = j
    BY <1>1, <1>2
  <2> HIDE DEF f, shown
  <2>4. f \in Bijection(1..k, shown)
    BY <2>1, <2>2, <2>3 DEF Bijection, Injection, Surjection, IsInjective
  <2>5. ExistsBijection(1..k, shown)
    BY <2>4 DEF ExistsBijection
  <2> QED
    BY <2>5, <1>2, FS_CountingElements
<1>6. ASSUME NEW r \in shown, NEW q \in rows \ shown
      PROVE  r.time <= q.time
  <2>1. PICK i \in 1..k : r = s[i]
    OBVIOUS
  <2>2. PICK j \in 1..N : q = s[j]
    BY <1>1
  <2>3. ~(j \in 1..k)
    BY <2>2
  <2>4. i < j /\ i \in 1..N
    BY <2>3, <1>2
  <2>5. Before(r, q)
    BY <2>1, <2>2, <2>4, <1>1
  <2>6. r \in rows /\ q \in rows
    BY <1>4
  <2> QED
    BY <2>5, <2>6 DEF Before, Timed
<1>7. k = N <=> shown = rows
  <2>1. ASSUME k = N PROVE shown = rows
    BY <2>1, <1>1, <1>4
  <2> HIDE DEF shown
  <2> QED
    BY <2>1, <1>5
<1> HIDE DEF shown, first
<1>8. \A i, j \in 1..k : i < j => first[i].time <= first[j].time
  <2> SUFFICES ASSUME NEW i \in 1..k, NEW j \in 1..k, i < j
               PROVE  first[i].time <= first[j].time
    OBVIOUS
  <2>1. first[i] = s[i] /\ first[j] = s[j] /\ s[i] \in rows /\ s[j] \in rows
    BY <1>2, <1>3
  <2>2. Before(s[i], s[j])
    BY <1>1, <1>2
  <2> QED
    BY <2>1, <2>2 DEF Before, Timed
<1>9. /\ Len(first) = k
      /\ DOMAIN first = 1..k
      /\ \A i, j \in 1..k : i < j => first[i].time <= first[j].time
      /\ ToSet(first) \subseteq rows
      /\ Cardinality(ToSet(first)) = k
      /\ \A r \in ToSet(first), q \in rows \ ToSet(first) : r.time <= q.time
      /\ k = N <=> ToSet(first) = rows
  BY <1>3, <1>4, <1>5, <1>6, <1>7, <1>8
<1> QED
  BY <1>9 DEF first, s

\* A page of a timeline shows the first rows of the window, in order of their times, and says
\* whether it leaves any out (tools.py:342), for any rows, bounds and limit.
THEOREM PagesAreHonest == Spec => []TimelineIsHonest
<1>1. CallInv => TimelineIsHonest
  <2> DEFINE bounded == call.start > 0 \/ call.end > 0
      window == {r \in call.rows : /\ r.matches
                                   /\ bounded => r.time > 0
                                   /\ r.time >= call.start
                                   /\ call.end > 0 => r.time <= call.end}
      matched == {r \in call.rows : InWindow(r, call.start, call.end)}
      N == Cardinality(matched)
      k == IF N < call.limit THEN N ELSE call.limit
      shown == ToSet(answer.rows)
  <2> SUFFICES ASSUME CallInv, Answered("bounded_rows"), answer # Refused
               PROVE  /\ shown \subseteq window
                      /\ Len(answer.rows) = Cardinality(shown)
                      /\ \A i, j \in DOMAIN answer.rows :
                           i < j => answer.rows[i].time <= answer.rows[j].time
                      /\ \A r \in shown, s \in window \ shown : r.time <= s.time
                      /\ answer.truncated <=> shown # window
                      /\ answer.matched = Cardinality(window)
    BY DEF TimelineIsHonest
  <2>1. answer = BoundedRows(call.rows, call.start, call.end, call.limit)
    BY DEF CallInv, Given, Answered
  <2>2. /\ call.start \in Nat /\ call.end \in Nat /\ call.limit \in Nat
        /\ Timed(call.rows)
    BY CallsAssumption DEF CallInv, Answered, Timed
  <2>3. matched = window
    <3>1. \A r \in call.rows : InWindow(r, call.start, call.end) <=>
            /\ r.matches
            /\ bounded => r.time > 0
            /\ r.time >= call.start
            /\ call.end > 0 => r.time <= call.end
      BY <2>2 DEF InWindow, Timed
    <3> QED
      BY <3>1
  <2>4. Timed(matched)
    <3>1. matched \subseteq call.rows
      OBVIOUS
    <3> HIDE DEF matched
    <3> QED
      BY <2>2, <3>1, SubsetCounts DEF Timed
  <2>5. answer = [rows |-> SubSeq(Sorted(matched), 1, IF Len(Sorted(matched)) < call.limit
                                                     THEN Len(Sorted(matched)) ELSE call.limit),
                  matched |-> N, truncated |-> N > call.limit]
    BY <2>1 DEF BoundedRows
  <2> HIDE DEF matched, window
  <2>6. N \in Nat /\ Len(Sorted(matched)) = N
    BY <2>4, SortedRows
  <2>7. /\ answer.rows = SubSeq(Sorted(matched), 1, k)
        /\ answer.matched = N /\ answer.truncated = (N > call.limit)
    BY <2>5, <2>6
  <2>8. k \in 0..N /\ (N > call.limit <=> k # N)
    BY <2>2, <2>6
  <2> HIDE DEF k
  <2>9. /\ Len(answer.rows) = k
        /\ \A i, j \in DOMAIN answer.rows : i < j => answer.rows[i].time <= answer.rows[j].time
        /\ shown \subseteq matched
        /\ Cardinality(shown) = k
        /\ \A r \in shown, s \in matched \ shown : r.time <= s.time
        /\ k = N <=> shown = matched
    BY <2>4, <2>7, <2>8, FirstSorted
  <2> HIDE DEF shown, N
  <2>10. answer.truncated <=> shown # matched
    BY <2>7, <2>8, <2>9
  <2> QED
    BY <2>3, <2>7, <2>9, <2>10 DEF N
<1> QED
  BY <1>1, AnswersAreComputed, PTL

-----------------------------------------------------------------------------
RowsOf(lines) == {Row(lines[i].self, "line", i) : i \in 1..Len(lines)}

\* The loop over the lines.
LEMMA RowsOfLinesDef ==
  ASSUME NEW lines, Len(lines) \in Nat
  PROVE  /\ RowsOfLines(lines) \in [0..Len(lines) -> Seq(RowsOf(lines))]
         /\ RowsOfLines(lines)[0] = <<>>
         /\ \A n \in 1..Len(lines) :
              RowsOfLines(lines)[n] =
                IF lines[n] = Blank THEN RowsOfLines(lines)[n - 1]
                ELSE Append(RowsOfLines(lines)[n - 1], Row(lines[n].self, "line", n))
<1> DEFINE N == Len(lines)
    row(n) == Row(lines[n].self, "line", n)
    V == Seq(RowsOf(lines))
    Step(before, n) == IF lines[n] = Blank THEN before ELSE Append(before, row(n))
    step == [n \in 1..N |-> [before \in V |-> Step(before, n)]]
    Defines(f) == f = [n \in 0..N |-> IF n = 0 THEN <<>> ELSE Step(f[n - 1], n)]
<1>1. \A before \in V, n \in 1..N : Step(before, n) \in V
  <2>1. \A n \in 1..N : row(n) \in RowsOf(lines)
    BY DEF RowsOf
  <2> HIDE DEF row
  <2> QED
    BY <2>1
<1>2. PICK f \in [0..N -> V] : Defines(f)
  <2> HIDE DEF Step
  <2>1. \A n \in 1..N, before \in V : step[n][before] \in V
    BY <1>1
  <2>2. \A n \in 1..N, before \in V : step[n][before] = Step(before, n)
    OBVIOUS
  <2> DEFINE none == <<>>
  <2>3. N \in Nat /\ none \in V
    OBVIOUS
  <2> HIDE DEF step, V, N, none
  <2>4. PICK f \in [0..N -> V] : Computes(f, N, none, step)
    BY <2>1, <2>3, Iterates
  <2>5. \A n \in 0..N : f[n] = IF n = 0 THEN none ELSE Step(f[n - 1], n)
    <3>1. ASSUME NEW n \in 1..N PROVE f[n] = Step(f[n - 1], n)
      <4>1. n - 1 \in 0..N
        BY <2>3
      <4> QED
        BY <4>1, <2>2, <2>4 DEF Computes
    <3> QED
      BY <3>1, <2>4 DEF Computes
  <2>6. Defines(f)
    BY <2>4, <2>5 DEF none
  <2> HIDE DEF Defines
  <2> QED
    BY <2>6
<1>3. RowsOfLines(lines) = CHOOSE g : Defines(g)
  BY DEF RowsOfLines
<1> DEFINE rows == RowsOfLines(lines)
<1>4. Defines(rows)
  <2> HIDE DEF Defines
  <2> QED
    BY <1>2, <1>3
<1>5. rows = f
  <2> DEFINE G == {n \in 0..N : rows[n] = f[n]}
  <2> HIDE DEF Step
  <2>1. 0 \in G
    BY <1>2, <1>4
  <2>2. \A n \in 1..N : n - 1 \in G => n \in G
    BY <1>2, <1>4
  <2>3. N \in Nat
    OBVIOUS
  <2>4. 0..N \subseteq G
    <3> HIDE DEF G, N
    <3> QED
      BY <2>1, <2>2, <2>3, UpTo
  <2> QED
    BY <1>2, <1>4, <2>4
<1>6. \A n \in 0..N : rows[n] = IF n = 0 THEN <<>> ELSE Step(rows[n - 1], n)
  <2> HIDE DEF Step
  <2> QED
    BY <1>4
<1>7. 0 \in 0..N /\ \A n \in 1..N : n \in 0..N /\ n # 0
  OBVIOUS
<1>8. rows \in [0..N -> V]
  BY <1>5, <1>2
<1> HIDE DEF N
<1>9. rows[0] = <<>> /\ \A n \in 1..N : rows[n] = Step(rows[n - 1], n)
  BY <1>6, <1>7
<1> QED
  BY <1>8, <1>9 DEF N

\* Rows that stand for the first n lines, blank ones left out.
StandFor(rows, lines, n) ==
  /\ Len(rows) = Cardinality({i \in 1..n : lines[i] # Blank})
  /\ \A k \in 1..Len(rows) : \E i \in 1..n : rows[k] = Row(lines[i].self, "line", i)
  /\ \A j, k \in 1..Len(rows) : j < k => rows[j].locator[2] < rows[k].locator[2]

\* A line more is a full line more, or a blank one.
LEMMA NonBlank ==
  ASSUME NEW lines, NEW n \in Nat
  PROVE  LET Full(m) == {i \in 1..m : lines[i] # Blank}
         IN  /\ Cardinality(Full(0)) = 0
             /\ n # 0 => Cardinality(Full(n)) =
                           IF lines[n] = Blank THEN Cardinality(Full(n - 1))
                           ELSE Cardinality(Full(n - 1)) + 1
<1> DEFINE Full(m) == {i \in 1..m : lines[i] # Blank}
<1>1. Full(0) = {}
  OBVIOUS
<1>2. ASSUME n # 0
      PROVE  Cardinality(Full(n)) = IF lines[n] = Blank THEN Cardinality(Full(n - 1))
                                    ELSE Cardinality(Full(n - 1)) + 1
  <2>1. IsFiniteSet(Full(n - 1))
    <3>1. IsFiniteSet(1..n - 1)
      BY FS_Interval
    <3>2. Full(n - 1) \subseteq 1..n - 1
      OBVIOUS
    <3> HIDE DEF Full
    <3> QED
      BY <3>1, <3>2, SubsetCounts
  <2>2. n \notin Full(n - 1)
    OBVIOUS
  <2>3. CASE lines[n] = Blank
    <3>1. Full(n) = Full(n - 1)
      BY <1>2, <2>3
    <3> QED
      BY <3>1, <2>3
  <2>4. CASE lines[n] # Blank
    <3>1. Full(n) = Full(n - 1) \cup {n}
      BY <1>2, <2>4
    <3> HIDE DEF Full
    <3> QED
      BY <3>1, <2>1, <2>2, <2>4, FS_AddElement
  <2> QED
    BY <2>3, <2>4
<1>3. Cardinality(Full(0)) = 0
  BY <1>1, FS_EmptySet
<1> QED
  BY <1>2, <1>3

\* What is read as JSON lines stands for the lines that are not blank, in order.
LEMMA LineRowsStandForLines ==
  ASSUME NEW lines, Len(lines) \in Nat
  PROVE  LineRows(lines) \in Seq(RowsOf(lines)) /\ StandFor(LineRows(lines), lines, Len(lines))
<1> DEFINE N == Len(lines)
    rows == RowsOfLines(lines)
    G == {n \in 0..N : StandFor(rows[n], lines, n)}
<1>1. /\ rows \in [0..N -> Seq(RowsOf(lines))] /\ rows[0] = <<>>
      /\ \A n \in 1..N : rows[n] = IF lines[n] = Blank THEN rows[n - 1]
                                   ELSE Append(rows[n - 1], Row(lines[n].self, "line", n))
  BY RowsOfLinesDef
<1> HIDE DEF rows
<1>2. StandFor(<<>>, lines, 0)
  <2>1. Len(<<>>) = 0
    OBVIOUS
  <2>2. Cardinality({i \in 1..0 : lines[i] # Blank}) = 0
    BY NonBlank
  <2> QED
    BY <2>1, <2>2 DEF StandFor
<1>3. ASSUME NEW n \in 1..N, StandFor(rows[n - 1], lines, n - 1)
      PROVE  StandFor(rows[n], lines, n)
  <2> DEFINE Full(m) == {i \in 1..m : lines[i] # Blank}
  <2>1. rows[n - 1] \in Seq(RowsOf(lines)) /\ n \in Nat /\ n # 0
    <3>1. n \in Nat /\ n # 0 /\ n - 1 \in 0..N
      OBVIOUS
    <3> DEFINE V == Seq(RowsOf(lines))
    <3>2. rows \in [0..N -> V]
      BY <1>1
    <3> HIDE DEF V, N
    <3>3. rows[n - 1] \in V
      BY <3>1, <3>2
    <3> QED
      BY <3>1, <3>3 DEF V
  <2>2. Cardinality(Full(n)) = IF lines[n] = Blank THEN Cardinality(Full(n - 1))
                               ELSE Cardinality(Full(n - 1)) + 1
    BY <2>1, NonBlank
  <2>3. /\ Len(rows[n - 1]) = Cardinality(Full(n - 1))
        /\ \A k \in 1..Len(rows[n - 1]) : \E i \in 1..n - 1 :
             rows[n - 1][k] = Row(lines[i].self, "line", i)
        /\ \A j, k \in 1..Len(rows[n - 1]) :
             j < k => rows[n - 1][j].locator[2] < rows[n - 1][k].locator[2]
    BY <1>3 DEF StandFor
  <2>4. \A i \in 1..n - 1 : i \in 1..n /\ i < n
    OBVIOUS
  <2>5. CASE lines[n] = Blank
    <3>1. rows[n] = rows[n - 1]
      BY <1>1, <2>5
    <3>2. Len(rows[n]) = Cardinality(Full(n))
      BY <2>2, <2>3, <2>5, <3>1
    <3> HIDE DEF Full
    <3>3. \A k \in 1..Len(rows[n]) : \E i \in 1..n : rows[n][k] = Row(lines[i].self, "line", i)
      BY <2>3, <2>4, <3>1
    <3>4. \A j, k \in 1..Len(rows[n]) : j < k => rows[n][j].locator[2] < rows[n][k].locator[2]
      BY <2>3, <3>1
    <3> QED
      BY <3>2, <3>3, <3>4 DEF StandFor, Full
  <2>6. CASE lines[n] # Blank
    <3> DEFINE before == rows[n - 1]
        row == Row(lines[n].self, "line", n)
        M == Len(before)
    <3>1. rows[n] = Append(before, row)
      BY <1>1, <2>6
    <3>2. row \in RowsOf(lines)
      BY DEF RowsOf
    <3>3. row.locator[2] = n
      BY DEF Row
    <3>4. \A k \in 1..M : before[k].locator[2] < n
      <4>1. \A i \in 1..n - 1 : Row(lines[i].self, "line", i).locator[2] = i
        BY DEF Row
      <4> QED
        BY <2>3, <2>4, <4>1
    <3>5. row = Row(lines[n].self, "line", n) /\ n \in 1..n
      OBVIOUS
    <3>6. /\ before \in Seq(RowsOf(lines)) /\ M = Cardinality(Full(n - 1))
          /\ \A k \in 1..M : \E i \in 1..n - 1 : before[k] = Row(lines[i].self, "line", i)
          /\ \A j, k \in 1..M : j < k => before[j].locator[2] < before[k].locator[2]
      BY <2>1, <2>3
    <3> HIDE DEF before, row, Full
    <3>7. /\ Len(rows[n]) = M + 1 /\ M \in Nat
          /\ \A k \in 1..M : rows[n][k] = before[k]
          /\ rows[n][M + 1] = row
      BY <3>1, <3>2, <3>6, AppendProperties, LenProperties
    <3>8. Len(rows[n]) = Cardinality(Full(n))
      BY <2>2, <2>6, <3>6, <3>7
    <3> HIDE DEF M
    <3>9. ASSUME NEW k \in 1..M + 1
          PROVE  \E i \in 1..n : rows[n][k] = Row(lines[i].self, "line", i)
      <4>1. CASE k = M + 1
        BY <4>1, <3>5, <3>7
      <4>2. CASE k \in 1..M
        BY <4>2, <3>6, <3>7, <2>4
      <4> QED
        BY <4>1, <4>2, <3>7
    <3>10. ASSUME NEW j \in 1..M + 1, NEW k \in 1..M + 1, j < k
           PROVE  rows[n][j].locator[2] < rows[n][k].locator[2]
      <4>1. j \in 1..M
        BY <3>10, <3>7
      <4>2. CASE k = M + 1
        BY <4>1, <4>2, <3>3, <3>4, <3>7
      <4>3. CASE k \in 1..M
        BY <4>1, <4>3, <3>10, <3>6, <3>7
      <4> QED
        BY <4>2, <4>3, <3>7
    <3> QED
      BY <3>7, <3>8, <3>9, <3>10 DEF StandFor, Full
  <2> QED
    BY <2>5, <2>6
<1>4. N \in G
  <2>1. N \in Nat /\ 0 \in G /\ \A n \in 1..N : n - 1 \in G => n \in G
    BY <1>1, <1>2, <1>3
  <2> HIDE DEF G, N
  <2>2. 0..N \subseteq G
    BY <2>1, UpTo
  <2> QED
    BY <2>1, <2>2
<1> QED
  BY <1>1, <1>4 DEF LineRows, rows

\* The adapters keep the rows they accept.
LEMMA ImportedRows ==
  ASSUME NEW rows, Imported(rows) # Refused
  PROVE  Imported(rows).rows = rows
BY DEF Imported

\* A document that is read as a whole has one row for each of its entries, in order.
LEMMA DocumentHasItsEntries ==
  ASSUME NEW t, IsSequence(t.entries)
  PROVE  /\ DOMAIN DocumentRows(t) = DOMAIN t.entries
         /\ Len(DocumentRows(t)) = Len(t.entries)
         /\ \A i \in DOMAIN t.entries :
              /\ DocumentRows(t)[i].record = t.entries[i]
              /\ DocumentRows(t)[i].locator[1] # "line"
              /\ DocumentRows(t)[i].locator[2] = i
<1> DEFINE rows == DocumentRows(t)
    N == Len(t.entries)
    S == {rows[i] : i \in 1..N}
<1>1. N \in Nat /\ DOMAIN t.entries = 1..N
  BY SequencesOf
<1>2. DOMAIN rows = 1..N /\ \A i \in 1..N :
        rows[i] = Row(t.entries[i], IF t.shape = "bare" THEN "whole" ELSE "entry", i)
  BY <1>1 DEF DocumentRows
<1>3. rows = [i \in 1..N |-> rows[i]]
  BY <1>1 DEF DocumentRows
<1> HIDE DEF rows
<1>4. Len(rows) = N
  <2>1. rows \in [1..N -> S]
    BY <1>3
  <2> HIDE DEF N, S
  <2>2. rows \in Seq(S)
    BY <1>1, <2>1, SeqDef
  <2> QED
    BY <1>1, <1>2, <2>2, LenProperties
<1>5. ASSUME NEW i \in 1..N
      PROVE  /\ rows[i].record = t.entries[i]
             /\ rows[i].locator[1] # "line" /\ rows[i].locator[2] = i
  <2> DEFINE kind == IF t.shape = "bare" THEN "whole" ELSE "entry"
  <2>1. kind # "line"
    OBVIOUS
  <2> HIDE DEF kind
  <2>2. rows[i] = [record |-> t.entries[i], locator |-> <<kind, i>>]
    BY <1>2 DEF Row, kind
  <2> QED
    BY <2>1, <2>2
<1> QED
  BY <1>1, <1>2, <1>4, <1>5 DEF rows

\* An accepted source is represented completely, and no repeated key is hidden by the fallback
\* from one format to the other (tools.py:139), for sources of any length.
THEOREM NothingIsHidden == Spec => []ImportHidesNothing
<1>1. CallInv => ImportHidesNothing
  <2> DEFINE source == call.source
      whole == source.whole
      lines == source.lines
      rows == answer.rows
      Full == {i \in DOMAIN lines : lines[i] # Blank}
  <2> SUFFICES ASSUME CallInv, Answered("parse_logs"), answer # Refused
               PROVE  /\ \A i \in DOMAIN rows : At(source, rows[i].locator) = rows[i].record
                      /\ \A i, j \in DOMAIN rows : i < j => rows[i].locator[2] < rows[j].locator[2]
                      /\ ~Repeats(whole)
                      /\ \/ /\ Len(rows) = Len(whole.entries)
                            /\ \A i \in DOMAIN rows : rows[i].locator[1] # "line"
                         \/ /\ Len(rows) = Cardinality(Full)
                            /\ \A i \in DOMAIN rows : rows[i].locator[1] = "line"
                            /\ \A i \in DOMAIN lines : ~Repeats(lines[i])
    BY DEF ImportHidesNothing
  <2>1. answer = ParseLogs(source)
    BY DEF CallInv, Given, Answered
  <2>2. IsSequence(lines) /\ IsSequence(whole.entries)
    BY CallsAssumption DEF CallInv, Answered
  <2> HIDE DEF source
  <2>3. ~Repeats(whole)
    BY <2>1 DEF ParseLogs
  <2>4. CASE Parsed(whole) /\ whole.shape \in {"bare", "wrapped", "array"}
    <3>1. answer = Imported(DocumentRows(whole))
      BY <2>1, <2>3, <2>4 DEF ParseLogs
    <3>2. rows = DocumentRows(whole)
      BY <3>1, ImportedRows
    <3>3. /\ DOMAIN rows = DOMAIN whole.entries /\ Len(rows) = Len(whole.entries)
          /\ \A i \in DOMAIN rows : /\ rows[i].record = whole.entries[i]
                                    /\ rows[i].locator[1] # "line" /\ rows[i].locator[2] = i
      BY <2>2, <3>2, DocumentHasItsEntries
    <3>4. \A i, j \in DOMAIN rows : i < j => rows[i].locator[2] < rows[j].locator[2]
      BY <3>3
    <3> QED
      BY <2>3, <3>3, <3>4 DEF At
  <2>5. CASE ~(Parsed(whole) /\ whole.shape \in {"bare", "wrapped", "array"})
    <3>1. answer = Imported(LineRows(lines)) /\ \A i \in DOMAIN lines : Parsed(lines[i])
      BY <2>1, <2>3, <2>5 DEF ParseLogs
    <3>2. rows = LineRows(lines)
      BY <3>1, ImportedRows
    <3>3. Len(lines) \in Nat /\ DOMAIN lines = 1..Len(lines)
      BY <2>2, SequencesOf
    <3>4. rows \in Seq(RowsOf(lines)) /\ StandFor(rows, lines, Len(lines))
      BY <3>2, <3>3, LineRowsStandForLines
    <3>5. DOMAIN rows = 1..Len(rows)
      BY <3>4, LenProperties
    <3>6. Len(rows) = Cardinality(Full)
      BY <3>3, <3>4 DEF StandFor
    <3>7. \A i, j \in DOMAIN rows : i < j => rows[i].locator[2] < rows[j].locator[2]
      BY <3>4, <3>5 DEF StandFor
    <3>8. \A k \in DOMAIN rows : \E i \in DOMAIN lines :
            rows[k] = Row(lines[i].self, "line", i)
      BY <3>3, <3>4, <3>5 DEF StandFor
    <3>9. ASSUME NEW k \in DOMAIN rows
          PROVE  rows[k].locator[1] = "line" /\ At(source, rows[k].locator) = rows[k].record
      <4>1. PICK i \in DOMAIN lines : rows[k] = Row(lines[i].self, "line", i)
        BY <3>8
      <4>2. /\ rows[k].locator[1] = "line" /\ rows[k].locator[2] = i
            /\ rows[k].record = lines[i].self
        BY <4>1 DEF Row
      <4> QED
        BY <4>2 DEF At
    <3>10. \A i \in DOMAIN lines : ~Repeats(lines[i])
      BY <3>1 DEF Parsed
    <3> QED
      BY <2>3, <3>6, <3>7, <3>9, <3>10
  <2> QED
    BY <2>4, <2>5
<1> QED
  BY <1>1, AnswersAreComputed, PTL

-----------------------------------------------------------------------------
\* A pack that validate_pack accepts fires on its own test events as the tests say
\* (tools.py:265), for any rules and tests.
THEOREM AcceptedPacksFireAsTested == Spec => []PackFiresAsTested
<1>1. CallInv => PackFiresAsTested
  <2> DEFINE rules == call.rules
      tests == call.tests
      events == [k \in DOMAIN tests |-> tests[k].event]
      cited == RunPack(rules, events)
  <2> SUFFICES ASSUME CallInv, Answered("validate_pack"), answer
               PROVE  /\ \A k \in DOMAIN events, id \in Ids(rules) :
                           <<k, id>> \in cited <=> id \in ToSet(tests[k].expected)
                      /\ \A id \in Ids(rules) : \E k \in DOMAIN events : <<k, id>> \in cited
                      /\ \E k \in DOMAIN events : \A id \in Ids(rules) : <<k, id>> \notin cited
                      /\ \A i, j \in DOMAIN rules : rules[i].id = rules[j].id => i = j
    BY DEF PackFiresAsTested
  <2>1. answer = ValidPack(rules, tests)
    BY DEF CallInv, Given, Answered
  <2>2. ValidPack(rules, tests)
    BY <2>1
  <2>3. IsSequence(rules)
    BY CallsAssumption DEF CallInv, Answered
  <2> HIDE DEF rules, tests
  <2>4. \A k \in DOMAIN tests : ToSet(tests[k].expected) = IdsFiring(rules, tests[k].event)
    BY <2>2 DEF ValidPack, ActsAsExpected
  <2>5. UNION {IdsFiring(rules, tests[k].event) : k \in DOMAIN tests} = Ids(rules)
        /\ \E k \in DOMAIN tests : Firing(rules, tests[k].event) = {}
    BY <2>2 DEF ValidPack
  <2>6. ASSUME NEW k \in DOMAIN tests, NEW id \in Ids(rules)
        PROVE  <<k, id>> \in cited <=> id \in IdsFiring(rules, tests[k].event)
    <3>1. <<k, id>> \in cited <=>
            \E m \in DOMAIN rules : /\ rules[m].id = id
                                    /\ events[k][rules[m].field] = rules[m].equals
      BY <2>6 DEF RunPack
    <3>2. events[k] = tests[k].event
      BY <2>6
    <3> QED
      BY <3>1, <3>2 DEF IdsFiring, Firing
  <2>7. \A i, j \in DOMAIN rules : rules[i].id = rules[j].id => i = j
    <3> DEFINE N == Len(rules)
        f == [i \in 1..N |-> rules[i].id]
    <3>1. N \in Nat /\ DOMAIN rules = 1..N
      BY <2>3, SequencesOf
    <3>2. f \in Surjection(1..N, Ids(rules))
      <4>1. \A i \in 1..N : rules[i].id \in Ids(rules)
        BY <3>1 DEF Ids
      <4>2. \A x \in Ids(rules) : \E i \in 1..N : rules[i].id = x
        BY <3>1 DEF Ids
      <4> HIDE DEF N
      <4> QED
        BY <4>1, <4>2 DEF Surjection
    <3>3. IsFiniteSet(1..N) /\ Cardinality(1..N) = Cardinality(Ids(rules))
      <4>1. Cardinality(Ids(rules)) = N
        BY <2>2 DEF ValidPack
      <4> HIDE DEF N
      <4>2. IsFiniteSet(1..N) /\ Cardinality(1..N) = IF 1 > N THEN 0 ELSE N - 1 + 1
        BY <3>1, FS_Interval
      <4> QED
        BY <4>1, <4>2, <3>1
    <3> HIDE DEF N
    <3>4. f \in Injection(1..N, Ids(rules))
      <4> HIDE DEF f
      <4> QED
        BY <3>2, <3>3, FS_SurjSameCardinalityImpliesInj
    <3> QED
      BY <3>1, <3>4 DEF Injection, IsInjective
  <2>8. DOMAIN events = DOMAIN tests
    OBVIOUS
  <2> HIDE DEF events, cited
  <2>9. \A id \in Ids(rules) : \E k \in DOMAIN events : <<k, id>> \in cited
    BY <2>5, <2>6, <2>8
  <2>10. \E k \in DOMAIN events : \A id \in Ids(rules) : <<k, id>> \notin cited
    BY <2>5, <2>6, <2>8 DEF IdsFiring
  <2> QED
    BY <2>4, <2>6, <2>7, <2>8, <2>9, <2>10
<1> QED
  BY <1>1, AnswersAreComputed, PTL
=============================================================================
