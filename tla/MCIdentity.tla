----------------------------- MODULE MCIdentity -----------------------------
EXTENDS Identity, TLC

\* The processes, the passwords and the tokens are interchangeable.
Symmetric ==
  Permutations(Proc) \cup Permutations(Password) \cup Permutations(Token)

=============================================================================
