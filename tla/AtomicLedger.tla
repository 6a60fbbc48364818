---------------------------- MODULE AtomicLedger ----------------------------
(***************************************************************************)
(* What store.py promises of every audit ledger, with no mention of locks, *)
(* files or crashes.  A ledger is an append-only sequence of events.  It   *)
(* grows by whole transactions while it is trusted, and a failure between  *)
(* commit and checkpoint takes it out of service for good: nothing the     *)
(* program itself does makes a blocked ledger grow or become trusted again.*)
(***************************************************************************)
EXTENDS SequencesExt

CONSTANTS
  LedgerId,    \* the ledgers: one per case, one per tenant, ...
  Body         \* audit event bodies (a hash identifies the event and all before it)

VARIABLES
  accepted,    \* [LedgerId -> Seq(Body)]: the events a reader is shown as verified
  blocked      \* the ledgers every further transaction refuses with a 503

absVars == <<accepted, blocked>>

AbsInit ==
  /\ accepted = [l \in LedgerId |-> <<>>]
  /\ blocked = {}

\* A transaction on a trusted ledger takes effect as a whole.
Accept(l) ==
  /\ l \notin blocked
  /\ accepted'[l] \in Seq(Body)
  /\ IsPrefix(accepted[l], accepted'[l])
  /\ accepted' = [accepted EXCEPT ![l] = accepted'[l]]
  /\ UNCHANGED blocked

\* A crash or an I/O error leaves committed rows without their checkpoint.
Block(l) ==
  /\ l \notin blocked
  /\ blocked' = blocked \cup {l}
  /\ UNCHANGED accepted

AbsNext == \E l \in LedgerId : Accept(l) \/ Block(l)

AbsSpec == AbsInit /\ [][AbsNext]_absVars
=============================================================================
