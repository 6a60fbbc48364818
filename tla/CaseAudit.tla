------------------------------ MODULE CaseAudit ------------------------------
(***************************************************************************)
(* service.py, audit_view: reading a case's ledger in pages while it grows.*)
(*                                                                         *)
(* A transaction on the case appends one or several events and publishes   *)
(* one checkpoint, which is retained: only the lengths at which a          *)
(* transaction ended have one.  Every request for a page is itself an      *)
(* access, and appends an event.  A reader is bound to one length, keeps   *)
(* it fixed and walks backwards from it.                                   *)
(*                                                                         *)
(* The hash of an event covers everything before it, so a prefix of the    *)
(* ledger stands for the hash of its last event.                           *)
(***************************************************************************)
EXTENDS Naturals, Sequences, FiniteSets

CONSTANTS
  Limit,      \* bound of the model: the page sizes that are asked for
  MaxEvents,  \* bound of the model: the length of the ledger
  None

ASSUME LimitAssumption == Limit \subseteq Nat \ {0}
ASSUME NoneAssumption == None \notin Nat

VARIABLES
  log,      \* the events of the case's ledger, oldest first
  kept,     \* the lengths whose checkpoint is retained
  trusted,  \* does the ledger match its current checkpoint?
  reader    \* a reading of the ledger, page by page

audit == <<log, kept, trusted>>

Event(name, subject) == [event |-> name, about |-> subject]
About(events, name) == {events[i].about : i \in {j \in DOMAIN events : events[j].event = name}}
First(n, events) == SubSeq(events, 1, n)

\* A signed checkpoint: the length, and the hash of the last event.
Checkpoint(n) == [count |-> n, head |-> First(n, log)]

\* A reading: the length it is bound to, where the next page ends, what it has read.
Unread == [state |-> "new", through |-> 0, before |-> 0, read |-> <<>>]

\* create_case: two events, one transaction.
AuditInit ==
  /\ log = <<Event("case.created", None), Event("member.added", None)>>
  /\ kept = {2}
  /\ trusted = TRUE
  /\ reader = Unread

\* Mutant: only the newest checkpoint is retained.
CommitNewestOnly(events) ==
  /\ trusted
  /\ Len(log \o events) <= MaxEvents
  /\ log' = log \o events
  /\ kept' = {Len(log')}
  /\ UNCHANGED trusted

\* transaction: the ledger is verified first.  The checkpoint may be lost after the
\* commit; then the case is out of service.
Commit(events) ==
  /\ trusted
  /\ Len(log \o events) <= MaxEvents
  /\ log' = log \o events
  /\ \/ kept' = kept \cup {Len(log')} /\ UNCHANGED trusted
     \/ trusted' = FALSE /\ UNCHANGED kept

-----------------------------------------------------------------------------
ValidCursor(through, before, head) == through <= head /\ before <= through + 1

\* Mutant: the event at the cursor is returned again by the next page.
RowsInclusive(events, through, before, limit) ==
  LET last == IF before <= through THEN before ELSE through
  IN SubSeq(events, IF last < limit THEN 1 ELSE last - limit + 1, last)

\* The newest events before the cursor, at most limit of them, in order.
Rows(events, through, before, limit) ==
  LET last == IF before <= through THEN before - 1 ELSE through
  IN SubSeq(events, IF last < limit THEN 1 ELSE last - limit + 1, last)

Refuse == reader' = [reader EXCEPT !.state = "refused"]

\* The checkpoint of that length exists and matches the ledger.
Retained(n) == trusted' /\ n \in kept'

\* The reading with one more page, of the events before the cursor.
WithPage(events, last, cursor, limit) ==
  LET rows == Rows(events, last, cursor, limit)
      next == IF rows = <<>> THEN 1 ELSE cursor - Len(rows)
  IN [state |-> IF next > 1 THEN "reading" ELSE "done",
      through |-> last, before |-> next, read |-> rows \o reader.read]

\* audit_view(limit, before, through)
AuditView(limit, before, through) ==
  LET events == <<Event("audit.viewed", None)>>
      head == Len(log) + 1
      last == IF through = None THEN head ELSE through
      cursor == IF before = None THEN last + 1 ELSE before
  IN \/ /\ trusted
        /\ ~ValidCursor(last, cursor, head)
        /\ Refuse
        /\ UNCHANGED audit
     \/ /\ ValidCursor(last, cursor, head)
        /\ Commit(events)
        /\ IF Retained(last)
           THEN reader' = WithPage(log', last, cursor, limit)
           ELSE Refuse

\* The first request names a length or leaves it open; the next ones repeat what the
\* page before them returned.
FirstPage ==
  /\ reader.state = "new"
  /\ \E limit \in Limit, through \in 1..Len(log) + 2 \cup {None} :
       AuditView(limit, None, through)

NextPage ==
  /\ reader.state = "reading"
  /\ \E limit \in Limit : AuditView(limit, reader.before, reader.through)

Page == FirstPage \/ NextPage

-----------------------------------------------------------------------------
(* What a reading has returned is one stretch of the ledger, each event    *)
(* once and in order, that ends where the reading is bound to; when the    *)
(* reader is told that there is no more, it is the whole ledger up to      *)
(* there.  The ledger grows between the pages, if only by their own events *)
(* (API.md:86, "Keep through fixed while reading older pages").  From the  *)
(* first page to the last, the length it is bound to has a retained        *)
(* checkpoint: a reading never ends in the middle of a transaction.        *)
ReadingIsOnePrefix ==
  /\ reader.state = "reading" =>
       reader.read = SubSeq(log, reader.before, reader.through)
  /\ reader.state = "done" => reader.read = First(reader.through, log)
  /\ reader.state \in {"reading", "done"} => reader.through \in kept

(* A reading that has begun stays bound to its length and moves towards    *)
(* its end; it is refused only when the case goes out of service.          *)
ReadingAdvances ==
  [][reader.state = "reading" /\ reader' # reader =>
       \/ /\ reader'.through = reader.through
          /\ reader'.before < reader.before
       \/ reader'.state = "refused" /\ ~trusted']_<<audit, reader>>
=============================================================================
