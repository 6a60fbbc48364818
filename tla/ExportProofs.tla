----------------------------- MODULE ExportProofs -----------------------------
(***************************************************************************)
(* Theorems about the reading of a case's ledger and about an export, for  *)
(* any artifacts, exports, humans and page sizes and ledgers of any length.*)
(***************************************************************************)
EXTENDS Export, SequenceTheorems, TLAPS

\* What the events of two stretches are about.
LEMMA AboutAppended ==
  ASSUME NEW S, NEW s \in Seq(S), NEW t \in Seq(S), NEW name
  PROVE  About(s \o t, name) = About(s, name) \cup About(t, name)
<1>1. /\ DOMAIN s = 1..Len(s) /\ DOMAIN t = 1..Len(t) /\ DOMAIN (s \o t) = 1..Len(s) + Len(t)
      /\ Len(s) \in Nat /\ Len(t) \in Nat
  BY ConcatProperties
<1>2. \A i \in 1..Len(s) : (s \o t)[i] = s[i]
  BY ConcatProperties
<1>3. \A i \in 1..Len(t) : (s \o t)[Len(s) + i] = t[i]
  BY ConcatProperties
<1>4. \A i \in 1..Len(s) + Len(t) : i \in 1..Len(s) \/ \E j \in 1..Len(t) : i = Len(s) + j
  <2> TAKE i \in 1..Len(s) + Len(t)
  <2>1. CASE i <= Len(s)
    BY <2>1, <1>1
  <2>2. CASE i > Len(s)
    <3>1. i - Len(s) \in 1..Len(t) /\ i = Len(s) + (i - Len(s))
      BY <2>2, <1>1
    <3> QED BY <3>1
  <2> QED BY <2>1, <2>2, <1>1
<1>5. \A j \in 1..Len(t) : Len(s) + j \in 1..Len(s) + Len(t)
  BY <1>1
<1>6. 1..Len(s) \subseteq 1..Len(s) + Len(t)
  BY <1>1
<1> DEFINE u == s \o t
<1> HIDE DEF u
<1>7. /\ DOMAIN u = 1..Len(s) + Len(t)
      /\ \A i \in 1..Len(s) : u[i] = s[i]
      /\ \A i \in 1..Len(t) : u[Len(s) + i] = t[i]
  BY <1>1, <1>2, <1>3 DEF u
<1>8. ASSUME NEW x \in About(u, name) PROVE x \in About(s, name) \cup About(t, name)
  <2>1. PICK i \in 1..Len(s) + Len(t) : u[i].event = name /\ x = u[i].about
    BY <1>7, <1>8 DEF About
  <2>2. CASE i \in 1..Len(s)
    BY <2>1, <2>2, <1>1, <1>7 DEF About
  <2>3. ASSUME NEW j \in 1..Len(t), i = Len(s) + j PROVE x \in About(t, name)
    BY <2>1, <2>3, <1>1, <1>7 DEF About
  <2> QED BY <2>2, <2>3, <1>4
<1>9. ASSUME NEW x \in About(s, name) PROVE x \in About(u, name)
  <2>1. PICK i \in 1..Len(s) : s[i].event = name /\ x = s[i].about
    BY <1>1, <1>9 DEF About
  <2> QED BY <2>1, <1>6, <1>7 DEF About
<1>10. ASSUME NEW x \in About(t, name) PROVE x \in About(u, name)
  <2>1. PICK i \in 1..Len(t) : t[i].event = name /\ x = t[i].about
    BY <1>1, <1>10 DEF About
  <2>2. u[Len(s) + i] = t[i] /\ Len(s) + i \in DOMAIN u
    BY <1>5, <1>7
  <2> QED BY <2>1, <2>2 DEF About
<1>. QED BY <1>8, <1>9, <1>10 DEF u

\* Two adjacent stretches are one.
LEMMA SubSeqConcat ==
  ASSUME NEW S, NEW s \in Seq(S), NEW a \in 1..Len(s)+1, NEW b \in a..Len(s)+1, NEW c \in (b-1)..Len(s)
  PROVE  SubSeq(s, a, b - 1) \o SubSeq(s, b, c) = SubSeq(s, a, c)
  BY ConcatProperties, SubSeqProperties

\* A stretch of a ledger stays what it is when the ledger grows.
LEMMA Prefix ==
  ASSUME NEW S, NEW s \in Seq(S), NEW t \in Seq(S), NEW a \in 1..Len(s)+1, NEW b \in 0..Len(s)
  PROVE  SubSeq(s \o t, a, b) = SubSeq(s, a, b)
  BY ConcatProperties, SubSeqProperties


LEMMA AboutOne ==
  ASSUME NEW n, NEW x, NEW name
  PROVE  About(<<Event(n, x)>>, name) = IF name = n THEN {x} ELSE {}
BY DEF About, Event

LEMMA AboutTwo ==
  ASSUME NEW n, NEW x, NEW m, NEW y, NEW name
  PROVE  About(<<Event(n, x), Event(m, y)>>, name)
           = (IF name = n THEN {x} ELSE {}) \cup (IF name = m THEN {y} ELSE {})
<1> DEFINE s == <<Event(n, x), Event(m, y)>>
<1>1. /\ DOMAIN s = {1, 2}
      /\ s[1].event = n /\ s[1].about = x /\ s[2].event = m /\ s[2].about = y
  BY DEF Event
<1> HIDE DEF s
<1>2. About(s, name) = (IF name = n THEN {x} ELSE {}) \cup (IF name = m THEN {y} ELSE {})
  BY <1>1 DEF About
<1>. QED BY <1>2 DEF s

-----------------------------------------------------------------------------
(***************************************************************************)
(* The inductive invariant.  A ledger in service ends at a retained        *)
(* checkpoint; a reading is the stretch from its cursor to the length it   *)
(* is bound to; the ledger names the proposals and reviews there are; a    *)
(* snapshot is a retained prefix, and what it lists is what that prefix    *)
(* names; the reviews of an export that has begun agree, and are those of  *)
(* its release; an archive in the case is of an export that is over with.  *)
(***************************************************************************)
Kept == trusted => Len(log) \in kept

Reading ==
  /\ reader.state = "new" => reader = Unread
  /\ reader.state \in {"reading", "done"} =>
       /\ reader.through \in kept
       /\ reader.before \in 1..reader.through + 1
       /\ reader.read = SubSeq(log, reader.before, reader.through)
  /\ reader.state = "reading" => reader.before > 1
  /\ reader.state = "done" => reader.before = 1

Recorded ==
  /\ Proposed = About(log, "decision.proposed")
  /\ AllReviews = About(log, "decision.reviewed")

Frozen(s) ==
  /\ s.checkpoint = [count |-> Len(s.events), head |-> s.events]
  /\ s.artifacts \cap s.omitted = {}
  /\ s.artifacts \cup s.omitted = About(s.events, "artifact.preserved")
  /\ s.decisions = About(s.events, "decision.proposed")
  /\ s.approvals = About(s.events, "decision.reviewed")

Snapshots ==
  \A d \in Proposed :
    /\ decision[d].artifacts = decision[d].snapshot.artifacts
    /\ Frozen(decision[d].snapshot)
    /\ decision[d].snapshot.approvals \subseteq AllReviews
    /\ Len(decision[d].snapshot.events) \in kept
    /\ decision[d].snapshot.events = First(Len(decision[d].snapshot.events), log)

Reviewers(d) == {h \in Human : verdict[d][h] # None}

Agreed ==
  /\ \A d \in begun : d \in Proposed /\ ~Rejected(d) /\ Matching(Reviewers(d))
  /\ running # None => running \in begun

Bundles ==
  \A d \in Released :
    /\ d \in begun
    /\ bundle[d].approvals = Reviews(d)
    /\ bundle[d].late => d \in over
    /\ bundle[d].files = [a \in decision[d].artifacts |-> a]
    /\ d \in Downloaded => ~bundle[d].late

Settled == \A d \in Decision : BundleOf(d) \in Preserved => d \in begun /\ running # d

IInv ==
  /\ TypeOK
  /\ Kept
  /\ Reading
  /\ Recorded
  /\ Snapshots
  /\ Agreed
  /\ Bundles
  /\ Settled

-----------------------------------------------------------------------------
LEMMA Subjects ==
  /\ None \in Subject
  /\ Evidence \subseteq Subject
  /\ Decision \subseteq Subject
  /\ \A d \in Decision : SnapshotOf(d) \in Subject /\ BundleOf(d) \in Subject
  /\ \A d \in Decision, h \in Human : <<d, h>> \in Subject
<1>1. \A d \in Decision, h \in Human : <<d, h>> \in Decision \X Human
  OBVIOUS
<1>. QED BY <1>1 DEF Subject

LEMMA EntryOf ==
  ASSUME NEW n \in Name, NEW x \in Subject
  PROVE  Event(n, x) \in Entry
BY DEF Event, Entry

\* A transaction appends to the ledger, and what was retained stays so.
LEMMA Committed ==
  ASSUME TypeOK, NEW events \in Seq(Entry), events # <<>>, Commit(events)
  PROVE  /\ trusted
         /\ log' = log \o events
         /\ log' \in Seq(Entry)
         /\ Len(log) \in Nat /\ Len(log') \in Nat /\ Len(log) < Len(log')
         /\ kept \subseteq kept'
         /\ kept' \subseteq 1..Len(log')
         /\ trusted' \in BOOLEAN
         /\ Kept'
<1>1. /\ log \in Seq(Entry) /\ kept \subseteq 1..Len(log)
      /\ trusted /\ log' = log \o events
  BY DEF TypeOK, Commit
<1>2. /\ log' \in Seq(Entry) /\ Len(log') = Len(log) + Len(events)
      /\ Len(log) \in Nat /\ Len(events) \in Nat \ {0}
  BY <1>1, ConcatProperties, EmptySeq, LenProperties
<1>3. \/ kept' = kept \cup {Len(log')} /\ trusted' = trusted
      \/ trusted' = FALSE /\ kept' = kept
  BY DEF Commit
<1>4. Len(log') \in 1..Len(log') /\ 1..Len(log) \subseteq 1..Len(log')
  BY <1>2
<1>5. kept \subseteq kept' /\ kept' \subseteq 1..Len(log')
  BY <1>1, <1>3, <1>4
<1>6. trusted' \in BOOLEAN
  BY <1>3 DEF TypeOK
<1>7. Kept'
  BY <1>3 DEF Kept
<1>. QED BY <1>1, <1>2, <1>5, <1>6, <1>7

\* What was read, frozen or said before the transaction is still there.
LEMMA Extended ==
  ASSUME NEW events \in Seq(Entry), log \in Seq(Entry), log' = log \o events
  PROVE  /\ \A a \in 1..Len(log) + 1, b \in 0..Len(log) : SubSeq(log', a, b) = SubSeq(log, a, b)
         /\ \A n \in 0..Len(log) : First(n, log') = First(n, log)
         /\ First(Len(log), log') = log
         /\ \A name : About(log', name) = About(log, name) \cup About(events, name)
<1>1. Len(log) \in Nat
  BY LenProperties
<1>2. \A a \in 1..Len(log) + 1, b \in 0..Len(log) : SubSeq(log', a, b) = SubSeq(log, a, b)
  BY Prefix
<1>3. \A n \in 0..Len(log) : First(n, log') = First(n, log)
  BY <1>1, <1>2 DEF First
<1>4. First(Len(log), log') = log
  BY <1>1, <1>3, SubSeqFull DEF First
<1>5. \A name : About(log', name) = About(log, name) \cup About(events, name)
  BY AboutAppended
<1>. QED BY <1>2, <1>3, <1>4, <1>5

\* What a transaction may do to the ledger and its readings.
Grown == UNCHANGED audit \/ \E events \in Seq(Entry) \ {<<>>} : Commit(events)

AuditOK ==
  /\ log \in Seq(Entry)
  /\ kept \subseteq 1..Len(log)
  /\ trusted \in BOOLEAN
  /\ reader \in [state : {"new", "reading", "done", "refused"},
                 through : Nat, before : Nat, read : Seq(Entry)]

LEMMA GrownKeeps ==
  ASSUME TypeOK, Kept, Grown
  PROVE  /\ log' \in Seq(Entry)
         /\ kept \subseteq kept'
         /\ kept' \subseteq 1..Len(log')
         /\ trusted' \in BOOLEAN
         /\ Kept'
         /\ \A a \in 1..Len(log) + 1, b \in 0..Len(log) : SubSeq(log', a, b) = SubSeq(log, a, b)
         /\ \A n \in 0..Len(log) : First(n, log') = First(n, log)
         /\ \A name : About(log, name) \subseteq About(log', name)
<1>1. CASE UNCHANGED audit
  BY <1>1 DEF audit, TypeOK, Kept
<1>2. ASSUME NEW events \in Seq(Entry) \ {<<>>}, Commit(events)
      PROVE  /\ log' = log \o events
             /\ log' \in Seq(Entry)
             /\ kept \subseteq kept'
             /\ kept' \subseteq 1..Len(log')
             /\ trusted' \in BOOLEAN
             /\ Kept'
  BY <1>2, Committed
<1>3. ASSUME NEW events \in Seq(Entry) \ {<<>>}, Commit(events)
      PROVE  /\ \A a \in 1..Len(log) + 1, b \in 0..Len(log) :
                  SubSeq(log', a, b) = SubSeq(log, a, b)
             /\ \A n \in 0..Len(log) : First(n, log') = First(n, log)
             /\ \A name : About(log, name) \subseteq About(log', name)
  BY <1>2, <1>3, Extended DEF TypeOK
<1>. QED BY <1>1, <1>2, <1>3 DEF Grown

LEMMA ReadingKeeps ==
  ASSUME TypeOK, Kept, Reading, Grown, UNCHANGED reader
  PROVE  Reading'
<1>1. /\ kept \subseteq 1..Len(log) /\ kept \subseteq kept'
      /\ \A a \in 1..Len(log) + 1, b \in 0..Len(log) : SubSeq(log', a, b) = SubSeq(log, a, b)
      /\ Len(log) \in Nat
  BY GrownKeeps, LenProperties DEF TypeOK
<1>2. ASSUME reader.state \in {"reading", "done"}
      PROVE  SubSeq(log', reader.before, reader.through) = SubSeq(log, reader.before, reader.through)
  <2>1. reader.through \in 1..Len(log) /\ reader.before \in 1..reader.through + 1
    BY <1>1, <1>2 DEF Reading
  <2> DEFINE a == reader.before
             b == reader.through
  <2>2. b \in 0..Len(log) /\ a \in 1..Len(log) + 1
    BY <1>1, <2>1
  <2> HIDE DEF a, b
  <2>3. SubSeq(log', a, b) = SubSeq(log, a, b)
    BY <1>1, <2>2
  <2>. QED BY <2>3 DEF a, b
<1>. QED BY <1>1, <1>2 DEF Reading, Unread

\* A page is the stretch from the next cursor to this one, and moves the cursor.
LEMMA RowsAre ==
  ASSUME NEW s \in Seq(Entry), NEW last \in 0..Len(s), NEW cursor \in 1..last + 1,
         NEW limit \in Nat \ {0}
  PROVE  LET rows == Rows(s, last, cursor, limit)
             lo == IF rows = <<>> THEN 1 ELSE cursor - Len(rows)
         IN
         /\ lo \in 1..cursor
         /\ cursor > 1 => lo < cursor
         /\ rows = SubSeq(s, lo, cursor - 1)
         /\ rows \in Seq(Entry)
<1> DEFINE rows == Rows(s, last, cursor, limit)
           lo == IF rows = <<>> THEN 1 ELSE cursor - Len(rows)
           from == IF cursor - 1 < limit THEN 1 ELSE cursor - 1 - limit + 1
<1>1. /\ from \in 1..cursor
      /\ cursor > 1 => from < cursor
      /\ Len(s) \in Nat /\ cursor - 1 \in 0..Len(s)
  BY LenProperties
<1>2. rows = SubSeq(s, from, cursor - 1)
  BY DEF Rows
<1> HIDE DEF from, rows
<1>3. \A i \in from..cursor - 1 : s[i] \in Entry
  BY <1>1, ElementOfSeq
<1>4. rows \in Seq(Entry) /\ Len(rows) = IF from <= cursor - 1 THEN cursor - 1 - from + 1 ELSE 0
  BY <1>1, <1>2, <1>3, SubSeqProperties
<1>5. rows = <<>> <=> Len(rows) = 0
  BY <1>4, EmptySeq
<1>6. lo = from
  BY <1>1, <1>4, <1>5
<1> HIDE DEF lo
<1>7. /\ lo \in 1..cursor
      /\ cursor > 1 => lo < cursor
      /\ rows = SubSeq(s, lo, cursor - 1)
      /\ rows \in Seq(Entry)
  BY <1>1, <1>2, <1>4, <1>6
<1>. QED BY <1>7 DEF rows, lo

LEMMA WithPageReads ==
  ASSUME NEW s \in Seq(Entry), NEW last \in 0..Len(s), NEW cursor \in 1..last + 1,
         NEW limit \in Nat \ {0}, reader.read = SubSeq(s, cursor, last)
  PROVE  LET r == WithPage(s, last, cursor, limit) IN
         /\ r \in [state : {"reading", "done"}, through : Nat, before : Nat, read : Seq(Entry)]
         /\ r.through = last /\ r.before \in 1..last + 1
         /\ r.read = SubSeq(s, r.before, last)
         /\ r.state = "reading" => r.before > 1
         /\ r.state = "done" => r.before = 1
         /\ cursor > 1 => r.before < cursor
<1> DEFINE rows == Rows(s, last, cursor, limit)
           lo == IF rows = <<>> THEN 1 ELSE cursor - Len(rows)
<1>1. WithPage(s, last, cursor, limit) =
        [state |-> IF lo > 1 THEN "reading" ELSE "done",
         through |-> last, before |-> lo, read |-> rows \o reader.read]
  BY DEF WithPage
<1>2. /\ lo \in 1..cursor
      /\ cursor > 1 => lo < cursor
      /\ rows = SubSeq(s, lo, cursor - 1)
      /\ rows \in Seq(Entry)
  BY RowsAre
<1> HIDE DEF rows, lo
<1>3. Len(s) \in Nat
  BY LenProperties
<1>4. lo \in 1..Len(s) + 1 /\ cursor \in lo..Len(s) + 1 /\ last \in cursor - 1..Len(s)
  BY <1>2, <1>3
<1>5. rows \o reader.read = SubSeq(s, lo, last)
  BY <1>2, <1>4, SubSeqConcat
<1>6. \A i \in lo..last : s[i] \in Entry
  BY <1>3, <1>4, ElementOfSeq
<1>7. SubSeq(s, lo, last) \in Seq(Entry)
  BY <1>3, <1>4, <1>6, SubSeqProperties
<1>. QED BY <1>1, <1>2, <1>3, <1>4, <1>5, <1>7

\* A page of a reading, from its first to its last.
LEMMA PageStep ==
  ASSUME TypeOK, Kept, Reading, Page
  PROVE  /\ Grown
         /\ reader' \in [state : {"new", "reading", "done", "refused"},
                         through : Nat, before : Nat, read : Seq(Entry)]
         /\ Reading'
         /\ reader.state = "reading" =>
              \/ reader'.through = reader.through /\ reader'.before < reader.before
              \/ reader'.state = "refused" /\ ~trusted'
<1> DEFINE events == <<Event("audit.viewed", None)>>
           Readers == [state : {"new", "reading", "done", "refused"},
                       through : Nat, before : Nat, read : Seq(Entry)]
<1>1. events \in Seq(Entry) \ {<<>>} /\ Len(events) = 1
  <2>1. "audit.viewed" \in Name
    BY DEF Name
  <2> DEFINE e == Event("audit.viewed", None)
  <2>2. e \in Entry
    BY <2>1, Subjects, EntryOf
  <2> HIDE DEF e
  <2>3. <<e>> \in Seq(Entry) \ {<<>>} /\ Len(<<e>>) = 1
    BY <2>2
  <2>. QED BY <2>3 DEF e
<1>2. /\ log \in Seq(Entry) /\ kept \subseteq 1..Len(log) /\ Len(log) \in Nat
      /\ reader \in Readers
  BY LenProperties DEF TypeOK
<1>3. PICK limit \in Limit, last \in Nat, cursor \in Nat :
        /\ \/ /\ trusted
              /\ ~ValidCursor(last, cursor, Len(log) + 1)
              /\ Refuse
              /\ UNCHANGED audit
           \/ /\ ValidCursor(last, cursor, Len(log) + 1)
              /\ Commit(events)
              /\ IF Retained(last)
                 THEN reader' = WithPage(log', last, cursor, limit)
                 ELSE Refuse
        /\ \/ reader.state = "new" /\ cursor = last + 1
           \/ reader.state = "reading" /\ last = reader.through /\ cursor = reader.before
  <2>1. CASE FirstPage
    <3>1. PICK limit \in Limit, through \in 1..Len(log) + 2 \cup {None} :
            AuditView(limit, None, through)
      BY <2>1 DEF FirstPage
    <3> DEFINE last == IF through = None THEN Len(log) + 1 ELSE through
    <3>2. last \in Nat /\ last + 1 \in Nat
      BY <1>2
    <3>3. AuditView(limit, None, through) =
            \/ /\ trusted
               /\ ~ValidCursor(last, last + 1, Len(log) + 1)
               /\ Refuse
               /\ UNCHANGED audit
            \/ /\ ValidCursor(last, last + 1, Len(log) + 1)
               /\ Commit(events)
               /\ IF Retained(last)
                  THEN reader' = WithPage(log', last, last + 1, limit)
                  ELSE Refuse
      BY Zenon DEF AuditView
    <3> HIDE DEF last, events
    <3>. QED BY <2>1, <3>1, <3>2, <3>3 DEF FirstPage
  <2>2. CASE NextPage
    <3>1. PICK limit \in Limit : AuditView(limit, reader.before, reader.through)
      BY <2>2 DEF NextPage
    <3>2. /\ reader.before \in Nat /\ reader.through \in Nat
          /\ reader.before # None /\ reader.through # None
      BY <1>2, NoneAssumption
    <3>3. \/ /\ trusted
             /\ ~ValidCursor(reader.through, reader.before, Len(log) + 1)
             /\ Refuse
             /\ UNCHANGED audit
          \/ /\ ValidCursor(reader.through, reader.before, Len(log) + 1)
             /\ Commit(events)
             /\ IF Retained(reader.through)
                THEN reader' = WithPage(log', reader.through, reader.before, limit)
                ELSE Refuse
      BY <3>1, <3>2 DEF AuditView
    <3> HIDE DEF events
    <3>. QED BY <2>2, <3>2, <3>3 DEF NextPage
  <2>. QED BY <2>1, <2>2 DEF Page
<1>4. Grown
  BY <1>1, <1>3 DEF Grown
<1> HIDE DEF events, Readers
<1>5. ASSUME Refuse PROVE reader' \in Readers /\ reader'.state = "refused" /\ Reading'
  BY <1>2, <1>5 DEF Refuse, Reading, Readers
<1>6. reader.state = "reading" =>
        /\ last \in kept /\ cursor \in 1..last + 1 /\ cursor > 1
        /\ reader.read = SubSeq(log, cursor, last)
  <2>1. SUFFICES ASSUME reader.state = "reading"
                 PROVE  /\ last \in kept /\ cursor \in 1..last + 1 /\ cursor > 1
                        /\ reader.read = SubSeq(log, cursor, last)
    OBVIOUS
  <2>2. last = reader.through /\ cursor = reader.before
    BY <1>3, <2>1
  <2>. QED BY <2>1, <2>2 DEF Reading
<1>7. ASSUME ~ValidCursor(last, cursor, Len(log) + 1) PROVE reader.state # "reading"
  BY <1>2, <1>6, <1>7 DEF ValidCursor
<1>8. ASSUME Commit(events), ValidCursor(last, cursor, Len(log) + 1), Retained(last),
             reader' = WithPage(log', last, cursor, limit)
      PROVE  /\ reader' \in Readers /\ Reading'
             /\ reader.state = "reading" =>
                  reader'.through = reader.through /\ reader'.before < reader.before
  <2>1. /\ log' = log \o events /\ log' \in Seq(Entry) /\ Len(log') = Len(log) + 1
        /\ kept' \subseteq 1..Len(log')
    BY <1>1, <1>2, <1>8, Committed, ConcatProperties
  <2>2. last \in kept' /\ last \in 0..Len(log') /\ cursor \in 1..last + 1
    <3>1. last \in kept'
      BY <1>8 DEF Retained
    <3>2. last \in 1..Len(log') /\ cursor <= last + 1
      BY <2>1, <3>1, <1>8 DEF ValidCursor
    <3>3. cursor >= 1
      BY <1>3, <1>6
    <3>. QED BY <3>1, <3>2, <3>3
  <2>3. reader.read = SubSeq(log', cursor, last)
    <3>1. CASE reader.state = "new"
      <4>1. reader.read = <<>> /\ cursor = last + 1
        BY <1>3, <3>1 DEF Reading, Unread
      <4>. QED BY <4>1, <2>2, SubSeqEmpty
    <3>2. CASE reader.state = "reading"
      <4>1. reader.read = SubSeq(log, cursor, last)
        BY <1>6, <3>2
      <4>2. cursor \in 1..Len(log) + 1 /\ last \in 0..Len(log)
        BY <1>2, <1>6, <3>2
      <4>. QED BY <1>1, <1>2, <2>1, <4>1, <4>2, Extended
    <3>. QED BY <1>3, <3>1, <3>2
  <2>4. limit \in Nat \ {0}
    BY <1>3, LimitAssumption
  <2>5. /\ reader' \in [state : {"reading", "done"}, through : Nat, before : Nat,
                        read : Seq(Entry)]
        /\ reader'.through = last /\ reader'.before \in 1..last + 1
        /\ reader'.read = SubSeq(log', reader'.before, last)
        /\ reader'.state = "reading" => reader'.before > 1
        /\ reader'.state = "done" => reader'.before = 1
        /\ cursor > 1 => reader'.before < cursor
    <3> DEFINE s == log'
               r == WithPage(s, last, cursor, limit)
    <3>1. s \in Seq(Entry) /\ last \in 0..Len(s) /\ reader.read = SubSeq(s, cursor, last)
      BY <2>1, <2>2, <2>3
    <3>2. reader' = r
      BY <1>8
    <3> HIDE DEF s
    <3>3. /\ r \in [state : {"reading", "done"}, through : Nat, before : Nat, read : Seq(Entry)]
          /\ r.through = last /\ r.before \in 1..last + 1
          /\ r.read = SubSeq(s, r.before, last)
          /\ r.state = "reading" => r.before > 1
          /\ r.state = "done" => r.before = 1
          /\ cursor > 1 => r.before < cursor
      BY <3>1, <2>2, <2>4, WithPageReads
    <3> HIDE DEF r
    <3>. QED BY <3>2, <3>3 DEF s
  <2>6. reader' \in Readers
    BY <2>5 DEF Readers
  <2>7. Reading'
    BY <2>2, <2>5 DEF Reading
  <2>8. reader.state = "reading" => reader'.through = reader.through /\ reader'.before < reader.before
    BY <1>3, <1>6, <2>5
  <2>. QED BY <2>6, <2>7, <2>8
<1>9. ASSUME Commit(events), ~Retained(last), reader.state = "reading" PROVE ~trusted'
  <2>1. kept \subseteq kept' /\ last \in kept
    BY <1>1, <1>6, <1>9, Committed
  <2>. QED BY <1>9, <2>1 DEF Retained
<1>. QED BY <1>3, <1>4, <1>5, <1>7, <1>8, <1>9 DEF Readers

-----------------------------------------------------------------------------
\* The transactions by what they say.
LEMMA OneEvent ==
  ASSUME TypeOK, NEW n \in Name, NEW x \in Subject, Commit(<<Event(n, x)>>)
  PROVE  /\ Grown
         /\ \A name : About(log', name) = About(log, name) \cup (IF name = n THEN {x} ELSE {})
<1> DEFINE a == Event(n, x)
           events == <<a>>
<1>a. a \in Entry
  BY EntryOf
<1> HIDE DEF a
<1>1. events \in Seq(Entry) /\ events # <<>>
  BY <1>a
<1> USE DEF a
<1>2. \A name : About(events, name) = IF name = n THEN {x} ELSE {}
  BY AboutOne
<1> HIDE DEF events
<1>3. Commit(events)
  BY DEF events
<1>4. log' = log \o events /\ log \in Seq(Entry)
  BY <1>3 DEF Commit, TypeOK
<1>5. \A name : About(log', name) = About(log, name) \cup About(events, name)
  BY <1>1, <1>4, Extended
<1>. QED BY <1>1, <1>2, <1>3, <1>5 DEF Grown

LEMMA TwoEvents ==
  ASSUME TypeOK, NEW n \in Name, NEW x \in Subject, NEW m \in Name, NEW y \in Subject,
         Commit(<<Event(n, x), Event(m, y)>>)
  PROVE  /\ Grown
         /\ \A name : About(log', name) =
              About(log, name) \cup (IF name = n THEN {x} ELSE {})
                               \cup (IF name = m THEN {y} ELSE {})
<1> DEFINE a == Event(n, x)
           b == Event(m, y)
           events == <<a, b>>
<1>a. a \in Entry /\ b \in Entry
  BY EntryOf
<1> HIDE DEF a, b
<1>1. events \in Seq(Entry) /\ events # <<>>
  BY <1>a
<1> USE DEF a, b
<1>2. \A name : About(events, name)
                 = (IF name = n THEN {x} ELSE {}) \cup (IF name = m THEN {y} ELSE {})
  <2> TAKE name
  <2>. QED BY AboutTwo
<1> HIDE DEF events
<1>3. Commit(events)
  BY DEF events
<1>4. log' = log \o events /\ log \in Seq(Entry)
  BY <1>3 DEF Commit, TypeOK
<1>5. \A name : About(log', name) = About(log, name) \cup About(events, name)
  BY <1>1, <1>4, Extended
<1>. QED BY <1>1, <1>2, <1>3, <1>5 DEF Grown

LEMMA Names ==
  \A d, e \in Decision : SnapshotOf(d) # BundleOf(e) /\ SnapshotOf(d) \notin Evidence
                         /\ BundleOf(d) \notin Evidence /\ (BundleOf(d) = BundleOf(e) => d = e)
BY IdentifierAssumption DEF SnapshotOf, BundleOf

\* The snapshots survive whatever leaves the proposals alone.
LEMMA SnapshotsKeep ==
  ASSUME TypeOK, Kept, Snapshots, Grown, decision' = decision, AllReviews \subseteq AllReviews'
  PROVE  Snapshots'
<1>1. /\ kept \subseteq kept' /\ kept \subseteq 1..Len(log)
      /\ \A n \in 0..Len(log) : First(n, log') = First(n, log)
      /\ Len(log) \in Nat
  BY GrownKeeps, LenProperties DEF TypeOK
<1> SUFFICES ASSUME NEW d \in Proposed
             PROVE  /\ decision[d].snapshot.approvals \subseteq AllReviews'
                    /\ Len(decision[d].snapshot.events) \in kept'
                    /\ decision[d].snapshot.events
                         = First(Len(decision[d].snapshot.events), log')
  BY DEF Snapshots, Frozen, Proposed
<1> DEFINE s == decision[d].snapshot
<1>2. /\ s.approvals \subseteq AllReviews /\ Len(s.events) \in kept
      /\ s.events = First(Len(s.events), log)
  BY DEF Snapshots
<1> HIDE DEF s
<1>3. Len(s.events) \in 0..Len(log)
  BY <1>1, <1>2
<1>4. s.events = First(Len(s.events), log')
  BY <1>1, <1>2, <1>3
<1>. QED BY <1>1, <1>2, <1>4 DEF s

\* The reviews there are, one by one.
LEMMA ReviewsAre ==
  /\ \A d, h : <<d, h>> \in AllReviews <=> d \in Decision /\ h \in Human /\ verdict[d][h] # None
  /\ \A r \in AllReviews : \E d \in Decision, h \in Human : r = <<d, h>>
BY DEF AllReviews, Reviews

-----------------------------------------------------------------------------
LEMMA InitInv == Init => IInv
<1> SUFFICES ASSUME Init PROVE IInv
  OBVIOUS
<1> DEFINE a == Event("case.created", None)
           b == Event("member.added", None)
<1>1. "case.created" \in Name /\ "member.added" \in Name
  BY DEF Name
<1>2. a \in Entry /\ b \in Entry
  BY <1>1, EntryOf, Subjects
<1>3. log = <<a, b>> /\ kept = {2} /\ trusted = TRUE /\ reader = Unread
  BY DEF Init, AuditInit
<1>4. \A name : name \notin {"case.created", "member.added"} => About(log, name) = {}
  BY <1>3, AboutTwo
<1> HIDE DEF a, b
<1>5. log \in Seq(Entry) /\ Len(log) = 2 /\ kept \subseteq 1..Len(log)
  BY <1>2, <1>3
<1>6. <<>> \in Seq(Entry)
  BY EmptySeq
<1>7. reader \in [state : {"new", "reading", "done", "refused"},
                  through : Nat, before : Nat, read : Seq(Entry)]
  BY <1>3, <1>6 DEF Unread
<1>8. Proposed = {} /\ AllReviews = {} /\ Released = {}
  BY DEF Init, Proposed, AllReviews, Reviews, Released
<1>9. TypeOK
  BY <1>3, <1>5, <1>7, <1>8 DEF Init, TypeOK
<1>10. Kept /\ Reading
  BY <1>3, <1>5 DEF Kept, Reading, Unread
<1>11. Preserved = {} /\ Recorded
  BY <1>4, <1>8 DEF Preserved, Recorded
<1>12. Snapshots /\ Agreed /\ Bundles /\ Settled
  BY <1>8, <1>11 DEF Init, Snapshots, Agreed, Bundles, Settled
<1>. QED BY <1>9, <1>10, <1>11, <1>12 DEF IInv

\* What holds of the ledger and its readings after any step that leaves the readings alone.
LEMMA AuditKeeps ==
  ASSUME IInv, Grown, UNCHANGED reader
  PROVE  /\ log' \in Seq(Entry) /\ kept' \subseteq 1..Len(log') /\ trusted' \in BOOLEAN
         /\ reader' \in [state : {"new", "reading", "done", "refused"},
                         through : Nat, before : Nat, read : Seq(Entry)]
         /\ Kept' /\ Reading'
         /\ Preserved \subseteq Preserved'
<1>1. TypeOK /\ Kept /\ Reading
  BY DEF IInv
<1>2. Preserved \subseteq Preserved'
  BY <1>1, GrownKeeps DEF Preserved
<1>3. Reading'
  BY <1>1, ReadingKeeps
<1>4. reader' \in [state : {"new", "reading", "done", "refused"},
                   through : Nat, before : Nat, read : Seq(Entry)]
  BY <1>1 DEF TypeOK
<1>. QED BY <1>1, <1>2, <1>3, <1>4, GrownKeeps

Placed == place \in {"idle", "reserved", "authorized"} /\ (place = "idle" <=> running = None)

\* A step that neither proposes, reviews, begins nor releases.
LEMMA QuietStep ==
  ASSUME IInv, Grown, Reading',
         reader' \in [state : {"new", "reading", "done", "refused"},
                      through : Nat, before : Nat, read : Seq(Entry)],
         UNCHANGED <<decision, verdict, begun, bundle>>,
         running' \in {running, None},
         Placed',
         revoked' \subseteq Decision \X Human,
         over \subseteq over', over' \subseteq Decision,
         damaged' \subseteq Preserved',
         fetched' \subseteq Human \X Preserved',
         About(log', "decision.proposed") = About(log, "decision.proposed"),
         About(log', "decision.reviewed") = About(log, "decision.reviewed"),
         \A d \in Decision : BundleOf(d) \in Preserved' => BundleOf(d) \in Preserved,
         \A d \in Released : d \in Downloaded' => ~bundle[d].late
  PROVE  IInv'
<1>1. TypeOK /\ Kept /\ Recorded /\ Snapshots /\ Agreed /\ Bundles /\ Settled
  BY DEF IInv
<1>2. /\ log' \in Seq(Entry) /\ kept' \subseteq 1..Len(log') /\ trusted' \in BOOLEAN /\ Kept'
  BY <1>1, GrownKeeps
<1>3. TypeOK'
  BY <1>1, <1>2 DEF TypeOK, Proposed, Placed
<1>4. AllReviews' = AllReviews /\ Proposed' = Proposed /\ Released' = Released
  BY DEF AllReviews, Reviews, Proposed, Released
<1>5. Recorded'
  BY <1>1, <1>4 DEF Recorded
<1>6. Snapshots'
  BY <1>1, <1>4, SnapshotsKeep
<1>7. Agreed'
  BY <1>1, <1>4 DEF Agreed, Rejected, Matching, Reviewers
<1>8. Bundles'
  BY <1>1, <1>4 DEF Bundles, Reviews
<1>9. Settled'
  BY <1>1, IdentifierAssumption DEF Settled
<1>. QED BY <1>2, <1>3, <1>5, <1>6, <1>7, <1>8, <1>9 DEF IInv

\* A transaction of a quiet step that says one thing.
LEMMA QuietEvent ==
  ASSUME IInv, NEW n \in Name, NEW x \in Subject, Commit(<<Event(n, x)>>),
         n \notin {"decision.proposed", "decision.reviewed", "artifact.preserved"},
         UNCHANGED <<reader, decision, verdict, begun, bundle>>,
         running' \in {running, None},
         Placed',
         revoked' \subseteq Decision \X Human,
         UNCHANGED <<over, damaged>>,
         fetched' \subseteq Human \X Preserved',
         \A d \in Released : d \in Downloaded' => ~bundle[d].late
  PROVE  IInv'
<1>1. Grown /\ \A name : About(log', name) = About(log, name) \cup (IF name = n THEN {x} ELSE {})
  BY OneEvent DEF IInv
<1>2. /\ About(log', "decision.proposed") = About(log, "decision.proposed")
      /\ About(log', "decision.reviewed") = About(log, "decision.reviewed")
      /\ About(log', "artifact.preserved") = About(log, "artifact.preserved")
  BY <1>1
<1>3. Preserved' = Preserved
  BY <1>2 DEF Preserved
<1>4. over \subseteq over' /\ over' \subseteq Decision /\ damaged' \subseteq Preserved'
  BY <1>3 DEF IInv, TypeOK
<1>. QED BY <1>1, <1>2, <1>3, <1>4, AuditKeeps, QuietStep DEF Placed

LEMMA StageStep ==
  ASSUME IInv, NEW a \in Evidence, Stage(a)
  PROVE  IInv'
<1>1. /\ "artifact.preserved" \in Name /\ "evidence.staged" \in Name /\ a \in Subject
      /\ Commit(<<Event("artifact.preserved", a), Event("evidence.staged", a)>>)
      /\ UNCHANGED <<reader, exports>>
  BY Subjects DEF Stage, Name
<1>2. Grown /\ \A name : About(log', name) =
        About(log, name) \cup (IF name = "artifact.preserved" THEN {a} ELSE {})
                         \cup (IF name = "evidence.staged" THEN {a} ELSE {})
  BY <1>1, TwoEvents DEF IInv
<1>3. /\ About(log', "decision.proposed") = About(log, "decision.proposed")
      /\ About(log', "decision.reviewed") = About(log, "decision.reviewed")
      /\ Preserved' = Preserved \cup {a}
  BY <1>2 DEF Preserved
<1>4. /\ \A d \in Decision : BundleOf(d) \in Preserved' => BundleOf(d) \in Preserved
      /\ Downloaded' = Downloaded
  BY <1>1, <1>3, Names DEF exports, Downloaded
<1>5. /\ Placed
      /\ revoked \subseteq Decision \X Human /\ over \subseteq Decision
      /\ damaged \subseteq Preserved' /\ fetched \subseteq Human \X Preserved'
      /\ \A d \in Released : d \in Downloaded => ~bundle[d].late
  BY <1>3 DEF IInv, TypeOK, Bundles, Placed
<1>6. UNCHANGED <<decision, verdict, revoked, over, begun, running, place, bundle, damaged, fetched>>
  BY <1>1 DEF exports
<1>. QED BY <1>1, <1>2, <1>3, <1>4, <1>5, <1>6, AuditKeeps, QuietStep DEF Placed

LEMMA RevokeStep ==
  ASSUME IInv, NEW d \in Decision, NEW h \in Human, Revoke(d, h)
  PROVE  IInv'
<1>1. /\ "approval.revoked" \in Name /\ <<d, h>> \in Subject
      /\ Commit(<<Event("approval.revoked", <<d, h>>)>>)
  BY Subjects DEF Revoke, Name
<1>2. /\ revoked' = revoked \cup {<<d, h>>}
      /\ UNCHANGED <<reader, decision, verdict, over, begun, running, place, bundle, damaged, fetched>>
  BY DEF Revoke
<1>3. /\ Placed
      /\ revoked \subseteq Decision \X Human
      /\ fetched \subseteq Human \X Preserved
      /\ \A e \in Released : e \in Downloaded => ~bundle[e].late
  BY <1>2 DEF IInv, TypeOK, Bundles, Placed
<1>4. Downloaded' = Downloaded /\ Preserved \subseteq Preserved'
  <2>1. Grown
    BY <1>1, OneEvent DEF IInv
  <2>. QED BY <1>2, <2>1, AuditKeeps DEF Downloaded
<1>5. fetched' \subseteq Human \X Preserved'
  BY <1>2, <1>3, <1>4
<1>6. revoked' \subseteq Decision \X Human
  <2>1. <<d, h>> \in Decision \X Human
    OBVIOUS
  <2>. QED BY <1>2, <1>3, <2>1
<1>. QED BY <1>1, <1>2, <1>3, <1>4, <1>5, <1>6, QuietEvent DEF Placed

\* Steps outside the ledger: the clock, the host, the last look at the approvals.
LEMMA SilentStep ==
  ASSUME IInv,
         \/ \E d \in Decision : Expire(d) \/ Authorize(d)
         \/ \E a \in Preserved : Damage(a)
         \/ UNCHANGED vars
  PROVE  IInv'
<1>1. /\ UNCHANGED <<audit, reader, decision, verdict, revoked, begun, running, bundle, fetched>>
      /\ over \subseteq over' /\ (over' = over \/ \E d \in Proposed : over' = over \cup {d})
      /\ damaged' = damaged \/ \E a \in Preserved : damaged' = damaged \cup {a}
      /\ place' = place \/ (place # "idle" /\ place' = "authorized")
  BY DEF Expire, Authorize, Damage, vars, exports
<1>2. /\ UNCHANGED audit => Grown
      /\ Preserved' = Preserved /\ Downloaded' = Downloaded /\ log' = log
  BY <1>1 DEF Grown, Preserved, Downloaded, audit
<1>3. /\ Placed'
      /\ revoked' \subseteq Decision \X Human
      /\ over' \subseteq Decision
      /\ damaged' \subseteq Preserved'
      /\ fetched' \subseteq Human \X Preserved'
      /\ \A d \in Released : d \in Downloaded => ~bundle[d].late
  BY <1>1, <1>2 DEF IInv, TypeOK, Bundles, Placed
<1>. QED BY <1>1, <1>2, <1>3, AuditKeeps, QuietStep DEF Placed

LEMMA AbandonStep ==
  ASSUME IInv, Abandon
  PROVE  IInv'
<1>1. /\ running # None /\ running' = None /\ place' = "idle"
      /\ UNCHANGED <<reader, decision, verdict, revoked, over, begun, bundle, damaged, fetched>>
  BY DEF Abandon
<1>2. /\ running \in Decision /\ revoked \subseteq Decision \X Human /\ over \subseteq Decision
      /\ fetched \subseteq Human \X Preserved /\ damaged \subseteq Preserved
      /\ \A d \in Released : d \in Downloaded => ~bundle[d].late
      /\ Downloaded' = Downloaded
  BY <1>1 DEF IInv, TypeOK, Bundles, Placed, Downloaded
<1>3. CASE Commit(<<Event("execution.failed", running)>>)
  <2>1. "execution.failed" \in Name /\ running \in Subject
    BY <1>2, Subjects DEF Name
  <2>2. Preserved \subseteq Preserved'
    BY <1>1, <1>3, <2>1, OneEvent, AuditKeeps DEF IInv
  <2>3. fetched' \subseteq Human \X Preserved'
    BY <1>1, <1>2, <2>2
  <2>. QED BY <1>1, <1>2, <1>3, <2>1, <2>3, QuietEvent DEF Placed
<1>4. CASE UNCHANGED audit
  <2>1. Grown /\ Preserved' = Preserved /\ log' = log
    BY <1>4 DEF Grown, Preserved, audit
  <2>. QED BY <1>1, <1>2, <2>1, AuditKeeps, QuietStep DEF Placed
<1>. QED BY <1>3, <1>4 DEF Abandon

LEMMA DownloadStep ==
  ASSUME IInv, NEW h \in Human, NEW a \in Preserved, Download(h, a)
  PROVE  IInv'
<1>1. /\ fetched' = fetched \cup {<<h, a>>}
      /\ Commit(<<Event("artifact.downloaded", a)>>)
      /\ UNCHANGED <<reader, decision, verdict, revoked, over, begun, running, place, bundle, damaged>>
      /\ \A d \in Decision : a = BundleOf(d) => MayFetch(h, d)
  BY DEF Download
<1>2. "artifact.downloaded" \in Name /\ a \in Subject
  <2>1. PICK i \in DOMAIN log : a = log[i].about
    BY DEF Preserved, About
  <2>2. log[i] \in Entry
    BY ElementOfSeq, LenProperties DEF IInv, TypeOK
  <2>. QED BY <2>1, <2>2 DEF Entry, Name
<1>3. Preserved \subseteq Preserved'
  BY <1>1, <1>2, OneEvent, AuditKeeps DEF IInv
<1>4. /\ Placed
      /\ revoked \subseteq Decision \X Human
      /\ fetched \subseteq Human \X Preserved
  BY DEF IInv, TypeOK, Placed
<1>5. fetched' \subseteq Human \X Preserved'
  BY <1>1, <1>3, <1>4
<1>6. ASSUME NEW d \in Released, d \in Downloaded' PROVE ~bundle[d].late
  <2>1. CASE d \in Downloaded
    BY <2>1 DEF IInv, Bundles
  <2>2. CASE d \notin Downloaded
    <3>1. d \in Decision /\ a = BundleOf(d)
      BY <1>1, <1>6, <2>2 DEF Downloaded
    <3>2. d \notin over
      BY <1>1, <3>1 DEF MayFetch, Approved, Current
    <3>. QED BY <3>2 DEF IInv, Bundles
  <2>. QED BY <2>1, <2>2
<1>. QED BY <1>1, <1>2, <1>4, <1>5, <1>6, QuietEvent DEF Placed

LEMMA ViewStep ==
  ASSUME IInv, View
  PROVE  IInv'
<1>1. Page /\ UNCHANGED exports /\ TypeOK /\ Kept /\ Reading
  BY DEF View, IInv
<1>2. /\ Grown /\ Reading'
      /\ reader' \in [state : {"new", "reading", "done", "refused"},
                      through : Nat, before : Nat, read : Seq(Entry)]
  BY <1>1, PageStep
<1>3. \A name : name # "audit.viewed" => About(log', name) = About(log, name)
  <2>1. "audit.viewed" \in Name /\ None \in Subject
    BY Subjects DEF Name
  <2>2. UNCHANGED audit \/ Commit(<<Event("audit.viewed", None)>>)
    BY <1>1 DEF Page, FirstPage, NextPage, AuditView
  <2>. QED BY <1>1, <2>1, <2>2, OneEvent DEF audit
<1>4. /\ Preserved' = Preserved
      /\ About(log', "decision.proposed") = About(log, "decision.proposed")
      /\ About(log', "decision.reviewed") = About(log, "decision.reviewed")
  BY <1>3 DEF Preserved
<1>5. UNCHANGED <<decision, verdict, revoked, over, begun, running, place, bundle, damaged, fetched>>
  BY <1>1 DEF exports
<1>6. /\ Placed
      /\ revoked \subseteq Decision \X Human /\ over \subseteq Decision
      /\ damaged \subseteq Preserved /\ fetched \subseteq Human \X Preserved
      /\ \A d \in Released : d \in Downloaded => ~bundle[d].late
      /\ Downloaded' = Downloaded
  BY <1>5 DEF IInv, TypeOK, Bundles, Placed, Downloaded
<1>. QED BY <1>2, <1>4, <1>5, <1>6, QuietStep DEF Placed

-----------------------------------------------------------------------------
LEMMA ProposeStep ==
  ASSUME IInv, NEW d \in Decision, NEW recipient \in Human, NEW selected \in SUBSET Preserved,
         Propose(d, selected, recipient)
  PROVE  IInv'
<1> DEFINE s == Snapshot(d, selected)
           record == [id |-> d, artifacts |-> selected, recipient |-> recipient, snapshot |-> s]
<1>1. /\ d \notin Proposed /\ trusted
      /\ decision' = [e \in Proposed \cup {d} |-> IF e = d THEN record ELSE decision[e]]
      /\ Commit(<<Event("artifact.preserved", SnapshotOf(d)), Event("decision.proposed", d)>>)
      /\ UNCHANGED <<reader, verdict, revoked, over, begun, running, place, bundle, damaged, fetched>>
  BY DEF Propose, Commit
<1>2. TypeOK /\ Kept /\ Recorded /\ Snapshots /\ Agreed /\ Bundles /\ Settled
  BY DEF IInv
<1>3. Grown /\ \A name : About(log', name) =
        About(log, name) \cup (IF name = "artifact.preserved" THEN {SnapshotOf(d)} ELSE {})
                         \cup (IF name = "decision.proposed" THEN {d} ELSE {})
  <2>1. "artifact.preserved" \in Name /\ "decision.proposed" \in Name
    BY DEF Name
  <2>2. SnapshotOf(d) \in Subject /\ d \in Subject
    BY Subjects
  <2>. QED BY <1>1, <1>2, <2>1, <2>2, TwoEvents
<1>4. /\ log' \in Seq(Entry) /\ kept' \subseteq 1..Len(log') /\ trusted' \in BOOLEAN
      /\ reader' \in [state : {"new", "reading", "done", "refused"},
                      through : Nat, before : Nat, read : Seq(Entry)]
      /\ Kept' /\ Reading' /\ Preserved \subseteq Preserved'
  BY <1>1, <1>3, AuditKeeps
<1>5. /\ Proposed' = Proposed \cup {d}
      /\ decision'[d] = record
      /\ \A e \in Proposed : decision'[e] = decision[e]
  BY <1>1 DEF Proposed
<1>6. TypeOK'
  <2>1. \A e \in Proposed' : decision'[e].id = e /\ decision'[e].recipient \in Human
    BY <1>2, <1>5 DEF TypeOK
  <2>2. Proposed' \subseteq Decision
    BY <1>2, <1>5 DEF TypeOK
  <2>3. damaged' \subseteq Preserved' /\ fetched' \subseteq Human \X Preserved'
    BY <1>1, <1>2, <1>4 DEF TypeOK
  <2>. QED BY <1>1, <1>2, <1>4, <2>1, <2>2, <2>3 DEF TypeOK
<1>7. AllReviews' = AllReviews
  BY <1>1 DEF AllReviews, Reviews
<1>8. Recorded'
  BY <1>2, <1>3, <1>5, <1>7 DEF Recorded
<1>9. Snapshots'
  <2>1. /\ kept \subseteq kept' /\ kept \subseteq 1..Len(log) /\ Len(log) \in Nat /\ log \in Seq(Entry)
        /\ \A n \in 0..Len(log) : First(n, log') = First(n, log)
    BY <1>2, <1>3, GrownKeeps, LenProperties DEF TypeOK
  <2>2. First(Len(log), log) = log /\ Len(log) \in kept
    BY <1>1, <1>2, <2>1, SubSeqFull DEF First, Kept
  <2>3. /\ s.events = log /\ s.artifacts = selected /\ s.omitted = Preserved \ selected
        /\ s.checkpoint = [count |-> Len(log), head |-> log]
        /\ s.decisions = Proposed /\ s.approvals = AllReviews
    BY <2>2 DEF Snapshot, Checkpoint
  <2>4. record.artifacts = selected /\ record.snapshot = s
    OBVIOUS
  <2> HIDE DEF s, record
  <2>5. Frozen(s)
    BY <1>2, <2>3 DEF Frozen, Recorded, Preserved
  <2>6. Len(s.events) \in kept' /\ s.events = First(Len(s.events), log')
    BY <2>1, <2>2, <2>3
  <2>7. ASSUME NEW e \in Proposed
        PROVE  /\ Len(decision[e].snapshot.events) \in kept'
               /\ decision[e].snapshot.events = First(Len(decision[e].snapshot.events), log')
    <3> DEFINE t == decision[e].snapshot
    <3>1. Len(t.events) \in kept /\ t.events = First(Len(t.events), log)
      BY <1>2 DEF Snapshots
    <3> HIDE DEF t
    <3>2. Len(t.events) \in kept' /\ t.events = First(Len(t.events), log')
      BY <2>1, <3>1
    <3>. QED BY <3>2 DEF t
  <2>8. ASSUME NEW e \in Proposed'
        PROVE  /\ decision'[e].artifacts = decision'[e].snapshot.artifacts
               /\ Frozen(decision'[e].snapshot)
               /\ decision'[e].snapshot.approvals \subseteq AllReviews'
               /\ Len(decision'[e].snapshot.events) \in kept'
               /\ decision'[e].snapshot.events = First(Len(decision'[e].snapshot.events), log')
    <3>1. CASE e = d
      BY <1>5, <1>7, <2>3, <2>4, <2>5, <2>6, <3>1
    <3>2. CASE e \in Proposed
      BY <1>2, <1>5, <1>7, <2>7, <3>2 DEF Snapshots
    <3>. QED BY <1>5, <3>1, <3>2
  <2>. QED BY <2>8 DEF Snapshots, Frozen
<1> HIDE DEF record
<1>10. Agreed'
  BY <1>1, <1>2, <1>5 DEF Agreed, Rejected, Matching, Reviewers
<1>11. Bundles'
  <2>1. Released' = Released /\ Downloaded' = Downloaded
    BY <1>1 DEF Released, Downloaded
  <2>2. \A e \in Released : decision'[e] = decision[e] /\ Reviews(e)' = Reviews(e)
    BY <1>1, <1>2, <1>5 DEF Bundles, Agreed, Reviews
  <2>. QED BY <1>1, <1>2, <2>1, <2>2 DEF Bundles
<1>12. Settled'
  <2>1. Preserved' = Preserved \cup {SnapshotOf(d)}
    BY <1>3 DEF Preserved
  <2>. QED BY <1>1, <1>2, <2>1, Names DEF Settled
<1>. QED BY <1>4, <1>6, <1>8, <1>9, <1>10, <1>11, <1>12 DEF IInv

LEMMA ReviewStep ==
  ASSUME IInv, NEW d \in Decision, NEW h \in Human, NEW v \in {"approve", "reject"}, Review(d, h, v)
  PROVE  IInv'
<1>1. /\ d \in Proposed \ begun
      /\ verdict' = [verdict EXCEPT ![d][h] = v]
      /\ Commit(<<Event("decision.reviewed", <<d, h>>)>>)
      /\ UNCHANGED <<reader, decision, revoked, over, begun, running, place, bundle, damaged, fetched>>
  BY DEF Review
<1>2. TypeOK /\ Kept /\ Recorded /\ Snapshots /\ Agreed /\ Bundles /\ Settled
  BY DEF IInv
<1>3. Grown /\ \A name : About(log', name) =
        About(log, name) \cup (IF name = "decision.reviewed" THEN {<<d, h>>} ELSE {})
  <2>1. "decision.reviewed" \in Name /\ <<d, h>> \in Subject
    BY Subjects DEF Name
  <2> DEFINE x == <<d, h>>
  <2> HIDE DEF x
  <2>2. Commit(<<Event("decision.reviewed", x)>>) /\ x \in Subject
    BY <1>1, <2>1 DEF x
  <2>3. Grown /\ \A name : About(log', name) =
          About(log, name) \cup (IF name = "decision.reviewed" THEN {x} ELSE {})
    BY <1>2, <2>1, <2>2, OneEvent
  <2>. QED BY <2>3 DEF x
<1>4. /\ log' \in Seq(Entry) /\ kept' \subseteq 1..Len(log') /\ trusted' \in BOOLEAN
      /\ reader' \in [state : {"new", "reading", "done", "refused"},
                      through : Nat, before : Nat, read : Seq(Entry)]
      /\ Kept' /\ Reading'
  BY <1>1, <1>3, AuditKeeps
<1>5. Preserved' = Preserved /\ Proposed' = Proposed /\ Released' = Released /\ Downloaded' = Downloaded
  BY <1>1, <1>3 DEF Preserved, Proposed, Released, Downloaded
<1>6. /\ verdict' \in [Decision -> [Human -> {"approve", "reject", None}]]
      /\ verdict'[d][h] = v /\ v # None
      /\ \A e \in Decision, g \in Human : <<e, g>> # <<d, h>> => verdict'[e][g] = verdict[e][g]
  BY <1>1, <1>2, IdentifierAssumption DEF TypeOK
<1>7. \A e \in begun : e \in Decision /\ \A g \in Human : verdict'[e][g] = verdict[e][g]
  BY <1>1, <1>2, <1>6 DEF TypeOK
<1>8. TypeOK'
  BY <1>1, <1>2, <1>4, <1>5, <1>6 DEF TypeOK
<1>9. AllReviews' = AllReviews \cup {<<d, h>>}
  BY <1>6 DEF AllReviews, Reviews
<1>10. Recorded'
  BY <1>2, <1>3, <1>5, <1>9 DEF Recorded
<1>11. Snapshots'
  BY <1>1, <1>2, <1>3, <1>9, SnapshotsKeep
<1>12. Agreed'
  <2>1. \A e \in begun : (Rejected(e)' <=> Rejected(e)) /\ Reviewers(e)' = Reviewers(e)
    BY <1>7 DEF Rejected, Reviewers
  <2>. QED BY <1>1, <1>2, <1>5, <2>1 DEF Agreed, Matching
<1>13. Bundles'
  <2>1. \A e \in begun : Reviews(e)' = Reviews(e)
    BY <1>7 DEF Reviews
  <2>. QED BY <1>1, <1>2, <1>5, <2>1 DEF Bundles
<1>14. Settled'
  BY <1>1, <1>2, <1>5 DEF Settled
<1>. QED BY <1>4, <1>8, <1>10, <1>11, <1>12, <1>13, <1>14 DEF IInv

LEMMA ReserveStep ==
  ASSUME IInv, NEW d \in Decision, Reserve(d)
  PROVE  IInv'
<1>1. /\ running = None /\ d \in Proposed \ begun /\ Approved(d)
      /\ begun' = begun \cup {d}
      /\ Commit(<<Event("execution.intent", d)>>)
      /\ \/ running' = d /\ place' = "reserved"
         \/ running' = running /\ place' = place
      /\ UNCHANGED <<reader, decision, verdict, revoked, over, bundle, damaged, fetched>>
  BY DEF Reserve
<1>2. TypeOK /\ Kept /\ Recorded /\ Snapshots /\ Agreed /\ Bundles /\ Settled
  BY DEF IInv
<1>3. Grown /\ \A name : About(log', name) =
        About(log, name) \cup (IF name = "execution.intent" THEN {d} ELSE {})
  <2>1. "execution.intent" \in Name /\ d \in Subject
    BY Subjects DEF Name
  <2>. QED BY <1>1, <1>2, <2>1, OneEvent
<1>4. /\ log' \in Seq(Entry) /\ kept' \subseteq 1..Len(log') /\ trusted' \in BOOLEAN
      /\ reader' \in [state : {"new", "reading", "done", "refused"},
                      through : Nat, before : Nat, read : Seq(Entry)]
      /\ Kept' /\ Reading'
  BY <1>1, <1>3, AuditKeeps
<1>5. /\ Preserved' = Preserved /\ Proposed' = Proposed /\ AllReviews' = AllReviews
      /\ Released' = Released /\ Downloaded' = Downloaded
  BY <1>1, <1>3 DEF Preserved, Proposed, AllReviews, Reviews, Released, Downloaded
<1>6. TypeOK'
  <2>1. d # None
    BY IdentifierAssumption
  <2>2. running' \in Decision \cup {None} /\ place' \in {"idle", "reserved", "authorized"}
        /\ (place' = "idle" <=> running' = None) /\ begun' \subseteq Decision
    BY <1>1, <1>2, <2>1 DEF TypeOK
  <2>. QED BY <1>1, <1>2, <1>4, <1>5, <2>2 DEF TypeOK
<1>7. Recorded'
  BY <1>2, <1>3, <1>5 DEF Recorded
<1>8. Snapshots'
  BY <1>1, <1>2, <1>3, <1>5, SnapshotsKeep
<1>9. Agreed'
  <2>1. ~Rejected(d) /\ Matching(Reviewers(d))
    BY <1>1 DEF Approved, Reviewers
  <2>2. \A e \in begun' : (Rejected(e)' <=> Rejected(e)) /\ Reviewers(e)' = Reviewers(e)
    BY <1>1 DEF Rejected, Reviewers
  <2>. QED BY <1>1, <1>2, <1>5, <2>1, <2>2 DEF Agreed, Matching
<1>10. Bundles'
  BY <1>1, <1>2, <1>5 DEF Bundles, Reviews
<1>11. Settled'
  BY <1>1, <1>2, <1>5 DEF Settled
<1>. QED BY <1>4, <1>6, <1>7, <1>8, <1>9, <1>10, <1>11 DEF IInv

LEMMA ReleaseStep ==
  ASSUME IInv, NEW d \in Decision, Release(d)
  PROVE  IInv'
<1> DEFINE record ==
      [approvals |-> Reviews(d), late |-> d \in over,
       files |-> [a \in decision[d].artifacts |-> IF a \in damaged THEN None ELSE a]]
<1>1. /\ running = d /\ running' = None /\ place' = "idle"
      /\ \A a \in decision[d].artifacts : Intact(a)
      /\ bundle' = [bundle EXCEPT ![d] = record]
      /\ Commit(<<Event("artifact.preserved", BundleOf(d)), Event("execution.completed", d)>>)
      /\ UNCHANGED <<reader, decision, verdict, revoked, over, begun, damaged, fetched>>
  BY DEF Release
<1>2. TypeOK /\ Kept /\ Recorded /\ Snapshots /\ Agreed /\ Bundles /\ Settled
  BY DEF IInv
<1>3. Grown /\ \A name : About(log', name) =
        About(log, name) \cup (IF name = "artifact.preserved" THEN {BundleOf(d)} ELSE {})
                         \cup (IF name = "execution.completed" THEN {d} ELSE {})
  <2>1. "artifact.preserved" \in Name /\ "execution.completed" \in Name
    BY DEF Name
  <2>2. BundleOf(d) \in Subject /\ d \in Subject
    BY Subjects
  <2>. QED BY <1>1, <1>2, <2>1, <2>2, TwoEvents
<1>4. /\ log' \in Seq(Entry) /\ kept' \subseteq 1..Len(log') /\ trusted' \in BOOLEAN
      /\ reader' \in [state : {"new", "reading", "done", "refused"},
                      through : Nat, before : Nat, read : Seq(Entry)]
      /\ Kept' /\ Reading' /\ Preserved \subseteq Preserved'
  BY <1>1, <1>3, AuditKeeps
<1>5. /\ Preserved' = Preserved \cup {BundleOf(d)}
      /\ Proposed' = Proposed /\ AllReviews' = AllReviews /\ Downloaded' = Downloaded
  BY <1>1, <1>3 DEF Preserved, Proposed, AllReviews, Reviews, Downloaded
<1>6. /\ record.approvals = Reviews(d)
      /\ record.late \in BOOLEAN
      /\ record.late => d \in over
      /\ record.files = [a \in decision[d].artifacts |-> a]
  <2>1. \A a \in decision[d].artifacts : a \notin damaged
    BY <1>1 DEF Intact
  <2>2. record.files = [a \in decision[d].artifacts |-> IF a \in damaged THEN None ELSE a]
    OBVIOUS
  <2>3. [a \in decision[d].artifacts |-> IF a \in damaged THEN None ELSE a]
          = [a \in decision[d].artifacts |-> a]
    BY <2>1
  <2>4. record.late <=> d \in over
    OBVIOUS
  <2>5. record.late \in BOOLEAN
    OBVIOUS
  <2>. QED BY <2>2, <2>3, <2>4, <2>5
<1> HIDE DEF record
<1>7. /\ bundle' = [e \in Decision |-> bundle'[e]]
      /\ bundle'[d] = record
      /\ \A e \in Decision : e # d => bundle'[e] = bundle[e]
  <2>1. bundle = [e \in Decision |-> bundle[e]]
    BY <1>2 DEF TypeOK
  <2>. QED BY <1>1, <2>1
<1>8. TypeOK'
  <2>1. \A e \in Decision : bundle'[e] # None => bundle'[e].late \in BOOLEAN
    BY <1>2, <1>6, <1>7 DEF TypeOK
  <2>2. damaged' \subseteq Preserved' /\ fetched' \subseteq Human \X Preserved'
    BY <1>1, <1>2, <1>4 DEF TypeOK
  <2>. QED BY <1>1, <1>2, <1>4, <1>5, <1>7, <2>1, <2>2 DEF TypeOK
<1>9. Recorded'
  BY <1>2, <1>3, <1>5 DEF Recorded
<1>10. Snapshots'
  BY <1>1, <1>2, <1>3, <1>5, SnapshotsKeep
<1>11. Agreed'
  BY <1>1, <1>2, <1>5 DEF Agreed, Rejected, Matching, Reviewers
<1>12. Bundles'
  <2>1. d \in begun /\ d # None
    BY <1>1, <1>2, IdentifierAssumption DEF Agreed
  <2>2. d \notin Downloaded
    BY <1>1, <1>2 DEF Settled, Downloaded, TypeOK
  <2>3. \A e \in Released' : e \in Decision /\ (e = d \/ (e \in Released /\ bundle'[e] = bundle[e]))
    BY <1>7 DEF Released
  <2>4. \A e : Reviews(e)' = Reviews(e)
    BY <1>1 DEF Reviews
  <2>5. ASSUME NEW e \in Released'
        PROVE  /\ e \in begun
               /\ bundle'[e].approvals = Reviews(e)
               /\ bundle'[e].late => e \in over
               /\ bundle'[e].files = [a \in decision[e].artifacts |-> a]
               /\ e \in Downloaded => ~bundle'[e].late
    <3>1. CASE e = d
      BY <1>6, <1>7, <2>1, <2>2, <3>1
    <3>2. CASE e # d
      <4>1. e \in Released /\ bundle'[e] = bundle[e]
        BY <2>3, <3>2
      <4>. QED BY <1>2, <4>1 DEF Bundles
    <3>. QED BY <3>1, <3>2
  <2>. QED BY <1>1, <1>5, <2>4, <2>5 DEF Bundles
<1>13. Settled'
  BY <1>1, <1>2, <1>5, Names, IdentifierAssumption DEF Settled, Agreed
<1>. QED BY <1>4, <1>8, <1>9, <1>10, <1>11, <1>12, <1>13 DEF IInv

-----------------------------------------------------------------------------
LEMMA InvStep == IInv /\ [Next]_vars => IInv'
<1> SUFFICES ASSUME IInv, [Next]_vars PROVE IInv'
  OBVIOUS
<1>1. ASSUME NEW a \in Evidence, Stage(a) PROVE IInv'
  BY <1>1, StageStep
<1>2. ASSUME NEW d \in Decision, NEW recipient \in Human, NEW selected \in SUBSET Preserved,
             Propose(d, selected, recipient)
      PROVE  IInv'
  BY <1>2, ProposeStep
<1>3. ASSUME NEW d \in Decision, NEW h \in Human, NEW v \in {"approve", "reject"}, Review(d, h, v)
      PROVE  IInv'
  BY <1>3, ReviewStep
<1>4. ASSUME NEW d \in Decision, NEW h \in Human, Revoke(d, h) PROVE IInv'
  BY <1>4, RevokeStep
<1>5. ASSUME NEW d \in Decision, Expire(d) \/ Authorize(d) PROVE IInv'
  BY <1>5, SilentStep
<1>6. ASSUME NEW d \in Decision, Reserve(d) PROVE IInv'
  BY <1>6, ReserveStep
<1>7. ASSUME NEW d \in Decision, Release(d) PROVE IInv'
  BY <1>7, ReleaseStep
<1>8. ASSUME NEW a \in Preserved, Damage(a) PROVE IInv'
  BY <1>8, SilentStep
<1>9. CASE Abandon
  BY <1>9, AbandonStep
<1>10. ASSUME NEW h \in Human, NEW a \in Preserved, Download(h, a) PROVE IInv'
  BY <1>10, DownloadStep
<1>11. CASE View
  BY <1>11, ViewStep
<1>12. CASE UNCHANGED vars
  BY <1>12, SilentStep
<1>. QED BY <1>1, <1>2, <1>3, <1>4, <1>5, <1>6, <1>7, <1>8, <1>9, <1>10, <1>11, <1>12 DEF Next

(* The invariant is inductive, so it holds in every reachable state.       *)
THEOREM Inductive == Spec => []IInv
  BY InitInv, InvStep, PTL DEF Spec

(* The ledger, its reading and the exports are well typed in every state.  *)
THEOREM TypeCorrect == Spec => []TypeOK
<1>1. IInv => TypeOK
  BY DEF IInv
<1>. QED BY <1>1, Inductive, PTL

(* Whatever was asked for and however the ledger has grown, what a reading *)
(* has returned is one stretch of it that ends at a retained checkpoint.   *)
THEOREM OnePrefix == Spec => []ReadingIsOnePrefix
<1>1. IInv => ReadingIsOnePrefix
  BY DEF IInv, Reading, ReadingIsOnePrefix, First
<1>. QED BY <1>1, Inductive, PTL

(* A reading stays bound to its length and moves towards its end.          *)
THEOREM Advance == Spec => ReadingAdvances
<1>1. IInv /\ [Next]_vars =>
        [reader.state = "reading" /\ reader' # reader =>
           \/ /\ reader'.through = reader.through
              /\ reader'.before < reader.before
           \/ reader'.state = "refused" /\ ~trusted']_<<audit, reader>>
  <2> SUFFICES ASSUME IInv, [Next]_vars, reader.state = "reading", reader' # reader
               PROVE  \/ /\ reader'.through = reader.through
                         /\ reader'.before < reader.before
                      \/ reader'.state = "refused" /\ ~trusted'
    OBVIOUS
  <2>1. Page
    BY DEF Next, vars, exports, View, Stage, Propose, Review, Revoke, Expire, Reserve, Authorize,
       Release, Damage, Abandon, Download
  <2>. QED BY <2>1, PageStep DEF IInv
<1>. QED BY <1>1, Inductive, PTL DEF Spec, ReadingAdvances

LEMMA FrozenVerifies ==
  ASSUME IInv, NEW d \in Proposed
  PROVE  LET s == decision[d].snapshot IN
         /\ Len(s.events) \in kept
         /\ VerifyChain(s, Checkpoint(Len(s.events)))
         /\ VerifyRecords(s)
<1> DEFINE s == decision[d].snapshot
<1>1. /\ Frozen(s) /\ s.approvals \subseteq AllReviews /\ Len(s.events) \in kept
      /\ s.events = First(Len(s.events), log)
  BY DEF IInv, Snapshots
<1> HIDE DEF s
<1>2. s.checkpoint = Checkpoint(Len(s.events))
  BY <1>1 DEF Frozen, Checkpoint
<1>3. VerifyChain(s, Checkpoint(Len(s.events)))
  BY <1>1, <1>2 DEF VerifyChain, SignedCheckpoint, Checkpoint
<1>4. VerifyRecords(s)
  BY <1>1 DEF VerifyRecords, Frozen, SignedApproval
<1>. QED BY <1>1, <1>3, <1>4 DEF s

(* What a proposal has frozen agrees with a checkpoint that is retained,   *)
(* however much later its release comes.                                   *)
THEOREM Pinnable == Spec => []FrozenCanBePinned
<1>1. IInv => FrozenCanBePinned
  BY FrozenVerifies DEF FrozenCanBePinned
<1>. QED BY <1>1, Inductive, PTL

LEMMA ReleaseVerifies ==
  ASSUME IInv, NEW d \in Released, ~bundle[d].late
  PROVE  VerifyExport(Archive(d), Pinned(d))
<1> DEFINE x == Archive(d)
           s == decision[d].snapshot
<1>1. TypeOK /\ Snapshots /\ Agreed /\ Bundles
  BY DEF IInv
<1>2. /\ d \in begun /\ d \in Proposed /\ d \in Decision
      /\ bundle[d].approvals = Reviews(d)
      /\ bundle[d].files = [a \in decision[d].artifacts |-> a]
      /\ ~Rejected(d) /\ Matching(Reviewers(d))
      /\ decision[d].artifacts = s.artifacts
      /\ decision[d].id = d
  BY <1>1 DEF Bundles, Agreed, Snapshots, TypeOK, Released
<1>3. /\ x.snapshot = s /\ x.decision = decision[d] /\ x.approvals = Reviews(d)
      /\ x.receipt = Receipt(d) /\ x.files = [a \in s.artifacts |-> a]
  BY <1>2 DEF Archive
<1>4. /\ x.receipt.decision = decision[d] /\ x.receipt.snapshot = s
      /\ x.receipt.recipient = decision[d].recipient
      /\ x.receipt.approvals = Reviews(d) /\ ~x.receipt.late
  BY <1>2, <1>3 DEF Receipt
<1> HIDE DEF x
<1>5. VerifyChain(x.snapshot, Pinned(d)) /\ VerifyRecords(x.snapshot)
  BY <1>2, <1>3, FrozenVerifies DEF Pinned
<1>6. VerifyFiles(x.snapshot, x.files)
  BY <1>3 DEF VerifyFiles
<1>7. VerifyScope(x)
  BY <1>2, <1>3, <1>4 DEF VerifyScope, SignedReceipt
<1>8. VerifyApprovals(x)
  <2>1. \A r \in Reviews(d) : /\ SignedApproval(r) /\ r[1] = d
                              /\ verdict[r[1]][r[2]] = "approve"
    <3>1. \A h \in Human : verdict[d][h] # None => verdict[d][h] = "approve"
      BY <1>1, <1>2 DEF TypeOK, Rejected
    <3>. QED BY <1>2, <3>1 DEF Reviews, SignedApproval, AllReviews
  <2>2. {r[2] : r \in Reviews(d)} = Reviewers(d)
    <3>1. \A h \in Reviewers(d) : <<d, h>> \in Reviews(d) /\ <<d, h>>[2] = h
      BY DEF Reviews, Reviewers
    <3>2. \A r \in Reviews(d) : r[2] \in Reviewers(d)
      BY DEF Reviews, Reviewers
    <3>. QED BY <3>1, <3>2
  <2>. QED BY <1>2, <1>3, <1>4, <2>1, <2>2 DEF VerifyApprovals
<1>9. VerifyExport(x, Pinned(d))
  BY <1>5, <1>6, <1>7, <1>8 DEF VerifyExport
<1>. QED BY <1>9 DEF x

(* A release signed in time, and whatever a recipient has downloaded,      *)
(* passes the offline verifier under the pin of its snapshot.              *)
THEOREM Accepted == Spec => []ReleasedIsAccepted
<1>1. IInv => ReleasedIsAccepted
  <2> SUFFICES ASSUME IInv, NEW d \in Released, ~bundle[d].late \/ d \in Downloaded
               PROVE  VerifyExport(Archive(d), Pinned(d))
    BY DEF ReleasedIsAccepted
  <2>1. ~bundle[d].late
    BY DEF IInv, Bundles
  <2>. QED BY <2>1, ReleaseVerifies
<1>. QED BY <1>1, Inductive, PTL

LEMMA OnlyReleasedVerify ==
  ASSUME IInv,
         NEW s, NEW n \in kept, NEW x \in Archives(s), VerifyExport(x, Checkpoint(n))
  PROVE  \E e \in Released : x = Archive(e) /\ Checkpoint(n) = Pinned(e)
<1>1. PICK d \in Released, e \in Released, f \in Released,
           dropped \in {{}} \cup {{<<g, h>>} : g \in Released, h \in Human},
           files \in {[a \in s.artifacts |-> a], [a \in s.artifacts |-> None]} :
        x = [snapshot |-> s, decision |-> decision[d], approvals |-> Reviews(f) \ dropped,
             receipt |-> Receipt(e), files |-> files]
  BY DEF Archives
<1>2. /\ x.snapshot = s /\ x.decision = decision[d] /\ x.receipt = Receipt(e) /\ x.files = files
      /\ x = [snapshot |-> s, decision |-> decision[d], approvals |-> x.approvals,
              receipt |-> Receipt(e), files |-> files]
  BY <1>1
<1>3. /\ Receipt(e).decision = decision[e] /\ Receipt(e).approvals = bundle[e].approvals
  BY DEF Receipt
<1> HIDE <1>1
<1>4. /\ decision[d] = decision[e] /\ decision[d].snapshot = s
      /\ x.approvals = bundle[e].approvals
  BY <1>2, <1>3 DEF VerifyExport, VerifyScope, VerifyApprovals
<1>5. files = bundle[e].files
  <2>1. bundle[e].files = [a \in s.artifacts |-> a]
    <3>1. e \in Proposed /\ bundle[e].files = [a \in decision[e].artifacts |-> a]
      BY DEF IInv, Bundles, Agreed
    <3>2. decision[e].artifacts = s.artifacts
      BY <1>4, <3>1 DEF IInv, Snapshots
    <3>. QED BY <3>1, <3>2
  <2>2. \A a \in s.artifacts : files[a] = a
    BY <1>2 DEF VerifyExport, VerifyFiles
  <2>. QED BY <1>1, <2>1, <2>2
<1>6. x = Archive(e)
  BY <1>2, <1>4, <1>5 DEF Archive
<1>7. n = Len(s.events)
  BY <1>2 DEF VerifyExport, VerifyChain, Checkpoint
<1>8. Checkpoint(n) = Pinned(e)
  BY <1>4, <1>7 DEF Pinned
<1>. QED BY <1>6, <1>8

(* Nothing put together from signed parts passes the offline verifier,     *)
(* except the releases themselves, each under its own pin.                 *)
THEOREM OnlyAccepted == Spec => OnlyReleasedIsAccepted
<1>1. IInv => OnlyReleased
  BY OnlyReleasedVerify DEF OnlyReleased
<1>2. Spec => []OnlyReleased
  BY <1>1, Inductive, PTL
<1>3. []OnlyReleased => OnlyReleasedIsAccepted
  BY PTL DEF OnlyReleasedIsAccepted
<1>. QED BY <1>2, <1>3

-------------------------------------------------------------------------------
(***************************************************************************)
(* Export and CaseAudit take a transaction for one step, as AtomicLedger   *)
(* promises.  That they use no more than the promise is a refinement: what *)
(* the case's ledger does here, AtomicLedger allows.  A reader is shown as *)
(* verified what the newest retained checkpoint covers, so an event whose  *)
(* checkpoint was lost is never accepted (store.py, verify_ledger).        *)
(***************************************************************************)

\* The longest of some lengths, and that of the newest retained checkpoint.
Latest(lengths) == CHOOSE n \in lengths : \A m \in lengths : m <= n
Newest == Latest(kept)

Ledger == INSTANCE AtomicLedger WITH
  LedgerId <- {"case"},
  Body <- Entry,
  accepted <- [l \in {"case"} |-> First(Newest, log)],
  blocked <- IF trusted THEN {} ELSE {"case"}

\* Every step accepts one whole transaction, blocks the ledger, or leaves it.
TransactionsAreAtomic == [][Ledger!AbsNext]_(Ledger!absVars)

\* Whatever else a step does, it leaves the ledger alone or is one transaction.
LEMMA StepsAreTransactions == IInv /\ [Next]_vars => Grown
<1> SUFFICES ASSUME IInv, [Next]_vars PROVE Grown
  OBVIOUS
<1>0. TypeOK
  BY DEF IInv
<1>1. ASSUME NEW a \in Evidence, Stage(a) PROVE Grown
  BY <1>0, <1>1, TwoEvents, Subjects DEF Stage, Name
<1>2. ASSUME NEW d \in Decision, NEW recipient \in Human, NEW selected \in SUBSET Preserved,
             Propose(d, selected, recipient)
      PROVE  Grown
  <2>1. /\ "artifact.preserved" \in Name /\ SnapshotOf(d) \in Subject
        /\ "decision.proposed" \in Name /\ d \in Subject
    BY Subjects DEF Name
  <2>2. Commit(<<Event("artifact.preserved", SnapshotOf(d)), Event("decision.proposed", d)>>)
    BY <1>2 DEF Propose
  <2> QED
    BY <1>0, <2>1, <2>2, TwoEvents
<1>3. ASSUME NEW d \in Decision, NEW h \in Human, NEW v \in {"approve", "reject"}, Review(d, h, v)
      PROVE  Grown
  BY <1>0, <1>3, OneEvent, Subjects DEF Review, Name
<1>4. ASSUME NEW d \in Decision, NEW h \in Human, Revoke(d, h) PROVE Grown
  BY <1>0, <1>4, OneEvent, Subjects DEF Revoke, Name
<1>5. ASSUME NEW d \in Decision, Expire(d) \/ Authorize(d) PROVE Grown
  BY <1>5 DEF Expire, Authorize, Grown
<1>6. ASSUME NEW d \in Decision, Reserve(d) PROVE Grown
  BY <1>0, <1>6, OneEvent, Subjects DEF Reserve, Name
<1>7. ASSUME NEW d \in Decision, Release(d) PROVE Grown
  <2>1. /\ "artifact.preserved" \in Name /\ BundleOf(d) \in Subject
        /\ "execution.completed" \in Name /\ d \in Subject
    BY Subjects DEF Name
  <2>2. Commit(<<Event("artifact.preserved", BundleOf(d)), Event("execution.completed", d)>>)
    BY <1>7 DEF Release
  <2> QED
    BY <1>0, <2>1, <2>2, TwoEvents
<1>8. ASSUME NEW a \in Preserved, Damage(a) PROVE Grown
  BY <1>8 DEF Damage, Grown
<1>9. CASE Abandon
  <2>1. "execution.failed" \in Name /\ running \in Subject
    BY <1>0, <1>9, Subjects DEF Name, TypeOK, Abandon
  <2>2. UNCHANGED audit \/ Commit(<<Event("execution.failed", running)>>)
    BY <1>9 DEF Abandon
  <2> QED
    BY <1>0, <2>1, <2>2, OneEvent DEF Grown
<1>10. ASSUME NEW h \in Human, NEW a \in Preserved, Download(h, a) PROVE Grown
  <2>1. "artifact.downloaded" \in Name /\ a \in Subject
    <3>1. PICK i \in DOMAIN log : a = log[i].about
      BY DEF Preserved, About
    <3>2. log[i] \in Entry
      BY <1>0, ElementOfSeq, LenProperties DEF TypeOK
    <3> QED
      BY <3>1, <3>2 DEF Entry, Name
  <2>2. Commit(<<Event("artifact.downloaded", a)>>)
    BY <1>10 DEF Download
  <2> QED
    BY <1>0, <2>1, <2>2, OneEvent
<1>11. CASE View
  BY <1>11, PageStep DEF View, IInv
<1>12. CASE UNCHANGED vars
  BY <1>12 DEF vars, Grown
<1> QED
  BY <1>1, <1>2, <1>3, <1>4, <1>5, <1>6, <1>7, <1>8, <1>9, <1>10, <1>11, <1>12 DEF Next

\* The checkpoint of the whole ledger is the newest.
LEMMA LatestIsWhole ==
  ASSUME NEW n \in Nat, NEW lengths, lengths \subseteq 1..n, n \in lengths
  PROVE  Latest(lengths) = n
<1>1. \A m \in lengths : m <= n
  OBVIOUS
<1> DEFINE latest == Latest(lengths)
<1>2. latest \in lengths /\ \A m \in lengths : m <= latest
  BY <1>1 DEF Latest
<1> HIDE DEF latest
<1>3. n <= latest /\ latest <= n /\ latest \in Nat
  BY <1>1, <1>2
<1> QED
  BY <1>3 DEF latest

(* Whatever proposals, reviews, executions, downloads and pages record in  *)
(* a case's ledger, they extend what is verified by whole transactions,    *)
(* and after a lost checkpoint nothing more is accepted.                   *)
THEOREM CaseImplementsLedger == Spec => TransactionsAreAtomic
<1>1. ASSUME IInv, [Next]_vars
      PROVE  [Ledger!AbsNext]_(Ledger!absVars)
  <2> DEFINE accepted == [l \in {"case"} |-> First(Newest, log)]
      blocked == IF trusted THEN {} ELSE {"case"}
  <2>1. CASE UNCHANGED audit
    <3>1. UNCHANGED <<accepted, blocked>>
      BY <2>1 DEF audit, First, Newest
    <3> QED
      BY <3>1 DEF Ledger!absVars
  <2>2. ASSUME NEW events \in Seq(Entry) \ {<<>>}, Commit(events)
        PROVE  Ledger!AbsNext
    <3>2. /\ trusted /\ log \in Seq(Entry) /\ log' = log \o events /\ log' \in Seq(Entry)
          /\ Len(log) < Len(log')
          /\ \A n \in 0..Len(log) : First(n, log') = First(n, log)
      BY <1>1, <2>2, Committed, GrownKeeps DEF IInv, TypeOK, Grown
    <3>3. Newest = Len(log) /\ Len(log) \in Nat
      <4>1. kept \subseteq 1..Len(log) /\ Len(log) \in kept /\ Len(log) \in Nat
        BY <1>1, <3>2, LenProperties DEF IInv, Kept, TypeOK
      <4> QED
        BY <4>1, LatestIsWhole DEF Newest
    <3>4. First(Newest, log) = log
      BY <3>2, <3>3 DEF First
    <3>5. CASE trusted'
      <4>1. (Newest)' = Len(log') /\ Len(log') \in Nat
        <5>1. kept' \subseteq 1..Len(log') /\ Len(log') \in kept' /\ Len(log') \in Nat
          BY <3>2, <3>5, <1>1, <2>2, Committed DEF IInv, Kept
        <5> QED
          BY <5>1, LatestIsWhole DEF Newest
      <4>2. First(Newest, log)' = log'
        BY <3>2, <4>1 DEF First
      <4>3. Ledger!IsPrefix(log, log')
        <5>1. SubSeq(log', 1, Len(log)) = SubSeq(log, 1, Len(log))
          BY <3>2, <3>3 DEF First
        <5> QED
          BY <3>2, <3>3, <4>1, <5>1 DEF Ledger!IsPrefix
      <4>4. accepted["case"] = log /\ accepted'["case"] = log'
        BY <3>4, <4>2
      <4>5. Ledger!Accept("case")
        BY <3>2, <3>5, <4>3, <4>4 DEF Ledger!Accept
      <4> QED
        BY <4>5 DEF Ledger!AbsNext
    <3>6. CASE ~trusted'
      <4>1. UNCHANGED kept
        BY <2>2, <3>2, <3>6 DEF Commit
      <4>2. UNCHANGED First(Newest, log)
        <5>1. (Newest)' = Newest /\ Newest \in 0..Len(log)
          BY <3>3, <4>1 DEF Newest
        <5> QED
          BY <3>2, <5>1 DEF First
      <4>3. Ledger!Block("case")
        BY <3>2, <3>6, <4>2 DEF Ledger!Block
      <4> QED
        BY <4>3 DEF Ledger!AbsNext
    <3> QED
      BY <3>5, <3>6
  <2> QED
    BY <1>1, <2>1, <2>2, StepsAreTransactions DEF Grown
<1> QED
  BY <1>1, Inductive, PTL DEF Spec, TransactionsAreAtomic
===============================================================================
