-------------------------------- MODULE Tools --------------------------------
(***************************************************************************)
(* tools.py: what the tools compute from a policy, a source, rows of       *)
(* evidence or a pack.  They are functions of their input: a behaviour is  *)
(* one call, and the initial states are the inputs.                        *)
(*                                                                         *)
(* A source is given by what strict_json makes of its whole text and of    *)
(* each of its lines.  What an entry of it may be is a string: an object   *)
(* with a valid timestamp ("event") or without ("untimed"), one that is    *)
(* marked as an example, one that repeats a key, or no object ("scalar").  *)
(***************************************************************************)
EXTENDS Naturals, Sequences, FiniteSets, SequencesExt

CONSTANTS
  Calls,       \* bound of the model: the calls that are made
  MaxRecords,  \* how many records a source may have
  None,
  Refused      \* the call raises

VARIABLES
  call,   \* the tool and its input
  answer  \* its result, or None before

\* What a call may carry: lists are lists, users and rows are finitely many, a bare object
\* is its own only entry, and a chunk has one row.
IsSequence(s) == s \in Seq(ToSet(s))

ASSUME CallsAssumption ==
  \A c \in Calls :
    /\ c.tool = "matching_roles" => IsSequence(c.groups) /\ IsFiniteSet(DOMAIN c.roles)
    /\ c.tool = "parse_logs" =>
         /\ IsSequence(c.source.lines) /\ IsSequence(c.source.whole.entries)
         /\ c.source.whole.shape = "bare" => c.source.whole.entries = <<c.source.whole.self>>
    /\ c.tool = "bounded_rows" =>
         /\ c.start \in Nat /\ c.end \in Nat /\ c.limit \in Nat
         /\ IsFiniteSet(c.rows)
         /\ \A r \in c.rows : r.time \in Nat /\ r.chunk \in Nat
         /\ \A r, s \in c.rows : r.chunk = s.chunk => r = s
    /\ c.tool = "validate_pack" =>
         /\ IsSequence(c.rules) /\ IsSequence(c.tests)
         /\ \A k \in DOMAIN c.tests : IsSequence(c.tests[k].expected)

Init == call \in Calls /\ answer = None

-----------------------------------------------------------------------------
\* Mutant: one human may stand for several groups.
MatchingRolesShared(groups, roles) ==
  \A i \in DOMAIN groups : \E u \in DOMAIN roles : roles[u] \cap groups[i] # {}

\* A user who can stand for the first of the last n groups.
CanStand(groups, roles, n, u) == roles[u] \cap groups[Len(groups) - n + 1] # {}

\* The recursion, for each n the sets of users for which it succeeds on the last n groups.
SucceedsFor(groups, roles) ==
  LET matching[n \in 0..Len(groups)] ==
        IF n = 0 THEN SUBSET DOMAIN roles
        ELSE LET before == matching[n - 1] IN
             {users \in SUBSET DOMAIN roles :
                \E u \in users : CanStand(groups, roles, n, u) /\ users \ {u} \in before}
  IN matching

\* Each policy group needs a different human.
MatchingRoles(groups, roles) == DOMAIN roles \in SucceedsFor(groups, roles)[Len(groups)]

-----------------------------------------------------------------------------
\* What strict_json makes of a text: an error, or a value of some shape.  An object is
\* "bare", has a Records or value array ("wrapped") or has something else there
\* ("misfit").  Its entries are the records that it is read as, self is the value taken
\* as one record: a bare object is its own only entry.
Text(shape, entries, self) == [shape |-> shape, entries |-> entries, self |-> self]
Syntax == Text("error", <<>>, "scalar")
Blank == Text("blank", <<>>, "scalar")

\* "Duplicate JSON", which strict_json raises for a repeated key at any depth.
Repeats(t) == "repeated" \in ToSet(t.entries)

\* Mutant: the last of the repeated keys wins.
ParsedLeniently(t) == t.shape # "error"

Parsed(t) == t.shape # "error" /\ ~Repeats(t)

Row(record, kind, i) == [record |-> record, locator |-> <<kind, i>>]

\* The records of a document.
DocumentRows(t) ==
  [i \in DOMAIN t.entries |->
     Row(t.entries[i], IF t.shape = "bare" THEN "whole" ELSE "entry", i)]

\* One record in each line that is not blank, which keeps its number: the rows of the
\* first n lines, for each n.
RowsOfLines(lines) ==
  LET rows[n \in 0..Len(lines)] ==
        IF n = 0 THEN <<>>
        ELSE IF lines[n] = Blank THEN rows[n - 1]
        ELSE Append(rows[n - 1], Row(lines[n].self, "line", n))
  IN rows

LineRows(lines) == RowsOfLines(lines)[Len(lines)]

\* One warning for each row without a valid timestamp, one for a source without rows.
Warnings(rows) ==
  IF rows = <<>> THEN 1 ELSE Cardinality({i \in DOMAIN rows : rows[i].record = "untimed"})

Imported(rows) ==
  IF \/ Len(rows) > MaxRecords
     \/ \E i \in DOMAIN rows : rows[i].record \in {"scalar", "example"}
  THEN Refused
  ELSE [rows |-> rows, warnings |-> Warnings(rows)]

\* A text that is no document of records is read again as JSON lines.
ParseLogs(source) ==
  IF Repeats(source.whole) THEN Refused
  ELSE IF Parsed(source.whole) /\ source.whole.shape \in {"bare", "wrapped", "array"}
       THEN Imported(DocumentRows(source.whole))
  ELSE IF \E i \in DOMAIN source.lines : ~Parsed(source.lines[i])
       THEN Refused
  ELSE Imported(LineRows(source.lines))

-----------------------------------------------------------------------------
\* Rows have a time, 0 if there is none, and match the actor and action filters or not.
\* Mutant: a row without a time is before every end.
InWindowUntimed(r, start, end) ==
  /\ r.matches
  /\ start # 0 => r.time # 0 /\ r.time >= start
  /\ end # 0 => r.time <= end

InWindow(r, start, end) ==
  /\ r.matches
  /\ start # 0 => r.time # 0 /\ r.time >= start
  /\ end # 0 => r.time # 0 /\ r.time <= end

\* Identifiers of chunks break ties.
Before(r, s) == r.time < s.time \/ (r.time = s.time /\ r.chunk < s.chunk)

Sorted(rows) ==
  CHOOSE s \in [1..Cardinality(rows) -> rows] :
    \A i, j \in 1..Cardinality(rows) : i < j => Before(s[i], s[j])

\* bounded_rows
BoundedRows(rows, start, end, limit) ==
  LET matched == {r \in rows : InWindow(r, start, end)}
      sorted == Sorted(matched)
  IN IF start # 0 /\ end # 0 /\ start > end THEN Refused
     ELSE [rows |-> SubSeq(sorted, 1, IF Len(sorted) < limit THEN Len(sorted) ELSE limit),
           matched |-> Cardinality(matched),
           truncated |-> Cardinality(matched) > limit]

-----------------------------------------------------------------------------
Ids(rules) == {rules[i].id : i \in DOMAIN rules}

\* The rules that fire on an event.
Firing(rules, event) == {k \in DOMAIN rules : event[rules[k].field] = rules[k].equals}
IdsFiring(rules, event) == {rules[k].id : k \in Firing(rules, event)}

\* run_pack: which rule cites which row.
RunPack(rules, rows) ==
  {c \in (DOMAIN rows) \X Ids(rules) :
     \E k \in DOMAIN rules : rules[k].id = c[2] /\ rows[c[1]][rules[k].field] = rules[k].equals}

\* What a test expects and what fires have the same identifiers, each as often.
ActsAsExpected(rules, test) ==
  /\ ToSet(test.expected) = IdsFiring(rules, test.event)
  /\ Len(test.expected) = Cardinality(Firing(rules, test.event))

\* Mutant: a pack needs no negative test.
ValidPackAllPositive(rules, tests) ==
  /\ Cardinality(Ids(rules)) = Len(rules)
  /\ Len(tests) >= 2
  /\ \A k \in DOMAIN tests : ActsAsExpected(rules, tests[k])
  /\ UNION {IdsFiring(rules, tests[k].event) : k \in DOMAIN tests} = Ids(rules)

\* validate_pack
ValidPack(rules, tests) ==
  /\ Cardinality(Ids(rules)) = Len(rules)
  /\ Len(tests) >= 2
  /\ \A k \in DOMAIN tests : ActsAsExpected(rules, tests[k])
  /\ UNION {IdsFiring(rules, tests[k].event) : k \in DOMAIN tests} = Ids(rules)
  /\ \E k \in DOMAIN tests : Firing(rules, tests[k].event) = {}

-----------------------------------------------------------------------------
Answer(tool, result) ==
  /\ answer = None
  /\ call.tool = tool
  /\ answer' = result
  /\ UNCHANGED call

Match == Answer("matching_roles", MatchingRoles(call.groups, call.roles))
Parse == Answer("parse_logs", ParseLogs(call.source))
Query == Answer("bounded_rows", BoundedRows(call.rows, call.start, call.end, call.limit))
Validate == Answer("validate_pack", ValidPack(call.rules, call.tests))

Next == Match \/ Parse \/ Query \/ Validate

vars == <<call, answer>>
Spec == Init /\ [][Next]_vars

Answered(tool) == call.tool = tool /\ answer # None

(* The recursion over groups and users finds distinct humans exactly when  *)
(* there are any: any number of groups has at least as many humans who     *)
(* are eligible for one of them (tools.py:90, the policy behind every      *)
(* approval).                                                              *)
EnoughHumans ==
  Answered("matching_roles") =>
    (answer <=>
       \A some \in SUBSET DOMAIN call.groups :
         Cardinality({u \in DOMAIN call.roles :
           \E i \in some : call.roles[u] \cap call.groups[i] # {}}) >= Cardinality(some))

\* Where a locator leads a reader who has the source.
At(source, locator) ==
  IF locator[1] = "line" THEN source.lines[locator[2]].self
  ELSE source.whole.entries[locator[2]]

(* Import leaves out nothing and makes up nothing: the rows of an accepted *)
(* source are all entries of its document or all its lines, each once and  *)
(* in order, and every locator leads back to the record it is said to      *)
(* locate, whichever way the format was recognised.  "Duplicate-key and    *)
(* nonfinite failures must never be hidden by format fallback"             *)
(* (tools.py:139): no text that was read on the way repeats a key.         *)
ImportHidesNothing ==
  Answered("parse_logs") /\ answer # Refused =>
    /\ \A i \in DOMAIN answer.rows :
         At(call.source, answer.rows[i].locator) = answer.rows[i].record
    /\ \A i, j \in DOMAIN answer.rows :
         i < j => answer.rows[i].locator[2] < answer.rows[j].locator[2]
    /\ ~Repeats(call.source.whole)
    /\ \/ /\ Len(answer.rows) = Len(call.source.whole.entries)
          /\ \A i \in DOMAIN answer.rows : answer.rows[i].locator[1] # "line"
       \/ /\ Len(answer.rows) =
               Cardinality({i \in DOMAIN call.source.lines : call.source.lines[i] # Blank})
          /\ \A i \in DOMAIN answer.rows : answer.rows[i].locator[1] = "line"
          /\ \A i \in DOMAIN call.source.lines : ~Repeats(call.source.lines[i])

(* A page of a timeline is honest about what it leaves out: it shows rows  *)
(* of the window only, each once and in the order of their times; a row of *)
(* the window that is not shown is not earlier than any that is, and is    *)
(* announced by "truncated"; a row without a time is in no window that has *)
(* a bound.                                                                *)
TimelineIsHonest ==
  Answered("bounded_rows") /\ answer # Refused =>
    LET shown == ToSet(answer.rows)
        bounded == call.start > 0 \/ call.end > 0
        window == {r \in call.rows : /\ r.matches
                                     /\ bounded => r.time > 0
                                     /\ r.time >= call.start
                                     /\ call.end > 0 => r.time <= call.end}
    IN /\ shown \subseteq window
       /\ Len(answer.rows) = Cardinality(shown)
       /\ \A i, j \in DOMAIN answer.rows : i < j => answer.rows[i].time <= answer.rows[j].time
       /\ \A r \in shown, s \in window \ shown : r.time <= s.time
       /\ answer.truncated <=> shown # window
       /\ answer.matched = Cardinality(window)

(* A pack that is accepted behaves, run on the events of its own tests, as *)
(* the tests say, and the tests say something: every rule cites an event,  *)
(* some event is cited by none, and a citation names one rule.             *)
PackFiresAsTested ==
  Answered("validate_pack") /\ answer =>
    LET events == [k \in DOMAIN call.tests |-> call.tests[k].event]
        cited == RunPack(call.rules, events)
    IN /\ \A k \in DOMAIN events, id \in Ids(call.rules) :
            <<k, id>> \in cited <=> id \in ToSet(call.tests[k].expected)
       /\ \A id \in Ids(call.rules) : \E k \in DOMAIN events : <<k, id>> \in cited
       /\ \E k \in DOMAIN events : \A id \in Ids(call.rules) : <<k, id>> \notin cited
       /\ \A i, j \in DOMAIN call.rules : call.rules[i].id = call.rules[j].id => i = j
=============================================================================
