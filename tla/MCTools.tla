------------------------------- MODULE MCTools -------------------------------
EXTENDS Tools

Role == {"analyst", "supervisor", "admin"}
\* The groups that the policies of the registry use, and one more; up to three of each.
Matchings ==
  [tool : {"matching_roles"},
   groups : BoundedSeq({{"analyst", "supervisor"}, {"supervisor"}, {"admin"}}, 3),
   roles : UNION {[1..n -> (SUBSET Role) \ {{}}] : n \in 0..3}]

Entry == {"event", "untimed", "example", "repeated", "scalar"}
Own == {"event", "untimed", "example"}
Bare == {Text("bare", <<e>>, e) : e \in Entry \ {"scalar"}}
Document ==
  Bare \cup {Text("array", entries, "scalar") : entries \in BoundedSeq(Entry, 3)}
  \cup {Text("wrapped", entries, e) : entries \in BoundedSeq(Entry, 3), e \in Own}
  \cup {Text("misfit", <<e>>, own) : e \in Entry, own \in Own}
  \cup {Text("scalar", <<>>, "scalar")}

\* A document on one line with blank lines around it, a document over several lines,
\* and JSON lines, of which the first may already fail on a repeated key.
Line == Bare \cup {Text("wrapped", <<"event">>, e) : e \in Own}
        \cup {Text("misfit", <<"scalar">>, e) : e \in Own}
        \cup {Text("scalar", <<>>, "scalar"), Syntax}
WholeOf(lines) == IF lines # <<>> /\ Repeats(lines[1]) THEN lines[1] ELSE Syntax
Source ==
  {[whole |-> t, lines |-> lines] : t \in Document, lines \in {<<Syntax, Syntax>>}}
  \cup UNION {{[whole |-> t, lines |-> lines] : lines \in {<<t>>, <<Blank, t, Blank>>}} :
                t \in Document}
  \cup {[whole |-> WholeOf(lines), lines |-> lines] :
          lines \in {<<>>} \cup Line \X Line \cup Line \X Line \X Line}
  \cup {[whole |-> WholeOf(<<s[1], s[2]>>), lines |-> <<s[1], Blank, s[2]>>] :
          s \in Line \X Line}
Imports == [tool : {"parse_logs"}, source : Source]

Chunk(c) == [chunk : {c}, time : 0..3, matches : BOOLEAN]
Queries ==
  [tool : {"bounded_rows"},
   rows : {{a, b, c} : a \in Chunk(1), b \in Chunk(2), c \in Chunk(3)} \cup {{}},
   start : 0..3, end : 0..3, limit : 1..3]

Rule == [id : {"r1", "r2"}, field : {"actor", "action"}, equals : {"x", "y"}]
Event == [actor : {"x", "none"}, action : {"x", "y", "none"}]
Test == [event : Event, expected : BoundedSeq({"r1", "r2"}, 2)]
Packs ==
  [tool : {"validate_pack"}, rules : {<<r>> : r \in Rule} \cup Rule \X Rule,
   tests : {<<t>> : t \in Test} \cup Test \X Test]

MCCalls == Matchings \cup Imports \cup Queries \cup Packs
=============================================================================
